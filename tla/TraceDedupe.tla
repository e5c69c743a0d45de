----------------------------- MODULE TraceDedupe -----------------------------
(***************************************************************************)
(* One error is recorded on several spans of a trace as it propagates, by  *)
(* several instrumentations; otlp-ingester/src/trace-dedupe.ts keeps one   *)
(* occurrence per thrown error of an export batch.  The spans here throw,  *)
(* catch, retry and fail, recording what a real program records, so that   *)
(* what the pass makes of the batch can be compared with what was thrown.  *)
(*                                                                         *)
(* All errors of the batch have the type and message of the same failure   *)
(* (a retried call); their stacks are those of the code that threw, or     *)
(* missing.  Merged attributes are left out.                               *)
(***************************************************************************)
EXTENDS Integers, Sequences, FiniteSets, SequencesExt, FiniteSetsExt, Functions

CONSTANTS
    Span,           \* the spans of one trace
    ParentOf,       \* [Span -> Span \cup {NoSpan}]
    NoSpan,
    SdkSpans,       \* the spans the Autter SDK records on (autterCapture)
    Window,         \* DUPLICATE_WINDOW_MS, in ticks
    LongestWay,     \* the longest an error takes to leave the trace
    MaxThrows,      \* bound: errors thrown
    MaxTraceTicks   \* bound: clock

ASSUME TraceAssumption ==
    /\ IsFiniteSet(Span) /\ NoSpan \notin Span /\ ParentOf \in [Span -> Span \cup {NoSpan}]
    /\ MaxThrows \in Nat /\ MaxTraceTicks \in Nat
    /\ \E rank \in [Span -> 0 .. Cardinality(Span)] :
          \A s \in Span : ParentOf[s] # NoSpan => rank[ParentOf[s]] < rank[s]

\* An attempt that starts in the tick of the last recording of the one before
\* takes its place in its group; after several in a row the last finds room
\* in the first one's group only, so they must all be within the window.
ASSUME RetriesAssumption ==
    Window \in Nat /\ LongestWay \in Nat /\ MaxThrows * LongestWay <= Window

VARIABLES
    signals,    \* the batch: [span, at, kind, stack, sdk, handled, throw]
    flying,     \* the error being propagated: [throw, span, stack] or NoThrow
    thrown,     \* errors thrown so far
    traceAt,    \* clock
    exported,   \* the batch was exported
    newest,     \* the batch lists the newest recording first
    groups      \* the groups of recordings the pass made of it

tdVars == <<signals, flying, thrown, traceAt, exported, newest, groups>>
NoThrow == [throw |-> 0, span |-> NoSpan, stack |-> NoSpan]

TdInit == signals = <<>> /\ flying = NoThrow /\ thrown = 0 /\ traceAt = 0 /\ exported = FALSE /\ groups = <<>>
          /\ newest \in BOOLEAN

-----------------------------------------------------------------------------
(* What the program records. *)

Signal(span, kind, stack, handled, throw) ==
    [span |-> span, at |-> traceAt, kind |-> kind, stack |-> stack,
     sdk |-> span \in SdkSpans, handled |-> handled, throw |-> throw]

\* A batch lists spans as they ended, which is not the order of recording.
Listed(x) == IF newest THEN <<x>> \o signals ELSE Append(signals, x)

\* The retried call fails: an error is thrown in an innermost span.
Throw(s) ==
    /\ ~exported /\ s \notin Range(ParentOf) /\ flying = NoThrow /\ thrown < MaxThrows
    /\ thrown' = thrown + 1
    /\ \E handled \in BOOLEAN :
         /\ signals' = Listed(Signal(s, "exception", "code", handled, thrown + 1))
         /\ flying' = IF handled THEN NoThrow ELSE [throw |-> thrown + 1, span |-> s, stack |-> "code"]
    /\ UNCHANGED <<traceAt, exported, newest, groups>>

\* It leaves the span for its parent, where it is recorded again.
Propagate ==
    /\ ~exported /\ flying # NoThrow /\ ParentOf[flying.span] # NoSpan
    /\ LET up == ParentOf[flying.span] IN
       \E stack \in {flying.stack, NoSpan} :
         /\ signals' = Listed(Signal(up, "exception", stack, FALSE, flying.throw))
         /\ flying' = [flying EXCEPT !.span = up]
    /\ UNCHANGED <<thrown, traceAt, exported, newest, groups>>

\* A retry loop or an error handler catches it.
Catch ==
    /\ ~exported /\ flying # NoThrow /\ flying' = NoThrow
    /\ UNCHANGED <<signals, thrown, traceAt, exported, newest, groups>>

\* An error leaves the trace soon: an error handler that awaits takes
\* milliseconds, seconds at most.
TraceTick ==
    /\ ~exported /\ traceAt < MaxTraceTicks /\ traceAt' = traceAt + 1
    /\ \A x \in Range(signals) :
          x.throw = flying.throw => traceAt + 1 - x.at <= LongestWay
    /\ UNCHANGED <<signals, flying, thrown, exported, newest, groups>>

-----------------------------------------------------------------------------
(* SpanTree: ancestors through the parent links of the batch.              *)

SpanTree ==
    LET f[n \in 0 .. Cardinality(Span)] ==
            [s \in Span |-> IF n = 0 \/ ParentOf[s] = NoSpan THEN {}
                            ELSE {ParentOf[s]} \cup f[n - 1][ParentOf[s]]]
    IN  f[Cardinality(Span)]
Ancestors(s) == SpanTree[s]
Depth(s) == Cardinality(Ancestors(s))

\* Mutant: any two spans of the trace count as related.
RelatedAny(a, b) == a # b
Related(a, b) == a # b /\ (a \in Ancestors(b) \/ b \in Ancestors(a))

\* stacksMatch: a side without a stack is no evidence against.
StacksMatch(a, b) == a.stack = b.stack \/ NoSpan \in {a.stack, b.stack}

Matches(a, b) == Related(a.span, b.span) /\ StacksMatch(a, b)

-----------------------------------------------------------------------------
(* Rule 1: recordings are grouped greedily in time order.                  *)

Recordings == {i \in DOMAIN signals : signals[i].kind = "exception"}

\* Time order; at one instant the inner span first, then batch order.
Before(i, j) ==
    LET x == signals[i] y == signals[j] IN
    \/ x.at < y.at
    \/ x.at = y.at /\ Depth(x.span) > Depth(y.span)
    \/ x.at = y.at /\ Depth(x.span) = Depth(y.span) /\ i < j
Ordered ==
    [k \in 1 .. Cardinality(Recordings) |->
        CHOOSE i \in Recordings : Cardinality({j \in Recordings : Before(j, i)}) = k - 1]

LastAt(group) == Max({signals[m].at : m \in group})

\* Mutant: two events on one span may be one error.
EligibleSameSpan(group, i) ==
    /\ signals[i].at - LastAt(group) <= Window
    /\ \A m \in group : Matches(signals[i], signals[m]) \/ signals[i].span = signals[m].span
\* Open, no member on this span, and every member matches.
Eligible(group, i) ==
    /\ signals[i].at - LastAt(group) <= Window
    /\ \A m \in group : Matches(signals[i], signals[m])

\* The eligible group with the most recent recording, the oldest of those.
Join(open, i) ==
    LET fit == {g \in DOMAIN open : Eligible(open[g], i)}
        latest == {g \in fit : \A h \in fit : LastAt(open[h]) <= LastAt(open[g])}
    IN  IF fit = {} THEN Append(open, {i})
        ELSE [open EXCEPT ![Min(latest)] = @ \cup {i}]

Groups == FoldLeft(Join, <<>>, Ordered)

\* The survivor: the SDK's recording, then the one nearest the root.
Kept(group) ==
    LET rank(i) == IF signals[i].sdk THEN 1 ELSE 0
        better(i, j) == \/ rank(i) > rank(j)
                        \/ rank(i) = rank(j) /\ Depth(signals[i].span) < Depth(signals[j].span)
                        \/ rank(i) = rank(j) /\ Depth(signals[i].span) = Depth(signals[j].span) /\ i < j
    IN  CHOOSE i \in group : \A j \in group \ {i} : better(i, j)

-----------------------------------------------------------------------------
(* Rule 2: a status-only signal an error on its chain explains is dropped. *)

\* Mutant: a handled error explains a failed span too.
ExplainingHandled(x) == x.kind # "status"
Explaining(x) == x.kind # "status" /\ ~x.handled

Redundant(i) ==
    /\ signals[i].kind = "status"
    /\ \E x \in Range(signals) :
          Explaining(x) /\ (x.span = signals[i].span \/ Related(x.span, signals[i].span))

Survivors ==
    {Kept(g) : g \in Range(groups)}
        \cup {i \in DOMAIN signals : signals[i].kind = "status" /\ ~Redundant(i)}

\* The batch leaves. A span without an exception event may have failed all
\* the same: its status is a signal of its own (HttpServerError, SpanError).
ExportBatch ==
    /\ ~exported /\ flying = NoThrow /\ exported' = TRUE
    /\ \E failed \in SUBSET {s \in Span : \A x \in Range(signals) : x.span # s} :
          signals' = signals \o SetToSeq({Signal(s, "status", NoSpan, FALSE, 0) : s \in failed})
    /\ groups' = Groups
    /\ UNCHANGED <<flying, thrown, traceAt, newest>>

TdNext ==
    \/ Propagate \/ Catch \/ TraceTick \/ ExportBatch
    \/ \E s \in Span : Throw(s)

-----------------------------------------------------------------------------
TdTypeOK ==
    /\ thrown \in 0 .. MaxThrows /\ traceAt \in 0 .. MaxTraceTicks
    /\ flying.span \in Span \cup {NoSpan}
    /\ \A x \in Range(signals) : x.span \in Span /\ x.throw \in 0 .. thrown

(* However often, where and by whom one error was recorded on its way out, *)
(* and however fast it was retried, the batch yields one occurrence per    *)
(* thrown error.                                                           *)
OneOccurrencePerThrow ==
    exported => Cardinality({i \in Survivors : signals[i].kind = "exception"}) = thrown

(* Merging and dropping never silence a failure: each recording is in      *)
(* exactly one group, and a failed span is left out only when an error     *)
(* nobody handled, on its own chain, is kept.                              *)
NothingSilenced ==
    exported =>
        /\ \A i \in Recordings : Cardinality({g \in DOMAIN groups : i \in groups[g]}) = 1
        /\ \A i \in DOMAIN signals \ Survivors : signals[i].kind = "status" =>
              \E j \in Recordings : /\ ~signals[j].handled
                                    /\ Related(signals[i].span, signals[j].span) \/ signals[i].span = signals[j].span

(* Each attempt of a retry loop, recorded on its own span and again on the *)
(* parent, is merged with its own parent recording.                        *)
PairsWithItsOwn ==
    exported => \A g \in Range(groups) : Cardinality({signals[i].throw : i \in g}) = 1
=============================================================================
