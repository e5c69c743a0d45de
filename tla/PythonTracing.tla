------------------------------ MODULE PythonTracing ------------------------------
(***************************************************************************)
(* The span processors of adapters/python/autter_tracing.py: CountRequests    *)
(* counts every HTTP server request in a histogram, RetainErrorTraces keeps   *)
(* the spans of unsampled traces and exports them once one of them errs.     *)
(* Threads end spans; a lock guards the buffer and the spans it lets go are   *)
(* exported outside of it.  A worker process may fork.                        *)
(***************************************************************************)
EXTENDS Integers, Sequences, FiniteSets, SequencesExt, FiniteSetsExt

CONSTANTS
    PySpan,         \* spans
    PyTraceOf,      \* span -> its trace
    LocalRoot,      \* spans without a parent in the service
    ServerSpan,     \* spans of kind SERVER with a method
    PyThread,       \* threads of one process
    Worker,         \* processes: the first, and its fork
    PerTrace,       \* max_spans_per_trace
    MaxKept,        \* max_buffered_spans
    TraceLife,      \* trace_ttl_seconds
    SweepInterval,
    MaxPyTime       \* bound of the clock

ASSUME PyAssumption ==
    /\ Worker # {} /\ "none" \notin Worker
    /\ LocalRoot \cup ServerSpan \subseteq PySpan
    /\ MaxKept \in Nat \ {0} /\ {PerTrace, SweepInterval} \subseteq Nat

First == CHOOSE w \in Worker : TRUE

VARIABLES
    counting,       \* init_tracing made a meter provider
    sampled,        \* traces the head sampler keeps
    pyClock,
    forked,         \* the workers that run
    traces,         \* per worker: _traces, in insertion order
    kept,           \* per worker: _buffered
    nextSweep,      \* per worker: _next_sweep
    sending,        \* per worker and thread: spans on their way out of on_end
    ended,          \* per span: the worker it ended in and its error
    exported,       \* per span: how often the exporting processor got it
    lost,           \* history: spans dropped from a buffer or never put in
    points          \* the request histogram: the requests with a point

pyVars == <<counting, sampled, pyClock, forked, traces, kept, nextSweep, sending,
            ended, exported, lost, points>>

NotEnded == [worker |-> "none", error |-> "none"]
PyTraces == {PyTraceOf[s] : s \in PySpan}

(* RecordUnsampled: every trace is recorded, some are sampled too. *)
Decisions == SUBSET PyTraces

(* request_meter_provider: none for an exporter that prefers no deltas. *)
Counts(asks, registered, delta) == asks /\ ~registered /\ delta

(* init_tracing with set_global: request counts need a flag, no other meter   *)
(* provider and an exporter that prefers deltas.                             *)
PyInit ==
    /\ \E asks, registered, delta \in BOOLEAN : counting = Counts(asks, registered, delta)
    /\ sampled \in Decisions
    /\ pyClock = 0 /\ forked = {First} /\ traces = [w \in Worker |-> <<>>]
    /\ kept = [w \in Worker |-> 0] /\ nextSweep = [w \in Worker |-> SweepInterval]
    /\ sending = [w \in Worker |-> [t \in PyThread |-> <<>>]]
    /\ ended = [s \in PySpan |-> NotEnded]
    /\ exported = [s \in PySpan |-> 0] /\ lost = {} /\ points = {}

(* _is_error: ERROR status or an exception event. *)
PyError(error) == error \in {"status", "event"}

SpansIn(entries) == MapThenSumSet(LAMBDA i : Len(entries[i].spans), DOMAIN entries)
(* What is left of the OrderedDict at some of its places, in its order. *)
LeftAt(entries, places) ==
    [k \in 1..Cardinality(places) |->
        entries[CHOOSE i \in places : Cardinality({j \in places : j < i}) = k - 1]]
Without(entries, dropped) == LeftAt(entries, {i \in DOMAIN entries : entries[i].trace \notin dropped})
SpansOf(entries) == UNION {ToSet(e.spans) : e \in entries}

(* _sweep, when it is due: traces first seen a lifetime ago go.                *)
PySwept(w) ==
    IF pyClock < nextSweep[w] THEN traces[w]
    ELSE LeftAt(traces[w], {i \in DOMAIN traces[w] : traces[w][i].first > pyClock - TraceLife})

(* _entry: the oldest goes when there are too many. *)
WithEntry(entries, trace) ==
    IF \E i \in DOMAIN entries : entries[i].trace = trace THEN entries
    ELSE Append(IF Len(entries) >= MaxKept THEN Tail(entries) ELSE entries,
                [trace |-> trace, spans |-> <<>>, retained |-> FALSE, first |-> pyClock])

(* _evict_over_budget: whole traces with spans, the oldest first, and no more  *)
(* than it takes.                                                            *)
EvictOverBudget(entries) ==
    LET holders == LeftAt(entries, {i \in DOMAIN entries : entries[i].spans # <<>>})
        Left(n) == Without(entries, {holders[i].trace : i \in 1..n})
    IN  Left(Min({n \in 0..Len(holders) : SpansIn(Left(n)) <= MaxKept}))

Put(entries, trace, entry) ==
    [i \in DOMAIN entries |-> IF entries[i].trace = trace THEN entry ELSE entries[i]]

(* RetainErrorTraces.on_end under the lock, for an unsampled span: the        *)
(* buffer it leaves and the spans to forward.                                *)
Retained(w, s, error) ==
    LET trace == PyTraceOf[s]
        entries == WithEntry(PySwept(w), trace)
        entry == CHOOSE e \in ToSet(entries) : e.trace = trace
        after == CASE entry.retained -> [traces |-> entries, forward |-> <<s>>]
                   [] ~entry.retained /\ PyError(error) ->
                        [traces |-> Put(entries, trace, [entry EXCEPT !.retained = TRUE, !.spans = <<>>]),
                         forward |-> Append(entry.spans, s)]
                   [] ~entry.retained /\ ~PyError(error) /\ Len(entry.spans) < PerTrace ->
                        [traces |-> EvictOverBudget(Put(entries, trace, [entry EXCEPT !.spans = Append(@, s)])),
                         forward |-> <<>>]
                   [] OTHER -> [traces |-> entries, forward |-> <<>>]
        healthy == s \in LocalRoot /\ ~entry.retained /\ ~PyError(error)
    IN  [after EXCEPT !.traces = IF healthy THEN Without(@, {trace}) ELSE @]

(* on_end of both processors: the request's point, then straight through when  *)
(* sampled, or through the buffer.  Which idle thread makes no difference.   *)
SpanEnds(w, t, s, error) ==
    /\ w \in forked /\ sending[w][t] = <<>> /\ ended[s] = NotEnded
    /\ t = CHOOSE idle \in PyThread : sending[w][idle] = <<>>
    /\ ended' = [ended EXCEPT ![s] = [worker |-> w, error |-> error]]
    /\ points' = IF counting /\ s \in ServerSpan \cap LocalRoot THEN points \cup {s} ELSE points
    /\ IF PyTraceOf[s] \in sampled
       THEN /\ exported' = [exported EXCEPT ![s] = @ + 1]
            /\ UNCHANGED <<traces, kept, nextSweep, sending, lost>>
       ELSE LET after == Retained(w, s, error) IN
            /\ traces' = [traces EXCEPT ![w] = after.traces]
            /\ kept' = [kept EXCEPT ![w] = @ + SpansIn(after.traces) - SpansIn(traces[w])]
            /\ nextSweep' = [nextSweep EXCEPT ![w] = IF pyClock >= @ THEN pyClock + SweepInterval ELSE @]
            /\ sending' = [sending EXCEPT ![w][t] = after.forward]
            /\ lost' = lost \cup ((SpansOf(ToSet(traces[w])) \cup {s})
                                   \ (SpansOf(ToSet(after.traces)) \cup ToSet(after.forward)))
            /\ UNCHANGED exported
    /\ UNCHANGED <<counting, sampled, pyClock, forked>>

(* The loop after the lock: one retained span at a time. *)
Forwards(w, t) ==
    /\ sending[w][t] # <<>>
    /\ exported' = [exported EXCEPT ![Head(sending[w][t])] = @ + 1]
    /\ sending' = [sending EXCEPT ![w][t] = Tail(@)]
    /\ UNCHANGED <<counting, sampled, pyClock, forked, traces, kept, nextSweep, ended, lost, points>>

(* _at_fork_reinit, in the child. *)
AfterFork(w) == traces' = [traces EXCEPT ![w] = <<>>] /\ kept' = [kept EXCEPT ![w] = 0]

Forks(w) ==
    /\ w \notin forked /\ forked' = forked \cup {w} /\ AfterFork(w)
    /\ nextSweep' = [nextSweep EXCEPT ![w] = pyClock + SweepInterval]
    /\ UNCHANGED <<counting, sampled, pyClock, sending, ended, exported, lost, points>>

PyTick ==
    /\ pyClock < MaxPyTime /\ pyClock' = pyClock + 1
    /\ UNCHANGED <<counting, sampled, forked, traces, kept, nextSweep, sending, ended, exported, lost, points>>

PyNext ==
    \/ PyTick
    \/ \E w \in Worker :
          \/ Forks(w)
          \/ \E t \in PyThread :
                \/ Forwards(w, t)
                \/ \E s \in PySpan, error \in {"none", "status", "event"} : SpanEnds(w, t, s, error)

PyTypeOK ==
    /\ \A w \in Worker : kept[w] = SpansIn(traces[w]) /\ kept[w] <= MaxKept /\ Len(traces[w]) <= MaxKept
    /\ forked \subseteq Worker /\ nextSweep \in [Worker -> Nat]
    /\ points = {s \in ServerSpan \cap LocalRoot : counting /\ ended[s] # NotEnded}

-----------------------------------------------------------------------------
UnderWay == UNION {UNION {ToSet(sending[w][t]) : t \in PyThread} : w \in Worker}
HeldIn(w) == SpansOf(ToSet(traces[w]))

(* Whatever thread or process ends it, a span is in one place: waiting for its  *)
(* trace, on its way out, exported once, or dropped.                           *)
PySpansInOnePlace ==
    \A s \in PySpan :
        exported[s] + Cardinality({s} \cap UnderWay) + Cardinality({s} \cap lost)
            + Cardinality({w \in Worker : s \in HeldIn(w)}) = (IF ended[s] = NotEnded THEN 0 ELSE 1)

(* An error is exported, sampled or not, and what its trace had kept goes with *)
(* it: of that trace only later arrivals wait.                               *)
PyErrorsExported ==
    \A s \in PySpan : ended[s].error \in {"status", "event"} =>
        /\ s \in UnderWay \/ exported[s] > 0
        /\ \A e \in ToSet(traces[ended[s].worker]) : e.retained => e.spans = <<>>
=============================================================================
