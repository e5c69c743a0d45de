---------------------------- MODULE SuppressionRules ----------------------------
(***************************************************************************)
(* Suppression of occurrences in the ingester: otlp-ingester/src/suppression.ts *)
(* and `admit' of server.ts.  A tenant's rules come with its key; an exporter   *)
(* retries a batch whose writes failed, or whose answer it did not get, and     *)
(* the rules may have changed by then.                                        *)
(***************************************************************************)
EXTENDS Integers, Sequences, FiniteSets, SequencesExt, FiniteSetsExt

CONSTANTS
    Occ,            \* occurrences of one batch
    PropsOf,        \* occurrence -> its properties: key -> value
    Fatal,          \* occurrences of severity fatal
    UnitOf,         \* occurrence -> sampleUnit of its id, in quarters
    RawRule,        \* rules as a validator may send them, broken ones too
    MaxRules,       \* bound: rules of a tenant
    MaxRequests,    \* bound: times a batch is sent
    Letter, Star,   \* characters of a value, and the `*' of a pattern
    MaxGlob         \* bound: length of a pattern and of a value

ASSUME SuppressionAssumption ==
    IsFiniteSet(Occ) /\ Fatal \subseteq Occ /\ {MaxRules, MaxRequests, MaxGlob} \subseteq Nat

VARIABLES
    raw,            \* the rules the key resolver holds
    attempt,        \* the request under way: planned, or none
    attempts,
    kept,           \* of the attempt under way
    stored,         \* history: occurrences stored, per attempt that committed
    suppressedCount, \* records counted as suppressed
    sameRules,      \* history: the rules never changed since the first attempt
    glob            \* the pattern and the value looked at

suppressionVars == <<raw, attempt, attempts, kept, stored, suppressedCount, sameRules, glob>>

SuppressionInit ==
    /\ raw \in UNION {[1 .. n -> RawRule] : n \in 0 .. MaxRules}
    /\ attempt = "none" /\ attempts = 0 /\ kept = {} /\ stored = <<>> /\ suppressedCount = 0
    /\ sameRules = TRUE /\ glob = [pattern |-> <<>>, value |-> <<>>]

(* parseSuppressionRule: a rule is never half-applied.  *)
ValidRule(rule) ==
    /\ rule.action \in {"drop", "sample"} /\ (rule.action = "sample" => rule.rate \in 1 .. 3)
    /\ rule.filters # {} /\ \A f \in rule.filters : f.valid

(* matchingRule: the first rule all of whose filters match.  *)
RuleMatches(rule, o) == \A f \in rule.filters : f.valid => PropsOf[o][f.key] = f.value
Applied(o) == {k \in DOMAIN raw : ValidRule(raw[k]) /\ RuleMatches(raw[k], o)}

(* Mutant of Sampled: a die is thrown for each attempt.  *)
SampledAnew(o, rule) == o \in Fatal \/ (UnitOf[o] + attempts) % 4 < rule.rate
Sampled(o, rule) == o \in Fatal \/ UnitOf[o] < rule.rate

(* applySuppression. *)
Keeps(o) ==
    LET rule == raw[Min(Applied(o))]
    IN  Applied(o) = {} \/ (rule.action = "sample" /\ Sampled(o, rule))

(* The batch arrives: what the rules leave goes on to be written. *)
Plans ==
    /\ attempt = "none" /\ attempts < MaxRequests
    /\ attempt' = "planned" /\ attempts' = attempts + 1 /\ kept' = {o \in Occ : Keeps(o)}
    /\ UNCHANGED <<raw, stored, suppressedCount, sameRules, glob>>

(* commit: the writes succeeded; the suppressed are counted.  The answer may   *)
(* be lost, and the batch sent again.                                         *)
Commits ==
    /\ attempt = "planned" /\ attempt' = "none"
    /\ stored' = Append(stored, kept) /\ suppressedCount' = suppressedCount + Cardinality(Occ \ kept)
    /\ UNCHANGED <<raw, attempts, kept, sameRules, glob>>

RollsBack ==
    /\ attempt = "planned" /\ attempt' = "none"
    /\ UNCHANGED <<raw, attempts, kept, stored, suppressedCount, sameRules, glob>>

(* The validator answers with other rules; the key resolver takes them.      *)
RulesChange(rule) ==
    /\ attempts > 0 /\ sameRules /\ raw' = <<rule>> /\ raw' # raw
    /\ sameRules' = FALSE
    /\ UNCHANGED <<attempt, attempts, kept, stored, suppressedCount, glob>>

(* A pattern of a `matches' filter and a value, one character longer.        *)
Grows(c, inPattern) ==
    /\ attempts = 0 /\ raw = <<>>
    /\ IF inPattern THEN Len(glob.pattern) < MaxGlob /\ glob.value = <<>>
                    ELSE Len(glob.value) < MaxGlob /\ c # Star
    /\ glob' = IF inPattern THEN [glob EXCEPT !.pattern = Append(@, c)] ELSE [glob EXCEPT !.value = Append(@, c)]
    /\ UNCHANGED <<raw, attempt, attempts, kept, stored, suppressedCount, sameRules>>

SuppressionNext ==
    \/ Plans \/ Commits \/ RollsBack
    \/ \E rule \in RawRule : RulesChange(rule)
    \/ \E c \in Letter \cup {Star}, inPattern \in BOOLEAN : Grows(c, inPattern)

SuppressionTypeOK ==
    /\ ToSet(raw) \subseteq RawRule /\ attempts \in 0 .. MaxRequests /\ kept \subseteq Occ
    /\ Len(stored) <= attempts

-----------------------------------------------------------------------------
(* pattern.split("*") *)
Pieces(pattern) ==
    FoldLeft(LAMBDA pieces, c : IF c = Star THEN Append(pieces, <<>>)
                                ELSE [pieces EXCEPT ![Len(pieces)] = Append(@, c)],
             <<(<<>>)>>, pattern)

StartsAt(piece, text, at) ==
    at + Len(piece) <= Len(text) /\ \A i \in 1 .. Len(piece) : text[at + i] = piece[i]

EndsAfter(piece, text, at) == Len(text) - Len(piece) >= at /\ StartsAt(piece, text, Len(text) - Len(piece))

(* globMatch: the pieces between the stars, each at its leftmost place.       *)
GlobMatch(pattern, text) ==
    LET pieces == Pieces(pattern)
        next[i \in 1 .. Len(pieces)] ==     \* where the text goes on after piece i, or -1
            IF i = 1 THEN IF StartsAt(pieces[1], text, 0) THEN Len(pieces[1]) ELSE -1
            ELSE LET places == {p \in next[i - 1] .. Len(text) : StartsAt(pieces[i], text, p)}
                 IN  IF next[i - 1] = -1 \/ places = {} THEN -1
                     ELSE (CHOOSE p \in places : \A q \in places : p <= q) + Len(pieces[i])
        middle == next[Len(pieces) - 1]
    IN  IF Len(pieces) = 1 THEN pattern = text
        ELSE middle # -1 /\ EndsAfter(Last(pieces), text, middle)

(* What a glob means: a star stands for any number of characters; where in    *)
(* the text the first p characters of the pattern may end.                    *)
Means(pattern, text) ==
    LET ends[p \in 0 .. Len(pattern)] ==
            CASE p = 0 -> {0}
              [] p > 0 /\ pattern[p] = Star -> {t \in 0 .. Len(text) : \E u \in ends[p - 1] : u <= t}
              [] OTHER -> {t \in 1 .. Len(text) : t - 1 \in ends[p - 1] /\ text[t] = pattern[p]}
    IN  Len(text) \in ends[Len(pattern)]

(* The glob matcher, which never goes back, finds every match there is.       *)
GlobIsExact == GlobMatch(glob.pattern, glob.value) <=> Means(glob.pattern, glob.value)

(* A batch sent again keeps the occurrences it kept, so that what is sampled    *)
(* out stays out and what is stored is stored by every attempt; a fatal one is *)
(* never sampled out, a broken rule suppresses nothing, and a suppressed       *)
(* occurrence is counted when, and only when, the others have been written.    *)
Broken(rule) == rule.filters = {} \/ \E f \in rule.filters : ~f.valid
RetriesKeepTheSame ==
    /\ sameRules => \A i, j \in DOMAIN stored : stored[i] = stored[j]
    /\ \A i \in DOMAIN stored : sameRules =>
         /\ (\A k \in DOMAIN raw : raw[k].action # "drop") => Fatal \subseteq stored[i]
         /\ (\A k \in DOMAIN raw : Broken(raw[k])) => stored[i] = Occ
    /\ suppressedCount = FoldLeft(LAMBDA n, s : n + Cardinality(Occ \ s), 0, stored)
=============================================================================
