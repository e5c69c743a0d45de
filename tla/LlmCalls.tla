-------------------------------- MODULE LlmCalls --------------------------------
(***************************************************************************)
(* LLM calls as runtime-node records them: through an instrumented client     *)
(* (llm-instrument.ts), in a function given to autter.llm (runLlmSpan) or      *)
(* after the fact (recordLlmCall).  Each call has a span, and its tokens are    *)
(* rolled up into the operation around it.  A stream's span stays open until   *)
(* the application has read it, through however many iterators it opens.       *)
(***************************************************************************)
EXTENDS Integers, Sequences, FiniteSets, FiniteSetsExt

CONSTANTS
    LlmCall,        \* calls of one operation
    ChunkUsage,     \* usages a chunk or a result may carry
    MaxReads        \* bound: chunks read of one stream

ASSUME LlmAssumption ==
    IsFiniteSet(LlmCall) /\ ChunkUsage \subseteq [in : Nat, out : Nat] /\ MaxReads \in Nat

(* 0 stands for a number of tokens nobody reported.  *)
NoUsage == [in |-> 0, out |-> 0]

VARIABLES
    call,           \* per call: how it is made and where it stands
    llmSpan,        \* per call: its span, open or ended, with the tokens on it
    seen,           \* per call: wrapStream's `seen', runLlmSpan's `usage'
    streamEnded,    \* per call: wrapStream's `ended'
    reading,        \* per call: next() calls the application waits for
    reads,          \* per call: chunks read
    rollup,         \* autter.operation.ai
    sealed,         \* the operation's summary has been written
    spanEnds,       \* history, per call: how often its span was ended
    rolled          \* history, per call: the usages rolled up

llmVars == <<call, llmSpan, seen, streamEnded, reading, reads, rollup, sealed, spanEnds, rolled>>

OpenSpan == [open |-> TRUE, in |-> 0, out |-> 0]

LlmInit ==
    /\ call = [c \in LlmCall |-> "none"] /\ seen = [c \in LlmCall |-> NoUsage]
    /\ llmSpan = [c \in LlmCall |-> [OpenSpan EXCEPT !.open = FALSE]]
    /\ streamEnded = [c \in LlmCall |-> FALSE] /\ reading = [c \in LlmCall |-> 0]
    /\ reads = [c \in LlmCall |-> 0] /\ spanEnds = [c \in LlmCall |-> 0]
    /\ rollup = [calls |-> 0, in |-> 0, out |-> 0] /\ sealed = FALSE
    /\ rolled = [c \in LlmCall |-> <<>>]

(* setAttribute for what is known; attributes set after the end are dropped.   *)
WithUsage(span, usage) ==
    [span EXCEPT !.in = IF usage.in # 0 THEN usage.in ELSE @, !.out = IF usage.out # 0 THEN usage.out ELSE @]
Folded(old, usage) ==
    [in |-> IF usage.in # 0 THEN usage.in ELSE old.in, out |-> IF usage.out # 0 THEN usage.out ELSE old.out]

(* recordOperationAiUsage, addAiUsage: nothing without an operation.           *)
RollUp(c, usage) ==
    /\ rolled' = [rolled EXCEPT ![c] = Append(@, usage)]
    /\ rollup' = IF sealed THEN rollup
                 ELSE [calls |-> rollup.calls + 1, in |-> rollup.in + usage.in, out |-> rollup.out + usage.out]

EndLlmSpan(c, usage) ==
    /\ llmSpan' = [llmSpan EXCEPT ![c] = [WithUsage(@, usage) EXCEPT !.open = FALSE]]
    /\ spanEnds' = [spanEnds EXCEPT ![c] = @ + 1]

-----------------------------------------------------------------------------
(* traceCall: the client throws, returns, or hands out a promise.            *)
Calls(c) ==
    /\ call[c] = "none"
    /\ call' = [call EXCEPT ![c] = "asked"] /\ llmSpan' = [llmSpan EXCEPT ![c] = OpenSpan]
    /\ UNCHANGED <<seen, streamEnded, reading, reads, rollup, sealed, spanEnds, rolled>>

(* A failed call ends the span and is not rolled up. *)
CallFails(c) ==
    /\ call[c] = "asked" /\ call' = [call EXCEPT ![c] = "failed"] /\ EndLlmSpan(c, NoUsage)
    /\ UNCHANGED <<seen, streamEnded, reading, reads, rollup, sealed, rolled>>

CallReturns(c, usage) ==
    /\ call[c] = "asked" /\ call' = [call EXCEPT ![c] = "over"]
    /\ EndLlmSpan(c, usage) /\ RollUp(c, usage)
    /\ UNCHANGED <<seen, streamEnded, reading, reads, sealed>>

(* wrapStream: an async iterable, at once or from the promise. *)
StreamReturned(c) ==
    /\ call[c] = "asked" /\ call' = [call EXCEPT ![c] = "stream"]
    /\ UNCHANGED <<llmSpan, seen, streamEnded, reading, reads, rollup, sealed, spanEnds, rolled>>

(* Mutant of Finish: whichever iterator ends, ends the span. *)
FinishAgain(c) ==
    /\ streamEnded' = [streamEnded EXCEPT ![c] = TRUE] /\ EndLlmSpan(c, seen[c]) /\ RollUp(c, seen[c])

(* finish: the first end of the stream, by whichever iterator, counts.        *)
Finish(c) ==
    IF streamEnded[c] THEN UNCHANGED <<streamEnded, llmSpan, spanEnds, rollup, rolled>>
    ELSE /\ streamEnded' = [streamEnded EXCEPT ![c] = TRUE]
         /\ EndLlmSpan(c, seen[c]) /\ RollUp(c, seen[c])

(* next() of an iterator: asked for, then a chunk, the end, or an error, by   *)
(* when another iterator or a return() may have finished the stream.         *)
AsksNext(c) ==
    /\ call[c] = "stream" /\ reading[c] < 2 /\ reads[c] < MaxReads
    /\ reading' = [reading EXCEPT ![c] = @ + 1] /\ reads' = [reads EXCEPT ![c] = @ + 1]
    /\ UNCHANGED <<call, llmSpan, seen, streamEnded, rollup, sealed, spanEnds, rolled>>
ChunkArrives(c, usage) ==
    /\ reading[c] > 0 /\ reading' = [reading EXCEPT ![c] = @ - 1]
    /\ seen' = [seen EXCEPT ![c] = Folded(@, usage)]
    /\ UNCHANGED <<call, llmSpan, streamEnded, reads, rollup, sealed, spanEnds, rolled>>
StreamEnds(c) ==        \* done, or next() rejects
    /\ reading[c] > 0 /\ reading' = [reading EXCEPT ![c] = @ - 1] /\ Finish(c)
    /\ UNCHANGED <<call, seen, reads, sealed>>

(* return() of an iterator that is left early, throw() of one.                *)
LeavesStream(c) ==
    /\ call[c] = "stream" /\ Finish(c)
    /\ UNCHANGED <<call, seen, reading, reads, sealed>>

(* runLlmSpan: the function sets usage while it runs, and then either way the  *)
(* span ends and the usage is rolled up.                                      *)
RunsWrapped(c) ==
    /\ call[c] = "none"
    /\ call' = [call EXCEPT ![c] = "wrapped"] /\ llmSpan' = [llmSpan EXCEPT ![c] = OpenSpan]
    /\ UNCHANGED <<seen, streamEnded, reading, reads, rollup, sealed, spanEnds, rolled>>
SetsUsage(c, usage) ==
    /\ call[c] \in {"wrapped", "settled"} /\ reads[c] < MaxReads
    /\ reads' = [reads EXCEPT ![c] = @ + 1] /\ seen' = [seen EXCEPT ![c] = Folded(@, usage)]
    /\ llmSpan' = IF llmSpan[c].open THEN [llmSpan EXCEPT ![c] = WithUsage(@, usage)] ELSE llmSpan
    /\ UNCHANGED <<call, streamEnded, reading, rollup, sealed, spanEnds, rolled>>
WrappedSettles(c) ==
    /\ call[c] = "wrapped" /\ call' = [call EXCEPT ![c] = "settled"]
    /\ EndLlmSpan(c, NoUsage) /\ RollUp(c, seen[c])
    /\ UNCHANGED <<seen, streamEnded, reading, reads, sealed>>

(* recordLlmCall: rolled up first, then a span of its own. *)
RecordsCall(c, usage) ==
    /\ call[c] = "none" /\ call' = [call EXCEPT ![c] = "over"]
    /\ EndLlmSpan(c, usage) /\ RollUp(c, usage)
    /\ UNCHANGED <<seen, streamEnded, reading, reads, sealed>>

OperationSeals ==
    /\ ~sealed /\ sealed' = TRUE
    /\ UNCHANGED <<call, llmSpan, seen, streamEnded, reading, reads, rollup, spanEnds, rolled>>

LlmNext ==
    \/ OperationSeals
    \/ \E c \in LlmCall :
          \/ Calls(c) \/ CallFails(c) \/ StreamReturned(c)
          \/ AsksNext(c) \/ StreamEnds(c) \/ LeavesStream(c) \/ RunsWrapped(c) \/ WrappedSettles(c)
          \/ \E usage \in ChunkUsage :
                CallReturns(c, usage) \/ ChunkArrives(c, usage) \/ SetsUsage(c, usage) \/ RecordsCall(c, usage)

LlmTypeOK ==
    /\ \A c \in LlmCall : /\ call[c] \in {"none", "asked", "failed", "stream", "wrapped", "settled", "over"}
                          /\ reading[c] \in 0 .. 2 /\ seen[c].in \in Nat /\ seen[c].out \in Nat
    /\ rollup.calls <= Cardinality(LlmCall)

-----------------------------------------------------------------------------
Over(c) == call[c] \in {"failed", "settled", "over"} \/ streamEnded[c]

UsageOnce(c) ==
    /\ spanEnds[c] = (IF Over(c) THEN 1 ELSE 0) /\ (Over(c) => ~llmSpan[c].open)
    /\ Len(rolled[c]) = (IF Over(c) /\ call[c] # "failed" THEN 1 ELSE 0)
    /\ \A i \in 1 .. Len(rolled[c]) : rolled[c][i] = [in |-> llmSpan[c].in, out |-> llmSpan[c].out]
SumRolled(field) ==
    MapThenSumSet(LAMBDA c : IF rolled[c] = <<>> THEN 0 ELSE Head(rolled[c])[field], LlmCall)

(* However a call is made, and however many iterators of its stream end, are   *)
(* left or fail: its span is open until it is over, ends once, and what is     *)
(* rolled up is what the span says, once; until the operation is sealed its    *)
(* totals are those of the calls that are over.                              *)
TokensCountedOnce ==
    /\ \A c \in LlmCall : UsageOnce(c)
    /\ ~sealed => rollup = [calls |-> Cardinality({c \in LlmCall : rolled[c] # <<>>}),
                            in |-> SumRolled("in"), out |-> SumRolled("out")]
=============================================================================
