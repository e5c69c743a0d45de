---------------------------- MODULE OperationLogger ----------------------------
(***************************************************************************)
(* Requests and operations of the Node SDK (logger.ts, requests.ts), with    *)
(* initAutterServer() configured: each one ends with one summary record,     *)
(* which seals it.  Code runs in the context of an operation (AsyncLocal-    *)
(* Storage) also after that operation is sealed: `store' below is the        *)
(* operation whose context the calling code runs in.                         *)
(***************************************************************************)
EXTENDS Naturals, Sequences, FiniteSets

CONSTANTS
    Operation,
    Thrown,         \* what code throws or captures
    ExpectedErrors, \* coded errors that declare expected: true
    FalsyErrors,    \* throw undefined, throw null, throw 0
    MaxLines,       \* bound: records an operation emits before its summary
    NoOp

ASSUME OperationAssumption ==
    /\ ExpectedErrors \cup FalsyErrors \subseteq Thrown /\ MaxLines \in Nat
    /\ NoOp \notin {"succeeded", "failed", "degraded", "cancelled"}

VARIABLES
    operations,     \* OperationState
    opRecords,      \* history: the records emitted for an operation, in order
    failureReports, \* history: "outcome" and "exception" reports per operation
    outcomesSet     \* history: the last outcome set explicitly, or NoOp

operationVars == <<operations, opRecords, failureReports, outcomesSet>>

Statuses == {"succeeded", "failed", "degraded", "cancelled"}
Unstarted == [st |-> "none", kind |-> "none", parent |-> NoOp, request |-> NoOp,
              outcome |-> "succeeded", explicit |-> FALSE, error |-> NoOp,
              thrown |-> FALSE, degraded |-> FALSE]

OperationInit ==
    /\ operations = [o \in Operation |-> Unstarted]
    /\ opRecords = [o \in Operation |-> <<>>]
    /\ failureReports = [o \in Operation |-> <<>>]
    /\ outcomesSet = [o \in Operation |-> NoOp]

Started == {o \in Operation : operations[o].st # "none"}
Live(o) == operations[o].st = "running"
Requests == {o \in Operation : operations[o].kind = "request"}

-----------------------------------------------------------------------------
(* newState(): which of the operations is new makes no difference. *)
NewState(o, kind, parent, request) ==
    /\ Started # Operation /\ o = CHOOSE new \in Operation : new \notin Started
    /\ operations' = [operations EXCEPT ![o] =
          [Unstarted EXCEPT !.st = "running", !.kind = kind, !.parent = parent, !.request = request]]
    /\ UNCHANGED <<opRecords, failureReports, outcomesSet>>

(* currentOperation(): the innermost live operation. *)
CurrentOf(store) == IF store = NoOp THEN NoOp ELSE IF Live(store) THEN store ELSE NoOp

(* The request id is handed on by a sealed operation too. *)
RequestOf(store) == IF store = NoOp THEN NoOp ELSE operations[store].request

(* createRequestState(): a request id of its own. *)
BeginRequest(o, store) == NewState(o, "request", CurrentOf(store), o)

(* startOperation(), nested: linked to a parent that is live. *)
WithOperation(o, store) == NewState(o, "operation", CurrentOf(store), RequestOf(store))

(* runtimeContext.fork() and runInBackground(): linked although it is sealed. *)
Fork(o, store) == NewState(o, "operation", store, RequestOf(store))

(* An operation begun `from' a carrier that was made in the context of      *)
(* `store', maybe in another process and after that operation was sealed.   *)
FromCarrier(o, store) == NewState(o, "operation", store, RequestOf(store))

-----------------------------------------------------------------------------
(* setOutcome() *)
SetOutcome(store, status) ==
    /\ store # NoOp /\ CurrentOf(store) # NoOp
    /\ operations' = [operations EXCEPT ![store].outcome = status, ![store].explicit = TRUE]
    /\ outcomesSet' = [outcomesSet EXCEPT ![store] = status]
    /\ UNCHANGED <<opRecords, failureReports>>

(* noteOperationError() from a capture function: the code goes on. *)
NoteError(store, e) ==
    /\ store # NoOp /\ CurrentOf(store) # NoOp
    /\ operations' = [operations EXCEPT ![store].error = e]
    /\ UNCHANGED <<opRecords, failureReports, outcomesSet>>

(* runtimeContext.degraded() *)
Degraded(store, e) ==
    /\ store # NoOp /\ CurrentOf(store) # NoOp
    /\ operations' = [operations EXCEPT ![store].error = e, ![store].degraded = TRUE]
    /\ UNCHANGED <<opRecords, failureReports, outcomesSet>>

(* emit(): work continuing after completion emits nothing for it. *)
MayEmit(store) == Live(store)

LogLine(store) ==
    /\ store # NoOp /\ store \in Started /\ MayEmit(store)
    /\ Cardinality({i \in DOMAIN opRecords[store] : opRecords[store][i] = "line"}) < MaxLines
    /\ opRecords' = [opRecords EXCEPT ![store] = Append(@, "line")]
    /\ UNCHANGED <<operations, failureReports, outcomesSet>>

-----------------------------------------------------------------------------
(* emitSummary() of an operation that is `state' by then, with its report.  *)
EmitSummary(o, state, report) ==
    /\ operations' = [operations EXCEPT ![o] = [state EXCEPT !.st = "sealed",
          !.outcome = IF state.degraded /\ @ = "succeeded" /\ ~state.explicit THEN "degraded" ELSE @]]
    /\ opRecords' = [opRecords EXCEPT ![o] = Append(@, "summary")]
    /\ failureReports' = [failureReports EXCEPT ![o] = @ \o report]
    /\ UNCHANGED outcomesSet

(* reportOutcome() in the `finally' of an operation. *)
OutcomeReported(state, truthy) == IF state.outcome = "failed" /\ ~truthy THEN <<"outcome">> ELSE <<>>

(* The function returns; *)
OperationReturns(o) ==
    /\ Live(o) /\ o \notin Requests
    /\ EmitSummary(o, operations[o], OutcomeReported(operations[o], FALSE))

(* ... or throws, and runWithSpan() records the error on the span.          *)
OperationThrows(o, e) ==
    LET state == [operations[o] EXCEPT !.outcome = "failed", !.error = e, !.thrown = TRUE] IN
    /\ Live(o) /\ o \notin Requests
    /\ EmitSummary(o, state, Append(OutcomeReported(state, e \notin FalsyErrors), "exception"))

(* An error reaches the error middleware, the onError hook or the wrapper of *)
(* a request: noted as thrown and brought to the boundary, which reports an  *)
(* error once.                                                               *)
RequestThrows(o, e) ==
    /\ Live(o) /\ o \in Requests /\ ~operations[o].thrown
    /\ operations' = [operations EXCEPT ![o].error = e, ![o].thrown = TRUE]
    /\ failureReports' = [failureReports EXCEPT ![o] = Append(@, "exception")]
    /\ UNCHANGED <<opRecords, outcomesSet>>

(* requestOutcome() of runtime-core. *)
RequestOutcome(state, failing, aborted) ==
    IF state.explicit THEN state.outcome
    ELSE IF state.error \in ExpectedErrors THEN "degraded"
    ELSE IF state.thrown \/ failing THEN "failed"
    ELSE IF state.degraded THEN "degraded"
    ELSE IF aborted THEN "cancelled" ELSE "succeeded"

(* Mutant of MayFinish: each of `finish' and `close' emits. *)
FinishTwice(o) == Len(opRecords[o]) <= MaxLines

MayFinish(o) == Live(o)

(* finishRequest(), for `finish' and for `close'; reportExplicitFailure().  *)
FinishRequest(o, failing, aborted) ==
    LET state == [operations[o] EXCEPT !.outcome = RequestOutcome(operations[o], failing, aborted)] IN
    /\ o \in Requests /\ MayFinish(o)
    /\ EmitSummary(o, state, IF state.outcome = "failed" /\ state.explicit /\ ~state.thrown
                             THEN <<"outcome">> ELSE <<>>)

OperationNext ==
    \/ \E o \in Operation, store \in Started \cup {NoOp} :
          BeginRequest(o, store) \/ WithOperation(o, store) \/ Fork(o, store)
    \/ \E o \in Operation, store \in Started : FromCarrier(o, store)
    \/ \E store \in Started : LogLine(store)
    \/ \E store \in Started, status \in Statuses : SetOutcome(store, status)
    \/ \E store \in Started, e \in Thrown :
          NoteError(store, e) \/ Degraded(store, e) \/ OperationThrows(store, e) \/ RequestThrows(store, e)
    \/ \E o \in Started : OperationReturns(o)
    \/ \E o \in Started, failing, aborted \in BOOLEAN : FinishRequest(o, failing, aborted)

-----------------------------------------------------------------------------
OperationTypeOK ==
    /\ \A o \in Operation :
          /\ operations[o].st \in {"none", "running", "sealed"}
          /\ operations[o].outcome \in Statuses /\ operations[o].error \in Thrown \cup {NoOp}
          /\ Len(opRecords[o]) <= MaxLines + 1 /\ Len(failureReports[o]) <= 2

(* Every operation and request that ended has one summary, and no record of *)
(* it follows the summary, whatever still runs in its context and whichever *)
(* of `finish' and `close' comes.                                           *)
SummaryIsLast ==
    \A o \in Operation, i \in 1..(MaxLines + 2) :
        i \in DOMAIN opRecords[o] =>
            (opRecords[o][i] = "summary" <=> operations[o].st = "sealed" /\ i = Len(opRecords[o]))

(* A failed operation is reported once: as the exception it threw, or as    *)
(* the outcome it set; one that ends otherwise is not reported.             *)
FailureReportedOnce ==
    \A o \in Started \ Requests :
        operations[o].st = "sealed" /\ operations[o].error \notin FalsyErrors =>
            Len(failureReports[o]) = IF operations[o].outcome = "failed" THEN 1 ELSE 0

(* The work of one request carries its id, through nested operations, forks *)
(* and carriers, and also what begins after the request has ended.          *)
RequestIdFollows ==
    \A o \in Started \ Requests :
        LET p == operations[o].parent IN p # NoOp => operations[o].request = operations[p].request

(* core/request.ts: the outcome a request set explicitly is the one its     *)
(* summary has, whatever it threw, degraded to or answered.                 *)
ExplicitOutcomeWins ==
    \A o \in Requests : operations[o].st = "sealed" /\ outcomesSet[o] # NoOp =>
        operations[o].outcome = outcomesSet[o]

(* logger.ts:775: an outcome set explicitly "wins over status/thrown-error   *)
(* rules", for operations as well as for requests.                           *)
OutcomeSetWins ==
    \A o \in Started : operations[o].st = "sealed" /\ outcomesSet[o] # NoOp =>
        operations[o].outcome = outcomesSet[o]
=============================================================================
