------------------------------ MODULE EdgeRuntime ------------------------------
(***************************************************************************)
(* The edge SDK (runtime-edge/src/index.ts): withAutter() around a handler, *)
(* the errors a request logs, captures or falls back from, and the exporter *)
(* of the isolate, whose deliver() may run for several requests at a time.  *)
(*                                                                         *)
(* A record is known by its request and place; its texts are left out.  A   *)
(* plain record is one unit of the byte budget, a summary two.  The burst   *)
(* limiter (module BurstLimiter) is a free choice here.                     *)
(***************************************************************************)
EXTENDS Integers, Sequences, FiniteSets, SequencesExt

CONSTANTS
    EdgeRequest,    \* requests to the isolate
    EdgeError,      \* error objects
    EdgeFlush,      \* calls of flush() by the application
    Destination,    \* where options send records
    MaxPlain,       \* MAX_RECORDS_PER_REQUEST
    MaxEdgeQueue,   \* maxQueue
    MaxEdgeBytes,   \* the byte budget of the queue
    EdgeBatch,      \* records of a batch
    MaxReports,     \* bound: reports of one error
    None

ASSUME EdgeAssumption ==
    /\ MaxPlain \in Nat /\ MaxEdgeQueue \in Nat /\ MaxEdgeBytes \in Nat
    /\ EdgeBatch \in Nat \ {0} /\ MaxReports \in Nat
    /\ IsFiniteSet(EdgeRequest) /\ IsFiniteSet(EdgeFlush) /\ EdgeRequest \cap EdgeFlush = {}
    /\ None \notin EdgeRequest \cup EdgeFlush \cup Destination

VARIABLES
    edge,           \* per request: its runtime (buildRuntime)
    seen,           \* capturedErrors(): reported by any copy of the module
    loggedLate,     \* console errors of no single request, until their tick ends
    edgeReports,    \* history: per error, how it was reported
    equeue,         \* exporter.queue
    ebytes,         \* exporter.bytes
    edropped,       \* exporter.dropped
    flushing,       \* exporter.flushing: the deliver() call whose loop it is
    delivery,       \* per deliver() call: where it stands
    delivered       \* history: records the ingester took

errorVars == <<seen, loggedLate, edgeReports>>
exportVars == <<equeue, ebytes, edropped, flushing, delivery, delivered>>
edgeVars == <<edge, seen, loggedLate, edgeReports, equeue, ebytes, edropped,
              flushing, delivery, delivered>>

DeliverCall == EdgeRequest \cup EdgeFlush
Record == [of : EdgeRequest, nr : Nat, summary : BOOLEAN, to : Destination]
RequestType ==
    [st : {"new", "open", "sealed"}, to : Destination \cup {None}, plain : Nat,
     pending : Seq(EdgeError), captured : SUBSET EdgeError]
CallType ==
    [st : {"idle", "waits", "posts", "ends", "returned"}, on : DeliverCall \cup {None},
     batch : Seq(Record), covers : SUBSET Record]
IdleCall == [st |-> "idle", on |-> None, batch |-> <<>>, covers |-> {}]

EdgeInit ==
    /\ edge = [r \in EdgeRequest |-> [st |-> "new", to |-> None, plain |-> 0,
                                      pending |-> <<>>, captured |-> {}]]
    /\ seen = {} /\ loggedLate = {} /\ edgeReports = [e \in EdgeError |-> <<>>]
    /\ equeue = <<>> /\ ebytes = 0 /\ edropped = 0 /\ flushing = None
    /\ delivery = [c \in DeliverCall |-> IdleCall] /\ delivered = {}

-----------------------------------------------------------------------------
(* The exporter.                                                           *)
Bytes(record) == IF record.summary THEN 2 ELSE 1
BytesOf(records) == FoldSeq(LAMBDA record, sum : Bytes(record) + sum, 0, records)

Full(queue, bytes) == Len(queue) >= MaxEdgeQueue \/ BytesOf(queue) + bytes > MaxEdgeBytes
Plain(queue) == {i \in DOMAIN queue : ~queue[i].summary}

EvictOldest(queue, bytes) ==
    IF Full(queue, bytes) /\ Plain(queue) # {} THEN RemoveAt(queue, Min(Plain(queue))) ELSE queue

(* Mutant of MakeRoom: a summary evicts one record, whatever it frees. *)
MakeRoomOnce(queue, bytes) == EvictOldest(queue, bytes)

(* Under pressure a summary evicts the oldest plain records.               *)
MakeRoom(queue, bytes) ==
    LET room[k \in 0..Len(queue)] == EvictOldest(IF k = 0 THEN queue ELSE room[k - 1], bytes)
    IN room[Len(queue)]

(* One record of a finished request enters the queue, or is dropped.       *)
Enqueued(queue, record) ==
    LET room == IF record.summary THEN MakeRoom(queue, Bytes(record)) ELSE queue IN
    IF Full(room, Bytes(record)) THEN room ELSE Append(room, record)

(* Mutant of TakeBatch: the records are read, and stay queued. *)
TakeBatchCopied(c, queue, covers) ==
    LET take == Min({Len(queue), EdgeBatch}) IN
    /\ equeue' = queue /\ ebytes' = BytesOf(queue)
    /\ delivery' = [delivery EXCEPT ![c] =
          [IdleCall EXCEPT !.st = "posts", !.batch = SubSeq(queue, 1, take), !.covers = covers]]

(* sameDestination(): the endpoint, key, service, environment and release.   *)
SameDestination(one, other) == one.to = other.to

(* The loop takes the first records that share one destination.            *)
TakeBatch(c, queue, covers) ==
    LET sharing == {n \in 1..Min({Len(queue), EdgeBatch}) :
                      \A i \in 1..n : SameDestination(queue[i], queue[1])}
        take == Max(sharing)
        left == SubSeq(queue, take + 1, Len(queue))
    IN
    /\ equeue' = left /\ ebytes' = BytesOf(left)
    /\ delivery' = [delivery EXCEPT ![c] =
          [IdleCall EXCEPT !.st = "posts", !.batch = SubSeq(queue, 1, take), !.covers = covers]]

(* deliver() past its wait: with an empty queue it returns, else it starts a *)
(* loop of its own and becomes the flush that others wait for.              *)
StartLoop(c, queue, covers) ==
    \/ /\ queue = <<>>
       /\ delivery' = [delivery EXCEPT ![c] = [IdleCall EXCEPT !.st = "returned", !.covers = covers]]
       /\ equeue' = queue /\ ebytes' = 0 /\ UNCHANGED flushing
    \/ queue # <<>> /\ TakeBatch(c, queue, covers) /\ flushing' = c

(* deliver(): waits once for a flush that runs.                            *)
Deliver(c, queue) ==
    \/ /\ flushing # None
       /\ delivery' = [delivery EXCEPT ![c] = [IdleCall EXCEPT !.st = "waits", !.on = flushing,
                                                               !.covers = ToSet(queue)]]
       /\ equeue' = queue /\ ebytes' = BytesOf(queue) /\ UNCHANGED flushing
    \/ flushing = None /\ StartLoop(c, queue, ToSet(queue))

(* postLogs(): two attempts, one if the first is answered 4xx; what it could *)
(* not deliver is dropped.  The loop goes on while the queue holds records.  *)
PostSettles(c) ==
    LET batch == delivery[c].batch IN
    /\ delivery[c].st = "posts"
    /\ \/ delivered' = delivered \cup ToSet(batch) /\ UNCHANGED edropped
       \/ edropped' = edropped + Len(batch) /\ UNCHANGED delivered
    /\ IF equeue # <<>> THEN TakeBatch(c, equeue, delivery[c].covers)
       ELSE /\ delivery' = [delivery EXCEPT ![c] = [@ EXCEPT !.st = "ends", !.batch = <<>>]]
            /\ UNCHANGED <<equeue, ebytes>>
    /\ UNCHANGED <<edge, flushing>> /\ UNCHANGED errorVars

(* The loop's finally clears exporter.flushing, whoever's flush it is by     *)
(* now; a microtask later those who waited for this loop go on, in turn.    *)
LoopEnds(c) ==
    /\ delivery[c].st = "ends" /\ flushing' = None
    /\ delivery' = [delivery EXCEPT ![c] = [@ EXCEPT !.st = "returned"]]
    /\ UNCHANGED <<edge, equeue, ebytes, edropped, delivered>> /\ UNCHANGED errorVars
WaitOver(c) ==
    /\ delivery[c].st = "waits" /\ delivery[delivery[c].on].st = "returned"
    /\ StartLoop(c, equeue, delivery[c].covers)
    /\ UNCHANGED <<edge, edropped, delivered>> /\ UNCHANGED errorVars

FlushCalled(c) ==
    /\ delivery[c].st = "idle" /\ Deliver(c, equeue)
    /\ UNCHANGED <<edge, edropped, delivered>> /\ UNCHANGED errorVars

-----------------------------------------------------------------------------
(* The requests.                                                           *)
InFlight == {r \in EdgeRequest : edge[r].st = "open"}
Only(r) == InFlight = {r}
MayReport(e) == Len(edgeReports[e]) < MaxReports

(* record(): plain records of a request are capped.                        *)
Recorded(runtime) ==
    IF runtime.plain >= MaxPlain THEN runtime ELSE [runtime EXCEPT !.plain = @ + 1]
Reported(e, how) == edgeReports' = [edgeReports EXCEPT ![e] = Append(@, how)]

(* sendHandled(): of no single request, a record is sent on its own; a       *)
(* missing key or the filter keeps it.                                      *)
SentAlone(e, how) == UNCHANGED edgeReports \/ Reported(e, how)

Opens(r) ==
    /\ edge[r].st = "new"
    /\ \E to \in Destination \cup {None} :
          edge' = [edge EXCEPT ![r] = [@ EXCEPT !.st = "open", !.to = to]]
    /\ UNCHANGED errorVars /\ UNCHANGED exportVars

(* rt.warn(), and rt.error() without an error object. *)
Warns(r) ==
    /\ edge[r].st = "open"
    /\ edge' = [edge EXCEPT ![r] = Recorded(@)]
    /\ UNCHANGED errorVars /\ UNCHANGED exportVars

(* logged(): the error waits for the tick to end. *)
Waiting(runtime, e) ==
    IF e \in ToSet(runtime.pending) THEN runtime
    ELSE [runtime EXCEPT !.pending = Append(@, e)]

(* rt.error(e), or console.error(..., e) of the only request in flight.     *)
LogsInRequest(r, e) ==
    /\ edge[r].st = "open"
    /\ \/ edge' = [edge EXCEPT ![r] = Waiting(Recorded(@), e)]
       \/ Only(r) /\ edge' = [edge EXCEPT ![r] = Waiting(@, e)]
    /\ UNCHANGED errorVars /\ UNCHANGED exportVars

(* console.error(..., e) with no or several requests in flight. *)
LogsOutside(e) ==
    /\ Cardinality(InFlight) # 1
    /\ loggedLate' = loggedLate \cup {e}
    /\ UNCHANGED <<edge, seen, edgeReports>> /\ UNCHANGED exportVars
LateTick(e) ==
    /\ e \in loggedLate /\ loggedLate' = loggedLate \ {e} /\ seen' = seen \cup {e}
    /\ \/ UNCHANGED edgeReports    \* seen meanwhile, or left out by the limiter
       \/ e \notin seen /\ SentAlone(e, "log")
    /\ UNCHANGED edge /\ UNCHANGED exportVars

(* capture(): once per error and request. *)
Captured(r, runtime, e) ==
    \/ /\ e \in runtime.captured
       /\ edge' = [edge EXCEPT ![r] = runtime] /\ UNCHANGED <<seen, edgeReports>>
    \/ /\ e \notin runtime.captured /\ MayReport(e)
       /\ Reported(e, "capture") /\ seen' = seen \cup {e}
       /\ edge' = [edge EXCEPT ![r] = [Recorded(runtime) EXCEPT !.captured = @ \cup {e}]]
CapturesInRequest(r, e) ==
    /\ edge[r].st = "open" /\ Captured(r, edge[r], e)
    /\ UNCHANGED loggedLate /\ UNCHANGED exportVars
CapturesOutside(e) ==
    /\ MayReport(e) /\ e \notin seen /\ seen' = seen \cup {e} /\ Reported(e, "capture")
    /\ UNCHANGED <<edge, loggedLate>> /\ UNCHANGED exportVars

(* rt.degraded(), or runtimeContext.degraded() with one request in flight:   *)
(* recorded at once unless the limiter leaves it out.                       *)
DegradesInRequest(r, e) ==
    /\ edge[r].st = "open" /\ MayReport(e)
    /\ seen' = seen \cup {e} /\ Reported(e, "degraded")
    /\ edge' = [edge EXCEPT ![r] = [Recorded(edge[r]) EXCEPT !.captured = @ \cup {e}]]
    /\ UNCHANGED loggedLate /\ UNCHANGED exportVars
DegradesOutside(e) ==
    /\ Cardinality(InFlight) # 1 /\ MayReport(e)
    /\ seen' = seen \cup {e}
    /\ (UNCHANGED edgeReports \/ SentAlone(e, "degraded"))
    /\ UNCHANGED <<edge, loggedLate>> /\ UNCHANGED exportVars

(* drainLogged(): the errors logged in this tick that nothing reported       *)
(* meanwhile; the limiter may leave some of them out.                       *)
Unreported(runtime) == ToSet(runtime.pending) \ (runtime.captured \cup seen)
DrainedOf(runtime, sent) ==
    [runtime EXCEPT !.pending = <<>>, !.captured = @ \cup sent,
                    !.plain = Min({MaxPlain, @ + Cardinality(sent)})]
ReportedLogs(sent) ==
    [e \in EdgeError |-> IF e \in sent THEN Append(edgeReports[e], "log") ELSE edgeReports[e]]
TickEnds(r) ==
    /\ edge[r].st = "open" /\ edge[r].pending # <<>>
    /\ \E sent \in SUBSET Unreported(edge[r]) :
          /\ edge' = [edge EXCEPT ![r] = DrainedOf(@, sent)]
          /\ edgeReports' = ReportedLogs(sent) /\ seen' = seen \cup sent
    /\ UNCHANGED loggedLate /\ UNCHANGED exportVars

(* What the request leaves for the exporter: its plain records, the tails of *)
(* the burst limiter among them, and its summary.                           *)
Emitted(r, runtime) ==
    [i \in 1..(runtime.plain + 1) |->
        [of |-> r, nr |-> i, summary |-> i = runtime.plain + 1, to |-> runtime.to]]

(* The handler returns or throws: a thrown error is captured, logged errors  *)
(* are drained, the summary is added; without a key nothing is queued.       *)
(* Then deliver(), whose promise waitUntil keeps alive.                     *)
Settled(runtime, sent, tails) ==
    [runtime EXCEPT !.st = "sealed", !.pending = <<>>, !.captured = @ \cup sent,
                    !.plain = Min({MaxPlain, @ + Cardinality(sent) + tails})]
Finishes(r) ==
    /\ edge[r].st = "open"
    /\ \E sent \in SUBSET Unreported(edge[r]), tails \in {0, 1} :
         \/ /\ edge' = [edge EXCEPT ![r] = Settled(@, sent, tails)]
            /\ edgeReports' = ReportedLogs(sent) /\ seen' = seen \cup sent
         \/ \E e \in EdgeError \ (edge[r].captured \cup sent) :
              /\ MayReport(e)
              /\ edge' = [edge EXCEPT ![r] =
                    Settled([Recorded(edge[r]) EXCEPT !.captured = @ \cup {e}], sent, tails)]
              /\ edgeReports' = [ReportedLogs(sent) EXCEPT ![e] = Append(@, "capture")]
              /\ seen' = seen \cup sent \cup {e}
    /\ LET queue == IF edge[r].to = None THEN equeue
                    ELSE FoldLeft(Enqueued, equeue, Emitted(r, edge'[r]))
           came == IF edge[r].to = None THEN 0 ELSE edge'[r].plain + 1
       IN /\ edropped' = edropped + Len(equeue) + came - Len(queue)
          /\ Deliver(r, queue)
    /\ UNCHANGED <<loggedLate, delivered>>

EdgeNext ==
    \/ \E c \in DeliverCall : PostSettles(c) \/ LoopEnds(c) \/ WaitOver(c)
    \/ \E c \in EdgeFlush : FlushCalled(c)
    \/ \E r \in EdgeRequest : Opens(r) \/ Warns(r) \/ TickEnds(r) \/ Finishes(r)
    \/ \E e \in EdgeError : LogsOutside(e) \/ LateTick(e) \/ CapturesOutside(e) \/ DegradesOutside(e)
    \/ \E r \in EdgeRequest, e \in EdgeError :
          LogsInRequest(r, e) \/ CapturesInRequest(r, e) \/ DegradesInRequest(r, e)

-----------------------------------------------------------------------------
EdgeTypeOK ==
    /\ edge \in [EdgeRequest -> RequestType] /\ \A r \in EdgeRequest : edge[r].plain <= MaxPlain
    /\ seen \subseteq EdgeError /\ loggedLate \subseteq EdgeError
    /\ edgeReports \in [EdgeError -> Seq({"log", "capture", "degraded"})]
    /\ equeue \in Seq(Record) /\ Len(equeue) <= MaxEdgeQueue
    /\ ebytes = BytesOf(equeue) /\ ebytes <= MaxEdgeBytes /\ edropped \in Nat
    /\ flushing \in DeliverCall \cup {None}
    /\ delivery \in [DeliverCall -> CallType] /\ delivered \subseteq Record

Batched == UNION {ToSet(delivery[c].batch) : c \in DeliverCall}
Came ==
    LET keyed == {r \in EdgeRequest : edge[r].st = "sealed" /\ edge[r].to # None} IN
    FoldSet(LAMBDA r, sum : edge[r].plain + 1 + sum, 0, keyed)

(* Each record of a finished request is queued, in one batch, delivered or   *)
(* counted as dropped, however many loops of deliver() drain the one queue;  *)
(* and no batch carries records to another destination than their own.      *)
EdgeRecordsKept ==
    /\ Len(equeue) + FoldFunction(LAMBDA call, sum : Len(call.batch) + sum, 0, delivery)
         + Cardinality(delivered) + edropped = Came
    /\ Cardinality(ToSet(equeue) \cup Batched \cup delivered) + edropped = Came
    /\ \A c \in DeliverCall : Cardinality({x.to : x \in ToSet(delivery[c].batch)}) <= 1

(* A summary that finds the queue full evicts plain records: it is left out *)
(* only where nothing but summaries is kept (index.ts:444-445).             *)
SummaryKept(r) ==
    LET kept == ToSet(equeue') \cup ToSet(delivery'[r].batch) IN
    (\E x \in kept : x.of = r /\ x.summary) \/ (\A x \in kept : x.summary)
KeepsSummaries ==
    \A r \in EdgeRequest :
        edge[r].st = "open" /\ edge'[r].st = "sealed" /\ edge'[r].to # None => SummaryKept(r)
SummariesLeaveLast == [][KeepsSummaries]_edgeVars

(* An error that was logged is reported by its log line only if nothing had *)
(* reported it before (index.ts captureLoggedErrors).                       *)
EdgeLogReportsFirstOnly ==
    \A e \in EdgeError : \A i \in DOMAIN edgeReports[e] :
        edgeReports[e][i] = "log" => i = 1

(* index.ts:202: flush() delivers everything buffered now.  Refuted: two     *)
(* calls that waited for one flush may go on together, and the second finds *)
(* the queue empty while the records are still in the first one's batch.    *)
FlushDeliversBuffered ==
    \A c \in DeliverCall :
        delivery[c].st = "returned" => delivery[c].covers \cap (ToSet(equeue) \cup Batched) = {}
=============================================================================
