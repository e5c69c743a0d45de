---------------------------- MODULE SinkForwarder ----------------------------
(***************************************************************************)
(* The sink of the OTLP ingester (sink.ts): batches wait in a bounded       *)
(* memory queue, are POSTed to the consumer a few at a time, and are        *)
(* retried with backoff until delivered, refused, given up on or evicted.   *)
(*                                                                         *)
(* The process is single threaded.  A loop inside one synchronous run       *)
(* (enforceBounds, pump) is one step per iteration, `task' naming the run:  *)
(* nothing else happens until it is "none" again.  What is asynchronous is  *)
(* a step of its own: the answer of a POST, the `finally' callback that     *)
(* follows it, the wake timer, the end of a backoff, stop().                *)
(***************************************************************************)
EXTENDS Integers, Sequences, FiniteSets, SequencesExt

CONSTANTS
    Org,                \* tenants' organisations
    Size,               \* sizes a batch may have
    MaxSeq,             \* bound: batches enqueued
    MaxBatches,         \* sinkMaxBufferedBatches
    MaxBytes,           \* maxBufferedBytes()
    MaxAttempts,        \* sinkMaxAttempts
    HealthyConcurrency, \* tuning.healthyConcurrency
    NoOrg

ASSUME ForwarderConstants ==
    /\ Size \subseteq Nat \ {0}
    /\ MaxSeq \in Nat /\ MaxBatches \in Nat /\ MaxBytes \in Nat
    /\ MaxAttempts \in Nat /\ HealthyConcurrency \in Nat \ {0}
    /\ NoOrg \notin Org

VARIABLES
    batch,      \* the batches built so far, by seq
    queue,      \* the seqs of the waiting batches
    sending,    \* the batches whose POST is under way
    returning,  \* sends that settled and whose `finally' has not run
    inFlight,
    queuedBytes,
    orgBytes,   \* queuedBytesByOrg (0: no entry)
    failures,   \* consecutiveFailures
    failureEpoch,
    armed,      \* the wake timer is set
    closed,
    task,       \* the synchronous run under way
    seqCounter, delivered, droppedOverflow, droppedPermanent,
    fate,       \* what became of each batch, as reported
    received,   \* batches the consumer processed
    overlapped  \* batches whose POST was under way when some POST failed

accounting == <<queuedBytes, orgBytes>>
health == <<failures, failureEpoch, overlapped>>
counters == <<delivered, droppedOverflow, droppedPermanent, fate, received>>
forwarderVars == <<batch, queue, sending, returning, inFlight, queuedBytes, orgBytes,
          failures, failureEpoch, armed, closed, task, seqCounter, delivered,
          droppedOverflow, droppedPermanent, fate, received, overlapped>>

Seqs == 1..MaxSeq
Dropped == {"sink_overflow", "sink_rejected", "sink_gave_up"}
BatchType == [org: Org \cup {NoOrg}, bytes: Size \cup {0}, attempts: 0..MaxAttempts + 1,
              ready: BOOLEAN, epochAtStart: Nat]

ForwarderInit ==
    /\ batch = [b \in Seqs |-> [org |-> NoOrg, bytes |-> 0, attempts |-> 0,
                                ready |-> TRUE, epochAtStart |-> 0]]
    /\ queue = <<>> /\ sending = {} /\ returning = 0 /\ inFlight = 0
    /\ queuedBytes = 0 /\ orgBytes = [o \in Org |-> 0]
    /\ failures = 0 /\ failureEpoch = 0 /\ overlapped = {}
    /\ armed = FALSE /\ closed = FALSE /\ task = "none"
    /\ seqCounter = 0 /\ delivered = 0 /\ droppedOverflow = 0 /\ droppedPermanent = 0
    /\ fate = [b \in Seqs |-> {}] /\ received = {}

-----------------------------------------------------------------------------
(* Helpers named as in the code.                                           *)

(* Mutant of Track: the total misses the bytes. *)
TrackOrgOnly(b, org, bytes) ==
    /\ UNCHANGED queuedBytes
    /\ orgBytes' = [orgBytes EXCEPT ![org] = @ + bytes]

Track(b, org, bytes) ==
    /\ queuedBytes' = queuedBytes + bytes
    /\ orgBytes' = [orgBytes EXCEPT ![org] = @ + bytes]

Untrack(b) ==
    LET left == orgBytes[batch[b].org] - batch[b].bytes IN
    /\ queuedBytes' = queuedBytes - batch[b].bytes
    /\ orgBytes' = [orgBytes EXCEPT ![batch[b].org] = IF left > 0 THEN left ELSE 0]

(* The queue with b at its age position. *)
InsertBySeq(q, b) ==
    LET at == SelectInSeq(q, LAMBDA c : c > b) IN
    IF at = 0 THEN Append(q, b) ELSE InsertAt(q, at, b)

CurrentLimit == IF failures > 0 THEN 1 ELSE HealthyConcurrency

(* Mutant of WakeScheduled: only if a batch is due now. *)
WakeForDueOnly ==
    /\ ~closed /\ inFlight < CurrentLimit
    /\ \E i \in 1..Len(queue) : batch[queue[i]].ready

(* Is the timer set by scheduleWake()? *)
WakeScheduled == ~closed /\ queue # <<>> /\ inFlight < CurrentLimit

OverBounds ==
    \/ Len(queue) > MaxBatches
    \/ queuedBytes > MaxBytes /\ Len(queue) > 1

FirstReady == SelectInSeq(queue, LAMBDA b : batch[b].ready)

(* The orgs holding the most buffered bytes (the code takes the first of   *)
(* them in the order of the map).                                          *)
Heaviest == {o \in Org : orgBytes[o] > 0 /\ \A p \in Org : orgBytes[p] <= orgBytes[o]}
OldestOf(o) == SelectInSeq(queue, LAMBDA b : batch[b].org = o)

(* Mutant of NoteDrop: the drop is not reported. *)
DropUnnoted(b, reason) == fate' = fate

NoteDrop(b, reason) == fate' = [fate EXCEPT ![b] = @ \cup {reason}]

-----------------------------------------------------------------------------
(* enqueue(): a batch larger than the whole buffer is dropped alone.        *)
EnqueueOversized(org, bytes) ==
    LET b == seqCounter + 1 IN
    /\ task = "none" /\ ~closed /\ b \in Seqs
    /\ bytes > MaxBytes
    /\ seqCounter' = b
    /\ batch' = [batch EXCEPT ![b] = [@ EXCEPT !.org = org, !.bytes = bytes]]
    /\ droppedOverflow' = droppedOverflow + 1
    /\ NoteDrop(b, "sink_overflow")
    /\ UNCHANGED <<queue, sending, returning, inFlight, armed, closed, task,
                   delivered, droppedPermanent, received>>
    /\ UNCHANGED accounting /\ UNCHANGED health

(* ... any other is queued; then the bounds are enforced and pump() runs.   *)
Enqueue(org, bytes) ==
    LET b == seqCounter + 1 IN
    /\ task = "none" /\ ~closed /\ b \in Seqs
    /\ bytes <= MaxBytes
    /\ seqCounter' = b
    /\ batch' = [batch EXCEPT ![b] = [@ EXCEPT !.org = org, !.bytes = bytes]]
    /\ queue' = Append(queue, b)
    /\ Track(b, org, bytes)
    /\ task' = "admit"
    /\ UNCHANGED <<sending, returning, inFlight, armed, closed>>
    /\ UNCHANGED health /\ UNCHANGED counters

(* One turn of enforceBounds: the oldest batch of a heaviest org goes.      *)
Evict ==
    /\ task \in {"admit", "requeue"} /\ OverBounds
    /\ \E o \in Heaviest :
        LET at == OldestOf(o) IN
        /\ queue' = RemoveAt(queue, at)
        /\ Untrack(queue[at])
        /\ NoteDrop(queue[at], "sink_overflow")
    /\ droppedOverflow' = droppedOverflow + 1
    /\ UNCHANGED <<batch, sending, returning, inFlight, armed, closed, task,
                   seqCounter, delivered, droppedPermanent, received>>
    /\ UNCHANGED health

(* Within bounds: enqueue() goes on to pump(), send() to scheduleWake().    *)
BoundsHold ==
    /\ task \in {"admit", "requeue"} /\ ~OverBounds
    /\ IF task = "admit" THEN task' = "pump" /\ UNCHANGED armed
                         ELSE task' = "none" /\ armed' = WakeScheduled
    /\ UNCHANGED <<batch, queue, sending, returning, inFlight, closed, seqCounter>>
    /\ UNCHANGED accounting /\ UNCHANGED health /\ UNCHANGED counters

(* One turn of pump(): the oldest batch that is due is sent.                *)
Launch ==
    LET b == queue[FirstReady] IN
    /\ task = "pump" /\ ~closed /\ inFlight < CurrentLimit /\ FirstReady # 0
    /\ queue' = RemoveAt(queue, FirstReady)
    /\ Untrack(b)
    /\ inFlight' = inFlight + 1
    /\ sending' = sending \cup {b}
    /\ batch' = [batch EXCEPT ![b].attempts = @ + 1, ![b].epochAtStart = failureEpoch]
    /\ overlapped' = overlapped \ {b}
    /\ UNCHANGED <<returning, armed, closed, task, seqCounter, failures, failureEpoch>>
    /\ UNCHANGED counters

(* pump() has nothing more to send: scheduleWake(), unless stopped.        *)
PumpEnds ==
    /\ task = "pump" /\ (closed \/ inFlight >= CurrentLimit \/ FirstReady = 0)
    /\ armed' = IF closed THEN armed ELSE WakeScheduled
    /\ task' = "none"
    /\ UNCHANGED <<batch, queue, sending, returning, inFlight, closed, seqCounter>>
    /\ UNCHANGED accounting /\ UNCHANGED health /\ UNCHANGED counters

-----------------------------------------------------------------------------
(* A waiting batch's backoff is over. *)
BackoffEnds(b) ==
    /\ task = "none" /\ b \in ToSet(queue) /\ ~batch[b].ready
    /\ batch' = [batch EXCEPT ![b].ready = TRUE]
    /\ UNCHANGED <<queue, sending, returning, inFlight, armed, closed, task, seqCounter>>
    /\ UNCHANGED accounting /\ UNCHANGED health /\ UNCHANGED counters

(* The wake timer, set for the earliest end of a backoff. *)
WakeTimerFires ==
    /\ task = "none" /\ armed /\ FirstReady # 0
    /\ armed' = FALSE /\ task' = "pump"
    /\ UNCHANGED <<batch, queue, sending, returning, inFlight, closed, seqCounter>>
    /\ UNCHANGED accounting /\ UNCHANGED health /\ UNCHANGED counters

(* Mutant of FailuresAfterSuccess: any success ends the failure episode.    *)
FailuresCleared(b) == 0

(* A success clears the failures unless one happened since its POST began.  *)
FailuresAfterSuccess(b) == IF batch[b].epochAtStart = failureEpoch THEN 0 ELSE failures

(* send() settles with an answer 2xx. *)
SendSucceeds(b) ==
    /\ task = "none" /\ b \in sending
    /\ sending' = sending \ {b} /\ returning' = returning + 1
    /\ delivered' = delivered + 1
    /\ fate' = [fate EXCEPT ![b] = @ \cup {"delivered"}]
    /\ received' = received \cup {b}
    /\ failures' = FailuresAfterSuccess(b)
    /\ UNCHANGED <<batch, queue, inFlight, armed, closed, task, seqCounter,
                   failureEpoch, overlapped, droppedOverflow, droppedPermanent>>
    /\ UNCHANGED accounting

(* What every failure does. *)
SendFailed(b) ==
    /\ task = "none" /\ b \in sending
    /\ sending' = sending \ {b} /\ returning' = returning + 1
    /\ failureEpoch' = failureEpoch + 1
    /\ failures' = failures + 1
    /\ overlapped' = overlapped \cup sending'
    /\ UNCHANGED <<inFlight, armed, closed, seqCounter, delivered, droppedOverflow>>

(* The consumer refused the batch (a 4xx but 408 and 429). *)
SendRejected(b) ==
    /\ SendFailed(b)
    /\ droppedPermanent' = droppedPermanent + 1
    /\ NoteDrop(b, "sink_rejected")
    /\ UNCHANGED <<batch, queue, task, received>> /\ UNCHANGED accounting

(* No answer, a timeout, 408, 429 or 5xx: the consumer may have processed   *)
(* the batch all the same.  After the last attempt the batch is given up.   *)
SendGivesUp(b) ==
    /\ SendFailed(b) /\ batch[b].attempts >= MaxAttempts
    /\ droppedPermanent' = droppedPermanent + 1
    /\ NoteDrop(b, "sink_gave_up")
    /\ received' \in {received, received \cup {b}}
    /\ UNCHANGED <<batch, queue, task>> /\ UNCHANGED accounting

(* ... before it, the batch goes back to its age position, to wait.         *)
SendRetries(b) ==
    /\ SendFailed(b) /\ batch[b].attempts < MaxAttempts
    /\ received' \in {received, received \cup {b}}
    /\ batch' = [batch EXCEPT ![b].ready = FALSE]
    /\ queue' = InsertBySeq(queue, b)
    /\ Track(b, batch[b].org, batch[b].bytes)
    /\ task' = "requeue"
    /\ UNCHANGED <<droppedPermanent, fate>>

(* The `finally' of a send that settled. *)
Finally ==
    /\ task = "none" /\ returning > 0
    /\ returning' = returning - 1
    /\ inFlight' = inFlight - 1
    /\ task' = "pump"
    /\ UNCHANGED <<batch, queue, sending, armed, closed, seqCounter>>
    /\ UNCHANGED accounting /\ UNCHANGED health /\ UNCHANGED counters

CloseForwarder ==
    /\ task = "none" /\ ~closed
    /\ closed' = TRUE /\ armed' = FALSE
    /\ UNCHANGED <<batch, queue, sending, returning, inFlight, task, seqCounter>>
    /\ UNCHANGED accounting /\ UNCHANGED health /\ UNCHANGED counters

Settles(b) == SendSucceeds(b) \/ SendRejected(b) \/ SendGivesUp(b) \/ SendRetries(b)
Loop == Evict \/ BoundsHold \/ Launch \/ PumpEnds

ForwarderRuns ==
    \/ \E o \in Org, n \in Size : Enqueue(o, n) \/ EnqueueOversized(o, n)
    \/ Loop \/ WakeTimerFires \/ Finally
    \/ \E b \in Seqs : BackoffEnds(b) \/ Settles(b)

ForwarderNext == ForwarderRuns \/ CloseForwarder

ForwarderSpec == ForwarderInit /\ [][ForwarderNext]_forwarderVars

(* The process runs on: a synchronous run ends, callbacks and timers fire,  *)
(* and a POST settles at the latest by its timeout (AbortSignal.timeout).   *)
RunningForwarder ==
    /\ ForwarderInit /\ [][ForwarderRuns]_forwarderVars
    /\ WF_forwarderVars(Loop) /\ WF_forwarderVars(WakeTimerFires) /\ WF_forwarderVars(Finally)
    /\ \A b \in Seqs : WF_forwarderVars(BackoffEnds(b)) /\ WF_forwarderVars(Settles(b))

-----------------------------------------------------------------------------
ForwarderTypeOK ==
    /\ batch \in [Seqs -> BatchType]
    /\ queue \in Seq(Seqs)
    /\ sending \subseteq Seqs
    /\ returning \in Nat /\ inFlight \in 0..HealthyConcurrency
    /\ queuedBytes \in Nat /\ orgBytes \in [Org -> Nat]
    /\ failures \in Nat /\ failureEpoch \in Nat
    /\ armed \in BOOLEAN /\ closed \in BOOLEAN
    /\ task \in {"none", "admit", "requeue", "pump"}
    /\ seqCounter \in 0..MaxSeq
    /\ {delivered, droppedOverflow, droppedPermanent} \subseteq Nat
    /\ fate \in [Seqs -> SUBSET (Dropped \cup {"delivered"})]
    /\ received \subseteq Seqs /\ overlapped \subseteq Seqs

(* No batch is lost from sight: each one enqueued waits once in the queue,  *)
(* or is being sent, or has exactly one reported fate, whatever the order   *)
(* of answers, retries and evictions.                                       *)
Places(b) ==
    Cardinality({i \in 1..Len(queue) : queue[i] = b})
      + (IF b \in sending THEN 1 ELSE 0) + Cardinality(fate[b])
OnePlaceEach == \A b \in 1..seqCounter : Places(b) = 1

(* The /healthz counters add up to the batches enqueued, and the drop       *)
(* counters to the drops reported to runtime_ingest_drops.                  *)
CountersAddUp ==
    /\ seqCounter = Len(queue) + Cardinality(sending) + delivered
                      + droppedOverflow + droppedPermanent
    /\ droppedOverflow = Cardinality({b \in Seqs : "sink_overflow" \in fate[b]})
    /\ inFlight = Cardinality(sending) + returning

(* The byte counts are those of the waiting batches, in total and per org:  *)
(* a drift would evict for ever, never, or from the wrong tenant.  And the  *)
(* buffer is within both its bounds when a synchronous run is over.         *)
BytesWaiting(orgs) ==
    LET sum[i \in 0..Len(queue)] ==
          IF i = 0 THEN 0
          ELSE sum[i - 1] + (IF batch[queue[i]].org \in orgs THEN batch[queue[i]].bytes ELSE 0)
    IN sum[Len(queue)]
BufferAccounted ==
    /\ queuedBytes = BytesWaiting(Org)
    /\ \A o \in Org : orgBytes[o] = BytesWaiting({o})
    /\ task \in {"none", "pump"} => Len(queue) <= MaxBatches /\ queuedBytes <= MaxBytes

(* One org flooding the buffer does not evict the others' batches: an org   *)
(* that holds less than its share of the buffered bytes loses nothing, and  *)
(* of the org that does, the oldest batch goes, retried or not.             *)
EvictionIsFair ==
    [][\A b \in Seqs : "sink_overflow" \in fate'[b] \ fate[b] /\ b \in ToSet(queue) =>
          LET org == batch[b].org IN
          /\ Cardinality({batch[c].org : c \in ToSet(queue)}) * BytesWaiting({org})
                >= BytesWaiting(Org)
          /\ \A c \in ToSet(queue) : batch[c].org = org => b <= c]_forwarderVars

(* A waiting batch is never forgotten: the wake timer is set, or a POST or  *)
(* its `finally' is to come, which pumps again (sink.ts:356-360).           *)
NoLostWakeup ==
    task = "none" /\ ~closed /\ queue # <<>> => armed \/ sending # {} \/ returning > 0

(* While the consumer fails, deliveries are serial: of the POSTs started    *)
(* since the last failure at most one is under way.                         *)
OneProbeWhileFailing == failures > 0 => Cardinality(sending \ overlapped) <= 1

(* Full concurrency comes back only with a success whose POST started after *)
(* the last failure (sink.ts:125-130).                                      *)
ReopensOnFreshSuccess ==
    [][failures > 0 /\ failures' = 0 =>
          \E b \in sending \ sending' : b \notin overlapped]_forwarderVars

(* The forwarder implements the promise of SinkDelivery: a batch waiting or *)
(* being sent is pending, and leaves only delivered or with a reported drop.*)
FateIn(set) == {b \in Seqs : fate[b] \cap set # {}}
Promise == INSTANCE SinkDelivery WITH
    Batch <- Seqs,
    pending <- ToSet(queue) \cup sending,
    delivered <- FateIn({"delivered"}),
    dropped <- FateIn(Dropped),
    received <- received,
    open <- ~closed
ImplementsDelivery == Promise!Spec
ImplementsFairDelivery == Promise!FairSpec
=============================================================================
