------------------------------- MODULE LogSink -------------------------------
(***************************************************************************)
(* otlpSink() of the Node SDK (runtime-node/src/sinks.ts): log records wait *)
(* in a bounded memory queue and are POSTed in batches by a flush, of which *)
(* there is one at a time and which covers what was queued when it began.   *)
(*                                                                         *)
(* A POST that settles, the code after its `await', the flush's `finally'   *)
(* and what awaits the flush run as microtasks of one event: one step.      *)
(* A POST that failed may have been processed: `delivered' is what the SDK  *)
(* knows.  How long a timer is set for (2 s, doubled by failures) is not    *)
(* modelled.                                                                *)
(***************************************************************************)
EXTENDS Integers, Sequences, SequencesExt

CONSTANTS
    MaxWritten,     \* bound: records written
    Size,           \* the sizes a record may have
    MaxRecordBytes, \* 256 KiB
    MaxRecords,     \* 1000, waiting and in flight
    MaxBytes,       \* 4 MiB, waiting and in flight
    BatchRecords,   \* 50
    BatchBytes,     \* 512 KiB
    MaxAttempts     \* 3 POSTs of one batch in one flush

ASSUME ConstantsAssumption ==
    /\ MaxWritten \in Nat /\ Size \subseteq Nat \ {0}
    /\ MaxRecordBytes \in Nat /\ MaxRecords \in Nat /\ MaxBytes \in Nat
    /\ BatchRecords \in Nat \ {0} /\ BatchBytes \in Nat /\ MaxAttempts \in Nat \ {0}

VARIABLES
    written,        \* number of records written: a record is its number
    bytes,          \* their sizes
    queue,
    queueBytes,
    batch,          \* the batch being POSTed (inFlight is its length)
    inFlightBytes,
    remaining,      \* records the flush under way has still to send after it
    attempt,
    flushing,
    timer,          \* is the flush timer set?
    context,        \* started and not shut down
    stopping,
    closing,        \* shutdown(): "no", "waiting" for a flush, "done"
    delivered,      \* records answered 2xx
    dropped,        \* records counted in sinkStats.dropped
    promised        \* history: what was queued when the flush under way began

records == <<written, bytes>>
waiting == <<queue, queueBytes>>
sending == <<batch, inFlightBytes, remaining, attempt, flushing, promised>>
life == <<context, stopping, closing>>
outcome == <<delivered, dropped>>
sinkVars == <<records, waiting, sending, timer, life, outcome>>

Record == 1..MaxWritten

SinkInit ==
    /\ written = 0 /\ bytes = [r \in Record |-> 0]
    /\ queue = <<>> /\ queueBytes = 0
    /\ batch = <<>> /\ inFlightBytes = 0 /\ remaining = 0 /\ attempt = 0
    /\ flushing = FALSE /\ timer = FALSE
    /\ context = TRUE /\ stopping = FALSE /\ closing = "no"
    /\ delivered = {} /\ dropped = {} /\ promised = {}

-----------------------------------------------------------------------------
BytesOf(rs) ==
    LET sum[i \in 0..Len(rs)] == IF i = 0 THEN 0 ELSE sum[i - 1] + bytes[rs[i]]
    IN sum[Len(rs)]

(* scheduleFlush(): the timer is set unless it is, if anything waits. *)
TimerNeeded(left) == timer \/ left # <<>>

(* Mutant of BatchLength: a batch may reach past the flush's records. *)
BatchPastSnapshot(q, left) ==
    CHOOSE n \in 1..BatchRecords :
        /\ n <= Len(q) /\ (n > 1 => BytesOf(SubSeq(q, 1, n)) <= BatchBytes)
        /\ n = BatchRecords \/ n = Len(q) \/ BytesOf(SubSeq(q, 1, n + 1)) > BatchBytes

(* As many records as a batch may hold, at least one, of those `left'. *)
BatchLength(q, left) ==
    LET fits == {n \in 1..BatchRecords :
                    /\ n <= left /\ n <= Len(q)
                    /\ n > 1 => BytesOf(SubSeq(q, 1, n)) <= BatchBytes}
    IN  CHOOSE n \in fits : \A m \in fits : m <= n

NextBatch(left) ==
    LET n == BatchLength(queue, left)
        taken == SubSeq(queue, 1, n)
    IN  /\ batch' = taken /\ queue' = SubSeq(queue, n + 1, Len(queue))
        /\ inFlightBytes' = BytesOf(taken) /\ queueBytes' = queueBytes - BytesOf(taken)
        /\ remaining' = left - n /\ attempt' = 1

CanFlush == ~flushing /\ context /\ queue # <<>>
BeginFlush ==
    /\ CanFlush
    /\ flushing' = TRUE /\ timer' = FALSE /\ promised' = ToSet(queue)
    /\ NextBatch(Len(queue))
    /\ UNCHANGED records /\ UNCHANGED outcome

(* flush(): a flush under way is joined; otherwise one begins if anything waits. *)
Flush ==
    \/ BeginFlush /\ UNCHANGED life
    \/ ~CanFlush /\ UNCHANGED sinkVars

(* The `finally' of shutdown(): what is left is dropped, and counted. *)
Cleared(left) ==
    /\ queue' = <<>> /\ queueBytes' = 0 /\ dropped' = dropped \cup ToSet(left)
    /\ context' = FALSE /\ timer' = FALSE /\ closing' = "done"

(* The `finally' of a flush that leaves `left' in the queue, and the rest   *)
(* of a shutdown() that waits for it.                                       *)
FlushOver(left, leftBytes) ==
    /\ flushing' = FALSE /\ promised' = {}
    /\ batch' = <<>> /\ inFlightBytes' = 0 /\ remaining' = 0 /\ attempt' = 0
    /\ \/ /\ closing # "waiting"
          /\ queue' = left /\ queueBytes' = leftBytes /\ timer' = TimerNeeded(left)
          /\ UNCHANGED <<context, closing, dropped>>
       \/ closing = "waiting" /\ Cleared(left)

-----------------------------------------------------------------------------

Refuses(size) ==
    \/ stopping \/ size > MaxRecordBytes
    \/ Len(queue) + Len(batch) >= MaxRecords
    \/ queueBytes + inFlightBytes + size > MaxBytes

Write(size) ==
    /\ context /\ written < MaxWritten
    /\ written' = written + 1 /\ bytes' = [bytes EXCEPT ![written + 1] = size]
    /\ \/ /\ Refuses(size)
          /\ dropped' = dropped \cup {written + 1}
          /\ UNCHANGED <<queue, queueBytes, timer>>
       \/ /\ ~Refuses(size)
          /\ queue' = Append(queue, written + 1) /\ queueBytes' = queueBytes + size
          /\ timer' = TRUE
          /\ UNCHANGED dropped
    /\ UNCHANGED delivered /\ UNCHANGED sending /\ UNCHANGED life

(* The timer's callback: its flush() joins a flush under way or begins one. *)
TimerFires ==
    /\ timer
    /\ \/ BeginFlush /\ UNCHANGED life
       \/ /\ ~CanFlush /\ timer' = FALSE
          /\ UNCHANGED records /\ UNCHANGED waiting /\ UNCHANGED sending
          /\ UNCHANGED life /\ UNCHANGED outcome

(* A batch is answered 2xx and the flush goes on with the next one. *)
BatchSucceeds ==
    /\ flushing /\ remaining > 0
    /\ delivered' = delivered \cup ToSet(batch)
    /\ NextBatch(remaining)
    /\ UNCHANGED <<flushing, timer, dropped, promised>>
    /\ UNCHANGED records /\ UNCHANGED life

FlushSucceeds ==
    /\ flushing /\ remaining = 0
    /\ delivered' = delivered \cup ToSet(batch)
    /\ FlushOver(queue, queueBytes)
    /\ UNCHANGED stopping /\ UNCHANGED records

(* A POST fails or times out and is made again. *)
PostRetried ==
    /\ flushing /\ attempt < MaxAttempts
    /\ attempt' = attempt + 1
    /\ UNCHANGED <<batch, inFlightBytes, remaining, flushing, promised, timer>>
    /\ UNCHANGED records /\ UNCHANGED waiting /\ UNCHANGED life /\ UNCHANGED outcome

(* The failed batch goes back in front of what was written meanwhile. *)
Requeued == batch \o queue

(* The attempts or the ten seconds of the flush are used up, before a POST  *)
(* or by one: the flush ends, the rest of its records included.             *)
FlushFails ==
    /\ flushing
    /\ FlushOver(Requeued, queueBytes + inFlightBytes)
    /\ UNCHANGED <<stopping, delivered>> /\ UNCHANGED records

(* shutdown(): flushes, or joins the flush under way. *)
Shutdown ==
    /\ closing = "no" /\ stopping' = TRUE
    /\ \/ /\ flushing /\ closing' = "waiting"
          /\ UNCHANGED <<timer, context>> /\ UNCHANGED records
          /\ UNCHANGED waiting /\ UNCHANGED sending /\ UNCHANGED outcome
       \/ BeginFlush /\ closing' = "waiting" /\ UNCHANGED context
       \/ /\ ~flushing /\ queue = <<>> /\ Cleared(queue)
          /\ UNCHANGED delivered /\ UNCHANGED records /\ UNCHANGED sending

-----------------------------------------------------------------------------
SinkTypeOK ==
    /\ written \in 0..MaxWritten /\ bytes \in [Record -> Nat]
    /\ queue \in Seq(Record) /\ batch \in Seq(Record)
    /\ queueBytes \in Nat /\ inFlightBytes \in Nat
    /\ remaining \in Nat /\ attempt \in 0..MaxAttempts
    /\ {flushing, timer, context, stopping} \subseteq BOOLEAN
    /\ closing \in {"no", "waiting", "done"}
    /\ delivered \subseteq Record /\ dropped \subseteq Record /\ promised \subseteq Record

(* Each record written is in one place: waiting, in flight, delivered, or   *)
(* counted as dropped, whatever fails, overflows or stops; and the byte     *)
(* counts moved by hand between the queue and the batch are those of the    *)
(* records there, so that the bounds of write() bound the memory.           *)
RecordsAccounted ==
    /\ ToSet(batch \o queue) \cup delivered \cup dropped = 1..written
    /\ ToSet(batch \o queue) \cap delivered = {}
    /\ (ToSet(batch \o queue) \cup delivered) \cap dropped = {}
    /\ queueBytes = BytesOf(queue) /\ inFlightBytes = BytesOf(batch)
    /\ Len(queue) + Len(batch) <= MaxRecords /\ queueBytes + inFlightBytes <= MaxBytes

(* Records are delivered in the order they were written, each once, through *)
(* retries and failed batches that come back in front of newer records.     *)
OrderKept ==
    LET held == batch \o queue IN
    /\ \A i \in 1..Len(held) - 1 : held[i] < held[i + 1]
    /\ \A r \in delivered, i \in 1..Len(held) : r < held[i]

(* The count a flush takes at its start stays the number of its records     *)
(* still to be sent while others are appended behind them: a flush that     *)
(* succeeds has delivered everything queued when it began.                  *)
SnapshotExact ==
    flushing => /\ remaining <= Len(queue) /\ batch # <<>>
                /\ promised \ delivered = ToSet(batch \o SubSeq(queue, 1, remaining))

(* While the sink is open a waiting record has a timer or a flush whose end *)
(* sets one.                                                                *)
WaitingHasTimer == queue # <<>> /\ ~stopping => timer \/ flushing
=============================================================================
