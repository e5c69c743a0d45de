---------------------------- MODULE NodeExitProofs ----------------------------
(***************************************************************************)
(* Proofs about the log sink and the exit of the process that uses it:       *)
(* every record is in one place and in its order, the counts moved by hand    *)
(* are those of the records, a flush covers what was queued when it began,     *)
(* and a drained process leaves nothing behind unseen, for any record sizes,   *)
(* bounds and signals.                                                        *)
(***************************************************************************)
EXTENDS NodeExit, SumLemmas

Sorted(q) == \A i, j \in 1..Len(q) : i < j => q[i] < q[j]
Held == ToSet(batch) \cup ToSet(queue)

(* Where the records are, ... *)
PlacesInv ==
    /\ Held \cup delivered \cup dropped = 1..written
    /\ Held \cap delivered = {} /\ (Held \cup delivered) \cap dropped = {}

(* ... in which order, ... *)
OrderInv ==
    /\ Sorted(batch) /\ Sorted(queue)
    /\ \A a \in ToSet(batch), b \in ToSet(queue) : a < b
    /\ \A r \in delivered, h \in Held : r < h

(* ... and what they weigh. *)
SizesInv ==
    /\ Total(queue, bytes, queueBytes) /\ Total(batch, bytes, inFlightBytes)
    /\ Len(queue) + Len(batch) <= MaxRecords /\ queueBytes + inFlightBytes <= MaxBytes

(* What a flush has still to send of what it promised.                      *)
FlushInv ==
    /\ flushing => /\ batch # <<>> /\ remaining <= Len(queue)
                   /\ promised \ delivered = ToSet(batch) \cup {queue[i] : i \in 1..remaining}
    /\ ~flushing => batch = <<>> /\ inFlightBytes = 0 /\ promised = {}

LifeInv ==
    /\ context <=> closing # "done"
    /\ stopping <=> closing # "no"
    /\ closing = "waiting" => flushing
    /\ closing = "done" => queue = <<>> /\ ~flushing

SinkInv ==
    /\ SinkTypeOK /\ PlacesInv /\ OrderInv /\ SizesInv /\ FlushInv /\ LifeInv
    /\ WaitingHasTimer

(* An exit that is asked for waits for a flush of the sink; what was owed at *)
(* the drain of the loop is in that flush, or has been reported.             *)
ExitInv ==
    /\ inFlight => flushing
    /\ exited = "no" /\ exitWith # None => inFlight
    /\ exited = "drained" => exitWith = None /\ ~inFlight
    /\ exitWith = None /\ flushing => owed \subseteq delivered \cup dropped \cup promised
    /\ exitWith = None /\ reported # "failed" /\ ~inFlight => owed \subseteq delivered \cup dropped
    /\ owed \subseteq 1..written

ExitTypeOK ==
    /\ exited \in {"no", "drained", "app", "killed", "second", "crash"} \cup Signal
    /\ {appHandles, idle, inFlight, disposed} \subseteq BOOLEAN
    /\ signals \in [Signal -> 0..2] /\ crash \in {"no", "thrown", "handled"}
    /\ exitWith \in Signal \cup {"crash", None}
    /\ reported \in {"none", "ok", "failed"} /\ beforeExitFlushes \in 0..1
    /\ owed \subseteq Record

ProcessInv == SinkInv /\ ExitTypeOK /\ ExitInv

-----------------------------------------------------------------------------
(* The first j of a sequence. *)
First(q, j) == {q[i] : i \in 1..j}

(* A sequence without elements has none in it. *)
LEMMA ToSetEmpty == ToSet(<<>>) = {} /\ Sorted(<<>>) /\ Len(<<>>) = 0 /\ \A D : <<>> \in Seq(D)
  BY DEF ToSet, Sorted

(* The elements of a sequence are its first ones, up to its length. *)
LEMMA AllAreFirst == ASSUME NEW q \in Seq(Record) PROVE ToSet(q) = First(q, Len(q)) /\ ToSet(q) \subseteq Record
  BY DEF ToSet, First

(* A sorted sequence cut in two.                                             *)
LEMMA CutFacts ==
    ASSUME NEW q \in Seq(Record), Sorted(q), NEW k \in 0..Len(q)
    PROVE  LET a == SubSeq(q, 1, k)
               b == SubSeq(q, k + 1, Len(q))
           IN  /\ a \in Seq(Record) /\ b \in Seq(Record) /\ Len(a) = k /\ Len(b) = Len(q) - k
               /\ ToSet(a) \cup ToSet(b) = ToSet(q) /\ Sorted(a) /\ Sorted(b)
               /\ \A x \in ToSet(a), y \in ToSet(b) : x < y
               /\ \A j \in k..Len(q) : First(q, j) = ToSet(a) \cup First(b, j - k)
<1> DEFINE a == SubSeq(q, 1, k)
           b == SubSeq(q, k + 1, Len(q))
<1>1. /\ a \in Seq(Record) /\ b \in Seq(Record)
      /\ Len(a) = k /\ \A i \in 1..k : a[i] = q[i]
      /\ Len(b) = Len(q) - k /\ \A i \in 1..Len(q) - k : b[i] = q[i + k]
  BY SubSeqProperties
<1>2. Len(q) \in Nat /\ k \in Nat /\ k <= Len(q) /\ \A i \in 1..Len(q) : q[i] \in Record
  OBVIOUS
<1> HIDE DEF a, b
<1>3. ToSet(a) = {q[i] : i \in 1..k}
  <2>1. First(a, k) = {q[i] : i \in 1..k}
    BY <1>1 DEF First
  <2> QED
    BY <1>1, <2>1, AllAreFirst
<1>4. ToSet(b) = {b[i] : i \in 1..Len(q) - k}
  BY <1>1 DEF ToSet
<1>5. ASSUME NEW j \in k..Len(q) PROVE First(q, j) = ToSet(a) \cup First(b, j - k)
  <2>1. ASSUME NEW i \in 1..j PROVE q[i] \in ToSet(a) \cup First(b, j - k)
    <3>1. CASE i <= k
      BY <1>2, <1>3, <3>1
    <3>2. CASE ~(i <= k)
      <4>1. i - k \in 1..j - k /\ i - k \in 1..Len(q) - k /\ (i - k) + k = i
        BY <1>2, <3>2
      <4>2. b[i - k] = q[i]
        BY <1>1, <4>1
      <4> QED
        BY <4>1, <4>2 DEF First
    <3> QED
      BY <3>1, <3>2
  <2>2. ASSUME NEW i \in 1..k PROVE q[i] \in First(q, j)
    <3>1. i \in 1..j
      BY <1>2
    <3> QED
      BY <3>1 DEF First
  <2>3. ASSUME NEW i \in 1..j - k PROVE b[i] \in First(q, j)
    <3>1. i + k \in 1..j /\ i \in 1..Len(q) - k
      BY <1>2
    <3>2. b[i] = q[i + k]
      BY <1>1, <3>1
    <3> QED
      BY <3>1, <3>2 DEF First
  <2> QED
    BY <1>3, <2>1, <2>2, <2>3 DEF First
<1>6. ToSet(a) \cup ToSet(b) = ToSet(q)
  <2>1. Len(q) \in k..Len(q) /\ First(b, Len(q) - k) = ToSet(b)
    BY <1>1, <1>2, AllAreFirst
  <2> QED
    BY <1>5, <2>1, AllAreFirst
<1>7. Sorted(a)
  <2>1. \A i \in 1..k : i \in 1..Len(q)
    BY <1>2
  <2> QED
    BY <1>1, <2>1 DEF Sorted
<1>8. Sorted(b)
  <2> SUFFICES ASSUME NEW i \in 1..Len(b), NEW j \in 1..Len(b), i < j PROVE b[i] < b[j]
    BY DEF Sorted
  <2>1. i \in 1..Len(q) - k /\ j \in 1..Len(q) - k /\ i + k \in 1..Len(q) /\ j + k \in 1..Len(q) /\ i + k < j + k
    BY <1>1, <1>2
  <2>2. q[i + k] < q[j + k]
    BY <2>1 DEF Sorted
  <2> QED
    BY <1>1, <2>1, <2>2
<1>9. \A x \in ToSet(a), y \in ToSet(b) : x < y
  <2> SUFFICES ASSUME NEW i \in 1..k, NEW j \in 1..Len(q) - k PROVE q[i] < b[j]
    BY <1>3, <1>4
  <2>1. i \in 1..Len(q) /\ j + k \in 1..Len(q) /\ i < j + k
    BY <1>2
  <2>2. q[i] < q[j + k]
    BY <2>1 DEF Sorted
  <2> QED
    BY <1>1, <2>2
<1> QED
  BY <1>1, <1>5, <1>6, <1>7, <1>8, <1>9 DEF a, b

(* Two sorted sequences, one after the other.                                *)
LEMMA JoinFacts ==
    ASSUME NEW a \in Seq(Record), NEW b \in Seq(Record)
    PROVE  LET q == a \o b
           IN  /\ q \in Seq(Record) /\ Len(q) = Len(a) + Len(b) /\ ToSet(q) = ToSet(a) \cup ToSet(b)
               /\ \A j \in 0..Len(b) : ToSet(a \o SubSeq(b, 1, j)) = ToSet(a) \cup First(b, j)
               /\ Sorted(a) /\ Sorted(b) /\ (\A x \in ToSet(a), y \in ToSet(b) : x < y) => Sorted(q)
<1>0. ASSUME NEW c \in Seq(Record), NEW d \in Seq(Record)
      PROVE  /\ c \o d \in Seq(Record) /\ Len(c \o d) = Len(c) + Len(d)
             /\ ToSet(c \o d) = ToSet(c) \cup ToSet(d)
  <2> DEFINE q == c \o d
  <2>1. /\ q \in Seq(Record) /\ Len(q) = Len(c) + Len(d)
        /\ \A i \in 1..Len(c) + Len(d) : q[i] = IF i <= Len(c) THEN c[i] ELSE d[i - Len(c)]
    BY ConcatProperties
  <2>2. Len(c) \in Nat /\ Len(d) \in Nat
    OBVIOUS
  <2> HIDE DEF q
  <2>3. ToSet(q) = First(q, Len(c) + Len(d)) /\ ToSet(c) = First(c, Len(c)) /\ ToSet(d) = First(d, Len(d))
    BY <2>1, AllAreFirst
  <2>4. ASSUME NEW i \in 1..Len(c) + Len(d) PROVE q[i] \in ToSet(c) \cup ToSet(d)
    <3>1. CASE i <= Len(c)
      <4>1. i \in 1..Len(c)
        BY <2>2, <3>1
      <4> QED
        BY <2>1, <2>3, <3>1, <4>1 DEF First
    <3>2. CASE ~(i <= Len(c))
      <4>1. i - Len(c) \in 1..Len(d)
        BY <2>2, <3>2
      <4> QED
        BY <2>1, <2>3, <3>2, <4>1 DEF First
    <3> QED
      BY <3>1, <3>2
  <2>5. ASSUME NEW i \in 1..Len(c) PROVE c[i] \in ToSet(q)
    <3>1. i \in 1..Len(c) + Len(d) /\ i <= Len(c)
      BY <2>2
    <3> QED
      BY <2>1, <2>3, <3>1 DEF First
  <2>6. ASSUME NEW i \in 1..Len(d) PROVE d[i] \in ToSet(q)
    <3>1. i + Len(c) \in 1..Len(c) + Len(d) /\ ~(i + Len(c) <= Len(c)) /\ (i + Len(c)) - Len(c) = i
      BY <2>2
    <3>2. q[i + Len(c)] = d[i]
      BY <2>1, <3>1
    <3> QED
      BY <2>3, <3>1, <3>2 DEF First
  <2>7. ToSet(q) = ToSet(c) \cup ToSet(d)
    BY <2>3, <2>4, <2>5, <2>6 DEF First
  <2> QED
    BY <2>1, <2>7 DEF q
<1>1. ASSUME NEW j \in 0..Len(b) PROVE ToSet(a \o SubSeq(b, 1, j)) = ToSet(a) \cup First(b, j)
  <2>1. SubSeq(b, 1, j) \in Seq(Record) /\ Len(SubSeq(b, 1, j)) = j /\ \A i \in 1..j : SubSeq(b, 1, j)[i] = b[i]
    BY SubSeqProperties
  <2>2. First(SubSeq(b, 1, j), j) = First(b, j)
    BY <2>1 DEF First
  <2>3. ToSet(SubSeq(b, 1, j)) = First(b, j)
    BY <2>1, <2>2, AllAreFirst
  <2> QED
    BY ZenonT(60), <1>0, <2>1, <2>3
<1>2. ASSUME Sorted(a), Sorted(b), \A x \in ToSet(a), y \in ToSet(b) : x < y PROVE Sorted(a \o b)
  <2>1. /\ Len(a \o b) = Len(a) + Len(b)
        /\ \A i \in 1..Len(a) + Len(b) : (a \o b)[i] = IF i <= Len(a) THEN a[i] ELSE b[i - Len(a)]
    BY ConcatProperties
  <2>2. Len(a) \in Nat /\ Len(b) \in Nat
    OBVIOUS
  <2> SUFFICES ASSUME NEW i \in 1..Len(a) + Len(b), NEW j \in 1..Len(a) + Len(b), i < j
               PROVE  (a \o b)[i] < (a \o b)[j]
    BY <2>1 DEF Sorted
  <2>3. CASE j <= Len(a)
    <3>1. i \in 1..Len(a) /\ j \in 1..Len(a) /\ i <= Len(a)
      BY <2>2, <2>3
    <3>2. a[i] < a[j]
      BY <1>2, <3>1 DEF Sorted
    <3> QED
      BY <2>1, <2>3, <3>1, <3>2
  <2>4. CASE ~(j <= Len(a)) /\ i <= Len(a)
    <3>1. i \in 1..Len(a) /\ j - Len(a) \in 1..Len(b)
      BY <2>2, <2>4
    <3>2. a[i] \in ToSet(a) /\ b[j - Len(a)] \in ToSet(b)
      BY <3>1, AllAreFirst DEF First
    <3> QED
      BY <1>2, <2>1, <2>4, <3>2
  <2>5. CASE ~(j <= Len(a)) /\ ~(i <= Len(a))
    <3>1. i - Len(a) \in 1..Len(b) /\ j - Len(a) \in 1..Len(b) /\ i - Len(a) < j - Len(a)
      BY <2>2, <2>5
    <3>2. b[i - Len(a)] < b[j - Len(a)]
      BY <1>2, <3>1 DEF Sorted
    <3> QED
      BY <2>1, <2>5, <3>2
  <2> QED
    BY <2>3, <2>4, <2>5
<1> QED
  BY <1>0, <1>1, <1>2

(* The bytes the properties speak of are the total over the sequence.        *)
LEMMA BytesOfIsTotal ==
    ASSUME NEW rs \in Seq(Record), bytes \in [Record -> Nat], NEW n, Total(rs, bytes, n)
    PROVE  BytesOf(rs) = n
<1> DEFINE Inline(f) == [i \in 0..Len(rs) |-> IF i = 0 THEN 0 ELSE f[i - 1] + bytes[rs[i]]]
<1>1. bytes \in [Record -> Int]
  OBVIOUS
<1>2. \A f : IsRunning(f, rs, bytes) <=> f = Inline(f)
  BY DEF IsRunning
<1>3. \E f : f = Inline(f)
  BY <1>1, <1>2, RunningSum
<1>4. PICK f : f = Inline(f) /\ BytesOf(rs) = f[Len(rs)]
  BY <1>3 DEF BytesOf
<1> HIDE DEF Inline
<1> QED
  BY <1>1, <1>2, <1>4, RunningSum

(* BatchLength is one of the numbers of records a batch may have.            *)
LEMMA BatchLengthType ==
    ASSUME NEW q \in Seq(Record), NEW left \in 1..Len(q)
    PROVE  BatchLength(q, left) \in 1..left
<1> DEFINE fits == {n \in 1..BatchRecords :
                      /\ n <= left /\ n <= Len(q)
                      /\ n > 1 => BytesOf(SubSeq(q, 1, n)) <= BatchBytes}
<1>1. 1 \in fits /\ fits \subseteq 1..left /\ BatchRecords \in Nat /\ \A n \in fits : n <= BatchRecords
  BY ConstantsAssumption
<1>2. BatchLength(q, left) = CHOOSE n \in fits : \A m \in fits : m <= n
  BY DEF BatchLength
<1> HIDE DEF fits
<1>3. \E n \in fits : \A m \in fits : m <= n
  <2> DEFINE room == {BatchRecords - n : n \in fits}
  <2>1. room \in SUBSET Nat /\ room # {}
    BY <1>1
  <2>2. PICK d \in room : \A e \in room : d <= e
    <3> HIDE DEF room
    <3> QED
      BY <2>1, LeastNatural
  <2>3. PICK n \in fits : d = BatchRecords - n
    BY <2>2
  <2>4. ASSUME NEW m \in fits PROVE m <= n
    <3>1. d <= BatchRecords - m
      BY <2>2
    <3> QED
      BY <1>1, <2>3, <3>1
  <2> QED
    BY <2>4
<1> QED
  BY <1>1, <1>2, <1>3

(* A batch is cut off the queue: the records, their order and their bytes.   *)
LEMMA Taking ==
    ASSUME SinkTypeOK, OrderInv, SizesInv, NEW left \in 1..Len(queue), NextBatch(left)
    PROVE  /\ batch' \in Seq(Record) /\ queue' \in Seq(Record) /\ batch' # <<>>
           /\ Len(batch') + Len(queue') = Len(queue)
           /\ remaining' \in Nat /\ remaining' <= Len(queue') /\ attempt' = 1
           /\ ToSet(batch') \cup ToSet(queue') = ToSet(queue)
           /\ Sorted(batch') /\ Sorted(queue') /\ \A a \in ToSet(batch'), b \in ToSet(queue') : a < b
           /\ First(queue, left) = ToSet(batch') \cup First(queue', remaining')
           /\ inFlightBytes' \in Nat /\ queueBytes' \in Nat /\ inFlightBytes' + queueBytes' = queueBytes
           /\ Total(batch', bytes, inFlightBytes') /\ Total(queue', bytes, queueBytes')
<1> DEFINE n == BatchLength(queue, left)
           a == SubSeq(queue, 1, n)
           b == SubSeq(queue, n + 1, Len(queue))
<1>1. queue \in Seq(Record) /\ Sorted(queue) /\ bytes \in [Record -> Nat] /\ Total(queue, bytes, queueBytes)
  BY DEF SinkTypeOK, OrderInv, SizesInv
<1>2. n \in 1..left
  BY <1>1, BatchLengthType
<1>3. /\ batch' = a /\ queue' = b /\ remaining' = left - n /\ attempt' = 1
      /\ inFlightBytes' = BytesOf(a) /\ queueBytes' = queueBytes - BytesOf(a)
  BY DEF NextBatch
<1> HIDE DEF n
<1>4. n \in 0..Len(queue) /\ left \in n..Len(queue) /\ n \in Nat /\ left \in Nat /\ Len(queue) \in Nat /\ n # 0
  BY <1>1, <1>2
<1>5. /\ a \in Seq(Record) /\ b \in Seq(Record) /\ Len(a) = n /\ Len(b) = Len(queue) - n
      /\ ToSet(a) \cup ToSet(b) = ToSet(queue) /\ Sorted(a) /\ Sorted(b)
      /\ \A x \in ToSet(a), y \in ToSet(b) : x < y
      /\ First(queue, left) = ToSet(a) \cup First(b, left - n)
  BY <1>1, <1>4, CutFacts
<1>6. bytes \in [Record -> Int]
  BY <1>1
<1>7. PICK m \in Int : Total(a, bytes, m) /\ Total(b, bytes, queueBytes - m)
  BY <1>1, <1>4, <1>6, TotalCut
<1> HIDE DEF a, b
<1>8. m \in Nat /\ queueBytes - m \in Nat /\ BytesOf(a) = m /\ queueBytes \in Nat
  <2>1. m \in Nat /\ queueBytes - m \in Nat
    BY <1>1, <1>5, <1>7, TotalOfNaturals
  <2>2. BytesOf(a) = m
    BY <1>1, <1>5, <1>7, BytesOfIsTotal
  <2> QED
    BY <2>1, <2>2 DEF SinkTypeOK
<1>9. a # <<>>
  BY <1>4, <1>5, ToSetEmpty
<1>10. left - n \in Nat /\ left - n <= Len(b) /\ Len(a) + Len(b) = Len(queue) /\ m + (queueBytes - m) = queueBytes
  BY <1>4, <1>5, <1>8
<1> QED
  BY <1>3, <1>5, <1>7, <1>8, <1>9, <1>10

-----------------------------------------------------------------------------
(* A flush begins, by itself or for a shutdown.                              *)
LEMMA BeginStep ==
    ASSUME SinkInv, BeginFlush, UNCHANGED context,
           \/ UNCHANGED <<stopping, closing>>
           \/ closing = "no" /\ stopping' = TRUE /\ closing' = "waiting"
    PROVE  SinkInv' /\ flushing' /\ promised' = Held
<1>1. /\ ~flushing /\ context /\ queue # <<>> /\ batch = <<>> /\ inFlightBytes = 0
      /\ NextBatch(Len(queue)) /\ UNCHANGED <<written, bytes, delivered, dropped>>
      /\ flushing' = TRUE /\ timer' = FALSE /\ promised' = ToSet(queue)
  BY DEF BeginFlush, CanFlush, SinkInv, FlushInv, records, outcome
<1>2. SinkTypeOK /\ PlacesInv /\ OrderInv /\ SizesInv /\ FlushInv /\ LifeInv
  BY DEF SinkInv
<1>3. queue \in Seq(Record) /\ Len(queue) \in 1..Len(queue)
  <2>1. queue \in Seq(Record)
    BY <1>2 DEF SinkTypeOK
  <2> QED
    BY <1>1, <2>1, EmptySeq
<1>4. /\ batch' \in Seq(Record) /\ queue' \in Seq(Record) /\ batch' # <<>>
      /\ Len(batch') + Len(queue') = Len(queue)
      /\ remaining' \in Nat /\ remaining' <= Len(queue') /\ attempt' = 1
      /\ ToSet(batch') \cup ToSet(queue') = ToSet(queue)
      /\ Sorted(batch') /\ Sorted(queue') /\ \A a \in ToSet(batch'), b \in ToSet(queue') : a < b
      /\ First(queue, Len(queue)) = ToSet(batch') \cup First(queue', remaining')
      /\ inFlightBytes' \in Nat /\ queueBytes' \in Nat /\ inFlightBytes' + queueBytes' = queueBytes
      /\ Total(batch', bytes, inFlightBytes') /\ Total(queue', bytes, queueBytes')
  BY <1>1, <1>2, <1>3, Taking
<1>5. Held' = Held /\ Held = ToSet(queue) /\ ToSet(queue) \subseteq Record
  BY <1>1, <1>3, <1>4, ToSetEmpty, AllAreFirst DEF Held
<1>6. SinkTypeOK'
  <2>1. 1 \in 0..MaxAttempts
    BY ConstantsAssumption
  <2>2. {flushing', timer', context', stopping'} \subseteq BOOLEAN /\ closing' \in {"no", "waiting", "done"}
    BY <1>1, <1>2 DEF SinkTypeOK
  <2>3. /\ written' \in 0..MaxWritten /\ bytes' \in [Record -> Nat]
        /\ delivered' \subseteq Record /\ dropped' \subseteq Record /\ promised' \subseteq Record
    BY <1>1, <1>2, <1>5 DEF SinkTypeOK
  <2> QED
    BY <1>4, <2>1, <2>2, <2>3 DEF SinkTypeOK
<1>7. PlacesInv'
  BY <1>1, <1>2, <1>5 DEF PlacesInv
<1>8. OrderInv'
  BY <1>1, <1>2, <1>4, <1>5 DEF OrderInv
<1>9. SizesInv'
  <2>1. Len(batch) = 0 /\ Len(queue) \in Nat /\ queueBytes \in Nat
    BY <1>1, <1>2, <1>3, ToSetEmpty DEF SinkTypeOK
  <2>2. Len(queue) + 0 <= MaxRecords /\ queueBytes + 0 <= MaxBytes
    BY <1>1, <1>2, <2>1 DEF SizesInv
  <2>3. Len(queue) <= MaxRecords /\ queueBytes <= MaxBytes
    BY <2>1, <2>2
  <2>4. Len(queue') + Len(batch') = Len(queue) /\ queueBytes' + inFlightBytes' = queueBytes
    <3>1. Len(queue') \in Nat /\ Len(batch') \in Nat
      BY <1>4
    <3> QED
      BY <1>4, <3>1
  <2> QED
    BY <1>1, <1>4, <2>3, <2>4 DEF SizesInv
<1>10. FlushInv'
  <2>1. promised' \ delivered' = ToSet(queue)
    BY <1>1, <1>2, <1>5 DEF PlacesInv
  <2>2. ToSet(queue) = ToSet(batch') \cup {queue'[i] : i \in 1..remaining'}
    BY <1>3, <1>4, AllAreFirst DEF First
  <2> QED
    BY <1>1, <1>4, <2>1, <2>2 DEF FlushInv
<1>11. LifeInv'
  BY <1>1, <1>2 DEF LifeInv, SinkTypeOK
<1>12. WaitingHasTimer'
  BY <1>1 DEF WaitingHasTimer
<1> QED
  BY <1>1, <1>5, <1>6, <1>7, <1>8, <1>9, <1>10, <1>11, <1>12 DEF SinkInv

(* A batch is answered and the next one is sent.                             *)
LEMMA NextStep == ASSUME SinkInv, BatchSucceeds PROVE SinkInv'
<1>1. /\ flushing /\ remaining > 0 /\ delivered' = delivered \cup ToSet(batch) /\ NextBatch(remaining)
      /\ UNCHANGED <<flushing, timer, dropped, promised, written, bytes, context, stopping, closing>>
  BY DEF BatchSucceeds, records, life
<1>2. SinkTypeOK /\ PlacesInv /\ OrderInv /\ SizesInv /\ FlushInv /\ LifeInv
  BY DEF SinkInv
<1>3. /\ queue \in Seq(Record) /\ batch \in Seq(Record) /\ Len(queue) \in Nat /\ Len(batch) \in Nat
      /\ remaining \in 1..Len(queue)
  BY <1>1, <1>2 DEF SinkTypeOK, FlushInv
<1>4. /\ batch' \in Seq(Record) /\ queue' \in Seq(Record) /\ batch' # <<>>
      /\ Len(batch') + Len(queue') = Len(queue)
      /\ remaining' \in Nat /\ remaining' <= Len(queue') /\ attempt' = 1
      /\ ToSet(batch') \cup ToSet(queue') = ToSet(queue)
      /\ Sorted(batch') /\ Sorted(queue') /\ \A a \in ToSet(batch'), b \in ToSet(queue') : a < b
      /\ First(queue, remaining) = ToSet(batch') \cup First(queue', remaining')
      /\ inFlightBytes' \in Nat /\ queueBytes' \in Nat /\ inFlightBytes' + queueBytes' = queueBytes
      /\ Total(batch', bytes, inFlightBytes') /\ Total(queue', bytes, queueBytes')
  BY <1>1, <1>2, <1>3, Taking
<1>5. Held' = ToSet(queue) /\ ToSet(queue) \subseteq Record /\ ToSet(batch) \subseteq Record
  BY <1>3, <1>4, AllAreFirst DEF Held
<1>6. ToSet(batch) \cap ToSet(queue) = {}
  <2>1. \A a \in ToSet(batch), b \in ToSet(queue) : a < b
    BY <1>2 DEF OrderInv
  <2>2. \A a \in ToSet(batch) : a \in Int
    BY <1>5 DEF Record
  <2> QED
    BY <2>1, <2>2
<1>7. SinkTypeOK'
  BY SMTT(40), <1>1, <1>2, <1>4, <1>5, ConstantsAssumption DEF SinkTypeOK
<1>8. PlacesInv'
  BY <1>1, <1>2, <1>5, <1>6 DEF PlacesInv, Held
<1>9. OrderInv'
  BY <1>1, <1>2, <1>4, <1>5 DEF OrderInv, Held
<1>10. SizesInv'
  <2>1. Len(queue) + Len(batch) <= MaxRecords /\ queueBytes + inFlightBytes <= MaxBytes
    BY <1>2 DEF SizesInv
  <2>2. inFlightBytes \in Nat /\ MaxRecords \in Nat /\ MaxBytes \in Nat
    BY <1>2, ConstantsAssumption DEF SinkTypeOK
  <2>3. Len(queue') + Len(batch') <= MaxRecords
    <3>1. Len(batch') \in Nat /\ Len(queue') \in Nat
      BY <1>4
    <3> QED
      BY SMTT(40), <1>3, <1>4, <2>1, <2>2, <3>1
  <2>4. queueBytes' + inFlightBytes' <= MaxBytes
    <3>1. queueBytes \in Nat
      BY <1>2 DEF SinkTypeOK
    <3>2. queueBytes' \in Nat /\ inFlightBytes' \in Nat /\ inFlightBytes' + queueBytes' = queueBytes
      BY <1>4
    <3>3. queueBytes + inFlightBytes <= MaxBytes
      BY <2>1
    <3>4. queueBytes <= MaxBytes
      BY <2>2, <3>1, <3>3
    <3>5. queueBytes' + inFlightBytes' = queueBytes
      BY <3>2
    <3> QED
      BY <3>4, <3>5
  <2> QED
    BY <1>1, <1>4, <2>3, <2>4 DEF SizesInv
<1>11. FlushInv'
  <2>1. promised \ delivered = ToSet(batch) \cup First(queue, remaining)
    BY <1>1, <1>2 DEF FlushInv, First
  <2>2. First(queue, remaining) \subseteq ToSet(queue)
    BY <1>3, AllAreFirst DEF First
  <2>3. promised' \ delivered' = First(queue, remaining)
    BY <1>1, <1>6, <2>1, <2>2
  <2> QED
    BY <1>1, <1>4, <2>3 DEF FlushInv, First
<1>12. LifeInv'
  BY <1>1, <1>2 DEF LifeInv
<1>13. WaitingHasTimer'
  BY <1>1 DEF WaitingHasTimer
<1> QED
  BY <1>7, <1>8, <1>9, <1>10, <1>11, <1>12, <1>13 DEF SinkInv

(* A flush ends: some of the records under way have arrived, the others are  *)
(* left, to wait on or to be dropped by the shutdown that waits.             *)
LEMMA OverStep ==
    ASSUME SinkInv, flushing, NEW left \in Seq(Record), NEW leftBytes \in Nat,
           Total(left, bytes, leftBytes), Sorted(left), Len(left) <= MaxRecords, leftBytes <= MaxBytes,
           NEW gone, delivered' = delivered \cup gone,
           gone \cup ToSet(left) = Held, gone \cap ToSet(left) = {}, \A g \in gone, x \in ToSet(left) : g < x,
           FlushOver(left, leftBytes), UNCHANGED <<stopping, written, bytes>>
    PROVE  SinkInv'
<1>1. /\ ~flushing' /\ flushing' \in BOOLEAN /\ promised' = {} /\ batch' = <<>> /\ inFlightBytes' = 0
      /\ remaining' = 0 /\ attempt' = 0
  BY DEF FlushOver
<1>2. SinkTypeOK /\ PlacesInv /\ OrderInv /\ SizesInv /\ FlushInv /\ LifeInv
  BY DEF SinkInv
<1>3. /\ \/ /\ closing # "waiting" /\ queue' = left /\ queueBytes' = leftBytes /\ timer' = TimerNeeded(left)
            /\ UNCHANGED <<context, closing, dropped>>
         \/ /\ closing = "waiting" /\ queue' = <<>> /\ queueBytes' = 0 /\ dropped' = dropped \cup ToSet(left)
            /\ context' = FALSE /\ timer' = FALSE /\ closing' = "done"
  BY DEF FlushOver, Cleared
<1>4. ToSet(left) \subseteq Record /\ ToSet(batch) \subseteq Record /\ ToSet(queue) \subseteq Record
  BY <1>2, AllAreFirst DEF SinkTypeOK
<1>5. gone \subseteq Record
  BY <1>4 DEF Held
<1>6. Held' = IF closing = "waiting" THEN {} ELSE ToSet(left)
  BY <1>1, <1>3, ToSetEmpty DEF Held
<1>7. SinkTypeOK'
  <2>1. 0 \in 0..MaxAttempts /\ 0 \in Nat
    BY ConstantsAssumption
  <2>2. {flushing', timer', context', stopping'} \subseteq BOOLEAN /\ closing' \in {"no", "waiting", "done"}
    BY <1>1, <1>2, <1>3 DEF SinkTypeOK, TimerNeeded
  <2>3. queue' \in Seq(Record) /\ queueBytes' \in Nat /\ batch' \in Seq(Record)
    <3>1. <<>> \in Seq(Record)
      BY ToSetEmpty
    <3>2. queue' \in {left, <<>>} /\ queueBytes' \in {leftBytes, 0}
      BY <1>3
    <3>3. queue' \in Seq(Record)
      BY <3>1, <3>2, Zenon
    <3>4. batch' \in Seq(Record)
      BY <1>1, <3>1, Zenon
    <3> QED
      BY <3>2, <3>3, <3>4
  <2>4. /\ written' \in 0..MaxWritten /\ bytes' \in [Record -> Nat]
        /\ delivered' \subseteq Record /\ dropped' \subseteq Record /\ promised' \subseteq Record
    BY <1>1, <1>2, <1>3, <1>4, <1>5 DEF SinkTypeOK
  <2> QED
    BY <1>1, <2>1, <2>2, <2>3, <2>4 DEF SinkTypeOK
<1>8. PlacesInv'
  BY <1>2, <1>3, <1>6 DEF PlacesInv
<1>9. OrderInv'
  <2>1. Sorted(queue') /\ Sorted(batch') /\ ToSet(batch') = {}
    BY <1>1, <1>3, ToSetEmpty
  <2>2. \A r \in delivered', h \in Held' : r < h
    BY <1>2, <1>6 DEF OrderInv
  <2> QED
    BY <2>1, <2>2 DEF OrderInv
<1>10. SizesInv'
  <2>1. Len(batch') = 0 /\ Total(batch', bytes, 0) /\ MaxRecords \in Nat /\ MaxBytes \in Nat
    BY <1>1, ToSetEmpty, TotalEmpty, ConstantsAssumption
  <2>2. CASE closing = "waiting"
    <3>1. Total(queue', bytes, queueBytes') /\ Len(queue') = 0 /\ queueBytes' = 0
      BY <1>3, <2>2, ToSetEmpty, TotalEmpty
    <3>2. Len(queue') + Len(batch') <= MaxRecords /\ queueBytes' + inFlightBytes' <= MaxBytes
      <4>1. inFlightBytes' = 0 /\ Len(batch') = 0
        BY <1>1, <2>1
      <4> QED
        BY <2>1, <3>1, <4>1
    <3>3. Total(batch', bytes, inFlightBytes') /\ bytes' = bytes
      BY <1>1, <2>1
    <3> QED
      BY <3>1, <3>2, <3>3 DEF SizesInv
  <2>3. CASE closing # "waiting"
    <3>1. Total(queue', bytes, queueBytes') /\ Len(queue') <= MaxRecords /\ queueBytes' <= MaxBytes
          /\ Len(queue') \in Nat /\ queueBytes' \in Nat
      BY <1>3, <2>3
    <3>2. Len(queue') + Len(batch') <= MaxRecords /\ queueBytes' + inFlightBytes' <= MaxBytes
      <4>1. \A a, b, m \in Nat : a <= m /\ b = 0 => a + b <= m
        OBVIOUS
      <4>2. Len(batch') = 0 /\ inFlightBytes' = 0
        BY <1>1, <2>1
      <4>3. 0 \in Nat
        OBVIOUS
      <4>4. Len(queue') + Len(batch') <= MaxRecords
        BY <2>1, <3>1, <4>1, <4>2, <4>3, Zenon
      <4>5. queueBytes' + inFlightBytes' <= MaxBytes
        BY <2>1, <3>1, <4>1, <4>2, <4>3, Zenon
      <4> QED
        BY <4>4, <4>5
    <3>3. Total(batch', bytes, inFlightBytes') /\ bytes' = bytes
      BY <1>1, <2>1
    <3> QED
      BY <3>1, <3>2, <3>3 DEF SizesInv
  <2> QED
    BY <2>2, <2>3
<1>11. FlushInv'
  BY <1>1 DEF FlushInv
<1>12. LifeInv'
  BY <1>1, <1>2, <1>3 DEF LifeInv
<1>13. WaitingHasTimer'
  BY <1>3, ToSetEmpty DEF WaitingHasTimer, TimerNeeded
<1> QED
  BY <1>7, <1>8, <1>9, <1>10, <1>11, <1>12, <1>13 DEF SinkInv

(* The last batch is answered.                                               *)
LEMMA SuccessStep == ASSUME SinkInv, FlushSucceeds PROVE SinkInv'
<1>1. /\ flushing /\ delivered' = delivered \cup ToSet(batch) /\ FlushOver(queue, queueBytes)
      /\ UNCHANGED <<stopping, written, bytes>>
  BY DEF FlushSucceeds, records
<1>2. SinkTypeOK /\ OrderInv /\ SizesInv
  BY DEF SinkInv
<1>3. /\ queue \in Seq(Record) /\ queueBytes \in Nat /\ inFlightBytes \in Nat /\ MaxRecords \in Nat
      /\ MaxBytes \in Nat /\ batch \in Seq(Record) /\ Len(queue) \in Nat /\ Len(batch) \in Nat
  BY <1>2, ConstantsAssumption DEF SinkTypeOK
<1>4. /\ Total(queue, bytes, queueBytes) /\ Len(queue) + Len(batch) <= MaxRecords
      /\ queueBytes + inFlightBytes <= MaxBytes
  BY <1>2 DEF SizesInv
<1>5. Len(queue) <= MaxRecords /\ queueBytes <= MaxBytes
  <2>1. Len(queue) <= MaxRecords
    BY <1>3, <1>4
  <2>2. queueBytes <= MaxBytes
    BY <1>3, <1>4
  <2> QED
    BY <2>1, <2>2
<1>6. Sorted(queue) /\ \A g \in ToSet(batch), x \in ToSet(queue) : g < x
  BY <1>2 DEF OrderInv
<1>7. ToSet(batch) \cap ToSet(queue) = {} /\ ToSet(batch) \cup ToSet(queue) = Held
  <2>1. \A g \in ToSet(batch) : g \in Int
    BY <1>3, AllAreFirst DEF Record
  <2> QED
    BY <1>6, <2>1 DEF Held
<1> QED
  BY <1>1, <1>3, <1>4, <1>5, <1>6, <1>7, OverStep

(* The attempts are used up: the batch is in front of the queue again.       *)
LEMMA FailureStep == ASSUME SinkInv, FlushFails PROVE SinkInv'
<1>1. /\ flushing /\ delivered' = delivered \cup {} /\ FlushOver(Requeued, queueBytes + inFlightBytes)
      /\ UNCHANGED <<stopping, written, bytes>>
  BY DEF FlushFails, records
<1>2. SinkTypeOK /\ OrderInv /\ SizesInv
  BY DEF SinkInv
<1>3. /\ queue \in Seq(Record) /\ queueBytes \in Nat /\ inFlightBytes \in Nat /\ bytes \in [Record -> Int]
      /\ batch \in Seq(Record) /\ Len(queue) \in Nat /\ Len(batch) \in Nat /\ queueBytes + inFlightBytes \in Nat
  BY <1>2 DEF SinkTypeOK
<1>4. /\ Total(queue, bytes, queueBytes) /\ Total(batch, bytes, inFlightBytes)
      /\ Len(queue) + Len(batch) <= MaxRecords /\ queueBytes + inFlightBytes <= MaxBytes
  BY <1>2 DEF SizesInv
<1>5. Sorted(batch) /\ Sorted(queue) /\ \A a \in ToSet(batch), b \in ToSet(queue) : a < b
  BY <1>2 DEF OrderInv
<1>6. /\ Requeued \in Seq(Record) /\ Len(Requeued) = Len(batch) + Len(queue)
      /\ ToSet(Requeued) = Held /\ Sorted(Requeued)
  BY <1>3, <1>5, JoinFacts DEF Requeued, Held
<1>7. Total(Requeued, bytes, queueBytes + inFlightBytes)
  <2>1. Total(batch \o queue, bytes, inFlightBytes + queueBytes)
    BY <1>3, <1>4, TotalConcat
  <2>2. inFlightBytes + queueBytes = queueBytes + inFlightBytes
    BY <1>3
  <2> QED
    BY <2>1, <2>2 DEF Requeued
<1>8. Len(Requeued) <= MaxRecords
  <2>1. Len(batch) + Len(queue) = Len(queue) + Len(batch)
    BY <1>3
  <2> QED
    BY <1>4, <1>6, <2>1
<1>9. /\ {} \cup ToSet(Requeued) = Held /\ {} \cap ToSet(Requeued) = {}
      /\ \A g \in {}, x \in ToSet(Requeued) : g < x
  BY <1>6
<1> HIDE DEF Requeued
<1> QED
  BY <1>1, <1>3, <1>4, <1>6, <1>7, <1>8, <1>9, OverStep

(* What waits and what is sent weigh the same when the next record's size is *)
(* noted: they are older.                                                    *)
LEMMA OldRecordsWeigh ==
    ASSUME SinkTypeOK, PlacesInv, NEW size, written < MaxWritten, bytes' = [bytes EXCEPT ![written + 1] = size],
           NEW q \in Seq(Record), ToSet(q) \subseteq Held, NEW n, Total(q, bytes, n)
    PROVE  Total(q, bytes', n)
<1>1. \A i \in 1..Len(q) : q[i] \in 1..written
  BY AllAreFirst DEF First, PlacesInv
<1>2. written \in Nat /\ bytes \in [Record -> Nat]
  BY DEF SinkTypeOK
<1>3. \A i \in 1..Len(q) : bytes'[q[i]] = bytes[q[i]]
  <2> SUFFICES ASSUME NEW i \in 1..Len(q) PROVE bytes'[q[i]] = bytes[q[i]]
    OBVIOUS
  <2>1. q[i] \in Record /\ q[i] # written + 1
    BY <1>1, <1>2
  <2> QED
    BY <1>2, <2>1
<1> QED
  BY <1>3, TotalReweighted

(* write() queues the record as the last, or drops it.                       *)
LEMMA WriteStep == ASSUME SinkInv, NEW size \in Size, Write(size) PROVE SinkInv'
<1> DEFINE r == written + 1
<1>1. /\ context /\ written < MaxWritten /\ written' = r /\ bytes' = [bytes EXCEPT ![r] = size]
      /\ UNCHANGED <<delivered, batch, inFlightBytes, remaining, attempt, flushing, promised, context, stopping, closing>>
  BY DEF Write, sending, life
<1>2. SinkTypeOK /\ PlacesInv /\ OrderInv /\ SizesInv /\ FlushInv /\ LifeInv
  BY DEF SinkInv
<1>3. /\ queue \in Seq(Record) /\ batch \in Seq(Record) /\ Len(queue) \in Nat /\ Len(batch) \in Nat
      /\ queueBytes \in Nat /\ inFlightBytes \in Nat
      /\ written \in Nat /\ bytes \in [Record -> Nat] /\ r \in Record /\ size \in Nat
      /\ MaxWritten \in Nat /\ MaxRecords \in Nat /\ MaxBytes \in Nat
  BY <1>1, <1>2, ConstantsAssumption DEF SinkTypeOK, Record
<1>4. /\ \A h \in Held \cup delivered \cup dropped : h \in Nat /\ h < r
      /\ 1..r = 1..written \cup {r} /\ r \notin Held \cup delivered \cup dropped
  <2>1. \A h \in 1..written : h \in Nat /\ h < r /\ h # r
    BY <1>3
  <2>2. 1..r = 1..written \cup {r}
    BY <1>3
  <2> QED
    BY <1>2, <2>1, <2>2 DEF PlacesInv
<1>5. bytes' \in [Record -> Nat] /\ bytes' \in [Record -> Int] /\ bytes'[r] = size
  BY <1>1, <1>3
<1>6. Total(queue, bytes', queueBytes) /\ Total(batch, bytes', inFlightBytes)
  <2>1. Total(queue, bytes, queueBytes) /\ Total(batch, bytes, inFlightBytes)
    BY <1>2 DEF SizesInv
  <2>2. ToSet(queue) \subseteq Held /\ ToSet(batch) \subseteq Held
    BY DEF Held
  <2> QED
    BY <1>1, <1>2, <1>3, <2>1, <2>2, OldRecordsWeigh
<1> HIDE DEF r
<1>7. CASE Refuses(size)
  <2>1. dropped' = dropped \cup {r} /\ UNCHANGED <<queue, queueBytes, timer>>
    BY <1>7 DEF Write, r
  <2>2. Held' = Held
    BY <1>1, <2>1 DEF Held
  <2>3. SinkTypeOK'
    BY <1>1, <1>2, <1>3, <1>5, <2>1 DEF SinkTypeOK, Record, r
  <2>4. PlacesInv'
    BY <1>1, <1>2, <1>4, <2>1, <2>2 DEF PlacesInv
  <2>5. OrderInv'
    BY <1>1, <1>2, <2>1, <2>2 DEF OrderInv
  <2>6. SizesInv'
    BY <1>1, <1>2, <1>6, <2>1 DEF SizesInv
  <2>7. FlushInv' /\ LifeInv' /\ WaitingHasTimer'
    BY <1>1, <1>2, <2>1 DEF FlushInv, LifeInv, WaitingHasTimer, SinkInv
  <2> QED
    BY <2>3, <2>4, <2>5, <2>6, <2>7 DEF SinkInv
<1>8. CASE ~Refuses(size)
  <2>1. queue' = Append(queue, r) /\ queueBytes' = queueBytes + size /\ timer' = TRUE /\ UNCHANGED dropped
    BY <1>8 DEF Write, r
  <2>2. /\ Len(queue) + Len(batch) < MaxRecords /\ queueBytes + inFlightBytes + size <= MaxBytes
    BY <1>3, <1>8 DEF Refuses
  <2>3. /\ queue' \in Seq(Record) /\ Len(queue') = Len(queue) + 1 /\ queue'[Len(queue) + 1] = r
        /\ \A i \in 1..Len(queue) : queue'[i] = queue[i]
    BY <1>3, <2>1, AppendProperties
  <2>4. ToSet(queue') = ToSet(queue) \cup {r}
    <3>1. ToSet(queue') = First(queue', Len(queue) + 1) /\ ToSet(queue) = First(queue, Len(queue))
      BY <1>3, <2>3, AllAreFirst
    <3>2. First(queue', Len(queue) + 1) = First(queue, Len(queue)) \cup {queue'[Len(queue) + 1]}
      <4>1. 1..Len(queue) + 1 = 1..Len(queue) \cup {Len(queue) + 1}
        BY <1>3
      <4>2. First(queue', Len(queue) + 1) = {queue'[i] : i \in 1..Len(queue)} \cup {queue'[Len(queue) + 1]}
        BY <4>1 DEF First
      <4>3. {queue'[i] : i \in 1..Len(queue)} = First(queue, Len(queue))
        BY <2>3 DEF First
      <4> QED
        BY <4>2, <4>3
    <3> QED
      BY <2>3, <3>1, <3>2
  <2>5. Held' = Held \cup {r}
    BY <1>1, <2>4 DEF Held
  <2>6. SinkTypeOK'
    <3>1. queueBytes + size \in Nat
      BY <1>3
    <3> QED
      BY SMTT(40), <1>1, <1>2, <1>3, <1>5, <2>1, <2>3, <3>1 DEF SinkTypeOK, Record, r
  <2>7. PlacesInv'
    BY <1>1, <1>2, <1>4, <2>1, <2>5 DEF PlacesInv
  <2>8. OrderInv'
    <3>1. Sorted(queue')
      <4> SUFFICES ASSUME NEW i \in 1..Len(queue) + 1, NEW j \in 1..Len(queue) + 1, i < j
                   PROVE  queue'[i] < queue'[j]
        BY <2>3 DEF Sorted
      <4>1. i \in 1..Len(queue) /\ queue'[i] = queue[i]
        BY SMTT(40), <1>3, <2>3
      <4>2. CASE j = Len(queue) + 1
        <5>1. queue[i] \in Held
          BY <1>3, <4>1, AllAreFirst DEF Held, First
        <5> QED
          BY <1>4, <2>3, <4>1, <4>2, <5>1
      <4>3. CASE j # Len(queue) + 1
        <5>1. j \in 1..Len(queue)
          BY <1>3, <4>3
        <5>3. queue'[j] = queue[j]
          BY <2>3, <5>1
        <5>2. queue[i] < queue[j]
          BY <1>2, <4>1, <5>1 DEF OrderInv, Sorted
        <5> QED
          BY <4>1, <5>3, <5>2
      <4> QED
        BY <4>2, <4>3
    <3>2. \A h \in Held \cup delivered : h < r
      BY <1>4
    <3> QED
      BY <1>1, <1>2, <2>4, <2>5, <3>1, <3>2 DEF OrderInv, Held
  <2>9. SizesInv'
    <3>1. Total(queue', bytes', queueBytes')
      BY <1>3, <1>5, <1>6, <2>1, TotalAppend
    <3>2. Len(queue') + Len(batch') <= MaxRecords
      BY <1>1, <1>3, <2>2, <2>3
    <3>3. queueBytes' + inFlightBytes' <= MaxBytes
      BY <1>1, <1>3, <2>1, <2>2
    <3> QED
      BY <1>1, <1>6, <3>1, <3>2, <3>3 DEF SizesInv
  <2>10. FlushInv'
    <3>1. remaining \in Nat
      BY <1>2 DEF SinkTypeOK
    <3>2. ASSUME flushing
          PROVE  remaining <= Len(queue') /\ {queue'[i] : i \in 1..remaining} = {queue[i] : i \in 1..remaining}
      <4>1. remaining <= Len(queue)
        BY <1>2, <3>2 DEF FlushInv
      <4>2. \A i \in 1..remaining : i \in 1..Len(queue)
        BY <1>3, <3>1, <4>1
      <4>3. \A i \in 1..remaining : queue'[i] = queue[i]
        BY <2>3, <4>2
      <4>4. remaining <= Len(queue')
        BY <1>3, <2>3, <3>1, <4>1
      <4> QED
        BY <4>3, <4>4
    <3> QED
      BY <1>1, <1>2, <2>1, <3>2 DEF FlushInv
  <2>11. LifeInv' /\ WaitingHasTimer'
    BY <1>1, <1>2, <2>1 DEF LifeInv, WaitingHasTimer
  <2> QED
    BY <2>6, <2>7, <2>8, <2>9, <2>10, <2>11 DEF SinkInv
<1> QED
  BY <1>7, <1>8

(* The sink stays as it is.                                                  *)
LEMMA SinkRests == SinkInv /\ UNCHANGED sinkVars => SinkInv'
  BY DEF sinkVars, records, waiting, sending, life, outcome, SinkInv, SinkTypeOK, PlacesInv, OrderInv, SizesInv,
     FlushInv, LifeInv, WaitingHasTimer, Held, Sorted

(* A POST is made again.                                                     *)
LEMMA RetryStep == ASSUME SinkInv, PostRetried PROVE SinkInv'
<1>1. /\ attempt < MaxAttempts /\ attempt' = attempt + 1
      /\ UNCHANGED <<batch, inFlightBytes, remaining, flushing, promised, timer, written, bytes, queue, queueBytes,
                     context, stopping, closing, delivered, dropped>>
  BY DEF PostRetried, records, waiting, life, outcome
<1>2. attempt' \in 0..MaxAttempts
  BY <1>1, ConstantsAssumption DEF SinkInv, SinkTypeOK
<1>3. SinkTypeOK'
  BY <1>1, <1>2 DEF SinkInv, SinkTypeOK
<1> QED
  BY <1>1, <1>3 DEF SinkInv, PlacesInv, OrderInv, SizesInv, FlushInv, LifeInv, WaitingHasTimer, Held, Sorted

(* The timer goes off.                                                       *)
LEMMA TimerStep ==
    ASSUME SinkInv, TimerFires
    PROVE  /\ SinkInv'
           /\ \/ UNCHANGED <<flushing, promised>>
              \/ ~flushing /\ flushing' /\ promised' = Held
           /\ UNCHANGED <<delivered, dropped, written>>
<1>1. CASE BeginFlush /\ UNCHANGED life
  <2>1. SinkInv' /\ flushing' /\ promised' = Held
    BY <1>1, BeginStep DEF life
  <2> QED
    BY <1>1, <2>1 DEF BeginFlush, CanFlush, records, outcome
<1>2. CASE ~CanFlush /\ timer' = FALSE /\ UNCHANGED <<records, waiting, sending, life, outcome>>
  <2>1. UNCHANGED <<written, bytes, queue, queueBytes, batch, inFlightBytes, remaining, attempt, flushing, promised,
                    context, stopping, closing, delivered, dropped>>
    BY <1>2 DEF records, waiting, sending, life, outcome
  <2>2. SinkTypeOK'
    BY <1>2, <2>1 DEF SinkInv, SinkTypeOK
  <2>3. WaitingHasTimer'
    BY <1>2, <2>1 DEF SinkInv, WaitingHasTimer, CanFlush, LifeInv
  <2>4. SinkInv'
    BY <2>1, <2>2, <2>3 DEF SinkInv, PlacesInv, OrderInv, SizesInv, FlushInv, LifeInv, Held, Sorted
  <2> QED
    BY <2>1, <2>4
<1> QED
  BY <1>1, <1>2 DEF TimerFires

(* shutdown() flushes, joins a flush, or has nothing to wait for.            *)
LEMMA ShutdownStep ==
    ASSUME SinkInv, Shutdown
    PROVE  /\ SinkInv'
           /\ \/ UNCHANGED <<flushing, promised>>
              \/ ~flushing /\ flushing' /\ promised' = Held
           /\ delivered' = delivered /\ dropped \subseteq dropped' /\ written' = written
<1>1. closing = "no" /\ stopping' = TRUE
  BY DEF Shutdown
<1>2. CASE /\ flushing /\ closing' = "waiting" /\ UNCHANGED <<timer, context>> /\ UNCHANGED records
           /\ UNCHANGED waiting /\ UNCHANGED sending /\ UNCHANGED outcome
  <2>1. UNCHANGED <<written, bytes, queue, queueBytes, batch, inFlightBytes, remaining, attempt, flushing, promised,
                    delivered, dropped, timer, context>>
    BY <1>2 DEF records, waiting, sending, outcome
  <2>2. SinkTypeOK'
    BY <1>1, <1>2, <2>1 DEF SinkInv, SinkTypeOK
  <2>3. WaitingHasTimer' /\ LifeInv'
    BY <1>1, <1>2, <2>1 DEF SinkInv, WaitingHasTimer, LifeInv
  <2>4. SinkInv'
    BY <2>1, <2>2, <2>3 DEF SinkInv, PlacesInv, OrderInv, SizesInv, FlushInv, Held, Sorted
  <2> QED
    BY <2>1, <2>4
<1>3. CASE BeginFlush /\ closing' = "waiting" /\ UNCHANGED context
  <2>1. SinkInv' /\ flushing' /\ promised' = Held
    BY <1>1, <1>3, BeginStep
  <2> QED
    BY <1>3, <2>1 DEF BeginFlush, CanFlush, records, outcome
<1>4. CASE /\ ~flushing /\ queue = <<>> /\ Cleared(queue)
           /\ UNCHANGED delivered /\ UNCHANGED records /\ UNCHANGED sending
  <2>1. /\ queue' = <<>> /\ queueBytes' = 0 /\ dropped' = dropped /\ context' = FALSE /\ timer' = FALSE
        /\ closing' = "done"
        /\ UNCHANGED <<written, bytes, batch, inFlightBytes, remaining, attempt, flushing, promised, delivered>>
    BY <1>4, ToSetEmpty DEF Cleared, records, sending
  <2>2. SinkTypeOK'
    <3>1. queueBytes' \in Nat /\ closing' \in {"no", "waiting", "done"} /\ stopping' \in BOOLEAN
          /\ context' \in BOOLEAN /\ timer' \in BOOLEAN
      BY <1>1, <2>1
    <3>2. queue' \in Seq(Record)
      BY <2>1, ToSetEmpty, Zenon
    <3> QED
      BY <2>1, <3>1, <3>2 DEF SinkInv, SinkTypeOK
  <2>3. queue' = queue /\ queueBytes = 0 /\ Total(queue', bytes, 0)
    BY <1>4, <2>1, TotalOfNone, TotalEmpty DEF SinkInv, SizesInv
  <2>4. WaitingHasTimer' /\ LifeInv'
    BY <1>1, <1>4, <2>1 DEF SinkInv, WaitingHasTimer, LifeInv
  <2>5. SinkInv'
    BY <2>1, <2>2, <2>3, <2>4 DEF SinkInv, PlacesInv, OrderInv, SizesInv, FlushInv, Held, Sorted
  <2> QED
    BY <2>1, <2>5
<1> QED
  BY <1>2, <1>3, <1>4 DEF Shutdown

(* What has arrived stays so, and a flush that succeeds has sent all it      *)
(* promised.                                                                 *)
LEMMA SettledGrow ==
    ASSUME SinkInv, BatchSucceeds \/ PostRetried \/ FlushSucceeds \/ FlushFails
    PROVE  /\ flushing /\ delivered \subseteq delivered' /\ dropped \subseteq dropped' /\ written' = written
           /\ BatchSucceeds \/ PostRetried => UNCHANGED <<flushing, promised>>
           /\ FlushSucceeds \/ FlushFails => ~flushing'
           /\ FlushSucceeds => promised \subseteq delivered'
<1>1. ASSUME BatchSucceeds \/ PostRetried
      PROVE  /\ flushing /\ delivered \subseteq delivered' /\ UNCHANGED <<dropped, written, flushing, promised>>
  BY <1>1 DEF BatchSucceeds, PostRetried, records, outcome
<1>2. ASSUME FlushSucceeds \/ FlushFails
      PROVE  /\ flushing /\ delivered \subseteq delivered' /\ dropped \subseteq dropped' /\ written' = written
             /\ ~flushing'
  BY <1>2 DEF FlushSucceeds, FlushFails, FlushOver, Cleared, records
<1>3. ASSUME FlushSucceeds PROVE promised \subseteq delivered'
  <2>1. flushing /\ remaining = 0 /\ delivered' = delivered \cup ToSet(batch)
    BY <1>3 DEF FlushSucceeds
  <2>2. promised \ delivered = ToSet(batch) \cup {queue[i] : i \in 1..0}
    BY <2>1 DEF SinkInv, FlushInv
  <2> QED
    BY <2>1, <2>2
<1>4. ASSUME BatchSucceeds \/ PostRetried, FlushSucceeds \/ FlushFails PROVE FALSE
  BY <1>1, <1>2, <1>4
<1> QED
  BY <1>1, <1>2, <1>3, <1>4

(* A step of the process that settles posts keeps the sink in order.         *)
LEMMA SettleStep ==
    ASSUME SinkInv, BatchSucceeds \/ PostRetried \/ FlushSucceeds \/ FlushFails PROVE SinkInv'
  BY NextStep, RetryStep, SuccessStep, FailureStep

-----------------------------------------------------------------------------
(* The records of the sink, in the words of the exit. *)
LEMMA WaitingIsHeld == SinkInv => Waiting = Held /\ owed \cup Held \subseteq 1..written \cup owed
  BY JoinFacts DEF SinkInv, SinkTypeOK, Waiting, Held, PlacesInv

(* Exits of the process, or what it reports, do not change with the sink     *)
(* alone, as long as a flush that ends was not one an exit waits for.        *)
LEMMA SinkAlone ==
    ASSUME ProcessInv, SinkInv', delivered \subseteq delivered', dropped \subseteq dropped', written <= written',
           \/ UNCHANGED <<flushing, promised>>
           \/ ~flushing /\ flushing' /\ promised' = Held /\ UNCHANGED written,
           UNCHANGED <<exited, inFlight, exitWith, reported, owed>>
    PROVE  ExitInv'
<1>1. owed \subseteq 1..written'
  BY DEF ProcessInv, ExitInv, SinkInv, SinkTypeOK
<1>2. ASSUME exitWith' = None, flushing' PROVE owed' \subseteq delivered' \cup dropped' \cup promised'
  <2>1. CASE UNCHANGED <<flushing, promised>>
    BY <1>2, <2>1 DEF ProcessInv, ExitInv
  <2>2. CASE ~flushing /\ flushing' /\ promised' = Held /\ UNCHANGED written
    <3>1. owed \subseteq Held \cup delivered \cup dropped
      BY <2>2 DEF ProcessInv, ExitInv, SinkInv, PlacesInv
    <3> QED
      BY <2>2, <3>1
  <2> QED
    BY <2>1, <2>2
<1>3. inFlight' => flushing'
  BY DEF ProcessInv, ExitInv
<1> QED
  BY <1>1, <1>2, <1>3 DEF ProcessInv, ExitInv

(* What doFlush() tells, and the exit it is followed by.                     *)
LEMMA SettleFacts ==
    ASSUME NEW result, NEW reason \in Signal \cup {"crash", None}, exited = "no", Settle(result, reason)
    PROVE  /\ ~inFlight' /\ inFlight' \in BOOLEAN /\ reported' = result /\ exitWith' = reason
           /\ reason = None => exited' = "no"
           /\ reason # None => exited' = reason /\ exited' # "no"
           /\ exited' # "drained"
           /\ exited' \in {"no", "drained", "app", "killed", "second", "crash"} \cup Signal
  BY ExitConstants DEF Settle

(* flush() of lifecycle.ts: joins a doFlush(), begins one, or is over.       *)
LEMMA AutoFlushStep ==
    ASSUME ProcessInv, exited = "no", NEW reason \in Signal \cup {"crash", None}, AutoFlush(reason),
           \/ owed' = owed
           \/ owed' = owed \cup Waiting /\ (reason # None \/ (~flushing /\ ~inFlight))
    PROVE  /\ SinkInv' /\ ExitInv' /\ owed' \subseteq Record
           /\ exited' \in {"no", "drained", "app", "killed", "second", "crash"} \cup Signal
           /\ inFlight' \in BOOLEAN /\ exitWith' \in Signal \cup {"crash", None}
           /\ reported' \in {"none", "ok", "failed"}
<1>1. SinkInv /\ ExitInv /\ ExitTypeOK
  BY DEF ProcessInv
<1>2. owed' \subseteq 1..written /\ 1..written \subseteq Record /\ 1..written = Held \cup delivered \cup dropped
  <2>1. owed \subseteq 1..written /\ Waiting \subseteq 1..written
    BY <1>1, WaitingIsHeld DEF ExitInv
  <2>2. 1..written \subseteq Record
    BY <1>1, ConstantsAssumption DEF SinkInv, SinkTypeOK, Record
  <2> QED
    BY <1>1, <2>1, <2>2 DEF SinkInv, PlacesInv
<1>3. CASE /\ inFlight /\ exitWith' = FirstOf(reason)
           /\ UNCHANGED <<inFlight, reported, exited>> /\ UNCHANGED sinkVars
  <2>1. SinkInv' /\ UNCHANGED <<delivered, dropped, written, flushing, promised>>
    BY <1>1, <1>3, SinkRests DEF sinkVars, records, sending, outcome
  <2>2. ASSUME exitWith' = None PROVE exitWith = None /\ owed' = owed
    BY <1>3, <2>2, ExitConstants DEF FirstOf
  <2>3. ExitInv'
    BY <1>1, <1>2, <1>3, <2>1, <2>2 DEF ExitInv
  <2>4. exitWith' \in Signal \cup {"crash", None}
    BY <1>1, <1>3 DEF FirstOf, ExitTypeOK
  <2> QED
    BY <1>1, <1>2, <1>3, <2>1, <2>3, <2>4 DEF ExitTypeOK
<1>4. CASE /\ ~inFlight /\ (flushing \/ CanFlush) /\ Flush
           /\ inFlight' = TRUE /\ exitWith' = reason /\ UNCHANGED <<reported, exited>>
  <2>1. /\ SinkInv' /\ UNCHANGED <<delivered, dropped, written>> /\ flushing'
        /\ \/ flushing /\ promised' = promised
           \/ promised' = Held
    <3>1. CASE BeginFlush /\ UNCHANGED life
      <4>1. SinkInv' /\ flushing' /\ promised' = Held
        BY <1>1, <3>1, BeginStep DEF life
      <4> QED
        BY <3>1, <4>1 DEF BeginFlush, records, outcome
    <3>2. CASE ~CanFlush /\ UNCHANGED sinkVars
      <4>1. SinkInv'
        BY <1>1, <3>2, SinkRests
      <4> QED
        BY <1>4, <3>2, <4>1 DEF sinkVars, records, sending, outcome
    <3> QED
      BY <1>4, <3>1, <3>2 DEF Flush
  <2>2. exitWith = None
    BY <1>1, <1>4 DEF ExitInv
  <2>3. ASSUME reason = None PROVE owed' \subseteq delivered' \cup dropped' \cup promised'
    <3>1. CASE promised' = Held
      BY <1>2, <2>1, <3>1
    <3>2. CASE flushing /\ promised' = promised
      <4>1. owed' = owed
        BY <2>3, <3>2
      <4> QED
        BY <1>1, <2>1, <2>2, <3>2, <4>1 DEF ExitInv
    <3> QED
      BY <2>1, <3>1, <3>2
  <2>4. ExitInv'
    BY <1>1, <1>2, <1>4, <2>1, <2>3 DEF ExitInv
  <2> QED
    BY <1>1, <1>2, <1>4, <2>1, <2>4 DEF ExitTypeOK
<1>5. CASE ~inFlight /\ ~flushing /\ ~CanFlush /\ Settle("ok", reason) /\ UNCHANGED sinkVars
  <2>1. SinkInv' /\ UNCHANGED <<delivered, dropped, written, flushing, promised>>
    BY <1>1, <1>5, SinkRests DEF sinkVars, records, sending, outcome
  <2>2. queue = <<>> /\ batch = <<>>
    BY <1>1, <1>5 DEF CanFlush, SinkInv, FlushInv, LifeInv
  <2>3. Held = {}
    BY <2>2, ToSetEmpty DEF Held
  <2>4. owed' \subseteq delivered' \cup dropped'
    BY <1>2, <2>1, <2>3
  <2>5. /\ ~inFlight' /\ inFlight' \in BOOLEAN /\ reported' = "ok" /\ exitWith' = reason
        /\ reason # None => exited' # "no"
        /\ exited' # "drained"
        /\ exited' \in {"no", "drained", "app", "killed", "second", "crash"} \cup Signal
    BY <1>5, SettleFacts
  <2>6. ExitInv'
    BY <1>2, <1>5, <2>1, <2>4, <2>5 DEF ExitInv
  <2> QED
    BY <1>2, <2>1, <2>5, <2>6
<1> QED
  BY <1>3, <1>4, <1>5 DEF AutoFlush

(* The sink's flush ends, and with it the doFlush() that waits for it.       *)
LEMMA FlushedStep ==
    ASSUME ProcessInv, exited = "no", NEW result \in {"ok", "failed"}, SinkFlushed(result),
           FlushSucceeds \/ FlushFails, result = "ok" => FlushSucceeds
    PROVE  ProcessInv'
<1>1. SinkInv /\ ExitInv /\ ExitTypeOK
  BY DEF ProcessInv
<1>2. /\ SinkInv' /\ flushing /\ delivered \subseteq delivered' /\ dropped \subseteq dropped' /\ written' = written
      /\ ~flushing' /\ (FlushSucceeds => promised \subseteq delivered')
  BY <1>1, SettleStep, SettledGrow
<1>3. UNCHANGED <<appHandles, idle, signals, crash, beforeExitFlushes, disposed, owed>>
  BY DEF SinkFlushed
<1>4. CASE inFlight /\ Settle(result, exitWith)
  <2>1. /\ ~inFlight' /\ inFlight' \in BOOLEAN /\ reported' = result /\ exitWith' = exitWith
        /\ exitWith # None => exited' # "no"
        /\ exited' # "drained"
        /\ exited' \in {"no", "drained", "app", "killed", "second", "crash"} \cup Signal
    <3>1. exitWith \in Signal \cup {"crash", None}
      BY <1>1 DEF ExitTypeOK
    <3> QED
      BY <1>4, <3>1, SettleFacts
  <2>2. ASSUME exitWith = None, result = "ok" PROVE owed' \subseteq delivered' \cup dropped'
    BY <1>1, <1>2, <1>3, <2>2 DEF ExitInv
  <2>3. owed' \subseteq 1..written'
    BY <1>1, <1>2, <1>3 DEF ExitInv
  <2>4. ExitInv'
    BY <1>2, <2>1, <2>2, <2>3 DEF ExitInv
  <2>5. ExitTypeOK'
    BY <1>1, <1>3, <2>1 DEF ExitTypeOK
  <2> QED
    BY <1>2, <2>4, <2>5 DEF ProcessInv
<1>5. CASE ~inFlight /\ UNCHANGED <<inFlight, reported, exited, exitWith>>
  <2>1. ExitInv'
    BY <1>1, <1>2, <1>3, <1>5 DEF ExitInv
  <2>2. ExitTypeOK'
    BY <1>1, <1>3, <1>5 DEF ExitTypeOK
  <2> QED
    BY <1>2, <2>1, <2>2 DEF ProcessInv
<1> QED
  BY <1>4, <1>5 DEF SinkFlushed

-----------------------------------------------------------------------------
(* A process starts with nothing written.                                    *)
LEMMA ProcessStarts == Init => ProcessInv
<1> SUFFICES ASSUME Init PROVE ProcessInv
  OBVIOUS
<1>1. Held = {} /\ 1..0 = {}
  BY ToSetEmpty DEF Init, SinkInit, Held
<1>2. SinkTypeOK
  <2>1. queue \in Seq(Record) /\ batch \in Seq(Record)
    BY ToSetEmpty, Zenon DEF Init, SinkInit
  <2>2. bytes \in [Record -> Nat] /\ written \in 0..MaxWritten /\ attempt \in 0..MaxAttempts
    BY ConstantsAssumption DEF Init, SinkInit
  <2>3. {flushing, timer, context, stopping} \subseteq BOOLEAN /\ closing \in {"no", "waiting", "done"}
    BY DEF Init, SinkInit
  <2>4. queueBytes \in Nat /\ inFlightBytes \in Nat /\ remaining \in Nat
    BY DEF Init, SinkInit
  <2>5. delivered \subseteq Record /\ dropped \subseteq Record /\ promised \subseteq Record
    BY DEF Init, SinkInit
  <2> QED
    BY <2>1, <2>2, <2>3, <2>4, <2>5 DEF SinkTypeOK
<1>3. PlacesInv /\ OrderInv
  BY <1>1, ToSetEmpty DEF Init, SinkInit, PlacesInv, OrderInv
<1>4. SizesInv
  <2>1. Total(<<>>, bytes, 0)
    BY TotalEmpty
  <2> QED
    BY <2>1, ToSetEmpty, ConstantsAssumption DEF Init, SinkInit, SizesInv
<1>5. FlushInv /\ LifeInv /\ WaitingHasTimer
  BY DEF Init, SinkInit, FlushInv, LifeInv, WaitingHasTimer
<1>6. ExitTypeOK
  <2>1. signals \in [Signal -> 0..2]
    BY DEF Init
  <2>2. {appHandles, idle, inFlight, disposed} \subseteq BOOLEAN
    BY DEF Init
  <2> QED
    BY <2>1, <2>2 DEF Init, ExitTypeOK
<1>7. ExitInv
  BY <1>1 DEF Init, SinkInit, ExitInv
<1> QED
  BY <1>2, <1>3, <1>4, <1>5, <1>6, <1>7 DEF ProcessInv, SinkInv

(* Steps that leave the sink as it is and settle nothing.                    *)
LEMMA QuietStep ==
    ASSUME ProcessInv, UNCHANGED sinkVars, ExitTypeOK', UNCHANGED <<inFlight, exitWith, reported, owed>>,
           exited' = "no" => exited = "no", exited' = "drained" => exited = "drained" \/ (exited = "no" /\ ~inFlight)
    PROVE  ProcessInv'
<1>1. SinkInv' /\ UNCHANGED <<delivered, dropped, written, flushing, promised>>
  BY SinkRests DEF ProcessInv, sinkVars, records, sending, outcome
<1>2. ExitInv'
  BY <1>1 DEF ProcessInv, ExitInv
<1> QED
  BY <1>1, <1>2 DEF ProcessInv

(* An application, or a crash, writes a record. *)
LEMMA WritesStep ==
    ASSUME ProcessInv, NEW size \in Size, Write(size), ExitTypeOK',
           UNCHANGED <<exited, inFlight, exitWith, reported, owed>>
    PROVE  ProcessInv'
<1>1. SinkInv'
  BY WriteStep DEF ProcessInv
<1>2. /\ delivered \subseteq delivered' /\ dropped \subseteq dropped' /\ written' = written + 1
      /\ UNCHANGED <<flushing, promised>> /\ written \in Nat
  BY DEF Write, sending, ProcessInv, SinkInv, SinkTypeOK
<1>3. ExitInv'
  BY <1>1, <1>2, SinkAlone
<1> QED
  BY <1>1, <1>3 DEF ProcessInv

(* Every step of the process keeps the invariant.                            *)
LEMMA ProcessStep == ProcessInv /\ [Next]_vars => ProcessInv'
<1> SUFFICES ASSUME ProcessInv, [Next]_vars PROVE ProcessInv'
  OBVIOUS
<1>0. SinkInv /\ ExitInv /\ ExitTypeOK
  BY DEF ProcessInv
<1>1. ASSUME UNCHANGED vars PROVE ProcessInv'
  <2>1. UNCHANGED sinkVars /\ UNCHANGED <<exited, appHandles, idle, signals, crash, inFlight, exitWith,
                                          reported, beforeExitFlushes, disposed, owed>>
    BY <1>1 DEF vars, exitVars
  <2>2. ExitTypeOK'
    BY <1>0, <2>1 DEF ExitTypeOK
  <2> QED
    BY <2>1, <2>2, QuietStep
<1>2. ASSUME NEW n \in Size, AppWrites(n) PROVE ProcessInv'
  <2>1. Write(n) /\ UNCHANGED <<exited, appHandles, idle, signals, crash, inFlight, exitWith,
                                reported, beforeExitFlushes, disposed, owed>>
    BY <1>2 DEF AppWrites, exitVars
  <2>2. ExitTypeOK'
    BY <1>0, <2>1 DEF ExitTypeOK
  <2> QED
    BY <2>1, <2>2, WritesStep
<1>3. ASSUME NEW n \in Size, CrashCaptured(n) PROVE ProcessInv'
  <2>1. Write(n) /\ crash' = "thrown" /\ UNCHANGED <<exited, appHandles, idle, signals, inFlight, exitWith,
                                reported, beforeExitFlushes, disposed, owed>>
    BY <1>3 DEF CrashCaptured
  <2>2. ExitTypeOK'
    BY <1>0, <2>1 DEF ExitTypeOK
  <2> QED
    BY <2>1, <2>2, WritesStep
<1>4. ASSUME AppIdles PROVE ProcessInv'
  <2>1. UNCHANGED sinkVars /\ idle' = TRUE /\ UNCHANGED <<exited, appHandles, signals, crash, inFlight, exitWith,
                                reported, beforeExitFlushes, disposed, owed>>
    BY <1>4 DEF AppIdles
  <2>2. ExitTypeOK'
    BY <1>0, <2>1 DEF ExitTypeOK
  <2> QED
    BY <2>1, <2>2, QuietStep
<1>5. ASSUME AppExits PROVE ProcessInv'
  <2>1. UNCHANGED sinkVars /\ exited' = "app" /\ UNCHANGED <<appHandles, idle, signals, crash, inFlight, exitWith,
                                reported, beforeExitFlushes, disposed, owed>>
    BY <1>5 DEF AppExits
  <2>2. ExitTypeOK'
    BY <1>0, <2>1 DEF ExitTypeOK
  <2> QED
    BY <2>1, <2>2, QuietStep
<1>6. ASSUME AppShutsDown PROVE ProcessInv'
  <2>1. Shutdown /\ disposed' = TRUE /\ UNCHANGED <<exited, appHandles, idle, signals, crash, inFlight, exitWith,
                                reported, beforeExitFlushes, owed>>
    BY <1>6 DEF AppShutsDown
  <2>2. ExitTypeOK'
    BY <1>0, <2>1 DEF ExitTypeOK
  <2>3. /\ SinkInv'
        /\ \/ UNCHANGED <<flushing, promised>>
           \/ ~flushing /\ flushing' /\ promised' = Held
        /\ delivered' = delivered /\ dropped \subseteq dropped' /\ written' = written
    BY <1>0, <2>1, ShutdownStep
  <2>4. written <= written'
    BY <1>0, <2>3 DEF SinkInv, SinkTypeOK
  <2>5. ExitInv'
    BY <2>1, <2>3, <2>4, SinkAlone
  <2> QED
    BY <2>2, <2>3, <2>5 DEF ProcessInv
<1>7. ASSUME LoopDrains PROVE ProcessInv'
  <2>1. exited = "no" /\ ~flushing /\ ~inFlight /\ UNCHANGED <<appHandles, idle, signals, crash, disposed>>
    BY <1>7 DEF LoopDrains, Running, LoopAlive
  <2>2. CASE FirstDrain /\ beforeExitFlushes' = beforeExitFlushes + 1 /\ owed' = owed \cup Waiting /\ AutoFlush(None)
    <3>1. /\ SinkInv' /\ ExitInv' /\ owed' \subseteq Record
          /\ exited' \in {"no", "drained", "app", "killed", "second", "crash"} \cup Signal
          /\ inFlight' \in BOOLEAN /\ exitWith' \in Signal \cup {"crash", None}
          /\ reported' \in {"none", "ok", "failed"}
      BY <2>1, <2>2, AutoFlushStep
    <3>2. beforeExitFlushes' \in 0..1
      BY <2>2 DEF FirstDrain
    <3>3. ExitTypeOK'
      BY <1>0, <2>1, <3>1, <3>2 DEF ExitTypeOK
    <3> QED
      BY <3>1, <3>3 DEF ProcessInv
  <2>3. CASE /\ exited' = "drained" /\ UNCHANGED <<beforeExitFlushes, owed, inFlight, exitWith, reported>>
             /\ UNCHANGED sinkVars
    <3>1. ExitTypeOK'
      BY <1>0, <2>1, <2>3 DEF ExitTypeOK
    <3> QED
      BY <2>1, <2>3, <3>1, QuietStep
  <2> QED
    BY <1>7, <2>2, <2>3 DEF LoopDrains
<1>8. ASSUME CrashHandled PROVE ProcessInv'
  <2>1. /\ exited = "no" /\ crash' = "handled" /\ owed' = owed \cup Waiting /\ AutoFlush("crash")
        /\ UNCHANGED <<appHandles, idle, signals, beforeExitFlushes, disposed>>
    BY <1>8 DEF CrashHandled
  <2>2. /\ SinkInv' /\ ExitInv' /\ owed' \subseteq Record
        /\ exited' \in {"no", "drained", "app", "killed", "second", "crash"} \cup Signal
        /\ inFlight' \in BOOLEAN /\ exitWith' \in Signal \cup {"crash", None}
        /\ reported' \in {"none", "ok", "failed"}
    <3>1. "crash" # None
      BY ExitConstants
    <3> QED
      BY <2>1, <3>1, AutoFlushStep
  <2>3. ExitTypeOK'
    BY <1>0, <2>1, <2>2 DEF ExitTypeOK
  <2> QED
    BY <2>2, <2>3 DEF ProcessInv
<1>9. ASSUME FlushTimesOut PROVE ProcessInv'
  <2>1. exited = "no" /\ inFlight /\ Settle("failed", exitWith) /\ UNCHANGED sinkVars
        /\ UNCHANGED <<appHandles, idle, signals, crash, beforeExitFlushes, disposed, owed>>
    BY <1>9 DEF FlushTimesOut, Event, Running
  <2>2. /\ ~inFlight' /\ inFlight' \in BOOLEAN /\ reported' = "failed" /\ exitWith' = exitWith
        /\ exitWith # None => exited' # "no"
        /\ exited' # "drained"
        /\ exited' \in {"no", "drained", "app", "killed", "second", "crash"} \cup Signal
    <3>1. exitWith \in Signal \cup {"crash", None}
      BY <1>0 DEF ExitTypeOK
    <3> QED
      BY <2>1, <3>1, SettleFacts
  <2>3. SinkInv' /\ UNCHANGED <<delivered, dropped, written, flushing, promised>>
    BY <1>0, <2>1, SinkRests DEF sinkVars, records, sending, outcome
  <2>4. ExitInv'
    BY <1>0, <2>1, <2>2, <2>3 DEF ExitInv
  <2>5. ExitTypeOK'
    BY <1>0, <2>1, <2>2 DEF ExitTypeOK
  <2> QED
    BY <2>3, <2>4, <2>5 DEF ProcessInv
<1>10. ASSUME NEW s \in Signal, SignalArrives(s) PROVE ProcessInv'
  <2>1. /\ exited = "no" /\ signals[s] < 2 /\ signals' = [signals EXCEPT ![s] = @ + 1]
        /\ UNCHANGED <<appHandles, idle, crash, beforeExitFlushes, disposed>>
    BY <1>10 DEF SignalArrives, Event, Running
  <2>2. signals' \in [Signal -> 0..2]
    <3>1. signals[s] + 1 \in 0..2
      BY <1>0, <2>1 DEF ExitTypeOK
    <3> QED
      BY <1>0, <2>1, <3>1 DEF ExitTypeOK
  <2>3. ASSUME exited' \in {exited, "killed", "second"},
               UNCHANGED <<owed, inFlight, exitWith, reported>>, UNCHANGED sinkVars
        PROVE  ProcessInv'
    <3>1. ExitTypeOK'
      BY <1>0, <2>1, <2>2, <2>3 DEF ExitTypeOK
    <3> QED
      BY <2>1, <2>3, <3>1, QuietStep
  <2>4. ASSUME \/ AutoFlush(None) /\ owed' = owed
               \/ AutoFlush(s) /\ owed' = owed \cup Waiting
        PROVE  ProcessInv'
    <3>1. s # None
      BY ExitConstants
    <3>2. /\ SinkInv' /\ ExitInv' /\ owed' \subseteq Record
          /\ exited' \in {"no", "drained", "app", "killed", "second", "crash"} \cup Signal
          /\ inFlight' \in BOOLEAN /\ exitWith' \in Signal \cup {"crash", None}
          /\ reported' \in {"none", "ok", "failed"}
      BY <2>1, <2>4, <3>1, AutoFlushStep
    <3>3. ExitTypeOK'
      BY <1>0, <2>1, <2>2, <3>2 DEF ExitTypeOK
    <3> QED
      BY <3>2, <3>3 DEF ProcessInv
  <2> QED
    BY <1>10, <2>3, <2>4 DEF SignalArrives
<1>11. ASSUME SinkTimerFires PROVE ProcessInv'
  <2>1. TimerFires /\ UNCHANGED <<exited, appHandles, idle, signals, crash, inFlight, exitWith,
                                  reported, beforeExitFlushes, disposed, owed>>
    BY <1>11 DEF SinkTimerFires, exitVars
  <2>2. ExitTypeOK'
    BY <1>0, <2>1 DEF ExitTypeOK
  <2>3. /\ SinkInv'
        /\ \/ UNCHANGED <<flushing, promised>>
           \/ ~flushing /\ flushing' /\ promised' = Held
        /\ UNCHANGED <<delivered, dropped, written>>
    BY <1>0, <2>1, TimerStep
  <2>4. written <= written'
    BY <1>0, <2>3 DEF SinkInv, SinkTypeOK
  <2>5. ExitInv'
    BY <2>1, <2>3, <2>4, SinkAlone
  <2> QED
    BY <2>2, <2>3, <2>5 DEF ProcessInv
<1>12. ASSUME SinkPostSettles PROVE ProcessInv'
  <2>1. exited = "no"
    BY <1>12 DEF SinkPostSettles, Event, Running
  <2>2. CASE (BatchSucceeds \/ PostRetried) /\ UNCHANGED exitVars
    <3>1. UNCHANGED <<exited, appHandles, idle, signals, crash, inFlight, exitWith,
                      reported, beforeExitFlushes, disposed, owed>>
      BY <2>2 DEF exitVars
    <3>2. /\ SinkInv' /\ delivered \subseteq delivered' /\ dropped \subseteq dropped' /\ written' = written
          /\ UNCHANGED <<flushing, promised>>
      BY <1>0, <2>2, SettleStep, SettledGrow
    <3>3. written <= written'
      BY <1>0, <3>2 DEF SinkInv, SinkTypeOK
    <3>4. ExitInv'
      BY <3>1, <3>2, <3>3, SinkAlone
    <3>5. ExitTypeOK'
      BY <1>0, <3>1 DEF ExitTypeOK
    <3> QED
      BY <3>2, <3>4, <3>5 DEF ProcessInv
  <2>3. CASE FlushSucceeds /\ SinkFlushed("ok")
    BY <2>1, <2>3, FlushedStep
  <2>4. CASE FlushFails /\ SinkFlushed("failed")
    BY <2>1, <2>4, FlushedStep
  <2> QED
    BY <1>12, <2>2, <2>3, <2>4 DEF SinkPostSettles
<1> QED
  BY <1>1, <1>2, <1>3, <1>4, <1>5, <1>6, <1>7, <1>8, <1>9, <1>10, <1>11, <1>12 DEF Next

(* The log sink and the exit of its process (sinks.ts, lifecycle.ts) keep    *)
(* the invariant: types, places, order and bytes of the records, what a       *)
(* flush has still to send, and what an exit waits for.                       *)
THEOREM ProcessInvariant == Spec => []ProcessInv
<1> QED
  BY ProcessStarts, ProcessStep, PTL DEF Spec

(* The invariant says what the runs check of the records and of the exit.    *)
LEMMA InvKeepsRecords == ProcessInv => RecordsKept
<1> SUFFICES ASSUME ProcessInv PROVE RecordsKept
  OBVIOUS
<1>1. /\ SinkInv /\ ExitInv /\ ExitTypeOK
      /\ SinkTypeOK /\ PlacesInv /\ OrderInv /\ SizesInv /\ FlushInv /\ LifeInv /\ WaitingHasTimer
  BY DEF ProcessInv, SinkInv
<1>2. /\ batch \in Seq(Record) /\ queue \in Seq(Record) /\ Len(queue) \in Nat /\ remaining \in Nat
      /\ written \in Nat
  BY <1>1 DEF SinkTypeOK
<1>3. /\ (batch \o queue) \in Seq(Record) /\ ToSet(batch \o queue) = Held /\ Sorted(batch \o queue)
      /\ \A j \in 0..Len(queue) : ToSet(batch \o SubSeq(queue, 1, j)) = ToSet(batch) \cup First(queue, j)
  BY <1>1, <1>2, JoinFacts DEF Held, OrderInv
<1>4. TypeOK
  BY <1>1 DEF TypeOK, ExitTypeOK
<1>5. RecordsAccounted
  <2>1. queueBytes = BytesOf(queue) /\ inFlightBytes = BytesOf(batch)
    <3>1. bytes \in [Record -> Nat]
      BY <1>1 DEF SinkTypeOK
    <3> QED
      BY <1>1, <1>2, <3>1, BytesOfIsTotal DEF SizesInv
  <2> QED
    BY <1>1, <1>3, <2>1 DEF RecordsAccounted, PlacesInv, SizesInv
<1>6. OrderKept
  <2> DEFINE held == batch \o queue
  <2>1. held \in Seq(Record) /\ ToSet(held) = Held /\ Sorted(held)
    BY <1>3
  <2> HIDE DEF held
  <2>2. \A i \in 1..Len(held) - 1 : held[i] < held[i + 1]
    <3> SUFFICES ASSUME NEW i \in 1..Len(held) - 1 PROVE held[i] < held[i + 1]
      OBVIOUS
    <3>1. i \in 1..Len(held) /\ i + 1 \in 1..Len(held) /\ i < i + 1
      BY <2>1
    <3> QED
      BY <2>1, <3>1 DEF Sorted
  <2>3. \A r \in delivered, i \in 1..Len(held) : r < held[i]
    <3>1. \A i \in 1..Len(held) : held[i] \in Held
      BY <2>1, AllAreFirst DEF First
    <3> QED
      BY <1>1, <3>1 DEF OrderInv
  <2> QED
    BY <2>2, <2>3 DEF OrderKept, held
<1>7. SnapshotExact
  <2> SUFFICES ASSUME flushing
               PROVE  /\ remaining <= Len(queue) /\ batch # <<>>
                      /\ promised \ delivered = ToSet(batch \o SubSeq(queue, 1, remaining))
    BY DEF SnapshotExact
  <2>1. /\ remaining <= Len(queue) /\ batch # <<>>
        /\ promised \ delivered = ToSet(batch) \cup First(queue, remaining)
    BY <1>1 DEF FlushInv, First
  <2> QED
    BY <1>2, <1>3, <2>1
<1>8. DrainLosesNothing
  BY <1>1 DEF DrainLosesNothing, ExitInv
<1>9. ShutdownAccounts
  <2> SUFFICES ASSUME closing = "done" PROVE 1..written \subseteq delivered \cup dropped
    BY DEF ShutdownAccounts
  <2>1. queue = <<>> /\ batch = <<>>
    BY <1>1 DEF LifeInv, FlushInv
  <2> QED
    BY <1>1, <2>1, ToSetEmpty DEF PlacesInv, Held
<1> QED
  BY <1>1, <1>4, <1>5, <1>6, <1>7, <1>8, <1>9 DEF RecordsKept

(* Records are kept as the runs check it, for any sizes, bounds and signals: *)
(* in one place and in order, whatever fails, overflows, drains or stops      *)
(* (sinks.ts, lifecycle.ts).                                                  *)
THEOREM RecordsStayKept == Spec => []RecordsKept
<1> QED
  BY ProcessInvariant, InvKeepsRecords, PTL
=============================================================================
