------------------------- MODULE SinkForwarderProofs -------------------------
(***************************************************************************)
(* Proofs about the sink forwarder: nothing it was handed is lost from       *)
(* sight, its counters and byte counts add up, evictions are fair, and it     *)
(* implements SinkDelivery, for any tenants, sizes and bounds.                *)
(***************************************************************************)
EXTENDS SinkForwarder, SumLemmas

Fates == Dropped \cup {"delivered"}
Sorted(q) == \A i, j \in 1..Len(q) : i < j => q[i] < q[j]
Waiting == ToSet(queue)

(* What the batches weigh in the counts: all of them, or those of some orgs. *)
BytesIn(bs) == [b \in Seqs |-> bs[b].bytes]
OrgIn(bs) == [b \in Seqs |-> bs[b].org]
Weights(bs, orgs) == OfGroups(BytesIn(bs), OrgIn(bs), orgs)

-----------------------------------------------------------------------------
(* The queue is a sorted set.                                               *)
LEMMA ToSetFacts ==
    ASSUME NEW D, NEW q \in Seq(D)
    PROVE  ToSet(q) = {q[i] : i \in 1..Len(q)} /\ ToSet(q) \subseteq D /\ (ToSet(q) = {} <=> q = <<>>)
<1>1. ToSet(q) = {q[i] : i \in 1..Len(q)} /\ \A i \in 1..Len(q) : q[i] \in D
  BY DEF ToSet
<1>2. q # <<>> => 1 \in 1..Len(q)
  BY EmptySeq
<1> QED
  BY <1>1, <1>2

(* A number greater than all goes to the end. *)
LEMMA AppendSorted ==
    ASSUME NEW q \in Seq(Nat), Sorted(q), NEW e \in Nat, \A i \in 1..Len(q) : q[i] < e
    PROVE  Sorted(Append(q, e)) /\ ToSet(Append(q, e)) = ToSet(q) \cup {e}
<1> DEFINE s == Append(q, e)
<1>1. s \in Seq(Nat) /\ Len(s) = Len(q) + 1 /\ s[Len(q) + 1] = e /\ \A i \in 1..Len(q) : s[i] = q[i]
  BY AppendProperties
<1> HIDE DEF s
<1>2. Sorted(s)
  <2>1. SUFFICES ASSUME NEW i \in 1..Len(q) + 1, NEW j \in 1..Len(q) + 1, i < j PROVE s[i] < s[j]
    BY <1>1 DEF Sorted
  <2>2. i \in 1..Len(q)
    BY <2>1
  <2>3. CASE j \in 1..Len(q)
    BY <1>1, <2>1, <2>2, <2>3 DEF Sorted
  <2>4. CASE j = Len(q) + 1
    BY <1>1, <2>2, <2>4
  <2> QED
    BY <2>3, <2>4
<1>3. ToSet(s) = ToSet(q) \cup {e}
  <2>1. 1..Len(q) + 1 = 1..Len(q) \cup {Len(q) + 1}
    OBVIOUS
  <2>2. ToSet(s) = {s[i] : i \in 1..Len(q) + 1} /\ ToSet(q) = {q[i] : i \in 1..Len(q)}
    BY <1>1, ToSetFacts
  <2>3. {s[i] : i \in 1..Len(q)} = {q[i] : i \in 1..Len(q)}
    BY <1>1
  <2>4. {s[i] : i \in 1..Len(q) + 1} = {s[i] : i \in 1..Len(q)} \cup {s[Len(q) + 1]}
    BY <1>1, <2>1
  <2> QED
    BY <1>1, <2>2, <2>3, <2>4, Zenon
<1> QED
  BY <1>2, <1>3 DEF s

(* What is left of a sorted sequence is sorted. *)
LEMMA RemoveSorted ==
    ASSUME NEW q \in Seq(Nat), Sorted(q), NEW k \in 1..Len(q)
    PROVE  Sorted(RemoveAt(q, k)) /\ ToSet(RemoveAt(q, k)) = ToSet(q) \ {q[k]}
<1> DEFINE s == RemoveAt(q, k)
<1>1. /\ s \in Seq(Nat) /\ Len(s) = Len(q) - 1
      /\ \A i \in 1..Len(q) - 1 : s[i] = IF i < k THEN q[i] ELSE q[i + 1]
  BY RemoveAtFacts
<1> HIDE DEF s
<1>2. Sorted(s)
  <2>1. SUFFICES ASSUME NEW i \in 1..Len(q) - 1, NEW j \in 1..Len(q) - 1, i < j PROVE s[i] < s[j]
    BY <1>1 DEF Sorted
  <2>2. i \in 1..Len(q) /\ j \in 1..Len(q) /\ i + 1 \in 1..Len(q) /\ j + 1 \in 1..Len(q)
    OBVIOUS
  <2>3. q[i] < q[j] /\ q[i] < q[j + 1] /\ q[i + 1] < q[j + 1]
    BY <2>1, <2>2 DEF Sorted
  <2>4. /\ s[i] = IF i < k THEN q[i] ELSE q[i + 1]
        /\ s[j] = IF j < k THEN q[j] ELSE q[j + 1]
    BY <1>1
  <2>5. CASE i < k
    BY <2>3, <2>4, <2>5
  <2>6. CASE ~(i < k) /\ ~(j < k)
    BY <2>3, <2>4, <2>6
  <2> QED
    BY <2>1, <2>5, <2>6
<1>3. ToSet(s) = {s[i] : i \in 1..Len(q) - 1} /\ ToSet(q) = {q[i] : i \in 1..Len(q)}
  BY SMTT(40), <1>1, ToSetFacts
<1>4. ASSUME NEW i \in 1..Len(q) - 1 PROVE s[i] \in ToSet(q) \ {q[k]}
  <2>1. i \in 1..Len(q) /\ i + 1 \in 1..Len(q)
    OBVIOUS
  <2>2. CASE i < k
    <3>1. s[i] = q[i] /\ q[i] < q[k] /\ q[i] \in Nat
      BY SMTT(40), <1>1, <2>1, <2>2 DEF Sorted
    <3> QED
      BY <1>3, <2>1, <3>1
  <2>3. CASE ~(i < k)
    <3>1. s[i] = q[i + 1] /\ q[k] < q[i + 1] /\ q[k] \in Nat
      BY SMTT(40), <1>1, <2>1, <2>3 DEF Sorted
    <3> QED
      BY <1>3, <2>1, <3>1
  <2> QED
    BY <2>2, <2>3
<1>5. ASSUME NEW i \in 1..Len(q), q[i] # q[k] PROVE q[i] \in ToSet(s)
  <2>1. CASE i < k
    <3>1. i \in 1..Len(q) - 1
      BY <2>1
    <3> QED
      BY <1>1, <1>3, <2>1, <3>1
  <2>2. CASE i > k
    <3>1. i - 1 \in 1..Len(q) - 1 /\ ~(i - 1 < k) /\ (i - 1) + 1 = i
      BY <2>2
    <3> QED
      BY <1>1, <1>3, <3>1
  <2> QED
    BY <1>5, <2>1, <2>2
<1> QED
  BY ZenonT(60), <1>2, <1>3, <1>4, <1>5 DEF s

(* A number goes between the smaller and the greater ones. *)
LEMMA InsertSorted ==
    ASSUME NEW q \in Seq(Nat), Sorted(q), NEW k \in 1..Len(q) + 1, NEW e \in Nat,
           \A i \in 1..Len(q) : IF i < k THEN q[i] < e ELSE e < q[i]
    PROVE  Sorted(InsertAt(q, k, e)) /\ ToSet(InsertAt(q, k, e)) = ToSet(q) \cup {e}
<1> DEFINE s == InsertAt(q, k, e)
<1>1. /\ s \in Seq(Nat) /\ Len(s) = Len(q) + 1
      /\ \A i \in 1..Len(q) + 1 : s[i] = IF i < k THEN q[i] ELSE IF i = k THEN e ELSE q[i - 1]
  BY InsertAtFacts
<1> HIDE DEF s
<1>2. Sorted(s)
  <2>1. SUFFICES ASSUME NEW i \in 1..Len(q) + 1, NEW j \in 1..Len(q) + 1, i < j PROVE s[i] < s[j]
    BY <1>1 DEF Sorted
  <2>2. s[i] = (IF i < k THEN q[i] ELSE IF i = k THEN e ELSE q[i - 1])
        /\ s[j] = (IF j < k THEN q[j] ELSE IF j = k THEN e ELSE q[j - 1])
    BY <1>1
  <2>3. CASE j < k
    <3>1. i \in 1..Len(q) /\ j \in 1..Len(q) /\ i < k
      BY <2>1, <2>3
    <3> QED
      BY <2>1, <2>2, <2>3, <3>1 DEF Sorted
  <2>4. CASE j = k
    <3>1. i \in 1..Len(q) /\ i < k
      BY <2>1, <2>4
    <3> QED
      BY <2>2, <2>4, <3>1
  <2>5. CASE j > k
    <3>1. j - 1 \in 1..Len(q) /\ ~(j - 1 < k) /\ ~(j < k) /\ j # k
      BY <2>5
    <3>2. e < q[j - 1] /\ q[j - 1] \in Nat
      BY <3>1
    <3>3. CASE i < k
      <4>1. i \in 1..Len(q) /\ i < j - 1
        BY <2>1, <2>5, <3>3
      <4> QED
        BY <2>2, <3>1, <3>3, <4>1 DEF Sorted
    <3>4. CASE i = k
      BY <2>2, <3>1, <3>2, <3>4
    <3>5. CASE i > k
      <4>1. i - 1 \in 1..Len(q) /\ i - 1 < j - 1 /\ ~(i < k) /\ i # k
        BY <2>1, <3>5
      <4> QED
        BY <2>2, <3>1, <4>1 DEF Sorted
    <3> QED
      BY <3>3, <3>4, <3>5
  <2> QED
    BY <2>3, <2>4, <2>5
<1>3. ToSet(s) = {s[i] : i \in 1..Len(q) + 1} /\ ToSet(q) = {q[i] : i \in 1..Len(q)}
  BY <1>1, ToSetFacts
<1>4. ASSUME NEW i \in 1..Len(q) + 1 PROVE s[i] \in ToSet(q) \cup {e}
  <2>1. s[i] = IF i < k THEN q[i] ELSE IF i = k THEN e ELSE q[i - 1]
    BY <1>1
  <2>2. CASE i < k
    <3>1. i \in 1..Len(q)
      BY <2>2
    <3> QED
      BY <1>3, <2>1, <2>2, <3>1
  <2>3. CASE i > k
    <3>1. i - 1 \in 1..Len(q) /\ ~(i < k) /\ i # k
      BY <2>3
    <3> QED
      BY <1>3, <2>1, <3>1
  <2> QED
    BY <2>1, <2>2, <2>3
<1>5. ASSUME NEW i \in 1..Len(q) PROVE q[i] \in ToSet(s)
  <2>1. i \in 1..Len(q) + 1 /\ i + 1 \in 1..Len(q) + 1 /\ (i + 1) - 1 = i
    OBVIOUS
  <2>2. CASE i < k
    BY <1>1, <1>3, <2>1, <2>2
  <2>3. CASE ~(i < k)
    <3>1. ~(i + 1 < k) /\ i + 1 # k
      BY <2>3
    <3> QED
      BY <1>1, <1>3, <2>1, <3>1
  <2> QED
    BY <2>2, <2>3
<1>6. e \in ToSet(s)
  <2>1. k \in 1..Len(q) + 1 /\ ~(k < k) /\ s[k] = e
    BY <1>1
  <2> QED
    BY <1>3, <2>1
<1> QED
  BY <1>2, <1>3, <1>4, <1>5, <1>6 DEF s

(* The index SelectInSeq finds: the first that passes the test, or 0.        *)
LEMMA FirstOf ==
    ASSUME NEW I \in SUBSET (Nat \ {0}), NEW at, at = IF I # {} THEN Min(I) ELSE 0
    PROVE  /\ at \in Nat /\ (at = 0 <=> I = {})
           /\ at # 0 => at \in I /\ \A i \in I : at <= i
<1>1. CASE I = {}
  BY <1>1
<1>2. CASE I # {}
  <2>1. I \in SUBSET Nat
    OBVIOUS
  <2>2. Min(I) \in I /\ \A m \in I : Min(I) <= m
    BY <1>2, <2>1, MinIsLeast
  <2> QED
    BY <1>2, <2>1, <2>2
<1> QED
  BY <1>1, <1>2

(* evictOldest() finds the first queued batch of the org, if it has one. *)
LEMMA OldestFacts ==
    ASSUME queue \in Seq(Seqs), NEW o
    PROVE  /\ OldestOf(o) \in Nat
           /\ OldestOf(o) = 0 => \A i \in 1..Len(queue) : batch[queue[i]].org # o
           /\ OldestOf(o) # 0 =>
                /\ OldestOf(o) \in 1..Len(queue) /\ batch[queue[OldestOf(o)]].org = o
                /\ \A i \in 1..Len(queue) : batch[queue[i]].org = o => OldestOf(o) <= i
<1> DEFINE I == {i \in 1..Len(queue) : batch[queue[i]].org = o}
<1>1. I \in SUBSET (Nat \ {0}) /\ OldestOf(o) = IF I # {} THEN Min(I) ELSE 0
  BY DEF OldestOf, SelectInSeq
<1>2. /\ OldestOf(o) \in Nat /\ (OldestOf(o) = 0 <=> I = {})
      /\ OldestOf(o) # 0 => OldestOf(o) \in I /\ \A i \in I : OldestOf(o) <= i
  <2> HIDE DEF I
  <2> QED
    BY <1>1, FirstOf
<1> QED
  BY <1>2

(* pump() finds the place of a queued batch, if any is ready. *)
LEMMA FirstReadyFacts ==
    ASSUME queue \in Seq(Seqs)
    PROVE  /\ FirstReady \in Nat
           /\ FirstReady # 0 => FirstReady \in 1..Len(queue)
<1> DEFINE I == {i \in 1..Len(queue) : batch[queue[i]].ready}
<1>1. I \in SUBSET (Nat \ {0}) /\ FirstReady = IF I # {} THEN Min(I) ELSE 0
  BY DEF FirstReady, SelectInSeq
<1>2. FirstReady \in Nat /\ (FirstReady # 0 => FirstReady \in I)
  <2> HIDE DEF I
  <2> QED
    BY <1>1, FirstOf
<1> QED
  BY <1>2

(* What a batch adds to a count when it joins the queue, and takes with it.  *)
GrowsBy(q, r, b) == \A w \in [Seqs -> Int] : \A n : Total(q, w, n) => Total(r, w, n + w[b])
ShrinksBy(q, r, b) == \A w \in [Seqs -> Int] : \A n : Total(q, w, n) => Total(r, w, n - w[b])

(* insertBySeq() keeps the queue sorted and adds the batch. *)
LEMMA InsertFacts ==
    ASSUME NEW q \in Seq(Seqs), Sorted(q), NEW b \in Seqs, b \notin ToSet(q), MaxSeq \in Nat
    PROVE  LET r == InsertBySeq(q, b) IN
           /\ r \in Seq(Seqs) /\ Len(r) = Len(q) + 1 /\ Sorted(r)
           /\ ToSet(r) = ToSet(q) \cup {b} /\ GrowsBy(q, r, b)
<1> DEFINE I == {i \in 1..Len(q) : q[i] > b}
           at == IF I # {} THEN Min(I) ELSE 0
           r == InsertBySeq(q, b)
<1>1. I \in SUBSET (Nat \ {0}) /\ r = IF at = 0 THEN Append(q, b) ELSE InsertAt(q, at, b)
  BY DEF InsertBySeq, SelectInSeq
<1>2. at \in Nat /\ (at = 0 <=> I = {}) /\ (at # 0 => at \in I /\ \A i \in I : at <= i)
  <2> HIDE DEF I
  <2> QED
    BY <1>1, FirstOf
<1>3. q \in Seq(Nat) /\ b \in Nat /\ \A i \in 1..Len(q) : q[i] \in Nat /\ q[i] # b
  <2>1. \A i \in 1..Len(q) : q[i] \in Seqs /\ q[i] \in ToSet(q)
    BY ToSetFacts
  <2>2. Seqs \subseteq Nat
    BY DEF Seqs
  <2>3. q \in Seq(Nat)
    BY DEF Seqs
  <2> QED
    BY <2>1, <2>2, <2>3
<1> HIDE DEF r, at
<1>4. CASE at = 0
  <2>1. \A i \in 1..Len(q) : q[i] < b
    BY <1>2, <1>3, <1>4
  <2>2. Sorted(r) /\ ToSet(r) = ToSet(q) \cup {b}
    BY <1>1, <1>3, <1>4, <2>1, AppendSorted
  <2>3. r \in Seq(Seqs) /\ Len(r) = Len(q) + 1
    BY <1>1, <1>4, AppendProperties
  <2>4. GrowsBy(q, r, b)
    BY <1>1, <1>4, TotalAppend DEF GrowsBy
  <2> QED
    BY <2>2, <2>3, <2>4 DEF r
<1>5. CASE at # 0
  <2>1. at \in 1..Len(q) /\ at \in 1..Len(q) + 1 /\ q[at] > b /\ \A i \in I : at <= i
    BY <1>2, <1>5
  <2>2. ASSUME NEW i \in 1..Len(q) PROVE IF i < at THEN q[i] < b ELSE b < q[i]
    <3>1. CASE i < at
      <4>1. i \notin I
        <5> HIDE DEF I
        <5> QED
          BY <2>1, <3>1
      <4> QED
        BY <1>3, <3>1, <4>1
    <3>2. CASE ~(i < at)
      <4>1. at = i \/ at < i
        BY <2>1, <3>2
      <4>2. at < i => q[at] < q[i]
        BY <2>1 DEF Sorted
      <4>3. q[at] \in Nat /\ q[i] \in Nat
        BY <1>3, <2>1
      <4> QED
        BY <1>3, <2>1, <3>2, <4>1, <4>2, <4>3
    <3> QED
      BY <3>1, <3>2
  <2>3. Sorted(r) /\ ToSet(r) = ToSet(q) \cup {b}
    BY <1>1, <1>3, <1>5, <2>1, <2>2, InsertSorted
  <2>4. r \in Seq(Seqs) /\ Len(r) = Len(q) + 1
    BY <1>1, <1>5, <2>1, InsertAtFacts
  <2>5. GrowsBy(q, r, b)
    BY <1>1, <1>5, <2>1, TotalInsert DEF GrowsBy
  <2> QED
    BY <2>3, <2>4, <2>5 DEF r
<1> QED
  BY <1>4, <1>5

(* enqueue() puts the newest batch at the end. *)
LEMMA AppendFacts ==
    ASSUME NEW q \in Seq(Seqs), Sorted(q), NEW b \in Seqs, \A i \in 1..Len(q) : q[i] < b, MaxSeq \in Nat
    PROVE  LET r == Append(q, b) IN
           /\ r \in Seq(Seqs) /\ Len(r) = Len(q) + 1 /\ Sorted(r)
           /\ ToSet(r) = ToSet(q) \cup {b} /\ GrowsBy(q, r, b)
<1>1. q \in Seq(Nat) /\ b \in Nat
  BY DEF Seqs
<1>2. Sorted(Append(q, b)) /\ ToSet(Append(q, b)) = ToSet(q) \cup {b}
  BY <1>1, AppendSorted
<1>3. Append(q, b) \in Seq(Seqs) /\ Len(Append(q, b)) = Len(q) + 1
  BY AppendProperties
<1>4. GrowsBy(q, Append(q, b), b)
  BY TotalAppend DEF GrowsBy
<1> QED
  BY <1>2, <1>3, <1>4

(* A batch leaves the queue, and nothing else changes in it. *)
LEMMA RemoveFacts ==
    ASSUME NEW q \in Seq(Seqs), Sorted(q), NEW k \in 1..Len(q), MaxSeq \in Nat
    PROVE  LET r == RemoveAt(q, k) IN
           /\ r \in Seq(Seqs) /\ Len(r) = Len(q) - 1 /\ Sorted(r)
           /\ ToSet(r) = ToSet(q) \ {q[k]} /\ ShrinksBy(q, r, q[k])
<1>1. q \in Seq(Nat)
  BY DEF Seqs
<1>2. Sorted(RemoveAt(q, k)) /\ ToSet(RemoveAt(q, k)) = ToSet(q) \ {q[k]}
  BY <1>1, RemoveSorted
<1>3. RemoveAt(q, k) \in Seq(Seqs) /\ Len(RemoveAt(q, k)) = Len(q) - 1
  BY RemoveAtFacts
<1>4. ShrinksBy(q, RemoveAt(q, k), q[k])
  BY TotalRemove DEF ShrinksBy
<1> QED
  BY <1>2, <1>3, <1>4

-----------------------------------------------------------------------------
(* The inductive invariant.                                                  *)

(* Each batch is at one place: waiting, being sent, or settled with one fate.*)
Placed(w, s, f, n) ==
    \A b \in Seqs :
        /\ b \in w \cup s => b <= n /\ f[b] = {}
        /\ b \in w => b \notin s
        /\ b > n => f[b] = {}
        /\ b <= n /\ b \notin w \cup s => \E x \in Fates : f[b] = {x}

PlacesInv == Sorted(queue) /\ Placed(Waiting, sending, fate, seqCounter)

(* Only batches of an org that fit the buffer wait, with attempts left.      *)
AdmittedInv ==
    \A b \in Seqs :
        /\ b \in Waiting \cup sending =>
              batch[b].org \in Org /\ batch[b].bytes \in Size /\ batch[b].bytes <= MaxBytes
        /\ b \in Waiting => batch[b].attempts <= MaxAttempts
        /\ b > seqCounter => batch[b].attempts = 0

(* The byte counts are the sums they stand for.                              *)
BytesInv ==
    /\ Total(queue, Weights(batch, Org), queuedBytes)
    /\ \A o \in Org : Total(queue, Weights(batch, {o}), orgBytes[o])

BoundsInv == task \in {"none", "pump"} => Len(queue) <= MaxBatches /\ queuedBytes <= MaxBytes

(* A POST begun in this epoch of failures was not under way at a failure.    *)
HealthInv ==
    /\ \A b \in sending :
          batch[b].epochAtStart <= failureEpoch /\ (batch[b].epochAtStart = failureEpoch => b \notin overlapped)
    /\ failures > 0 => \A b, c \in sending \ overlapped : b = c

ForwarderInv ==
    /\ ForwarderTypeOK /\ PlacesInv /\ AdmittedInv /\ CountersAddUp /\ BytesInv /\ BoundsInv
    /\ HealthInv /\ NoLostWakeup

-----------------------------------------------------------------------------
(* A batch weighs its bytes, if its org is one of those counted. *)
LEMMA WeightsFacts ==
    ASSUME NEW bs \in [Seqs -> BatchType], NEW orgs
    PROVE  /\ Weights(bs, orgs) \in [Seqs -> Nat] /\ Weights(bs, orgs) \in [Seqs -> Int]
           /\ \A b \in Seqs : Weights(bs, orgs)[b] = IF bs[b].org \in orgs THEN bs[b].bytes ELSE 0
<1>1. ASSUME NEW b \in Seqs PROVE bs[b].bytes \in Nat
  <2>1. bs[b].bytes \in Size \cup {0}
    BY DEF BatchType
  <2>2. Size \subseteq Nat \ {0}
    BY ForwarderConstants
  <2>3. bs[b].bytes \in Size => bs[b].bytes \in Nat
    BY <2>2
  <2> QED
    BY <2>1, <2>3
<1> QED
  BY <1>1 DEF Weights, OfGroups, BytesIn, OrgIn

(* Batches that weigh the same, of the same orgs, count the same.            *)
LEMMA SameWeights ==
    ASSUME NEW bs, NEW cs, NEW orgs, NEW q \in Seq(Seqs), NEW n, Total(q, Weights(bs, orgs), n),
           \A b \in ToSet(q) : cs[b].org = bs[b].org /\ cs[b].bytes = bs[b].bytes
    PROVE  Total(q, Weights(cs, orgs), n)
<1>1. \A i \in 1..Len(q) : q[i] \in Seqs /\ q[i] \in ToSet(q)
  BY ToSetFacts
<1>2. \A i \in 1..Len(q) : Weights(cs, orgs)[q[i]] = Weights(bs, orgs)[q[i]]
  BY <1>1 DEF Weights, OfGroups, BytesIn, OrgIn
<1> QED
  BY <1>2, TotalReweighted

(* What Enqueue does to the places of batches: a new one waits. *)
LEMMA EnqueueMoves ==
    ASSUME ForwarderTypeOK, PlacesInv, NEW o \in Org, NEW n \in Size, Enqueue(o, n)
    PROVE  LET b == seqCounter + 1 IN
           /\ b \in Seqs /\ b \notin Waiting /\ b \notin sending /\ fate[b] = {}
           /\ queue' \in Seq(Seqs) /\ Len(queue') = Len(queue) + 1 /\ Sorted(queue')
           /\ ToSet(queue') = Waiting \cup {b} /\ GrowsBy(queue, queue', b)
<1> DEFINE b == seqCounter + 1
<1>1. b \in Seqs /\ queue' = Append(queue, b) /\ seqCounter \in Nat /\ queue \in Seq(Seqs) /\ MaxSeq \in Nat
  BY ForwarderConstants DEF Enqueue, ForwarderTypeOK
<1>2. ~(b <= seqCounter) /\ b > seqCounter
  BY <1>1
<1>3. b \notin Waiting /\ b \notin sending /\ fate[b] = {}
  BY <1>1, <1>2 DEF PlacesInv, Placed
<1>4. \A i \in 1..Len(queue) : queue[i] < b
  <2>1. SUFFICES ASSUME NEW i \in 1..Len(queue) PROVE queue[i] < b
    OBVIOUS
  <2>2. queue[i] \in Seqs /\ queue[i] \in Waiting
    BY <1>1, ToSetFacts DEF Waiting
  <2>3. queue[i] <= seqCounter
    BY <2>2 DEF PlacesInv, Placed
  <2> QED
    BY <1>1, <2>2, <2>3 DEF Seqs
<1> HIDE DEF b
<1>5. Sorted(queue)
  BY DEF PlacesInv
<1> QED
  BY <1>1, <1>3, <1>4, <1>5, AppendFacts DEF Waiting, b

(* What Evict does to the places of batches: the oldest of the heaviest org *)
(* goes.                                                                    *)
LEMMA EvictMoves ==
    ASSUME ForwarderTypeOK, PlacesInv, BytesInv, Evict
    PROVE  \E b \in Seqs, o \in Org :
           /\ b \in Waiting /\ batch[b].org = o /\ orgBytes[o] > 0
           /\ \A p \in Org : orgBytes[p] <= orgBytes[o]
           /\ \A c \in Waiting : batch[c].org = o => b <= c
           /\ Untrack(b) /\ NoteDrop(b, "sink_overflow")
           /\ queue' \in Seq(Seqs) /\ Len(queue') = Len(queue) - 1 /\ Sorted(queue')
           /\ ToSet(queue') = Waiting \ {b} /\ ShrinksBy(queue, queue', b)
<1>1. PICK o \in Heaviest :
        /\ queue' = RemoveAt(queue, OldestOf(o))
        /\ Untrack(queue[OldestOf(o)])
        /\ NoteDrop(queue[OldestOf(o)], "sink_overflow")
  BY DEF Evict
<1> DEFINE at == OldestOf(o)
           b == queue[at]
<1>2. queue \in Seq(Seqs) /\ MaxSeq \in Nat /\ batch \in [Seqs -> BatchType]
  BY ForwarderConstants DEF ForwarderTypeOK
<1>3. o \in Org /\ orgBytes[o] > 0 /\ \A p \in Org : orgBytes[p] <= orgBytes[o]
  BY <1>1 DEF Heaviest
<1>4. at # 0
  <2>1. Total(queue, Weights(batch, {o}), orgBytes[o])
    BY <1>3 DEF BytesInv
  <2>2. PICK i \in 1..Len(queue) : Weights(batch, {o})[queue[i]] > 0
    BY <1>2, <1>3, <2>1, WeightsFacts, TotalOfNaturals
  <2>3. queue[i] \in Seqs
    BY <1>2
  <2>4. batch[queue[i]].org = o
    BY <1>2, <2>2, <2>3, WeightsFacts
  <2> QED
    BY <1>2, <2>4, OldestFacts
<1>5. /\ at \in 1..Len(queue) /\ batch[b].org = o
      /\ \A i \in 1..Len(queue) : batch[queue[i]].org = o => at <= i
  BY <1>2, <1>4, OldestFacts
<1> HIDE DEF at
<1>6. b \in Seqs /\ b \in Waiting
  BY <1>2, <1>5, ToSetFacts DEF Waiting
<1>7. ASSUME NEW c \in Waiting, batch[c].org = o PROVE b <= c
  <2>1. PICK i \in 1..Len(queue) : c = queue[i]
    BY <1>2, ToSetFacts DEF Waiting
  <2>2. at = i \/ at < i
    BY <1>5, <1>7, <2>1
  <2>3. b \in Nat /\ (at < i => b < c)
    BY <1>5, <1>6, <2>1 DEF PlacesInv, Sorted, Seqs
  <2>4. c \in Nat
    BY <1>2, <2>1 DEF Seqs
  <2> QED
    BY <2>1, <2>2, <2>3, <2>4
<1>8. /\ queue' \in Seq(Seqs) /\ Len(queue') = Len(queue) - 1 /\ Sorted(queue')
      /\ ToSet(queue') = Waiting \ {b} /\ ShrinksBy(queue, queue', b)
  <2>1. Sorted(queue) /\ queue' = RemoveAt(queue, at)
    BY <1>1 DEF PlacesInv, at
  <2> QED
    BY <1>2, <1>5, <2>1, RemoveFacts DEF Waiting
<1> QED
  BY <1>1, <1>3, <1>5, <1>6, <1>7, <1>8 DEF at

(* What Launch does to the places of batches: a waiting one is being sent. *)
LEMMA LaunchMoves ==
    ASSUME ForwarderTypeOK, PlacesInv, Launch
    PROVE  \E b \in Seqs :
           /\ b \in Waiting /\ Untrack(b) /\ sending' = sending \cup {b} /\ overlapped' = overlapped \ {b}
           /\ batch' = [batch EXCEPT ![b].attempts = @ + 1, ![b].epochAtStart = failureEpoch]
           /\ queue' \in Seq(Seqs) /\ Len(queue') = Len(queue) - 1 /\ Sorted(queue')
           /\ ToSet(queue') = Waiting \ {b} /\ ShrinksBy(queue, queue', b)
<1> DEFINE at == FirstReady
           b == queue[at]
<1>1. queue \in Seq(Seqs) /\ MaxSeq \in Nat /\ Sorted(queue)
  BY ForwarderConstants DEF ForwarderTypeOK, PlacesInv
<1>2. at \in 1..Len(queue)
  BY <1>1, FirstReadyFacts DEF Launch
<1>3. /\ Untrack(b) /\ sending' = sending \cup {b} /\ overlapped' = overlapped \ {b}
      /\ queue' = RemoveAt(queue, at)
      /\ batch' = [batch EXCEPT ![b].attempts = @ + 1, ![b].epochAtStart = failureEpoch]
  BY DEF Launch
<1> HIDE DEF at
<1>4. b \in Seqs /\ b \in Waiting
  BY <1>1, <1>2, ToSetFacts DEF Waiting
<1>5. /\ queue' \in Seq(Seqs) /\ Len(queue') = Len(queue) - 1 /\ Sorted(queue')
      /\ ToSet(queue') = Waiting \ {b} /\ ShrinksBy(queue, queue', b)
  BY <1>1, <1>2, <1>3, RemoveFacts DEF Waiting
<1> QED
  BY <1>3, <1>4, <1>5

(* What SendRetries does to the places of batches: one being sent waits     *)
(* again.                                                                   *)
LEMMA RetryMoves ==
    ASSUME ForwarderTypeOK, PlacesInv, NEW b \in Seqs, SendRetries(b)
    PROVE  /\ b \in sending /\ b \notin Waiting
           /\ queue' \in Seq(Seqs) /\ Len(queue') = Len(queue) + 1 /\ Sorted(queue')
           /\ ToSet(queue') = Waiting \cup {b} /\ GrowsBy(queue, queue', b)
<1>1. queue \in Seq(Seqs) /\ MaxSeq \in Nat /\ Sorted(queue)
  BY ForwarderConstants DEF ForwarderTypeOK, PlacesInv
<1>2. b \in sending /\ queue' = InsertBySeq(queue, b)
  BY DEF SendRetries, SendFailed
<1>3. b \notin ToSet(queue)
  BY <1>2 DEF PlacesInv, Placed, Waiting
<1> QED
  BY <1>1, <1>2, <1>3, InsertFacts DEF Waiting

-----------------------------------------------------------------------------
(* The moves of a batch between its places.                                  *)
LEMMA PlacedAccept ==
    ASSUME NEW w, NEW s, NEW f, NEW n \in Nat, Placed(w, s, f, n), n + 1 \in Seqs, MaxSeq \in Nat
    PROVE  Placed(w \cup {n + 1}, s, f, n + 1)
<1>1. Seqs \subseteq Nat
  BY DEF Seqs
<1>2. SUFFICES ASSUME NEW b \in Seqs
               PROVE  /\ b \in w \cup {n + 1} \cup s => b <= n + 1 /\ f[b] = {}
                      /\ b \in w \cup {n + 1} => b \notin s
                      /\ b > n + 1 => f[b] = {}
                      /\ b <= n + 1 /\ b \notin w \cup {n + 1} \cup s => \E x \in Fates : f[b] = {x}
  BY Zenon DEF Placed
<1>3. /\ b \in w \cup s => b <= n /\ f[b] = {}
      /\ b \in w => b \notin s
      /\ b > n => f[b] = {}
      /\ b <= n /\ b \notin w \cup s => \E x \in Fates : f[b] = {x}
  BY DEF Placed
<1>4. b \in Nat
  BY <1>1
<1>5. CASE b = n + 1
  BY <1>3, <1>4, <1>5
<1>6. CASE b # n + 1
  <2>1. (b <= n + 1 <=> b <= n) /\ (b > n + 1 => b > n)
    BY <1>4, <1>6
  <2> QED
    BY <1>3, <1>6, <2>1
<1> QED
  BY <1>5, <1>6

(* A batch that never waits has its fate at once. *)
LEMMA PlacedRefuse ==
    ASSUME NEW w, NEW s, NEW f \in [Seqs -> SUBSET Fates], NEW n \in Nat, Placed(w, s, f, n),
           n + 1 \in Seqs, MaxSeq \in Nat, NEW x \in Fates
    PROVE  Placed(w, s, [f EXCEPT ![n + 1] = @ \cup {x}], n + 1)
<1>1. Seqs \subseteq Nat
  BY DEF Seqs
<1> DEFINE g == [f EXCEPT ![n + 1] = @ \cup {x}]
<1>2. g[n + 1] = f[n + 1] \cup {x} /\ \A b \in Seqs : b # n + 1 => g[b] = f[b]
  OBVIOUS
<1> HIDE DEF g
<1>3. SUFFICES ASSUME NEW b \in Seqs
               PROVE  /\ b \in w \cup s => b <= n + 1 /\ g[b] = {}
                      /\ b \in w => b \notin s
                      /\ b > n + 1 => g[b] = {}
                      /\ b <= n + 1 /\ b \notin w \cup s => \E y \in Fates : g[b] = {y}
  BY Zenon DEF Placed, g
<1>4. /\ b \in w \cup s => b <= n /\ f[b] = {}
      /\ b \in w => b \notin s
      /\ b > n => f[b] = {}
      /\ b <= n /\ b \notin w \cup s => \E y \in Fates : f[b] = {y}
  BY DEF Placed
<1>5. b \in Nat
  BY <1>1
<1>6. CASE b = n + 1
  <2>1. ~(b <= n) /\ b > n /\ b <= n + 1 /\ ~(b > n + 1)
    BY <1>6
  <2>2. g[b] = {x}
    BY <1>2, <1>4, <1>6, <2>1
  <2> QED
    BY <1>4, <2>1, <2>2
<1>7. CASE b # n + 1
  <2>1. (b <= n + 1 <=> b <= n) /\ (b > n + 1 => b > n)
    BY <1>5, <1>7
  <2> QED
    BY <1>2, <1>4, <1>7, <2>1
<1> QED
  BY <1>6, <1>7

(* A waiting batch is sent. *)
LEMMA PlacedLaunch ==
    ASSUME NEW w, NEW s, NEW f, NEW n, Placed(w, s, f, n), NEW b \in w
    PROVE  Placed(w \ {b}, s \cup {b}, f, n)
  BY DEF Placed

(* A batch being sent waits again. *)
LEMMA PlacedRetry ==
    ASSUME NEW w, NEW s, NEW f, NEW n, Placed(w, s, f, n), NEW b \in s
    PROVE  Placed(w \cup {b}, s \ {b}, f, n)
  BY DEF Placed

(* A batch that waits or is sent has its fate and no place any more. *)
LEMMA PlacedSettle ==
    ASSUME NEW w, NEW s, NEW f \in [Seqs -> SUBSET Fates], NEW n \in Nat, Placed(w, s, f, n),
           MaxSeq \in Nat, NEW b \in w \cup s, b \in Seqs, NEW x \in Fates
    PROVE  Placed(w \ {b}, s \ {b}, [f EXCEPT ![b] = @ \cup {x}], n)
<1> DEFINE g == [f EXCEPT ![b] = @ \cup {x}]
<1>1. g[b] = f[b] \cup {x} /\ \A c \in Seqs : c # b => g[c] = f[c]
  OBVIOUS
<1> HIDE DEF g
<1>2. b <= n /\ g[b] = {x}
  BY <1>1 DEF Placed
<1>3. SUFFICES ASSUME NEW c \in Seqs
               PROVE  /\ c \in (w \ {b}) \cup (s \ {b}) => c <= n /\ g[c] = {}
                      /\ c \in w \ {b} => c \notin s \ {b}
                      /\ c > n => g[c] = {}
                      /\ c <= n /\ c \notin (w \ {b}) \cup (s \ {b}) => \E y \in Fates : g[c] = {y}
  BY Zenon DEF Placed, g
<1>4. ~(b > n)
  BY <1>2 DEF Seqs
<1>5. CASE c = b
  BY <1>2, <1>4, <1>5
<1>6. CASE c # b
  BY <1>1, <1>6 DEF Placed
<1> QED
  BY <1>5, <1>6

-----------------------------------------------------------------------------
(* Every step leaves each batch in one place. *)
LEMMA PlacesStep ==
    ASSUME ForwarderTypeOK, PlacesInv, BytesInv, ForwarderNext
    PROVE  PlacesInv'
<1> DEFINE b1 == seqCounter + 1
<1>1. /\ seqCounter \in Nat /\ MaxSeq \in Nat /\ fate \in [Seqs -> SUBSET Fates]
      /\ Sorted(queue) /\ Placed(Waiting, sending, fate, seqCounter)
      /\ "sink_overflow" \in Fates /\ "sink_rejected" \in Fates /\ "sink_gave_up" \in Fates
      /\ "delivered" \in Fates
  BY ForwarderConstants DEF ForwarderTypeOK, PlacesInv, Fates, Dropped
<1>2. ASSUME NEW o \in Org, NEW n \in Size, Enqueue(o, n) PROVE PlacesInv'
  <2>1. b1 \in Seqs /\ Sorted(queue') /\ ToSet(queue') = Waiting \cup {b1}
    BY <1>2, EnqueueMoves
  <2>2. sending' = sending /\ fate' = fate /\ seqCounter' = b1
    BY <1>2 DEF Enqueue, counters
  <2>3. Placed(Waiting \cup {b1}, sending, fate, b1)
    BY <1>1, <2>1, PlacedAccept
  <2> QED
    BY <2>1, <2>2, <2>3 DEF PlacesInv, Waiting
<1>3. ASSUME NEW o \in Org, NEW n \in Size, EnqueueOversized(o, n) PROVE PlacesInv'
  <2>1. /\ b1 \in Seqs /\ queue' = queue /\ sending' = sending /\ seqCounter' = b1
        /\ fate' = [fate EXCEPT ![b1] = @ \cup {"sink_overflow"}]
    BY <1>3 DEF EnqueueOversized, NoteDrop
  <2>2. Placed(Waiting, sending, [fate EXCEPT ![b1] = @ \cup {"sink_overflow"}], b1)
    BY <1>1, <2>1, PlacedRefuse
  <2> QED
    BY <1>1, <2>1, <2>2 DEF PlacesInv, Waiting
<1>4. ASSUME Evict PROVE PlacesInv'
  <2>1. PICK b \in Seqs : /\ b \in Waiting /\ NoteDrop(b, "sink_overflow")
                          /\ Sorted(queue') /\ ToSet(queue') = Waiting \ {b}
    BY <1>4, EvictMoves
  <2>2. sending' = sending /\ seqCounter' = seqCounter
    BY <1>4 DEF Evict
  <2>3. fate' = [fate EXCEPT ![b] = @ \cup {"sink_overflow"}]
    BY <2>1 DEF NoteDrop
  <2>4. sending \ {b} = sending
    BY <1>1, <2>1 DEF Placed
  <2>5. Placed(Waiting \ {b}, sending \ {b}, [fate EXCEPT ![b] = @ \cup {"sink_overflow"}], seqCounter)
    BY <1>1, <2>1, PlacedSettle
  <2> QED
    BY <2>1, <2>2, <2>3, <2>4, <2>5 DEF PlacesInv, Waiting
<1>5. ASSUME Launch PROVE PlacesInv'
  <2>1. PICK b \in Seqs : /\ b \in Waiting /\ sending' = sending \cup {b}
                          /\ Sorted(queue') /\ ToSet(queue') = Waiting \ {b}
    BY <1>5, LaunchMoves
  <2>2. fate' = fate /\ seqCounter' = seqCounter
    BY <1>5 DEF Launch, counters
  <2>3. Placed(Waiting \ {b}, sending \cup {b}, fate, seqCounter)
    BY <1>1, <2>1, PlacedLaunch
  <2> QED
    BY <2>1, <2>2, <2>3 DEF PlacesInv, Waiting
<1>6. ASSUME NEW b \in Seqs, SendRetries(b) PROVE PlacesInv'
  <2>1. b \in sending /\ Sorted(queue') /\ ToSet(queue') = Waiting \cup {b}
    BY <1>6, RetryMoves
  <2>2. sending' = sending \ {b} /\ fate' = fate /\ seqCounter' = seqCounter
    BY <1>6 DEF SendRetries, SendFailed
  <2>3. Placed(Waiting \cup {b}, sending \ {b}, fate, seqCounter)
    BY <1>1, <2>1, PlacedRetry
  <2> QED
    BY <2>1, <2>2, <2>3 DEF PlacesInv, Waiting
<1>7. ASSUME NEW b \in Seqs, SendSucceeds(b) \/ SendRejected(b) \/ SendGivesUp(b) PROVE PlacesInv'
  <2>1. /\ b \in sending /\ sending' = sending \ {b} /\ queue' = queue /\ seqCounter' = seqCounter
        /\ \E x \in Fates : fate' = [fate EXCEPT ![b] = @ \cup {x}]
    <3>1. CASE SendSucceeds(b)
      BY <1>1, <3>1 DEF SendSucceeds
    <3>2. CASE SendRejected(b)
      BY <1>1, <3>2 DEF SendRejected, SendFailed, NoteDrop
    <3>3. CASE SendGivesUp(b)
      BY <1>1, <3>3 DEF SendGivesUp, SendFailed, NoteDrop
    <3> QED
      BY <1>7, <3>1, <3>2, <3>3
  <2>2. PICK x \in Fates : fate' = [fate EXCEPT ![b] = @ \cup {x}]
    BY <2>1
  <2>3. Waiting \ {b} = Waiting
    BY <1>1, <2>1 DEF Placed
  <2>4. Placed(Waiting \ {b}, sending \ {b}, [fate EXCEPT ![b] = @ \cup {x}], seqCounter)
    BY <1>1, <2>1, PlacedSettle
  <2> QED
    BY <1>1, <2>1, <2>2, <2>3, <2>4 DEF PlacesInv, Waiting
<1>8. ASSUME UNCHANGED <<queue, sending, fate, seqCounter>> PROVE PlacesInv'
  BY <1>8 DEF PlacesInv, Placed, Waiting
<1>9. CASE BoundsHold \/ PumpEnds \/ WakeTimerFires \/ Finally \/ CloseForwarder \/ \E b \in Seqs : BackoffEnds(b)
  BY <1>8, <1>9 DEF BoundsHold, PumpEnds, WakeTimerFires, Finally, CloseForwarder, BackoffEnds, counters
<1> QED
  BY <1>2, <1>3, <1>4, <1>5, <1>6, <1>7, <1>9 DEF ForwarderNext, ForwarderRuns, Loop, Settles

(* The fields of a batch keep their types as steps change them. *)
LEMMA RecordFacts ==
    ASSUME NEW r \in BatchType
    PROVE  /\ \A o \in Org, n \in Size : [r EXCEPT !.org = o, !.bytes = n] \in BatchType
           /\ [r EXCEPT !.ready = FALSE] \in BatchType /\ [r EXCEPT !.ready = TRUE] \in BatchType
           /\ \A e \in Nat : r.attempts <= MaxAttempts =>
                 [r EXCEPT !.attempts = @ + 1, !.epochAtStart = e] \in BatchType
           /\ r.attempts \in Nat /\ r.epochAtStart \in Nat
<1>1. /\ MaxAttempts \in Nat /\ r.attempts \in 0..MaxAttempts + 1 /\ r.epochAtStart \in Nat
      /\ r.org \in Org \cup {NoOrg} /\ r.bytes \in Size \cup {0} /\ r.ready \in BOOLEAN
  BY ForwarderConstants DEF BatchType
<1>2. r = [org |-> r.org, bytes |-> r.bytes, attempts |-> r.attempts, ready |-> r.ready,
           epochAtStart |-> r.epochAtStart]
  BY DEF BatchType
<1>3. ASSUME NEW o \in Org, NEW n \in Size PROVE [r EXCEPT !.org = o, !.bytes = n] \in BatchType
  BY <1>1, <1>2 DEF BatchType
<1>4. [r EXCEPT !.ready = FALSE] \in BatchType /\ [r EXCEPT !.ready = TRUE] \in BatchType
  BY <1>1, <1>2 DEF BatchType
<1>5. ASSUME NEW e \in Nat, r.attempts <= MaxAttempts
      PROVE  [r EXCEPT !.attempts = @ + 1, !.epochAtStart = e] \in BatchType
  <2>1. r.attempts + 1 \in 0..MaxAttempts + 1
    BY <1>1, <1>5
  <2> QED
    BY <1>1, <1>2, <2>1 DEF BatchType
<1>6. r.attempts \in Nat
  BY <1>1
<1> QED
  BY <1>1, <1>3, <1>4, <1>5, <1>6

(* What a step does to the batches: their org and size are set when they are *)
(* enqueued, the rest changes as they are sent and retried.                  *)
LEMMA BatchStep ==
    ASSUME ForwarderTypeOK, PlacesInv, AdmittedInv, ForwarderNext
    PROVE  /\ batch' \in [Seqs -> BatchType]
           /\ \A b \in Seqs : b <= seqCounter => batch'[b].org = batch[b].org /\ batch'[b].bytes = batch[b].bytes
<1>1. batch \in [Seqs -> BatchType] /\ seqCounter \in Nat /\ failureEpoch \in Nat /\ ~(seqCounter + 1 <= seqCounter)
  BY DEF ForwarderTypeOK
<1>2. ASSUME NEW o \in Org, NEW n \in Size, Enqueue(o, n) \/ EnqueueOversized(o, n)
      PROVE  /\ batch' \in [Seqs -> BatchType]
             /\ \A b \in Seqs : b <= seqCounter => batch'[b].org = batch[b].org /\ batch'[b].bytes = batch[b].bytes
  <2>1. batch' = [batch EXCEPT ![seqCounter + 1] = [@ EXCEPT !.org = o, !.bytes = n]]
    BY <1>2 DEF Enqueue, EnqueueOversized
  <2>2. \A b \in Seqs : b <= seqCounter => batch'[b] = batch[b]
    BY <1>1, <2>1
  <2>3. batch' \in [Seqs -> BatchType]
    BY <1>1, <2>1, RecordFacts
  <2> QED
    BY <2>2, <2>3
<1>3. ASSUME NEW b \in Seqs, batch' = [batch EXCEPT ![b].ready = FALSE] \/ batch' = [batch EXCEPT ![b].ready = TRUE]
      PROVE  /\ batch' \in [Seqs -> BatchType]
             /\ \A c \in Seqs : batch'[c].org = batch[c].org /\ batch'[c].bytes = batch[c].bytes
  <2>1. [batch[b] EXCEPT !.ready = FALSE] \in BatchType /\ [batch[b] EXCEPT !.ready = TRUE] \in BatchType
    BY <1>1, RecordFacts
  <2>2. batch' \in [Seqs -> BatchType]
    BY <1>1, <1>3, <2>1
  <2>3. \A c \in Seqs : batch'[c].org = batch[c].org /\ batch'[c].bytes = batch[c].bytes
    BY <1>1, <1>3 DEF BatchType
  <2> QED
    BY <2>2, <2>3
<1>4. ASSUME Launch
      PROVE  /\ batch' \in [Seqs -> BatchType]
             /\ \A c \in Seqs : batch'[c].org = batch[c].org /\ batch'[c].bytes = batch[c].bytes
  <2>1. PICK b \in Seqs : /\ b \in Waiting
                          /\ batch' = [batch EXCEPT ![b].attempts = @ + 1, ![b].epochAtStart = failureEpoch]
    BY <1>4, LaunchMoves
  <2>2. batch[b].attempts <= MaxAttempts
    BY <2>1 DEF AdmittedInv
  <2>3. [batch[b] EXCEPT !.attempts = @ + 1, !.epochAtStart = failureEpoch] \in BatchType
    BY <1>1, <2>2, RecordFacts
  <2>4. batch' \in [Seqs -> BatchType]
    <3> DEFINE r == [batch[b] EXCEPT !.attempts = @ + 1, !.epochAtStart = failureEpoch]
    <3>1. batch' = [batch EXCEPT ![b] = r]
      BY <1>1, <2>1
    <3>2. r \in BatchType
      BY <2>3
    <3> HIDE DEF r
    <3> QED
      BY <1>1, <3>1, <3>2
  <2>5. \A c \in Seqs : batch'[c].org = batch[c].org /\ batch'[c].bytes = batch[c].bytes
    BY <1>1, <2>1 DEF BatchType
  <2> QED
    BY <2>4, <2>5
<1>5. CASE batch' = batch
  BY <1>1, <1>5
<1>6. ASSUME NEW b \in Seqs, BackoffEnds(b) \/ SendRetries(b)
      PROVE  batch' = [batch EXCEPT ![b].ready = FALSE] \/ batch' = [batch EXCEPT ![b].ready = TRUE]
  BY <1>6 DEF BackoffEnds, SendRetries
<1>7. CASE Evict \/ BoundsHold \/ PumpEnds \/ WakeTimerFires \/ Finally \/ CloseForwarder
           \/ \E b \in Seqs : SendSucceeds(b) \/ SendRejected(b) \/ SendGivesUp(b)
  BY <1>5, <1>7 DEF Evict, BoundsHold, PumpEnds, WakeTimerFires, Finally, CloseForwarder, SendSucceeds, SendRejected,
     SendGivesUp
<1> QED
  BY <1>2, <1>3, <1>4, <1>6, <1>7 DEF ForwarderNext, ForwarderRuns, Loop, Settles

(* Every step keeps what is known of the batches let into the queue. *)
LEMMA AdmittedStep ==
    ASSUME ForwarderTypeOK, PlacesInv, BytesInv, AdmittedInv, ForwarderNext
    PROVE  AdmittedInv'
<1> DEFINE b1 == seqCounter + 1
           Fits(c, w, s, bs, n) ==
              /\ c \in w \cup s => bs[c].org \in Org /\ bs[c].bytes \in Size /\ bs[c].bytes <= MaxBytes
              /\ c \in w => bs[c].attempts <= MaxAttempts
              /\ c > n => bs[c].attempts = 0
<1>1. /\ seqCounter \in Nat /\ MaxSeq \in Nat /\ MaxAttempts \in Nat /\ batch \in [Seqs -> BatchType]
      /\ batch' \in [Seqs -> BatchType] /\ Seqs \subseteq Nat
  BY ForwarderConstants, BatchStep DEF ForwarderTypeOK, Seqs
<1>2. \A c \in Seqs : Fits(c, Waiting, sending, batch, seqCounter)
  BY DEF AdmittedInv
<1>3. SUFFICES ASSUME NEW c \in Seqs PROVE Fits(c, Waiting', sending', batch', seqCounter')
  BY Zenon DEF AdmittedInv
<1>4. \A b \in Seqs : b \in Waiting \cup sending => b <= seqCounter
  BY DEF PlacesInv, Placed
<1>5. ASSUME NEW o \in Org, NEW n \in Size, Enqueue(o, n) PROVE Fits(c, Waiting', sending', batch', seqCounter')
  <2>1. b1 \in Seqs /\ Waiting' = Waiting \cup {b1} /\ b1 \notin Waiting /\ b1 \notin sending
    BY <1>5, EnqueueMoves DEF Waiting
  <2>2. /\ sending' = sending /\ seqCounter' = b1 /\ n <= MaxBytes
        /\ batch' = [batch EXCEPT ![b1] = [@ EXCEPT !.org = o, !.bytes = n]]
    BY <1>5 DEF Enqueue
  <2>3. CASE c = b1
    <3>1. batch'[c].org = o /\ batch'[c].bytes = n /\ batch'[c].attempts = batch[c].attempts
      BY <1>1, <2>1, <2>2, <2>3 DEF BatchType
    <3>2. c > seqCounter /\ ~(c > b1)
      BY <1>1, <2>3
    <3> QED
      BY <1>1, <1>2, <2>2, <3>1, <3>2
  <2>4. CASE c # b1
    <3>1. batch'[c] = batch[c] /\ (c \in Waiting' <=> c \in Waiting)
      BY <1>1, <2>1, <2>2, <2>4
    <3>2. c > b1 => c > seqCounter
      BY <1>1
    <3> QED
      BY <1>2, <2>2, <3>1, <3>2
  <2> QED
    BY <2>3, <2>4
<1>6. ASSUME NEW o \in Org, NEW n \in Size, EnqueueOversized(o, n) PROVE Fits(c, Waiting', sending', batch', seqCounter')
  <2>1. /\ b1 \in Seqs /\ queue' = queue /\ sending' = sending /\ seqCounter' = b1
        /\ batch' = [batch EXCEPT ![b1] = [@ EXCEPT !.org = o, !.bytes = n]]
    BY <1>6 DEF EnqueueOversized
  <2>2. b1 \notin Waiting /\ b1 \notin sending /\ Waiting' = Waiting
    BY <1>1, <1>4, <2>1 DEF Waiting
  <2>3. CASE c = b1
    <3>1. ~(c > b1)
      BY <1>1, <2>3
    <3> QED
      BY <2>1, <2>2, <2>3, <3>1
  <2>4. CASE c # b1
    <3>1. batch'[c] = batch[c]
      BY <1>1, <2>1, <2>4
    <3>2. c > b1 => c > seqCounter
      BY <1>1
    <3> QED
      BY <1>2, <2>1, <2>2, <3>1, <3>2
  <2> QED
    BY <2>3, <2>4
<1>7. ASSUME Evict PROVE Fits(c, Waiting', sending', batch', seqCounter')
  <2>1. Waiting' \subseteq Waiting
    BY <1>7, EvictMoves DEF Waiting
  <2>2. sending' = sending /\ batch' = batch /\ seqCounter' = seqCounter
    BY <1>7 DEF Evict
  <2> QED
    BY <1>2, <2>1, <2>2
<1>8. ASSUME Launch PROVE Fits(c, Waiting', sending', batch', seqCounter')
  <2>1. PICK b \in Seqs : /\ b \in Waiting /\ Waiting' = Waiting \ {b} /\ sending' = sending \cup {b}
                          /\ batch' = [batch EXCEPT ![b].attempts = @ + 1, ![b].epochAtStart = failureEpoch]
    BY <1>8, LaunchMoves DEF Waiting
  <2>2. seqCounter' = seqCounter
    BY <1>8 DEF Launch
  <2>3. CASE c = b
    <3>1. batch'[c].org = batch[c].org /\ batch'[c].bytes = batch[c].bytes
      BY <1>1, <2>1, <2>3 DEF BatchType
    <3>2. ~(c > seqCounter)
      BY <1>1, <1>4, <2>1, <2>3
    <3> QED
      BY <1>2, <2>1, <2>2, <2>3, <3>1, <3>2
  <2>4. CASE c # b
    <3>1. batch'[c] = batch[c]
      BY <1>1, <2>1, <2>4
    <3> QED
      BY <1>2, <2>1, <2>2, <2>4, <3>1
  <2> QED
    BY <2>3, <2>4
<1>9. ASSUME NEW b \in Seqs, SendRetries(b) PROVE Fits(c, Waiting', sending', batch', seqCounter')
  <2>1. b \in sending /\ Waiting' = Waiting \cup {b}
    BY <1>9, RetryMoves DEF Waiting
  <2>2. /\ seqCounter' = seqCounter /\ sending' = sending \ {b} /\ batch[b].attempts < MaxAttempts
        /\ batch' = [batch EXCEPT ![b].ready = FALSE]
    BY <1>9 DEF SendRetries, SendFailed
  <2>3. batch'[c].org = batch[c].org /\ batch'[c].bytes = batch[c].bytes /\ batch'[c].attempts = batch[c].attempts
    BY <1>1, <2>2 DEF BatchType
  <2>4. batch[b].attempts <= MaxAttempts
    <3>1. batch[b].attempts \in Nat
      BY <1>1, RecordFacts
    <3> QED
      BY <1>1, <2>2, <3>1
  <2> QED
    BY <1>2, <2>1, <2>2, <2>3, <2>4
<1>10. ASSUME NEW b \in Seqs, BackoffEnds(b) PROVE Fits(c, Waiting', sending', batch', seqCounter')
  <2>1. /\ queue' = queue /\ seqCounter' = seqCounter /\ sending' = sending /\ batch' = [batch EXCEPT ![b].ready = TRUE]
    BY <1>10 DEF BackoffEnds
  <2>2. batch'[c].org = batch[c].org /\ batch'[c].bytes = batch[c].bytes /\ batch'[c].attempts = batch[c].attempts
    BY <1>1, <2>1 DEF BatchType
  <2> QED
    BY <1>2, <2>1, <2>2 DEF Waiting
<1>11. CASE batch' = batch /\ queue' = queue /\ sending' \subseteq sending /\ seqCounter' = seqCounter
  BY <1>2, <1>11 DEF Waiting
<1>12. CASE BoundsHold \/ PumpEnds \/ WakeTimerFires \/ Finally \/ CloseForwarder
            \/ \E b \in Seqs : SendSucceeds(b) \/ SendRejected(b) \/ SendGivesUp(b)
  <2>1. batch' = batch /\ queue' = queue /\ sending' \subseteq sending /\ seqCounter' = seqCounter
    BY <1>12 DEF BoundsHold, PumpEnds, WakeTimerFires, Finally, CloseForwarder, SendSucceeds, SendRejected,
       SendGivesUp, SendFailed
  <2> QED
    BY <1>11, <2>1
<1> HIDE DEF Fits
<1> QED
  BY <1>5, <1>6, <1>7, <1>8, <1>9, <1>10, <1>12 DEF ForwarderNext, ForwarderRuns, Loop, Settles

Overflowed(f) == {b \in Seqs : "sink_overflow" \in f[b]}

(* There are finitely many batches. *)
LEMMA SeqsFinite == IsFiniteSet(Seqs) /\ \A S \in SUBSET Seqs : IsFiniteSet(S) /\ Cardinality(S) \in Nat
<1>1. IsFiniteSet(Seqs)
  BY ForwarderConstants, FS_Interval DEF Seqs
<1> QED
  BY <1>1, FS_Subset, FS_CardinalityType

(* A set with one batch more, or one less. *)
LEMMA CountsOneMore ==
    ASSUME NEW S \in SUBSET Seqs, NEW b \in Seqs
    PROVE  /\ b \notin S => Cardinality(S \cup {b}) = Cardinality(S) + 1
           /\ b \in S => Cardinality(S \ {b}) = Cardinality(S) - 1
  BY SeqsFinite, FS_AddElement, FS_RemoveElement

(* Every step counts what it moves: deliveries, drops, batches in flight. *)
LEMMA CountStep ==
    ASSUME ForwarderTypeOK, PlacesInv, BytesInv, CountersAddUp, ForwarderNext
    PROVE  CountersAddUp'
<1> DEFINE b1 == seqCounter + 1
           S == Cardinality(sending)
           V == Cardinality(Overflowed(fate))
<1>1. /\ seqCounter \in Nat /\ delivered \in Nat /\ droppedOverflow \in Nat /\ droppedPermanent \in Nat
      /\ returning \in Nat /\ inFlight \in Int /\ Len(queue) \in Nat /\ fate \in [Seqs -> SUBSET Fates]
      /\ sending \in SUBSET Seqs /\ Overflowed(fate) \in SUBSET Seqs /\ queue \in Seq(Seqs)
  BY ForwarderConstants DEF ForwarderTypeOK, Overflowed, Fates
<1>2. S \in Nat /\ V \in Nat
  BY <1>1, SeqsFinite
<1>3. /\ seqCounter = Len(queue) + S + delivered + droppedOverflow + droppedPermanent
      /\ droppedOverflow = V /\ inFlight = S + returning
  BY DEF CountersAddUp, Overflowed
<1>4. SUFFICES /\ seqCounter' = Len(queue') + Cardinality(sending') + delivered' + droppedOverflow' + droppedPermanent'
               /\ droppedOverflow' = Cardinality(Overflowed(fate')) /\ inFlight' = Cardinality(sending') + returning'
  BY DEF CountersAddUp, Overflowed
<1> HIDE DEF S, V
<1> DEFINE Goal == /\ seqCounter' = Len(queue') + Cardinality(sending') + delivered' + droppedOverflow' + droppedPermanent'
                   /\ droppedOverflow' = Cardinality(Overflowed(fate')) /\ inFlight' = Cardinality(sending') + returning'
<1>5. ASSUME NEW b \in Seqs, fate[b] = {}, fate' = [fate EXCEPT ![b] = @ \cup {"sink_overflow"}]
      PROVE  Cardinality(Overflowed(fate')) = V + 1
  <2>1. Overflowed(fate') = Overflowed(fate) \cup {b} /\ b \notin Overflowed(fate)
    BY <1>1, <1>5 DEF Overflowed
  <2> QED
    BY <1>1, <2>1, CountsOneMore DEF V
<1>6. ASSUME NEW b \in Seqs, NEW x \in Fates \ {"sink_overflow"}, fate' = [fate EXCEPT ![b] = @ \cup {x}]
      PROVE  Cardinality(Overflowed(fate')) = V
  <2>1. Overflowed(fate') = Overflowed(fate)
    BY <1>1, <1>6 DEF Overflowed
  <2> QED
    BY <2>1 DEF V
<1>7. ASSUME NEW o \in Org, NEW n \in Size, Enqueue(o, n) PROVE Goal
  <2>1. Len(queue') = Len(queue) + 1
    BY <1>7, EnqueueMoves
  <2>2. /\ seqCounter' = seqCounter + 1 /\ sending' = sending /\ fate' = fate /\ delivered' = delivered
        /\ droppedOverflow' = droppedOverflow /\ droppedPermanent' = droppedPermanent
        /\ inFlight' = inFlight /\ returning' = returning
    BY <1>7 DEF Enqueue, counters
  <2> QED
    BY SMTT(40), <1>1, <1>2, <1>3, <2>1, <2>2 DEF S, V
<1>8. ASSUME NEW o \in Org, NEW n \in Size, EnqueueOversized(o, n) PROVE Goal
  <2>1. /\ b1 \in Seqs /\ seqCounter' = seqCounter + 1 /\ sending' = sending /\ queue' = queue
        /\ delivered' = delivered
        /\ droppedOverflow' = droppedOverflow + 1 /\ droppedPermanent' = droppedPermanent
        /\ inFlight' = inFlight /\ returning' = returning
        /\ fate' = [fate EXCEPT ![b1] = @ \cup {"sink_overflow"}]
    BY <1>8 DEF EnqueueOversized, NoteDrop
  <2>2. fate[b1] = {}
    <3>1. b1 > seqCounter
      BY <1>1
    <3> QED
      BY <2>1, <3>1 DEF PlacesInv, Placed
  <2>3. Cardinality(Overflowed(fate')) = V + 1
    BY <1>5, <2>1, <2>2
  <2> QED
    BY SMTT(40), <1>1, <1>2, <1>3, <2>1, <2>3 DEF S
<1>9. ASSUME Evict PROVE Goal
  <2>1. PICK b \in Seqs : b \in Waiting /\ NoteDrop(b, "sink_overflow") /\ Len(queue') = Len(queue) - 1
    BY <1>9, EvictMoves
  <2>2. /\ seqCounter' = seqCounter /\ sending' = sending /\ delivered' = delivered
        /\ droppedOverflow' = droppedOverflow + 1 /\ droppedPermanent' = droppedPermanent
        /\ inFlight' = inFlight /\ returning' = returning
    BY <1>9 DEF Evict
  <2>3. fate[b] = {} /\ fate' = [fate EXCEPT ![b] = @ \cup {"sink_overflow"}]
    BY <2>1 DEF PlacesInv, Placed, NoteDrop
  <2>4. Cardinality(Overflowed(fate')) = V + 1
    BY <1>5, <2>3
  <2>5. inFlight' = Cardinality(sending') + returning'
    BY <1>3, <2>2 DEF S
  <2>6. Cardinality(sending') = S
    BY <2>2 DEF S
  <2> QED
    BY <1>1, <1>2, <1>3, <2>1, <2>2, <2>4, <2>5, <2>6
<1>10. ASSUME Launch PROVE Goal
  <2>1. PICK b \in Seqs : b \in Waiting /\ sending' = sending \cup {b} /\ Len(queue') = Len(queue) - 1
    BY <1>10, LaunchMoves
  <2>2. /\ seqCounter' = seqCounter /\ delivered' = delivered /\ fate' = fate
        /\ droppedOverflow' = droppedOverflow /\ droppedPermanent' = droppedPermanent
        /\ inFlight' = inFlight + 1 /\ returning' = returning
    BY <1>10 DEF Launch, counters
  <2>3. Cardinality(sending') = S + 1
    <3>1. b \notin sending
      BY <2>1 DEF PlacesInv, Placed
    <3> QED
      BY <1>1, <2>1, <3>1, CountsOneMore DEF S
  <2> QED
    BY <1>1, <1>2, <1>3, <2>1, <2>2, <2>3 DEF V
<1>11. ASSUME NEW b \in sending, sending' = sending \ {b} PROVE Cardinality(sending') = S - 1
  BY <1>1, <1>11, CountsOneMore DEF S
<1>12. ASSUME NEW b \in Seqs, SendRetries(b) PROVE Goal
  <2>1. b \in sending /\ Len(queue') = Len(queue) + 1
    BY <1>12, RetryMoves
  <2>2. /\ seqCounter' = seqCounter /\ delivered' = delivered /\ fate' = fate /\ sending' = sending \ {b}
        /\ droppedOverflow' = droppedOverflow /\ droppedPermanent' = droppedPermanent
        /\ inFlight' = inFlight /\ returning' = returning + 1
    BY <1>12 DEF SendRetries, SendFailed
  <2>3. Cardinality(sending') = S - 1
    BY <1>11, <2>1, <2>2
  <2> QED
    BY <1>1, <1>2, <1>3, <2>1, <2>2, <2>3 DEF V
<1>13. ASSUME NEW b \in Seqs, SendSucceeds(b) \/ SendRejected(b) \/ SendGivesUp(b) PROVE Goal
  <2>1. /\ b \in sending /\ sending' = sending \ {b} /\ queue' = queue /\ seqCounter' = seqCounter
        /\ inFlight' = inFlight /\ returning' = returning + 1 /\ droppedOverflow' = droppedOverflow
        /\ \/ delivered' = delivered + 1 /\ droppedPermanent' = droppedPermanent
           \/ delivered' = delivered /\ droppedPermanent' = droppedPermanent + 1
    BY <1>13 DEF SendSucceeds, SendRejected, SendGivesUp, SendFailed
  <2>2. \E x \in Fates \ {"sink_overflow"} : fate' = [fate EXCEPT ![b] = @ \cup {x}]
    <3>1. {"delivered", "sink_rejected", "sink_gave_up"} \subseteq Fates \ {"sink_overflow"}
      BY DEF Fates, Dropped
    <3> QED
      BY <1>13, <3>1 DEF SendSucceeds, SendRejected, SendGivesUp, NoteDrop
  <2>3. Cardinality(sending') = S - 1
    BY <1>11, <2>1
  <2>4. Cardinality(Overflowed(fate')) = V
    BY <1>6, <2>2
  <2> QED
    BY <1>1, <1>2, <1>3, <2>1, <2>3, <2>4
<1>14. ASSUME Finally PROVE Goal
  <2>1. /\ seqCounter' = seqCounter /\ sending' = sending /\ queue' = queue /\ delivered' = delivered
        /\ droppedOverflow' = droppedOverflow /\ droppedPermanent' = droppedPermanent /\ fate' = fate
        /\ inFlight' = inFlight - 1 /\ returning' = returning - 1
    BY <1>14 DEF Finally, counters
  <2> QED
    BY <1>1, <1>2, <1>3, <2>1 DEF S, V
<1>15. CASE BoundsHold \/ PumpEnds \/ WakeTimerFires \/ CloseForwarder \/ \E b \in Seqs : BackoffEnds(b)
  <2>1. /\ seqCounter' = seqCounter /\ sending' = sending /\ queue' = queue /\ delivered' = delivered
        /\ droppedOverflow' = droppedOverflow /\ droppedPermanent' = droppedPermanent /\ fate' = fate
        /\ inFlight' = inFlight /\ returning' = returning
    BY <1>15 DEF BoundsHold, PumpEnds, WakeTimerFires, CloseForwarder, BackoffEnds, counters
  <2> QED
    BY <1>1, <1>2, <1>3, <2>1 DEF S, V
<1> QED
  BY <1>7, <1>8, <1>9, <1>10, <1>12, <1>13, <1>14, <1>15 DEF ForwarderNext, ForwarderRuns, Loop, Settles

-----------------------------------------------------------------------------
(* The byte counts: a batch adds its bytes when it joins the queue and takes *)
(* them with it when it leaves.                                              *)
LEMMA BytesAdded ==
    ASSUME NEW bs \in [Seqs -> BatchType], NEW q, NEW r, NEW b \in Seqs, GrowsBy(q, r, b),
           NEW total, NEW byOrg, bs[b].org \in Org,
           Total(q, Weights(bs, Org), total), \A o \in Org : Total(q, Weights(bs, {o}), byOrg[o]),
           byOrg \in [Org -> Nat]
    PROVE  /\ Total(r, Weights(bs, Org), total + bs[b].bytes)
           /\ \A o \in Org : Total(r, Weights(bs, {o}), [byOrg EXCEPT ![bs[b].org] = @ + bs[b].bytes][o])
<1>1. Weights(bs, Org)[b] = bs[b].bytes /\ Weights(bs, Org) \in [Seqs -> Int]
  BY WeightsFacts
<1>2. ASSUME NEW o \in Org
      PROVE  Total(r, Weights(bs, {o}), [byOrg EXCEPT ![bs[b].org] = @ + bs[b].bytes][o])
  <2>1. /\ Weights(bs, {o})[b] = (IF bs[b].org = o THEN bs[b].bytes ELSE 0)
        /\ Weights(bs, {o}) \in [Seqs -> Int]
    BY WeightsFacts
  <2>2. Total(r, Weights(bs, {o}), byOrg[o] + Weights(bs, {o})[b])
    BY <2>1 DEF GrowsBy
  <2> QED
    BY <2>1, <2>2
<1> QED
  BY <1>1, <1>2 DEF GrowsBy

(* A batch takes its bytes with it from the total and from its org. *)
LEMMA BytesTaken ==
    ASSUME NEW bs \in [Seqs -> BatchType], NEW q \in Seq(Seqs), NEW r, NEW b \in ToSet(q), ShrinksBy(q, r, b),
           NEW total, NEW byOrg, bs[b].org \in Org,
           Total(q, Weights(bs, Org), total), \A o \in Org : Total(q, Weights(bs, {o}), byOrg[o]),
           byOrg \in [Org -> Nat]
    PROVE  LET left == byOrg[bs[b].org] - bs[b].bytes IN
           /\ Total(r, Weights(bs, Org), total - bs[b].bytes)
           /\ \A o \in Org : Total(r, Weights(bs, {o}),
                                   [byOrg EXCEPT ![bs[b].org] = IF left > 0 THEN left ELSE 0][o])
<1> DEFINE left == byOrg[bs[b].org] - bs[b].bytes
           most == IF left > 0 THEN left ELSE 0
<1>1. b \in Seqs
  BY ToSetFacts
<1>2. Weights(bs, Org)[b] = bs[b].bytes /\ Weights(bs, Org) \in [Seqs -> Int]
  BY <1>1, WeightsFacts
<1>3. most = left
  <2>1. PICK i \in 1..Len(q) : q[i] = b
    BY ToSetFacts
  <2>2. /\ Weights(bs, {bs[b].org})[b] = bs[b].bytes /\ Weights(bs, {bs[b].org}) \in [Seqs -> Nat]
    BY <1>1, WeightsFacts
  <2>3. bs[b].bytes <= byOrg[bs[b].org]
    BY <2>1, <2>2, TotalOfNaturals
  <2>4. bs[b].bytes \in Nat /\ byOrg[bs[b].org] \in Nat
    BY <1>1, <2>2
  <2> QED
    BY <2>3, <2>4
<1> HIDE DEF most
<1>4. ASSUME NEW o \in Org PROVE Total(r, Weights(bs, {o}), [byOrg EXCEPT ![bs[b].org] = most][o])
  <2>1. /\ Weights(bs, {o})[b] = (IF bs[b].org = o THEN bs[b].bytes ELSE 0)
        /\ Weights(bs, {o}) \in [Seqs -> Int]
    BY <1>1, WeightsFacts
  <2>2. Total(r, Weights(bs, {o}), byOrg[o] - Weights(bs, {o})[b])
    BY <2>1 DEF ShrinksBy
  <2> QED
    BY <1>3, <2>1, <2>2
<1> QED
  BY <1>2, <1>4 DEF ShrinksBy, most

(* Every step keeps the byte counts the sums over the queue. *)
LEMMA BytesStep ==
    ASSUME ForwarderTypeOK, PlacesInv, BytesInv, AdmittedInv, ForwarderNext
    PROVE  BytesInv' /\ queuedBytes' \in Nat /\ orgBytes' \in [Org -> Nat] /\ queue' \in Seq(Seqs)
<1>1. /\ seqCounter \in Nat /\ batch \in [Seqs -> BatchType] /\ batch' \in [Seqs -> BatchType]
      /\ queue \in Seq(Seqs) /\ orgBytes \in [Org -> Nat] /\ queuedBytes \in Nat
  BY BatchStep DEF ForwarderTypeOK
<1>2. \A b \in Seqs : b \in Waiting \cup sending => batch[b].org \in Org /\ batch'[b].org = batch[b].org /\ batch'[b].bytes = batch[b].bytes
  BY BatchStep DEF PlacesInv, Placed, AdmittedInv
<1>3. ASSUME NEW orgs, NEW n, Total(queue, Weights(batch, orgs), n)
      PROVE  Total(queue, Weights(batch', orgs), n)
  <2>1. \A b \in ToSet(queue) : b \in Seqs /\ batch'[b].org = batch[b].org /\ batch'[b].bytes = batch[b].bytes
    BY <1>1, <1>2, ToSetFacts DEF Waiting
  <2> QED
    BY <1>1, <1>3, <2>1, SameWeights
<1>4. /\ Total(queue, Weights(batch', Org), queuedBytes)
      /\ \A o \in Org : Total(queue, Weights(batch', {o}), orgBytes[o])
  BY <1>3 DEF BytesInv
<1> DEFINE Goal == /\ Total(queue', Weights(batch', Org), queuedBytes')
                   /\ \A o \in Org : Total(queue', Weights(batch', {o}), orgBytes'[o])
                   /\ queue' \in Seq(Seqs) /\ queuedBytes' \in Int /\ DOMAIN orgBytes' = Org
                   /\ orgBytes' = [o \in Org |-> orgBytes'[o]]
<1>5. ASSUME Goal PROVE BytesInv' /\ queuedBytes' \in Nat /\ orgBytes' \in [Org -> Nat] /\ queue' \in Seq(Seqs)
  <2>1. \A orgs : Weights(batch', orgs) \in [Seqs -> Nat]
    BY <1>1, WeightsFacts
  <2>2. queuedBytes' \in Nat
    BY <1>5, <2>1, TotalOfNaturals
  <2>3. \A o \in Org : orgBytes'[o] \in Nat
    BY <1>5, <2>1, TotalOfNaturals
  <2> QED
    BY <1>5, <2>2, <2>3 DEF BytesInv
<1>6. ASSUME NEW b \in Seqs, GrowsBy(queue, queue', b), queue' \in Seq(Seqs), batch'[b].org \in Org,
             Track(b, batch'[b].org, batch'[b].bytes)
      PROVE  Goal
  <2>1. /\ queuedBytes' = queuedBytes + batch'[b].bytes
        /\ orgBytes' = [orgBytes EXCEPT ![batch'[b].org] = @ + batch'[b].bytes]
    BY <1>6 DEF Track
  <2>2. /\ Total(queue', Weights(batch', Org), queuedBytes + batch'[b].bytes)
        /\ \A o \in Org : Total(queue', Weights(batch', {o}), [orgBytes EXCEPT ![batch'[b].org] = @ + batch'[b].bytes][o])
    BY <1>1, <1>4, <1>6, BytesAdded
  <2>3. queuedBytes' \in Int
    <3>1. batch'[b].bytes = Weights(batch', Org)[b] /\ Weights(batch', Org)[b] \in Nat
      BY <1>1, <1>6, WeightsFacts
    <3> QED
      BY <1>1, <2>1, <3>1
  <2>4. DOMAIN orgBytes' = Org /\ orgBytes' = [o \in Org |-> orgBytes'[o]]
    BY <1>1, <2>1
  <2> QED
    BY <1>6, <2>1, <2>2, <2>3, <2>4
<1>7. ASSUME NEW b \in Seqs, b \in Waiting, ShrinksBy(queue, queue', b), queue' \in Seq(Seqs), Untrack(b)
      PROVE  Goal
  <2> DEFINE left == orgBytes[batch'[b].org] - batch'[b].bytes
             most == IF left > 0 THEN left ELSE 0
  <2>1. batch'[b].org \in Org /\ batch'[b].org = batch[b].org /\ batch'[b].bytes = batch[b].bytes
    BY <1>2, <1>7
  <2>2. queuedBytes' = queuedBytes - batch'[b].bytes /\ orgBytes' = [orgBytes EXCEPT ![batch'[b].org] = most]
    BY <1>7, <2>1 DEF Untrack
  <2>3. /\ Total(queue', Weights(batch', Org), queuedBytes - batch'[b].bytes)
        /\ \A o \in Org : Total(queue', Weights(batch', {o}), [orgBytes EXCEPT ![batch'[b].org] = most][o])
    BY <1>1, <1>4, <1>7, <2>1, BytesTaken DEF Waiting
  <2>4. queuedBytes' \in Int
    <3>1. batch'[b].bytes = Weights(batch', Org)[b] /\ Weights(batch', Org)[b] \in Nat
      BY <1>1, <2>1, WeightsFacts
    <3> QED
      BY <1>1, <2>2, <3>1
  <2> HIDE DEF most
  <2>5. DOMAIN orgBytes' = Org /\ orgBytes' = [o \in Org |-> orgBytes'[o]]
    BY <1>1, <2>2
  <2> QED
    BY <1>7, <2>2, <2>3, <2>4, <2>5
<1>8. ASSUME queue' = queue, queuedBytes' = queuedBytes, orgBytes' = orgBytes PROVE Goal
  BY <1>1, <1>4, <1>8
<1> HIDE DEF Goal
<1>9. ASSUME NEW o \in Org, NEW n \in Size, Enqueue(o, n) PROVE Goal
  <2>1. /\ seqCounter + 1 \in Seqs /\ queue' \in Seq(Seqs) /\ GrowsBy(queue, queue', seqCounter + 1)
    BY <1>9, EnqueueMoves
  <2>2. /\ Track(seqCounter + 1, o, n)
        /\ batch' = [batch EXCEPT ![seqCounter + 1] = [@ EXCEPT !.org = o, !.bytes = n]]
    BY <1>9 DEF Enqueue
  <2>3. batch'[seqCounter + 1].org = o /\ batch'[seqCounter + 1].bytes = n
    BY <1>1, <2>1, <2>2 DEF BatchType
  <2> QED
    BY <1>6, <2>1, <2>2, <2>3
<1>10. ASSUME NEW b \in Seqs, SendRetries(b) PROVE Goal
  <2>1. b \in sending /\ queue' \in Seq(Seqs) /\ GrowsBy(queue, queue', b)
    BY <1>10, RetryMoves
  <2>2. Track(b, batch[b].org, batch[b].bytes)
    BY <1>10 DEF SendRetries
  <2> QED
    BY <1>2, <1>6, <2>1, <2>2
<1>11. ASSUME Evict PROVE Goal
  BY <1>7, <1>11, EvictMoves
<1>12. ASSUME Launch PROVE Goal
  BY <1>7, <1>12, LaunchMoves
<1>13. ASSUME \/ BoundsHold \/ PumpEnds \/ WakeTimerFires \/ Finally \/ CloseForwarder
              \/ \E b \in Seqs : BackoffEnds(b) \/ SendSucceeds(b) \/ SendRejected(b) \/ SendGivesUp(b)
       PROVE  Goal
  BY <1>8, <1>13 DEF BoundsHold, PumpEnds, WakeTimerFires, Finally, CloseForwarder, BackoffEnds, SendSucceeds, SendRejected,
       SendGivesUp, SendFailed, accounting
<1>14. ASSUME NEW o \in Org, NEW n \in Size, EnqueueOversized(o, n) PROVE Goal
  BY <1>8, <1>14 DEF EnqueueOversized, accounting
<1>15. Goal
  BY <1>9, <1>10, <1>11, <1>12, <1>13, <1>14 DEF ForwarderNext, ForwarderRuns, Loop, Settles
<1> QED
  BY <1>5, <1>15

-----------------------------------------------------------------------------
(* Every step that leaves the queue over its bound leaves an eviction to    *)
(* do.                                                                      *)
LEMMA BoundsStep ==
    ASSUME ForwarderTypeOK, PlacesInv, BytesInv, AdmittedInv, BoundsInv, ForwarderNext
    PROVE  BoundsInv'
<1>1. /\ MaxBatches \in Nat /\ MaxBytes \in Nat /\ Len(queue) \in Nat /\ queuedBytes \in Nat
      /\ queue \in Seq(Seqs) /\ batch \in [Seqs -> BatchType]
  BY ForwarderConstants DEF ForwarderTypeOK
<1>2. ASSUME BoundsHold PROVE BoundsInv'
  <2>1. /\ queue' = queue /\ queuedBytes' = queuedBytes
        /\ Len(queue) <= MaxBatches /\ (queuedBytes <= MaxBytes \/ Len(queue) <= 1)
    BY <1>1, <1>2 DEF BoundsHold, OverBounds, accounting
  <2>2. ASSUME Len(queue) <= 1 PROVE queuedBytes <= MaxBytes
    <3>1. Total(queue, Weights(batch, Org), queuedBytes) /\ Weights(batch, Org) \in [Seqs -> Int]
      BY <1>1, WeightsFacts DEF BytesInv
    <3>2. CASE Len(queue) = 0
      <4>1. queuedBytes = 0
        <5>1. queue = <<>>
          BY <1>1, <3>2, EmptySeq
        <5>2. Total(<<>>, Weights(batch, Org), queuedBytes)
          BY <3>1, <5>1
        <5> QED
          BY <5>2, TotalOfNone
      <4> QED
        BY <1>1, <4>1
    <3>3. CASE Len(queue) = 1
      <4>1. queuedBytes = Weights(batch, Org)[queue[1]]
        BY <1>1, <3>1, <3>3, TotalOfFew
      <4>2. queue[1] \in Seqs /\ queue[1] \in Waiting
        BY <1>1, <3>3, ToSetFacts DEF Waiting
      <4>3. batch[queue[1]].org \in Org /\ batch[queue[1]].bytes <= MaxBytes
        BY <4>2 DEF AdmittedInv
      <4>4. Weights(batch, Org)[queue[1]] = batch[queue[1]].bytes
        BY <1>1, <4>2, <4>3, WeightsFacts
      <4> QED
        BY <4>1, <4>3, <4>4
    <3>4. \A n \in Nat : n <= 1 => n = 0 \/ n = 1
      OBVIOUS
    <3>5. Len(queue) = 0 \/ Len(queue) = 1
      BY <1>1, <2>2, <3>4, Zenon
    <3> QED
      BY <3>2, <3>3, <3>5, Zenon
  <2> QED
    BY <2>1, <2>2 DEF BoundsInv
<1>3. ASSUME Launch PROVE BoundsInv'
  <2>1. PICK b \in Seqs : b \in Waiting /\ Untrack(b) /\ Len(queue') = Len(queue) - 1
    BY <1>3, LaunchMoves
  <2>2. task = "pump" /\ Len(queue) <= MaxBatches /\ queuedBytes <= MaxBytes
    BY <1>3 DEF Launch, BoundsInv
  <2>3. queuedBytes' = queuedBytes - batch[b].bytes /\ batch[b].bytes \in Nat
    <3>1. Weights(batch, Org)[b] = batch[b].bytes /\ Weights(batch, Org) \in [Seqs -> Nat]
      BY <1>1, <2>1, WeightsFacts DEF AdmittedInv
    <3> QED
      BY <2>1, <3>1 DEF Untrack
  <2> QED
    BY <1>1, <2>1, <2>2, <2>3 DEF BoundsInv
<1>4. ASSUME task' \notin {"none", "pump"} PROVE BoundsInv'
  BY <1>4 DEF BoundsInv
<1>5. ASSUME task \in {"none", "pump"}, queue' = queue, queuedBytes' = queuedBytes PROVE BoundsInv'
  BY <1>5 DEF BoundsInv
<1>6. ASSUME NEW o \in Org, NEW n \in Size, Enqueue(o, n) \/ EnqueueOversized(o, n) PROVE BoundsInv'
  BY <1>4, <1>5, <1>6 DEF Enqueue, EnqueueOversized, accounting
<1>7. ASSUME PumpEnds \/ WakeTimerFires \/ Finally \/ CloseForwarder PROVE BoundsInv'
  BY <1>5, <1>7 DEF PumpEnds, WakeTimerFires, Finally, CloseForwarder, accounting
<1>8. ASSUME Evict PROVE BoundsInv'
  BY <1>4, <1>8 DEF Evict
<1>9. ASSUME NEW b \in Seqs, BackoffEnds(b) \/ Settles(b) PROVE BoundsInv'
  <2>1. CASE SendRetries(b)
    BY <1>4, <2>1 DEF SendRetries
  <2>2. CASE BackoffEnds(b) \/ SendSucceeds(b) \/ SendRejected(b) \/ SendGivesUp(b)
    BY <1>5, <2>2 DEF BackoffEnds, SendSucceeds, SendRejected, SendGivesUp, SendFailed, accounting
  <2> QED
    BY <1>9, <2>1, <2>2 DEF Settles
<1> QED
  BY <1>2, <1>3, <1>6, <1>7, <1>8, <1>9 DEF ForwarderNext, ForwarderRuns, Loop

(* Every step keeps the failure state and its one probe in order. *)
LEMMA HealthStep ==
    ASSUME ForwarderTypeOK, PlacesInv, BytesInv, AdmittedInv, CountersAddUp, HealthInv, ForwarderNext
    PROVE  HealthInv'
<1>1. /\ failures \in Nat /\ failureEpoch \in Nat /\ batch \in [Seqs -> BatchType] /\ sending \in SUBSET Seqs
      /\ returning \in Nat
  BY DEF ForwarderTypeOK
<1>2. \A b \in sending : batch[b].epochAtStart \in Nat
  BY <1>1, RecordFacts
<1>3. \A b \in sending : /\ batch[b].epochAtStart <= failureEpoch
                         /\ batch[b].epochAtStart = failureEpoch => b \notin overlapped
  BY DEF HealthInv
<1>4. ASSUME \A b \in sending' : b \in sending /\ batch'[b].epochAtStart = batch[b].epochAtStart,
             failureEpoch' = failureEpoch, overlapped' = overlapped, failures' \in {failures, 0}
      PROVE  HealthInv'
  BY <1>3, <1>4 DEF HealthInv
<1>5. ASSUME Launch PROVE HealthInv'
  <2>1. PICK b \in Seqs : /\ b \in Waiting /\ sending' = sending \cup {b} /\ overlapped' = overlapped \ {b}
                          /\ batch' = [batch EXCEPT ![b].attempts = @ + 1, ![b].epochAtStart = failureEpoch]
    BY <1>5, LaunchMoves
  <2>2. failures' = failures /\ failureEpoch' = failureEpoch /\ inFlight < CurrentLimit
    BY <1>5 DEF Launch
  <2>3. batch'[b].epochAtStart = failureEpoch /\ \A c \in Seqs : c # b => batch'[c] = batch[c]
    BY <1>1, <2>1 DEF BatchType
  <2>4. ASSUME failures > 0 PROVE sending = {}
    <3>1. inFlight = Cardinality(sending) + returning /\ inFlight < 1 /\ inFlight \in Int
      BY <1>1, <2>2, <2>4, SeqsFinite DEF CurrentLimit, CountersAddUp
    <3>2. Cardinality(sending) = 0 /\ IsFiniteSet(sending)
      BY <1>1, <3>1, SeqsFinite
    <3> QED
      BY <3>2, FS_EmptySet
  <2>5. ASSUME NEW c \in sending'
        PROVE  /\ batch'[c].epochAtStart <= failureEpoch'
               /\ batch'[c].epochAtStart = failureEpoch' => c \notin overlapped'
    <3>1. CASE c = b
      BY <1>1, <2>1, <2>2, <2>3, <3>1
    <3>2. CASE c # b
      BY <1>1, <1>3, <2>1, <2>2, <2>3, <2>5, <3>2
    <3> QED
      BY <3>1, <3>2
  <2>6. failures' > 0 => \A c, d \in sending' \ overlapped' : c = d
    BY <2>1, <2>2, <2>4
  <2> QED
    BY <2>5, <2>6 DEF HealthInv
<1>6. ASSUME NEW b \in Seqs, SendFailed(b), \A c \in Seqs : batch'[c].epochAtStart = batch[c].epochAtStart
      PROVE  HealthInv'
  <2>1. sending' = sending \ {b} /\ failureEpoch' = failureEpoch + 1 /\ overlapped' = overlapped \cup sending'
    BY <1>6 DEF SendFailed
  <2>2. ASSUME NEW c \in sending'
        PROVE  /\ batch'[c].epochAtStart <= failureEpoch'
               /\ batch'[c].epochAtStart = failureEpoch' => c \notin overlapped'
    <3>1. c \in sending /\ batch'[c].epochAtStart = batch[c].epochAtStart
      BY <1>1, <1>6, <2>1, <2>2
    <3> QED
      BY <1>1, <1>2, <1>3, <2>1, <3>1
  <2> QED
    BY <2>1, <2>2 DEF HealthInv
<1>7. ASSUME NEW b \in Seqs, SendRejected(b) \/ SendGivesUp(b) \/ SendRetries(b) PROVE HealthInv'
  <2>1. SendFailed(b)
    BY <1>7 DEF SendRejected, SendGivesUp, SendRetries
  <2>2. \A c \in Seqs : batch'[c].epochAtStart = batch[c].epochAtStart
    <3>1. CASE SendRetries(b)
      BY <1>1, <3>1 DEF SendRetries, BatchType
    <3>2. CASE SendRejected(b) \/ SendGivesUp(b)
      BY <3>2 DEF SendRejected, SendGivesUp
    <3> QED
      BY <1>7, <3>1, <3>2
  <2> QED
    BY <1>6, <2>1, <2>2
<1>8. ASSUME NEW b \in Seqs, BackoffEnds(b) PROVE HealthInv'
  <2>1. \A c \in Seqs : batch'[c].epochAtStart = batch[c].epochAtStart
    BY <1>1, <1>8 DEF BackoffEnds, BatchType
  <2>2. sending' = sending /\ failureEpoch' = failureEpoch /\ overlapped' = overlapped /\ failures' = failures
    BY <1>8 DEF BackoffEnds, health
  <2> QED
    BY <1>1, <1>4, <2>1, <2>2
<1>9. ASSUME NEW b \in Seqs, SendSucceeds(b) PROVE HealthInv'
  <2>1. sending' \subseteq sending /\ batch' = batch /\ failureEpoch' = failureEpoch /\ overlapped' = overlapped
        /\ failures' \in {failures, 0}
    BY <1>9 DEF SendSucceeds, FailuresAfterSuccess
  <2> QED
    BY <1>4, <2>1
<1>10. ASSUME NEW o \in Org, NEW n \in Size, Enqueue(o, n) \/ EnqueueOversized(o, n) PROVE HealthInv'
  <2>1. /\ sending' = sending /\ failureEpoch' = failureEpoch /\ overlapped' = overlapped /\ failures' = failures
        /\ batch' = [batch EXCEPT ![seqCounter + 1] = [@ EXCEPT !.org = o, !.bytes = n]]
    BY <1>10 DEF Enqueue, EnqueueOversized, health
  <2>2. \A c \in Seqs : batch'[c].epochAtStart = batch[c].epochAtStart
    BY <1>1, <2>1 DEF BatchType
  <2> QED
    BY <1>1, <1>4, <2>1, <2>2
<1>11. ASSUME BoundsHold \/ PumpEnds \/ WakeTimerFires \/ Finally \/ CloseForwarder \/ Evict PROVE HealthInv'
  <2>1. sending' = sending /\ batch' = batch /\ failureEpoch' = failureEpoch /\ overlapped' = overlapped
        /\ failures' = failures
    BY <1>11 DEF BoundsHold, PumpEnds, WakeTimerFires, Finally, CloseForwarder, Evict, health
  <2> QED
    BY <1>4, <2>1
<1> QED
  BY <1>5, <1>7, <1>8, <1>9, <1>10, <1>11 DEF ForwarderNext, ForwarderRuns, Loop, Settles

(* Every step that leaves work waiting leaves something to wake pump(). *)
LEMMA WakeStep ==
    ASSUME ForwarderTypeOK, CountersAddUp, NoLostWakeup, ForwarderNext
    PROVE  NoLostWakeup'
<1>1. /\ returning \in Nat /\ sending \in SUBSET Seqs /\ HealthyConcurrency \in Nat \ {0} /\ inFlight \in Int
      /\ task \in {"none", "admit", "requeue", "pump"} /\ failures \in Nat
  BY ForwarderConstants DEF ForwarderTypeOK
<1>2. CurrentLimit >= 1 /\ CurrentLimit \in Int
  BY <1>1 DEF CurrentLimit
<1>3. ASSUME inFlight >= 1 PROVE sending # {} \/ returning > 0
  <2>1. inFlight = Cardinality(sending) + returning
    BY DEF CountersAddUp
  <2>2. sending = {} => Cardinality(sending) = 0
    BY FS_EmptySet
  <2> QED
    BY <1>1, <1>3, <2>1, <2>2
<1>4. ASSUME BoundsHold \/ PumpEnds PROVE NoLostWakeup'
  <2>1. /\ queue' = queue /\ sending' = sending /\ returning' = returning /\ closed' = closed
        /\ task' = "none" /\ ~closed => armed' = WakeScheduled
    BY <1>4 DEF BoundsHold, PumpEnds
  <2>2. WakeScheduled \/ closed \/ queue = <<>> \/ inFlight >= 1
    BY <1>1, <1>2 DEF WakeScheduled
  <2> QED
    BY <1>3, <2>1, <2>2 DEF NoLostWakeup
<1>5. ASSUME task' # "none" PROVE NoLostWakeup'
  BY <1>5 DEF NoLostWakeup
<1>6. ASSUME task' = task, queue' = queue, armed' = armed, closed' = closed, sending' = sending, returning' = returning
      PROVE  NoLostWakeup'
  BY <1>6 DEF NoLostWakeup
<1>7. ASSUME Launch \/ Evict \/ WakeTimerFires \/ Finally PROVE NoLostWakeup'
  BY <1>5, <1>7 DEF Launch, Evict, WakeTimerFires, Finally
<1>8. ASSUME NEW o \in Org, NEW n \in Size, Enqueue(o, n) \/ EnqueueOversized(o, n) PROVE NoLostWakeup'
  BY <1>5, <1>6, <1>8 DEF Enqueue, EnqueueOversized
<1>9. ASSUME CloseForwarder PROVE NoLostWakeup'
  BY <1>9 DEF CloseForwarder, NoLostWakeup
<1>10. ASSUME NEW b \in Seqs, BackoffEnds(b) PROVE NoLostWakeup'
  BY <1>6, <1>10 DEF BackoffEnds
<1>11. ASSUME NEW b \in Seqs, Settles(b) PROVE NoLostWakeup'
  <2>1. returning' = returning + 1
    BY <1>11 DEF Settles, SendSucceeds, SendRejected, SendGivesUp, SendRetries, SendFailed
  <2>2. returning' > 0
    BY <1>1, <2>1
  <2> QED
    BY <2>2 DEF NoLostWakeup
<1> QED
  BY <1>4, <1>7, <1>8, <1>9, <1>10, <1>11 DEF ForwarderNext, ForwarderRuns, Loop

(* Every step keeps the types. *)
LEMMA TypeStep ==
    ASSUME ForwarderInv, ForwarderNext
    PROVE  ForwarderTypeOK'
<1>1. /\ batch' \in [Seqs -> BatchType] /\ queue' \in Seq(Seqs) /\ queuedBytes' \in Nat /\ orgBytes' \in [Org -> Nat]
  BY BatchStep, BytesStep DEF ForwarderInv
<1>2. /\ sending \subseteq Seqs /\ returning \in Nat /\ inFlight \in 0..HealthyConcurrency
      /\ failures \in Nat /\ failureEpoch \in Nat /\ armed \in BOOLEAN /\ closed \in BOOLEAN
      /\ task \in {"none", "admit", "requeue", "pump"} /\ seqCounter \in 0..MaxSeq
      /\ delivered \in Nat /\ droppedOverflow \in Nat /\ droppedPermanent \in Nat
      /\ fate \in [Seqs -> SUBSET Fates] /\ received \subseteq Seqs /\ overlapped \subseteq Seqs
      /\ MaxSeq \in Nat /\ HealthyConcurrency \in Nat \ {0}
      /\ {"sink_overflow", "sink_rejected", "sink_gave_up", "delivered"} \subseteq Fates
  BY ForwarderConstants DEF ForwarderInv, ForwarderTypeOK, Fates, Dropped
<1>3. seqCounter + 1 \in Seqs => seqCounter + 1 \in 0..MaxSeq
  BY <1>2 DEF Seqs
<1> DEFINE Places2 == sending' \subseteq Seqs /\ received' \subseteq Seqs /\ overlapped' \subseteq Seqs /\ seqCounter' \in 0..MaxSeq
           Counts2 == /\ returning' \in Nat /\ inFlight' \in 0..HealthyConcurrency /\ failures' \in Nat
                      /\ failureEpoch' \in Nat /\ delivered' \in Nat /\ droppedOverflow' \in Nat /\ droppedPermanent' \in Nat
           Flags2 == armed' \in BOOLEAN /\ closed' \in BOOLEAN /\ task' \in {"none", "admit", "requeue", "pump"}
<1>4. WakeScheduled \in BOOLEAN
  BY DEF WakeScheduled
<1>5. fate' \in [Seqs -> SUBSET Fates]
  <2>1. ASSUME NEW b \in Seqs, NEW x \in Fates PROVE [fate EXCEPT ![b] = @ \cup {x}] \in [Seqs -> SUBSET Fates]
    BY <1>2
  <2>2. ASSUME NEW b \in Seqs, Settles(b) PROVE fate' \in [Seqs -> SUBSET Fates]
    BY <1>2, <2>1, <2>2 DEF Settles, SendSucceeds, SendRejected, SendGivesUp, SendRetries, NoteDrop
  <2>3. ASSUME Evict PROVE fate' \in [Seqs -> SUBSET Fates]
    <3>1. PICK b \in Seqs : NoteDrop(b, "sink_overflow")
      BY <2>3, EvictMoves DEF ForwarderInv
    <3> QED
      BY <1>2, <2>1, <3>1 DEF NoteDrop
  <2>4. ASSUME NEW o \in Org, NEW n \in Size, EnqueueOversized(o, n) PROVE fate' \in [Seqs -> SUBSET Fates]
    BY <1>2, <2>1, <2>4 DEF EnqueueOversized, NoteDrop
  <2>5. ASSUME NEW o \in Org, NEW n \in Size, Enqueue(o, n) PROVE fate' \in [Seqs -> SUBSET Fates]
    BY <1>2, <2>5 DEF Enqueue, counters
  <2>6. ASSUME BoundsHold \/ PumpEnds \/ WakeTimerFires \/ CloseForwarder \/ Finally \/ Launch
               \/ \E b \in Seqs : BackoffEnds(b)
        PROVE  fate' \in [Seqs -> SUBSET Fates]
    BY <1>2, <2>6 DEF BoundsHold, PumpEnds, WakeTimerFires, CloseForwarder, Finally, Launch, BackoffEnds, counters
  <2> QED
    BY <2>2, <2>3, <2>4, <2>5, <2>6 DEF ForwarderNext, ForwarderRuns, Loop
<1>6. Places2
  <2>1. ASSUME NEW b \in Seqs, Settles(b) PROVE Places2
    BY <1>2, <2>1 DEF Settles, SendSucceeds, SendRejected, SendGivesUp, SendRetries, SendFailed
  <2>2. ASSUME Launch PROVE Places2
    <3>1. PICK b \in Seqs : sending' = sending \cup {b} /\ overlapped' = overlapped \ {b}
      BY <2>2, LaunchMoves DEF ForwarderInv
    <3> QED
      BY <1>2, <2>2, <3>1 DEF Launch, counters
  <2>3. ASSUME NEW o \in Org, NEW n \in Size, Enqueue(o, n) \/ EnqueueOversized(o, n) PROVE Places2
    BY <1>2, <1>3, <2>3 DEF Enqueue, EnqueueOversized, health, counters
  <2>4. ASSUME BoundsHold \/ PumpEnds \/ WakeTimerFires \/ CloseForwarder \/ Finally \/ Evict
               \/ \E b \in Seqs : BackoffEnds(b)
        PROVE  Places2
    BY <1>2, <2>4 DEF BoundsHold, PumpEnds, WakeTimerFires, CloseForwarder, Finally, Evict, BackoffEnds, counters, health
  <2> QED
    BY <2>1, <2>2, <2>3, <2>4 DEF ForwarderNext, ForwarderRuns, Loop
<1>7. Counts2
  <2>1. ASSUME NEW b \in Seqs, Settles(b) PROVE Counts2
    BY <1>2, <2>1 DEF Settles, SendSucceeds, SendRejected, SendGivesUp, SendRetries, SendFailed, FailuresAfterSuccess
  <2>2. ASSUME Launch PROVE Counts2
    <3>1. inFlight + 1 \in 0..HealthyConcurrency
      BY <1>2, <2>2 DEF Launch, CurrentLimit
    <3> QED
      BY <1>2, <2>2, <3>1 DEF Launch, counters
  <2>3. ASSUME NEW o \in Org, NEW n \in Size, Enqueue(o, n) \/ EnqueueOversized(o, n) PROVE Counts2
    BY <1>2, <2>3 DEF Enqueue, EnqueueOversized, health, counters
  <2>4. ASSUME Evict PROVE Counts2
    BY <1>2, <2>4 DEF Evict, health
  <2>5. ASSUME Finally PROVE Counts2
    <3>1. inFlight = Cardinality(sending) + returning /\ Cardinality(sending) \in Nat /\ returning > 0
      BY <1>2, <2>5, SeqsFinite DEF ForwarderInv, CountersAddUp, Finally
    <3>2. inFlight - 1 \in 0..HealthyConcurrency /\ returning - 1 \in Nat
      BY <1>2, <3>1
    <3> QED
      BY <1>2, <2>5, <3>2 DEF Finally, health, counters
  <2>6. ASSUME BoundsHold \/ PumpEnds \/ WakeTimerFires \/ CloseForwarder \/ \E b \in Seqs : BackoffEnds(b)
        PROVE  Counts2
    BY <1>2, <2>6 DEF BoundsHold, PumpEnds, WakeTimerFires, CloseForwarder, BackoffEnds, counters, health
  <2> QED
    BY <2>1, <2>2, <2>3, <2>4, <2>5, <2>6 DEF ForwarderNext, ForwarderRuns, Loop
<1>8. Flags2
  <2>1. ASSUME NEW b \in Seqs, Settles(b) PROVE Flags2
    BY <1>2, <2>1 DEF Settles, SendSucceeds, SendRejected, SendGivesUp, SendRetries, SendFailed
  <2>2. ASSUME NEW o \in Org, NEW n \in Size, Enqueue(o, n) \/ EnqueueOversized(o, n) PROVE Flags2
    BY <1>2, <2>2 DEF Enqueue, EnqueueOversized
  <2>3. ASSUME BoundsHold \/ PumpEnds PROVE Flags2
    BY <1>2, <1>4, <2>3 DEF BoundsHold, PumpEnds
  <2>4. ASSUME Launch \/ Evict \/ WakeTimerFires \/ CloseForwarder \/ Finally \/ \E b \in Seqs : BackoffEnds(b)
        PROVE  Flags2
    BY <1>2, <2>4 DEF Launch, Evict, WakeTimerFires, CloseForwarder, BackoffEnds, Finally
  <2> QED
    BY <2>1, <2>2, <2>3, <2>4 DEF ForwarderNext, ForwarderRuns, Loop
<1> QED
  BY <1>1, <1>5, <1>6, <1>7, <1>8 DEF ForwarderTypeOK, Fates

-----------------------------------------------------------------------------
(* The invariant holds at the start. *)
LEMMA InvHolds == ForwarderInit => ForwarderInv
<1> SUFFICES ASSUME ForwarderInit PROVE ForwarderInv
  OBVIOUS
<1>1. ForwarderTypeOK
  <2>1. 0 \in 0..MaxAttempts + 1 /\ 0 \in 0..HealthyConcurrency /\ 0 \in 0..MaxSeq
    BY ForwarderConstants
  <2>2. batch \in [Seqs -> BatchType]
    <3>1. [org |-> NoOrg, bytes |-> 0, attempts |-> 0, ready |-> TRUE, epochAtStart |-> 0] \in BatchType
      BY <2>1 DEF BatchType
    <3> QED
      BY <3>1 DEF ForwarderInit
  <2>3. queue \in Seq(Seqs)
    BY DEF ForwarderInit
  <2>4. orgBytes \in [Org -> Nat] /\ fate \in [Seqs -> SUBSET (Dropped \cup {"delivered"})]
    BY DEF ForwarderInit
  <2>5. /\ sending \subseteq Seqs /\ received \subseteq Seqs /\ overlapped \subseteq Seqs
        /\ returning \in Nat /\ inFlight \in 0..HealthyConcurrency /\ queuedBytes \in Nat
        /\ failures \in Nat /\ failureEpoch \in Nat /\ seqCounter \in 0..MaxSeq
        /\ {delivered, droppedOverflow, droppedPermanent} \subseteq Nat
    BY <2>1 DEF ForwarderInit
  <2>6. armed \in BOOLEAN /\ closed \in BOOLEAN /\ task \in {"none", "admit", "requeue", "pump"}
    BY DEF ForwarderInit
  <2> QED
    BY <2>2, <2>3, <2>4, <2>5, <2>6 DEF ForwarderTypeOK
<1>2. ToSet(queue) = {} /\ sending = {} /\ seqCounter = 0 /\ queue = <<>> /\ Len(queue) = 0
  BY DEF ForwarderInit, ToSet
<1>3. PlacesInv
  <2>1. \A b \in Seqs : ~(b <= 0) /\ fate[b] = {}
    BY ForwarderConstants DEF ForwarderInit, Seqs
  <2> QED
    BY <1>2, <2>1 DEF PlacesInv, Placed, Sorted, Waiting
<1>4. AdmittedInv
  BY <1>2 DEF AdmittedInv, Waiting, ForwarderInit
<1>5. CountersAddUp
  <2>1. {b \in Seqs : "sink_overflow" \in fate[b]} = {}
    BY DEF ForwarderInit
  <2>2. Cardinality({b \in Seqs : "sink_overflow" \in fate[b]}) = 0 /\ Cardinality(sending) = 0
    BY <1>2, <2>1, FS_EmptySet
  <2>3. inFlight = 0 /\ returning = 0 /\ delivered = 0 /\ droppedOverflow = 0 /\ droppedPermanent = 0
    BY DEF ForwarderInit
  <2> QED
    BY <1>2, <2>2, <2>3 DEF CountersAddUp
<1>6. BytesInv /\ BoundsInv
  <2>1. \A w : Total(queue, w, 0)
    BY <1>2, TotalEmpty
  <2>2. queuedBytes = 0 /\ \A o \in Org : orgBytes[o] = 0
    BY DEF ForwarderInit
  <2> QED
    BY <1>2, <2>1, <2>2, ForwarderConstants DEF BytesInv, BoundsInv
<1>7. HealthInv /\ NoLostWakeup
  BY <1>2 DEF HealthInv, NoLostWakeup, ForwarderInit
<1> QED
  BY <1>1, <1>3, <1>4, <1>5, <1>6, <1>7 DEF ForwarderInv

(* Every step keeps it. *)
LEMMA InvKept == ForwarderInv /\ [ForwarderNext]_forwarderVars => ForwarderInv'
<1>1. CASE ForwarderInv /\ ForwarderNext
  BY <1>1, TypeStep, PlacesStep, AdmittedStep, CountStep, BytesStep, BoundsStep, HealthStep, WakeStep DEF ForwarderInv
<1>2. CASE ForwarderInv /\ UNCHANGED forwarderVars
  <2>1. UNCHANGED <<batch, queue, sending, returning, inFlight, queuedBytes, orgBytes, failures, failureEpoch, armed,
                    closed, task, seqCounter, delivered, droppedOverflow, droppedPermanent, fate, received, overlapped>>
    BY <1>2 DEF forwarderVars
  <2>2. ForwarderTypeOK' /\ PlacesInv' /\ AdmittedInv'
    BY <1>2, <2>1 DEF ForwarderInv, ForwarderTypeOK, PlacesInv, Placed, AdmittedInv, Waiting
  <2>3. CountersAddUp' /\ BytesInv' /\ BoundsInv'
    BY <1>2, <2>1 DEF ForwarderInv, CountersAddUp, BytesInv, BoundsInv
  <2>4. HealthInv' /\ NoLostWakeup'
    BY <1>2, <2>1 DEF ForwarderInv, HealthInv, NoLostWakeup
  <2> QED
    BY <2>2, <2>3, <2>4 DEF ForwarderInv
<1> QED
  BY <1>1, <1>2

(* Types, places, counts, bytes, bounds and health of the forwarder         *)
(* (sink.ts) hold together in every reachable state.                        *)
THEOREM ForwarderInvariant == ForwarderSpec => []ForwarderInv
  BY InvHolds, InvKept, PTL DEF ForwarderSpec

-----------------------------------------------------------------------------
(* What the invariant says in the words of the properties.                   *)
LEMMA InvPlaces == ForwarderInv => OnePlaceEach
<1> SUFFICES ASSUME ForwarderInv, NEW b \in 1..seqCounter PROVE Places(b) = 1
  BY DEF OnePlaceEach
<1> DEFINE At == {i \in 1..Len(queue) : queue[i] = b}
<1>1. /\ seqCounter \in 0..MaxSeq /\ MaxSeq \in Nat /\ queue \in Seq(Seqs)
      /\ Sorted(queue) /\ Placed(Waiting, sending, fate, seqCounter)
  BY ForwarderConstants DEF ForwarderInv, ForwarderTypeOK, PlacesInv
<1>2. b \in Seqs /\ b <= seqCounter
  BY <1>1 DEF Seqs
<1>3. /\ b \in Waiting \cup sending => fate[b] = {}
      /\ b \in Waiting => b \notin sending
      /\ b \notin Waiting \cup sending => \E x \in Fates : fate[b] = {x}
  BY <1>1, <1>2 DEF Placed
<1>4. b \in Waiting => \E i : At = {i}
  <2>1. SUFFICES ASSUME b \in Waiting PROVE \E i : At = {i}
    OBVIOUS
  <2>2. PICK i \in 1..Len(queue) : queue[i] = b
    BY <1>1, <2>1, ToSetFacts DEF Waiting
  <2>3. ASSUME NEW j \in 1..Len(queue), queue[j] = b, i # j PROVE FALSE
    <3>1. i < j \/ j < i
      BY <2>2, <2>3
    <3>2. (i < j => queue[i] < queue[j]) /\ (j < i => queue[j] < queue[i])
      BY <1>1, <2>2, <2>3 DEF Sorted
    <3> QED
      BY <1>2, <2>2, <2>3, <3>1, <3>2 DEF Seqs
  <2>4. At = {i}
    BY <2>2, <2>3
  <2> QED
    BY <2>4
<1>5. b \notin Waiting => At = {}
  BY <1>1, ToSetFacts DEF Waiting
<1>6. Places(b) = Cardinality(At) + (IF b \in sending THEN 1 ELSE 0) + Cardinality(fate[b])
  BY DEF Places
<1> HIDE DEF At
<1>7. CASE b \in Waiting
  <2>1. Cardinality(At) = 1
    BY <1>4, <1>7, FS_Singleton
  <2> QED
    BY <1>3, <1>6, <1>7, <2>1, FS_EmptySet
<1>8. CASE b \in sending
  <2>1. Cardinality(At) = 0
    BY <1>3, <1>5, <1>8, FS_EmptySet
  <2>2. Cardinality(fate[b]) = 0
    BY <1>3, <1>8, FS_EmptySet
  <2> QED
    BY <1>6, <1>8, <2>1, <2>2
<1>9. CASE b \notin Waiting \cup sending
  <2>1. Cardinality(At) = 0
    BY <1>5, <1>9, FS_EmptySet
  <2>2. Cardinality(fate[b]) = 1
    BY <1>3, <1>9, FS_Singleton
  <2> QED
    BY <1>6, <1>9, <2>1, <2>2
<1> QED
  BY <1>7, <1>8, <1>9

(* The counts the code keeps are the sums over the queue.                    *)
LEMMA BytesWaitingIsTotal ==
    ASSUME queue \in Seq(Seqs), batch \in [Seqs -> BatchType], NEW orgs, NEW n, Total(queue, Weights(batch, orgs), n)
    PROVE  BytesWaiting(orgs) = n
<1> DEFINE w == Weights(batch, orgs)
           Inline(f) == [i \in 0..Len(queue) |->
                           IF i = 0 THEN 0
                           ELSE f[i - 1] + (IF batch[queue[i]].org \in orgs THEN batch[queue[i]].bytes ELSE 0)]
<1>1. w \in [Seqs -> Int] /\ \A b \in Seqs : w[b] = IF batch[b].org \in orgs THEN batch[b].bytes ELSE 0
  BY WeightsFacts
<1>2. ASSUME NEW f PROVE IsRunning(f, queue, w) <=> f = Inline(f)
  <2>1. \A i \in 0..Len(queue) : i # 0 =>
           w[queue[i]] = IF batch[queue[i]].org \in orgs THEN batch[queue[i]].bytes ELSE 0
    <3>1. \A i \in 0..Len(queue) : i # 0 => queue[i] \in Seqs
      OBVIOUS
    <3> QED
      BY <1>1, <3>1
  <2> HIDE DEF w
  <2>2. [i \in 0..Len(queue) |-> IF i = 0 THEN 0 ELSE f[i - 1] + w[queue[i]]] = Inline(f)
    BY <2>1
  <2> QED
    BY <2>2 DEF IsRunning
<1>3. \E f : f = Inline(f)
  BY <1>1, <1>2, RunningSum
<1>4. PICK f : f = Inline(f) /\ BytesWaiting(orgs) = f[Len(queue)]
  BY <1>3 DEF BytesWaiting
<1> HIDE DEF Inline
<1>5. IsRunning(f, queue, w)
  BY <1>2, <1>4
<1> QED
  BY <1>1, <1>4, <1>5, RunningSum

(* queuedBytes and orgBytes are the sums the properties speak of. *)
LEMMA InvBytes ==
    ASSUME ForwarderInv
    PROVE  queuedBytes = BytesWaiting(Org) /\ \A o \in Org : orgBytes[o] = BytesWaiting({o})
  BY BytesWaitingIsTotal DEF ForwarderInv, ForwarderTypeOK, BytesInv

(* While the sink fails at most one batch is being sent to it. *)
LEMMA InvOneProbe == ForwarderInv => OneProbeWhileFailing
<1> SUFFICES ASSUME ForwarderInv, failures > 0 PROVE Cardinality(sending \ overlapped) <= 1
  BY DEF OneProbeWhileFailing
<1>1. IsFiniteSet(sending \ overlapped)
  BY SeqsFinite DEF ForwarderInv, ForwarderTypeOK
<1>2. \A b, c \in sending \ overlapped : b = c
  BY DEF ForwarderInv, HealthInv
<1>3. sending \ overlapped = {} \/ \E b : sending \ overlapped = {b}
  BY <1>2
<1>4. Cardinality(sending \ overlapped) \in {0, 1}
  BY <1>1, <1>3, FS_EmptySet, FS_Singleton
<1> QED
  BY <1>4

(* The invariant implies all the runs check of a state of the forwarder. *)
LEMMA InvAccounts ==
    ForwarderInv => OnePlaceEach /\ CountersAddUp /\ BufferAccounted /\ OneProbeWhileFailing /\ NoLostWakeup
<1> SUFFICES ASSUME ForwarderInv PROVE BufferAccounted
  BY InvPlaces, InvOneProbe DEF ForwarderInv
<1> QED
  BY InvBytes DEF ForwarderInv, BoundsInv, BufferAccounted

-----------------------------------------------------------------------------
(* What a step may not do.                                                   *)
LEMMA FreshSuccess ==
    ASSUME ForwarderInv, [ForwarderNext]_forwarderVars, failures > 0, failures' = 0
    PROVE  \E b \in sending \ sending' : b \notin overlapped
<1>1. failures \in Nat /\ failures' # failures
  BY DEF ForwarderInv, ForwarderTypeOK
<1>2. ASSUME NEW b \in Seqs, SendSucceeds(b) PROVE \E c \in sending \ sending' : c \notin overlapped
  <2>1. b \in sending /\ sending' = sending \ {b} /\ batch[b].epochAtStart = failureEpoch
    BY <1>1, <1>2 DEF SendSucceeds, FailuresAfterSuccess
  <2>2. b \notin overlapped
    BY <2>1 DEF ForwarderInv, HealthInv
  <2> QED
    BY <2>1, <2>2
<1>3. ASSUME NEW b \in Seqs, SendFailed(b) PROVE FALSE
  <2>1. failures' = failures + 1
    BY <1>3 DEF SendFailed
  <2> QED
    BY <1>1, <2>1
<1>4. ASSUME ForwarderNext, ~\E b \in Seqs : SendSucceeds(b) \/ SendFailed(b) PROVE failures' = failures
  <2>1. ASSUME NEW o \in Org, NEW n \in Size, Enqueue(o, n) \/ EnqueueOversized(o, n) PROVE failures' = failures
    BY <2>1 DEF Enqueue, EnqueueOversized, health
  <2>2. ASSUME NEW b \in Seqs, BackoffEnds(b) PROVE failures' = failures
    BY <2>2 DEF BackoffEnds, health
  <2>3. ASSUME Loop \/ WakeTimerFires \/ Finally \/ CloseForwarder PROVE failures' = failures
    BY <2>3 DEF Loop, Evict, BoundsHold, Launch, PumpEnds, WakeTimerFires, Finally, CloseForwarder, health
  <2>4. ~\E b \in Seqs : Settles(b)
    BY <1>4 DEF Settles, SendRejected, SendGivesUp, SendRetries
  <2> QED
    BY <1>4, <2>1, <2>2, <2>3, <2>4 DEF ForwarderNext, ForwarderRuns
<1>5. UNCHANGED forwarderVars => failures' = failures
  BY DEF forwarderVars
<1> QED
  BY <1>1, <1>2, <1>3, <1>4, <1>5

(* The heaviest org holds at least its share: no org holds more, and they    *)
(* hold all there is.                                                        *)
LEMMA HeaviestHoldsItsShare ==
    ASSUME ForwarderInv, NEW o \in Org, \A p \in Org : orgBytes[p] <= orgBytes[o]
    PROVE  Cardinality({batch[c].org : c \in ToSet(queue)}) * BytesWaiting({o}) >= BytesWaiting(Org)
<1> DEFINE X == {batch[c].org : c \in ToSet(queue)}
           m == orgBytes[o]
<1>1. /\ queue \in Seq(Seqs) /\ batch \in [Seqs -> BatchType] /\ orgBytes \in [Org -> Nat] /\ queuedBytes \in Nat
      /\ m = BytesWaiting({o}) /\ queuedBytes = BytesWaiting(Org) /\ m \in Int
  BY InvBytes DEF ForwarderInv, ForwarderTypeOK
<1>2. ToSet(queue) \subseteq Seqs /\ \A c \in ToSet(queue) : batch[c].org \in Org
  BY <1>1, ToSetFacts DEF ForwarderInv, AdmittedInv, Waiting
<1>3. IsFiniteSet(X) /\ X \subseteq Org
  <2>1. IsFiniteSet(ToSet(queue))
    BY <1>2, SeqsFinite
  <2>2. IsFiniteSet({batch[c].org : c \in ToSet(queue)})
    <3> DEFINE f == [c \in ToSet(queue) |-> batch[c].org]
    <3>1. f \in Surjection(ToSet(queue), {batch[c].org : c \in ToSet(queue)})
      BY DEF Surjection
    <3> QED
      BY <2>1, <3>1, FS_Surjection DEF ExistsSurjection
  <2> QED
    BY <1>2, <2>2
<1>4. BytesIn(batch) \in [Seqs -> Int]
  <2>1. \A b \in Seqs : batch[b].bytes \in Int
    <3>1. SUFFICES ASSUME NEW b \in Seqs PROVE batch[b].bytes \in Int
      OBVIOUS
    <3>2. Weights(batch, {batch[b].org})[b] = batch[b].bytes /\ Weights(batch, {batch[b].org}) \in [Seqs -> Int]
      BY <1>1, WeightsFacts
    <3> QED
      BY <3>2
  <2> QED
    BY <2>1 DEF BytesIn
<1>5. \A p \in X : \E n : Total(queue, OfGroups(BytesIn(batch), OrgIn(batch), {p}), n) /\ n <= m
  BY <1>3 DEF ForwarderInv, BytesInv, Weights
<1> HIDE DEF X, m
<1>6. PICK n : Total(queue, OfGroups(BytesIn(batch), OrgIn(batch), X), n) /\ n <= Cardinality(X) * m
  BY <1>1, <1>3, <1>4, <1>5, SharesBound
<1>7. Total(queue, Weights(batch, Org), n)
  <2>1. \A i \in 1..Len(queue) : queue[i] \in Seqs /\ queue[i] \in ToSet(queue)
    BY <1>1, ToSetFacts
  <2>2. \A i \in 1..Len(queue) : Weights(batch, Org)[queue[i]] = Weights(batch, X)[queue[i]]
    <3>1. SUFFICES ASSUME NEW i \in 1..Len(queue)
                   PROVE  Weights(batch, Org)[queue[i]] = Weights(batch, X)[queue[i]]
      OBVIOUS
    <3>2. batch[queue[i]].org \in X /\ batch[queue[i]].org \in Org
      BY <1>2, <2>1 DEF X
    <3> QED
      BY <1>1, <2>1, <3>2, WeightsFacts
  <2> QED
    BY <1>6, <2>2, TotalReweighted DEF Weights
<1>8. n = queuedBytes
  <2>1. Total(queue, Weights(batch, Org), queuedBytes) /\ Weights(batch, Org) \in [Seqs -> Int]
    BY <1>1, WeightsFacts DEF ForwarderInv, BytesInv
  <2> QED
    BY <1>1, <1>7, <2>1, TotalUnique
<1> QED
  <2>1. Cardinality(X) \in Nat
    BY <1>3, FS_CardinalityType
  <2>2. Cardinality(X) * m \in Int
    BY <1>1, <2>1
  <2>3. Cardinality(X) * m >= queuedBytes
    BY <1>1, <1>6, <1>8, <2>2
  <2> QED
    BY <1>1, <2>3 DEF X

(* An evicted batch is the oldest of an org that holds at least its share   *)
(* of the bytes.                                                            *)
LEMMA FairEviction ==
    ASSUME ForwarderInv, [ForwarderNext]_forwarderVars, NEW b \in Seqs,
           "sink_overflow" \in fate'[b] \ fate[b], b \in ToSet(queue)
    PROVE  LET org == batch[b].org IN
           /\ Cardinality({batch[c].org : c \in ToSet(queue)}) * BytesWaiting({org}) >= BytesWaiting(Org)
           /\ \A c \in ToSet(queue) : batch[c].org = org => b <= c
<1>1. fate \in [Seqs -> SUBSET Fates] /\ seqCounter \in Nat
  BY DEF ForwarderInv, ForwarderTypeOK, Fates
<1>2. b <= seqCounter
  BY DEF ForwarderInv, PlacesInv, Placed, Waiting
<1>3. ASSUME NEW c \in Seqs, NEW x \in Fates \ {"sink_overflow"}, fate' = [fate EXCEPT ![c] = @ \cup {x}] PROVE FALSE
  BY <1>1, <1>3
<1>4. fate' # fate
  OBVIOUS
<1>5. Evict
  <2>1. ASSUME NEW o \in Org, NEW n \in Size, Enqueue(o, n) PROVE FALSE
    BY <1>4, <2>1 DEF Enqueue, counters
  <2>2. ASSUME NEW o \in Org, NEW n \in Size, EnqueueOversized(o, n) PROVE FALSE
    <3>1. fate' = [fate EXCEPT ![seqCounter + 1] = @ \cup {"sink_overflow"}]
      BY <2>2 DEF EnqueueOversized, NoteDrop
    <3>2. b # seqCounter + 1
      BY <1>1, <1>2
    <3> QED
      BY <1>1, <3>1, <3>2
  <2>3. ASSUME NEW c \in Seqs, Settles(c) PROVE FALSE
    <3>1. {"delivered", "sink_rejected", "sink_gave_up"} \subseteq Fates \ {"sink_overflow"}
      BY DEF Fates, Dropped
    <3>2. CASE SendSucceeds(c)
      BY <1>3, <3>1, <3>2 DEF SendSucceeds
    <3>3. CASE SendRejected(c) \/ SendGivesUp(c)
      BY <1>3, <3>1, <3>3 DEF SendRejected, SendGivesUp, NoteDrop
    <3>4. CASE SendRetries(c)
      BY <1>4, <3>4 DEF SendRetries
    <3> QED
      BY <2>3, <3>2, <3>3, <3>4 DEF Settles
  <2>4. ASSUME \/ BoundsHold \/ PumpEnds \/ WakeTimerFires \/ CloseForwarder \/ Finally \/ Launch
               \/ \E c \in Seqs : BackoffEnds(c)
        PROVE  FALSE
    BY <1>4, <2>4 DEF BoundsHold, PumpEnds, WakeTimerFires, CloseForwarder, Finally, Launch, BackoffEnds, counters
  <2>5. ~UNCHANGED forwarderVars
    BY <1>4 DEF forwarderVars
  <2> QED
    BY <2>1, <2>2, <2>3, <2>4, <2>5 DEF ForwarderNext, ForwarderRuns, Loop
<1>6. PICK c \in Seqs, o \in Org :
           /\ batch[c].org = o /\ \A p \in Org : orgBytes[p] <= orgBytes[o]
           /\ \A d \in Waiting : batch[d].org = o => c <= d
           /\ NoteDrop(c, "sink_overflow")
  BY <1>5, EvictMoves DEF ForwarderInv
<1>7. b = c
  BY <1>1, <1>6 DEF NoteDrop
<1>8. Cardinality({batch[d].org : d \in ToSet(queue)}) * BytesWaiting({o}) >= BytesWaiting(Org)
  BY <1>6, HeaviestHoldsItsShare
<1> QED
  BY <1>6, <1>7, <1>8 DEF Waiting

(* Evictions take the oldest batch of an org with at least its share, and    *)
(* the concurrency comes back only with a success begun after the last       *)
(* failure (sink.ts), whatever the orgs, sizes and bounds.                   *)
THEOREM StepsAreFair == ForwarderSpec => EvictionIsFair /\ ReopensOnFreshSuccess
<1> DEFINE Fair == \A b \in Seqs : "sink_overflow" \in fate'[b] \ fate[b] /\ b \in ToSet(queue) =>
                     LET org == batch[b].org IN
                     /\ Cardinality({batch[c].org : c \in ToSet(queue)}) * BytesWaiting({org}) >= BytesWaiting(Org)
                     /\ \A c \in ToSet(queue) : batch[c].org = org => b <= c
           Fresh == failures > 0 /\ failures' = 0 => \E b \in sending \ sending' : b \notin overlapped
<1>1. ForwarderInv /\ [ForwarderNext]_forwarderVars => [Fair]_forwarderVars /\ [Fresh]_forwarderVars
  BY FairEviction, FreshSuccess
<1>2. ForwarderSpec => [][Fair]_forwarderVars /\ [][Fresh]_forwarderVars
  <2> HIDE DEF Fair, Fresh
  <2> QED
    BY <1>1, ForwarderInvariant, PTL DEF ForwarderSpec
<1> QED
  BY <1>2 DEF EvictionIsFair, ReopensOnFreshSuccess

-----------------------------------------------------------------------------
(* Every step of the forwarder is a step of SinkDelivery or leaves what it   *)
(* speaks of alone.                                                          *)
Pending == ToSet(queue) \cup sending
Delivered == FateIn({"delivered"})
Lost == FateIn(Dropped)

(* A batch settled either way changes one of the two sets SinkDelivery has. *)
LEMMA FateMoves ==
    ASSUME fate \in [Seqs -> SUBSET Fates], NEW b \in Seqs, NEW x \in Fates, fate' = [fate EXCEPT ![b] = @ \cup {x}]
    PROVE  /\ x = "delivered" => Delivered' = Delivered \cup {b} /\ Lost' = Lost
           /\ x \in Dropped => Delivered' = Delivered /\ Lost' = Lost \cup {b}
<1>1. /\ \A c \in Seqs : c # b => fate'[c] = fate[c]
      /\ fate'[b] = fate[b] \cup {x} /\ "delivered" \notin Dropped
  BY DEF Dropped
<1>2. CASE x = "delivered"
  <2>1. Delivered' = Delivered \cup {b}
    BY <1>1, <1>2 DEF Delivered, FateIn
  <2>2. fate'[b] \cap Dropped = fate[b] \cap Dropped
    BY <1>1, <1>2
  <2>3. Lost' = Lost
    BY <1>1, <2>2 DEF Lost, FateIn
  <2> QED
    BY <1>1, <1>2, <2>1, <2>3
<1>3. CASE x \in Dropped
  <2>1. Lost' = Lost \cup {b}
    BY <1>1, <1>3 DEF Lost, FateIn
  <2>2. fate'[b] \cap {"delivered"} = fate[b] \cap {"delivered"}
    BY <1>1, <1>3
  <2>3. Delivered' = Delivered
    BY <1>1, <2>2 DEF Delivered, FateIn
  <2> QED
    BY <1>1, <1>3, <2>1, <2>3
<1> QED
  BY <1>2, <1>3

(* The forwarder starts as SinkDelivery starts. *)
LEMMA PromiseStarts == ForwarderInit => Promise!Init
<1> SUFFICES ASSUME ForwarderInit PROVE Promise!Init
  OBVIOUS
<1>1. ToSet(queue) \cup sending = {} /\ received = {} /\ ~closed = TRUE
  BY DEF ForwarderInit, ToSet
<1>2. FateIn({"delivered"}) = {} /\ FateIn(Dropped) = {}
  BY DEF ForwarderInit, FateIn
<1> QED
  BY <1>1, <1>2 DEF Promise!Init

(* A step of the forwarder is a step of SinkDelivery or a stutter. *)
LEMMA PromiseKept ==
    ASSUME ForwarderInv, [ForwarderNext]_forwarderVars
    PROVE  [Promise!Next]_(Promise!vars)
<1> DEFINE b1 == seqCounter + 1
           Goal == Promise!Next \/ UNCHANGED <<Pending, Delivered, Lost, received, ~closed>>
<1>1. /\ fate \in [Seqs -> SUBSET Fates] /\ seqCounter \in Nat /\ queue \in Seq(Seqs)
      /\ Placed(Waiting, sending, fate, seqCounter) /\ received \subseteq Seqs
      /\ {"sink_overflow", "sink_rejected", "sink_gave_up"} \subseteq Dropped
      /\ {"sink_overflow", "sink_rejected", "sink_gave_up", "delivered"} \subseteq Fates
      /\ closed \in BOOLEAN
  BY DEF ForwarderInv, ForwarderTypeOK, PlacesInv, Fates, Dropped
<1>2. SUFFICES Goal
  BY DEF Promise!vars, Pending, Delivered, Lost
<1>3. Pending = Waiting \cup sending
  BY DEF Pending, Waiting
<1>4. ASSUME NEW b \in Seqs, fate[b] = {} PROVE b \notin Delivered \cup Lost
  BY <1>4 DEF Delivered, Lost, FateIn
<1>5. ASSUME fate' = fate PROVE Delivered' = Delivered /\ Lost' = Lost
  BY <1>5 DEF Delivered, Lost, FateIn
<1>6. ASSUME Pending' = Pending, fate' = fate, received' = received, closed' = closed PROVE Goal
  BY <1>5, <1>6
<1>7. ASSUME NEW o \in Org, NEW n \in Size, Enqueue(o, n) PROVE Goal
  <2>1. b1 \in Seqs /\ b1 \notin Waiting /\ b1 \notin sending /\ fate[b1] = {} /\ ToSet(queue') = Waiting \cup {b1}
    BY <1>7, EnqueueMoves DEF ForwarderInv
  <2>2. ~closed /\ closed' = closed /\ sending' = sending /\ fate' = fate /\ received' = received
    BY <1>7 DEF Enqueue, counters
  <2>3. Pending' = Pending \cup {b1}
    BY <1>3, <2>1, <2>2 DEF Pending
  <2>4. Promise!Accept(b1)
    BY <1>3, <1>4, <1>5, <2>1, <2>2, <2>3 DEF Promise!Accept, Promise!Known, Pending, Delivered, Lost
  <2> QED
    BY <2>1, <2>4 DEF Promise!Next
<1>8. ASSUME NEW o \in Org, NEW n \in Size, EnqueueOversized(o, n) PROVE Goal
  <2>1. /\ b1 \in Seqs /\ ~closed /\ closed' = closed /\ queue' = queue /\ sending' = sending /\ received' = received
        /\ fate' = [fate EXCEPT ![b1] = @ \cup {"sink_overflow"}]
    BY <1>8 DEF EnqueueOversized, NoteDrop
  <2>2. fate[b1] = {} /\ b1 \notin Waiting \cup sending
    <3>1. b1 > seqCounter /\ ~(b1 <= seqCounter)
      BY <1>1
    <3> QED
      BY <1>1, <2>1, <3>1 DEF Placed
  <2>3. Delivered' = Delivered /\ Lost' = Lost \cup {b1}
    BY <1>1, <2>1, FateMoves
  <2>4. Pending' = Pending
    BY <2>1 DEF Pending
  <2>5. Promise!Refuse(b1)
    BY <1>3, <1>4, <2>1, <2>2, <2>3, <2>4 DEF Promise!Refuse, Promise!Known, Pending, Delivered, Lost
  <2> QED
    BY <2>1, <2>5 DEF Promise!Next
<1>9. ASSUME Evict PROVE Goal
  <2>1. PICK b \in Seqs : b \in Waiting /\ NoteDrop(b, "sink_overflow") /\ ToSet(queue') = Waiting \ {b}
    BY <1>9, EvictMoves DEF ForwarderInv
  <2>2. sending' = sending /\ received' = received /\ closed' = closed
    BY <1>9 DEF Evict
  <2>3. Pending' = Pending \ {b} /\ b \in Pending
    BY <1>1, <1>3, <2>1, <2>2 DEF Pending, Placed
  <2>4. Delivered' = Delivered /\ Lost' = Lost \cup {b}
    BY <1>1, <2>1, FateMoves DEF NoteDrop
  <2>5. Promise!Drop(b)
    BY <2>2, <2>3, <2>4 DEF Promise!Drop, Pending, Delivered, Lost
  <2> QED
    BY <2>5 DEF Promise!Next
<1>10. ASSUME Launch PROVE Goal
  <2>1. PICK b \in Seqs : b \in Waiting /\ sending' = sending \cup {b} /\ ToSet(queue') = Waiting \ {b}
    BY <1>10, LaunchMoves DEF ForwarderInv
  <2>2. Pending' = Pending
    BY <1>3, <2>1 DEF Pending
  <2>3. fate' = fate /\ received' = received /\ closed' = closed
    BY <1>10 DEF Launch, counters
  <2> QED
    BY <1>6, <2>2, <2>3
<1>11. ASSUME NEW b \in Seqs, SendSucceeds(b) PROVE Goal
  <2>1. /\ b \in sending /\ sending' = sending \ {b} /\ queue' = queue /\ closed' = closed
        /\ received' = received \cup {b} /\ fate' = [fate EXCEPT ![b] = @ \cup {"delivered"}]
    BY <1>11 DEF SendSucceeds
  <2>2. Delivered' = Delivered \cup {b} /\ Lost' = Lost
    BY <1>1, <2>1, FateMoves
  <2>3. Pending' = Pending \ {b} /\ b \in Pending
    BY <1>1, <2>1 DEF Pending, Placed, Waiting
  <2>4. Promise!Deliver(b)
    BY <2>1, <2>2, <2>3 DEF Promise!Deliver, Pending, Delivered, Lost
  <2> QED
    BY <2>4 DEF Promise!Next
<1>12. ASSUME NEW b \in Seqs, SendRejected(b) \/ SendGivesUp(b) PROVE Goal
  <2>1. /\ b \in sending /\ sending' = sending \ {b} /\ queue' = queue /\ closed' = closed
        /\ received' \in {received, received \cup {b}}
        /\ \E x \in Dropped : fate' = [fate EXCEPT ![b] = @ \cup {x}]
    BY <1>1, <1>12 DEF SendRejected, SendGivesUp, SendFailed, NoteDrop
  <2>2. Delivered' = Delivered /\ Lost' = Lost \cup {b}
    <3>1. PICK x \in Dropped : fate' = [fate EXCEPT ![b] = @ \cup {x}]
      BY <2>1
    <3>2. x \in Fates
      BY DEF Fates
    <3> QED
      BY <1>1, <3>1, <3>2, FateMoves
  <2>3. Pending' = Pending \ {b} /\ b \in Pending
    BY <1>1, <2>1 DEF Pending, Placed, Waiting
  <2>4. Promise!Drop(b)
    BY <2>1, <2>2, <2>3 DEF Promise!Drop, Pending, Delivered, Lost
  <2> QED
    BY <2>4 DEF Promise!Next
<1>13. ASSUME NEW b \in Seqs, SendRetries(b) PROVE Goal
  <2>1. b \in sending /\ ToSet(queue') = Waiting \cup {b}
    BY <1>13, RetryMoves DEF ForwarderInv
  <2>2. /\ sending' = sending \ {b} /\ fate' = fate /\ closed' = closed
        /\ received' \in {received, received \cup {b}}
    BY <1>13 DEF SendRetries, SendFailed
  <2>3. Pending' = Pending /\ b \in Pending
    BY <1>3, <2>1, <2>2 DEF Pending
  <2>4. CASE received' = received
    BY <1>6, <2>2, <2>3, <2>4
  <2>5. CASE received' = received \cup {b}
    <3>1. Promise!Receive(b)
      BY <1>5, <2>2, <2>3, <2>5 DEF Promise!Receive, Pending, Delivered, Lost
    <3> QED
      BY <3>1 DEF Promise!Next
  <2> QED
    BY <2>2, <2>4, <2>5
<1>14. ASSUME CloseForwarder PROVE Goal
  <2>1. /\ ~closed /\ closed' = TRUE /\ queue' = queue /\ sending' = sending /\ fate' = fate /\ received' = received
    BY <1>14 DEF CloseForwarder, counters
  <2>2. Pending' = Pending /\ Delivered' = Delivered /\ Lost' = Lost
    BY <1>5, <2>1 DEF Pending
  <2>3. Promise!Close
    BY <2>1, <2>2 DEF Promise!Close, Pending, Delivered, Lost
  <2> QED
    BY <2>3 DEF Promise!Next
<1>15. ASSUME queue' = queue, sending' = sending, fate' = fate, received' = received, closed' = closed PROVE Goal
  BY <1>6, <1>15 DEF Pending
<1> HIDE DEF Goal
<1>16. ASSUME BoundsHold \/ PumpEnds \/ WakeTimerFires \/ Finally \/ \E b \in Seqs : BackoffEnds(b) PROVE Goal
  BY <1>15, <1>16 DEF BoundsHold, PumpEnds, WakeTimerFires, Finally, BackoffEnds, counters
<1>17. ASSUME UNCHANGED forwarderVars PROVE Goal
  BY <1>15, <1>17 DEF forwarderVars
<1> QED
  BY <1>7, <1>8, <1>9, <1>10, <1>11, <1>12, <1>13, <1>14, <1>16, <1>17 DEF ForwarderNext, ForwarderRuns, Loop, Settles

(* The forwarder implements the promise of SinkDelivery: what it accepts is  *)
(* pending until delivered, or until its drop is reported, never both.       *)
THEOREM ForwarderDelivers == ForwarderSpec => ImplementsDelivery
<1>1. ForwarderInv /\ [ForwarderNext]_forwarderVars => [Promise!Next]_(Promise!vars)
  BY PromiseKept
<1>2. ForwarderSpec => Promise!Init /\ [][Promise!Next]_(Promise!vars)
  BY <1>1, PromiseStarts, ForwarderInvariant, PTL DEF ForwarderSpec
<1> QED
  BY <1>2 DEF ImplementsDelivery, Promise!Spec
=============================================================================
