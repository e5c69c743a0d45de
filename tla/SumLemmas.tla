------------------------------ MODULE SumLemmas ------------------------------
(***************************************************************************)
(* Lemmas on sums along a sequence, shared by the proofs about queues that    *)
(* keep a running count of what they hold: how the sum changes when an         *)
(* element is added, put in or taken out, and how it splits into groups.       *)
(* Then on sums over a finite set: that the recursion behind MapThenSumSet     *)
(* has a solution, and how the sum changes with what one element weighs; what  *)
(* a sequence keeps at some of its places, in its order; and the spans that   *)
(* buffers keep by trace; and that the recursion behind FoldLeft has a        *)
(* solution.                                                                 *)
(***************************************************************************)
EXTENDS Integers, SequencesExt, SequenceTheorems, FiniteSetTheorems, FunctionTheorems,
    WellFoundedInduction, TLAPS

(* A set of naturals has a least one: the induction the other lemmas rest on. *)
LEMMA LeastNatural ==
    ASSUME NEW S \in SUBSET Nat, S # {}
    PROVE  \E n \in S : \A m \in S : n <= m
<1>1. PICK n \in S : \A m \in S : <<m, n>> \notin OpToRel(<, Nat)
  BY NatLessThanWellFounded, WFMin
<1>2. ASSUME NEW m \in S, ~(n <= m) PROVE FALSE
  <2>1. <<m, n>> \in OpToRel(<, Nat)
    BY <1>2 DEF OpToRel
  <2> QED
    BY <1>1, <2>1
<1> QED
  BY <1>2

(* What holds of 0, and of each number up to n when of the one before,      *)
(* holds up to n.                                                           *)
LEMMA InductionTo ==
    ASSUME NEW n \in Nat, NEW S, 0 \in S, \A i \in 1..n : i - 1 \in S => i \in S
    PROVE  \A i \in 0..n : i \in S
<1> DEFINE T == {i \in 0..n : i \notin S}
<1>1. SUFFICES ASSUME T # {} PROVE FALSE
  OBVIOUS
<1>2. PICK i \in T : \A j \in T : i <= j
  <2>1. T \in SUBSET Nat
    OBVIOUS
  <2> HIDE DEF T
  <2> QED
    BY <1>1, <2>1, LeastNatural
<1>3. i \in 1..n /\ i - 1 \in 0..n /\ i - 1 \notin T
  BY <1>2
<1> QED
  BY <1>2, <1>3

(* Min of a set of naturals is one of them, and the least. *)
LEMMA MinIsLeast ==
    ASSUME NEW S \in SUBSET Nat, S # {}
    PROVE  Min(S) \in S /\ \A m \in S : Min(S) <= m
<1>1. \E n \in S : \A m \in S : n <= m
  BY LeastNatural
<1> QED
  BY <1>1 DEF Min

-----------------------------------------------------------------------------
(* The sequence without its i-th element. *)
LEMMA RemoveAtFacts ==
    ASSUME NEW D, NEW q \in Seq(D), NEW i \in 1..Len(q)
    PROVE  /\ RemoveAt(q, i) \in Seq(D) /\ Len(RemoveAt(q, i)) = Len(q) - 1
           /\ \A j \in 1..Len(q) - 1 : RemoveAt(q, i)[j] = IF j < i THEN q[j] ELSE q[j + 1]
<1> DEFINE a == SubSeq(q, 1, i - 1)
           b == SubSeq(q, i + 1, Len(q))
<1>1. a \in Seq(D) /\ Len(a) = i - 1 /\ \A j \in 1..i - 1 : a[j] = q[j]
  <2>1. i - 1 \in Int /\ \A j \in 1..i - 1 : q[j] \in D
    OBVIOUS
  <2> QED
    BY <2>1, SubSeqProperties
<1>2. b \in Seq(D) /\ Len(b) = Len(q) - i /\ \A j \in 1..Len(q) - i : b[j] = q[i + j]
  <2>1. i + 1 \in Int /\ Len(q) \in Int /\ \A j \in i + 1..Len(q) : q[j] \in D
    OBVIOUS
  <2> QED
    BY <2>1, SubSeqProperties
<1>3. RemoveAt(q, i) = a \o b
  BY DEF RemoveAt
<1> HIDE DEF a, b
<1>4. /\ a \o b \in Seq(D) /\ Len(a \o b) = Len(a) + Len(b)
      /\ \A j \in 1..Len(a) + Len(b) : (a \o b)[j] = IF j <= Len(a) THEN a[j] ELSE b[j - Len(a)]
  BY <1>1, <1>2, ConcatProperties
<1>5. ASSUME NEW j \in 1..Len(q) - 1 PROVE (a \o b)[j] = IF j < i THEN q[j] ELSE q[j + 1]
  BY <1>1, <1>2, <1>4
<1> QED
  BY <1>1, <1>2, <1>3, <1>4, <1>5

(* The sequence with e put at its i-th place. *)
LEMMA InsertAtFacts ==
    ASSUME NEW D, NEW q \in Seq(D), NEW i \in 1..Len(q) + 1, NEW e \in D
    PROVE  /\ InsertAt(q, i, e) \in Seq(D) /\ Len(InsertAt(q, i, e)) = Len(q) + 1
           /\ \A j \in 1..Len(q) + 1 :
                 InsertAt(q, i, e)[j] = IF j < i THEN q[j] ELSE IF j = i THEN e ELSE q[j - 1]
<1> DEFINE a == SubSeq(q, 1, i - 1)
           b == SubSeq(q, i, Len(q))
           c == a \o <<e>>
<1>1. a \in Seq(D) /\ Len(a) = i - 1 /\ \A j \in 1..i - 1 : a[j] = q[j]
  <2>1. i - 1 \in Int /\ \A j \in 1..i - 1 : q[j] \in D
    OBVIOUS
  <2> QED
    BY <2>1, SubSeqProperties
<1>2. b \in Seq(D) /\ Len(b) = Len(q) - i + 1 /\ \A j \in 1..Len(q) - i + 1 : b[j] = q[i + j - 1]
  <2>1. i \in Int /\ Len(q) \in Int /\ \A j \in i..Len(q) : q[j] \in D
    OBVIOUS
  <2> QED
    BY <2>1, SubSeqProperties
<1>3. InsertAt(q, i, e) = c \o b
  BY DEF InsertAt
<1> HIDE DEF a, b
<1>4. /\ c \in Seq(D) /\ Len(c) = i /\ \A j \in 1..i : c[j] = IF j < i THEN q[j] ELSE e
  <2>1. <<e>> \in Seq(D) /\ Len(<<e>>) = 1 /\ <<e>>[1] = e
    OBVIOUS
  <2>2. c \in Seq(D) /\ Len(c) = Len(a) + 1
        /\ \A j \in 1..Len(a) + 1 : c[j] = IF j <= Len(a) THEN a[j] ELSE <<e>>[j - Len(a)]
    BY <1>1, <2>1, ConcatProperties
  <2> QED
    BY <1>1, <2>1, <2>2
<1> HIDE DEF c
<1>5. /\ c \o b \in Seq(D) /\ Len(c \o b) = Len(c) + Len(b)
      /\ \A j \in 1..Len(c) + Len(b) : (c \o b)[j] = IF j <= Len(c) THEN c[j] ELSE b[j - Len(c)]
  BY <1>2, <1>4, ConcatProperties
<1>6. ASSUME NEW j \in 1..Len(q) + 1
      PROVE  (c \o b)[j] = IF j < i THEN q[j] ELSE IF j = i THEN e ELSE q[j - 1]
  BY <1>2, <1>4, <1>5
<1> QED
  BY <1>2, <1>3, <1>4, <1>5, <1>6

-----------------------------------------------------------------------------
(* The sum of what a sequence's elements weigh, as the last of its partial   *)
(* sums.                                                                     *)
IsSums(p, q, w) ==
    /\ p[0] = 0 /\ \A i \in 0..Len(q) : p[i] \in Int
    /\ \A i \in 1..Len(q) : p[i] = p[i - 1] + w[q[i]]
Total(q, w, n) == \E p : IsSums(p, q, w) /\ p[Len(q)] = n

(* Nothing weighs nothing. *)
LEMMA TotalEmpty == ASSUME NEW w PROVE Total(<<>>, w, 0)
<1>1. IsSums([i \in 0..0 |-> 0], <<>>, w)
  BY DEF IsSums
<1> QED
  BY <1>1 DEF Total

(* One element more at the end. *)
LEMMA TotalAppend ==
    ASSUME NEW D, NEW w \in [D -> Int], NEW q \in Seq(D), NEW n, Total(q, w, n), NEW e \in D
    PROVE  Total(Append(q, e), w, n + w[e])
<1>1. PICK p : IsSums(p, q, w) /\ p[Len(q)] = n
  BY DEF Total
<1> DEFINE s == Append(q, e)
           r == [i \in 0..Len(q) + 1 |-> IF i <= Len(q) THEN p[i] ELSE n + w[e]]
<1>2. s \in Seq(D) /\ Len(s) = Len(q) + 1 /\ s[Len(q) + 1] = e /\ \A i \in 1..Len(q) : s[i] = q[i]
  BY AppendProperties
<1>3. /\ n \in Int /\ Len(q) \in Nat /\ w[e] \in Int
      /\ p[0] = 0 /\ (\A i \in 0..Len(q) : p[i] \in Int) /\ \A i \in 1..Len(q) : p[i] = p[i - 1] + w[q[i]]
  BY <1>1 DEF IsSums
<1>4. /\ (\A i \in 0..Len(q) + 1 : r[i] \in Int) /\ r[Len(q) + 1] = n + w[e]
      /\ \A i \in 0..Len(q) : r[i] = p[i]
  BY <1>3
<1> HIDE DEF s, r
<1>5. IsSums(r, s, w)
  <2>1. ASSUME NEW i \in 1..Len(q) + 1 PROVE r[i] = r[i - 1] + w[s[i]]
    <3>1. CASE i <= Len(q)
      <4>1. i \in 1..Len(q) /\ i \in 0..Len(q) /\ i - 1 \in 0..Len(q)
        BY <1>3, <3>1
      <4>2. r[i] = p[i] /\ r[i - 1] = p[i - 1] /\ s[i] = q[i]
        BY <1>2, <1>4, <4>1
      <4> QED
        BY <1>3, <4>1, <4>2
    <3>2. CASE i = Len(q) + 1
      BY <1>1, <1>2, <1>3, <1>4, <3>2
    <3> QED
      BY SMTT(40), <1>3, <3>1, <3>2
  <2> QED
    BY <1>2, <1>3, <1>4, <2>1 DEF IsSums
<1> QED
  BY <1>2, <1>4, <1>5 DEF Total, s

(* One element less, wherever it was. *)
LEMMA TotalRemove ==
    ASSUME NEW D, NEW w \in [D -> Int], NEW q \in Seq(D), NEW n, Total(q, w, n), NEW k \in 1..Len(q)
    PROVE  Total(RemoveAt(q, k), w, n - w[q[k]])
<1>1. PICK p : IsSums(p, q, w) /\ p[Len(q)] = n
  BY DEF Total
<1> DEFINE s == RemoveAt(q, k)
           r == [i \in 0..Len(q) - 1 |-> IF i < k THEN p[i] ELSE p[i + 1] - w[q[k]]]
<1>2. s \in Seq(D) /\ Len(s) = Len(q) - 1 /\ \A i \in 1..Len(q) - 1 : s[i] = IF i < k THEN q[i] ELSE q[i + 1]
  BY RemoveAtFacts
<1>3. /\ Len(q) \in Nat /\ q[k] \in D /\ w[q[k]] \in Int /\ k \in 1..Len(q)
      /\ p[0] = 0 /\ (\A i \in 0..Len(q) : p[i] \in Int) /\ \A i \in 1..Len(q) : p[i] = p[i - 1] + w[q[i]]
  BY <1>1 DEF IsSums
<1>4. /\ \A i \in 0..Len(q) - 1 : r[i] \in Int
      /\ \A i \in 0..Len(q) - 1 : r[i] = IF i < k THEN p[i] ELSE p[i + 1] - w[q[k]]
  BY SMTT(40), <1>3
<1> HIDE DEF s, r
<1>5. IsSums(r, s, w)
  <2>1. ASSUME NEW i \in 1..Len(q) - 1 PROVE r[i] = r[i - 1] + w[s[i]]
    <3>1. /\ i \in 1..Len(q) /\ i + 1 \in 1..Len(q) /\ i - 1 \in 0..Len(q) - 1
          /\ i \in 0..Len(q) - 1 /\ i - 1 \in 0..Len(q) /\ i \in 0..Len(q) /\ i + 1 \in 0..Len(q)
          /\ i \in Int /\ (i + 1) - 1 = i /\ (i - 1) + 1 = i
      BY <1>3
    <3>2. /\ p[i] = p[i - 1] + w[q[i]] /\ p[i + 1] = p[i] + w[q[i + 1]]
          /\ p[i - 1] \in Int /\ p[i] \in Int /\ p[i + 1] \in Int
      BY <1>3, <3>1
    <3>3. /\ s[i] = IF i < k THEN q[i] ELSE q[i + 1]
          /\ r[i] = IF i < k THEN p[i] ELSE p[i + 1] - w[q[k]]
          /\ r[i - 1] = IF i - 1 < k THEN p[i - 1] ELSE p[i] - w[q[k]]
      BY <1>2, <1>4, <3>1
    <3>4. w[q[i]] \in Int /\ w[q[i + 1]] \in Int /\ w[q[k]] \in Int
      <4>1. q[i] \in D /\ q[i + 1] \in D
        BY <3>1
      <4> QED
        BY <1>3, <4>1
    <3>5. k \in Int
      BY <1>3
    <3>6. CASE i < k
      BY <3>1, <3>2, <3>3, <3>4, <3>5, <3>6
    <3>7. CASE i = k
      BY SMTT(40), <3>1, <3>2, <3>3, <3>4, <3>5, <3>7
    <3>8. CASE i > k
      BY SMTT(40), <3>1, <3>2, <3>3, <3>4, <3>5, <3>8
    <3> QED
      BY <3>1, <3>5, <3>6, <3>7, <3>8
  <2>2. r[0] = 0
    <3>1. 0 \in 0..Len(q) - 1 /\ 0 < k
      BY <1>3
    <3> QED
      BY <1>3, <1>4, <3>1
  <2> QED
    BY <1>2, <1>4, <2>1, <2>2 DEF IsSums
<1>6. r[Len(s)] = n - w[q[k]]
  <2>1. Len(q) - 1 \in 0..Len(q) - 1 /\ Len(q) \in 1..Len(q) /\ (Len(q) - 1) + 1 = Len(q)
        /\ Len(q) \in Int /\ k \in Int /\ k <= Len(q)
    BY <1>3
  <2>2. r[Len(q) - 1] = IF Len(q) - 1 < k THEN p[Len(q) - 1] ELSE p[Len(q)] - w[q[k]]
    BY <1>4, <2>1
  <2>3. p[Len(q)] = p[Len(q) - 1] + w[q[Len(q)]] /\ p[Len(q) - 1] \in Int /\ p[Len(q)] \in Int
    <3>1. Len(q) - 1 \in 0..Len(q) /\ Len(q) \in 0..Len(q)
      BY <2>1
    <3> QED
      BY <1>3, <2>1, <3>1
  <2>4. CASE k = Len(q)
    BY <1>1, <1>2, <1>3, <2>1, <2>2, <2>3, <2>4
  <2>5. CASE k < Len(q)
    BY <1>1, <1>2, <2>1, <2>2, <2>5
  <2>6. k = Len(q) \/ k < Len(q)
    <3>1. ASSUME NEW a \in Int, NEW b \in Int, b <= a PROVE b = a \/ b < a
      BY <3>1
    <3> QED
      BY <2>1, <3>1, Zenon
  <2> QED
    BY <2>4, <2>5, <2>6, Zenon
<1> QED
  BY <1>5, <1>6 DEF Total, s

(* One element more, wherever it goes. *)
LEMMA TotalInsert ==
    ASSUME NEW D, NEW w \in [D -> Int], NEW q \in Seq(D), NEW n, Total(q, w, n), NEW k \in 1..Len(q) + 1, NEW e \in D
    PROVE  Total(InsertAt(q, k, e), w, n + w[e])
<1>1. PICK p : IsSums(p, q, w) /\ p[Len(q)] = n
  BY DEF Total
<1> DEFINE s == InsertAt(q, k, e)
           r == [i \in 0..Len(q) + 1 |-> IF i < k THEN p[i] ELSE p[i - 1] + w[e]]
<1>2. /\ s \in Seq(D) /\ Len(s) = Len(q) + 1
      /\ \A i \in 1..Len(q) + 1 : s[i] = IF i < k THEN q[i] ELSE IF i = k THEN e ELSE q[i - 1]
  BY InsertAtFacts
<1>3. /\ Len(q) \in Nat /\ w[e] \in Int /\ k \in 1..Len(q) + 1
      /\ p[0] = 0 /\ (\A i \in 0..Len(q) : p[i] \in Int) /\ \A i \in 1..Len(q) : p[i] = p[i - 1] + w[q[i]]
  BY <1>1 DEF IsSums
<1>4. /\ \A i \in 0..Len(q) + 1 : r[i] = IF i < k THEN p[i] ELSE p[i - 1] + w[e]
      /\ \A i \in 0..Len(q) + 1 : r[i] \in Int
  <2>1. ASSUME NEW i \in 0..Len(q) + 1 PROVE r[i] \in Int
    <3>1. r[i] = IF i < k THEN p[i] ELSE p[i - 1] + w[e]
      OBVIOUS
    <3>2. CASE i < k
      <4>1. i \in 0..Len(q)
        BY <1>3, <3>2
      <4> QED
        BY <1>3, <3>1, <3>2, <4>1
    <3>3. CASE ~(i < k)
      <4>1. i - 1 \in 0..Len(q)
        BY <1>3, <3>3
      <4> QED
        BY <1>3, <3>1, <3>3, <4>1
    <3> QED
      BY <3>2, <3>3
  <2> QED
    BY <2>1
<1> HIDE DEF s, r
<1>5. IsSums(r, s, w)
  <2>1. ASSUME NEW i \in 1..Len(q) + 1 PROVE r[i] = r[i - 1] + w[s[i]]
    <3>1. s[i] = IF i < k THEN q[i] ELSE IF i = k THEN e ELSE q[i - 1]
      BY <1>2
    <3>2. /\ r[i] = IF i < k THEN p[i] ELSE p[i - 1] + w[e]
          /\ r[i - 1] = IF i - 1 < k THEN p[i - 1] ELSE p[i - 2] + w[e]
      BY <1>3, <1>4
    <3>3. CASE i < k
      <4>1. i \in 1..Len(q) /\ p[i] = p[i - 1] + w[q[i]]
        BY <1>3, <3>3
      <4> QED
        BY <3>1, <3>2, <3>3, <4>1
    <3>4. CASE i = k
      BY <3>1, <3>2, <3>4
    <3>5. CASE i > k
      <4>1. /\ i - 1 \in 1..Len(q) /\ i - 2 \in 0..Len(q) /\ w[q[i - 1]] \in Int
            /\ p[i - 1] = p[i - 2] + w[q[i - 1]] /\ p[i - 2] \in Int
        BY <1>3, <3>5
      <4> QED
        BY <1>3, <3>1, <3>2, <3>5, <4>1
    <3> QED
      BY <1>3, <3>3, <3>4, <3>5
  <2>2. r[0] = 0
    BY <1>3, <1>4
  <2> QED
    BY <1>2, <1>3, <1>4, <2>1, <2>2 DEF IsSums
<1>6. r[Len(s)] = n + w[e]
  <2>1. Len(q) + 1 \in 0..Len(q) + 1 /\ ~(Len(q) + 1 < k) /\ (Len(q) + 1) - 1 = Len(q)
    BY <1>3
  <2> QED
    BY <1>1, <1>2, <1>4, <2>1
<1> QED
  BY <1>5, <1>6 DEF Total, s

(* The total of a sequence cut in two is that of its parts.                  *)
LEMMA TotalCut ==
    ASSUME NEW D, NEW w \in [D -> Int], NEW q \in Seq(D), NEW n, Total(q, w, n), NEW k \in 0..Len(q)
    PROVE  \E m \in Int : Total(SubSeq(q, 1, k), w, m) /\ Total(SubSeq(q, k + 1, Len(q)), w, n - m)
<1>1. PICK p : IsSums(p, q, w) /\ p[Len(q)] = n
  BY DEF Total
<1> DEFINE a == SubSeq(q, 1, k)
           b == SubSeq(q, k + 1, Len(q))
           r == [i \in 0..Len(q) - k |-> p[i + k] - p[k]]
<1>2. /\ Len(a) = k /\ \A i \in 1..k : a[i] = q[i]
      /\ Len(b) = Len(q) - k /\ \A i \in 1..Len(q) - k : b[i] = q[i + k]
  BY SubSeqProperties
<1>3. /\ Len(q) \in Nat /\ k \in Nat /\ k <= Len(q)
      /\ p[0] = 0 /\ (\A i \in 0..Len(q) : p[i] \in Int) /\ \A i \in 1..Len(q) : p[i] = p[i - 1] + w[q[i]]
  BY <1>1 DEF IsSums
<1> HIDE DEF a, b
<1>4. Total(a, w, p[k])
  <2>1. IsSums(p, a, w)
    <3>1. \A i \in 1..k : i \in 1..Len(q)
      BY <1>3
    <3>2. \A i \in 0..k : i \in 0..Len(q)
      BY <1>3
    <3> QED
      BY <1>2, <1>3, <3>1, <3>2 DEF IsSums
  <2> QED
    BY <1>2, <2>1 DEF Total
<1>5. Total(b, w, n - p[k])
  <2>1. \A i \in 0..Len(q) - k : r[i] = p[i + k] - p[k] /\ i + k \in 0..Len(q)
    BY <1>3
  <2>2. k \in 0..Len(q) /\ p[k] \in Int /\ 0 \in 0..Len(q) - k /\ Len(q) - k \in 0..Len(q) - k
    BY <1>3
  <2> HIDE DEF r
  <2>3. ASSUME NEW i \in 1..Len(q) - k PROVE r[i] = r[i - 1] + w[b[i]]
    <3>1. i + k \in 1..Len(q) /\ (i + k) - 1 = (i - 1) + k /\ i \in 0..Len(q) - k /\ i - 1 \in 0..Len(q) - k
      BY <1>3
    <3>2. p[i + k] = p[(i - 1) + k] + w[q[i + k]]
      <4>1. p[i + k] = p[(i + k) - 1] + w[q[i + k]]
        BY <1>3, <3>1
      <4> QED
        BY <3>1, <4>1
    <3>3. r[i] = p[i + k] - p[k] /\ r[i - 1] = p[(i - 1) + k] - p[k] /\ b[i] = q[i + k]
      BY <1>2, <2>1, <3>1
    <3>4. p[(i - 1) + k] \in Int /\ p[i + k] \in Int /\ w[q[i + k]] \in Int
      <4>1. q[i + k] \in D /\ (i - 1) + k \in 0..Len(q) /\ i + k \in 0..Len(q)
        BY <3>1, <2>1
      <4> QED
        BY <1>3, <4>1
    <3> QED
      BY SMTT(40), <2>2, <3>2, <3>3, <3>4
  <2>4. r[0] = 0
    <3>1. r[0] = p[0 + k] - p[k] /\ 0 + k = k
      BY <1>3, <2>1, <2>2
    <3> QED
      BY <2>2, <3>1
  <2>5. ASSUME NEW i \in 0..Len(q) - k PROVE r[i] \in Int
    <3>1. r[i] = p[i + k] - p[k] /\ p[i + k] \in Int
      BY <1>3, <2>1
    <3> QED
      BY <2>2, <3>1
  <2>6. r[Len(q) - k] = n - p[k]
    <3>1. (Len(q) - k) + k = Len(q)
      BY <1>3
    <3> QED
      BY <1>1, <2>1, <2>2, <3>1
  <2>7. IsSums(r, b, w)
    BY <1>2, <2>3, <2>4, <2>5 DEF IsSums
  <2> QED
    BY <1>2, <2>6, <2>7 DEF Total
<1>6. p[k] \in Int
  BY <1>3
<1> QED
  BY <1>4, <1>5, <1>6 DEF a, b

(* The total of two sequences put together. *)
LEMMA TotalConcat ==
    ASSUME NEW D, NEW w \in [D -> Int], NEW a \in Seq(D), NEW b \in Seq(D), NEW m, NEW n,
           Total(a, w, m), Total(b, w, n)
    PROVE  Total(a \o b, w, m + n)
<1>1. PICK p : IsSums(p, a, w) /\ p[Len(a)] = m
  BY DEF Total
<1>2. PICK r : IsSums(r, b, w) /\ r[Len(b)] = n
  BY DEF Total
<1> DEFINE q == a \o b
           s == [i \in 0..Len(a) + Len(b) |-> IF i <= Len(a) THEN p[i] ELSE m + r[i - Len(a)]]
<1>3. /\ Len(q) = Len(a) + Len(b)
      /\ \A i \in 1..Len(a) + Len(b) : q[i] = IF i <= Len(a) THEN a[i] ELSE b[i - Len(a)]
  BY ConcatProperties
<1>4. /\ Len(a) \in Nat /\ Len(b) \in Nat /\ m \in Int
      /\ p[0] = 0 /\ (\A i \in 0..Len(a) : p[i] \in Int) /\ \A i \in 1..Len(a) : p[i] = p[i - 1] + w[a[i]]
  BY <1>1 DEF IsSums
<1>5. r[0] = 0 /\ (\A i \in 0..Len(b) : r[i] \in Int) /\ \A i \in 1..Len(b) : r[i] = r[i - 1] + w[b[i]]
  BY <1>2 DEF IsSums
<1>6. \A i \in 0..Len(a) + Len(b) : s[i] = IF i <= Len(a) THEN p[i] ELSE m + r[i - Len(a)]
  OBVIOUS
<1> HIDE DEF q, s
<1>7. \A i \in 0..Len(b) : i + Len(a) \in 0..Len(a) + Len(b) /\ s[i + Len(a)] = m + r[i]
  <2> SUFFICES ASSUME NEW i \in 0..Len(b)
               PROVE  i + Len(a) \in 0..Len(a) + Len(b) /\ s[i + Len(a)] = m + r[i]
    OBVIOUS
  <2>1. i + Len(a) \in 0..Len(a) + Len(b) /\ (i + Len(a)) - Len(a) = i
    BY <1>4
  <2>2. CASE i = 0
    BY <1>1, <1>4, <1>5, <1>6, <2>1, <2>2
  <2>3. CASE i # 0
    <3>1. ~(i + Len(a) <= Len(a))
      BY <1>4, <2>3
    <3> QED
      BY <1>6, <2>1, <3>1
  <2> QED
    BY <2>2, <2>3
<1>8. ASSUME NEW i \in 1..Len(a) + Len(b) PROVE s[i] = s[i - 1] + w[q[i]]
  <2>1. CASE i <= Len(a)
    <3>1. i \in 1..Len(a) /\ i \in 0..Len(a) + Len(b) /\ i - 1 \in 0..Len(a) + Len(b) /\ i - 1 <= Len(a)
      BY <1>4, <2>1
    <3>2. s[i] = p[i] /\ s[i - 1] = p[i - 1] /\ q[i] = a[i]
      BY <1>3, <1>6, <2>1, <3>1
    <3> QED
      BY <1>4, <3>1, <3>2
  <2>2. CASE ~(i <= Len(a))
    <3> DEFINE j == i - Len(a)
    <3>1. j \in 1..Len(b) /\ j \in 0..Len(b) /\ j - 1 \in 0..Len(b)
          /\ j + Len(a) = i /\ (j - 1) + Len(a) = i - 1
      BY <1>4, <2>2
    <3>2. q[i] = b[j]
      BY <1>3, <2>2
    <3> HIDE DEF j
    <3>3. s[i] = m + r[j] /\ s[i - 1] = m + r[j - 1]
      <4>1. s[j + Len(a)] = m + r[j] /\ s[(j - 1) + Len(a)] = m + r[j - 1]
        BY <1>7, <3>1
      <4> QED
        BY <3>1, <4>1
    <3>4. r[j] = r[j - 1] + w[b[j]] /\ r[j - 1] \in Int /\ w[b[j]] \in Int
      <4>1. b[j] \in D
        BY <3>1
      <4> QED
        BY <1>5, <3>1, <4>1
    <3> QED
      BY <1>4, <3>2, <3>3, <3>4
  <2> QED
    BY <2>1, <2>2
<1>9. s[0] = 0 /\ \A i \in 0..Len(a) + Len(b) : s[i] \in Int
  <2>1. ASSUME NEW i \in 0..Len(a) + Len(b) PROVE s[i] \in Int
    <3>1. CASE i <= Len(a)
      <4>1. i \in 0..Len(a)
        BY <1>4, <3>1
      <4> QED
        BY <1>4, <1>6, <3>1, <4>1
    <3>2. CASE ~(i <= Len(a))
      <4>1. i - Len(a) \in 0..Len(b)
        BY <1>4, <3>2
      <4>2. r[i - Len(a)] \in Int /\ s[i] = m + r[i - Len(a)]
        BY <1>5, <1>6, <3>2, <4>1
      <4> QED
        BY <1>4, <4>2
    <3> QED
      BY <3>1, <3>2
  <2>2. 0 \in 0..Len(a) + Len(b) /\ 0 <= Len(a)
    BY <1>4
  <2> QED
    BY <1>4, <1>6, <2>1, <2>2
<1>10. s[Len(a) + Len(b)] = m + n
  <2>1. Len(b) \in 0..Len(b) /\ Len(b) + Len(a) = Len(a) + Len(b)
    BY <1>4
  <2> QED
    BY <1>2, <1>7, <2>1
<1> QED
  BY <1>3, <1>8, <1>9, <1>10 DEF Total, IsSums, q

(* Other weights of other elements.                                          *)
LEMMA TotalReweighted ==
    ASSUME NEW q, NEW w, NEW v, NEW n, Total(q, w, n), \A i \in 1..Len(q) : v[q[i]] = w[q[i]]
    PROVE  Total(q, v, n)
  BY DEF Total, IsSums

(* A sum of naturals is one; it is not less than any of its parts, and is 0  *)
(* only if they all are.                                                     *)
LEMMA TotalOfNaturals ==
    ASSUME NEW D, NEW w \in [D -> Nat], NEW q \in Seq(D), NEW n, Total(q, w, n)
    PROVE  /\ n \in Nat /\ \A i \in 1..Len(q) : w[q[i]] <= n
           /\ n > 0 => \E i \in 1..Len(q) : w[q[i]] > 0
<1>1. PICK p : IsSums(p, q, w) /\ p[Len(q)] = n
  BY DEF Total
<1>2. Len(q) \in Nat /\ \A i \in 1..Len(q) : w[q[i]] \in Nat
  OBVIOUS
<1> DEFINE Rising == {i \in 0..Len(q) : p[i] >= 0 /\ \A j \in 1..i : w[q[j]] <= p[i]}
           Flat == {i \in 0..Len(q) : p[i] = 0}
<1>3. \A i \in 0..Len(q) : i \in Rising
  <2>1. 0 \in Rising
    BY <1>1, <1>2 DEF IsSums
  <2>2. ASSUME NEW i \in 1..Len(q), i - 1 \in Rising PROVE i \in Rising
    <3>1. p[i] = p[i - 1] + w[q[i]] /\ p[i - 1] \in Int
      BY <1>1, <1>2 DEF IsSums
    <3>2. ASSUME NEW j \in 1..i PROVE w[q[j]] <= p[i]
      <4>1. j \in 1..Len(q) /\ (j = i \/ j \in 1..i - 1)
        BY <1>2
      <4>2. p[i - 1] >= 0 /\ \A l \in 1..i - 1 : w[q[l]] <= p[i - 1]
        BY <2>2
      <4> QED
        BY <1>2, <3>1, <4>1, <4>2
    <3> QED
      BY <1>2, <2>2, <3>1, <3>2
  <2> HIDE DEF Rising
  <2> QED
    BY <1>2, <2>1, <2>2, InductionTo
<1>4. ASSUME \A i \in 1..Len(q) : ~(w[q[i]] > 0) PROVE n = 0
  <2>1. 0 \in Flat
    BY <1>1, <1>2 DEF IsSums
  <2>2. ASSUME NEW i \in 1..Len(q), i - 1 \in Flat PROVE i \in Flat
    <3>1. w[q[i]] = 0
      BY <1>2, <1>4
    <3> QED
      BY <1>1, <1>2, <2>2, <3>1 DEF IsSums
  <2>3. \A i \in 0..Len(q) : i \in Flat
    <3> HIDE DEF Flat
    <3> QED
      BY <1>2, <2>1, <2>2, InductionTo
  <2> QED
    BY <1>1, <1>2, <2>3
<1>5. n \in Int /\ Len(q) \in 0..Len(q)
  BY <1>1, <1>2 DEF IsSums
<1> QED
  BY <1>1, <1>2, <1>3, <1>4, <1>5

(* Nothing weighs nothing else. *)
LEMMA TotalOfNone == ASSUME NEW w, NEW n, Total(<<>>, w, n) PROVE n = 0
  BY DEF Total, IsSums

(* The total is a number, and that of one element is its weight. *)
LEMMA TotalOfFew ==
    ASSUME NEW D, NEW w \in [D -> Int], NEW q \in Seq(D), NEW n, Total(q, w, n)
    PROVE  n \in Int /\ (Len(q) = 1 => n = w[q[1]])
<1>1. PICK p : IsSums(p, q, w) /\ p[Len(q)] = n
  BY DEF Total
<1>2. Len(q) \in 0..Len(q)
  OBVIOUS
<1>3. p[0] = 0 /\ p[Len(q)] \in Int
  BY <1>1, <1>2 DEF IsSums
<1>4. CASE Len(q) = 1
  <2>1. p[1] = p[0] + w[q[1]] /\ q[1] \in D
    <3>1. 1 \in 1..Len(q) /\ 1 - 1 = 0
      BY <1>4
    <3>2. p[1] = p[1 - 1] + w[q[1]]
      BY <1>1, <3>1 DEF IsSums
    <3> QED
      BY <3>1, <3>2
  <2>2. w[q[1]] \in Int
    BY <2>1
  <2> QED
    BY <1>1, <1>3, <1>4, <2>1, <2>2
<1> QED
  BY <1>1, <1>3, <1>4

(* Two ways of weighing the same elements. *)
LEMMA TotalBoth ==
    ASSUME NEW D, NEW v \in [D -> Int], NEW w \in [D -> Int], NEW q \in Seq(D),
           NEW m, NEW n, Total(q, v, m), Total(q, w, n)
    PROVE  Total(q, [d \in D |-> v[d] + w[d]], m + n)
<1>1. PICK p : IsSums(p, q, v) /\ p[Len(q)] = m
  BY DEF Total
<1>2. PICK r : IsSums(r, q, w) /\ r[Len(q)] = n
  BY DEF Total
<1> DEFINE s == [i \in 0..Len(q) |-> p[i] + r[i]]
           u == [d \in D |-> v[d] + w[d]]
<1>3. /\ Len(q) \in 0..Len(q) /\ 0 \in 0..Len(q)
      /\ \A i \in 0..Len(q) : s[i] = p[i] + r[i] /\ p[i] \in Int /\ r[i] \in Int
  BY <1>1, <1>2 DEF IsSums
<1>4. ASSUME NEW i \in 1..Len(q) PROVE s[i] = s[i - 1] + u[q[i]]
  <2>1. q[i] \in D /\ i \in 0..Len(q) /\ i - 1 \in 0..Len(q)
    OBVIOUS
  <2>2. u[q[i]] = v[q[i]] + w[q[i]] /\ v[q[i]] \in Int /\ w[q[i]] \in Int
    BY <2>1
  <2>3. p[i] = p[i - 1] + v[q[i]] /\ r[i] = r[i - 1] + w[q[i]]
    BY <1>1, <1>2 DEF IsSums
  <2> HIDE DEF s, u
  <2> QED
    BY SMTT(40), <1>3, <2>1, <2>2, <2>3
<1> HIDE DEF s
<1>5. IsSums(s, q, u)
  <2>1. s[0] = 0
    BY <1>1, <1>2, <1>3 DEF IsSums
  <2>2. \A i \in 0..Len(q) : s[i] \in Int
    BY SMTT(40), <1>3
  <2> HIDE DEF u
  <2> QED
    BY <1>4, <2>1, <2>2 DEF IsSums
<1> QED
  BY <1>1, <1>2, <1>3, <1>5 DEF Total

(* The running sum a recursive function computes.                            *)
IsRunning(f, q, w) == f = [i \in 0..Len(q) |-> IF i = 0 THEN 0 ELSE f[i - 1] + w[q[i]]]

(* A function that adds the weights up one by one ends with the total. *)
LEMMA RunningSum ==
    ASSUME NEW D, NEW w \in [D -> Int], NEW q \in Seq(D), NEW n, Total(q, w, n)
    PROVE  (\E f : IsRunning(f, q, w)) /\ (\A f : IsRunning(f, q, w) => f[Len(q)] = n)
<1>1. PICK p : IsSums(p, q, w) /\ p[Len(q)] = n
  BY DEF Total
<1> DEFINE Step(g) == [i \in 0..Len(q) |-> IF i = 0 THEN 0 ELSE g[i - 1] + w[q[i]]]
           r == [i \in 0..Len(q) |-> p[i]]
<1>2. r = Step(r)
  <2>1. ASSUME NEW i \in 0..Len(q) PROVE r[i] = IF i = 0 THEN 0 ELSE r[i - 1] + w[q[i]]
    <3>1. CASE i = 0
      BY <1>1, <3>1 DEF IsSums
    <3>2. CASE i # 0
      <4>1. i \in 1..Len(q) /\ i - 1 \in 0..Len(q)
        BY <3>2
      <4> QED
        BY <1>1, <3>2, <4>1 DEF IsSums
    <3> QED
      BY <3>1, <3>2
  <2> QED
    BY <2>1
<1>3. ASSUME NEW f, f = Step(f) PROVE f[Len(q)] = n
  <2> DEFINE Same == {i \in 0..Len(q) : f[i] = p[i]}
  <2>1. 0 \in Same
    <3>1. 0 \in 0..Len(q)
      OBVIOUS
    <3>2. f[0] = 0
      BY <1>3, <3>1
    <3> QED
      BY <1>1, <3>1, <3>2 DEF IsSums
  <2>2. ASSUME NEW i \in 1..Len(q), i - 1 \in Same PROVE i \in Same
    <3>1. i \in 0..Len(q) /\ i # 0
      OBVIOUS
    <3>2. f[i] = f[i - 1] + w[q[i]]
      BY <1>3, <3>1
    <3>3. p[i] = p[i - 1] + w[q[i]]
      BY <1>1 DEF IsSums
    <3> QED
      BY <2>2, <3>1, <3>2, <3>3
  <2>3. Len(q) \in Nat /\ Len(q) \in 0..Len(q)
    OBVIOUS
  <2>4. \A i \in 0..Len(q) : i \in Same
    <3> HIDE DEF Same
    <3> QED
      BY <2>1, <2>2, <2>3, InductionTo
  <2> QED
    BY <1>1, <2>3, <2>4
<1> QED
  BY <1>2, <1>3 DEF IsRunning

(* A sequence has one total. *)
LEMMA TotalUnique ==
    ASSUME NEW D, NEW w \in [D -> Int], NEW q \in Seq(D), NEW m, NEW n, Total(q, w, m), Total(q, w, n)
    PROVE  m = n
<1>1. PICK f : IsRunning(f, q, w)
  BY RunningSum
<1>2. f[Len(q)] = m
  BY <1>1, RunningSum
<1>3. f[Len(q)] = n
  BY <1>1, RunningSum
<1> QED
  BY <1>2, <1>3

(* The weights of the elements of some groups, the others weighing nothing.  *)
OfGroups(w, group, X) == [d \in DOMAIN w |-> IF group[d] \in X THEN w[d] ELSE 0]

(* If no group weighs more than m, all of them weigh at most m each.         *)
LEMMA SharesBound ==
    ASSUME NEW D, NEW w \in [D -> Int], NEW group, NEW q \in Seq(D), NEW m \in Int,
           NEW X, IsFiniteSet(X),
           \A x \in X : \E n : Total(q, OfGroups(w, group, {x}), n) /\ n <= m
    PROVE  \E n : Total(q, OfGroups(w, group, X), n) /\ n <= Cardinality(X) * m
<1> DEFINE Bound(Y) == \E n : Total(q, OfGroups(w, group, Y), n) /\ n <= Cardinality(Y) * m
           Good == {k \in 0..Cardinality(X) : \A Y \in SUBSET X : Cardinality(Y) = k => Bound(Y)}
<1>1. /\ Cardinality(X) \in Nat
      /\ \A Y \in SUBSET X : IsFiniteSet(Y) /\ Cardinality(Y) \in Nat
  BY FS_CardinalityType, FS_Subset
<1>2. \A Y : OfGroups(w, group, Y) \in [D -> Int]
  BY DEF OfGroups
<1>3. 0 \in Good
  <2>1. ASSUME NEW Y \in SUBSET X, Cardinality(Y) = 0 PROVE Bound(Y)
    <3>1. Y = {}
      BY <1>1, <2>1, FS_EmptySet
    <3>2. OfGroups(w, group, {}) = [d \in D |-> 0]
      BY DEF OfGroups
    <3>3. Total(q, [d \in D |-> 0], 0)
      <4>1. IsSums([i \in 0..Len(q) |-> 0], q, [d \in D |-> 0])
        <5>1. ASSUME NEW i \in 1..Len(q)
              PROVE  [d \in D |-> 0][q[i]] = 0 /\ i \in 0..Len(q) /\ i - 1 \in 0..Len(q)
          OBVIOUS
        <5>2. 0 \in 0..Len(q)
          OBVIOUS
        <5> QED
          BY <5>1, <5>2 DEF IsSums
      <4>2. Len(q) \in 0..Len(q)
        OBVIOUS
      <4> QED
        BY <4>1, <4>2 DEF Total
    <3>4. 0 <= Cardinality(Y) * m
      BY <2>1
    <3> QED
      BY <3>1, <3>2, <3>3, <3>4
  <2> QED
    BY <1>1, <2>1
<1>4. ASSUME NEW k \in 1..Cardinality(X), k - 1 \in Good PROVE k \in Good
  <2>1. SUFFICES ASSUME NEW Y \in SUBSET X, Cardinality(Y) = k PROVE Bound(Y)
    BY <1>1
  <2>2. PICK y : y \in Y
    <3>1. Cardinality({}) = 0 /\ Cardinality(Y) # 0
      BY <1>1, <2>1, FS_EmptySet
    <3> QED
      BY <3>1
  <2> DEFINE Z == Y \ {y}
  <2>3. Z \in SUBSET X /\ Cardinality(Z) = k - 1 /\ k \in Int
    <3>1. IsFiniteSet(Y)
      BY <1>1
    <3>2. Cardinality(Z) = Cardinality(Y) - 1
      BY <2>2, <3>1, FS_RemoveElement
    <3> QED
      BY <1>1, <2>1, <3>2
  <2>4. PICK n : Total(q, OfGroups(w, group, Z), n) /\ n <= (k - 1) * m
    BY <1>4, <2>3
  <2>5. PICK l : Total(q, OfGroups(w, group, {y}), l) /\ l <= m
    BY <2>2
  <2>6. n \in Int /\ l \in Int
    BY <1>2, <2>4, <2>5, TotalOfFew
  <2>7. [d \in D |-> OfGroups(w, group, Z)[d] + OfGroups(w, group, {y})[d]] = OfGroups(w, group, Y)
    BY <2>2 DEF OfGroups
  <2>8. Total(q, OfGroups(w, group, Y), n + l)
    <3> HIDE DEF Z
    <3>1. Total(q, [d \in D |-> OfGroups(w, group, Z)[d] + OfGroups(w, group, {y})[d]], n + l)
      BY <1>2, <2>4, <2>5, TotalBoth
    <3> QED
      BY <2>7, <3>1
  <2>9. n + l <= k * m
    <3>1. k * m = (k - 1) * m + m
      BY <2>3
    <3>2. (k - 1) * m \in Int
      BY <2>3
    <3> QED
      BY <2>3, <2>4, <2>5, <2>6, <3>1, <3>2
  <2> QED
    BY <2>1, <2>8, <2>9
<1>5. \A k \in 0..Cardinality(X) : k \in Good
  <2> HIDE DEF Good
  <2> QED
    BY <1>1, <1>3, <1>4, InductionTo
<1>6. Cardinality(X) \in 0..Cardinality(X)
  BY <1>1
<1> QED
  BY <1>5, <1>6
-----------------------------------------------------------------------------
(* The sum of what the elements of a finite set weigh, as MapThenSumSet takes *)
(* it: an element at a time, of each set the one CHOOSE names.               *)
AnyOf(s) == CHOOSE x \in s : TRUE
SumStep(w, S, g) == [s \in SUBSET S |-> IF s = {} THEN 0 ELSE w[AnyOf(s)] + g[s \ {AnyOf(s)}]]
SetSums(w, S) == CHOOSE g : g = SumStep(w, S, g)
SetSum(w, S) == SetSums(w, S)[S]

(* A set without one of its elements is smaller by one. *)
LEMMA AnyOfLess ==
    ASSUME NEW S, IsFiniteSet(S), NEW s \in SUBSET S, s # {}
    PROVE  /\ AnyOf(s) \in s /\ AnyOf(s) \in S /\ s \ {AnyOf(s)} \in SUBSET S
           /\ Cardinality(s) \in Nat /\ Cardinality(s) # 0
           /\ Cardinality(s \ {AnyOf(s)}) = Cardinality(s) - 1
<1>1. AnyOf(s) \in s
  BY DEF AnyOf
<1>2. IsFiniteSet(s)
  BY FS_Subset
<1>3. Cardinality(s) \in Nat /\ Cardinality(s) # 0
  BY <1>2, FS_CardinalityType, FS_EmptySet
<1>4. Cardinality(s \ {AnyOf(s)}) = Cardinality(s) - 1
  BY <1>1, <1>2, FS_RemoveElement
<1> QED
  BY <1>1, <1>3, <1>4

(* The sums of all subsets exist: those of n elements from those of n - 1.   *)
LEMMA SetSumsExist ==
    ASSUME NEW S, IsFiniteSet(S), NEW w \in [S -> Int]
    PROVE  /\ SetSums(w, S) = SumStep(w, S, SetSums(w, S))
           /\ \A s \in SUBSET S : SetSums(w, S)[s] \in Int
<1> DEFINE N == Cardinality(S)
           Small(n) == {s \in SUBSET S : Cardinality(s) <= n}
           Good(g, n) == \A s \in Small(n) : g[s] \in Int /\ g[s] = SumStep(w, S, g)[s]
           T == {n \in 0 .. N : \E g : Good(g, n)}
<1>1. N \in Nat /\ \A s \in SUBSET S : Cardinality(s) \in Nat /\ Cardinality(s) <= N
  BY FS_Subset, FS_CardinalityType
<1>2. \A s \in SUBSET S : s = {} <=> Cardinality(s) = 0
  BY FS_Subset, FS_EmptySet
<1>3. ASSUME NEW g, NEW n \in Nat, Good(g, n), NEW s \in Small(n + 1)
      PROVE  SumStep(w, S, g)[s] \in Int /\ SumStep(w, S, g)[s] = SumStep(w, S, SumStep(w, S, g))[s]
  <2>1. CASE s = {}
    BY <2>1 DEF SumStep
  <2>2. CASE s # {}
    <3> DEFINE x == AnyOf(s)
               r == s \ {x}
    <3>1. x \in S /\ r \in SUBSET S /\ Cardinality(s) \in Nat /\ Cardinality(r) = Cardinality(s) - 1
      BY <2>2, AnyOfLess
    <3>2. r \in Small(n)
      BY <3>1, <1>1
    <3>3. g[r] \in Int /\ g[r] = SumStep(w, S, g)[r]
      BY <3>2, <1>3
    <3>4. SumStep(w, S, g)[s] = w[x] + g[r]
      BY <2>2 DEF SumStep
    <3>5. SumStep(w, S, SumStep(w, S, g))[s] = w[x] + SumStep(w, S, g)[r]
      BY <2>2 DEF SumStep
    <3>6. w[x] \in Int
      BY <3>1
    <3> HIDE DEF r, x
    <3> QED
      BY <3>3, <3>4, <3>5, <3>6
  <2> QED
    BY <2>1, <2>2
<1>4. 0 \in T
  <2> DEFINE g == [s \in SUBSET S |-> 0]
  <2>1. Good(g, 0)
    <3>1. \A s \in Small(0) : s = {}
      BY <1>1, <1>2
    <3>2. SumStep(w, S, g)[{}] = 0 /\ g[{}] = 0
      BY DEF SumStep
    <3>3. ASSUME NEW s \in Small(0) PROVE g[s] \in Int /\ g[s] = SumStep(w, S, g)[s]
      <4>1. s = {} /\ s \in SUBSET S
        BY <3>1
      <4> QED
        BY <4>1, <3>2
    <3> QED
      BY <3>3
  <2> QED
    BY <2>1, <1>1
<1>5. ASSUME NEW i \in 1 .. N, i - 1 \in T PROVE i \in T
  <2>1. PICK g : Good(g, i - 1)
    BY <1>5
  <2>2. i - 1 \in Nat /\ (i - 1) + 1 = i
    BY <1>1
  <2>3. Good(SumStep(w, S, g), i)
    BY <1>3, <2>1, <2>2
  <2> QED
    BY <2>3, <1>1
<1>6. N \in T
  <2> HIDE DEF T, N
  <2>1. \A i \in 0 .. N : i \in T
    BY <1>1, <1>4, <1>5, InductionTo
  <2> QED
    BY <2>1, <1>1
<1>7. PICK g : Good(g, N)
  BY <1>6
<1> DEFINE h == SumStep(w, S, g)
<1>8. \A s \in SUBSET S : h[s] = g[s]
  BY <1>7, <1>1
<1>9. h = SumStep(w, S, h)
  <2>1. \A s \in SUBSET S : SumStep(w, S, h)[s] = SumStep(w, S, g)[s]
    BY <1>8 DEF SumStep
  <2>2. h = [s \in SUBSET S |-> h[s]]
    BY DEF SumStep
  <2>3. SumStep(w, S, h) = [s \in SUBSET S |-> SumStep(w, S, h)[s]]
    BY DEF SumStep
  <2> QED
    BY <2>1, <2>2, <2>3
<1>10. SetSums(w, S) = SumStep(w, S, SetSums(w, S))
  BY <1>9 DEF SetSums
<1> DEFINE G == SetSums(w, S)
           U == {n \in 0 .. N : \A s \in Small(n) : G[s] \in Int}
<1>11. /\ G[{}] = 0
       /\ \A s \in SUBSET S : s # {} => G[s] = w[AnyOf(s)] + G[s \ {AnyOf(s)}]
  <2>0. G = SumStep(w, S, G)
    BY <1>10
  <2> HIDE DEF G
  <2>1. \A s \in SUBSET S : G[s] = IF s = {} THEN 0 ELSE w[AnyOf(s)] + G[s \ {AnyOf(s)}]
    <3> DEFINE body(s) == IF s = {} THEN 0 ELSE w[AnyOf(s)] + G[s \ {AnyOf(s)}]
    <3>1. SumStep(w, S, G) = [s \in SUBSET S |-> body(s)]
      BY DEF SumStep
    <3> HIDE DEF body
    <3>2. \A s \in SUBSET S : G[s] = body(s)
      BY <2>0, <3>1
    <3> QED
      BY <3>2 DEF body
  <2> QED
    BY <2>1
<1> HIDE DEF G
<1>12. 0 \in U
  <2>1. \A s \in Small(0) : s = {}
    BY <1>1, <1>2
  <2>2. G[{}] \in Int /\ 0 \in 0 .. N
    BY <1>11, <1>1
  <2> QED
    BY <2>1, <2>2
<1>13. ASSUME NEW i \in 1 .. N, i - 1 \in U PROVE i \in U
  <2>1. ASSUME NEW s \in Small(i), s # {} PROVE G[s] \in Int
    <3> DEFINE x == AnyOf(s)
               r == s \ {x}
    <3>1. x \in S /\ r \in SUBSET S /\ Cardinality(s) \in Nat /\ Cardinality(r) = Cardinality(s) - 1
      BY <2>1, AnyOfLess
    <3>2. G[r] \in Int
      BY <3>1, <1>1, <1>13
    <3>3. G[s] = w[x] + G[r] /\ w[x] \in Int
      BY <2>1, <3>1, <1>11
    <3> QED
      BY <3>2, <3>3
  <2>2. G[{}] \in Int
    BY <1>11
  <2> QED
    BY <2>1, <2>2
<1>14. N \in U
  <2> HIDE DEF U, N
  <2>1. \A i \in 0 .. N : i \in U
    BY <1>1, <1>12, <1>13, InductionTo
  <2> QED
    BY <2>1, <1>1
<1> QED
  BY <1>1, <1>10, <1>14 DEF G

LEMMA SetSumSteps ==
    ASSUME NEW S, IsFiniteSet(S), NEW w \in [S -> Int]
    PROVE  /\ SetSums(w, S)[{}] = 0
           /\ \A s \in SUBSET S :
                 s # {} => SetSums(w, S)[s] = w[AnyOf(s)] + SetSums(w, S)[s \ {AnyOf(s)}]
<1> DEFINE G == SetSums(w, S)
           body(s) == IF s = {} THEN 0 ELSE w[AnyOf(s)] + G[s \ {AnyOf(s)}]
<1>1. G = SumStep(w, S, G)
  BY SetSumsExist
<1>2. SumStep(w, S, G) = [s \in SUBSET S |-> body(s)]
  BY DEF SumStep
<1> HIDE DEF G
<1>3. \A s \in SUBSET S : G[s] = body(s)
  <2> HIDE DEF body
  <2> QED
    BY <1>1, <1>2
<1>4. G[{}] = 0 /\ \A s \in SUBSET S : s # {} => G[s] = w[AnyOf(s)] + G[s \ {AnyOf(s)}]
  BY <1>3
<1> QED
  BY <1>4 DEF G

LEMMA SetSumType ==
    ASSUME NEW S, IsFiniteSet(S), NEW w \in [S -> Int] PROVE SetSum(w, S) \in Int
  BY SetSumsExist DEF SetSum

(* What holds of the empty set, and of each subset when of the one with an    *)
(* element less, holds of all of a finite set.                              *)
LEMMA SubsetInduction ==
    ASSUME NEW S, IsFiniteSet(S), NEW T, {} \in T,
           \A s \in SUBSET S : s # {} /\ s \ {AnyOf(s)} \in T => s \in T
    PROVE  S \in T
<1> DEFINE N == Cardinality(S)
           Small(n) == {s \in SUBSET S : Cardinality(s) <= n}
           U == {n \in 0 .. N : Small(n) \subseteq T}
<1>1. N \in Nat /\ \A s \in SUBSET S : Cardinality(s) \in Nat /\ Cardinality(s) <= N
  BY FS_Subset, FS_CardinalityType
<1>2. \A s \in SUBSET S : s = {} <=> Cardinality(s) = 0
  BY FS_Subset, FS_EmptySet
<1>3. 0 \in U
  <2>1. \A s \in Small(0) : s = {}
    BY <1>1, <1>2
  <2>2. Small(0) \subseteq T
    <3> HIDE DEF Small
    <3> QED
      BY <2>1
  <2>3. 0 \in 0 .. N
    <3> HIDE DEF N
    <3> QED
      BY <1>1
  <2> HIDE DEF Small, N
  <2> QED
    BY <2>2, <2>3
<1>4. ASSUME NEW i \in 1 .. N, i - 1 \in U PROVE i \in U
  <2>1. ASSUME NEW s \in Small(i), s # {} PROVE s \in T
    <3> DEFINE r == s \ {AnyOf(s)}
    <3>1. r \in SUBSET S /\ Cardinality(s) \in Nat /\ Cardinality(r) = Cardinality(s) - 1
      BY <2>1, AnyOfLess
    <3>2. r \in T
      BY <3>1, <1>1, <1>4
    <3> QED
      BY <3>2, <2>1
  <2> QED
    BY <2>1
<1>5. N \in U
  <2> HIDE DEF U, N
  <2>1. \A i \in 0 .. N : i \in U
    BY <1>1, <1>3, <1>4, InductionTo
  <2> QED
    BY <2>1, <1>1
<1> QED
  BY <1>1, <1>5

(* The sum when one element weighs something else.                          *)
LEMMA SetSumUpdate ==
    ASSUME NEW S, IsFiniteSet(S), NEW w \in [S -> Int], NEW v \in [S -> Int], NEW c \in S,
           \A x \in S \ {c} : v[x] = w[x]
    PROVE  SetSum(v, S) = SetSum(w, S) + v[c] - w[c]
<1> DEFINE A == SetSums(w, S)
           B == SetSums(v, S)
           T == {s \in SUBSET S : B[s] = A[s] + (IF c \in s THEN v[c] - w[c] ELSE 0)}
<1>1. A[{}] = 0 /\ \A s \in SUBSET S : s # {} => A[s] = w[AnyOf(s)] + A[s \ {AnyOf(s)}]
  BY SetSumSteps
<1>2. B[{}] = 0 /\ \A s \in SUBSET S : s # {} => B[s] = v[AnyOf(s)] + B[s \ {AnyOf(s)}]
  BY SetSumSteps
<1>3. \A s \in SUBSET S : A[s] \in Int /\ B[s] \in Int
  BY SetSumsExist
<1> HIDE DEF A, B
<1>4. {} \in T
  BY <1>1, <1>2
<1>5. ASSUME NEW s \in SUBSET S, s # {}, s \ {AnyOf(s)} \in T PROVE s \in T
  <2> DEFINE x == AnyOf(s)
             r == s \ {x}
  <2>1. x \in s /\ x \in S /\ r \in SUBSET S
    BY <1>5, AnyOfLess
  <2>2. A[s] = w[x] + A[r] /\ B[s] = v[x] + B[r] /\ A[r] \in Int /\ B[r] \in Int
    BY <1>1, <1>2, <1>3, <1>5, <2>1
  <2>3. B[r] = A[r] + (IF c \in r THEN v[c] - w[c] ELSE 0)
    BY <1>5
  <2>4. v[c] \in Int /\ w[c] \in Int /\ v[x] \in Int /\ w[x] \in Int
    BY <2>1
  <2>5. CASE x = c
    <3>1. c \notin r /\ c \in s
      BY <2>1, <2>5
    <3>2. B[r] = A[r]
      BY <2>2, <2>3, <3>1
    <3>3. B[s] = A[s] + (v[c] - w[c])
      BY <2>2, <2>4, <2>5, <3>2
    <3> QED
      BY <3>1, <3>3
  <2>6. CASE x # c
    <3>1. v[x] = w[x] /\ (c \in r <=> c \in s)
      BY <2>1, <2>6
    <3> HIDE DEF r, x
    <3>2. CASE c \in s
      BY <2>2, <2>3, <2>4, <3>1, <3>2
    <3>3. CASE c \notin s
      BY <2>2, <2>3, <2>4, <3>1, <3>3
    <3> QED
      BY <3>2, <3>3
  <2> QED
    BY <2>5, <2>6
<1>6. S \in T
  <2> HIDE DEF T
  <2> QED
    BY <1>4, <1>5, SubsetInduction
<1>7. B[S] = A[S] + (v[c] - w[c]) /\ A[S] \in Int
  BY <1>3, <1>6
<1>8. v[c] \in Int /\ w[c] \in Int
  OBVIOUS
<1>9. B[S] = A[S] + v[c] - w[c]
  BY <1>7, <1>8
<1> QED
  BY <1>9 DEF SetSum, A, B

LEMMA SetSumZero ==
    ASSUME NEW S, IsFiniteSet(S), NEW w \in [S -> Int], \A x \in S : w[x] = 0
    PROVE  SetSum(w, S) = 0
<1> DEFINE A == SetSums(w, S)
           T == {s \in SUBSET S : A[s] = 0}
<1>1. A[{}] = 0 /\ \A s \in SUBSET S : s # {} => A[s] = w[AnyOf(s)] + A[s \ {AnyOf(s)}]
  BY SetSumSteps
<1> HIDE DEF A
<1>2. {} \in T
  BY <1>1
<1>3. ASSUME NEW s \in SUBSET S, s # {}, s \ {AnyOf(s)} \in T PROVE s \in T
  <2>1. AnyOf(s) \in S /\ w[AnyOf(s)] = 0
    BY <1>3, AnyOfLess
  <2>2. A[s] = 0
    <3>1. A[s] = w[AnyOf(s)] + A[s \ {AnyOf(s)}] /\ A[s \ {AnyOf(s)}] = 0
      BY <1>1, <1>3
    <3> QED
      BY <3>1, <2>1
  <2> QED
    BY <2>2
<1>4. S \in T
  <2> HIDE DEF T
  <2> QED
    BY <1>2, <1>3, SubsetInduction
<1> QED
  BY <1>4 DEF SetSum, A
-----------------------------------------------------------------------------
(* The elements of a finite set of numbers in their order: the k-th has k - 1  *)
(* others below it.                                                          *)
KthOf(I, k) == CHOOSE i \in I : Cardinality({j \in I : j < i}) = k - 1
InOrderOf(q, I) == [k \in 1..Cardinality(I) |-> q[KthOf(I, k)]]

(* How many are below tells two elements apart.                              *)
LEMMA BelowTellsApart ==
    ASSUME NEW I \in SUBSET Int, IsFiniteSet(I), NEW i \in I
    PROVE  /\ Cardinality({j \in I : j < i}) \in 0..Cardinality(I) - 1 /\ Cardinality(I) \in Nat
           /\ \A h \in I : h < i => Cardinality({j \in I : j < h}) < Cardinality({j \in I : j < i})
<1> DEFINE B(h) == {j \in I : j < h}
<1>1. Cardinality(I) \in Nat
  BY FS_CardinalityType
<1>2. ASSUME NEW h \in I PROVE IsFiniteSet(B(h)) /\ Cardinality(B(h)) \in Nat
  BY FS_Subset, FS_CardinalityType
<1>3. Cardinality(B(i)) < Cardinality(I)
  <2>1. B(i) \in SUBSET I /\ B(i) # I
    OBVIOUS
  <2>2. Cardinality(B(i)) <= Cardinality(I) /\ Cardinality(B(i)) # Cardinality(I)
    <3> HIDE DEF B
    <3> QED
      BY <2>1, FS_Subset
  <2> QED
    BY <1>1, <1>2, <2>2
<1>4. ASSUME NEW h \in I, h < i PROVE Cardinality(B(h)) < Cardinality(B(i))
  <2>1. B(h) \in SUBSET B(i) /\ B(h) # B(i)
    <3>1. \A j \in I : j < h => j < i
      BY <1>4
    <3>2. h \in B(i) /\ h \notin B(h)
      BY <1>4
    <3> QED
      BY <3>1, <3>2
  <2>2. Cardinality(B(h)) <= Cardinality(B(i)) /\ Cardinality(B(h)) # Cardinality(B(i))
    <3>1. IsFiniteSet(B(i))
      BY <1>2
    <3> HIDE DEF B
    <3> QED
      BY <2>1, <3>1, FS_Subset
  <2> QED
    BY <1>2, <2>2
<1> QED
  BY <1>1, <1>2, <1>3, <1>4

(* Each place has its element, and each element its place.                   *)
LEMMA KthOfFacts ==
    ASSUME NEW I \in SUBSET Int, IsFiniteSet(I)
    PROVE  /\ \A k \in 1..Cardinality(I) : KthOf(I, k) \in I
           /\ \A k, l \in 1..Cardinality(I) : KthOf(I, k) = KthOf(I, l) => k = l
           /\ \A i \in I : \E k \in 1..Cardinality(I) : KthOf(I, k) = i
<1> DEFINE N == Cardinality(I)
           rank(i) == Cardinality({j \in I : j < i})
           f == [i \in I |-> rank(i) + 1]
<1>1. N \in Nat /\ \A i \in I : rank(i) \in 0..N - 1
  BY BelowTellsApart, FS_CardinalityType
<1>2. \A h, i \in I : h < i => rank(h) < rank(i)
  BY BelowTellsApart
<1> HIDE DEF rank
<1>3. \A h, i \in I : rank(h) = rank(i) => h = i
  <2>1. ASSUME NEW h \in I, NEW i \in I, rank(h) = rank(i), h # i PROVE FALSE
    <3>1. h < i \/ i < h
      BY <2>1
    <3> QED
      BY <1>1, <1>2, <2>1, <3>1
  <2> QED
    BY <2>1
<1>4. f \in Injection(I, 1..N)
  <2>1. \A i \in I : rank(i) + 1 \in 1..N
    BY <1>1
  <2>2. f \in [I -> 1..N]
    BY <2>1
  <2>3. \A h, i \in I : f[h] = f[i] => h = i
    BY <1>1, <1>3
  <2> HIDE DEF f
  <2> QED
    BY <2>2, <2>3, Fun_IsInj DEF Injection, IsInjective
<1>5. f \in Surjection(I, 1..N)
  <2>1. IsFiniteSet(1..N) /\ Cardinality(1..N) = N
    BY <1>1, FS_Interval
  <2> HIDE DEF f
  <2> QED
    BY <1>4, <2>1, FS_Injection DEF N
<1>6. \A k \in 1..N : \E i \in I : rank(i) = k - 1
  <2>1. ASSUME NEW k \in 1..N PROVE \E i \in I : f[i] = k
    <3> HIDE DEF f
    <3> QED
      BY <1>5 DEF Surjection
  <2> QED
    BY <1>1, <2>1
<1>7. \A k \in 1..N : KthOf(I, k) \in I /\ rank(KthOf(I, k)) = k - 1
  BY <1>6 DEF KthOf, rank
<1>8. ASSUME NEW i \in I PROVE \E k \in 1..N : KthOf(I, k) = i
  <2>1. rank(i) + 1 \in 1..N /\ rank(i) \in Int
    BY <1>1
  <2>2. rank(KthOf(I, rank(i) + 1)) = rank(i) /\ KthOf(I, rank(i) + 1) \in I
    BY <1>7, <2>1
  <2> QED
    BY <1>3, <2>1, <2>2
<1>9. ASSUME NEW k \in 1..N, NEW l \in 1..N, KthOf(I, k) = KthOf(I, l) PROVE k = l
  <2>1. k - 1 = l - 1
    BY <1>7, <1>9
  <2> QED
    BY <2>1, <1>1
<1> QED
  BY <1>7, <1>8, <1>9

(* What is left of a sequence at some of its places: each element at one of  *)
(* them has one place in the result.                                         *)
LEMMA InOrderFacts ==
    ASSUME NEW D, NEW q \in Seq(D), NEW I \in SUBSET (1..Len(q))
    PROVE  /\ InOrderOf(q, I) \in Seq(D) /\ Len(InOrderOf(q, I)) = Cardinality(I)
           /\ \A k \in 1..Cardinality(I) : KthOf(I, k) \in I /\ InOrderOf(q, I)[k] = q[KthOf(I, k)]
           /\ \A k, l \in 1..Cardinality(I) : KthOf(I, k) = KthOf(I, l) => k = l
           /\ \A i \in I : \E k \in 1..Cardinality(I) : KthOf(I, k) = i
           /\ IsFiniteSet(I) /\ Cardinality(I) \in Nat
<1>1. IsFiniteSet(I) /\ I \in SUBSET Int
  <2>1. Len(q) \in Int /\ 1 \in Int
    OBVIOUS
  <2>2. IsFiniteSet(1..Len(q)) /\ I \in SUBSET Int
    BY <2>1, FS_Interval
  <2> QED
    BY <2>2, FS_Subset
<1>2. Cardinality(I) \in Nat
  BY <1>1, FS_CardinalityType
<1>3. /\ \A k \in 1..Cardinality(I) : KthOf(I, k) \in I
      /\ \A k, l \in 1..Cardinality(I) : KthOf(I, k) = KthOf(I, l) => k = l
      /\ \A i \in I : \E k \in 1..Cardinality(I) : KthOf(I, k) = i
  BY <1>1, KthOfFacts
<1>4. \A k \in 1..Cardinality(I) : InOrderOf(q, I)[k] = q[KthOf(I, k)]
  BY DEF InOrderOf
<1>5. InOrderOf(q, I) \in [1..Cardinality(I) -> D]
  <2>1. \A i \in I : q[i] \in D
    BY ElementOfSeq
  <2>2. \A k \in 1..Cardinality(I) : q[KthOf(I, k)] \in D
    BY <1>3, <2>1
  <2> QED
    BY <2>2 DEF InOrderOf
<1>6. InOrderOf(q, I) \in Seq(D) /\ Len(InOrderOf(q, I)) = Cardinality(I)
  <2> HIDE DEF InOrderOf
  <2> QED
    BY <1>2, <1>5, SeqDef, LenProperties
<1> QED
  BY <1>1, <1>2, <1>3, <1>4, <1>6

-----------------------------------------------------------------------------
(* The spans a sequence of entries holds, and those of some of them.         *)
SpansHeldAt(q, I) == UNION {ToSet(q[i].spans) : i \in I}
SpansHeld(q) == SpansHeldAt(q, DOMAIN q)

Injective(q) == \A a, b \in DOMAIN q : q[a] = q[b] => a = b

(* One entry a trace, that holds spans of this trace, each of them once, and  *)
(* none when it is retained.                                                 *)
EntryTidy(e, traceOf) ==
    /\ e.retained => e.spans = <<>>
    /\ \A a \in DOMAIN e.spans : traceOf[e.spans[a]] = e.trace
    /\ Injective(e.spans)
TidyEntries(q, traceOf) ==
    /\ \A i, j \in DOMAIN q : q[i].trace = q[j].trace => i = j
    /\ \A i \in DOMAIN q : EntryTidy(q[i], traceOf)

LEMMA HeldElement ==
    ASSUME NEW q, NEW I, NEW s
    PROVE  s \in SpansHeldAt(q, I) <=> \E i \in I : \E a \in DOMAIN q[i].spans : q[i].spans[a] = s
  BY DEF SpansHeldAt, ToSet, Range

(* Some of the entries, each once.                                           *)
LEMMA SomeOfTidy ==
    ASSUME NEW q, NEW r, NEW traceOf, TidyEntries(q, traceOf), NEW g \in [DOMAIN r -> DOMAIN q],
           \A k, l \in DOMAIN r : g[k] = g[l] => k = l, \A k \in DOMAIN r : r[k] = q[g[k]]
    PROVE  /\ TidyEntries(r, traceOf) /\ SpansHeld(r) = SpansHeldAt(q, {g[k] : k \in DOMAIN r})
           /\ SpansHeld(r) \subseteq SpansHeld(q)
<1>1. TidyEntries(r, traceOf)
  <2>1. \A i, j \in DOMAIN r : r[i].trace = r[j].trace => i = j
    BY DEF TidyEntries, EntryTidy
  <2>2. \A i \in DOMAIN r : EntryTidy(r[i], traceOf)
    BY DEF TidyEntries
  <2> QED
    BY <2>1, <2>2 DEF TidyEntries
<1>2. SpansHeld(r) = SpansHeldAt(q, {g[k] : k \in DOMAIN r})
  <2>1. ASSUME NEW s PROVE s \in SpansHeld(r) <=> s \in SpansHeldAt(q, {g[k] : k \in DOMAIN r})
    BY HeldElement DEF SpansHeld
  <2> QED
    BY <2>1
<1>3. SpansHeld(r) \subseteq SpansHeld(q)
  <2>1. ASSUME NEW s \in SpansHeld(r) PROVE s \in SpansHeld(q)
    BY HeldElement DEF SpansHeld
  <2> QED
    BY <2>1
<1> QED
  BY <1>1, <1>2, <1>3

(* Two entries hold no span in common.                                       *)
LEMMA HeldApart ==
    ASSUME NEW q, NEW traceOf, TidyEntries(q, traceOf), NEW i \in DOMAIN q, NEW j \in DOMAIN q, i # j
    PROVE  ToSet(q[i].spans) \cap ToSet(q[j].spans) = {}
<1>1. SUFFICES ASSUME NEW a \in DOMAIN q[i].spans, NEW b \in DOMAIN q[j].spans,
                      q[i].spans[a] = q[j].spans[b]
               PROVE  FALSE
  BY DEF ToSet, Range
<1>2. q[i].trace = q[j].trace
  BY <1>1 DEF TidyEntries, EntryTidy
<1> QED
  BY <1>2 DEF TidyEntries, EntryTidy

(* The entries at some places, and the others.                               *)
LEMMA HeldLess ==
    ASSUME NEW q, NEW traceOf, TidyEntries(q, traceOf), NEW I \in SUBSET (DOMAIN q)
    PROVE  /\ SpansHeldAt(q, DOMAIN q \ I) = SpansHeld(q) \ SpansHeldAt(q, I)
           /\ SpansHeldAt(q, I) \subseteq SpansHeld(q)
<1>1. ASSUME NEW s \in SpansHeldAt(q, DOMAIN q \ I), s \in SpansHeldAt(q, I) PROVE FALSE
  <2>1. PICK i \in DOMAIN q \ I : s \in ToSet(q[i].spans)
    BY DEF SpansHeldAt
  <2>2. PICK j \in I : s \in ToSet(q[j].spans)
    BY <1>1 DEF SpansHeldAt
  <2>3. ToSet(q[i].spans) \cap ToSet(q[j].spans) = {}
    BY HeldApart
  <2> QED
    BY <2>1, <2>2, <2>3
<1>2. SpansHeld(q) = SpansHeldAt(q, DOMAIN q \ I) \cup SpansHeldAt(q, I)
  BY DEF SpansHeld, SpansHeldAt
<1> QED
  BY <1>1, <1>2

(* A sequence without repeats has as many elements as places.                *)
LEMMA InjectiveCount ==
    ASSUME NEW S, NEW q \in Seq(S), Injective(q)
    PROVE  /\ IsFiniteSet(ToSet(q)) /\ Cardinality(ToSet(q)) = Len(q) /\ ToSet(q) \subseteq S
           /\ \A s : Cardinality({i \in DOMAIN q : q[i] = s}) = IF s \in ToSet(q) THEN 1 ELSE 0
<1>1. Len(q) \in Nat /\ DOMAIN q = 1..Len(q) /\ ToSet(q) \subseteq S
  <2>1. Len(q) \in Nat /\ DOMAIN q = 1..Len(q)
    OBVIOUS
  <2>2. \A i \in 1..Len(q) : q[i] \in S
    BY ElementOfSeq
  <2> QED
    BY <2>1, <2>2 DEF ToSet, Range
<1>2. IsFiniteSet(1..Len(q)) /\ Cardinality(1..Len(q)) = Len(q)
  BY <1>1, FS_Interval
<1>3. q \in Surjection(1..Len(q), ToSet(q)) /\ q \in Injection(1..Len(q), ToSet(q))
  <2>1. q \in [1..Len(q) -> ToSet(q)]
    BY <1>1 DEF ToSet, Range
  <2>2. \A t \in ToSet(q) : \E i \in 1..Len(q) : q[i] = t
    BY <1>1 DEF ToSet, Range
  <2>3. \A a, b \in 1..Len(q) : q[a] = q[b] => a = b
    BY <1>1 DEF Injective
  <2> QED
    BY <2>1, <2>2, <2>3, Fun_IsInj DEF Surjection, Injection, IsInjective
<1>4. IsFiniteSet(ToSet(q)) /\ Cardinality(ToSet(q)) = Len(q)
  BY <1>2, <1>3, FS_Surjection
<1>5. ASSUME NEW s PROVE Cardinality({i \in DOMAIN q : q[i] = s}) = IF s \in ToSet(q) THEN 1 ELSE 0
  <2>1. CASE s \in ToSet(q)
    <3>1. PICK i \in DOMAIN q : q[i] = s
      BY <2>1 DEF ToSet, Range
    <3>2. {j \in DOMAIN q : q[j] = s} = {i}
      BY <3>1 DEF Injective
    <3> QED
      BY <2>1, <3>2, FS_Singleton
  <2>2. CASE s \notin ToSet(q)
    <3>1. {j \in DOMAIN q : q[j] = s} = {}
      BY <2>2 DEF ToSet, Range
    <3> QED
      BY <2>2, <3>1, FS_EmptySet
  <2> QED
    BY <2>1, <2>2
<1> QED
  BY <1>1, <1>4, <1>5

(* How many spans some entries hold: the sum over the entries.               *)
LEMMA HeldCount ==
    ASSUME NEW S, NEW q, NEW traceOf, TidyEntries(q, traceOf), \A i \in DOMAIN q : q[i].spans \in Seq(S),
           NEW I \in SUBSET (DOMAIN q), IsFiniteSet(I)
    PROVE  /\ IsFiniteSet(SpansHeldAt(q, I)) /\ Cardinality(SpansHeldAt(q, I)) \in Nat
           /\ Cardinality(SpansHeldAt(q, I)) = SetSum([i \in I |-> Len(q[i].spans)], I)
<1> DEFINE w == [i \in I |-> Len(q[i].spans)]
           A == SetSums(w, I)
           T == {J \in SUBSET I : IsFiniteSet(SpansHeldAt(q, J)) /\ Cardinality(SpansHeldAt(q, J)) = A[J]}
<1>1. \A i \in I : w[i] = Len(q[i].spans) /\ w[i] \in Int
  OBVIOUS
<1>2. w \in [I -> Int]
  BY <1>1
<1> HIDE DEF w
<1>3. A[{}] = 0 /\ \A J \in SUBSET I : J # {} => A[J] = w[AnyOf(J)] + A[J \ {AnyOf(J)}]
  BY <1>2, SetSumSteps
<1>4. \A J \in SUBSET I : A[J] \in Int
  BY <1>2, SetSumsExist
<1>5. A[I] = SetSum(w, I)
  BY DEF SetSum
<1> HIDE DEF A
<1>6. {} \in T
  <2>1. SpansHeldAt(q, {}) = {}
    BY DEF SpansHeldAt
  <2> QED
    BY <1>3, <2>1, FS_EmptySet
<1>7. ASSUME NEW J \in SUBSET I, J # {}, J \ {AnyOf(J)} \in T PROVE J \in T
  <2> DEFINE x == AnyOf(J)
             K == J \ {x}
             X == ToSet(q[x].spans)
  <2>1. x \in J /\ x \in DOMAIN q /\ K \in SUBSET I
    BY <1>7, AnyOfLess
  <2>2. SpansHeldAt(q, J) = SpansHeldAt(q, K) \cup X
    BY <2>1 DEF SpansHeldAt
  <2>3. SpansHeldAt(q, K) \cap X = {}
    <3>1. ASSUME NEW s \in SpansHeldAt(q, K), s \in X PROVE FALSE
      <4>1. PICK i \in K : s \in ToSet(q[i].spans)
        BY DEF SpansHeldAt
      <4>2. i \in DOMAIN q /\ i # x
        BY <4>1
      <4>3. ToSet(q[i].spans) \cap ToSet(q[x].spans) = {}
        BY <2>1, <4>2, HeldApart
      <4> QED
        BY <3>1, <4>1, <4>3
    <3> QED
      BY <3>1
  <2>4. IsFiniteSet(X) /\ Cardinality(X) = Len(q[x].spans)
    <3>1. q[x].spans \in Seq(S) /\ Injective(q[x].spans)
      BY <2>1 DEF TidyEntries, EntryTidy
    <3> HIDE DEF x
    <3> QED
      BY <3>1, InjectiveCount
  <2>5. IsFiniteSet(SpansHeldAt(q, K)) /\ Cardinality(SpansHeldAt(q, K)) = A[K] /\ A[K] \in Int
    BY <1>4, <1>7
  <2>6. A[J] = w[x] + A[K] /\ w[x] = Len(q[x].spans) /\ w[x] \in Int
    BY <1>1, <1>3, <1>7, <2>1
  <2> HIDE DEF x, K, X
  <2>7. /\ IsFiniteSet(SpansHeldAt(q, K) \cup X)
        /\ Cardinality(SpansHeldAt(q, K) \cup X) = Cardinality(SpansHeldAt(q, K)) + Cardinality(X) - Cardinality(SpansHeldAt(q, K) \cap X)
    BY <2>4, <2>5, FS_Union
  <2>8. Cardinality(SpansHeldAt(q, K) \cap X) = 0
    BY <2>3, FS_EmptySet
  <2>9. Cardinality(SpansHeldAt(q, J)) = A[J] /\ IsFiniteSet(SpansHeldAt(q, J))
    BY <2>2, <2>4, <2>5, <2>6, <2>7, <2>8
  <2> QED
    BY <2>9
<1>8. I \in T
  <2> HIDE DEF T
  <2> QED
    BY <1>6, <1>7, SubsetInduction
<1>9. Cardinality(SpansHeldAt(q, I)) = SetSum(w, I) /\ IsFiniteSet(SpansHeldAt(q, I))
  BY <1>5, <1>8
<1> QED
  BY <1>9, FS_CardinalityType DEF w

(* An entry put in the place of another of its trace.                        *)
LEMMA PutTidy ==
    ASSUME NEW q, NEW r, NEW traceOf, TidyEntries(q, traceOf), DOMAIN r = DOMAIN q, NEW i \in DOMAIN q,
           \A j \in DOMAIN q \ {i} : r[j] = q[j], r[i].trace = q[i].trace,
           EntryTidy(r[i], traceOf)
    PROVE  TidyEntries(r, traceOf) /\ SpansHeld(r) = (SpansHeld(q) \ ToSet(q[i].spans)) \cup ToSet(r[i].spans)
<1>1. \A j \in DOMAIN r : r[j].trace = q[j].trace
  OBVIOUS
<1>2. TidyEntries(r, traceOf)
  <2>1. \A j, k \in DOMAIN r : r[j].trace = r[k].trace => j = k
    BY <1>1 DEF TidyEntries
  <2>2. \A j \in DOMAIN r : EntryTidy(r[j], traceOf)
    BY DEF TidyEntries
  <2> QED
    BY <2>1, <2>2 DEF TidyEntries
<1>3. SpansHeld(r) = SpansHeldAt(q, DOMAIN q \ {i}) \cup ToSet(r[i].spans)
  BY DEF SpansHeld, SpansHeldAt
<1>4. SpansHeldAt(q, DOMAIN q \ {i}) = SpansHeld(q) \ SpansHeldAt(q, {i})
  <2>1. {i} \in SUBSET (DOMAIN q)
    OBVIOUS
  <2> QED
    BY <2>1, HeldLess
<1>5. SpansHeldAt(q, {i}) = ToSet(q[i].spans)
  BY DEF SpansHeldAt
<1> QED
  BY <1>2, <1>3, <1>4, <1>5

(* A new entry at the end, without spans.                                    *)
LEMMA AppendTidy ==
    ASSUME NEW D, NEW q \in Seq(D), NEW traceOf, TidyEntries(q, traceOf), NEW e \in D, e.spans = <<>>,
           \A i \in DOMAIN q : q[i].trace # e.trace
    PROVE  TidyEntries(Append(q, e), traceOf) /\ SpansHeld(Append(q, e)) = SpansHeld(q)
<1> DEFINE r == Append(q, e)
           n == Len(q) + 1
<1>1. /\ Len(q) \in Nat /\ DOMAIN q = 1..Len(q) /\ DOMAIN r = 1..n /\ r[n] = e
      /\ \A i \in DOMAIN q : r[i] = q[i]
  BY AppendProperties
<1> HIDE DEF r
<1>2. DOMAIN r = DOMAIN q \cup {n} /\ n \notin DOMAIN q
  BY <1>1
<1>3. DOMAIN e.spans = {} /\ ToSet(e.spans) = {}
  <2>1. DOMAIN e.spans = {}
    OBVIOUS
  <2> QED
    BY <2>1 DEF ToSet, Range
<1> HIDE DEF n
<1>4. TidyEntries(r, traceOf)
  <2>1. \A j, k \in DOMAIN r : r[j].trace = r[k].trace => j = k
    BY <1>1, <1>2 DEF TidyEntries
  <2>2. EntryTidy(e, traceOf)
    BY <1>3 DEF EntryTidy, Injective
  <2>3. \A j \in DOMAIN r : EntryTidy(r[j], traceOf)
    BY <1>1, <1>2, <2>2 DEF TidyEntries
  <2> QED
    BY <2>1, <2>3 DEF TidyEntries
<1>5. SpansHeld(r) = SpansHeld(q)
  BY <1>1, <1>2, <1>3 DEF SpansHeld, SpansHeldAt
<1> QED
  BY <1>4, <1>5 DEF r

(* The sum of a set is any of its elements and the rest.                     *)
LEMMA SetSumAny ==
    ASSUME NEW S, IsFiniteSet(S), NEW w \in [S -> Int]
    PROVE  \A s \in SUBSET S : \A x \in s : SetSums(w, S)[s] = w[x] + SetSums(w, S)[s \ {x}]
<1> DEFINE A == SetSums(w, S)
           N == Cardinality(S)
           AnySum(s) == \A x \in s : A[s] = w[x] + A[s \ {x}]
           T == {n \in 0 .. N : \A s \in SUBSET S : Cardinality(s) <= n => AnySum(s)}
<1>1. N \in Nat /\ \A s \in SUBSET S : Cardinality(s) \in Nat /\ Cardinality(s) <= N
  BY FS_Subset, FS_CardinalityType
<1>2. \A s \in SUBSET S : \A x \in s :
         s \ {x} \in SUBSET S /\ Cardinality(s \ {x}) = Cardinality(s) - 1
  BY FS_Subset, FS_RemoveElement
<1>3. \A s \in SUBSET S : s # {} => A[s] = w[AnyOf(s)] + A[s \ {AnyOf(s)}] /\ AnyOf(s) \in s
  <2>1. \A s \in SUBSET S : s # {} => A[s] = w[AnyOf(s)] + A[s \ {AnyOf(s)}]
    BY SetSumSteps
  <2>2. \A s \in SUBSET S : s # {} => AnyOf(s) \in s
    BY AnyOfLess
  <2> QED
    BY <2>1, <2>2
<1>4. \A s \in SUBSET S : A[s] \in Int
  BY SetSumsExist
<1> HIDE DEF A, N
<1>5. 0 \in T
  <2>1. ASSUME NEW s \in SUBSET S, Cardinality(s) <= 0, NEW x \in s PROVE FALSE
    <3>1. Cardinality(s \ {x}) = Cardinality(s) - 1 /\ Cardinality(s \ {x}) \in Nat /\ Cardinality(s) \in Nat
      BY <1>1, <1>2
    <3> QED
      BY <2>1, <3>1
  <2> QED
    BY <1>1, <2>1
<1>6. ASSUME NEW n \in 1 .. N, n - 1 \in T PROVE n \in T
  <2>1. ASSUME NEW s \in SUBSET S, Cardinality(s) <= n, NEW x \in s PROVE A[s] = w[x] + A[s \ {x}]
    <3> DEFINE y == AnyOf(s)
    <3>1. y \in s /\ A[s] = w[y] + A[s \ {y}]
      BY <1>3
    <3> HIDE DEF y
    <3>2. CASE x = y
      BY <3>1, <3>2
    <3>3. CASE x # y
      <4> DEFINE p == s \ {y}
                 q == s \ {x}
      <4>1. p \in SUBSET S /\ q \in SUBSET S /\ x \in p /\ y \in q /\ p \ {x} = q \ {y}
        BY <3>1, <3>3
      <4>2. Cardinality(p) <= n - 1 /\ Cardinality(q) <= n - 1
        <5>1. Cardinality(p) = Cardinality(s) - 1 /\ Cardinality(q) = Cardinality(s) - 1
          BY <1>2, <3>1
        <5>2. Cardinality(s) \in Nat
          BY <1>1
        <5> HIDE DEF p, q
        <5> QED
          BY <2>1, <5>1, <5>2
      <4> HIDE DEF p, q
      <4>3. A[p] = w[x] + A[p \ {x}] /\ A[q] = w[y] + A[q \ {y}]
        BY <1>6, <4>1, <4>2
      <4>4. p \ {x} \in SUBSET S /\ x \in S /\ y \in S
        BY <4>1
      <4>5. A[p \ {x}] \in Int /\ w[x] \in Int /\ w[y] \in Int
        BY <1>4, <4>4
      <4>6. A[s] = w[y] + A[p] /\ A[q] = w[y] + A[p \ {x}] /\ A[p] = w[x] + A[p \ {x}]
        BY <3>1, <4>1, <4>3 DEF p
      <4>7. A[s] = w[x] + A[q]
        BY <4>5, <4>6
      <4> QED
        BY <4>7 DEF q
    <3> QED
      BY <3>2, <3>3
  <2> QED
    BY <2>1
<1>7. N \in T
  <2> HIDE DEF T
  <2>1. \A i \in 0 .. N : i \in T
    BY <1>1, <1>5, <1>6, InductionTo
  <2> QED
    BY <2>1, <1>1
<1> QED
  BY <1>1, <1>7 DEF A

(* The sums of the subsets of a set are those of the larger one.            *)
LEMMA SetSumWithin ==
    ASSUME NEW S, IsFiniteSet(S), NEW w \in [S -> Int], NEW R \in SUBSET S, NEW v \in [R -> Int],
           \A x \in R : v[x] = w[x]
    PROVE  SetSum(v, R) = SetSums(w, S)[R]
<1> DEFINE A == SetSums(w, S)
           B == SetSums(v, R)
           T == {s \in SUBSET R : B[s] = A[s]}
<1>0. IsFiniteSet(R)
  BY FS_Subset
<1>1. A[{}] = 0 /\ \A s \in SUBSET S : s # {} => A[s] = w[AnyOf(s)] + A[s \ {AnyOf(s)}]
  BY SetSumSteps
<1>2. B[{}] = 0 /\ \A s \in SUBSET R : s # {} => B[s] = v[AnyOf(s)] + B[s \ {AnyOf(s)}]
  BY <1>0, SetSumSteps
<1> HIDE DEF A, B
<1>3. {} \in T
  BY <1>1, <1>2
<1>4. ASSUME NEW s \in SUBSET R, s # {}, s \ {AnyOf(s)} \in T PROVE s \in T
  <2>1. AnyOf(s) \in R /\ s \in SUBSET S
    BY <1>0, <1>4, AnyOfLess
  <2> QED
    BY <1>1, <1>2, <1>4, <2>1
<1>5. R \in T
  <2> HIDE DEF T
  <2> QED
    BY <1>0, <1>3, <1>4, SubsetInduction
<1> QED
  BY <1>5 DEF SetSum, A, B

(* The sum with one element more.                                           *)
LEMMA SetSumAdd ==
    ASSUME NEW S, IsFiniteSet(S), NEW c, c \notin S, NEW w \in [S \cup {c} -> Int], NEW v \in [S -> Int],
           \A x \in S : v[x] = w[x]
    PROVE  SetSum(w, S \cup {c}) = SetSum(v, S) + w[c]
<1> DEFINE U == S \cup {c}
<1>1. IsFiniteSet(U) /\ S \in SUBSET U /\ U \in SUBSET U /\ c \in U /\ U \ {c} = S
  BY FS_AddElement
<1>2. w \in [U -> Int]
  OBVIOUS
<1> HIDE DEF U
<1>3. SetSum(v, S) = SetSums(w, U)[S]
  BY <1>1, <1>2, SetSumWithin
<1>4. SetSums(w, U)[U] = w[c] + SetSums(w, U)[S]
  BY <1>1, <1>2, SetSumAny
<1>5. SetSums(w, U)[S] \in Int /\ w[c] \in Int
  BY <1>1, <1>2, SetSumsExist
<1>6. SetSums(w, U)[U] = SetSum(v, S) + w[c]
  BY <1>3, <1>4, <1>5
<1> QED
  BY <1>6 DEF SetSum, U

(* The sum is no larger than one of larger weights.                         *)
LEMMA SetSumAtMost ==
    ASSUME NEW S, IsFiniteSet(S), NEW w \in [S -> Int], NEW v \in [S -> Int], \A x \in S : w[x] <= v[x]
    PROVE  SetSum(w, S) <= SetSum(v, S)
<1> DEFINE A == SetSums(w, S)
           B == SetSums(v, S)
           T == {s \in SUBSET S : A[s] <= B[s]}
<1>1. A[{}] = 0 /\ \A s \in SUBSET S : s # {} => A[s] = w[AnyOf(s)] + A[s \ {AnyOf(s)}]
  BY SetSumSteps
<1>2. B[{}] = 0 /\ \A s \in SUBSET S : s # {} => B[s] = v[AnyOf(s)] + B[s \ {AnyOf(s)}]
  BY SetSumSteps
<1>3. \A s \in SUBSET S : A[s] \in Int /\ B[s] \in Int
  BY SetSumsExist
<1> HIDE DEF A, B
<1>4. {} \in T
  BY <1>1, <1>2
<1>5. ASSUME NEW s \in SUBSET S, s # {}, s \ {AnyOf(s)} \in T PROVE s \in T
  <2> DEFINE x == AnyOf(s)
             r == s \ {x}
  <2>1. x \in S /\ r \in SUBSET S
    BY <1>5, AnyOfLess
  <2>2. A[s] = w[x] + A[r] /\ B[s] = v[x] + B[r] /\ A[r] \in Int /\ B[r] \in Int
    BY <1>1, <1>2, <1>3, <1>5, <2>1
  <2>3. A[r] <= B[r] /\ w[x] <= v[x] /\ w[x] \in Int /\ v[x] \in Int
    BY <1>5, <2>1
  <2> HIDE DEF x, r
  <2>4. A[s] <= B[s]
    BY <2>2, <2>3
  <2> QED
    BY <2>4
<1>6. S \in T
  <2> HIDE DEF T
  <2> QED
    BY <1>4, <1>5, SubsetInduction
<1> QED
  BY <1>6 DEF SetSum, A, B

(* The sum of naturals is one.                                              *)
LEMMA SetSumNatural ==
    ASSUME NEW S, IsFiniteSet(S), NEW w \in [S -> Nat]
    PROVE  SetSum(w, S) \in Nat
<1> DEFINE z == [x \in S |-> 0]
<1>1. z \in [S -> Int] /\ w \in [S -> Int] /\ (\A x \in S : z[x] <= w[x]) /\ \A x \in S : z[x] = 0
  OBVIOUS
<1> HIDE DEF z
<1>2. SetSum(z, S) = 0 /\ SetSum(z, S) <= SetSum(w, S)
  BY <1>1, SetSumZero, SetSumAtMost
<1>3. SetSum(w, S) \in Int
  BY <1>1, SetSumType
<1> QED
  BY <1>2, <1>3
-----------------------------------------------------------------------------
(* The recursion behind FoldLeft goes over all sets of places and takes the  *)
(* last place of each; `step' is what it does with the result so far.        *)
LeftStep(step, base, n, g) ==
    [s \in SUBSET (1..n) |-> IF s = {} THEN base ELSE step[<<g[s \ {Max(s)}], Max(s)>>]]

(* A step and a base whose results stay in D, and a solution over n places.  *)
CanFold(step, base, n, D) == n \in Nat /\ base \in D /\ step \in [D \X (1..n) -> D]
IsLeftFold(g, step, base, n, D) == g \in [SUBSET (1..n) -> D] /\ g = LeftStep(step, base, n, g)

(* A set of places has a last one, and is smaller by one without it.         *)
LEMMA LastOfLess ==
    ASSUME NEW n \in Nat, NEW s \in SUBSET (1..n), s # {}
    PROVE  /\ Max(s) \in s /\ Max(s) \in 1..n /\ s \ {Max(s)} \in SUBSET (1..n)
           /\ Cardinality(s) \in Nat /\ Cardinality(s) # 0
           /\ Cardinality(s \ {Max(s)}) = Cardinality(s) - 1
<1>1. IsFiniteSet(1..n)
  <2>1. 1 \in Int /\ n \in Int
    OBVIOUS
  <2> QED
    BY <2>1, FS_Interval
<1>2. IsFiniteSet(s)
  BY <1>1, FS_Subset
<1>3. Max(s) \in s
  <2> DEFINE T == {n - x : x \in s}
  <2>1. T \in SUBSET Nat /\ T # {}
    <3>1. \A x \in s : n - x \in Nat
      OBVIOUS
    <3> QED
      BY <3>1
  <2>2. PICK m \in T : \A k \in T : m <= k
    <3> HIDE DEF T
    <3> QED
      BY <2>1, LeastNatural
  <2>3. PICK x \in s : m = n - x
    BY <2>2
  <2>4. \A y \in s : x >= y
    <3>1. ASSUME NEW y \in s PROVE x >= y
      <4>1. n - y \in T /\ x \in Int /\ y \in Int
        OBVIOUS
      <4>2. n - x <= n - y
        BY <2>2, <2>3, <4>1
      <4> QED
        BY <4>1, <4>2
    <3> QED
      BY <3>1
  <2> QED
    BY <2>4 DEF Max
<1>4. Cardinality(s) \in Nat /\ Cardinality(s) # 0
  BY <1>2, FS_CardinalityType, FS_EmptySet
<1>5. Cardinality(s \ {Max(s)}) = Cardinality(s) - 1
  BY <1>2, <1>3, FS_RemoveElement
<1> QED
  BY <1>3, <1>4, <1>5

(* The recursion has a solution, whose values are results of steps.          *)
LEMMA CanFoldLeft ==
    ASSUME NEW step, NEW base, NEW n, NEW D, CanFold(step, base, n, D)
    PROVE  \E g : IsLeftFold(g, step, base, n, D)
<1>a. n \in Nat /\ base \in D /\ step \in [D \X (1..n) -> D]
  BY DEF CanFold
<1> USE <1>a
<1> DEFINE S == 1..n
           N == Cardinality(S)
           Small(k) == {s \in SUBSET S : Cardinality(s) <= k}
           Next(g) == LeftStep(step, base, n, g)
           Good(g, k) == \A s \in Small(k) : g[s] \in D /\ g[s] = Next(g)[s]
           T == {k \in 0 .. N : \E g : Good(g, k)}
<1>0. IsFiniteSet(S)
  <2>1. 1 \in Int /\ n \in Int
    OBVIOUS
  <2> QED
    BY <2>1, FS_Interval
<1>1. N \in Nat /\ \A s \in SUBSET S : Cardinality(s) \in Nat /\ Cardinality(s) <= N
  BY <1>0, FS_Subset, FS_CardinalityType
<1>2. \A s \in SUBSET S : s = {} <=> Cardinality(s) = 0
  BY <1>0, FS_Subset, FS_EmptySet
<1>3. ASSUME NEW g, NEW s \in SUBSET S
      PROVE  /\ s = {} => Next(g)[s] = base
             /\ s # {} => /\ Next(g)[s] = step[<<g[s \ {Max(s)}], Max(s)>>]
                          /\ Max(s) \in S /\ s \ {Max(s)} \in SUBSET S
                          /\ Cardinality(s \ {Max(s)}) = Cardinality(s) - 1
  BY LastOfLess DEF LeftStep
<1>4. ASSUME NEW g, NEW k \in Nat, Good(g, k), NEW s \in Small(k + 1)
      PROVE  Next(g)[s] \in D /\ Next(g)[s] = Next(Next(g))[s]
  <2>1. CASE s = {}
    BY <1>3, <2>1
  <2>2. CASE s # {}
    <3> DEFINE x == Max(s)
               r == s \ {x}
    <3>1. x \in S /\ r \in Small(k)
      <4>1. x \in S /\ r \in SUBSET S /\ Cardinality(r) = Cardinality(s) - 1 /\ s \in SUBSET S
        BY <2>2, LastOfLess
      <4>2. Cardinality(s) \in Nat /\ Cardinality(s) <= k + 1
        BY <1>1, <4>1
      <4> QED
        BY <4>1, <4>2
    <3>2. g[r] \in D /\ g[r] = Next(g)[r]
      BY <1>4, <3>1
    <3>3. Next(g)[s] = step[<<g[r], x>>] /\ Next(Next(g))[s] = step[<<Next(g)[r], x>>]
      BY <1>3, <2>2
    <3> HIDE DEF r, x, Next
    <3> QED
      BY <3>1, <3>2, <3>3
  <2> QED
    BY <2>1, <2>2
<1>5. 0 \in T
  <2> DEFINE g == [s \in SUBSET S |-> base]
  <2>1. Good(g, 0)
    <3>1. ASSUME NEW s \in Small(0) PROVE s = {} /\ g[s] = base
      BY <1>1, <1>2
    <3> QED
      BY <1>3, <3>1
  <2> HIDE DEF Good
  <2> QED
    BY <2>1, <1>1
<1>6. ASSUME NEW i \in 1 .. N, i - 1 \in T PROVE i \in T
  <2>1. PICK g : Good(g, i - 1)
    BY <1>6
  <2>2. i - 1 \in Nat /\ (i - 1) + 1 = i
    BY <1>1
  <2>3. Good(Next(g), i)
    <3> HIDE DEF Next
    <3> QED
      BY <1>4, <2>1, <2>2
  <2> HIDE DEF Good
  <2> QED
    BY <2>3, <1>1
<1>7. N \in T
  <2> HIDE DEF T, N
  <2>1. \A i \in 0 .. N : i \in T
    BY <1>1, <1>5, <1>6, InductionTo
  <2> QED
    BY <2>1, <1>1
<1>8. PICK g : Good(g, N)
  BY <1>7
<1>9. \A s \in SUBSET S : g[s] \in D /\ g[s] = Next(g)[s]
  BY <1>8, <1>1
<1> DEFINE h == Next(g)
<1>10. h = [s \in SUBSET S |-> h[s]] /\ Next(h) = [s \in SUBSET S |-> Next(h)[s]]
  BY DEF LeftStep
<1>11. \A s \in SUBSET S : Next(h)[s] = h[s]
  <2>1. ASSUME NEW s \in SUBSET S PROVE Next(h)[s] = Next(g)[s]
    <3>1. CASE s = {}
      BY <1>3, <3>1
    <3>2. CASE s # {}
      <4>1. Next(h)[s] = step[<<h[s \ {Max(s)}], Max(s)>>] /\ Next(g)[s] = step[<<g[s \ {Max(s)}], Max(s)>>]
            /\ s \ {Max(s)} \in SUBSET S
        BY <1>3, <3>2
      <4>2. h[s \ {Max(s)}] = g[s \ {Max(s)}]
        BY <1>9, <4>1
      <4> QED
        BY <4>1, <4>2
    <3> QED
      BY <3>1, <3>2
  <2> QED
    BY <2>1
<1>12. h = Next(h)
  <2> HIDE DEF h, Next
  <2> QED
    BY <1>10, <1>11
<1>13. h \in [SUBSET S -> D]
  <2> HIDE DEF Next
  <2>1. \A s \in SUBSET S : h[s] \in D
    BY <1>9
  <2> QED
    BY <1>10, <2>1
<1> QED
  BY <1>12, <1>13 DEF IsLeftFold

(* The places up to k have k as the last one.                                *)
LEMMA LastOfPrefix ==
    ASSUME NEW n \in Nat, NEW k \in 1..n
    PROVE  /\ 1..k \in SUBSET (1..n) /\ 1..k # {} /\ Max(1..k) = k /\ (1..k) \ {k} = 1..(k - 1)
           /\ 1..0 = {}
<1>1. 1..k \in SUBSET (1..n) /\ k \in 1..k
  OBVIOUS
<1>2. \A x \in 1..k : (\A y \in 1..k : x >= y) => x = k
  OBVIOUS
<1>3. \A y \in 1..k : k >= y
  OBVIOUS
<1>4. Max(1..k) = k
  BY <1>1, <1>2, <1>3 DEF Max
<1> QED
  BY <1>1, <1>4

(* What a fold from the left is, step by step.                               *)
Chained(f, step, base, n) == f[0] = base /\ \A k \in 1 .. n : f[k] = step[<<f[k - 1], k>>]

(* A recursion over the numbers up to n has a solution.                      *)
LEMMA CanChain ==
    ASSUME NEW step, NEW base, NEW n, NEW D, CanFold(step, base, n, D)
    PROVE  \E f \in [0 .. n -> D] : Chained(f, step, base, n)
<1>1. n \in Nat
  BY DEF CanFold
<1>2. PICK g : IsLeftFold(g, step, base, n, D)
  BY CanFoldLeft
<1>3. g \in [SUBSET (1 .. n) -> D] /\ g = LeftStep(step, base, n, g)
  BY <1>2 DEF IsLeftFold
<1> DEFINE f == [k \in 0 .. n |-> g[1 .. k]]
<1>4. \A s \in SUBSET (1 .. n) : g[s] = IF s = {} THEN base ELSE step[<<g[s \ {Max(s)}], Max(s)>>]
  BY <1>3 DEF LeftStep
<1>5. f \in [0 .. n -> D]
  <2>1. \A k \in 0 .. n : 1 .. k \in SUBSET (1 .. n)
    BY <1>1
  <2> QED
    BY <1>3, <2>1
<1>6. f[0] = base
  <2>1. 1 .. 0 = {} /\ 0 \in 0 .. n
    BY <1>1
  <2> QED
    BY <1>4, <2>1
<1>7. ASSUME NEW k \in 1 .. n PROVE f[k] = step[<<f[k - 1], k>>]
  <2>1. 1 .. k \in SUBSET (1 .. n) /\ 1 .. k # {} /\ Max(1 .. k) = k /\ (1 .. k) \ {k} = 1 .. (k - 1)
    BY <1>1, LastOfPrefix
  <2>2. g[1 .. k] = step[<<g[1 .. (k - 1)], k>>]
    BY <1>4, <2>1
  <2>3. k \in 0 .. n /\ k - 1 \in 0 .. n
    BY <1>1
  <2> QED
    BY <2>2, <2>3
<1> HIDE DEF f
<1> QED
  BY <1>5, <1>6, <1>7 DEF Chained

-----------------------------------------------------------------------------
(* The sum of what the elements of a sequence weigh, as a sum over its places.*)
SumAlong(q, w) == SetSum([i \in 1 .. Len(q) |-> w[q[i]]], 1 .. Len(q))

(* It is the total. *)
LEMMA SumAlongTotal ==
    ASSUME NEW D, NEW w \in [D -> Int], NEW q \in Seq(D)
    PROVE  Total(q, w, SumAlong(q, w))
<1> DEFINE n == Len(q)
           v == [i \in 1 .. n |-> w[q[i]]]
           upTo(k) == [i \in 1 .. k |-> v[i]]
           p == [k \in 0 .. n |-> SetSum(upTo(k), 1 .. k)]
<1>1. n \in Nat /\ \A i \in 1 .. n : v[i] = w[q[i]] /\ v[i] \in Int
  OBVIOUS
<1>2. SumAlong(q, w) = SetSum(v, 1 .. n)
  BY DEF SumAlong
<1>3. \A k \in 0 .. n : upTo(k) \in [1 .. k -> Int] /\ IsFiniteSet(1 .. k)
  <2>1. ASSUME NEW k \in 0 .. n PROVE upTo(k) \in [1 .. k -> Int] /\ IsFiniteSet(1 .. k)
    <3>1. \A i \in 1 .. k : i \in 1 .. n
      BY <1>1
    <3>2. 1 \in Int /\ k \in Int
      OBVIOUS
    <3> HIDE DEF v
    <3> QED
      BY <1>1, <3>1, <3>2, FS_Interval
  <2> QED
    BY <2>1
<1> HIDE DEF v
<1>4. upTo(n) = v /\ p[n] = SetSum(v, 1 .. n)
  <2>1. upTo(n) = v
    BY DEF v
  <2> QED
    BY <1>1, <2>1
<1>5. p[0] = 0
  <2> DEFINE u == upTo(0)
  <2>1. u \in [1 .. 0 -> Int] /\ IsFiniteSet(1 .. 0) /\ 1 .. 0 = {} /\ 0 \in 0 .. n
    BY <1>1, <1>3
  <2>2. u \in [{} -> Int] /\ IsFiniteSet({})
    BY <2>1
  <2>3. p[0] = SetSum(u, {})
    BY <2>1
  <2> HIDE DEF u, p
  <2> QED
    BY <2>2, <2>3, SetSumZero
<1>6. ASSUME NEW k \in 1 .. n PROVE p[k] = p[k - 1] + w[q[k]]
  <2> DEFINE S == 1 .. (k - 1)
             a == upTo(k - 1)
             b == upTo(k)
  <2>1. k \in 0 .. n /\ k - 1 \in 0 .. n /\ 1 .. k = S \cup {k} /\ k \notin S
    BY <1>1
  <2>2. b \in [S \cup {k} -> Int] /\ a \in [S -> Int] /\ IsFiniteSet(S)
    <3>1. b \in [1 .. k -> Int] /\ a \in [1 .. (k - 1) -> Int] /\ IsFiniteSet(1 .. (k - 1))
      <4> HIDE DEF upTo
      <4> QED
        BY <1>3, <2>1
    <3> QED
      BY <2>1, <3>1
  <2>3. \A x \in S : a[x] = b[x]
    BY <2>1
  <2>4. b[k] = v[k] /\ p[k] = SetSum(b, S \cup {k}) /\ p[k - 1] = SetSum(a, S)
    BY <2>1
  <2> HIDE DEF S, a, b, p, upTo
  <2>5. SetSum(b, S \cup {k}) = SetSum(a, S) + b[k]
    BY <2>1, <2>2, <2>3, SetSumAdd
  <2> QED
    BY <1>1, <2>4, <2>5
<1>7. ASSUME NEW k \in 0 .. n PROVE p[k] \in Int
  <2>1. p[k] = SetSum(upTo(k), 1 .. k)
    OBVIOUS
  <2> HIDE DEF p, upTo
  <2> QED
    BY <1>3, <2>1, SetSumType
<1>8. IsSums(p, q, w)
  <2> HIDE DEF p
  <2> QED
    BY <1>5, <1>6, <1>7 DEF IsSums
<1> HIDE DEF p
<1> QED
  BY <1>2, <1>4, <1>8 DEF Total

(* How that sum moves: one element more, one less, and the sequence cut in   *)
(* two; where nothing weighs less than 0.                                    *)
LEMMA SumAlongMoves ==
    ASSUME NEW D, NEW w \in [D -> Nat], NEW q \in Seq(D)
    PROVE  /\ SumAlong(q, w) \in Nat /\ SumAlong(<<>>, w) = 0
           /\ \A x \in D : SumAlong(Append(q, x), w) = SumAlong(q, w) + w[x]
           /\ \A k \in 1 .. Len(q) : SumAlong(RemoveAt(q, k), w) <= SumAlong(q, w)
           /\ \A k \in 0 .. Len(q) : SumAlong(SubSeq(q, k + 1, Len(q)), w) <= SumAlong(q, w)
<1>1. w \in [D -> Int] /\ \A s \in Seq(D) : Total(s, w, SumAlong(s, w))
  <2>1. w \in [D -> Int]
    OBVIOUS
  <2> QED
    BY <2>1, SumAlongTotal
<1>2. \A s \in Seq(D) : SumAlong(s, w) \in Nat
  <2>1. ASSUME NEW s \in Seq(D) PROVE SumAlong(s, w) \in Nat
    BY <1>1, TotalOfNaturals
  <2> QED
    BY <2>1
<1>3. \A s \in Seq(D) : \A m : Total(s, w, m) => SumAlong(s, w) = m
  <2>1. ASSUME NEW s \in Seq(D), NEW m, Total(s, w, m) PROVE SumAlong(s, w) = m
    BY <1>1, <2>1, TotalUnique
  <2> QED
    BY <2>1
<1>4. SumAlong(<<>>, w) = 0
  <2>1. <<>> \in Seq(D)
    OBVIOUS
  <2> QED
    BY <1>1, <2>1, TotalOfNone
<1>5. ASSUME NEW x \in D PROVE SumAlong(Append(q, x), w) = SumAlong(q, w) + w[x]
  <2>1. Append(q, x) \in Seq(D)
    OBVIOUS
  <2>2. Total(Append(q, x), w, SumAlong(q, w) + w[x])
    BY <1>1, TotalAppend
  <2> QED
    BY <1>3, <2>1, <2>2
<1>6. ASSUME NEW k \in 1 .. Len(q) PROVE SumAlong(RemoveAt(q, k), w) <= SumAlong(q, w)
  <2>1. RemoveAt(q, k) \in Seq(D)
    BY RemoveAtFacts
  <2>2. Total(RemoveAt(q, k), w, SumAlong(q, w) - w[q[k]])
    BY <1>1, TotalRemove
  <2>3. SumAlong(RemoveAt(q, k), w) = SumAlong(q, w) - w[q[k]]
    BY <1>3, <2>1, <2>2
  <2>4. w[q[k]] \in Nat /\ SumAlong(q, w) \in Nat
    BY <1>2
  <2> QED
    BY <2>3, <2>4
<1>7. ASSUME NEW k \in 0 .. Len(q) PROVE SumAlong(SubSeq(q, k + 1, Len(q)), w) <= SumAlong(q, w)
  <2> DEFINE a == SubSeq(q, 1, k)
             b == SubSeq(q, k + 1, Len(q))
  <2>1. a \in Seq(D) /\ b \in Seq(D)
    OBVIOUS
  <2>2. PICK m \in Int : Total(a, w, m) /\ Total(b, w, SumAlong(q, w) - m)
    BY <1>1, TotalCut
  <2> HIDE DEF a, b
  <2>3. SumAlong(b, w) = SumAlong(q, w) - m
    BY <1>3, <2>1, <2>2
  <2>4. m \in Nat /\ SumAlong(q, w) \in Nat
    BY <1>2, <2>1, <2>2, TotalOfNaturals
  <2>5. SumAlong(b, w) <= SumAlong(q, w)
    BY <2>3, <2>4
  <2> QED
    BY <2>5 DEF b
<1> QED
  BY <1>2, <1>4, <1>5, <1>6, <1>7
===============================================================================
