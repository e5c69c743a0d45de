------------------------- MODULE FoldsAndDropsProofs -------------------------
(***************************************************************************)
(* The two accounts the ingester keeps in memory and writes later: the      *)
(* folds of loop collapse, and then the counts of dropped events.           *)
(*                                                                         *)
(* Loop collapse neither loses nor repeats a fold: for any requests, any    *)
(* batches, any bounds and whatever fails, FoldsConserved and               *)
(* FoldsCountedOnce hold in every reachable state.                          *)
(*                                                                         *)
(* The two are not inductive alone.  What a window counts must belong to it *)
(* (KeyLinked: two windows then share no fold when they are collected       *)
(* together), its sample must be one of the folds it stands for             *)
(* (SampleLinked), a request's folds must be positions of its batch         *)
(* (RequestsSound) and nothing may be left to write when a flush begins     *)
(* (WritingInFlush).  The accounts of the windows and the counts follow,   *)
(* and then the drop counter.                                               *)
(***************************************************************************)
EXTENDS LoopCollapse, IngestDrops, FiniteSetTheorems, WellFoundedInduction, TLAPS

RequestsSound ==
    /\ planner \in Request => req[planner].st = "plan"
    /\ \A r \in Request :
          IF req[r].st = "idle" THEN req[r].folds = {}
          ELSE req[r].folds \subseteq 1..Len(Content[req[r].batch])

SampleOf(sample, folds) == IF folds = {} THEN sample = None ELSE sample \in folds
SampleLinked ==
    /\ \A k \in Key : /\ SampleOf(win[k].sample, win[k].count)
                      /\ SampleOf(win[k].lateSample, win[k].late)
    /\ \A d \in Waiting : d.sample \in d.folds

KeyLinked ==
    \A k \in Key : \A f \in win[k].count \cup win[k].late : f \in Committed /\ KeyOf(f) = k

WritingInFlush == ~flushing => writing = {}

FoldsInv == FoldsConserved /\ FoldsCountedOnce /\ SampleLinked /\ KeyLinked
IInv == TypeOK /\ RequestsSound /\ WritingInFlush /\ FoldsInv

-----------------------------------------------------------------------------
(* Constants and types.                                                    *)

(* There are finitely many windows and folds. *)
LEMMA KeyFinite == IsFiniteSet(Key) /\ IsFiniteSet(Fold)
<1>1. Horizon \in Int
  BY ConstantsAssumption DEF Horizon
<1>2. IsFiniteSet(Minute) /\ IsFiniteSet(1..MaxLen)
  BY <1>1, ConstantsAssumption, FS_Interval DEF Minute
<1> QED
  BY <1>2, ConstantsAssumption, FS_Product DEF Key, Fold

(* The sizes the counters are changed by are numbers. *)
LEMMA CountsAreInts ==
    ASSUME NEW S, S \in (SUBSET Key) \cup (SUBSET Fold) \cup (SUBSET Occ)
    PROVE  Cardinality(S) \in Int
<1>1. IsFiniteSet(S)
  BY KeyFinite, ConstantsAssumption, FS_Subset
<1> QED
  BY <1>1, FS_CardinalityType

(* The k-th occurrence of a batch. *)
LEMMA OccurrenceType ==
    ASSUME NEW b \in Batch, NEW j \in 1..Len(Content[b])
    PROVE  Content[b][j] \in Occ /\ j \in 1..MaxLen
  BY ConstantsAssumption

(* A fold of a sound request. *)
LEMMA FoldType ==
    ASSUME TypeOK, RequestsSound, NEW r \in Request, NEW j \in req[r].folds
    PROVE  /\ <<r, j>> \in Fold
           /\ OccOf(<<r, j>>) \in Occ
           /\ KeyOf(<<r, j>>) \in Key
  BY OccurrenceType, ConstantsAssumption DEF TypeOK, RequestsSound, ReqType, Fold, OccOf, KeyOf, Key

(* A committed fold is a fold of a known window. *)
LEMMA CommittedType ==
    ASSUME TypeOK, RequestsSound, NEW f \in Committed
    PROVE  f \in Fold /\ OccOf(f) \in Occ /\ KeyOf(f) \in Key
  BY FoldType DEF Committed, Fold
-----------------------------------------------------------------------------
(* Newest picks one of the folds it is given.                              *)

(* A finite set has an element that is last by one number, then another. *)
LEMMA LastExists ==
    ASSUME NEW S, IsFiniteSet(S), S # {}, NEW v \in [S -> Int], NEW p \in [S -> Int]
    PROVE  \E f \in S : \A g \in S : v[g] < v[f] \/ (v[g] = v[f] /\ p[g] <= p[f])
<1> DEFINE Beyond(f, g) == v[f] < v[g] \/ (v[f] = v[g] /\ p[f] < p[g])
           Above(f) == {g \in S : Beyond(f, g)}
           A == {Above(f) : f \in S}
<1>1. \A f, g, h \in S : Beyond(f, g) /\ Beyond(g, h) => Beyond(f, h)
  OBVIOUS
<1>2. \A f \in S : Above(f) \in FiniteSubsetsOf(S)
  BY FS_Subset DEF FiniteSubsetsOf
<1>3. IsWellFoundedOn(StrictSubsetOrdering(S), FiniteSubsetsOf(S))
  BY FS_StrictSubsetOrderingWellFounded
<1>4. PICK X \in A : \A Y \in A : <<Y, X>> \notin StrictSubsetOrdering(S)
  <2>1. A # {} /\ A \subseteq FiniteSubsetsOf(S)
    <3> HIDE DEF Above
    <3> QED
      BY <1>2
  <2> HIDE DEF A
  <2> QED
    BY <1>3, <2>1, WFMin
<1>5. PICK f \in S : X = Above(f)
  BY <1>4
<1>6. ASSUME NEW g \in Above(f) PROVE FALSE
  <2>1. g \in S /\ Above(g) \subseteq Above(f)
    BY <1>1
  <2>2. g \notin Above(g)
    OBVIOUS
  <2>3. <<Above(g), Above(f)>> \in StrictSubsetOrdering(S)
    <3>1. Above(g) \in SUBSET S /\ Above(f) \in SUBSET S
      OBVIOUS
    <3> HIDE DEF Above
    <3> QED
      BY <2>1, <2>2, <1>6, <3>1 DEF StrictSubsetOrdering
  <2> QED
    BY <2>1, <2>3, <1>4, <1>5
<1>7. \A g \in S : ~Beyond(f, g)
  BY <1>6
<1> QED
  BY <1>7

(* commit() takes a new fold as the sample, or leaves the one it had. *)
LEMMA NewestIsOneOf ==
    ASSUME NEW old, NEW new \in SUBSET Fold, \A f \in new : OccOf(f) \in Occ
    PROVE  /\ new = {} => Newest(old, new) = old
           /\ new # {} => Newest(old, new) \in new \cup ({old} \ {None})
<1>1. CASE new = {}
  BY <1>1 DEF Newest
<1>2. CASE new # {}
  <2> DEFINE v == [f \in new |-> TimeOf[OccOf(f)]]
             p == [f \in new |-> f[2]]
             Last(f) == \A h \in new : \/ TimeOf[OccOf(h)] < TimeOf[OccOf(f)]
                                       \/ TimeOf[OccOf(h)] = TimeOf[OccOf(f)] /\ h[2] <= f[2]
  <2>1. IsFiniteSet(new)
    BY KeyFinite, FS_Subset
  <2>2. v \in [new -> Int]
    BY ConstantsAssumption
  <2>3. p \in [new -> Int]
    BY ConstantsAssumption DEF Fold
  <2>4. PICK f \in new : \A g \in new : v[g] < v[f] \/ (v[g] = v[f] /\ p[g] <= p[f])
    <3> HIDE DEF v, p
    <3> QED
      BY <1>2, <2>1, <2>2, <2>3, LastExists
  <2>5. Last(f)
    BY <2>4
  <2>6. (CHOOSE g \in new : Last(g)) \in new
    BY <2>5
  <2> QED
    BY <1>2, <2>6 DEF Newest
<1> QED
  BY <1>1, <1>2

-----------------------------------------------------------------------------
(* Steps that count nothing new: folds stay where they are, or samples      *)
(* waiting are stored.                                                     *)

SameFolds ==
    \A k \in Key : /\ win'[k].count = win[k].count
                   /\ win'[k].sample = win[k].sample
                   /\ win'[k].late = win[k].late
                   /\ win'[k].lateSample = win[k].lateSample
                   /\ win'[k].flushed = win[k].flushed

SameCommitted ==
    /\ Committed' = Committed
    /\ \A f \in Committed : OccOf(f)' = OccOf(f) /\ KeyOf(f)' = KeyOf(f)

(* Folds of answered requests stay committed while no request is answered. *)
LEMMA CommittedStays ==
    ASSUME \A r \in Request : req[r].st = "ok" => req'[r] = req[r],
           \A r \in Request : req'[r].st = "ok" => req[r].st = "ok"
    PROVE  SameCommitted
<1>1. Committed' = Committed
  BY DEF Fold, Committed
<1>2. \A f \in Committed : f[1] \in Request /\ req'[f[1]] = req[f[1]]
  BY DEF Committed, Fold
<1> QED
  BY <1>1, <1>2 DEF SameCommitted, OccOf, KeyOf

(* A waiting sample stands for committed folds and is one of them. *)
LEMMA WaitingSamples ==
    ASSUME FoldsInv, NEW d \in Waiting
    PROVE  d.sample \in d.folds /\ d.folds \subseteq Committed
<1>1. d.folds \subseteq Unstored
  BY DEF Unstored
<1> QED
  BY <1>1 DEF FoldsInv, SampleLinked, FoldsConserved

(* A write of the samples D moves their folds to the table, and nothing else. *)
LEMMA MovingSamples ==
    ASSUME FoldsInv, SameCommitted, SameFolds, NEW D \in SUBSET Waiting,
           Waiting' \subseteq Waiting, Waiting \ D \subseteq Waiting',
           samples' = samples \cup {SampleRow(d) : d \in D}
    PROVE  FoldsInv'
<1>1. \A k \in Key : Counted(k)' = Counted(k) /\ win'[k].late = win[k].late
  BY DEF SameFolds, Counted
<1>2. \A d \in Waiting : SampleRow(d)' = SampleRow(d)
  BY WaitingSamples DEF SameCommitted, SampleRow
<1>3. \A d \in Waiting : SampleRow(d).folds = d.folds
  BY DEF SampleRow
<1>4. FoldsConserved'
  BY <1>3, <1>1 DEF Unstored, StoredFolds, FoldsInv, FoldsConserved, SameCommitted
<1>5. FoldsCountedOnce'
  <2> USE DEF FoldsInv, FoldsCountedOnce
  <2>1. \A s \in samples' : s \in samples \/ \E d \in D : s = SampleRow(d) /\ s.folds = d.folds
    BY <1>3
  <2>2. \A k \in Key : StoredFolds' \cap (Counted(k)' \cup win'[k].late) = {}
    <3> SUFFICES ASSUME NEW k \in Key, NEW s \in samples', NEW f \in s.folds,
                        f \in Counted(k) \cup win[k].late
                 PROVE  FALSE
      BY <1>1 DEF StoredFolds
    <3> QED
      BY <2>1 DEF StoredFolds
  <2>3. \A k \in Key : /\ Counted(k)' \cap win'[k].late = {}
                       /\ \A d \in Waiting' : d.folds \cap (Counted(k)' \cup win'[k].late) = {}
    BY <1>1
  <2>4. \A d, e \in Waiting' : d # e => d.folds \cap e.folds = {}
    OBVIOUS
  <2>5. \A s, u \in samples' : s # u => s.folds \cap u.folds = {}
    <3> SUFFICES ASSUME NEW s \in samples', NEW u \in samples', s # u
                 PROVE  s.folds \cap u.folds = {}
      OBVIOUS
    <3>1. CASE s \in samples /\ u \in samples
      BY <3>1
    <3>2. CASE s \notin samples /\ u \in samples
      BY <3>2, <2>1
    <3>3. CASE s \in samples /\ u \notin samples
      BY <3>3, <2>1
    <3>4. CASE s \notin samples /\ u \notin samples
      BY <3>4, <2>1
    <3> QED
      BY <3>1, <3>2, <3>3, <3>4
  <2>6. \A d \in Waiting', s \in samples' : SampleRow(d)' # s => d.folds \cap s.folds = {}
    <3> SUFFICES ASSUME NEW d \in Waiting', NEW s \in samples', SampleRow(d) # s
                 PROVE  d.folds \cap s.folds = {}
      BY <1>2
    <3>1. CASE s \in samples
      BY <3>1
    <3>2. CASE s \notin samples
      BY <3>2, <2>1
    <3> QED
      BY <3>1, <3>2
  <2> QED
    BY <2>2, <2>3, <2>4, <2>5, <2>6
<1>6. SampleLinked'
  BY DEF FoldsInv, SampleLinked, SampleOf, SameFolds
<1>7. KeyLinked'
  BY DEF FoldsInv, KeyLinked, SameFolds, SameCommitted
<1> QED
  BY <1>4, <1>5, <1>6, <1>7 DEF FoldsInv

-----------------------------------------------------------------------------
(* A flush collects what is due: from the windows into samples.             *)

(* collectDue moves the folds of closed windows and the late ones to samples. *)
LEMMA Collecting ==
    ASSUME FoldsInv, writing = {}, NEW all \in BOOLEAN, CollectDue(all),
           win \in [Key -> WindowType], req' = req, samples' = samples
    PROVE  FoldsInv'
<1> DEFINE over == FlushSet(all)
           full == {k \in over : win[k].count # {}}
           withLate == {k \in Key : win[k].late # {}}
<1>1. /\ Committed' = Committed
      /\ \A f : OccOf(f)' = OccOf(f) /\ KeyOf(f)' = KeyOf(f)
      /\ \A d : SampleRow(d)' = SampleRow(d)
      /\ StoredFolds' = StoredFolds
  BY DEF Committed, OccOf, KeyOf, SampleRow, StoredFolds
<1>2. over \subseteq Key /\ \A k \in over : ~win[k].flushed /\ Counted(k) = win[k].count
  BY DEF FlushSet, Counted
<1>3. \A k \in Key : win[k] \in WindowType
  OBVIOUS
<1> HIDE DEF over
<1>4. \A k \in Key : /\ win'[k].count = win[k].count /\ win'[k].sample = win[k].sample
                     /\ win'[k].late = {} /\ win'[k].lateSample = None
                     /\ Counted(k)' = IF k \in over THEN {} ELSE Counted(k)
  <2>1. \A k \in Key : win'[k] = Collect(win[k], k \in over, k \in full)
    BY DEF CollectDue, over
  <2>2. \A k \in Key : /\ win'[k].count = win[k].count /\ win'[k].sample = win[k].sample
                       /\ win'[k].late = {} /\ win'[k].lateSample = None
                       /\ win'[k].flushed <=> win[k].flushed \/ k \in over
    <3> SUFFICES ASSUME NEW k \in Key
                 PROVE  /\ win'[k].count = win[k].count /\ win'[k].sample = win[k].sample
                        /\ win'[k].late = {} /\ win'[k].lateSample = None
                        /\ win'[k].flushed <=> win[k].flushed \/ k \in over
      OBVIOUS
    <3>1. win[k] \in WindowType
      BY <1>3
    <3>2. win'[k] = Collect(win[k], k \in over, k \in full)
      BY <2>1
    <3> QED
      BY <3>1, <3>2 DEF Collect, WindowType
  <2> QED
    BY <2>2 DEF Counted
<1> DEFINE Late == {DueLate(k) : k \in withLate}
           Due == {DueWindow(k) : k \in full}
<1>5. Waiting = carry /\ Waiting' = carry \cup Late \cup Due
  BY DEF Waiting, CollectDue, over
<1>6. \A d \in Late : \E k \in Key : /\ d = DueLate(k) /\ win[k].late # {}
                                     /\ d.folds = win[k].late /\ d.sample = win[k].lateSample
  BY DEF DueLate
<1>7. \A d \in Due : \E k \in over : /\ d = DueWindow(k) /\ Counted(k) # {}
                                     /\ d.folds = Counted(k) /\ d.sample = win[k].sample
  BY <1>2 DEF DueWindow
<1>8. ASSUME NEW k \in Key, NEW f \in win[k].late PROVE \E d \in Late : f \in d.folds
  <2>1. DueLate(k) \in Late
    OBVIOUS
  <2>2. DueLate(k).folds = win[k].late
    BY DEF DueLate
  <2> QED
    BY <2>1, <2>2
<1>9. ASSUME NEW k \in over, NEW f \in Counted(k) PROVE \E d \in Due : f \in d.folds
  <2>1. DueWindow(k) \in Due
    BY <1>2
  <2>2. DueWindow(k).folds = Counted(k)
    BY <1>2 DEF DueWindow
  <2> QED
    BY <2>1, <2>2
<1> HIDE DEF Late, Due
<1>10. FoldsConserved'
  <2>1. \A f : f \in Unstored <=> \/ \E k \in Key : f \in Counted(k) \cup win[k].late
                                  \/ \E d \in carry : f \in d.folds
    BY <1>5 DEF Unstored
  <2>2. \A f : f \in Unstored' <=> \/ \E k \in Key : f \in Counted(k)' \cup win'[k].late
                                   \/ \E d \in Waiting' : f \in d.folds
    BY DEF Unstored
  <2>3. ASSUME NEW f \in Unstored PROVE f \in Unstored'
    BY <2>2, <1>5, <1>8, <1>9, <1>4, <2>1
  <2>4. ASSUME NEW f \in Unstored' PROVE f \in Unstored
    <3>1. CASE \E d \in carry : f \in d.folds
      BY <3>1, <2>1
    <3>2. CASE \E d \in Late : f \in d.folds
      BY <3>2, <2>1, <1>6
    <3>3. CASE \E d \in Due : f \in d.folds
      BY <3>3, <2>1, <1>2, <1>7
    <3>4. CASE \E k \in Key : f \in Counted(k)' \cup win'[k].late
      BY <3>4, <2>1, <1>4
    <3> QED
      BY <3>1, <3>2, <3>3, <3>4, <2>2, <1>5
  <2> QED
    BY <2>3, <2>4, <1>1 DEF FoldsInv, FoldsConserved
<1>11. \A k, j \in Key : k # j => /\ Counted(k) \cap Counted(j) = {}
                                  /\ Counted(k) \cap win[j].late = {}
                                  /\ win[k].late \cap win[j].late = {}
  BY DEF FoldsInv, KeyLinked, Counted
<1>12. FoldsCountedOnce'
  <2>1. \A k \in Key : /\ Counted(k) \cap win[k].late = {}
                       /\ \A d \in carry : d.folds \cap (Counted(k) \cup win[k].late) = {}
                       /\ StoredFolds \cap (Counted(k) \cup win[k].late) = {}
    BY <1>5 DEF FoldsInv, FoldsCountedOnce
  <2>2. \A k \in Key : \A d \in Waiting' : d.folds \cap Counted(k)' = {}
    <3> SUFFICES ASSUME NEW k \in Key, k \notin over, NEW d \in Waiting'
                 PROVE  d.folds \cap Counted(k) = {}
      BY <1>4
    <3>1. CASE d \in carry
      BY <3>1, <2>1
    <3>2. CASE d \in Late
      BY <3>2, <1>6, <1>11, <2>1
    <3>3. CASE d \in Due
      BY <3>3, <1>2, <1>7, <1>11
    <3> QED
      BY <3>1, <3>2, <3>3, <1>5
  <2>3. \A d, e \in Waiting' : d # e => d.folds \cap e.folds = {}
    <3> SUFFICES ASSUME NEW d \in Waiting', NEW e \in Waiting', d # e
                 PROVE  d.folds \cap e.folds = {}
      OBVIOUS
    <3>1. \A c, b \in carry : c # b => c.folds \cap b.folds = {}
      BY <1>5 DEF FoldsInv, FoldsCountedOnce
    <3>2. \A c \in carry : \A b \in Late \cup Due : c.folds \cap b.folds = {}
      BY <2>1, <1>2, <1>6, <1>7
    <3>3. \A c, b \in Late : c # b => c.folds \cap b.folds = {}
      BY <1>6, <1>11
    <3>4. \A c, b \in Due : c # b => c.folds \cap b.folds = {}
      BY <1>2, <1>7, <1>11
    <3>5. \A c \in Late, b \in Due : c.folds \cap b.folds = {}
      BY <1>2, <1>6, <1>7, <1>11, <2>1
    <3> QED
      BY <3>1, <3>2, <3>3, <3>4, <3>5, <1>5
  <2>4. \A d \in Waiting', s \in samples : SampleRow(d) # s => d.folds \cap s.folds = {}
    <3> SUFFICES ASSUME NEW d \in Waiting', NEW s \in samples, SampleRow(d) # s
                 PROVE  d.folds \cap s.folds = {}
      OBVIOUS
    <3>1. CASE d \in carry
      BY <3>1, <1>5 DEF FoldsInv, FoldsCountedOnce
    <3>2. s.folds \subseteq StoredFolds
      BY DEF StoredFolds
    <3>3. CASE d \in Late
      BY <3>2, <3>3, <1>6, <2>1
    <3>4. CASE d \in Due
      BY <3>2, <3>4, <1>2, <1>7, <2>1
    <3> QED
      BY <3>1, <3>3, <3>4, <1>5
  <2>5. \A k \in Key : /\ Counted(k)' \cap win'[k].late = {}
                       /\ \A d \in Waiting' : d.folds \cap (Counted(k)' \cup win'[k].late) = {}
                       /\ StoredFolds' \cap (Counted(k)' \cup win'[k].late) = {}
    BY <2>1, <2>2, <1>1, <1>4
  <2>6. \A s, u \in samples' : s # u => s.folds \cap u.folds = {}
    BY DEF FoldsInv, FoldsCountedOnce
  <2>7. \A d \in Waiting', s \in samples' : SampleRow(d)' # s => d.folds \cap s.folds = {}
    BY <2>4, <1>1
  <2> QED
    BY <2>3, <2>5, <2>6, <2>7 DEF FoldsCountedOnce
<1>13. SampleLinked'
  <2>1. \A d \in Waiting' : d.sample \in d.folds
    BY <1>5, <1>6, <1>2, <1>7 DEF FoldsInv, SampleLinked, SampleOf, Counted
  <2>2. \A k \in Key : /\ SampleOf(win'[k].sample, win'[k].count)
                       /\ SampleOf(win'[k].lateSample, win'[k].late)
    BY <1>4 DEF FoldsInv, SampleLinked, SampleOf
  <2> QED
    BY <2>1, <2>2 DEF SampleLinked
<1>14. KeyLinked'
  BY <1>1, <1>4 DEF FoldsInv, KeyLinked
<1> QED
  BY <1>10, <1>12, <1>13, <1>14 DEF FoldsInv

-----------------------------------------------------------------------------
(* A request's writes succeed: its folds are counted by their windows.      *)

(* commit() adds the folds of one request, new to every place. *)
LEMMA Committing ==
    ASSUME TypeOK, RequestsSound, FoldsInv, NEW r \in Request, WritesSucceed(r)
    PROVE  FoldsInv'
<1> DEFINE mine(k) == MyFolds(r, k)
<1>1. req[r].st = "write" /\ req' = [req EXCEPT ![r].st = "ok"] /\ req[r] \in ReqType
  BY DEF WritesSucceed, TypeOK
<1>2. /\ req'[r].st = "ok" /\ req'[r].batch = req[r].batch /\ req'[r].minute = req[r].minute
      /\ req'[r].folds = req[r].folds
      /\ \A q \in Request : q # r => req'[q] = req[q]
  BY <1>1 DEF TypeOK, ReqType
<1>3. \A q \in Request : /\ req'[q].batch = req[q].batch /\ req'[q].minute = req[q].minute
                         /\ req'[q].folds = req[q].folds
  BY <1>2
<1>4. \A f \in Fold : OccOf(f)' = OccOf(f) /\ KeyOf(f)' = KeyOf(f) /\ f[1] \in Request
  BY <1>3 DEF OccOf, KeyOf, Fold
<1>5. \A f \in FoldsOf(r) : /\ f \in Fold /\ OccOf(f) \in Occ /\ KeyOf(f) \in Key
                            /\ f \in mine(KeyOf(f))
  BY FoldType DEF FoldsOf, MyFolds
<1>6. \A k \in Key : /\ mine(k) \in SUBSET Fold /\ mine(k) \subseteq FoldsOf(r)
                     /\ \A f \in mine(k) : OccOf(f) \in Occ /\ KeyOf(f) = k
  BY <1>5 DEF MyFolds
<1>7. Committed' = Committed \cup FoldsOf(r)
  BY <1>5, <1>1, <1>2, <1>4 DEF FoldsOf, Fold, Committed
<1>8. FoldsOf(r) \cap Committed = {}
  BY <1>1 DEF FoldsOf, Committed
<1> HIDE DEF mine
<1>9. \A k \in Key :
         /\ win'[k].flushed = win[k].flushed
         /\ win[k].flushed => /\ win'[k].count = win[k].count /\ win'[k].sample = win[k].sample
                              /\ win'[k].late = win[k].late \cup mine(k)
                              /\ win'[k].lateSample = Newest(win[k].lateSample, mine(k))
         /\ ~win[k].flushed => /\ win'[k].late = win[k].late
                               /\ win'[k].lateSample = win[k].lateSample
                               /\ win'[k].count = win[k].count \cup mine(k)
                               /\ win'[k].sample = Newest(win[k].sample, mine(k))
  <2> SUFFICES ASSUME NEW k \in Key
               PROVE  /\ win'[k].flushed = win[k].flushed
                      /\ win[k].flushed =>
                            /\ win'[k].count = win[k].count /\ win'[k].sample = win[k].sample
                            /\ win'[k].late = win[k].late \cup mine(k)
                            /\ win'[k].lateSample = Newest(win[k].lateSample, mine(k))
                      /\ ~win[k].flushed =>
                            /\ win'[k].late = win[k].late
                            /\ win'[k].lateSample = win[k].lateSample
                            /\ win'[k].count = win[k].count \cup mine(k)
                            /\ win'[k].sample = Newest(win[k].sample, mine(k))
    OBVIOUS
  <2>1. win[k] \in WindowType
    BY DEF TypeOK
  <2>2. win'[k] = Release(CommitWindow(win[k], mine(k)), k, r)
    BY DEF WritesSucceed, mine
  <2> QED
    BY <2>1, <2>2 DEF Release, CommitWindow, WindowType
<1>10. /\ Waiting' = Waiting /\ samples' = samples /\ StoredFolds' = StoredFolds
  BY DEF WritesSucceed, flushVars, Waiting, StoredFolds
<1>11. \A k \in Key : /\ Counted(k)' = IF win[k].flushed THEN {} ELSE Counted(k) \cup mine(k)
                      /\ win'[k].late = IF win[k].flushed THEN win[k].late \cup mine(k) ELSE win[k].late
  BY <1>9 DEF Counted
<1>12. \A k \in Key : Counted(k)' \cup win'[k].late = Counted(k) \cup win[k].late \cup mine(k)
  BY <1>11 DEF Counted
<1>13. /\ \A k \in Key : Counted(k) \cup win[k].late \subseteq Committed
       /\ \A d \in Waiting : d.folds \subseteq Committed
       /\ StoredFolds \subseteq Committed
  BY DEF FoldsInv, FoldsConserved, Unstored
<1>14. \A k \in Key : /\ mine(k) \cap (Counted(k) \cup win[k].late) = {}
                      /\ \A d \in Waiting : d.folds \cap mine(k) = {}
                      /\ StoredFolds \cap mine(k) = {}
  BY <1>6, <1>8, <1>13
<1>15. FoldsConserved'
  <2>1. \A f : f \in Unstored <=> \/ \E k \in Key : f \in Counted(k) \cup win[k].late
                                  \/ \E d \in Waiting : f \in d.folds
    BY DEF Unstored
  <2>2. \A f : f \in Unstored' <=> \/ \E k \in Key : f \in Counted(k)' \cup win'[k].late
                                   \/ \E d \in Waiting' : f \in d.folds
    BY DEF Unstored
  <2>3. \A f : f \in FoldsOf(r) <=> \E k \in Key : f \in mine(k)
    BY <1>5, <1>6 DEF mine
  <2>4. \A f : f \in Unstored' <=> f \in Unstored \/ f \in FoldsOf(r)
    BY <2>1, <2>2, <2>3, <1>10, <1>12
  <2> QED
    BY <2>4, <1>7, <1>10 DEF FoldsInv, FoldsConserved
<1>16. \A d \in Waiting : SampleRow(d)' = SampleRow(d)
  BY WaitingSamples, <1>4 DEF Committed, SampleRow
<1>17. FoldsCountedOnce'
  <2>1. \A k \in Key : /\ Counted(k)' \cap win'[k].late = {}
                       /\ \A d \in Waiting' : d.folds \cap (Counted(k)' \cup win'[k].late) = {}
                       /\ StoredFolds' \cap (Counted(k)' \cup win'[k].late) = {}
    BY <1>11, <1>14, <1>10, <1>12 DEF FoldsInv, FoldsCountedOnce
  <2>2. /\ \A d, e \in Waiting' : d # e => d.folds \cap e.folds = {}
        /\ \A s, u \in samples' : s # u => s.folds \cap u.folds = {}
        /\ \A d \in Waiting', s \in samples' : SampleRow(d)' # s => d.folds \cap s.folds = {}
    BY <1>10, <1>16 DEF FoldsInv, FoldsCountedOnce
  <2> QED
    BY <2>1, <2>2 DEF FoldsCountedOnce
<1>18. SampleLinked'
  <2>1. \A k \in Key : SampleOf(win[k].sample, win[k].count) /\ SampleOf(win[k].lateSample, win[k].late)
    BY DEF FoldsInv, SampleLinked
  <2>2. ASSUME NEW k \in Key, NEW old, NEW folds, SampleOf(old, folds)
        PROVE  SampleOf(Newest(old, mine(k)), folds \cup mine(k))
    BY <1>6, NewestIsOneOf, <2>2 DEF SampleOf
  <2>4. \A k \in Key : SampleOf(win'[k].sample, win'[k].count) /\ SampleOf(win'[k].lateSample, win'[k].late)
    <3> SUFFICES ASSUME NEW k \in Key
                 PROVE  SampleOf(win'[k].sample, win'[k].count) /\ SampleOf(win'[k].lateSample, win'[k].late)
      OBVIOUS
    <3>1. /\ SampleOf(Newest(win[k].sample, mine(k)), win[k].count \cup mine(k))
          /\ SampleOf(Newest(win[k].lateSample, mine(k)), win[k].late \cup mine(k))
      BY <2>1, <2>2
    <3> QED
      BY <3>1, <2>1, <1>9
  <2>5. \A d \in Waiting' : d.sample \in d.folds
    BY <1>10 DEF FoldsInv, SampleLinked
  <2> QED
    BY <2>4, <2>5 DEF SampleLinked
<1>19. KeyLinked'
  BY <1>6, <1>7, <1>9, <1>4 DEF FoldsInv, KeyLinked, Committed
<1> QED
  BY <1>15, <1>17, <1>18, <1>19 DEF FoldsInv

-----------------------------------------------------------------------------
(* A step of plan() changes its own request and one window, and counts     *)
(* nothing.                                                                *)

PlanEffect(r) ==
    /\ req[r].st = "plan"
    /\ \E p \in ReqType :
          /\ req' = [req EXCEPT ![r] = p]
          /\ p.st \in {"plan", "write"} /\ p.batch = req[r].batch /\ p.minute = req[r].minute
          /\ p.folds \subseteq 1..Len(Content[p.batch])
          /\ planner' = IF p.st = "plan" THEN r ELSE None
    /\ win' \in [Key -> WindowType] /\ SameFolds
    /\ tracked' \in [Minute -> 0..MaxTrackedIds] /\ held' \in Int
    /\ UNCHANGED <<now, carry, writing, flushing, stopped, rows, samples, sinkRows,
                   sinkSamples, acked>>

(* While plan() reads an occurrence, it and its window are known. *)
LEMMA PlanningTypes ==
    ASSUME TypeOK, RequestsSound, NEW r \in Request, Planning(r)
    PROVE  /\ planner = r /\ req[r].st = "plan" /\ req[r] \in ReqType
           /\ req[r].batch \in Batch /\ req[r].minute \in Minute
           /\ req[r].pos \in 1..Len(Content[req[r].batch])
           /\ req[r].pos \in 1..MaxLen /\ req[r].pos + 1 \in 1..(MaxLen + 1)
           /\ req[r].folds \subseteq 1..Len(Content[req[r].batch])
           /\ This(r) \in Occ /\ ThisKey(r) \in Key
           /\ win[ThisKey(r)] \in WindowType
<1>1. planner = r /\ req[r].st = "plan" /\ req[r] \in ReqType /\ req[r].batch \in Batch
  BY DEF TypeOK, RequestsSound, Planning
<1>2. req[r].minute \in Minute /\ req[r].pos \in 1..(MaxLen + 1)
  BY <1>1 DEF ReqType
<1>3. Content[req[r].batch] \in Seq(Occ) /\ Len(Content[req[r].batch]) <= MaxLen /\ MaxLen \in Nat
  BY <1>1, ConstantsAssumption
<1>4. req[r].pos \in 1..Len(Content[req[r].batch]) /\ req[r].pos \in 1..MaxLen
      /\ req[r].pos + 1 \in 1..(MaxLen + 1)
  BY <1>2, <1>3 DEF Planning
<1>5. This(r) \in Occ
  BY <1>1, <1>4, OccurrenceType DEF This
<1>6. ThisKey(r) \in Key
  BY <1>2, <1>5, ConstantsAssumption DEF ThisKey, Key
<1>7. req[r].folds \subseteq 1..Len(Content[req[r].batch])
  BY <1>1 DEF RequestsSound
<1> QED
  BY <1>1, <1>2, <1>4, <1>5, <1>6, <1>7 DEF TypeOK

(* The local state of plan() after one more occurrence. *)
LEMMA AdvanceEffect ==
    ASSUME TypeOK, RequestsSound, NEW r \in Request, Planning(r), NEW p \in ReqType,
           Advance(r, p),
           p.st = req[r].st, p.batch = req[r].batch, p.minute = req[r].minute, p.pos = req[r].pos,
           p.folds \subseteq 1..Len(Content[req[r].batch]),
           win' \in [Key -> WindowType], SameFolds,
           tracked' \in [Minute -> 0..MaxTrackedIds], held' \in Int
    PROVE  PlanEffect(r)
<1> DEFINE q == [p EXCEPT !.pos = @ + 1]
<1>1. q \in ReqType /\ q.st = "plan" /\ q.batch = req[r].batch /\ q.minute = req[r].minute
      /\ q.folds = p.folds
  BY PlanningTypes DEF ReqType
<1>2. req' = [req EXCEPT ![r] = q] /\ planner' = r
  BY PlanningTypes DEF Advance
<1>3. UNCHANGED <<now, carry, writing, flushing, stopped, rows, samples, sinkRows,
                  sinkSamples, acked>>
  BY DEF Advance, envVars, flushVars, storeVars
<1> HIDE DEF q
<1> QED
  BY <1>1, <1>2, <1>3, PlanningTypes DEF PlanEffect

(* One window changed, and not in its folds. *)
LEMMA OneWindow ==
    ASSUME TypeOK, NEW k \in Key, NEW w \in WindowType, win' = [win EXCEPT ![k] = w],
           w.count = win[k].count, w.sample = win[k].sample, w.late = win[k].late,
           w.lateSample = win[k].lateSample, w.flushed = win[k].flushed
    PROVE  win' \in [Key -> WindowType] /\ SameFolds
  BY DEF TypeOK, SameFolds

(* Holding a window changes nothing of its folds. *)
LEMMA HoldType ==
    ASSUME TypeOK, RequestsSound, NEW r \in Request, Planning(r)
    PROVE  /\ Hold(r) \in WindowType
           /\ LET w == win[ThisKey(r)] IN
              /\ Hold(r).count = w.count /\ Hold(r).sample = w.sample /\ Hold(r).late = w.late
              /\ Hold(r).lateSample = w.lateSample /\ Hold(r).flushed = w.flushed
              /\ Hold(r).admitted = w.admitted /\ Hold(r).kept = w.kept
              /\ Hold(r).reserved = w.reserved /\ Hold(r).foldedIds = w.foldedIds
<1> DEFINE w == win[ThisKey(r)]
           pend == IF ThisKey(r) \in req[r].touched THEN w.pending ELSE w.pending + 1
<1>1. w \in WindowType
  BY PlanningTypes
<1>2. pend \in Int
  BY <1>1 DEF WindowType
<1>3. Hold(r) = [w EXCEPT !.exists = TRUE, !.pending = pend]
  BY DEF Hold
<1> HIDE DEF w, pend
<1>4. [w EXCEPT !.exists = TRUE, !.pending = pend] \in WindowType
  BY <1>1, <1>2 DEF WindowType
<1>5. LET h == [w EXCEPT !.exists = TRUE, !.pending = pend] IN
      /\ h.count = w.count /\ h.sample = w.sample /\ h.late = w.late
      /\ h.lateSample = w.lateSample /\ h.flushed = w.flushed
      /\ h.admitted = w.admitted /\ h.kept = w.kept
      /\ h.reserved = w.reserved /\ h.foldedIds = w.foldedIds
  BY <1>1 DEF WindowType
<1> QED
  BY <1>3, <1>4, <1>5 DEF w

(* Noting a held window changes nothing else of the plan. *)
LEMMA TouchingType ==
    ASSUME TypeOK, RequestsSound, NEW r \in Request, Planning(r)
    PROVE  /\ Touching(r) \in ReqType
           /\ LET p == Touching(r) IN
              /\ p.st = req[r].st /\ p.batch = req[r].batch /\ p.minute = req[r].minute
              /\ p.pos = req[r].pos /\ p.folds = req[r].folds
              /\ p.kept = req[r].kept /\ p.reservedIds = req[r].reservedIds
  BY PlanningTypes DEF Touching, ReqType

(* A window that admits an occurrence keeps its folds. *)
LEMMA KeptWindow ==
    ASSUME NEW h \in WindowType, NEW w, NEW kept \in SUBSET Occ, NEW admitted \in Int,
           w = [h EXCEPT !.admitted = admitted, !.kept = kept]
    PROVE  /\ w \in WindowType
           /\ w.count = h.count /\ w.sample = h.sample /\ w.late = h.late
           /\ w.lateSample = h.lateSample /\ w.flushed = h.flushed
<1>1. w \in WindowType
  BY DEF WindowType
<1> QED
  BY <1>1 DEF WindowType

(* A window that reserves a fold has not counted it yet. *)
LEMMA FoldedWindow ==
    ASSUME NEW h \in WindowType, NEW w, NEW ids \in SUBSET Occ, NEW admitted \in Int,
           NEW reserved \in Int, NEW tracking \in BOOLEAN,
           w = [h EXCEPT !.holdsSlot = TRUE, !.admitted = admitted, !.reserved = reserved,
                         !.tracking = tracking, !.foldedIds = ids]
    PROVE  /\ w \in WindowType
           /\ w.count = h.count /\ w.sample = h.sample /\ w.late = h.late
           /\ w.lateSample = h.lateSample /\ w.flushed = h.flushed
<1>1. w \in WindowType
  BY DEF WindowType
<1> QED
  BY <1>1 DEF WindowType

(* A plan that keeps an occurrence keeps its folds. *)
LEMMA KeptRequest ==
    ASSUME NEW t \in ReqType, NEW p, NEW kept \in SUBSET Occ, NEW ids \in SUBSET Occ,
           p = [t EXCEPT !.kept = kept, !.reservedIds = ids]
    PROVE  /\ p \in ReqType /\ p.st = t.st /\ p.batch = t.batch
           /\ p.minute = t.minute /\ p.pos = t.pos /\ p.folds = t.folds
<1>1. p \in ReqType
  BY DEF ReqType
<1> QED
  BY <1>1 DEF ReqType

(* A plan that folds one. *)
LEMMA FoldedRequest ==
    ASSUME NEW t \in ReqType, NEW p, NEW folds \in SUBSET (1..MaxLen),
           p = [t EXCEPT !.folds = folds]
    PROVE  /\ p \in ReqType /\ p.st = t.st /\ p.batch = t.batch
           /\ p.minute = t.minute /\ p.pos = t.pos /\ p.folds = folds
<1>1. p \in ReqType
  BY DEF ReqType
<1> QED
  BY <1>1 DEF ReqType

(* Every step of plan() has that effect. *)
LEMMA Planned ==
    ASSUME TypeOK, RequestsSound, NEW r \in Request, PlanStep(r)
    PROVE  PlanEffect(r)
<1> DEFINE k == ThisKey(r)
           o == This(r)
<1>0. tracked \in [Minute -> 0..MaxTrackedIds] /\ held \in Int /\ win \in [Key -> WindowType]
  BY DEF TypeOK
<1>1. CASE PassWithoutWindow(r)
  <2> DEFINE p == [req[r] EXCEPT !.kept = @ \cup {o}]
  <2>1. Planning(r) /\ Advance(r, p) /\ win' = win /\ tracked' = tracked /\ held' = held
    BY <1>1 DEF PassWithoutWindow
  <2>2. /\ p \in ReqType /\ p.st = req[r].st /\ p.batch = req[r].batch
        /\ p.minute = req[r].minute /\ p.pos = req[r].pos /\ p.folds = req[r].folds
    BY <2>1, PlanningTypes DEF ReqType
  <2>3. SameFolds
    BY <2>1 DEF SameFolds
  <2> HIDE DEF p
  <2> QED
    BY <2>1, <2>2, <2>3, <1>0, PlanningTypes, AdvanceEffect
<1>2. ASSUME Planning(r), NEW p \in ReqType, Advance(r, p), p.st = req[r].st,
             p.batch = req[r].batch, p.minute = req[r].minute, p.pos = req[r].pos,
             p.folds = req[r].folds, win' = [win EXCEPT ![k] = Hold(r)],
             tracked' = tracked, held' = held
      PROVE  PlanEffect(r)
  BY <1>2, PlanningTypes, HoldType, OneWindow, <1>0, AdvanceEffect
<1>3. ASSUME Planning(r)
      PROVE  LET p == [Touching(r) EXCEPT !.kept = @ \cup {o}] IN
             /\ p \in ReqType /\ p.st = req[r].st /\ p.batch = req[r].batch
             /\ p.minute = req[r].minute /\ p.pos = req[r].pos /\ p.folds = req[r].folds
  BY <1>3, PlanningTypes, TouchingType DEF ReqType
<1>4. CASE KeepAgain(r)
  BY <1>2, <1>3, <1>4 DEF KeepAgain
<1>5. CASE PassWithoutSlot(r)
  BY <1>2, <1>3, <1>5 DEF PassWithoutSlot, Fresh
<1>6. CASE Recognise(r)
  BY <1>2, <1>6, TouchingType DEF Recognise
<1>7. CASE Keep(r)
  <2> DEFINE p == [Touching(r) EXCEPT !.kept = @ \cup {o}, !.reservedIds = @ \cup {o}]
             w == [Hold(r) EXCEPT !.admitted = @ + 1, !.kept = @ \cup {o}]
  <2>1. Planning(r) /\ Advance(r, p) /\ win' = [win EXCEPT ![k] = w]
        /\ tracked' = tracked /\ held' = held
    BY <1>7 DEF Keep, Fresh
  <2>2. /\ p \in ReqType /\ p.st = req[r].st /\ p.batch = req[r].batch
        /\ p.minute = req[r].minute /\ p.pos = req[r].pos /\ p.folds = req[r].folds
    <3> DEFINE t == Touching(r)
    <3>1. o \in Occ /\ t \in ReqType
      BY <2>1, PlanningTypes, TouchingType
    <3>2. t.kept \cup {o} \in SUBSET Occ /\ t.reservedIds \cup {o} \in SUBSET Occ
      BY <3>1 DEF ReqType
    <3>3. p = [t EXCEPT !.kept = t.kept \cup {o}, !.reservedIds = t.reservedIds \cup {o}]
      OBVIOUS
    <3> HIDE DEF p, o, t
    <3>4. /\ p \in ReqType /\ p.st = t.st /\ p.batch = t.batch
          /\ p.minute = t.minute /\ p.pos = t.pos /\ p.folds = t.folds
      BY <3>1, <3>2, <3>3, KeptRequest
    <3> QED
      BY <2>1, <3>4, TouchingType DEF t
  <2>3. /\ w \in WindowType /\ w.count = win[k].count /\ w.sample = win[k].sample
        /\ w.late = win[k].late /\ w.lateSample = win[k].lateSample /\ w.flushed = win[k].flushed
    <3> DEFINE h == Hold(r)
    <3>1. o \in Occ /\ h \in WindowType
      BY <2>1, PlanningTypes, HoldType
    <3>2. h.kept \cup {o} \in SUBSET Occ /\ h.admitted + 1 \in Int
      BY <3>1 DEF WindowType
    <3>3. w = [h EXCEPT !.admitted = h.admitted + 1, !.kept = h.kept \cup {o}]
      OBVIOUS
    <3> HIDE DEF w, h, o
    <3>4. /\ w \in WindowType /\ w.count = h.count /\ w.sample = h.sample
          /\ w.late = h.late /\ w.lateSample = h.lateSample /\ w.flushed = h.flushed
      BY <3>1, <3>2, <3>3, KeptWindow
    <3> QED
      BY <2>1, <3>4, HoldType DEF h
  <2> HIDE DEF p, w
  <2>4. win' \in [Key -> WindowType] /\ SameFolds
    BY <2>1, <2>3, PlanningTypes, OneWindow
  <2> QED
    BY <1>0, <2>1, <2>2, <2>4, PlanningTypes, AdvanceEffect
<1>8. CASE FoldIn(r)
  <2> DEFINE m == req[r].minute
             remember == Remembers(win[k], m)
             p == [Touching(r) EXCEPT !.folds = @ \cup {req[r].pos}]
             w == [Hold(r) EXCEPT !.holdsSlot = TRUE, !.admitted = @ + 1, !.reserved = @ + 1,
                                  !.tracking = remember,
                                  !.foldedIds = IF remember THEN @ \cup {o} ELSE {}]
  <2>1. Planning(r) /\ Advance(r, p) /\ win' = [win EXCEPT ![k] = w]
        /\ tracked' = (IF remember THEN [tracked EXCEPT ![m] = @ + 1] ELSE tracked)
        /\ held' = (IF win[k].holdsSlot THEN held ELSE held + 1)
    BY <1>8 DEF FoldIn, Fresh
  <2>2. /\ p \in ReqType /\ p.st = req[r].st /\ p.batch = req[r].batch
        /\ p.minute = req[r].minute /\ p.pos = req[r].pos
        /\ p.folds = req[r].folds \cup {req[r].pos}
    <3> DEFINE t == Touching(r)
    <3>1. t \in ReqType /\ t.folds = req[r].folds
      BY <2>1, TouchingType
    <3>2. t.folds \cup {req[r].pos} \in SUBSET (1..MaxLen)
      BY <2>1, <3>1, PlanningTypes DEF ReqType
    <3>3. p = [t EXCEPT !.folds = t.folds \cup {req[r].pos}]
      OBVIOUS
    <3> HIDE DEF p, t
    <3>4. /\ p \in ReqType /\ p.st = t.st /\ p.batch = t.batch
          /\ p.minute = t.minute /\ p.pos = t.pos /\ p.folds = t.folds \cup {req[r].pos}
      BY <3>1, <3>2, <3>3, FoldedRequest
    <3> QED
      BY <2>1, <3>1, <3>4, TouchingType DEF t
  <2>3. remember \in BOOLEAN
    BY <2>1, PlanningTypes DEF Remembers, WindowType
  <2>4. /\ w \in WindowType /\ w.count = win[k].count /\ w.sample = win[k].sample
        /\ w.late = win[k].late /\ w.lateSample = win[k].lateSample /\ w.flushed = win[k].flushed
    <3> DEFINE h == Hold(r)
               ids == IF remember THEN h.foldedIds \cup {o} ELSE {}
    <3>1. o \in Occ /\ h \in WindowType
      BY <2>1, PlanningTypes, HoldType
    <3>2. ids \in SUBSET Occ /\ h.admitted + 1 \in Int /\ h.reserved + 1 \in Int
      BY <3>1 DEF WindowType
    <3>3. w = [h EXCEPT !.holdsSlot = TRUE, !.admitted = h.admitted + 1,
                        !.reserved = h.reserved + 1, !.tracking = remember, !.foldedIds = ids]
      OBVIOUS
    <3> HIDE DEF w, h, o, ids, remember
    <3>4. /\ w \in WindowType /\ w.count = h.count /\ w.sample = h.sample
          /\ w.late = h.late /\ w.lateSample = h.lateSample /\ w.flushed = h.flushed
      BY <2>3, <3>1, <3>2, <3>3, FoldedWindow
    <3> QED
      BY <2>1, <3>4, HoldType DEF h
  <2>5. tracked' \in [Minute -> 0..MaxTrackedIds]
    <3>1. remember => tracked[m] + 1 \in 0..MaxTrackedIds
      BY SMTT(40), <2>1, <1>0, PlanningTypes, ConstantsAssumption DEF Remembers
    <3> HIDE DEF remember
    <3> QED
      BY <2>1, <3>1, <1>0, PlanningTypes
  <2>6. held' \in Int
    BY <2>1, <1>0
  <2> HIDE DEF p, w
  <2>7. win' \in [Key -> WindowType] /\ SameFolds
    BY <2>1, <2>4, PlanningTypes, OneWindow
  <2> QED
    BY <2>1, <2>2, <2>5, <2>6, <2>7, PlanningTypes, AdvanceEffect
<1>9. CASE PlanReturns(r)
  <2> DEFINE p == [req[r] EXCEPT !.st = "write"]
  <2>1. planner = r /\ req[r].st = "plan" /\ req[r] \in ReqType
    BY <1>9 DEF PlanReturns, TypeOK, RequestsSound
  <2>2. req' = [req EXCEPT ![r] = p] /\ planner' = None
    BY <1>9 DEF PlanReturns
  <2>3. /\ p \in ReqType /\ p.st = "write" /\ p.batch = req[r].batch
        /\ p.minute = req[r].minute /\ p.folds = req[r].folds
    BY <2>1 DEF ReqType
  <2>4. /\ win' = win /\ tracked' = tracked /\ held' = held
        /\ UNCHANGED <<now, carry, writing, flushing, stopped, rows, samples, sinkRows,
                       sinkSamples, acked>>
    BY <1>9 DEF PlanReturns, envVars, collapseVars, flushVars, storeVars
  <2>5. SameFolds
    BY <2>4 DEF SameFolds
  <2>6. p.folds \subseteq 1..Len(Content[p.batch])
    BY <2>1, <2>3 DEF RequestsSound
  <2> HIDE DEF p
  <2> QED
    BY <2>1, <2>2, <2>3, <2>4, <2>5, <2>6, <1>0 DEF PlanEffect
<1> QED
  BY <1>1, <1>4, <1>5, <1>6, <1>7, <1>8, <1>9 DEF PlanStep

-----------------------------------------------------------------------------
(* Each action preserves the invariant.                                    *)

(* A request before it arrives. *)
LEMMA IdleType == IdleRequest \in ReqType /\ IdleRequest.st = "idle" /\ IdleRequest.folds = {}
  BY ConstantsAssumption DEF Horizon, Minute, IdleRequest, ReqType

(* Nothing is counted, collected or stored. *)
LEMMA NothingMoved ==
    ASSUME FoldsInv, SameCommitted, SameFolds, UNCHANGED <<carry, writing, samples>>
    PROVE  FoldsInv'
<1> DEFINE D == {}
           Rows == {SampleRow(d) : d \in D}
<1>1. Waiting' = Waiting
  BY DEF Waiting
<1>2. Rows = {}
  OBVIOUS
<1>3. samples' = samples \cup Rows
  BY <1>2
<1>4. D \in SUBSET Waiting /\ Waiting \ D \subseteq Waiting'
  BY <1>1
<1> HIDE DEF D
<1> QED
  BY <1>1, <1>3, <1>4, MovingSamples

(* The ingester starts with nothing counted. *)
LEMMA Starts == Init => IInv
<1> SUFFICES ASSUME Init PROVE IInv
  OBVIOUS
<1>1. Horizon \in Nat /\ 0 \in Minute
  BY ConstantsAssumption DEF Horizon, Minute
<1>2. IdleRequest \in ReqType /\ IdleRequest.st = "idle" /\ IdleRequest.folds = {}
  BY IdleType
<1>3. /\ NoWindow \in WindowType /\ NoWindow.count = {} /\ NoWindow.late = {}
      /\ NoWindow.sample = None /\ NoWindow.lateSample = None /\ ~NoWindow.flushed
  BY DEF NoWindow, WindowType
<1>4. TypeOK
  <2>1. now \in Minute /\ planner \in Request \cup {None} /\ held \in Int
    BY <1>1 DEF Init
  <2>2. req \in [Request -> ReqType] /\ \A r \in Request : req[r].st = "idle"
    BY <1>2 DEF Init
  <2>3. win \in [Key -> WindowType]
    BY <1>3 DEF Init
  <2>4. tracked \in [Minute -> 0..MaxTrackedIds]
    BY ConstantsAssumption DEF Init
  <2> QED
    BY <2>1, <2>2, <2>3, <2>4 DEF Init, TypeOK
<1>5. RequestsSound /\ WritingInFlush
  BY <1>2, ConstantsAssumption DEF Init, RequestsSound, WritingInFlush
<1>6. Committed = {} /\ StoredFolds = {} /\ Waiting = {} /\ samples = {}
  BY <1>2 DEF Init, Committed, StoredFolds, Waiting, Fold
<1>7. \A k \in Key : Counted(k) = {} /\ win[k] = NoWindow
  BY <1>3 DEF Init, Counted
<1>8. Unstored = {}
  BY <1>3, <1>6, <1>7 DEF Unstored
<1>9. FoldsInv
  BY <1>3, <1>6, <1>7, <1>8
     DEF FoldsInv, FoldsConserved, FoldsCountedOnce, SampleLinked, SampleOf, KeyLinked
<1> QED
  BY <1>4, <1>5, <1>9 DEF IInv

(* The clock. *)
LEMMA TickKeeps == ASSUME IInv, Tick PROVE IInv'
<1>1. now' \in Minute /\ UNCHANGED <<planner, req, win, tracked, held, carry, writing, flushing,
                                     stopped, rows, samples, sinkRows, sinkSamples, acked>>
  BY ConstantsAssumption
     DEF IInv, TypeOK, Tick, Horizon, Minute, collapseVars, flushVars, storeVars
<1>2. TypeOK' /\ RequestsSound' /\ WritingInFlush'
  BY <1>1 DEF IInv, TypeOK, RequestsSound, WritingInFlush
<1>3. FoldsInv'
  BY <1>1, CommittedStays, NothingMoved DEF SameFolds, IInv
<1> QED
  BY <1>2, <1>3 DEF IInv

(* A request arrives. *)
LEMMA ArriveKeeps ==
    ASSUME IInv, NEW r \in Request, NEW b \in Batch, Arrive(r, b)
    PROVE  IInv'
<1> DEFINE p == [IdleRequest EXCEPT !.st = "plan", !.batch = b, !.minute = now]
<1>1. /\ planner' = r /\ req[r].st = "idle" /\ req' = [req EXCEPT ![r] = p]
      /\ UNCHANGED <<now, win, tracked, held, carry, writing, flushing, stopped, rows, samples,
                     sinkRows, sinkSamples, acked>>
  BY DEF Arrive, envVars, collapseVars, flushVars, storeVars
<1>2. p \in ReqType /\ p.st = "plan" /\ p.batch = b /\ p.folds = {}
  <2>1. now \in Minute
    BY DEF IInv, TypeOK
  <2> QED
    BY <2>1, IdleType DEF ReqType
<1> HIDE DEF p
<1>3. \A q \in Request : req'[q] = IF q = r THEN p ELSE req[q]
  BY <1>1 DEF IInv, TypeOK
<1>4. TypeOK'
  BY <1>1, <1>2, <1>3 DEF IInv, TypeOK
<1>5. RequestsSound' /\ WritingInFlush'
  BY <1>1, <1>2, <1>3 DEF IInv, RequestsSound, WritingInFlush
<1>6. SameCommitted
  BY <1>1, <1>2, <1>3, CommittedStays
<1>7. SameFolds
  BY <1>1 DEF SameFolds
<1>8. FoldsInv'
  BY <1>1, <1>6, <1>7, NothingMoved DEF IInv
<1> QED
  BY <1>4, <1>5, <1>8 DEF IInv

(* A step of plan(). *)
LEMMA PlanStepKeeps ==
    ASSUME IInv, NEW r \in Request, PlanStep(r)
    PROVE  IInv'
<1>1. PlanEffect(r)
  BY Planned DEF IInv
<1>2. PICK p \in ReqType :
         /\ req' = [req EXCEPT ![r] = p]
         /\ p.st \in {"plan", "write"} /\ p.batch = req[r].batch /\ p.minute = req[r].minute
         /\ p.folds \subseteq 1..Len(Content[p.batch])
         /\ planner' = IF p.st = "plan" THEN r ELSE None
  BY <1>1 DEF PlanEffect
<1>3. /\ req[r].st = "plan" /\ win' \in [Key -> WindowType] /\ SameFolds
      /\ tracked' \in [Minute -> 0..MaxTrackedIds] /\ held' \in Int
      /\ UNCHANGED <<now, carry, writing, flushing, stopped, rows, samples, sinkRows,
                     sinkSamples, acked>>
  BY <1>1 DEF PlanEffect
<1>4. \A q \in Request : req'[q] = IF q = r THEN p ELSE req[q]
  BY <1>2 DEF IInv, TypeOK
<1>5. req[r].batch \in Batch
  BY <1>3 DEF IInv, TypeOK
<1>6. TypeOK'
  BY <1>2, <1>3, <1>4, <1>5 DEF IInv, TypeOK
<1>7. RequestsSound' /\ WritingInFlush'
  BY <1>2, <1>3, <1>4, ConstantsAssumption DEF IInv, RequestsSound, WritingInFlush
<1>8. SameCommitted
  BY <1>2, <1>3, <1>4, CommittedStays
<1>9. FoldsInv'
  BY <1>3, <1>8, NothingMoved DEF IInv
<1> QED
  BY <1>6, <1>7, <1>9 DEF IInv

(* A request is answered 2xx. *)
LEMMA CommitKeeps ==
    ASSUME IInv, NEW r \in Request, WritesSucceed(r)
    PROVE  IInv'
<1>1. /\ req[r].st = "write" /\ req' = [req EXCEPT ![r].st = "ok"]
      /\ rows' = rows \cup req[r].kept
      /\ sinkRows' \in {sinkRows, sinkRows \cup req[r].kept}
      /\ acked' \in {acked, acked \cup {req[r].batch}}
      /\ UNCHANGED <<now, planner, tracked, held, carry, samples, sinkSamples, writing,
                     flushing, stopped>>
  BY DEF WritesSucceed, flushVars
<1>2. req[r] \in ReqType /\ req[r].batch \in Batch /\ planner = None
  BY <1>1 DEF IInv, TypeOK, WritesSucceed
<1>3. /\ [req[r] EXCEPT !.st = "ok"] \in ReqType
      /\ [req[r] EXCEPT !.st = "ok"].batch = req[r].batch
      /\ [req[r] EXCEPT !.st = "ok"].folds = req[r].folds
      /\ [req[r] EXCEPT !.st = "ok"].st = "ok" /\ req[r].kept \in SUBSET Occ
  BY <1>2 DEF ReqType
<1>4. \A q \in Request : req'[q] = IF q = r THEN [req[r] EXCEPT !.st = "ok"] ELSE req[q]
  BY <1>1 DEF IInv, TypeOK
<1>5. req' \in [Request -> ReqType] /\ \A q \in Request : req'[q].st # "idle" => req'[q].batch \in Batch
  BY <1>1, <1>2, <1>3, <1>4 DEF IInv, TypeOK
<1>6. win' \in [Key -> WindowType]
  <2> SUFFICES ASSUME NEW k \in Key
               PROVE  Release(CommitWindow(win[k], MyFolds(r, k)), k, r) \in WindowType
    BY DEF WritesSucceed
  <2>1. win[k] \in WindowType
    BY DEF IInv, TypeOK
  <2>2. MyFolds(r, k) \in SUBSET Fold /\ \A f \in MyFolds(r, k) : OccOf(f) \in Occ
    BY FoldType DEF MyFolds, FoldsOf, IInv
  <2>3. Cardinality(MyFolds(r, k)) \in Int
    BY <2>2, CountsAreInts
  <2>4. \A old \in Fold \cup {None} : Newest(old, MyFolds(r, k)) \in Fold \cup {None}
    BY <2>2, NewestIsOneOf
  <2>5. CommitWindow(win[k], MyFolds(r, k)) \in WindowType
    <3> DEFINE w == win[k]
               mine == MyFolds(r, k)
               reserved == w.reserved - Cardinality(mine)
               late == w.late \cup mine
               lateSample == Newest(w.lateSample, mine)
               count == w.count \cup mine
               sample == Newest(w.sample, mine)
    <3>1. /\ reserved \in Int /\ late \in SUBSET Fold /\ count \in SUBSET Fold
          /\ sample \in Fold \cup {None} /\ lateSample \in Fold \cup {None}
      BY <2>1, <2>2, <2>3, <2>4 DEF WindowType
    <3>2. CommitWindow(w, mine) =
            IF w.flushed
            THEN [w EXCEPT !.reserved = reserved, !.late = late, !.lateSample = lateSample]
            ELSE [w EXCEPT !.reserved = reserved, !.count = count, !.sample = sample]
      BY <2>1 DEF CommitWindow, WindowType
    <3> HIDE DEF reserved, late, lateSample, count, sample
    <3>3. [w EXCEPT !.reserved = reserved, !.late = late, !.lateSample = lateSample]
            \in WindowType
      BY <2>1, <3>1 DEF WindowType
    <3>4. [w EXCEPT !.reserved = reserved, !.count = count, !.sample = sample]
            \in WindowType
      BY <2>1, <3>1 DEF WindowType
    <3> QED
      BY <3>2, <3>3, <3>4
  <2> HIDE DEF MyFolds
  <2>6. \A w \in WindowType : Release(w, k, r) \in WindowType
    BY DEF Release, WindowType
  <2> QED
    BY <2>5, <2>6
<1>7. TypeOK'
  BY <1>1, <1>2, <1>3, <1>5, <1>6 DEF IInv, TypeOK
<1>8. RequestsSound' /\ WritingInFlush'
  BY <1>1, <1>2, <1>3, <1>4, ConstantsAssumption DEF IInv, RequestsSound, WritingInFlush
<1>9. FoldsInv'
  BY Committing DEF IInv
<1> QED
  BY <1>7, <1>8, <1>9 DEF IInv

(* A request is answered 503. *)
LEMMA RollbackKeeps ==
    ASSUME IInv, NEW r \in Request, WritesFail(r)
    PROVE  IInv'
<1>1. PICK st \in {"failed", "partial"} : req' = [req EXCEPT ![r].st = st]
  BY DEF WritesFail
<1>2. /\ planner = None /\ req[r].st = "write" /\ rows' \in {rows, rows \cup req[r].kept}
      /\ UNCHANGED <<now, planner, tracked, carry, samples, sinkRows, sinkSamples, acked,
                     writing, flushing, stopped>>
  BY DEF WritesFail, envVars, flushVars
<1>3. req[r] \in ReqType /\ req[r].batch \in Batch
  BY <1>2 DEF IInv, TypeOK
<1>4. /\ [req[r] EXCEPT !.st = st] \in ReqType
      /\ [req[r] EXCEPT !.st = st].batch = req[r].batch
      /\ [req[r] EXCEPT !.st = st].folds = req[r].folds
      /\ [req[r] EXCEPT !.st = st].st = st /\ req[r].kept \in SUBSET Occ
  BY <1>3 DEF ReqType
<1>5. \A q \in Request : req'[q] = IF q = r THEN [req[r] EXCEPT !.st = st] ELSE req[q]
  BY <1>1 DEF IInv, TypeOK
<1>6. req' \in [Request -> ReqType] /\ \A q \in Request : req'[q].st # "idle" => req'[q].batch \in Batch
  BY <1>1, <1>3, <1>4, <1>5 DEF IInv, TypeOK
<1> DEFINE rolled == [k \in Key |-> RollbackWindow(win[k], MyReservedIds(r, k), MyFolds(r, k))]
<1>7. /\ win' = [k \in Key |-> Release(rolled[k], k, r)]
      /\ held' = held - Cardinality({k \in Key : win[k].holdsSlot /\ ~rolled[k].holdsSlot})
  BY DEF WritesFail
<1>8. ASSUME NEW k \in Key
      PROVE  /\ win'[k] \in WindowType
             /\ win'[k].count = win[k].count /\ win'[k].sample = win[k].sample
             /\ win'[k].late = win[k].late /\ win'[k].lateSample = win[k].lateSample
             /\ win'[k].flushed = win[k].flushed
  <2> DEFINE w == win[k]
             ids == MyReservedIds(r, k)
             mine == MyFolds(r, k)
             admitted == w.admitted - Cardinality(ids) - Cardinality(mine)
             reserved == w.reserved - Cardinality(mine)
             foldedIds == w.foldedIds \ {OccOf(f) : f \in mine}
             kept == w.kept \ ids
             given == [w EXCEPT !.admitted = admitted, !.kept = kept, !.reserved = reserved,
                                !.foldedIds = foldedIds]
             slot == given.holdsSlot /\ ~(mine # {} /\ ~given.flushed /\ given.count = {}
                                             /\ given.reserved = 0)
  <2>1. w \in WindowType
    BY DEF IInv, TypeOK
  <2>2. mine \in SUBSET Fold
    BY FoldType DEF MyFolds, FoldsOf, IInv
  <2>3. ids \in SUBSET Occ
    BY <1>3 DEF MyReservedIds, ReqType
  <2>4. Cardinality(ids) \in Int /\ Cardinality(mine) \in Int
    <3> HIDE DEF ids, mine
    <3> QED
      BY <2>2, <2>3, CountsAreInts
  <2>5. rolled[k] = [given EXCEPT !.holdsSlot = slot]
    BY DEF RollbackWindow
  <2>6. win'[k] = Release(rolled[k], k, r)
    BY <1>7
  <2> HIDE DEF ids, mine, rolled
  <2>7. /\ admitted \in Int /\ reserved \in Int /\ foldedIds \in SUBSET Occ /\ kept \in SUBSET Occ
    BY <2>1, <2>4 DEF WindowType
  <2> HIDE DEF admitted, reserved, foldedIds, kept, w
  <2>8. /\ given \in WindowType /\ given.count = w.count /\ given.sample = w.sample
        /\ given.late = w.late /\ given.lateSample = w.lateSample /\ given.flushed = w.flushed
    BY <2>1, <2>7 DEF WindowType
  <2>9. slot \in BOOLEAN
    BY <2>8 DEF WindowType
  <2> HIDE DEF given, slot
  <2>10. /\ rolled[k] \in WindowType /\ rolled[k].count = given.count
         /\ rolled[k].sample = given.sample /\ rolled[k].late = given.late
         /\ rolled[k].lateSample = given.lateSample /\ rolled[k].flushed = given.flushed
    BY <2>5, <2>8, <2>9 DEF WindowType
  <2> DEFINE q == rolled[k]
             pending == IF k \in req[r].touched THEN q.pending - 1 ELSE q.pending
  <2>11. pending \in Int
    BY <2>10 DEF WindowType
  <2>12. win'[k] = [q EXCEPT !.pending = pending]
    BY <2>6 DEF Release
  <2> HIDE DEF pending, q
  <2>13. /\ q \in WindowType /\ q.count = w.count /\ q.sample = w.sample /\ q.late = w.late
         /\ q.lateSample = w.lateSample /\ q.flushed = w.flushed
    BY <2>8, <2>10 DEF q
  <2>14. win'[k] \in WindowType
    BY <2>11, <2>12, <2>13 DEF WindowType
  <2>15. /\ win'[k].count = w.count /\ win'[k].sample = w.sample /\ win'[k].late = w.late
         /\ win'[k].lateSample = w.lateSample /\ win'[k].flushed = w.flushed
    BY <2>12, <2>13, <2>14 DEF WindowType
  <2> QED
    BY <2>14, <2>15 DEF w
<1>9. win' \in [Key -> WindowType] /\ SameFolds
  <2>1. win' = [k \in Key |-> win'[k]]
    BY <1>7
  <2> HIDE DEF rolled
  <2> QED
    BY <1>8, <2>1 DEF SameFolds
<1>10. held' \in Int
  <2> DEFINE freed == {k \in Key : win[k].holdsSlot /\ ~rolled[k].holdsSlot}
  <2>1. Cardinality(freed) \in Int
    <3>1. freed \in SUBSET Key
      OBVIOUS
    <3> HIDE DEF freed
    <3> QED
      BY <3>1, CountsAreInts
  <2>2. held' = held - Cardinality(freed) /\ held \in Int
    BY <1>7 DEF IInv, TypeOK
  <2> HIDE DEF freed
  <2> QED
    BY <2>1, <2>2
<1> HIDE DEF rolled
<1>11. TypeOK'
  BY <1>2, <1>4, <1>6, <1>9, <1>10 DEF IInv, TypeOK
<1>12. RequestsSound' /\ WritingInFlush'
  BY <1>1, <1>2, <1>3, <1>4, <1>5, ConstantsAssumption DEF IInv, RequestsSound, WritingInFlush
<1>13. SameCommitted
  BY <1>2, <1>4, <1>5, CommittedStays
<1>14. FoldsInv'
  BY <1>2, <1>9, <1>13, NothingMoved DEF IInv
<1> QED
  BY <1>11, <1>12, <1>14 DEF IInv

(* Due samples are of collected folds. *)
LEMMA CollectKeeps ==
    ASSUME IInv, ~flushing, NEW all \in BOOLEAN, CollectDue(all),
           UNCHANGED <<now, planner, req, tracked, rows, samples, sinkRows, sinkSamples, acked>>,
           flushing' = TRUE, stopped' \in {"no", "closing", "flushed"}
    PROVE  IInv'
<1>1. writing = {}
  BY DEF IInv, WritingInFlush
<1>2. win \in [Key -> WindowType] /\ \A k \in Key : win[k] \in WindowType
  BY DEF IInv, TypeOK
<1> DEFINE over == FlushSet(all)
           full == {k \in over : win[k].count # {}}
           withLate == {k \in Key : win[k].late # {}}
<1>3. /\ writing' = carry \cup {DueLate(k) : k \in withLate} \cup {DueWindow(k) : k \in full}
      /\ carry' = {}
      /\ win' = [k \in Key |-> Collect(win[k], k \in over, k \in full)]
      /\ held' = held - Cardinality({k \in over \ full : win[k].holdsSlot})
  BY DEF CollectDue
<1>4. over \in SUBSET Key
  BY DEF FlushSet
<1> HIDE DEF over
<1>5. win' \in [Key -> WindowType]
  <2> SUFFICES ASSUME NEW k \in Key
               PROVE  Collect(win[k], k \in over, k \in full) \in WindowType
    BY <1>3
  <2> DEFINE w == win[k]
             flushed == w.flushed \/ k \in over
             slot == w.holdsSlot /\ ~(k \in over /\ ~(k \in full))
  <2>1. w \in WindowType
    BY <1>2
  <2>2. Collect(w, k \in over, k \in full) =
          [w EXCEPT !.flushed = flushed, !.holdsSlot = slot, !.late = {}, !.lateSample = None]
    BY DEF Collect
  <2>3. flushed \in BOOLEAN /\ slot \in BOOLEAN
    BY <2>1 DEF WindowType
  <2> HIDE DEF flushed, slot, w
  <2>4. [w EXCEPT !.flushed = flushed, !.holdsSlot = slot, !.late = {}, !.lateSample = None]
           \in WindowType
    BY <2>1, <2>3 DEF WindowType
  <2> QED
    BY <2>2, <2>4 DEF w
<1>6. writing' \subseteq DueType
  <2>1. \A k \in withLate : DueLate(k) \in DueType
    BY <1>2 DEF IInv, FoldsInv, SampleLinked, SampleOf, WindowType, DueLate, DueType
  <2>2. \A k \in full : DueWindow(k) \in DueType
    BY <1>2, <1>4 DEF IInv, FoldsInv, SampleLinked, SampleOf, WindowType, DueWindow, DueType
  <2>3. carry \subseteq DueType
    BY DEF IInv, TypeOK
  <2> QED
    BY <1>3, <2>1, <2>2, <2>3
<1>7. held' \in Int
  <2> DEFINE freed == {k \in over \ full : win[k].holdsSlot}
  <2>1. freed \in SUBSET Key
    BY <1>4
  <2>2. held' = held - Cardinality(freed) /\ held \in Int
    BY <1>3 DEF IInv, TypeOK
  <2> HIDE DEF freed
  <2> QED
    BY <2>1, <2>2, CountsAreInts
<1>8. TypeOK'
  <2>1. carry' \subseteq DueType
    BY <1>3
  <2> QED
    BY <1>5, <1>6, <1>7, <2>1 DEF IInv, TypeOK
<1>9. RequestsSound' /\ WritingInFlush'
  BY DEF IInv, RequestsSound, WritingInFlush
<1>10. FoldsInv'
  BY <1>1, <1>2, Collecting DEF IInv
<1> QED
  BY <1>8, <1>9, <1>10 DEF IInv

(* The row of a waiting sample. *)
LEMMA SampleRowType ==
    ASSUME IInv, NEW d \in Waiting
    PROVE  SampleRow(d) \in SampleType
  BY WaitingSamples, CommittedType, CountsAreInts DEF IInv, TypeOK, Waiting, DueType, SampleRow, SampleType

(* A tenant's samples are stored. *)
LEMMA FlushStoresKeeps ==
    ASSUME IInv, NEW t \in Tenant, FlushStores(t)
    PROVE  IInv'
<1> DEFINE due == DueOf(t)
           stored == {SampleRow(d) : d \in due}
           slots == {k \in Key : win[k].holdsSlot /\ \E d \in due : d.key = k /\ d.holdsSlot}
<1>1. /\ samples' = samples \cup stored
      /\ sinkSamples' \in {sinkSamples, sinkSamples \cup stored}
      /\ writing' = writing \ due
      /\ win' = [k \in Key |-> [win[k] EXCEPT !.holdsSlot = @ /\ k \notin slots]]
      /\ held' = held - Cardinality(slots)
      /\ UNCHANGED <<now, planner, req, tracked, carry, flushing, stopped, rows, sinkRows, acked>>
  BY DEF FlushStores
<1>2. due \in SUBSET writing /\ due \in SUBSET Waiting
  BY DEF DueOf, Waiting
<1>3. stored \subseteq SampleType
  BY <1>2, SampleRowType
<1>4. slots \in SUBSET Key
  OBVIOUS
<1> HIDE DEF slots
<1>5. ASSUME NEW k \in Key
      PROVE  /\ win'[k] \in WindowType
             /\ win'[k].count = win[k].count /\ win'[k].sample = win[k].sample
             /\ win'[k].late = win[k].late /\ win'[k].lateSample = win[k].lateSample
             /\ win'[k].flushed = win[k].flushed
  <2> DEFINE w == win[k]
             slot == w.holdsSlot /\ k \notin slots
  <2>1. w \in WindowType
    BY DEF IInv, TypeOK
  <2>2. win'[k] = [w EXCEPT !.holdsSlot = slot] /\ slot \in BOOLEAN
    BY <1>1, <2>1 DEF WindowType
  <2> HIDE DEF slot, w
  <2>3. win'[k] \in WindowType
    BY <2>1, <2>2 DEF WindowType
  <2>4. /\ win'[k].count = w.count /\ win'[k].sample = w.sample /\ win'[k].late = w.late
        /\ win'[k].lateSample = w.lateSample /\ win'[k].flushed = w.flushed
    BY <2>1, <2>2, <2>3 DEF WindowType
  <2> QED
    BY <2>3, <2>4 DEF w
<1>6. win' \in [Key -> WindowType] /\ SameFolds
  BY <1>1, <1>5 DEF SameFolds
<1>7. held' \in Int
  BY <1>1, <1>4, CountsAreInts DEF IInv, TypeOK
<1>8. TypeOK'
  BY <1>1, <1>3, <1>6, <1>7 DEF IInv, TypeOK
<1>9. RequestsSound' /\ WritingInFlush'
  BY <1>1 DEF IInv, RequestsSound, WritingInFlush
<1>10. FoldsInv'
  <2>1. SameCommitted
    BY <1>1, CommittedStays
  <2>2. Waiting' \subseteq Waiting /\ Waiting \ due \subseteq Waiting'
    BY <1>1 DEF Waiting
  <2> HIDE DEF due
  <2> QED
    BY <1>1, <1>2, <1>6, <2>1, <2>2, MovingSamples DEF IInv
<1> QED
  BY <1>8, <1>9, <1>10 DEF IInv

(* The write of a tenant's samples fails. *)
LEMMA FlushFailsKeeps ==
    ASSUME IInv, NEW t \in Tenant, FlushFails(t)
    PROVE  IInv'
<1> DEFINE due == DueOf(t)
           stored == {SampleRow(d) : d \in due}
<1>1. /\ samples' = samples \/ samples' = samples \cup stored
      /\ writing' = writing \ due /\ carry' = carry \cup due
      /\ UNCHANGED <<now, planner, req, win, tracked, held, flushing, stopped, rows, sinkRows,
                     sinkSamples, acked>>
  BY DEF FlushFails
<1>2. due \in SUBSET writing /\ due \in SUBSET Waiting
  BY DEF DueOf, Waiting
<1>3. stored \subseteq SampleType
  BY <1>2, SampleRowType
<1>4. TypeOK'
  BY <1>1, <1>2, <1>3 DEF IInv, TypeOK
<1>5. RequestsSound' /\ WritingInFlush'
  BY <1>1 DEF IInv, RequestsSound, WritingInFlush
<1>6. SameCommitted /\ SameFolds
  BY <1>1, CommittedStays DEF SameFolds
<1>7. Waiting' = Waiting
  BY <1>1, <1>2 DEF Waiting
<1>8. FoldsInv'
  <2>1. CASE samples' = samples
    <3> DEFINE D == {}
               Rows == {SampleRow(d) : d \in D}
    <3>1. Rows = {}
      OBVIOUS
    <3>2. samples' = samples \cup Rows /\ D \in SUBSET Waiting /\ Waiting \ D \subseteq Waiting'
      BY <2>1, <3>1, <1>7
    <3> HIDE DEF D
    <3> QED
      BY <3>2, <1>6, <1>7, MovingSamples DEF IInv
  <2>2. CASE samples' = samples \cup stored
    <3> HIDE DEF due
    <3> QED
      BY <2>2, <1>2, <1>6, <1>7, MovingSamples DEF IInv
  <2> QED
    BY <1>1, <2>1, <2>2
<1> QED
  BY <1>4, <1>5, <1>8 DEF IInv

(* The flush ends, the process is told to stop, or nothing happens. *)
LEMMA FlagsKeep ==
    ASSUME IInv, UNCHANGED <<now, planner, req, win, tracked, held, carry, writing, rows, samples,
                             sinkRows, sinkSamples, acked>>,
           flushing' \in BOOLEAN, ~flushing' => writing = {},
           stopped' \in {"no", "closing", "flushed"}
    PROVE  IInv'
  BY CommittedStays, NothingMoved DEF IInv, TypeOK, RequestsSound, WritingInFlush, SameFolds

(* Together: every step of the ingester. *)
LEMMA Steps == IInv /\ [Next]_vars => IInv'
<1> SUFFICES ASSUME IInv, [Next]_vars PROVE IInv'
  OBVIOUS
<1>1. CASE Tick
  BY <1>1, TickKeeps
<1>2. ASSUME NEW r \in Request, NEW b \in Batch, Arrive(r, b) PROVE IInv'
  BY <1>2, ArriveKeeps
<1>3. ASSUME NEW r \in Request, PlanStep(r) PROVE IInv'
  BY <1>3, PlanStepKeeps
<1>4. ASSUME NEW r \in Request, WritesSucceed(r) PROVE IInv'
  BY <1>4, CommitKeeps
<1>5. ASSUME NEW r \in Request, WritesFail(r) PROVE IInv'
  BY <1>5, RollbackKeeps
<1>6. CASE FlushTimer
  BY <1>6, CollectKeeps DEF FlushTimer, IInv, TypeOK, storeVars
<1>7. CASE FlushAll
  BY <1>7, CollectKeeps DEF FlushAll, storeVars
<1>8. ASSUME NEW t \in Tenant, FlushStores(t) PROVE IInv'
  BY <1>8, FlushStoresKeeps
<1>9. ASSUME NEW t \in Tenant, FlushFails(t) PROVE IInv'
  BY <1>9, FlushFailsKeeps
<1>10. CASE FlushEnds
  BY <1>10, FlagsKeep DEF FlushEnds, IInv, TypeOK, collapseVars, storeVars
<1>11. CASE Shutdown
  BY <1>11, FlagsKeep DEF IInv, TypeOK, WritingInFlush, Shutdown, collapseVars, storeVars
<1>12. CASE UNCHANGED vars
  BY <1>12, FlagsKeep DEF IInv, TypeOK, WritingInFlush, vars
<1> QED
  BY <1>1, <1>2, <1>3, <1>4, <1>5, <1>6, <1>7, <1>8, <1>9, <1>10, <1>11, <1>12 DEF Next, Operating

-----------------------------------------------------------------------------
(* The invariant holds of every run of the ingester's collapse.             *)
THEOREM InvariantHolds == Spec => []IInv
BY Starts, Steps, PTL DEF Spec

(* Every variable keeps its type: no window, sample or request is ever      *)
(* half-formed, a waiting sample always is one of real folds.               *)
THEOREM TypeCorrect == Spec => []TypeOK
<1>1. IInv => TypeOK
  BY DEF IInv
<1> QED
  BY <1>1, InvariantHolds, PTL

(* No fold of a request answered 2xx is lost between commit() and the       *)
(* stored sample, and nothing else is counted.                              *)
THEOREM FoldsAreConserved == Spec => []FoldsConserved
<1>1. IInv => FoldsConserved
  BY DEF IInv, FoldsInv
<1> QED
  BY <1>1, InvariantHolds, PTL

(* No fold is counted by two windows, samples or rows at once.              *)
THEOREM FoldsAreCountedOnce == Spec => []FoldsCountedOnce
<1>1. IInv => FoldsCountedOnce
  BY DEF IInv, FoldsInv
<1> QED
  BY <1>1, InvariantHolds, PTL

-----------------------------------------------------------------------------
(* The accounts of the collapse windows hold for any requests, batches,      *)
(* limits, retries and failures: WindowsAccounted of LoopCollapse; what is   *)
(* accepted is counted, and counted once below the limits: AcceptedIsCounted *)
(* and SamplesExact.                                                         *)
(*                                                                           *)
(* The parts of WindowsAccounted hold together: pending and reserved of a    *)
(* window count requests only while every plan matches its windows, a plan   *)
(* matches only if plan() runs inside one minute and no request settles      *)
(* twice.  The steps are taken by what they do to one window: an occurrence  *)
(* planned (PlanTakes), a request settled (Settled, by commit() or           *)
(* rollback()), a window collected.  For the counts an occurrence planned is *)
(* taken again, by what the window and the plan remember of its id           *)
(* (PlanIds).                                                                *)

(* While plan() runs it is still the minute of its request, and no window    *)
(* of that minute has been flushed.                                          *)
OpenWhilePlanning ==
    /\ planner \in Request => req[planner].minute = now /\ stopped # "flushed"
    /\ \A k \in Key : win[k].flushed => k[2] < now \/ stopped = "flushed"

(* A plan has folded only occurrences it has passed. *)
FoldsBehind ==
    \A r \in Request : InFlight(r) => \A j \in req[r].folds : j < req[r].pos

(* An id reserved by a request in flight is among those its window stored,   *)
(* and no other request in flight reserved it in that minute.                *)
IdsHeld ==
    \A r \in Request : InFlight(r) =>
        /\ \A o \in req[r].reservedIds : o \in win[<<IdentOf[o], req[r].minute>>].kept
        /\ \A q \in Request \ {r} :
              InFlight(q) /\ req[q].minute = req[r].minute
                 => req[q].reservedIds \cap req[r].reservedIds = {}

ReservationsSound == OpenWhilePlanning /\ FoldsBehind /\ IdsHeld
WindowsInv ==
    /\ SlotsAccounted /\ WindowsMatchRequests /\ NoEarlyClose
    /\ SampleIsNewest /\ ForwardedIsStored /\ ReservationsSound

-----------------------------------------------------------------------------
(* One occurrence planned: passed by, seen in a window, kept or folded.     *)
PlanTakes(r, what) ==
    LET k == ThisKey(r)
        w == win[k]
        p == req[r]
    IN
    /\ Planning(r)
    /\ what \in {"pass", "hold", "keep", "fold"}
    /\ what = "keep" => This(r) \notin w.kept /\ w.admitted < After
    /\ what = "fold" => w.holdsSlot \/ held < MaxSamples
    /\ \A j \in Key \ {k} : win'[j] = win[j]
    /\ win'[k].pending = w.pending + (IF what = "pass" \/ k \in p.touched THEN 0 ELSE 1)
    /\ win'[k].admitted = w.admitted + (IF what \in {"keep", "fold"} THEN 1 ELSE 0)
    /\ win'[k].kept = w.kept \cup (IF what = "keep" THEN {This(r)} ELSE {})
    /\ win'[k].reserved = w.reserved + (IF what = "fold" THEN 1 ELSE 0)
    /\ win'[k].holdsSlot = (w.holdsSlot \/ what = "fold")
    /\ held' = held + (IF what = "fold" /\ ~w.holdsSlot THEN 1 ELSE 0)
    /\ \A q \in Request \ {r} : req'[q] = req[q]
    /\ req'[r].st = "plan" /\ req'[r].batch = p.batch /\ req'[r].minute = p.minute
    /\ req'[r].pos = p.pos + 1
    /\ req'[r].touched = p.touched \cup (IF what = "pass" THEN {} ELSE {k})
    /\ req'[r].reservedIds = p.reservedIds \cup (IF what = "keep" THEN {This(r)} ELSE {})
    /\ req'[r].folds = p.folds \cup (IF what = "fold" THEN {p.pos} ELSE {})
    /\ UNCHANGED <<now, planner, carry, writing, flushing, stopped, rows, samples, sinkRows,
                   sinkSamples, acked>>

(* What a held window is. *)
LEMMA HoldFields ==
    ASSUME TypeOK, RequestsSound, NEW r \in Request, Planning(r)
    PROVE  LET w == win[ThisKey(r)] IN
           /\ Hold(r) \in WindowType
           /\ Hold(r).pending = w.pending + (IF ThisKey(r) \in req[r].touched THEN 0 ELSE 1)
           /\ Hold(r).admitted = w.admitted /\ Hold(r).kept = w.kept
           /\ Hold(r).reserved = w.reserved /\ Hold(r).holdsSlot = w.holdsSlot
           /\ Hold(r).exists = TRUE /\ Hold(r).foldedIds = w.foldedIds
<1> DEFINE w == win[ThisKey(r)]
           pend == IF ThisKey(r) \in req[r].touched THEN w.pending ELSE w.pending + 1
<1>1. w \in WindowType
  BY PlanningTypes
<1>2. pend \in Int /\ pend = w.pending + (IF ThisKey(r) \in req[r].touched THEN 0 ELSE 1)
  BY <1>1 DEF WindowType
<1>3. Hold(r) = [w EXCEPT !.exists = TRUE, !.pending = pend]
  BY DEF Hold
<1> HIDE DEF w, pend
<1>4. [w EXCEPT !.exists = TRUE, !.pending = pend] \in WindowType
  BY <1>1, <1>2 DEF WindowType
<1>5. LET h == [w EXCEPT !.exists = TRUE, !.pending = pend] IN
      /\ h.pending = pend /\ h.admitted = w.admitted /\ h.kept = w.kept
      /\ h.reserved = w.reserved /\ h.holdsSlot = w.holdsSlot
      /\ h.exists = TRUE /\ h.foldedIds = w.foldedIds
  BY <1>1 DEF WindowType
<1> QED
  BY <1>2, <1>3, <1>4, <1>5 DEF w

(* What the local state of plan() becomes. *)
LEMMA AdvanceFields ==
    ASSUME TypeOK, RequestsSound, NEW r \in Request, Planning(r), NEW p \in ReqType,
           Advance(r, p), p.st = req[r].st, p.batch = req[r].batch, p.minute = req[r].minute,
           p.pos = req[r].pos
    PROVE  /\ \A q \in Request \ {r} : req'[q] = req[q]
           /\ req'[r].st = "plan" /\ req'[r].batch = req[r].batch
           /\ req'[r].minute = req[r].minute /\ req'[r].pos = req[r].pos + 1
           /\ req'[r].touched = p.touched /\ req'[r].reservedIds = p.reservedIds
           /\ req'[r].folds = p.folds /\ req'[r].kept = p.kept
           /\ UNCHANGED <<now, planner, carry, writing, flushing, stopped, rows, samples,
                          sinkRows, sinkSamples, acked>>
<1> DEFINE q == [p EXCEPT !.pos = @ + 1]
<1>1. /\ q.st = "plan" /\ q.batch = req[r].batch /\ q.minute = req[r].minute
      /\ q.pos = req[r].pos + 1 /\ q.touched = p.touched
      /\ q.reservedIds = p.reservedIds /\ q.folds = p.folds /\ q.kept = p.kept
  BY PlanningTypes DEF ReqType
<1>2. req' = [req EXCEPT ![r] = q]
  BY DEF Advance
<1>3. UNCHANGED <<now, planner, carry, writing, flushing, stopped, rows, samples, sinkRows,
                  sinkSamples, acked>>
  BY DEF Advance, envVars, flushVars, storeVars
<1> HIDE DEF q
<1>4. req'[r] = q /\ \A s \in Request \ {r} : req'[s] = req[s]
  BY <1>2 DEF TypeOK
<1> QED
  BY <1>1, <1>3, <1>4

(* Noting a held window. *)
LEMMA TouchingFields ==
    ASSUME TypeOK, RequestsSound, NEW r \in Request, Planning(r)
    PROVE  LET p == Touching(r) IN
           /\ p \in ReqType
           /\ p.st = req[r].st /\ p.batch = req[r].batch /\ p.minute = req[r].minute
           /\ p.pos = req[r].pos /\ p.folds = req[r].folds
           /\ p.kept = req[r].kept /\ p.reservedIds = req[r].reservedIds
           /\ p.touched = req[r].touched \cup {ThisKey(r)}
  BY PlanningTypes DEF Touching, ReqType

(* A pass of the loop takes its occurrence if its window and its plan do. *)
LEMMA TakesFrom ==
    ASSUME TypeOK, RequestsSound, NEW r \in Request, Planning(r),
           NEW what \in {"pass", "hold", "keep", "fold"},
           NEW p \in ReqType, Advance(r, p), p.st = req[r].st, p.batch = req[r].batch,
           p.minute = req[r].minute, p.pos = req[r].pos,
           p.touched = req[r].touched \cup (IF what = "pass" THEN {} ELSE {ThisKey(r)}),
           p.reservedIds = req[r].reservedIds \cup (IF what = "keep" THEN {This(r)} ELSE {}),
           p.folds = req[r].folds \cup (IF what = "fold" THEN {req[r].pos} ELSE {}),
           NEW w, win' = [win EXCEPT ![ThisKey(r)] = w],
           w.pending = win[ThisKey(r)].pending
                          + (IF what = "pass" \/ ThisKey(r) \in req[r].touched THEN 0 ELSE 1),
           w.admitted = win[ThisKey(r)].admitted + (IF what \in {"keep", "fold"} THEN 1 ELSE 0),
           w.kept = win[ThisKey(r)].kept \cup (IF what = "keep" THEN {This(r)} ELSE {}),
           w.reserved = win[ThisKey(r)].reserved + (IF what = "fold" THEN 1 ELSE 0),
           w.holdsSlot = (win[ThisKey(r)].holdsSlot \/ what = "fold"),
           held' = held + (IF what = "fold" /\ ~win[ThisKey(r)].holdsSlot THEN 1 ELSE 0),
           what = "keep" => /\ This(r) \notin win[ThisKey(r)].kept
                            /\ win[ThisKey(r)].admitted < After,
           what = "fold" => win[ThisKey(r)].holdsSlot \/ held < MaxSamples
    PROVE  PlanTakes(r, what)
<1>1. ThisKey(r) \in Key /\ win \in [Key -> WindowType]
  BY PlanningTypes DEF TypeOK
<1>2. win'[ThisKey(r)] = w /\ \A j \in Key \ {ThisKey(r)} : win'[j] = win[j]
  BY <1>1
<1>3. /\ \A q \in Request \ {r} : req'[q] = req[q]
      /\ req'[r].st = "plan" /\ req'[r].batch = req[r].batch
      /\ req'[r].minute = req[r].minute /\ req'[r].pos = req[r].pos + 1
      /\ req'[r].touched = p.touched /\ req'[r].reservedIds = p.reservedIds
      /\ req'[r].folds = p.folds
      /\ UNCHANGED <<now, planner, carry, writing, flushing, stopped, rows, samples,
                     sinkRows, sinkSamples, acked>>
  BY AdvanceFields
<1> QED
  BY <1>2, <1>3, Zenon DEF PlanTakes

(* Every step of plan() but its return is one of the four. *)
LEMMA PlanStepTakes ==
    ASSUME TypeOK, RequestsSound, NEW r \in Request, PlanStep(r)
    PROVE  PlanReturns(r) \/ \E what \in {"pass", "hold", "keep", "fold"} : PlanTakes(r, what)
<1> DEFINE k == ThisKey(r)
           o == This(r)
<1>0. held \in Int /\ win \in [Key -> WindowType]
  BY DEF TypeOK
<1>1. CASE PassWithoutWindow(r)
  <2> DEFINE p == [req[r] EXCEPT !.kept = @ \cup {o}]
  <2>1. Planning(r) /\ Advance(r, p) /\ win' = win /\ held' = held
    BY <1>1 DEF PassWithoutWindow
  <2>2. /\ p \in ReqType /\ p.st = req[r].st /\ p.batch = req[r].batch
        /\ p.minute = req[r].minute /\ p.pos = req[r].pos /\ p.folds = req[r].folds
        /\ p.touched = req[r].touched /\ p.reservedIds = req[r].reservedIds
    BY <2>1, PlanningTypes DEF ReqType
  <2> HIDE DEF p
  <2>3. win[k] \in WindowType /\ win' = [win EXCEPT ![k] = win[k]]
    BY <1>0, <2>1, PlanningTypes
  <2>4. /\ win[k].pending = win[k].pending + 0 /\ win[k].admitted = win[k].admitted + 0
        /\ win[k].reserved = win[k].reserved + 0 /\ held = held + 0
        /\ win[k].holdsSlot \in BOOLEAN
    BY <1>0, <2>3 DEF WindowType
  <2>5. PlanTakes(r, "pass")
    BY <2>1, <2>2, <2>3, <2>4, TakesFrom
  <2> QED
    BY <2>5
<1>2. ASSUME Planning(r), NEW p \in ReqType, Advance(r, p), p.st = req[r].st,
             p.batch = req[r].batch, p.minute = req[r].minute, p.pos = req[r].pos,
             p.folds = req[r].folds, p.reservedIds = req[r].reservedIds,
             p.touched = req[r].touched \cup {k},
             win' = [win EXCEPT ![k] = Hold(r)], held' = held
      PROVE  PlanTakes(r, "hold")
  <2>1. win[k] \in WindowType
    BY <1>2, PlanningTypes
  <2>2. /\ Hold(r).pending = win[k].pending + (IF k \in req[r].touched THEN 0 ELSE 1)
        /\ Hold(r).admitted = win[k].admitted /\ Hold(r).kept = win[k].kept
        /\ Hold(r).reserved = win[k].reserved /\ Hold(r).holdsSlot = win[k].holdsSlot
    BY <1>2, HoldFields
  <2>3. /\ win[k].admitted = win[k].admitted + 0 /\ win[k].reserved = win[k].reserved + 0
        /\ held = held + 0 /\ win[k].holdsSlot \in BOOLEAN
    BY <1>0, <2>1 DEF WindowType
  <2> QED
    BY <1>2, <2>2, <2>3, TakesFrom
<1>3. ASSUME Planning(r)
      PROVE  LET p == [Touching(r) EXCEPT !.kept = @ \cup {o}] IN
             /\ p \in ReqType /\ p.st = req[r].st /\ p.batch = req[r].batch
             /\ p.minute = req[r].minute /\ p.pos = req[r].pos /\ p.folds = req[r].folds
             /\ p.reservedIds = req[r].reservedIds /\ p.touched = req[r].touched \cup {k}
  BY <1>3, PlanningTypes, TouchingFields DEF ReqType
<1>4. CASE KeepAgain(r)
  BY <1>2, <1>3, <1>4 DEF KeepAgain
<1>5. CASE PassWithoutSlot(r)
  BY <1>2, <1>3, <1>5 DEF PassWithoutSlot, Fresh
<1>6. CASE Recognise(r)
  BY <1>2, <1>6, TouchingFields DEF Recognise
<1>7. CASE Keep(r)
  <2> DEFINE p == [Touching(r) EXCEPT !.kept = @ \cup {o}, !.reservedIds = @ \cup {o}]
             w == [Hold(r) EXCEPT !.admitted = @ + 1, !.kept = @ \cup {o}]
  <2>1. Planning(r) /\ Advance(r, p) /\ win' = [win EXCEPT ![k] = w] /\ held' = held
        /\ o \notin win[k].kept /\ win[k].admitted < After
    BY <1>7 DEF Keep, Fresh
  <2>2. /\ p \in ReqType /\ p.st = req[r].st /\ p.batch = req[r].batch
        /\ p.minute = req[r].minute /\ p.pos = req[r].pos /\ p.folds = req[r].folds
        /\ p.reservedIds = req[r].reservedIds \cup {o}
        /\ p.touched = req[r].touched \cup {k}
    <3> DEFINE t == Touching(r)
    <3>1. o \in Occ /\ t \in ReqType /\ t.reservedIds = req[r].reservedIds
          /\ t.touched = req[r].touched \cup {k}
      BY <2>1, PlanningTypes, TouchingFields
    <3>2. t.kept \cup {o} \in SUBSET Occ /\ t.reservedIds \cup {o} \in SUBSET Occ
      BY <3>1 DEF ReqType
    <3>3. p = [t EXCEPT !.kept = t.kept \cup {o}, !.reservedIds = t.reservedIds \cup {o}]
      OBVIOUS
    <3> HIDE DEF p, o, t, k
    <3>4. /\ p \in ReqType /\ p.st = t.st /\ p.batch = t.batch
          /\ p.minute = t.minute /\ p.pos = t.pos /\ p.folds = t.folds
      BY <3>1, <3>2, <3>3, KeptRequest
    <3>5. p.reservedIds = t.reservedIds \cup {o} /\ p.touched = t.touched
      BY <3>1, <3>3 DEF ReqType
    <3> QED
      BY <2>1, <3>1, <3>4, <3>5, TouchingFields DEF t
  <2>3. /\ w.pending = win[k].pending + (IF k \in req[r].touched THEN 0 ELSE 1)
        /\ w.admitted = win[k].admitted + 1 /\ w.kept = win[k].kept \cup {o}
        /\ w.reserved = win[k].reserved + 0 /\ w.holdsSlot = (win[k].holdsSlot \/ FALSE)
    <3> DEFINE h == Hold(r)
    <3>1. h \in WindowType
      BY <2>1, HoldFields
    <3>2. w = [h EXCEPT !.admitted = h.admitted + 1, !.kept = h.kept \cup {o}]
      OBVIOUS
    <3>5. /\ h.pending = win[k].pending + (IF k \in req[r].touched THEN 0 ELSE 1)
          /\ h.admitted = win[k].admitted /\ h.kept = win[k].kept
          /\ h.reserved = win[k].reserved /\ h.holdsSlot = win[k].holdsSlot
      BY <2>1, HoldFields
    <3> HIDE DEF w, h, o, k
    <3>3. /\ w.pending = h.pending /\ w.admitted = h.admitted + 1
          /\ w.kept = h.kept \cup {o} /\ w.reserved = h.reserved /\ w.holdsSlot = h.holdsSlot
      BY <3>1, <3>2 DEF WindowType
    <3>4. h.reserved \in Int /\ h.holdsSlot \in BOOLEAN
      BY <3>1 DEF WindowType
    <3> QED
      BY <3>3, <3>4, <3>5
  <2>4. held = held + 0
    BY <1>0
  <2> HIDE DEF p, w
  <2>5. PlanTakes(r, "keep")
    BY <2>1, <2>2, <2>3, <2>4, TakesFrom
  <2> QED
    BY <2>5
<1>8. CASE FoldIn(r)
  <2> DEFINE m == req[r].minute
             remember == Remembers(win[k], m)
             p == [Touching(r) EXCEPT !.folds = @ \cup {req[r].pos}]
             w == [Hold(r) EXCEPT !.holdsSlot = TRUE, !.admitted = @ + 1, !.reserved = @ + 1,
                                  !.tracking = remember,
                                  !.foldedIds = IF remember THEN @ \cup {o} ELSE {}]
  <2>1. Planning(r) /\ Advance(r, p) /\ win' = [win EXCEPT ![k] = w]
        /\ held' = (IF win[k].holdsSlot THEN held ELSE held + 1)
        /\ (win[k].holdsSlot \/ held < MaxSamples)
    BY <1>8 DEF FoldIn, Fresh
  <2>2. /\ p \in ReqType /\ p.st = req[r].st /\ p.batch = req[r].batch
        /\ p.minute = req[r].minute /\ p.pos = req[r].pos
        /\ p.folds = req[r].folds \cup {req[r].pos}
        /\ p.reservedIds = req[r].reservedIds /\ p.touched = req[r].touched \cup {k}
    <3> DEFINE t == Touching(r)
    <3>1. t \in ReqType /\ t.folds = req[r].folds /\ t.reservedIds = req[r].reservedIds
          /\ t.touched = req[r].touched \cup {k}
      BY <2>1, TouchingFields
    <3>2. t.folds \cup {req[r].pos} \in SUBSET (1..MaxLen)
      BY <2>1, <3>1, PlanningTypes DEF ReqType
    <3>3. p = [t EXCEPT !.folds = t.folds \cup {req[r].pos}]
      OBVIOUS
    <3> HIDE DEF p, t, k
    <3>4. /\ p \in ReqType /\ p.st = t.st /\ p.batch = t.batch
          /\ p.minute = t.minute /\ p.pos = t.pos /\ p.folds = t.folds \cup {req[r].pos}
      BY <3>1, <3>2, <3>3, FoldedRequest
    <3>5. p.reservedIds = t.reservedIds /\ p.touched = t.touched
      BY <3>1, <3>3 DEF ReqType
    <3> QED
      BY <2>1, <3>1, <3>4, <3>5, TouchingFields DEF t
  <2>3. /\ w.pending = win[k].pending + (IF k \in req[r].touched THEN 0 ELSE 1)
        /\ w.admitted = win[k].admitted + 1 /\ w.kept = win[k].kept \cup {}
        /\ w.reserved = win[k].reserved + 1 /\ w.holdsSlot = (win[k].holdsSlot \/ TRUE)
    <3> DEFINE h == Hold(r)
               ids == IF remember THEN h.foldedIds \cup {o} ELSE {}
    <3>1. h \in WindowType
      BY <2>1, HoldFields
    <3>2. w = [h EXCEPT !.holdsSlot = TRUE, !.admitted = h.admitted + 1,
                        !.reserved = h.reserved + 1, !.tracking = remember, !.foldedIds = ids]
      OBVIOUS
    <3> HIDE DEF w, h, o, k, ids, remember
    <3>3. /\ w.pending = h.pending /\ w.admitted = h.admitted + 1
          /\ w.kept = h.kept /\ w.reserved = h.reserved + 1 /\ w.holdsSlot = TRUE
      BY <3>1, <3>2 DEF WindowType
    <3> QED
      BY <2>1, <3>3, HoldFields DEF h, k
  <2>4. held' = held + (IF ~win[k].holdsSlot THEN 1 ELSE 0)
    BY <1>0, <2>1
  <2> HIDE DEF p, w
  <2>5. PlanTakes(r, "fold")
    BY <2>1, <2>2, <2>3, <2>4, TakesFrom
  <2> QED
    BY <2>5
<1> QED
  BY <1>1, <1>2, <1>3, <1>4, <1>5, <1>6, <1>7, <1>8 DEF PlanStep

-----------------------------------------------------------------------------
(* The sizes of what the counters count.                                    *)
LEMMA CountedSets ==
    ASSUME TypeOK, NEW k \in Key
    PROVE  /\ IsFiniteSet(Holders(k)) /\ Cardinality(Holders(k)) \in Nat
           /\ IsFiniteSet(ReservedFolds(k)) /\ Cardinality(ReservedFolds(k)) \in Nat
           /\ IsFiniteSet(CommittedIn(k)) /\ Cardinality(CommittedIn(k)) \in Nat
           /\ IsFiniteSet(win[k].kept) /\ Cardinality(win[k].kept) \in Nat
  BY KeyFinite, ConstantsAssumption, FS_Subset, FS_CardinalityType DEF Holders, ReservedFolds,
     CommittedIn, Committed, TypeOK, WindowType

(* An occurrence planned: counters and requests move together.              *)
LEMMA TakesMatches ==
    ASSUME TypeOK, RequestsSound, WindowsMatchRequests, FoldsBehind, SameCommitted,
           NEW r \in Request, NEW what, PlanTakes(r, what)
    PROVE  WindowsMatchRequests'
<1> DEFINE f == <<r, req[r].pos>>
<1>0. PICK k \in Key : k = ThisKey(r)
  BY PlanningTypes DEF PlanTakes
<1>1. /\ planner = r /\ req[r].st = "plan" /\ k \in Key /\ win[k] \in WindowType
      /\ req[r].batch \in Batch /\ req[r].pos \in 1..MaxLen /\ This(r) \in Occ
  BY <1>0, PlanningTypes DEF PlanTakes
<1>2. \A q \in Request : /\ InFlight(q)' <=> InFlight(q)
                         /\ req'[q].batch = req[q].batch /\ req'[q].minute = req[q].minute
  BY <1>1 DEF PlanTakes, InFlight
<1>3. \A g \in Fold : KeyOf(g)' = KeyOf(g)
  BY <1>2 DEF KeyOf, OccOf, Fold
<1>4. f \in Fold /\ KeyOf(f) = k /\ f \notin ReservedFolds(k) /\ InFlight(r)
  <2>1. f[1] = r /\ f[2] = req[r].pos /\ InFlight(r)
    BY <1>1 DEF InFlight
  <2>2. req[r].pos \notin req[r].folds
    BY <2>1, <1>1 DEF FoldsBehind
  <2> QED
    BY <2>1, <2>2, <1>0, <1>1 DEF Fold, KeyOf, OccOf, ThisKey, This, ReservedFolds
<1>5. ASSUME NEW j \in Key
      PROVE  /\ win'[j].pending = Cardinality(Holders(j)')
             /\ win'[j].reserved = Cardinality(ReservedFolds(j)')
             /\ win'[j].admitted = Cardinality(win'[j].kept) + win'[j].reserved
                                     + Cardinality(CommittedIn(j)')
             /\ Cardinality(win'[j].kept) <= After
  <2>1. /\ win[j].pending = Cardinality(Holders(j))
        /\ win[j].reserved = Cardinality(ReservedFolds(j))
        /\ win[j].admitted =
              Cardinality(win[j].kept) + win[j].reserved + Cardinality(CommittedIn(j))
        /\ Cardinality(win[j].kept) <= After
    BY DEF WindowsMatchRequests
  <2>2. CommittedIn(j)' = CommittedIn(j)
    BY DEF SameCommitted, CommittedIn
  <2>3. Holders(j)' = Holders(j) \cup (IF j = k /\ what # "pass" THEN {r} ELSE {})
    BY <1>0, <1>2, <1>4 DEF PlanTakes, Holders
  <2>4. ReservedFolds(j)' = ReservedFolds(j) \cup (IF j = k /\ what = "fold" THEN {f} ELSE {})
    <3>1. \A g \in Fold : /\ g = <<g[1], g[2]>> /\ g[1] \in Request
                          /\ g \in ReservedFolds(j)' <=>
                               InFlight(g[1]) /\ g[2] \in req'[g[1]].folds /\ KeyOf(g) = j
                          /\ g \in ReservedFolds(j) <=>
                               InFlight(g[1]) /\ g[2] \in req[g[1]].folds /\ KeyOf(g) = j
      BY <1>2, <1>3 DEF ReservedFolds, Fold
    <3>2. \A g \in Fold : g[1] # r => req'[g[1]].folds = req[g[1]].folds
      BY <3>1 DEF PlanTakes
    <3>3. req'[r].folds = req[r].folds \cup (IF what = "fold" THEN {req[r].pos} ELSE {})
      BY DEF PlanTakes
    <3>4. f[1] = r /\ f[2] = req[r].pos
      OBVIOUS
    <3>5. \A g \in Fold : g \in ReservedFolds(j)' <=>
             g \in ReservedFolds(j) \/ (g = f /\ j = k /\ what = "fold")
      <4> SUFFICES ASSUME NEW g \in Fold
                   PROVE  g \in ReservedFolds(j)' <=>
                            g \in ReservedFolds(j) \/ (g = f /\ j = k /\ what = "fold")
        OBVIOUS
      <4>1. CASE g[1] # r
        BY <4>1, <3>1, <3>2, <3>4
      <4>2. CASE g[1] = r
        <5>1. g[2] = req[r].pos <=> g = f
          BY <4>2, <3>1
        <5>2. g[2] \in req'[r].folds <=> g[2] \in req[r].folds \/ (what = "fold" /\ g = f)
          BY <3>3, <5>1
        <5> HIDE DEF f
        <5> QED
          BY <5>2, <4>2, <3>1, <1>4
      <4> QED
        BY <4>1, <4>2
    <3>6. ReservedFolds(j) \subseteq Fold /\ ReservedFolds(j)' \subseteq Fold
      BY DEF ReservedFolds
    <3> HIDE DEF f
    <3> QED
      BY <3>5, <3>6, <1>4
  <2>5. CASE j # k
    BY <1>0, <2>5, <2>3, <2>4, <2>1, <2>2 DEF PlanTakes
  <2>6. CASE j = k
    <3> DEFINE w == win[k]
    <3>0. /\ Cardinality(Holders(k)) \in Nat /\ Cardinality(ReservedFolds(k)) \in Nat
          /\ Cardinality(CommittedIn(k)) \in Nat /\ Cardinality(w.kept) \in Nat
          /\ IsFiniteSet(Holders(k)) /\ IsFiniteSet(ReservedFolds(k)) /\ IsFiniteSet(w.kept)
      BY <1>1, CountedSets
    <3>1. win'[j].pending = Cardinality(Holders(j)')
      <4>1. r \in Holders(k) <=> k \in req[r].touched
        BY <1>4 DEF Holders
      <4>2. win'[k].pending = w.pending + (IF what = "pass" \/ k \in req[r].touched THEN 0 ELSE 1)
        BY <1>0 DEF PlanTakes
      <4>3. Cardinality(Holders(k) \cup {r}) =
              IF r \in Holders(k) THEN Cardinality(Holders(k)) ELSE Cardinality(Holders(k)) + 1
        BY <3>0, FS_AddElement
      <4>4. Holders(k)' = IF what = "pass" THEN Holders(k) ELSE Holders(k) \cup {r}
        BY <2>3, <2>6
      <4> HIDE DEF w
      <4> QED
        BY SMTT(40), <4>1, <4>2, <4>3, <4>4, <2>1, <2>6, <3>0 DEF w
    <3>2. win'[j].reserved = Cardinality(ReservedFolds(j)')
      <4>1. win'[k].reserved = w.reserved + (IF what = "fold" THEN 1 ELSE 0)
        BY <1>0 DEF PlanTakes
      <4>2. Cardinality(ReservedFolds(k) \cup {f}) = Cardinality(ReservedFolds(k)) + 1
        BY <3>0, <1>4, FS_AddElement
      <4>3. ReservedFolds(k)' = IF what = "fold" THEN ReservedFolds(k) \cup {f} ELSE ReservedFolds(k)
        BY <2>4, <2>6
      <4> HIDE DEF w, f
      <4> QED
        BY <4>1, <4>2, <4>3, <2>1, <2>6, <3>0 DEF w
    <3>3. /\ Cardinality(win'[k].kept) = Cardinality(w.kept) + (IF what = "keep" THEN 1 ELSE 0)
          /\ what = "keep" => w.admitted < After
      <4>1. /\ win'[k].kept = w.kept \cup (IF what = "keep" THEN {This(r)} ELSE {})
            /\ what = "keep" => This(r) \notin w.kept /\ w.admitted < After
        BY <1>0 DEF PlanTakes
      <4>2. what = "keep" => Cardinality(w.kept \cup {This(r)}) = Cardinality(w.kept) + 1
        BY <4>1, <3>0, FS_AddElement
      <4>3. what # "keep" => win'[k].kept = w.kept
        BY <4>1
      <4>4. what = "keep" => win'[k].kept = w.kept \cup {This(r)}
        BY <4>1
      <4> HIDE DEF w
      <4>5. CASE what = "keep"
        BY <4>1, <4>2, <4>4, <4>5
      <4>6. CASE what # "keep"
        BY <4>3, <4>6, <3>0
      <4> QED
        BY <4>5, <4>6
    <3>4. /\ win'[k].admitted = w.admitted + (IF what \in {"keep", "fold"} THEN 1 ELSE 0)
          /\ win'[k].reserved = w.reserved + (IF what = "fold" THEN 1 ELSE 0)
          /\ w.admitted \in Int /\ w.reserved \in Int /\ After \in Nat
      BY <1>0, <1>1, ConstantsAssumption DEF PlanTakes, WindowType
    <3> HIDE DEF w
    <3>5. win'[k].admitted = Cardinality(win'[k].kept) + win'[k].reserved
                               + Cardinality(CommittedIn(k))
      BY <3>0, <3>3, <3>4, <2>1, <2>6 DEF w
    <3>6. Cardinality(win'[k].kept) <= After
      BY <3>0, <3>3, <3>4, <2>1, <2>6 DEF w
    <3> QED
      BY <3>1, <3>2, <3>5, <3>6, <2>2, <2>6
  <2> QED
    BY <2>5, <2>6
<1> QED
  BY <1>5 DEF WindowsMatchRequests

(* The windows that hold a slot. *)
SlotHolders == {k \in Key : win[k].holdsSlot}

(* They can be counted. *)
LEMMA SlotSet == IsFiniteSet(SlotHolders) /\ Cardinality(SlotHolders) \in Nat
<1>1. SlotHolders \in SUBSET Key
  BY DEF SlotHolders
<1> QED
  BY <1>1, KeyFinite, FS_Subset, FS_CardinalityType

(* A fold takes the slot of its window, one of MaxSamples. *)
LEMMA TakesSlot ==
    ASSUME TypeOK, RequestsSound, WindowsMatchRequests, SlotsAccounted, OpenWhilePlanning, SameFolds,
           NEW r \in Request, NEW what, PlanTakes(r, what)
    PROVE  SlotsAccounted'
<1>0. PICK k \in Key : k = ThisKey(r)
  BY PlanningTypes DEF PlanTakes
<1>1. /\ planner = r /\ k \in Key /\ win[k] \in WindowType /\ k[2] = req[r].minute
      /\ win[k].reserved \in Nat /\ win[k].holdsSlot \in BOOLEAN
  BY <1>0, PlanningTypes, CountedSets DEF PlanTakes, ThisKey, WindowsMatchRequests, WindowType
<1>2. ~win[k].flushed
  BY <1>1, ConstantsAssumption DEF OpenWhilePlanning, TypeOK, Minute
<1>3. /\ \A j \in Key \ {k} : win'[j] = win[j]
      /\ win'[k].holdsSlot = (win[k].holdsSlot \/ what = "fold")
      /\ win'[k].reserved = win[k].reserved + (IF what = "fold" THEN 1 ELSE 0)
      /\ held' = held + (IF what = "fold" /\ ~win[k].holdsSlot THEN 1 ELSE 0)
      /\ what = "fold" => win[k].holdsSlot \/ held < MaxSamples
      /\ Waiting' = Waiting
  BY <1>0 DEF PlanTakes, Waiting
<1>4. SlotHolders' = IF what = "fold" THEN SlotHolders \cup {k} ELSE SlotHolders
  BY <1>1, <1>3 DEF SlotHolders
<1>5. Cardinality(SlotHolders \cup {k}) =
         Cardinality(SlotHolders) + (IF win[k].holdsSlot THEN 0 ELSE 1)
  <2>1. k \in SlotHolders <=> win[k].holdsSlot
    BY DEF SlotHolders
  <2>2. Cardinality(SlotHolders \cup {k}) =
          IF k \in SlotHolders THEN Cardinality(SlotHolders) ELSE Cardinality(SlotHolders) + 1
    BY SlotSet, FS_AddElement
  <2> QED
    BY <2>1, <2>2, SlotSet
<1>6. held = Cardinality(SlotHolders) /\ held <= MaxSamples /\ MaxSamples \in Nat
  BY ConstantsAssumption DEF SlotsAccounted, SlotHolders
<1>7. held' = Cardinality(SlotHolders') /\ held' <= MaxSamples
  BY <1>3, <1>4, <1>5, <1>6, SlotSet
<1>8. ASSUME NEW j \in Key, win'[j].holdsSlot
      PROVE  IF win'[j].flushed
             THEN \E d \in Waiting' : d.key = j /\ d.holdsSlot
             ELSE win'[j].reserved > 0 \/ win'[j].count # {}
  BY <1>3, <1>8, <1>1, <1>2 DEF SameFolds, SlotsAccounted
<1> QED
  BY <1>7, <1>8 DEF SlotsAccounted, SlotHolders

(* What is neither planned nor settled keeps its ids, and its plan. *)
LEMMA TakesReservations ==
    ASSUME TypeOK, RequestsSound, ReservationsSound, SameFolds,
           NEW r \in Request, NEW what, PlanTakes(r, what)
    PROVE  ReservationsSound'
<1>0. PICK k \in Key : k = ThisKey(r)
  BY PlanningTypes DEF PlanTakes
<1>1. /\ planner = r /\ req[r].st = "plan" /\ k \in Key /\ win[k] \in WindowType
      /\ k = <<IdentOf[This(r)], req[r].minute>>
      /\ req[r].pos \in 1..MaxLen /\ This(r) \in Occ /\ InFlight(r)
  BY <1>0, PlanningTypes DEF PlanTakes, InFlight, ThisKey
<1>2. /\ \A j \in Key \ {k} : win'[j] = win[j]
      /\ win'[k].kept = win[k].kept \cup (IF what = "keep" THEN {This(r)} ELSE {})
      /\ what = "keep" => This(r) \notin win[k].kept
      /\ \A q \in Request \ {r} : req'[q] = req[q]
      /\ req'[r].st = "plan" /\ req'[r].minute = req[r].minute /\ req'[r].pos = req[r].pos + 1
      /\ req'[r].reservedIds = req[r].reservedIds \cup (IF what = "keep" THEN {This(r)} ELSE {})
      /\ req'[r].folds = req[r].folds \cup (IF what = "fold" THEN {req[r].pos} ELSE {})
      /\ now' = now /\ stopped' = stopped /\ planner' = planner
  BY <1>0 DEF PlanTakes
<1>3. \A q \in Request : /\ InFlight(q)' <=> InFlight(q)
                         /\ req'[q].minute = req[q].minute
  BY <1>1, <1>2 DEF InFlight
<1>4. OpenWhilePlanning'
  BY <1>1, <1>2 DEF ReservationsSound, OpenWhilePlanning, SameFolds
<1>5. FoldsBehind'
  <2> SUFFICES ASSUME NEW q \in Request, InFlight(q), NEW j \in req'[q].folds
               PROVE  j < req'[q].pos
    BY <1>3 DEF FoldsBehind
  <2>1. CASE q # r
    BY <2>1, <1>2 DEF ReservationsSound, FoldsBehind
  <2>2. CASE q = r
    BY <1>1, <2>2, <1>2, ConstantsAssumption DEF ReservationsSound, FoldsBehind, TypeOK, ReqType
  <2> QED
    BY <2>1, <2>2
<1>6. \A j \in Key : win[j].kept \subseteq win'[j].kept
  BY <1>2
<1>7. \A q \in Request : req[q].reservedIds \subseteq Occ /\ req[q].minute \in Minute
  BY DEF TypeOK, ReqType
<1>8. IdsHeld'
  <2>1. ASSUME NEW q \in Request, InFlight(q), NEW o \in req'[q].reservedIds
        PROVE  o \in win'[<<IdentOf[o], req'[q].minute>>].kept
    <3>1. CASE o \in req[q].reservedIds
      BY <2>1, <3>1, <1>7, ConstantsAssumption, <1>3, <1>6 DEF ReservationsSound, IdsHeld, Key
    <3>2. CASE o \notin req[q].reservedIds
      BY <3>2, <2>1, <1>2, <1>1
    <3> QED
      BY <3>1, <3>2
  <2>2. ASSUME NEW q \in Request \ {r}, InFlight(q), req[q].minute = req[r].minute
        PROVE  req'[q].reservedIds \cap req'[r].reservedIds = {}
    BY <2>2, <1>1, <1>2 DEF ReservationsSound, IdsHeld
  <2>3. ASSUME NEW p \in Request \ {r}, NEW q \in Request \ {p}, InFlight(p), InFlight(q),
               req[q].minute = req[p].minute
        PROVE  req'[q].reservedIds \cap req'[p].reservedIds = {}
    BY <2>2, <2>3, <1>2 DEF ReservationsSound, IdsHeld
  <2>4. ASSUME NEW p \in Request, NEW q \in Request \ {p}, InFlight(p), InFlight(q),
               req[q].minute = req[p].minute
        PROVE  req'[q].reservedIds \cap req'[p].reservedIds = {}
    BY <2>2, <2>3, <2>4
  <2> QED
    BY <2>1, <2>4, <1>3 DEF IdsHeld
<1> QED
  BY <1>4, <1>5, <1>8 DEF ReservationsSound

-----------------------------------------------------------------------------
(* Samples stay the newest while folds stay where they are.                 *)
LEMMA NewestStays ==
    ASSUME FoldsInv, SampleIsNewest, SameCommitted, SameFolds, Waiting' \subseteq Waiting
    PROVE  SampleIsNewest'
<1>1. ASSUME NEW f, NEW folds \in SUBSET Committed, IsNewestOf(f, folds)
      PROVE  /\ f \in folds
             /\ \A g \in folds : TimeOf[OccOf(g)'] <= TimeOf[OccOf(f)']
  BY <1>1 DEF IsNewestOf, SameCommitted
<1>2. \A k \in Key : Counted(k)' = Counted(k) /\ win'[k].late = win[k].late
  BY DEF SameFolds, Counted
<1>3. \A k \in Key : Counted(k) \subseteq Committed /\ win[k].late \subseteq Committed
  BY DEF FoldsInv, KeyLinked, Counted
<1>4. ASSUME NEW k \in Key
      PROVE  /\ Counted(k)' # {} => IsNewestOf(win[k].sample, Counted(k))'
             /\ win'[k].late # {} => IsNewestOf(win[k].lateSample, win[k].late)'
  BY <1>1, <1>2, <1>3 DEF SampleIsNewest, SameFolds, IsNewestOf
<1>5. ASSUME NEW d \in Waiting' PROVE IsNewestOf(d.sample, d.folds)'
  BY WaitingSamples, <1>1 DEF SampleIsNewest, IsNewestOf
<1> QED
  BY <1>4, <1>5 DEF SampleIsNewest

(* Nothing is stored or forwarded, and closed windows are let be. *)
LEMMA ClosedStays ==
    ASSUME NoEarlyClose, now' = now, stopped' = stopped,
           \A k \in Key : win'[k].flushed /\ win'[k].pending > 0
                             => win[k].flushed /\ win[k].pending > 0
    PROVE  NoEarlyClose'
BY DEF NoEarlyClose

(* plan() keeps the windows' accounts. *)
LEMMA PlanWindows ==
    ASSUME IInv, WindowsInv, NEW r \in Request, PlanStep(r)
    PROVE  WindowsInv'
<1>1. TypeOK /\ RequestsSound /\ FoldsInv
  BY DEF IInv
<1>2. PlanEffect(r)
  BY <1>1, Planned
<1>3. SameFolds /\ UNCHANGED <<now, carry, writing, stopped, rows, samples, sinkRows, sinkSamples>>
  BY <1>2 DEF PlanEffect
<1>4. SameCommitted
  <2>1. PICK p \in ReqType : /\ req' = [req EXCEPT ![r] = p]
                             /\ p.st \in {"plan", "write"}
    BY <1>2 DEF PlanEffect
  <2>2. req[r].st = "plan"
    BY <1>2 DEF PlanEffect
  <2>3. \A q \in Request : req'[q] = IF q = r THEN p ELSE req[q]
    BY <1>1, <2>1 DEF TypeOK
  <2> QED
    BY <2>1, <2>2, <2>3, CommittedStays
<1>5. SampleIsNewest' /\ ForwardedIsStored'
  BY <1>3, <1>1, <1>4, NewestStays DEF Waiting, WindowsInv, ForwardedIsStored
<1>6. ASSUME NEW what, PlanTakes(r, what) PROVE WindowsInv'
  <2>1. WindowsMatchRequests' /\ SlotsAccounted' /\ ReservationsSound'
    BY <1>1, <1>3, <1>4, <1>6, TakesMatches, TakesSlot, TakesReservations
       DEF WindowsInv, ReservationsSound
  <2>2. NoEarlyClose'
    <3>0. PICK k \in Key : k = ThisKey(r)
      BY <1>1, <1>6, PlanningTypes DEF PlanTakes
    <3>1. ~win[k].flushed
      BY <3>0, <1>6, <1>1, ConstantsAssumption DEF PlanTakes, Planning, ThisKey, WindowsInv,
         ReservationsSound, OpenWhilePlanning, TypeOK, Minute
    <3>2. \A j \in Key : j # k => win'[j] = win[j]
      BY <3>0, <1>6 DEF PlanTakes
    <3>3. \A j \in Key : win'[j].flushed = win[j].flushed
      BY <1>3 DEF SameFolds
    <3> QED
      BY <1>3, <3>1, <3>2, <3>3, ClosedStays DEF WindowsInv
  <2> QED
    BY <1>5, <2>1, <2>2 DEF WindowsInv
<1>7. CASE PlanReturns(r)
  <2>1. /\ req[r].st = "plan" /\ planner = r /\ planner' = None
        /\ req' = [req EXCEPT ![r].st = "write"] /\ win' = win /\ held' = held
    BY <1>2, <1>7 DEF PlanReturns, PlanEffect, collapseVars
  <2>2. /\ \A q \in Request \ {r} : req'[q] = req[q]
        /\ req'[r].st = "write" /\ req'[r].batch = req[r].batch
        /\ req'[r].minute = req[r].minute /\ req'[r].pos = req[r].pos
        /\ req'[r].touched = req[r].touched /\ req'[r].reservedIds = req[r].reservedIds
        /\ req'[r].folds = req[r].folds
    BY <1>1, <2>1 DEF TypeOK, ReqType
  <2>3. \A q \in Request : /\ InFlight(q)' <=> InFlight(q)
                           /\ req'[q].batch = req[q].batch /\ req'[q].minute = req[q].minute
                           /\ req'[q].pos = req[q].pos /\ req'[q].touched = req[q].touched
                           /\ req'[q].reservedIds = req[q].reservedIds
                           /\ req'[q].folds = req[q].folds
    BY <2>1, <2>2 DEF InFlight
  <2>4. WindowsMatchRequests'
    <3>1. \A f \in Fold : KeyOf(f)' = KeyOf(f) /\ f[1] \in Request
      BY <2>3 DEF KeyOf, OccOf, Fold
    <3>2. \A k \in Key : /\ Holders(k)' = Holders(k) /\ ReservedFolds(k)' = ReservedFolds(k)
                         /\ CommittedIn(k)' = CommittedIn(k)
      BY <2>3, <3>1, <1>4 DEF Holders, ReservedFolds, CommittedIn, SameCommitted
    <3> QED
      BY <2>1, <3>2 DEF WindowsInv, WindowsMatchRequests
  <2>5. SlotsAccounted' /\ NoEarlyClose'
    BY <2>1, <1>3 DEF WindowsInv, SlotsAccounted, NoEarlyClose, Waiting
  <2>6. ReservationsSound'
    BY <2>1, <2>3, <1>3, ConstantsAssumption
       DEF WindowsInv, ReservationsSound, OpenWhilePlanning, FoldsBehind, IdsHeld
  <2> QED
    BY <1>5, <2>4, <2>5, <2>6 DEF WindowsInv
<1> QED
  BY <1>1, <1>6, <1>7, PlanStepTakes

-----------------------------------------------------------------------------
(* commit() leaves each window the newest of its folds.                     *)
LEMMA NewestPicks ==
    ASSUME NEW old, NEW new \in SUBSET Fold, new # {}, \A f \in new : OccOf(f) \in Occ
    PROVE  \E f \in new :
              /\ \A g \in new : TimeOf[OccOf(g)] <= TimeOf[OccOf(f)]
              /\ Newest(old, new) =
                    IF old # None /\ TimeOf[OccOf(old)] > TimeOf[OccOf(f)] THEN old ELSE f
<1> DEFINE v == [f \in new |-> TimeOf[OccOf(f)]]
           p == [f \in new |-> f[2]]
           Last(f) == \A h \in new : \/ TimeOf[OccOf(h)] < TimeOf[OccOf(f)]
                                     \/ TimeOf[OccOf(h)] = TimeOf[OccOf(f)] /\ h[2] <= f[2]
           c == CHOOSE g \in new : Last(g)
<1>1. IsFiniteSet(new)
  BY KeyFinite, FS_Subset
<1>2. v \in [new -> Int]
  BY ConstantsAssumption
<1>3. p \in [new -> Int]
  BY ConstantsAssumption DEF Fold
<1>4. PICK f \in new : \A g \in new : v[g] < v[f] \/ (v[g] = v[f] /\ p[g] <= p[f])
  <2> HIDE DEF v, p
  <2> QED
    BY <1>1, <1>2, <1>3, LastExists
<1>5. Last(f)
  BY <1>4
<1>6. c \in new /\ Last(c)
  BY <1>5
<1>7. \A g \in new : TimeOf[OccOf(g)] <= TimeOf[OccOf(c)]
  <2>1. \A g \in new : TimeOf[OccOf(g)] \in Nat
    BY ConstantsAssumption
  <2> HIDE DEF c
  <2> QED
    BY <1>6, <2>1
<1>8. Newest(old, new) = IF old # None /\ TimeOf[OccOf(old)] > TimeOf[OccOf(c)] THEN old ELSE c
  BY DEF Newest
<1> HIDE DEF c
<1> QED
  BY <1>6, <1>7, <1>8

(* The newer of two samples is the newest of what both stand for. *)
LEMMA NewestOfBoth ==
    ASSUME NEW folds \in SUBSET Fold, NEW new \in SUBSET Fold, NEW old,
           \A f \in folds \cup new : OccOf(f) \in Occ,
           SampleOf(old, folds), folds # {} => IsNewestOf(old, folds),
           folds \cup new # {}
    PROVE  IsNewestOf(Newest(old, new), folds \cup new)
<1>1. \A f \in folds \cup new : TimeOf[OccOf(f)] \in Nat
  BY ConstantsAssumption
<1>2. CASE new = {}
  BY <1>2 DEF Newest
<1>3. CASE new # {}
  <2>1. PICK f \in new :
          /\ \A g \in new : TimeOf[OccOf(g)] <= TimeOf[OccOf(f)]
          /\ Newest(old, new) =
                IF old # None /\ TimeOf[OccOf(old)] > TimeOf[OccOf(f)] THEN old ELSE f
    BY <1>3, NewestPicks
  <2>2. CASE folds = {}
    <3>1. old = None
      BY <2>2 DEF SampleOf
    <3> QED
      BY <2>1, <2>2, <3>1 DEF IsNewestOf
  <2>3. CASE folds # {}
    <3>1. old \in folds /\ old # None /\ \A g \in folds : TimeOf[OccOf(g)] <= TimeOf[OccOf(old)]
      BY <2>3, ConstantsAssumption DEF SampleOf, IsNewestOf
    <3>2. CASE TimeOf[OccOf(old)] > TimeOf[OccOf(f)]
      BY <2>1, <3>1, <3>2, <1>1 DEF IsNewestOf
    <3>3. CASE ~(TimeOf[OccOf(old)] > TimeOf[OccOf(f)])
      BY <2>1, <3>1, <3>3, <1>1 DEF IsNewestOf
    <3> QED
      BY <3>2, <3>3
  <2> QED
    BY <2>2, <2>3
<1> QED
  BY <1>2, <1>3

(* A request settles: it holds and reserves nothing any more.               *)
Settled(r) ==
    /\ InFlight(r) /\ ~InFlight(r)' /\ planner = None
    /\ \A q \in Request \ {r} : req'[q] = req[q]
    /\ req'[r].batch = req[r].batch /\ req'[r].minute = req[r].minute
    /\ req'[r].folds = req[r].folds /\ req'[r].touched = req[r].touched
    /\ req'[r].reservedIds = req[r].reservedIds
    /\ req'[r].kept = req[r].kept /\ req'[r].pos = req[r].pos
    /\ UNCHANGED <<now, planner, stopped, carry, writing>>

(* What the counters of a window counted of a request is gone with it. *)
LEMMA SettledSets ==
    ASSUME TypeOK, RequestsSound, NEW r \in Request, Settled(r), NEW k \in Key
    PROVE  /\ Holders(k)' = Holders(k) \ {r}
           /\ r \in Holders(k) <=> k \in req[r].touched
           /\ MyFolds(r, k) \subseteq ReservedFolds(k)
           /\ ReservedFolds(k)' = ReservedFolds(k) \ MyFolds(r, k)
           /\ Cardinality(Holders(k)') =
                Cardinality(Holders(k)) - (IF k \in req[r].touched THEN 1 ELSE 0)
           /\ Cardinality(ReservedFolds(k)') =
                Cardinality(ReservedFolds(k)) - Cardinality(MyFolds(r, k))
<1>1. \A q \in Request : q # r => (InFlight(q)' <=> InFlight(q))
  BY DEF Settled, InFlight
<1>2. Holders(k)' = Holders(k) \ {r}
  BY <1>1 DEF Settled, Holders
<1>3. r \in Holders(k) <=> k \in req[r].touched
  BY DEF Settled, Holders
<1>4. \A f \in Fold : KeyOf(f)' = KeyOf(f) /\ f[1] \in Request /\ f = <<f[1], f[2]>>
  BY DEF Settled, KeyOf, OccOf, Fold
<1>5. \A f \in Fold : f \in MyFolds(r, k) <=> f[1] = r /\ f[2] \in req[r].folds /\ KeyOf(f) = k
  BY <1>4 DEF MyFolds, FoldsOf
<1>6. MyFolds(r, k) \subseteq Fold
  BY FoldType DEF MyFolds, FoldsOf
<1>7. MyFolds(r, k) \subseteq ReservedFolds(k)
  BY <1>5, <1>6 DEF Settled, ReservedFolds
<1>8. ReservedFolds(k)' = ReservedFolds(k) \ MyFolds(r, k)
  BY <1>4, <1>1, <1>5 DEF ReservedFolds, InFlight, Settled
<1>9. IsFiniteSet(Holders(k)) /\ IsFiniteSet(ReservedFolds(k)) /\ Cardinality(Holders(k)) \in Nat
      /\ Cardinality(ReservedFolds(k)) \in Nat
  BY CountedSets
<1>10. Cardinality(Holders(k)') =
         Cardinality(Holders(k)) - (IF k \in req[r].touched THEN 1 ELSE 0)
  <2>1. Cardinality(Holders(k) \ {r}) =
          IF r \in Holders(k) THEN Cardinality(Holders(k)) - 1 ELSE Cardinality(Holders(k))
    BY <1>9, FS_RemoveElement
  <2> QED
    BY <1>2, <1>3, <1>9, <2>1
<1>11. Cardinality(ReservedFolds(k)') =
         Cardinality(ReservedFolds(k)) - Cardinality(MyFolds(r, k))
  <2>1. ReservedFolds(k) \cap MyFolds(r, k) = MyFolds(r, k)
    BY <1>7
  <2> QED
    BY <1>8, <1>9, <2>1, FS_Difference
<1> QED
  BY <1>2, <1>3, <1>7, <1>8, <1>10, <1>11

-----------------------------------------------------------------------------
(* A request is answered 2xx.                                               *)
LEMMA CommitSettles ==
    ASSUME TypeOK, RequestsSound, NEW r \in Request, WritesSucceed(r)
    PROVE  /\ Settled(r) /\ FoldsOf(r) \in SUBSET Fold
           /\ Committed' = Committed \cup FoldsOf(r) /\ FoldsOf(r) \cap Committed = {}
           /\ \A f \in Fold : OccOf(f)' = OccOf(f) /\ KeyOf(f)' = KeyOf(f)
<1>1. req[r].st = "write" /\ req' = [req EXCEPT ![r].st = "ok"] /\ req[r] \in ReqType
  BY DEF WritesSucceed, TypeOK
<1>2. /\ req'[r].st = "ok" /\ req'[r].batch = req[r].batch /\ req'[r].minute = req[r].minute
      /\ req'[r].folds = req[r].folds /\ req'[r].touched = req[r].touched
      /\ req'[r].reservedIds = req[r].reservedIds
      /\ req'[r].kept = req[r].kept /\ req'[r].pos = req[r].pos
      /\ \A q \in Request : q # r => req'[q] = req[q]
  BY <1>1 DEF TypeOK, ReqType
<1>3. Settled(r)
  BY <1>1, <1>2 DEF Settled, InFlight, WritesSucceed, flushVars
<1>4. \A f \in Fold : OccOf(f)' = OccOf(f) /\ KeyOf(f)' = KeyOf(f) /\ f[1] \in Request
  BY <1>2 DEF OccOf, KeyOf, Fold
<1>5. \A f \in FoldsOf(r) : f \in Fold /\ f[1] = r /\ f[2] \in req[r].folds
  BY FoldType DEF FoldsOf
<1>6. \A f \in Fold : f[1] = r /\ f[2] \in req[r].folds => f \in FoldsOf(r)
  BY DEF FoldsOf, Fold
<1>7. \A f \in Fold : /\ f \in Committed <=> req[f[1]].st = "ok" /\ f[2] \in req[f[1]].folds
                      /\ f \in Committed' <=> req'[f[1]].st = "ok" /\ f[2] \in req'[f[1]].folds
  BY DEF Committed
<1>8. \A f \in Fold : f \in Committed' <=> f \in Committed \/ f \in FoldsOf(r)
  BY <1>1, <1>2, <1>4, <1>5, <1>6, <1>7
<1>9. Committed \subseteq Fold /\ Committed' \subseteq Fold
  BY DEF Committed
<1> QED
  BY <1>1, <1>3, <1>4, <1>5, <1>7, <1>8, <1>9

(* ... and what becomes of a window. *)
LEMMA CommitFields ==
    ASSUME TypeOK, RequestsSound, NEW r \in Request, WritesSucceed(r), NEW k \in Key
    PROVE  LET mine == MyFolds(r, k) IN
           /\ win'[k].flushed = win[k].flushed /\ win'[k].holdsSlot = win[k].holdsSlot
           /\ win'[k].admitted = win[k].admitted /\ win'[k].kept = win[k].kept
           /\ win'[k].exists = win[k].exists /\ win'[k].foldedIds = win[k].foldedIds
           /\ win'[k].reserved = win[k].reserved - Cardinality(mine)
           /\ win'[k].pending = win[k].pending - (IF k \in req[r].touched THEN 1 ELSE 0)
           /\ win[k].flushed => /\ win'[k].count = win[k].count /\ win'[k].sample = win[k].sample
                                /\ win'[k].late = win[k].late \cup mine
                                /\ win'[k].lateSample = Newest(win[k].lateSample, mine)
           /\ ~win[k].flushed => /\ win'[k].late = win[k].late
                                 /\ win'[k].lateSample = win[k].lateSample
                                 /\ win'[k].count = win[k].count \cup mine
                                 /\ win'[k].sample = Newest(win[k].sample, mine)
<1> DEFINE w == win[k]
           mine == MyFolds(r, k)
           pending == IF k \in req[r].touched THEN w.pending - 1 ELSE w.pending
           reserved == w.reserved - Cardinality(mine)
           late == w.late \cup mine
           lateSample == Newest(w.lateSample, mine)
           count == w.count \cup mine
           sample == Newest(w.sample, mine)
<1>1. w \in WindowType
  BY DEF TypeOK
<1>2. win'[k] = Release(CommitWindow(w, mine), k, r)
  BY DEF WritesSucceed
<1>3. pending = w.pending - (IF k \in req[r].touched THEN 1 ELSE 0)
  BY <1>1 DEF WindowType
<1>4. win'[k] = IF w.flushed
                THEN [w EXCEPT !.reserved = reserved, !.late = late, !.lateSample = lateSample,
                               !.pending = pending]
                ELSE [w EXCEPT !.reserved = reserved, !.count = count, !.sample = sample,
                               !.pending = pending]
  <2>1. CASE w.flushed
    <3>1. CommitWindow(w, mine) =
            [w EXCEPT !.reserved = reserved, !.late = late, !.lateSample = lateSample]
      BY <1>1, <2>1 DEF CommitWindow, WindowType
    <3> HIDE DEF w, mine, reserved, late, lateSample
    <3>2. LET v == [w EXCEPT !.reserved = reserved, !.late = late, !.lateSample = lateSample]
          IN  [v EXCEPT !.pending = IF k \in req[r].touched THEN @ - 1 ELSE @] =
                 [w EXCEPT !.reserved = reserved, !.late = late, !.lateSample = lateSample,
                           !.pending = IF k \in req[r].touched THEN w.pending - 1 ELSE w.pending]
      BY <1>1 DEF WindowType
    <3> QED
      BY <1>2, <2>1, <3>1, <3>2 DEF Release
  <2>2. CASE ~w.flushed
    <3>1. CommitWindow(w, mine) =
            [w EXCEPT !.reserved = reserved, !.count = count, !.sample = sample]
      BY <1>1, <2>2 DEF CommitWindow, WindowType
    <3> HIDE DEF w, mine, reserved, count, sample
    <3>2. LET v == [w EXCEPT !.reserved = reserved, !.count = count, !.sample = sample]
          IN  [v EXCEPT !.pending = IF k \in req[r].touched THEN @ - 1 ELSE @] =
                 [w EXCEPT !.reserved = reserved, !.count = count, !.sample = sample,
                           !.pending = IF k \in req[r].touched THEN w.pending - 1 ELSE w.pending]
      BY <1>1 DEF WindowType
    <3> QED
      BY <1>2, <2>2, <3>1, <3>2 DEF Release
  <2> QED
    BY <2>1, <2>2
<1> HIDE DEF w, mine, pending, reserved, late, lateSample, count, sample
<1>5. /\ win'[k].flushed = w.flushed /\ win'[k].holdsSlot = w.holdsSlot
      /\ win'[k].admitted = w.admitted /\ win'[k].kept = w.kept
      /\ win'[k].exists = w.exists /\ win'[k].foldedIds = w.foldedIds
      /\ win'[k].reserved = reserved /\ win'[k].pending = pending
      /\ w.flushed => /\ win'[k].count = w.count /\ win'[k].sample = w.sample
                      /\ win'[k].late = late /\ win'[k].lateSample = lateSample
      /\ ~w.flushed => /\ win'[k].late = w.late /\ win'[k].lateSample = w.lateSample
                       /\ win'[k].count = count /\ win'[k].sample = sample
  BY <1>1, <1>4 DEF WindowType
<1> QED
  BY <1>3, <1>5 DEF w, mine, reserved, late, lateSample, count, sample

(* What the others reserved stays theirs. *)
LEMMA SettledReservations ==
    ASSUME TypeOK, ReservationsSound, NEW r \in Request, Settled(r),
           \A k \in Key : /\ win'[k].flushed = win[k].flushed
                          /\ win[k].kept \ MyReservedIds(r, k) \subseteq win'[k].kept
    PROVE  ReservationsSound'
<1>1. \A q \in Request : InFlight(q)' => q # r /\ InFlight(q) /\ req'[q] = req[q]
  BY DEF Settled, InFlight
<1>2. OpenWhilePlanning'
  BY ConstantsAssumption DEF Settled, ReservationsSound, OpenWhilePlanning
<1>3. FoldsBehind'
  BY <1>1 DEF ReservationsSound, FoldsBehind
<1>4. ASSUME NEW q \in Request, InFlight(q)', NEW o \in req'[q].reservedIds
      PROVE  o \in win'[<<IdentOf[o], req'[q].minute>>].kept
  <2> DEFINE k == <<IdentOf[o], req[q].minute>>
  <2>1. q # r /\ InFlight(q) /\ req'[q] = req[q] /\ o \in req[q].reservedIds
    BY <1>1, <1>4
  <2>2. o \in Occ /\ k \in Key
    BY <2>1, ConstantsAssumption DEF TypeOK, ReqType, Key
  <2>3. o \in win[k].kept
    BY <2>1 DEF ReservationsSound, IdsHeld
  <2>4. o \notin MyReservedIds(r, k)
    <3>1. k[2] = req[q].minute /\ InFlight(r)
      BY DEF Settled
    <3>2. CASE req[q].minute = req[r].minute
      BY <2>1, <3>1, <3>2 DEF ReservationsSound, IdsHeld, MyReservedIds
    <3>3. CASE req[q].minute # req[r].minute
      BY <3>1, <3>3 DEF MyReservedIds
    <3> QED
      BY <3>2, <3>3
  <2> HIDE DEF k
  <2>5. o \in win'[k].kept
    BY <2>2, <2>3, <2>4
  <2> QED
    BY <2>1, <2>5 DEF k
<1>5. ASSUME NEW p \in Request, InFlight(p)', NEW q \in Request \ {p}, InFlight(q)',
             req'[q].minute = req'[p].minute
      PROVE  req'[q].reservedIds \cap req'[p].reservedIds = {}
  BY <1>1, <1>5 DEF ReservationsSound, IdsHeld
<1>6. IdsHeld'
  BY <1>4, <1>5 DEF IdsHeld
<1> QED
  BY <1>2, <1>3, <1>6 DEF ReservationsSound

(* commit() keeps the windows' accounts. *)
LEMMA CommitWindows ==
    ASSUME IInv, WindowsInv, NEW r \in Request, WritesSucceed(r)
    PROVE  WindowsInv'
<1>1. TypeOK /\ RequestsSound /\ FoldsInv
  BY DEF IInv
<1>2. /\ Settled(r) /\ FoldsOf(r) \in SUBSET Fold
      /\ Committed' = Committed \cup FoldsOf(r) /\ FoldsOf(r) \cap Committed = {}
      /\ \A f \in Fold : OccOf(f)' = OccOf(f) /\ KeyOf(f)' = KeyOf(f)
  BY <1>1, CommitSettles
<1>3. \A k \in Key :
         /\ win'[k].flushed = win[k].flushed /\ win'[k].holdsSlot = win[k].holdsSlot
         /\ win'[k].admitted = win[k].admitted /\ win'[k].kept = win[k].kept
         /\ win'[k].reserved = win[k].reserved - Cardinality(MyFolds(r, k))
         /\ win'[k].pending = win[k].pending - (IF k \in req[r].touched THEN 1 ELSE 0)
  BY <1>1, CommitFields
<1>4. \A k \in Key :
         /\ win[k].flushed => /\ win'[k].count = win[k].count /\ win'[k].sample = win[k].sample
                              /\ win'[k].late = win[k].late \cup MyFolds(r, k)
                              /\ win'[k].lateSample = Newest(win[k].lateSample, MyFolds(r, k))
         /\ ~win[k].flushed => /\ win'[k].late = win[k].late
                               /\ win'[k].lateSample = win[k].lateSample
                               /\ win'[k].count = win[k].count \cup MyFolds(r, k)
                               /\ win'[k].sample = Newest(win[k].sample, MyFolds(r, k))
  BY <1>1, CommitFields
<1>5. \A k \in Key : win[k] \in WindowType /\ win[k].reserved \in Nat /\ win[k].pending \in Nat
  BY <1>1, CountedSets DEF TypeOK, WindowsInv, WindowsMatchRequests
<1>6. \A k \in Key : Cardinality(MyFolds(r, k)) \in Nat /\ MyFolds(r, k) \in SUBSET Fold
                     /\ IsFiniteSet(MyFolds(r, k))
  <2> SUFFICES ASSUME NEW k \in Key
               PROVE  Cardinality(MyFolds(r, k)) \in Nat /\ MyFolds(r, k) \in SUBSET Fold
                      /\ IsFiniteSet(MyFolds(r, k))
    OBVIOUS
  <2>1. MyFolds(r, k) \in SUBSET Fold
    BY <1>2 DEF MyFolds
  <2>2. IsFiniteSet(MyFolds(r, k))
    BY <2>1, KeyFinite, FS_Subset
  <2> QED
    BY <2>1, <2>2, FS_CardinalityType
<1>7. WindowsMatchRequests'
  <2> SUFFICES ASSUME NEW k \in Key
               PROVE  /\ win'[k].pending = Cardinality(Holders(k)')
                      /\ win'[k].reserved = Cardinality(ReservedFolds(k)')
                      /\ win'[k].admitted = Cardinality(win'[k].kept) + win'[k].reserved
                                              + Cardinality(CommittedIn(k)')
                      /\ Cardinality(win'[k].kept) <= After
    BY DEF WindowsMatchRequests
  <2>1. /\ win[k].pending = Cardinality(Holders(k))
        /\ win[k].reserved = Cardinality(ReservedFolds(k))
        /\ win[k].admitted =
              Cardinality(win[k].kept) + win[k].reserved + Cardinality(CommittedIn(k))
        /\ Cardinality(win[k].kept) <= After
    BY DEF WindowsInv, WindowsMatchRequests
  <2>2. /\ Cardinality(Holders(k)') =
              Cardinality(Holders(k)) - (IF k \in req[r].touched THEN 1 ELSE 0)
        /\ Cardinality(ReservedFolds(k)') =
              Cardinality(ReservedFolds(k)) - Cardinality(MyFolds(r, k))
    BY <1>1, <1>2, SettledSets
  <2>3. CommittedIn(k)' = CommittedIn(k) \cup MyFolds(r, k) /\ CommittedIn(k) \cap MyFolds(r, k) = {}
    BY <1>2 DEF Committed, CommittedIn, MyFolds
  <2>4. /\ IsFiniteSet(CommittedIn(k)) /\ Cardinality(CommittedIn(k)) \in Nat
        /\ Cardinality(win[k].kept) \in Nat
    BY <1>1, CountedSets
  <2>5. Cardinality(CommittedIn(k)') = Cardinality(CommittedIn(k)) + Cardinality(MyFolds(r, k))
    <3>1. Cardinality(CommittedIn(k) \cup MyFolds(r, k)) =
             Cardinality(CommittedIn(k)) + Cardinality(MyFolds(r, k)) - Cardinality({})
      BY <1>6, <2>3, <2>4, FS_Union
    <3> QED
      BY <2>3, <2>4, <3>1, <1>6, FS_EmptySet
  <2>6. win'[k].admitted = Cardinality(win'[k].kept) + win'[k].reserved
                             + Cardinality(CommittedIn(k)')
    BY <2>1, <2>4, <2>5, <1>3, <1>5, <1>6
  <2> QED
    BY <2>1, <2>2, <2>6, <1>3
<1>8. SlotsAccounted'
  <2>1. held' = held /\ Waiting' = Waiting
    BY <1>2 DEF WritesSucceed, Settled, Waiting
  <2>2. {k \in Key : win'[k].holdsSlot} = {k \in Key : win[k].holdsSlot}
    BY <1>3
  <2>3. ASSUME NEW k \in Key, win'[k].holdsSlot
        PROVE  IF win'[k].flushed
               THEN \E d \in Waiting' : d.key = k /\ d.holdsSlot
               ELSE win'[k].reserved > 0 \/ win'[k].count # {}
    <3>1. IF win[k].flushed
          THEN \E d \in Waiting : d.key = k /\ d.holdsSlot
          ELSE win[k].reserved > 0 \/ win[k].count # {}
      BY <2>3, <1>3 DEF WindowsInv, SlotsAccounted
    <3>2. CASE win[k].flushed
      BY <3>1, <3>2, <2>1, <1>3
    <3>3. CASE ~win[k].flushed /\ MyFolds(r, k) = {}
      <4>1. Cardinality(MyFolds(r, k)) = 0
        BY <3>3, FS_EmptySet
      <4>2. win'[k].reserved = win[k].reserved
        BY <4>1, <1>3, <1>5
      <4>3. win'[k].count = win[k].count
        BY <3>3, <1>4
      <4> QED
        BY <3>1, <3>3, <4>2, <4>3, <1>3
    <3>4. CASE ~win[k].flushed /\ MyFolds(r, k) # {}
      BY <3>4, <1>3, <1>4
    <3> QED
      BY <3>2, <3>3, <3>4
  <2> QED
    BY <2>1, <2>2, <2>3 DEF WindowsInv, SlotsAccounted
<1>9. NoEarlyClose'
  BY <1>2, <1>3, <1>5, ClosedStays DEF WindowsInv, Settled
<1>10. SampleIsNewest'
  <2>1. \A k \in Key : \A f \in MyFolds(r, k) : OccOf(f) \in Occ
    BY <1>1, FoldType DEF MyFolds, FoldsOf
  <2>2. Committed \subseteq Fold /\ \A f \in Committed : OccOf(f) \in Occ
    BY <1>1, CommittedType
  <2>3. \A k \in Key : win[k].count \subseteq Committed /\ win[k].late \subseteq Committed
    BY <1>1 DEF FoldsInv, KeyLinked
  <2>4. ASSUME NEW f, NEW folds \in SUBSET Fold, IsNewestOf(f, folds)
        PROVE  IsNewestOf(f, folds)'
    BY <2>4, <1>2 DEF IsNewestOf
  <2>5. ASSUME NEW k \in Key, Counted(k)' # {} PROVE IsNewestOf(win[k].sample, Counted(k))'
    <3>1. ~win[k].flushed /\ win'[k].count = win[k].count \cup MyFolds(r, k)
          /\ win'[k].sample = Newest(win[k].sample, MyFolds(r, k)) /\ Counted(k) = win[k].count
          /\ Counted(k)' = win'[k].count
      BY <2>5, <1>3, <1>4 DEF Counted
    <3>2. win[k].count # {} => IsNewestOf(win[k].sample, win[k].count)
      BY <3>1 DEF WindowsInv, SampleIsNewest
    <3>3. SampleOf(win[k].sample, win[k].count)
      BY <1>1 DEF FoldsInv, SampleLinked
    <3>4. IsNewestOf(win'[k].sample, win'[k].count) /\ win'[k].count \in SUBSET Fold
      BY <3>1, <3>2, <3>3, <2>1, <2>2, <2>3, <2>5, <1>6, NewestOfBoth
    <3> QED
      BY <3>1, <3>4, <2>4
  <2>6. ASSUME NEW k \in Key, win'[k].late # {} PROVE IsNewestOf(win[k].lateSample, win[k].late)'
    <3>1. win[k].late # {} => IsNewestOf(win[k].lateSample, win[k].late)
      BY DEF WindowsInv, SampleIsNewest
    <3>2. CASE ~win[k].flushed
      BY <3>1, <3>2, <2>2, <2>3, <2>4, <2>6, <1>4
    <3>3. CASE win[k].flushed
      <4>1. SampleOf(win[k].lateSample, win[k].late)
        BY <1>1 DEF FoldsInv, SampleLinked
      <4>2. IsNewestOf(win'[k].lateSample, win'[k].late) /\ win'[k].late \in SUBSET Fold
        BY <3>1, <3>3, <4>1, <2>1, <2>2, <2>3, <2>6, <1>4, <1>6, NewestOfBoth
      <4> QED
        BY <4>2, <2>4
    <3> QED
      BY <3>2, <3>3
  <2>7. ASSUME NEW d \in Waiting' PROVE IsNewestOf(d.sample, d.folds)'
    BY <1>2, <2>2, <1>1, WaitingSamples, <2>4 DEF Settled, Waiting, WindowsInv, SampleIsNewest
  <2> QED
    BY <2>5, <2>6, <2>7 DEF SampleIsNewest
<1>11. ForwardedIsStored'
  BY DEF WritesSucceed, WindowsInv, ForwardedIsStored
<1>12. ReservationsSound'
  BY <1>1, <1>2, <1>3, SettledReservations DEF WindowsInv
<1> QED
  BY <1>7, <1>8, <1>9, <1>10, <1>11, <1>12 DEF WindowsInv

-----------------------------------------------------------------------------
(* A request is answered 503.                                               *)
LEMMA RollbackSettles ==
    ASSUME TypeOK, NEW r \in Request, WritesFail(r)
    PROVE  Settled(r) /\ SameCommitted
<1>1. PICK st \in {"failed", "partial"} : req' = [req EXCEPT ![r].st = st]
  BY DEF WritesFail
<1>2. req[r].st = "write" /\ req[r] \in ReqType
  BY DEF WritesFail, TypeOK
<1>3. /\ req'[r].st = st /\ req'[r].batch = req[r].batch /\ req'[r].minute = req[r].minute
      /\ req'[r].folds = req[r].folds /\ req'[r].touched = req[r].touched
      /\ req'[r].reservedIds = req[r].reservedIds
      /\ req'[r].kept = req[r].kept /\ req'[r].pos = req[r].pos
      /\ \A q \in Request : q # r => req'[q] = req[q]
  BY <1>1, <1>2 DEF TypeOK, ReqType
<1>4. Settled(r)
  BY <1>2, <1>3 DEF Settled, InFlight, WritesFail, envVars, flushVars
<1>5. SameCommitted
  BY <1>2, <1>3, CommittedStays
<1> QED
  BY <1>4, <1>5

(* ... and what becomes of a window: its slot goes with its last fold. *)
LEMMA RollbackFields ==
    ASSUME TypeOK, RequestsSound, NEW r \in Request, WritesFail(r), NEW k \in Key
    PROVE  LET mine == MyFolds(r, k)
               ids == MyReservedIds(r, k)
               w == win[k]
               freed == mine # {} /\ ~w.flushed /\ w.count = {} /\ w.reserved - Cardinality(mine) = 0
           IN
           /\ mine \in SUBSET Fold /\ ids \in SUBSET Occ
           /\ Cardinality(mine) \in Int /\ Cardinality(ids) \in Int
           /\ win'[k].flushed = w.flushed /\ win'[k].count = w.count /\ win'[k].sample = w.sample
           /\ win'[k].late = w.late /\ win'[k].lateSample = w.lateSample
           /\ win'[k].admitted = w.admitted - Cardinality(ids) - Cardinality(mine)
           /\ win'[k].kept = w.kept \ ids /\ win'[k].exists = w.exists
           /\ win'[k].foldedIds = w.foldedIds \ {OccOf(f) : f \in mine}
           /\ win'[k].reserved = w.reserved - Cardinality(mine)
           /\ win'[k].pending = w.pending - (IF k \in req[r].touched THEN 1 ELSE 0)
           /\ win'[k].holdsSlot = (w.holdsSlot /\ ~freed)
           /\ RollbackWindow(w, ids, mine).holdsSlot = (w.holdsSlot /\ ~freed)
<1> DEFINE w == win[k]
           ids == MyReservedIds(r, k)
           mine == MyFolds(r, k)
           admitted == w.admitted - Cardinality(ids) - Cardinality(mine)
           reserved == w.reserved - Cardinality(mine)
           foldedIds == w.foldedIds \ {OccOf(f) : f \in mine}
           kept == w.kept \ ids
           given == [w EXCEPT !.admitted = admitted, !.kept = kept, !.reserved = reserved,
                              !.foldedIds = foldedIds]
           slot == given.holdsSlot /\ ~(mine # {} /\ ~given.flushed /\ given.count = {}
                                           /\ given.reserved = 0)
           freed == mine # {} /\ ~w.flushed /\ w.count = {} /\ reserved = 0
<1>1. w \in WindowType /\ req[r] \in ReqType
  BY DEF TypeOK
<1>2. mine \in SUBSET Fold
  BY FoldType DEF MyFolds, FoldsOf
<1>3. ids \in SUBSET Occ
  BY <1>1 DEF MyReservedIds, ReqType
<1>4. Cardinality(ids) \in Int /\ Cardinality(mine) \in Int
  <2> HIDE DEF ids, mine
  <2> QED
    BY <1>2, <1>3, CountsAreInts
<1> DEFINE rolled == RollbackWindow(w, ids, mine)
<1>5. rolled = [given EXCEPT !.holdsSlot = slot]
  BY DEF RollbackWindow
<1>6. win'[k] = Release(rolled, k, r)
  BY DEF WritesFail
<1> HIDE DEF rolled, ids, mine
<1>7. admitted \in Int /\ reserved \in Int /\ foldedIds \in SUBSET Occ /\ kept \in SUBSET Occ
  BY <1>1, <1>4 DEF WindowType
<1> HIDE DEF admitted, reserved, foldedIds, kept, w
<1>8. given \in WindowType
  BY <1>1, <1>7 DEF WindowType
<1>9. /\ given.count = w.count /\ given.sample = w.sample /\ given.late = w.late
      /\ given.lateSample = w.lateSample /\ given.flushed = w.flushed
      /\ given.admitted = admitted /\ given.kept = kept /\ given.reserved = reserved
      /\ given.pending = w.pending /\ given.holdsSlot = w.holdsSlot
      /\ given.exists = w.exists /\ given.foldedIds = foldedIds
  BY <1>1, <1>8 DEF WindowType
<1>10. slot = (w.holdsSlot /\ ~freed) /\ slot \in BOOLEAN
  BY <1>1, <1>9 DEF WindowType
<1> HIDE DEF given, slot, freed
<1>11. rolled \in WindowType
  BY <1>5, <1>8, <1>10 DEF WindowType
<1>12. /\ rolled.count = w.count /\ rolled.sample = w.sample /\ rolled.late = w.late
       /\ rolled.lateSample = w.lateSample /\ rolled.flushed = w.flushed
       /\ rolled.admitted = admitted /\ rolled.kept = kept /\ rolled.reserved = reserved
       /\ rolled.pending = w.pending /\ rolled.holdsSlot = slot
       /\ rolled.exists = w.exists /\ rolled.foldedIds = foldedIds
  BY <1>5, <1>8, <1>9, <1>11 DEF WindowType
<1> DEFINE pending == IF k \in req[r].touched THEN rolled.pending - 1 ELSE rolled.pending
<1>13. pending \in Int /\ pending = w.pending - (IF k \in req[r].touched THEN 1 ELSE 0)
  BY <1>1, <1>12 DEF WindowType
<1>14. win'[k] = [rolled EXCEPT !.pending = pending]
  BY <1>6 DEF Release
<1> HIDE DEF pending
<1>15. win'[k] \in WindowType
  BY <1>11, <1>13, <1>14 DEF WindowType
<1>16. /\ win'[k].count = w.count /\ win'[k].sample = w.sample /\ win'[k].late = w.late
       /\ win'[k].lateSample = w.lateSample /\ win'[k].flushed = w.flushed
       /\ win'[k].admitted = admitted /\ win'[k].kept = kept /\ win'[k].reserved = reserved
       /\ win'[k].pending = pending /\ win'[k].holdsSlot = slot
       /\ win'[k].exists = w.exists /\ win'[k].foldedIds = foldedIds
  BY <1>11, <1>12, <1>14, <1>15 DEF WindowType
<1> QED
  BY <1>2, <1>3, <1>4, <1>10, <1>12, <1>13, <1>16
     DEF w, ids, mine, admitted, kept, foldedIds, reserved, freed, rolled

(* rollback() keeps the windows' accounts. *)
LEMMA RollbackWindows ==
    ASSUME IInv, WindowsInv, NEW r \in Request, WritesFail(r)
    PROVE  WindowsInv'
<1>1. TypeOK /\ RequestsSound /\ FoldsInv
  BY DEF IInv
<1>2. Settled(r) /\ SameCommitted
  BY <1>1, RollbackSettles
<1> DEFINE Freed(k) == /\ MyFolds(r, k) # {} /\ ~win[k].flushed /\ win[k].count = {}
                       /\ win[k].reserved - Cardinality(MyFolds(r, k)) = 0
<1>3. \A k \in Key :
         /\ MyFolds(r, k) \in SUBSET Fold /\ MyReservedIds(r, k) \in SUBSET Occ
         /\ win'[k].flushed = win[k].flushed /\ win'[k].count = win[k].count
         /\ win'[k].sample = win[k].sample
         /\ win'[k].late = win[k].late /\ win'[k].lateSample = win[k].lateSample
         /\ win'[k].admitted = win[k].admitted - Cardinality(MyReservedIds(r, k))
                                 - Cardinality(MyFolds(r, k))
         /\ win'[k].kept = win[k].kept \ MyReservedIds(r, k)
         /\ win'[k].reserved = win[k].reserved - Cardinality(MyFolds(r, k))
         /\ win'[k].pending = win[k].pending - (IF k \in req[r].touched THEN 1 ELSE 0)
         /\ win'[k].holdsSlot = (win[k].holdsSlot /\ ~Freed(k))
         /\ RollbackWindow(win[k], MyReservedIds(r, k), MyFolds(r, k)).holdsSlot =
               (win[k].holdsSlot /\ ~Freed(k))
  BY <1>1, RollbackFields
<1>4. SameFolds
  BY <1>3 DEF SameFolds
<1>5. \A k \in Key : win[k] \in WindowType /\ win[k].reserved \in Nat /\ win[k].pending \in Nat
  BY <1>1, CountedSets DEF TypeOK, WindowsInv, WindowsMatchRequests
<1>6. WindowsMatchRequests'
  <2> SUFFICES ASSUME NEW k \in Key
               PROVE  /\ win'[k].pending = Cardinality(Holders(k)')
                      /\ win'[k].reserved = Cardinality(ReservedFolds(k)')
                      /\ win'[k].admitted = Cardinality(win'[k].kept) + win'[k].reserved
                                              + Cardinality(CommittedIn(k)')
                      /\ Cardinality(win'[k].kept) <= After
    BY DEF WindowsMatchRequests
  <2>1. /\ win[k].pending = Cardinality(Holders(k))
        /\ win[k].reserved = Cardinality(ReservedFolds(k))
        /\ win[k].admitted =
              Cardinality(win[k].kept) + win[k].reserved + Cardinality(CommittedIn(k))
        /\ Cardinality(win[k].kept) <= After
    BY DEF WindowsInv, WindowsMatchRequests
  <2>2. /\ Cardinality(Holders(k)') =
              Cardinality(Holders(k)) - (IF k \in req[r].touched THEN 1 ELSE 0)
        /\ Cardinality(ReservedFolds(k)') =
              Cardinality(ReservedFolds(k)) - Cardinality(MyFolds(r, k))
    BY <1>1, <1>2, SettledSets
  <2>3. CommittedIn(k)' = CommittedIn(k)
    BY <1>2 DEF SameCommitted, CommittedIn
  <2>4. /\ Cardinality(CommittedIn(k)) \in Nat
        /\ IsFiniteSet(win[k].kept) /\ Cardinality(win[k].kept) \in Nat
    BY <1>1, CountedSets
  <2>5. MyReservedIds(r, k) \subseteq win[k].kept
    BY <1>2 DEF Settled, MyReservedIds, Key, WindowsInv, ReservationsSound, IdsHeld
  <2>6. /\ Cardinality(win'[k].kept) = Cardinality(win[k].kept) - Cardinality(MyReservedIds(r, k))
        /\ Cardinality(MyReservedIds(r, k)) \in Nat
    <3>1. win[k].kept \cap MyReservedIds(r, k) = MyReservedIds(r, k)
      BY <2>5
    <3>2. Cardinality(win[k].kept \ MyReservedIds(r, k)) =
             Cardinality(win[k].kept) - Cardinality(win[k].kept \cap MyReservedIds(r, k))
      BY <2>4, FS_Difference
    <3>3. IsFiniteSet(MyReservedIds(r, k))
      BY <2>4, <2>5, FS_Subset
    <3> QED
      BY <3>1, <3>2, <3>3, <1>3, FS_CardinalityType
  <2>7. Cardinality(MyFolds(r, k)) \in Nat
    BY <1>3, KeyFinite, FS_Subset, FS_CardinalityType
  <2>8. win'[k].admitted = Cardinality(win'[k].kept) + win'[k].reserved
                             + Cardinality(CommittedIn(k)')
    <3>1. /\ win'[k].admitted = win[k].admitted - Cardinality(MyReservedIds(r, k))
                                  - Cardinality(MyFolds(r, k))
          /\ win'[k].reserved = win[k].reserved - Cardinality(MyFolds(r, k))
      BY <1>3
    <3> QED
      BY <3>1, <2>1, <2>3, <2>4, <2>6, <2>7, <1>5
  <2>9. Cardinality(win'[k].kept) <= After
    BY <2>1, <2>4, <2>6, ConstantsAssumption
  <2>10. win'[k].pending = Cardinality(Holders(k)') /\ win'[k].reserved = Cardinality(ReservedFolds(k)')
    BY <2>1, <2>2, <1>3
  <2> QED
    BY <2>8, <2>9, <2>10
<1>7. SlotsAccounted'
  <2>1. Waiting' = Waiting
    BY <1>2 DEF Settled, Waiting
  <2> DEFINE freed == {k \in Key : win[k].holdsSlot /\ Freed(k)}
  <2>2. held' = held - Cardinality(freed)
    <3> DEFINE rolled == [k \in Key |-> RollbackWindow(win[k], MyReservedIds(r, k), MyFolds(r, k))]
    <3>1. held' = held - Cardinality({k \in Key : win[k].holdsSlot /\ ~rolled[k].holdsSlot})
      BY DEF WritesFail
    <3>2. \A k \in Key : win[k].holdsSlot /\ ~rolled[k].holdsSlot <=> win[k].holdsSlot /\ Freed(k)
      <4> HIDE DEF Freed
      <4> QED
        BY <1>3
    <3> HIDE DEF rolled, Freed
    <3>3. {k \in Key : win[k].holdsSlot /\ ~rolled[k].holdsSlot} = freed
      BY <3>2
    <3> HIDE DEF freed
    <3> QED
      BY <3>1, <3>3
  <2>3. SlotHolders' = SlotHolders \ freed /\ freed \subseteq SlotHolders
    <3> HIDE DEF Freed
    <3> QED
      BY <1>3 DEF SlotHolders
  <2>4. Cardinality(SlotHolders') = Cardinality(SlotHolders) - Cardinality(freed)
        /\ Cardinality(freed) \in Nat
    <3> HIDE DEF freed
    <3>1. SlotHolders \cap freed = freed
      BY <2>3
    <3>2. Cardinality(SlotHolders \ freed) = Cardinality(SlotHolders) - Cardinality(SlotHolders \cap freed)
      BY SlotSet, FS_Difference
    <3>3. IsFiniteSet(freed)
      BY <2>3, SlotSet, FS_Subset
    <3> QED
      BY <2>3, <3>1, <3>2, <3>3, FS_CardinalityType
  <2>5. held = Cardinality(SlotHolders) /\ held <= MaxSamples /\ MaxSamples \in Nat
    BY ConstantsAssumption DEF WindowsInv, SlotsAccounted, SlotHolders
  <2>6. held' = Cardinality(SlotHolders') /\ held' <= MaxSamples
    <3> HIDE DEF freed
    <3> QED
      BY <2>2, <2>4, <2>5, SlotSet
  <2>7. ASSUME NEW k \in Key, win'[k].holdsSlot
        PROVE  IF win'[k].flushed
               THEN \E d \in Waiting' : d.key = k /\ d.holdsSlot
               ELSE win'[k].reserved > 0 \/ win'[k].count # {}
    <3>1. win[k].holdsSlot /\ ~Freed(k)
      BY <2>7, <1>3
    <3>2. IF win[k].flushed
          THEN \E d \in Waiting : d.key = k /\ d.holdsSlot
          ELSE win[k].reserved > 0 \/ win[k].count # {}
      BY <3>1 DEF WindowsInv, SlotsAccounted
    <3>3. CASE win[k].flushed \/ win[k].count # {}
      BY <3>2, <3>3, <2>1, <1>3
    <3>4. CASE ~win[k].flushed /\ win[k].count = {} /\ MyFolds(r, k) = {}
      <4>1. Cardinality(MyFolds(r, k)) = 0
        BY <3>4, FS_EmptySet
      <4>2. win'[k].reserved = win[k].reserved
        BY <4>1, <1>3, <1>5
      <4> QED
        BY <3>2, <3>4, <4>2, <1>3
    <3>5. CASE ~win[k].flushed /\ win[k].count = {} /\ MyFolds(r, k) # {}
      <4>1. win'[k].reserved # 0
        BY <3>1, <3>5, <1>3
      <4>2. win'[k].reserved \in Nat
        <5>1. win'[k].reserved = Cardinality(ReservedFolds(k)')
          BY <1>6 DEF WindowsMatchRequests
        <5>2. IsFiniteSet(ReservedFolds(k)')
          BY KeyFinite, FS_Subset DEF ReservedFolds
        <5> QED
          BY <5>1, <5>2, FS_CardinalityType
      <4>3. win'[k].reserved > 0
        BY <4>1, <4>2
      <4> QED
        BY <3>5, <4>3, <1>3
    <3> QED
      BY <3>3, <3>4, <3>5
  <2> QED
    BY <2>6, <2>7 DEF SlotsAccounted, SlotHolders
<1>8. NoEarlyClose'
  BY <1>2, <1>3, <1>5, ClosedStays DEF WindowsInv, Settled
<1>9. SampleIsNewest'
  BY <1>1, <1>2, <1>4, NewestStays DEF WindowsInv, Settled, Waiting
<1>10. ForwardedIsStored'
  BY DEF WritesFail, WindowsInv, ForwardedIsStored
<1>11. ReservationsSound'
  BY <1>1, <1>2, <1>3, SettledReservations DEF WindowsInv
<1> QED
  BY <1>6, <1>7, <1>8, <1>9, <1>10, <1>11 DEF WindowsInv

-----------------------------------------------------------------------------
(* The flush, and what changes nothing of windows and requests.             *)
LEMMA RequestsAsWere ==
    ASSUME WindowsMatchRequests, FoldsBehind, IdsHeld, req' = req,
           \A k \in Key : /\ win'[k].pending = win[k].pending /\ win'[k].reserved = win[k].reserved
                          /\ win'[k].admitted = win[k].admitted /\ win'[k].kept = win[k].kept,
           TypeOK
    PROVE  WindowsMatchRequests' /\ FoldsBehind' /\ IdsHeld'
<1>1. \A k \in Key : /\ Holders(k)' = Holders(k) /\ ReservedFolds(k)' = ReservedFolds(k)
                     /\ CommittedIn(k)' = CommittedIn(k)
  BY DEF Holders, ReservedFolds, CommittedIn, Committed, InFlight, KeyOf, OccOf
<1>2. WindowsMatchRequests'
  BY <1>1 DEF WindowsMatchRequests
<1>3. FoldsBehind'
  BY DEF FoldsBehind, InFlight
<1>4. IdsHeld'
  BY ConstantsAssumption DEF TypeOK, ReqType, Key, IdsHeld, InFlight
<1> QED
  BY <1>2, <1>3, <1>4

(* What collectDue makes of a window. *)
LEMMA CollectFields ==
    ASSUME TypeOK, NEW all \in BOOLEAN, CollectDue(all), NEW k \in Key
    PROVE  LET over == k \in FlushSet(all)
               full == over /\ win[k].count # {}
           IN
           /\ win'[k].flushed = (win[k].flushed \/ over)
           /\ win'[k].holdsSlot = (win[k].holdsSlot /\ ~(over /\ ~full))
           /\ win'[k].late = {} /\ win'[k].lateSample = None
           /\ win'[k].count = win[k].count /\ win'[k].sample = win[k].sample
           /\ win'[k].pending = win[k].pending /\ win'[k].reserved = win[k].reserved
           /\ win'[k].admitted = win[k].admitted /\ win'[k].kept = win[k].kept
           /\ win'[k].exists = win[k].exists /\ win'[k].foldedIds = win[k].foldedIds
<1> DEFINE w == win[k]
           over == FlushSet(all)
           full == {j \in over : win[j].count # {}}
           isOver == k \in over
           isFull == k \in full
           flushed == w.flushed \/ isOver
           slot == w.holdsSlot /\ ~(isOver /\ ~isFull)
<1>1. w \in WindowType
  BY DEF TypeOK
<1>2. win'[k] = Collect(w, isOver, isFull)
  BY DEF CollectDue
<1>3. isFull <=> isOver /\ w.count # {}
  OBVIOUS
<1> HIDE DEF w, isOver, isFull
<1>4. win'[k] = [w EXCEPT !.flushed = flushed, !.holdsSlot = slot, !.late = {}, !.lateSample = None]
  BY <1>2 DEF Collect
<1>5. flushed \in BOOLEAN /\ slot \in BOOLEAN
  BY <1>1 DEF WindowType
<1>6. slot = (w.holdsSlot /\ ~(isOver /\ ~(isOver /\ w.count # {})))
  BY <1>1, <1>3 DEF WindowType
<1> HIDE DEF flushed, slot
<1>7. /\ win'[k].flushed = flushed /\ win'[k].holdsSlot = slot
      /\ win'[k].late = {} /\ win'[k].lateSample = None
      /\ win'[k].count = w.count /\ win'[k].sample = w.sample
      /\ win'[k].pending = w.pending /\ win'[k].reserved = w.reserved
      /\ win'[k].admitted = w.admitted /\ win'[k].kept = w.kept
      /\ win'[k].exists = w.exists /\ win'[k].foldedIds = w.foldedIds
  BY <1>1, <1>4, <1>5 DEF WindowType
<1> QED
  BY <1>6, <1>7 DEF w, isOver, flushed

(* collectDue keeps the windows' accounts. *)
LEMMA CollectWindows ==
    ASSUME IInv, WindowsInv, ~flushing, planner = None, NEW all \in BOOLEAN, CollectDue(all),
           UNCHANGED <<now, planner, req, rows, samples, sinkRows, sinkSamples>>,
           stopped' = IF all THEN "flushed" ELSE stopped
    PROVE  WindowsInv'
<1> DEFINE over == FlushSet(all)
           full == {k \in over : win[k].count # {}}
           withLate == {k \in Key : win[k].late # {}}
<1>1. TypeOK /\ RequestsSound /\ FoldsInv /\ writing = {}
  BY DEF IInv, WritingInFlush
<1>2. over \subseteq Key
  BY DEF FlushSet
<1>3. \A k \in Key :
         /\ win'[k].flushed = (win[k].flushed \/ k \in over)
         /\ win'[k].holdsSlot = (win[k].holdsSlot /\ ~(k \in over /\ ~(k \in over /\ win[k].count # {})))
         /\ win'[k].late = {} /\ win'[k].lateSample = None
         /\ win'[k].count = win[k].count /\ win'[k].sample = win[k].sample
         /\ win'[k].pending = win[k].pending /\ win'[k].reserved = win[k].reserved
         /\ win'[k].admitted = win[k].admitted /\ win'[k].kept = win[k].kept
  BY <1>1, CollectFields
<1>4. \A k \in over : /\ ~win[k].flushed /\ Counted(k) = win[k].count
                      /\ all \/ k[2] < now
                      /\ win[k].pending = 0 \/ all \/ now - (k[2] + 1) >= ForceAfter
  BY DEF FlushSet, Counted
<1>5. /\ Waiting = carry
      /\ Waiting' = carry \cup {DueLate(k) : k \in withLate} \cup {DueWindow(k) : k \in full}
      /\ held' = held - Cardinality({k \in over \ full : win[k].holdsSlot})
  BY <1>1 DEF CollectDue, Waiting
<1> HIDE DEF over
<1>6. WindowsMatchRequests' /\ FoldsBehind' /\ IdsHeld'
  BY <1>1, <1>3, RequestsAsWere DEF WindowsInv, ReservationsSound
<1>7. OpenWhilePlanning'
  BY <1>3, <1>4, ConstantsAssumption DEF WindowsInv, ReservationsSound, OpenWhilePlanning
<1>8. NoEarlyClose'
  BY <1>3, <1>4 DEF WindowsInv, NoEarlyClose
<1>9. SlotsAccounted'
  <2> DEFINE freed == {k \in over \ full : win[k].holdsSlot}
  <2>1. SlotHolders' = SlotHolders \ freed /\ freed \subseteq SlotHolders
    <3>1. \A k \in Key : k \in freed <=> k \in over /\ win[k].count = {} /\ win[k].holdsSlot
      OBVIOUS
    <3>2. \A k \in Key : win'[k].holdsSlot <=> win[k].holdsSlot /\ k \notin freed
      BY <1>3, <3>1
    <3>3. freed \subseteq Key
      BY <1>2
    <3>4. \A k \in freed : win[k].holdsSlot
      OBVIOUS
    <3> HIDE DEF freed
    <3> QED
      BY <3>2, <3>3, <3>4 DEF SlotHolders
  <2>2. held' = held - Cardinality(freed)
    BY <1>5
  <2> HIDE DEF freed
  <2>3. Cardinality(SlotHolders') = Cardinality(SlotHolders) - Cardinality(freed)
        /\ Cardinality(freed) \in Nat
    <3>1. SlotHolders \cap freed = freed
      BY <2>1
    <3>2. Cardinality(SlotHolders \ freed) = Cardinality(SlotHolders) - Cardinality(SlotHolders \cap freed)
      BY SlotSet, FS_Difference
    <3>3. IsFiniteSet(freed)
      BY <2>1, SlotSet, FS_Subset
    <3> QED
      BY <2>1, <3>1, <3>2, <3>3, FS_CardinalityType
  <2>4. held = Cardinality(SlotHolders) /\ held <= MaxSamples /\ MaxSamples \in Nat
    BY ConstantsAssumption DEF WindowsInv, SlotsAccounted, SlotHolders
  <2>5. held' = Cardinality(SlotHolders') /\ held' <= MaxSamples
    BY <2>2, <2>3, <2>4, SlotSet
  <2>6. ASSUME NEW k \in Key, win'[k].holdsSlot
        PROVE  IF win'[k].flushed
               THEN \E d \in Waiting' : d.key = k /\ d.holdsSlot
               ELSE win'[k].reserved > 0 \/ win'[k].count # {}
    <3>1. win[k].holdsSlot /\ (k \in over => win[k].count # {})
      BY <2>6, <1>3
    <3>2. IF win[k].flushed
          THEN \E d \in Waiting : d.key = k /\ d.holdsSlot
          ELSE win[k].reserved > 0 \/ win[k].count # {}
      BY <3>1 DEF WindowsInv, SlotsAccounted
    <3>3. CASE k \in over
      <4>1. DueWindow(k) \in Waiting' /\ DueWindow(k).key = k /\ DueWindow(k).holdsSlot
        BY <3>1, <3>3, <1>5 DEF DueWindow
      <4> QED
        BY <3>3, <4>1, <1>3
    <3>4. CASE k \notin over
      BY <3>2, <3>4, <1>3, <1>5
    <3> QED
      BY <3>3, <3>4
  <2> QED
    BY <2>5, <2>6 DEF SlotsAccounted, SlotHolders
<1>10. SampleIsNewest'
  <2>1. \A f, folds : IsNewestOf(f, folds)' <=> IsNewestOf(f, folds)
    BY DEF IsNewestOf, OccOf
  <2>2. \A k \in Key : Counted(k)' = IF k \in over THEN {} ELSE Counted(k)
    BY <1>3 DEF Counted
  <2>3. \A k \in Key : /\ Counted(k) # {} => IsNewestOf(win[k].sample, Counted(k))
                       /\ win[k].late # {} => IsNewestOf(win[k].lateSample, win[k].late)
    BY DEF WindowsInv, SampleIsNewest
  <2>4. ASSUME NEW k \in Key, Counted(k)' # {} PROVE IsNewestOf(win[k].sample, Counted(k))'
    BY <2>2, <2>4, <1>3, <2>3, <2>1
  <2>5. ASSUME NEW d \in Waiting' PROVE IsNewestOf(d.sample, d.folds)'
    <3>1. CASE d \in carry
      BY <3>1, <2>1, <1>5 DEF WindowsInv, SampleIsNewest
    <3>2. ASSUME NEW k \in withLate, d = DueLate(k) PROVE IsNewestOf(d.sample, d.folds)
      BY <3>2, <2>3 DEF DueLate
    <3>3. ASSUME NEW k \in full, d = DueWindow(k) PROVE IsNewestOf(d.sample, d.folds)
      BY <3>3, <1>2, <1>4, <2>3 DEF DueWindow
    <3> QED
      BY <3>1, <3>2, <3>3, <2>1, <1>5
  <2> QED
    BY <2>4, <2>5, <1>3 DEF SampleIsNewest
<1>11. ForwardedIsStored'
  BY DEF WindowsInv, ForwardedIsStored
<1> QED
  BY <1>6, <1>7, <1>8, <1>9, <1>10, <1>11 DEF WindowsInv, ReservationsSound

(* A tenant's samples are stored: their windows need no slot any more. *)
LEMMA StoreWindows ==
    ASSUME IInv, WindowsInv, NEW t \in Tenant, FlushStores(t)
    PROVE  WindowsInv'
<1> DEFINE due == DueOf(t)
           slots == {k \in Key : win[k].holdsSlot /\ \E d \in due : d.key = k /\ d.holdsSlot}
<1>1. TypeOK /\ RequestsSound /\ FoldsInv
  BY DEF IInv
<1>2. /\ writing' = writing \ due /\ due \subseteq writing
      /\ win' = [k \in Key |-> [win[k] EXCEPT !.holdsSlot = @ /\ k \notin slots]]
      /\ held' = held - Cardinality(slots)
      /\ UNCHANGED <<now, planner, req, carry, stopped, rows, sinkRows>>
  BY DEF FlushStores, DueOf
<1>3. Waiting' \subseteq Waiting /\ Waiting \ due \subseteq Waiting'
  BY <1>2 DEF Waiting
<1>4. ASSUME NEW k \in Key
      PROVE  /\ win'[k].holdsSlot = (win[k].holdsSlot /\ k \notin slots)
             /\ win'[k].flushed = win[k].flushed /\ win'[k].count = win[k].count
             /\ win'[k].sample = win[k].sample
             /\ win'[k].late = win[k].late /\ win'[k].lateSample = win[k].lateSample
             /\ win'[k].pending = win[k].pending /\ win'[k].reserved = win[k].reserved
             /\ win'[k].admitted = win[k].admitted /\ win'[k].kept = win[k].kept
  <2> DEFINE w == win[k]
             slot == w.holdsSlot /\ k \notin slots
  <2>1. w \in WindowType /\ win'[k] = [w EXCEPT !.holdsSlot = slot]
    BY <1>1, <1>2 DEF TypeOK
  <2> HIDE DEF slot, w
  <2>2. /\ win'[k].holdsSlot = slot
        /\ win'[k].flushed = w.flushed /\ win'[k].count = w.count /\ win'[k].sample = w.sample
        /\ win'[k].late = w.late /\ win'[k].lateSample = w.lateSample
        /\ win'[k].pending = w.pending /\ win'[k].reserved = w.reserved
        /\ win'[k].admitted = w.admitted /\ win'[k].kept = w.kept
    BY <2>1 DEF WindowType
  <2> QED
    BY <2>2 DEF slot, w
<1>5. SameFolds
  BY <1>4 DEF SameFolds
<1>6. SameCommitted
  BY <1>2, CommittedStays
<1>7. WindowsMatchRequests' /\ FoldsBehind' /\ IdsHeld'
  BY <1>1, <1>2, <1>4, RequestsAsWere DEF WindowsInv, ReservationsSound
<1>8. OpenWhilePlanning' /\ NoEarlyClose'
  BY <1>2, <1>4 DEF WindowsInv, ReservationsSound, OpenWhilePlanning, NoEarlyClose
<1>9. SlotsAccounted'
  <2>1. SlotHolders' = SlotHolders \ slots /\ slots \subseteq SlotHolders
    <3>1. \A k \in Key : win'[k].holdsSlot <=> win[k].holdsSlot /\ k \notin slots
      BY <1>4
    <3>2. slots \subseteq Key /\ \A k \in slots : win[k].holdsSlot
      OBVIOUS
    <3> HIDE DEF slots
    <3> QED
      BY <3>1, <3>2 DEF SlotHolders
  <2>2. \A k \in Key : win[k].holdsSlot /\ k \notin slots
                          => \A d \in due : ~(d.key = k /\ d.holdsSlot)
    OBVIOUS
  <2>3. Cardinality(SlotHolders') = Cardinality(SlotHolders) - Cardinality(slots)
        /\ Cardinality(slots) \in Nat
    <3> HIDE DEF slots
    <3>1. SlotHolders \cap slots = slots
      BY <2>1
    <3>2. Cardinality(SlotHolders \ slots) = Cardinality(SlotHolders) - Cardinality(SlotHolders \cap slots)
      BY SlotSet, FS_Difference
    <3>3. IsFiniteSet(slots)
      BY <2>1, SlotSet, FS_Subset
    <3> QED
      BY <2>1, <3>1, <3>2, <3>3, FS_CardinalityType
  <2>4. held = Cardinality(SlotHolders) /\ held <= MaxSamples /\ MaxSamples \in Nat
    BY ConstantsAssumption DEF WindowsInv, SlotsAccounted, SlotHolders
  <2> HIDE DEF slots
  <2>5. held' = Cardinality(SlotHolders') /\ held' <= MaxSamples
    BY <1>2, <2>3, <2>4, SlotSet
  <2>6. ASSUME NEW k \in Key, win'[k].holdsSlot
        PROVE  IF win'[k].flushed
               THEN \E d \in Waiting' : d.key = k /\ d.holdsSlot
               ELSE win'[k].reserved > 0 \/ win'[k].count # {}
    BY <2>6, <1>4, <2>2, <1>3 DEF WindowsInv, SlotsAccounted
  <2> QED
    BY <2>5, <2>6 DEF SlotsAccounted, SlotHolders
<1>10. SampleIsNewest'
  BY <1>1, <1>3, <1>5, <1>6, NewestStays DEF WindowsInv
<1>11. ForwardedIsStored'
  BY DEF FlushStores, WindowsInv, ForwardedIsStored
<1> QED
  BY <1>7, <1>8, <1>9, <1>10, <1>11 DEF WindowsInv, ReservationsSound

(* Steps that change no window: at most the clock, a flag, or where a       *)
(* sample waits.                                                            *)
LEMMA WindowsLetBe ==
    ASSUME IInv, WindowsInv, planner = None, UNCHANGED <<planner, req, win, held, rows, sinkRows, sinkSamples>>,
           now' \in {now, now + 1}, now \in Int, stopped' = stopped \/ stopped = "no",
           Waiting' = Waiting, samples \subseteq samples'
    PROVE  WindowsInv'
<1>1. TypeOK /\ RequestsSound /\ FoldsInv
  BY DEF IInv
<1>2. SameCommitted /\ SameFolds
  BY CommittedStays DEF SameFolds
<1>3. WindowsMatchRequests' /\ FoldsBehind' /\ IdsHeld'
  BY <1>1, RequestsAsWere DEF WindowsInv, ReservationsSound
<1>4. \A k \in Key : k[2] \in Int
  BY ConstantsAssumption DEF Key, Minute
<1>5. OpenWhilePlanning'
  BY <1>4, ConstantsAssumption DEF WindowsInv, ReservationsSound, OpenWhilePlanning
<1>6. NoEarlyClose'
  BY <1>4, ConstantsAssumption DEF WindowsInv, NoEarlyClose
<1>7. SlotsAccounted'
  BY DEF WindowsInv, SlotsAccounted
<1>8. SampleIsNewest' /\ ForwardedIsStored'
  BY <1>1, <1>2, NewestStays DEF WindowsInv, ForwardedIsStored
<1> QED
  BY <1>3, <1>5, <1>6, <1>7, <1>8 DEF WindowsInv, ReservationsSound

(* A request arrives with nothing planned. *)
LEMMA ArriveWindows ==
    ASSUME IInv, WindowsInv, NEW r \in Request, NEW b \in Batch, Arrive(r, b)
    PROVE  WindowsInv'
<1> DEFINE p == [IdleRequest EXCEPT !.st = "plan", !.batch = b, !.minute = now]
<1>1. TypeOK /\ RequestsSound /\ FoldsInv
  BY DEF IInv
<1>2. /\ planner' = r /\ req[r].st = "idle" /\ req' = [req EXCEPT ![r] = p] /\ stopped # "flushed"
      /\ UNCHANGED <<now, win, held, carry, writing, stopped, rows, samples, sinkRows, sinkSamples>>
  BY DEF Arrive, envVars, collapseVars, flushVars, storeVars
<1>3. /\ p.st = "plan" /\ p.batch = b /\ p.folds = {} /\ p.minute = now /\ p.touched = {}
      /\ p.reservedIds = {}
  BY DEF IdleRequest
<1> HIDE DEF p
<1>4. req'[r] = p /\ \A q \in Request \ {r} : req'[q] = req[q]
  BY <1>1, <1>2 DEF TypeOK
<1>5. SameCommitted /\ SameFolds
  BY <1>2, <1>3, <1>4, CommittedStays DEF SameFolds
<1>6. \A q \in Request \ {r} : InFlight(q)' <=> InFlight(q)
  BY <1>4 DEF InFlight
<1>7. ~InFlight(r) /\ InFlight(r)'
  BY <1>2, <1>3, <1>4 DEF InFlight
<1>8. WindowsMatchRequests'
  <2>1. \A k \in Key : Holders(k)' = Holders(k)
    BY <1>3, <1>4, <1>6, <1>7 DEF Holders
  <2>2. \A k \in Key : ReservedFolds(k)' = ReservedFolds(k)
    BY <1>4, <1>6, <1>3, <1>7 DEF Fold, KeyOf, OccOf, ReservedFolds, InFlight
  <2>3. \A k \in Key : CommittedIn(k)' = CommittedIn(k)
    BY <1>5 DEF SameCommitted, CommittedIn
  <2> QED
    BY <2>1, <2>2, <2>3, <1>2 DEF WindowsInv, WindowsMatchRequests
<1>9. FoldsBehind'
  BY <1>3, <1>4, <1>6 DEF WindowsInv, ReservationsSound, FoldsBehind
<1>10. IdsHeld'
  BY <1>2, <1>3, <1>4, <1>6 DEF WindowsInv, ReservationsSound, IdsHeld
<1>11. OpenWhilePlanning' /\ NoEarlyClose'
  BY <1>2, <1>3, <1>4 DEF WindowsInv, ReservationsSound, OpenWhilePlanning, NoEarlyClose
<1>12. SlotsAccounted' /\ ForwardedIsStored'
  BY <1>2 DEF WindowsInv, SlotsAccounted, ForwardedIsStored, Waiting
<1>13. SampleIsNewest'
  BY <1>1, <1>2, <1>5, NewestStays DEF WindowsInv, Waiting
<1> QED
  BY <1>8, <1>9, <1>10, <1>11, <1>12, <1>13 DEF WindowsInv, ReservationsSound

-----------------------------------------------------------------------------
(* Together: every step of the ingester keeps the windows' accounts.        *)
LEMMA WindowSteps == IInv /\ WindowsInv /\ [Next]_vars => WindowsInv'
<1> SUFFICES ASSUME IInv, WindowsInv, [Next]_vars PROVE WindowsInv'
  OBVIOUS
<1>0. now \in Int /\ now + 0 = now
  BY ConstantsAssumption DEF IInv, TypeOK, Minute
<1>1. CASE Tick
  BY <1>0, <1>1, WindowsLetBe DEF Tick, collapseVars, flushVars, storeVars, Waiting
<1>2. ASSUME NEW r \in Request, NEW b \in Batch, Arrive(r, b) PROVE WindowsInv'
  BY <1>2, ArriveWindows
<1>3. ASSUME NEW r \in Request, PlanStep(r) PROVE WindowsInv'
  BY <1>3, PlanWindows
<1>4. ASSUME NEW r \in Request, WritesSucceed(r) PROVE WindowsInv'
  BY <1>4, CommitWindows
<1>5. ASSUME NEW r \in Request, WritesFail(r) PROVE WindowsInv'
  BY <1>5, RollbackWindows
<1>6. CASE FlushTimer
  BY <1>6, CollectWindows DEF FlushTimer, storeVars
<1>7. CASE FlushAll
  BY <1>7, CollectWindows DEF FlushAll, storeVars
<1>8. ASSUME NEW t \in Tenant, FlushStores(t) PROVE WindowsInv'
  BY <1>8, StoreWindows
<1>9. ASSUME NEW t \in Tenant, FlushFails(t) PROVE WindowsInv'
  BY <1>9, <1>0, WindowsLetBe DEF FlushFails, DueOf, Waiting
<1>10. CASE FlushEnds
  BY <1>0, <1>10, WindowsLetBe DEF FlushEnds, collapseVars, storeVars, Waiting
<1>11. CASE Shutdown
  BY <1>0, <1>11, WindowsLetBe DEF Shutdown, collapseVars, storeVars, Waiting
<1>12. CASE UNCHANGED vars
  <2>1. UNCHANGED <<now, planner, req, win, held, carry, writing, stopped, rows, samples,
                    sinkRows, sinkSamples>>
    BY <1>12 DEF vars
  <2>2. CASE planner = None
    BY <2>1, <1>0, <2>2, WindowsLetBe DEF Waiting
  <2>3. WindowsMatchRequests' /\ FoldsBehind' /\ IdsHeld'
    BY <2>1, RequestsAsWere DEF WindowsInv, ReservationsSound, IInv
  <2>4. OpenWhilePlanning' /\ NoEarlyClose' /\ SlotsAccounted' /\ ForwardedIsStored'
    BY <2>1 DEF WindowsInv, ReservationsSound, OpenWhilePlanning, NoEarlyClose, SlotsAccounted,
                ForwardedIsStored, Waiting
  <2>5. SampleIsNewest'
    BY <2>1 DEF WindowsInv, SampleIsNewest, IsNewestOf, OccOf, Counted, Waiting
  <2> QED
    BY <2>3, <2>4, <2>5 DEF WindowsInv, ReservationsSound
<1> QED
  BY <1>1, <1>2, <1>3, <1>4, <1>5, <1>6, <1>7, <1>8, <1>9, <1>10, <1>11, <1>12 DEF Next, Operating

(* The ingester starts with no window. *)
LEMMA WindowsStart == Init => WindowsInv
<1> SUFFICES ASSUME Init PROVE WindowsInv
  OBVIOUS
<1>1. IInv
  BY Starts
<1>2. /\ \A r \in Request : /\ req[r].st = "idle" /\ ~InFlight(r) /\ req[r].folds = {}
      /\ \A k \in Key : /\ win[k] = NoWindow /\ win[k].kept = {} /\ win[k].count = {}
                        /\ win[k].late = {} /\ win[k].pending = 0 /\ win[k].reserved = 0
                        /\ win[k].admitted = 0 /\ ~win[k].holdsSlot /\ ~win[k].flushed
      /\ Waiting = {}
  BY IdleType DEF Init, InFlight, NoWindow, Waiting
<1>3. \A k \in Key : Holders(k) = {} /\ ReservedFolds(k) = {} /\ CommittedIn(k) = {}
  BY <1>2 DEF Holders, ReservedFolds, CommittedIn, Committed, Fold
<1>0. Cardinality({}) = 0 /\ After \in Nat /\ MaxSamples \in Nat
  BY FS_EmptySet, ConstantsAssumption
<1>4. WindowsMatchRequests
  BY <1>0, <1>2, <1>3 DEF WindowsMatchRequests
<1>5. SlotsAccounted
  BY <1>2, <1>0 DEF Init, SlotsAccounted
<1>6. NoEarlyClose /\ SampleIsNewest /\ ForwardedIsStored
  BY <1>2 DEF Init, NoEarlyClose, SampleIsNewest, Counted, ForwardedIsStored
<1>7. ReservationsSound
  BY <1>2, ConstantsAssumption DEF Init, ReservationsSound, OpenWhilePlanning, FoldsBehind, IdsHeld
<1> QED
  BY <1>4, <1>5, <1>6, <1>7 DEF WindowsInv

(* The inductive invariant of the windows of loop-collapse.ts: the counters  *)
(* of a window match the requests in flight, the slots held match heldSlots, *)
(* no window closes under a plan, its sample is the newest of what it        *)
(* counts, what a collector forwarded is stored, and ids reserved are held.  *)
THEOREM WindowsInvariant == Spec => []WindowsInv
<1>1. Init => WindowsInv
  BY WindowsStart
<1>2. IInv /\ WindowsInv /\ [Next]_vars => WindowsInv'
  BY WindowSteps
<1> QED
  BY <1>1, <1>2, InvariantHolds, PTL DEF Spec

(* What the runs check: however requests, retries, flushes, failed writes    *)
(* and SIGTERM interleave, pending, reserved and heldSlots are exactly what  *)
(* they count, and a window's sample is the newest of its folds.             *)
THEOREM WindowsStayAccounted == Spec => []WindowsAccounted
<1>1. IInv /\ WindowsInv => WindowsAccounted
  BY DEF IInv, WindowsInv, WindowsAccounted
<1> QED
  BY <1>1, InvariantHolds, WindowsInvariant, PTL

-----------------------------------------------------------------------------
(* One occurrence planned, by what is remembered of its id: stored past the  *)
(* windows' bound, stored again, known as folded, stored first, stored for   *)
(* want of a sample slot, or folded.                                         *)
PlanIds(r, how) ==
    LET k == ThisKey(r)
        w == win[k]
        o == This(r)
        p == req[r]
    IN
    /\ Planning(r)
    /\ how \in {"past", "again", "known", "keep", "noslot", "fold"}
    /\ how = "past" <=> ~CanHold(r)
    /\ how = "again" => o \in w.kept
    /\ how = "known" => o \in w.foldedIds
    /\ how \in {"keep", "noslot", "fold"} => o \notin w.kept \cup w.foldedIds
    /\ how = "noslot" => PassWithoutSlot(r)
    /\ how = "fold" => FoldIn(r)
    /\ \A j \in Key \ {k} : win'[j] = win[j]
    /\ win'[k].exists = (w.exists \/ how # "past")
    /\ win'[k].kept = w.kept \cup (IF how = "keep" THEN {o} ELSE {})
    /\ win'[k].foldedIds =
         IF how = "fold" THEN IF Remembers(w, p.minute) THEN w.foldedIds \cup {o} ELSE {}
         ELSE w.foldedIds
    /\ \A q \in Request \ {r} : req'[q] = req[q]
    /\ req'[r].st = "plan" /\ req'[r].batch = p.batch /\ req'[r].minute = p.minute
    /\ req'[r].pos = p.pos + 1
    /\ req'[r].kept = p.kept \cup (IF how \in {"known", "fold"} THEN {} ELSE {o})
    /\ req'[r].reservedIds = p.reservedIds \cup (IF how = "keep" THEN {o} ELSE {})
    /\ req'[r].folds = p.folds \cup (IF how = "fold" THEN {p.pos} ELSE {})

(* A pass of the loop is one of them if its window and its plan are. *)
LEMMA IdsFrom ==
    ASSUME TypeOK, RequestsSound, NEW r \in Request, Planning(r),
           NEW how \in {"past", "again", "known", "keep", "noslot", "fold"},
           how = "past" <=> ~CanHold(r),
           how = "again" => This(r) \in win[ThisKey(r)].kept,
           how = "known" => This(r) \in win[ThisKey(r)].foldedIds,
           how \in {"keep", "noslot", "fold"}
              => This(r) \notin win[ThisKey(r)].kept \cup win[ThisKey(r)].foldedIds,
           how = "noslot" => PassWithoutSlot(r), how = "fold" => FoldIn(r),
           NEW p \in ReqType, Advance(r, p), p.st = req[r].st, p.batch = req[r].batch,
           p.minute = req[r].minute, p.pos = req[r].pos,
           p.kept = req[r].kept \cup (IF how \in {"known", "fold"} THEN {} ELSE {This(r)}),
           p.reservedIds = req[r].reservedIds \cup (IF how = "keep" THEN {This(r)} ELSE {}),
           p.folds = req[r].folds \cup (IF how = "fold" THEN {req[r].pos} ELSE {}),
           NEW w, win' = [win EXCEPT ![ThisKey(r)] = w],
           w.exists = (win[ThisKey(r)].exists \/ how # "past"),
           w.kept = win[ThisKey(r)].kept \cup (IF how = "keep" THEN {This(r)} ELSE {}),
           w.foldedIds =
             IF how = "fold"
             THEN IF Remembers(win[ThisKey(r)], req[r].minute)
                  THEN win[ThisKey(r)].foldedIds \cup {This(r)} ELSE {}
             ELSE win[ThisKey(r)].foldedIds
    PROVE  PlanIds(r, how)
<1>1. ThisKey(r) \in Key /\ win \in [Key -> WindowType]
  BY PlanningTypes DEF TypeOK
<1>2. win'[ThisKey(r)] = w /\ \A j \in Key \ {ThisKey(r)} : win'[j] = win[j]
  BY <1>1
<1>3. /\ \A q \in Request \ {r} : req'[q] = req[q]
      /\ req'[r].st = "plan" /\ req'[r].batch = req[r].batch
      /\ req'[r].minute = req[r].minute /\ req'[r].pos = req[r].pos + 1
      /\ req'[r].kept = p.kept /\ req'[r].reservedIds = p.reservedIds
      /\ req'[r].folds = p.folds
  BY AdvanceFields
<1> QED
  BY <1>2, <1>3, Zenon DEF PlanIds

(* Every step of plan() but its return is one of the six. *)
LEMMA PlanStepIds ==
    ASSUME TypeOK, RequestsSound, NEW r \in Request, PlanStep(r)
    PROVE  PlanReturns(r) \/ \E how \in {"past", "again", "known", "keep", "noslot", "fold"} :
                                PlanIds(r, how)
<1> DEFINE k == ThisKey(r)
           o == This(r)
<1>0. win \in [Key -> WindowType]
  BY DEF TypeOK
<1>1. CASE PassWithoutWindow(r)
  <2> DEFINE p == [req[r] EXCEPT !.kept = @ \cup {o}]
  <2>1. Planning(r) /\ Advance(r, p) /\ win' = win /\ ~CanHold(r)
    BY <1>1 DEF PassWithoutWindow
  <2>2. /\ p \in ReqType /\ p.st = req[r].st /\ p.batch = req[r].batch
        /\ p.minute = req[r].minute /\ p.pos = req[r].pos /\ p.folds = req[r].folds
        /\ p.kept = req[r].kept \cup {o} /\ p.reservedIds = req[r].reservedIds
    BY <2>1, PlanningTypes DEF ReqType
  <2> HIDE DEF p
  <2>3. win[k] \in WindowType /\ win' = [win EXCEPT ![k] = win[k]]
    BY <1>0, <2>1, PlanningTypes
  <2>4. win[k].exists \in BOOLEAN /\ win[k].kept = win[k].kept \cup {}
    BY <2>3 DEF WindowType
  <2>5. PlanIds(r, "past")
    BY <2>1, <2>2, <2>3, <2>4, IdsFrom
  <2> QED
    BY <2>5
<1>2. ASSUME Planning(r), CanHold(r), NEW how \in {"again", "known", "noslot"},
             how = "again" => o \in win[k].kept,
             how = "known" => o \in win[k].foldedIds,
             how = "noslot" => o \notin win[k].kept \cup win[k].foldedIds /\ PassWithoutSlot(r),
             NEW p \in ReqType, Advance(r, p), p.st = req[r].st,
             p.batch = req[r].batch, p.minute = req[r].minute, p.pos = req[r].pos,
             p.folds = req[r].folds, p.reservedIds = req[r].reservedIds,
             p.kept = req[r].kept \cup (IF how = "known" THEN {} ELSE {o}),
             win' = [win EXCEPT ![k] = Hold(r)]
      PROVE  PlanIds(r, how)
  <2>1. /\ Hold(r).exists = TRUE /\ Hold(r).kept = win[k].kept
        /\ Hold(r).foldedIds = win[k].foldedIds
    BY <1>2, HoldFields
  <2> HIDE DEF o, k
  <2>2. /\ Hold(r).exists = (win[k].exists \/ how # "past")
        /\ Hold(r).kept = win[k].kept \cup (IF how = "keep" THEN {o} ELSE {})
        /\ Hold(r).foldedIds =
             IF how = "fold"
             THEN IF Remembers(win[k], req[r].minute) THEN win[k].foldedIds \cup {o} ELSE {}
             ELSE win[k].foldedIds
    BY <2>1
  <2>3. /\ how = "past" <=> ~CanHold(r)
        /\ how \in {"keep", "noslot", "fold"} => o \notin win[k].kept \cup win[k].foldedIds
        /\ p.kept = req[r].kept \cup (IF how \in {"known", "fold"} THEN {} ELSE {o})
        /\ p.reservedIds = req[r].reservedIds \cup (IF how = "keep" THEN {o} ELSE {})
        /\ p.folds = req[r].folds \cup (IF how = "fold" THEN {req[r].pos} ELSE {})
    BY <1>2
  <2> QED
    BY <1>2, <2>2, <2>3, IdsFrom DEF o, k
<1>3. ASSUME Planning(r)
      PROVE  LET p == [Touching(r) EXCEPT !.kept = @ \cup {o}] IN
             /\ p \in ReqType /\ p.st = req[r].st /\ p.batch = req[r].batch
             /\ p.minute = req[r].minute /\ p.pos = req[r].pos /\ p.folds = req[r].folds
             /\ p.reservedIds = req[r].reservedIds /\ p.kept = req[r].kept \cup {o}
  BY <1>3, PlanningTypes, TouchingFields DEF ReqType
<1>4. CASE KeepAgain(r)
  <2>1. PlanIds(r, "again")
    BY <1>2, <1>3, <1>4 DEF KeepAgain
  <2> QED
    BY <2>1
<1>5. CASE PassWithoutSlot(r)
  <2>1. PlanIds(r, "noslot")
    BY <1>2, <1>3, <1>5 DEF PassWithoutSlot, Fresh
  <2> QED
    BY <2>1
<1>6. CASE Recognise(r)
  BY <1>6, TouchingFields, <1>2 DEF Recognise
<1>7. CASE Keep(r)
  <2> DEFINE p == [Touching(r) EXCEPT !.kept = @ \cup {o}, !.reservedIds = @ \cup {o}]
             w == [Hold(r) EXCEPT !.admitted = @ + 1, !.kept = @ \cup {o}]
  <2>1. Planning(r) /\ CanHold(r) /\ Advance(r, p) /\ win' = [win EXCEPT ![k] = w]
        /\ o \notin win[k].kept \cup win[k].foldedIds
    BY <1>7 DEF Keep, Fresh
  <2>2. /\ p \in ReqType /\ p.st = req[r].st /\ p.batch = req[r].batch
        /\ p.minute = req[r].minute /\ p.pos = req[r].pos /\ p.folds = req[r].folds
        /\ p.reservedIds = req[r].reservedIds \cup {o}
        /\ p.kept = req[r].kept \cup {o}
    <3> DEFINE t == Touching(r)
    <3>1. /\ o \in Occ /\ t \in ReqType /\ t.reservedIds = req[r].reservedIds
          /\ t.kept = req[r].kept
          /\ t.st = req[r].st /\ t.batch = req[r].batch
          /\ t.minute = req[r].minute /\ t.pos = req[r].pos /\ t.folds = req[r].folds
      BY <2>1, PlanningTypes, TouchingFields
    <3>2. t.kept \cup {o} \in SUBSET Occ /\ t.reservedIds \cup {o} \in SUBSET Occ
      BY <3>1 DEF ReqType
    <3>3. p = [t EXCEPT !.kept = t.kept \cup {o}, !.reservedIds = t.reservedIds \cup {o}]
      OBVIOUS
    <3> HIDE DEF p, o, t, k
    <3>4. /\ p \in ReqType /\ p.st = t.st /\ p.batch = t.batch
          /\ p.minute = t.minute /\ p.pos = t.pos /\ p.folds = t.folds
      BY <3>1, <3>2, <3>3, KeptRequest
    <3>5. p.reservedIds = t.reservedIds \cup {o} /\ p.kept = t.kept \cup {o}
      BY <3>1, <3>3 DEF ReqType
    <3> QED
      BY <3>1, <3>4, <3>5
  <2>3. /\ w.exists = TRUE /\ w.kept = win[k].kept \cup {o} /\ w.foldedIds = win[k].foldedIds
    <3> DEFINE h == Hold(r)
    <3>1. h \in WindowType /\ h.exists = TRUE /\ h.kept = win[k].kept
          /\ h.foldedIds = win[k].foldedIds
      BY <2>1, HoldFields
    <3>2. w = [h EXCEPT !.admitted = h.admitted + 1, !.kept = h.kept \cup {o}]
      OBVIOUS
    <3> HIDE DEF w, h, o, k
    <3>3. w.exists = h.exists /\ w.kept = h.kept \cup {o} /\ w.foldedIds = h.foldedIds
      BY <3>1, <3>2 DEF WindowType
    <3> QED
      BY <3>1, <3>3
  <2> HIDE DEF p, w
  <2>4. w.exists = (win[k].exists \/ TRUE) /\ p.folds = req[r].folds \cup {}
    BY <2>2, <2>3
  <2>5. PlanIds(r, "keep")
    BY <2>1, <2>2, <2>3, <2>4, IdsFrom
  <2> QED
    BY <2>5
<1>8. CASE FoldIn(r)
  <2> DEFINE m == req[r].minute
             remember == Remembers(win[k], m)
             p == [Touching(r) EXCEPT !.folds = @ \cup {req[r].pos}]
             w == [Hold(r) EXCEPT !.holdsSlot = TRUE, !.admitted = @ + 1, !.reserved = @ + 1,
                                  !.tracking = remember,
                                  !.foldedIds = IF remember THEN @ \cup {o} ELSE {}]
  <2>1. Planning(r) /\ CanHold(r) /\ Advance(r, p) /\ win' = [win EXCEPT ![k] = w]
        /\ o \notin win[k].kept \cup win[k].foldedIds
    BY <1>8 DEF FoldIn, Fresh
  <2>2. /\ p \in ReqType /\ p.st = req[r].st /\ p.batch = req[r].batch
        /\ p.minute = req[r].minute /\ p.pos = req[r].pos
        /\ p.folds = req[r].folds \cup {req[r].pos}
        /\ p.reservedIds = req[r].reservedIds /\ p.kept = req[r].kept
    <3> DEFINE t == Touching(r)
    <3>1. /\ t \in ReqType /\ t.folds = req[r].folds /\ t.reservedIds = req[r].reservedIds
          /\ t.kept = req[r].kept
          /\ t.st = req[r].st /\ t.batch = req[r].batch
          /\ t.minute = req[r].minute /\ t.pos = req[r].pos
      BY <2>1, TouchingFields
    <3>2. t.folds \cup {req[r].pos} \in SUBSET (1..MaxLen)
      BY <2>1, <3>1, PlanningTypes DEF ReqType
    <3>3. p = [t EXCEPT !.folds = t.folds \cup {req[r].pos}]
      OBVIOUS
    <3> HIDE DEF p, t, k
    <3>4. /\ p \in ReqType /\ p.st = t.st /\ p.batch = t.batch
          /\ p.minute = t.minute /\ p.pos = t.pos /\ p.folds = t.folds \cup {req[r].pos}
      BY <3>1, <3>2, <3>3, FoldedRequest
    <3>5. p.reservedIds = t.reservedIds /\ p.kept = t.kept
      BY <3>1, <3>3 DEF ReqType
    <3> QED
      BY <3>1, <3>4, <3>5
  <2>3. /\ w.exists = TRUE /\ w.kept = win[k].kept
        /\ w.foldedIds = IF remember THEN win[k].foldedIds \cup {o} ELSE {}
    <3> DEFINE h == Hold(r)
               ids == IF remember THEN h.foldedIds \cup {o} ELSE {}
    <3>1. h \in WindowType /\ h.exists = TRUE /\ h.kept = win[k].kept
          /\ h.foldedIds = win[k].foldedIds
      BY <2>1, HoldFields
    <3>2. w = [h EXCEPT !.holdsSlot = TRUE, !.admitted = h.admitted + 1,
                        !.reserved = h.reserved + 1, !.tracking = remember, !.foldedIds = ids]
      OBVIOUS
    <3> HIDE DEF w, h, o, k, ids, remember
    <3>3. w.exists = h.exists /\ w.kept = h.kept /\ w.foldedIds = ids
      BY <3>1, <3>2 DEF WindowType
    <3> QED
      BY <3>1, <3>3 DEF ids
  <2> HIDE DEF p, w
  <2>4. /\ w.exists = (win[k].exists \/ TRUE) /\ p.kept = req[r].kept \cup {}
        /\ w.kept = win[k].kept \cup {} /\ p.reservedIds = req[r].reservedIds \cup {}
    BY <2>2, <2>3
  <2>5. PlanIds(r, "fold")
    BY <1>8, <2>1, <2>2, <2>3, <2>4, IdsFrom
  <2> QED
    BY <2>5
<1> QED
  BY <1>1, <1>4, <1>5, <1>6, <1>7, <1>8 DEF PlanStep

-----------------------------------------------------------------------------
(* What is accepted is counted.                                             *)

IdsOf(b) == {Content[b][j] : j \in 1..Len(Content[b])}

(* An exporter resends a batch only once its earlier request is over, and no *)
(* occurrence is in two batches.                                             *)
OrderlyExporters ==
    /\ ~OverlappingRetries
    /\ \A b, c \in Batch : b # c => IdsOf(b) \cap IdsOf(c) = {}

(* A request keeps ids of its own batch, and writes once it has passed all.  *)
PlansSound ==
    \A r \in Request :
        /\ req[r].st # "idle" =>
              req[r].kept \subseteq IdsOf(req[r].batch)
              /\ req[r].reservedIds \subseteq IdsOf(req[r].batch)
        /\ req[r].st \in {"write", "ok"} => req[r].pos > Len(Content[req[r].batch])

(* A window that never came to be counts and remembers nothing. *)
WindowsExist ==
    \A k \in Key :
        win[k].foldedIds # {} \/ win[k].count # {} \/ ReservedFolds(k) # {} => win[k].exists

(* An id remembered as folded is that of a fold committed or reserved. *)
KnownFolds ==
    \A k \in Key : \A o \in win[k].foldedIds :
        \E f \in Committed \cup ReservedFolds(k) : OccOf(f) = o

OneInFlight ==
    \A q, r \in Request : InFlight(q) /\ InFlight(r) /\ req[q].batch = req[r].batch => q = r

(* stop() came when no request was left, and no request came after it. *)
NoneLeft ==
    stopped = "flushed" =>
        /\ \A r \in Request : ~InFlight(r)
        /\ \A k \in Key : Counted(k) = {} /\ win[k].late = {}

(* What plan() has passed is to be stored or folded, or was folded before. *)
PassedCounted ==
    \A r \in Request : InFlight(r) => \A j \in 1..Len(Content[req[r].batch]) :
        j < req[r].pos =>
            LET o == Content[req[r].batch][j] IN
            o \in req[r].kept \/ \E f \in Committed \cup FoldsOf(r) : OccOf(f) = o

AcceptedInv ==
    /\ PlansSound /\ WindowsExist /\ KnownFolds /\ OneInFlight /\ NoneLeft /\ PassedCounted
    /\ AcceptedIsCounted

(* A fold is one of its request's batch. *)
LEMMA FoldIds ==
    ASSUME TypeOK, RequestsSound, NEW f \in Fold, f[2] \in req[f[1]].folds
    PROVE  /\ f[1] \in Request /\ req[f[1]].st # "idle" /\ req[f[1]].batch \in Batch
           /\ OccOf(f) \in IdsOf(req[f[1]].batch) /\ f \in FoldsOf(f[1])
  BY DEF Fold, RequestsSound, TypeOK, IdsOf, OccOf, FoldsOf

(* What a plan step makes of the folds. *)
LEMMA PlanSets ==
    ASSUME TypeOK, RequestsSound, NEW r \in Request, NEW how, PlanIds(r, how)
    PROVE  /\ \A q \in Request : /\ req'[q].st = req[q].st /\ (InFlight(q)' <=> InFlight(q))
                                 /\ req'[q].batch = req[q].batch /\ req'[q].minute = req[q].minute
                                 /\ FoldsOf(q) \subseteq FoldsOf(q)'
           /\ \A f \in Fold : OccOf(f)' = OccOf(f) /\ KeyOf(f)' = KeyOf(f)
           /\ SameCommitted
           /\ \A k \in Key :
                 ReservedFolds(k)' = ReservedFolds(k) \cup
                    (IF how = "fold" /\ k = ThisKey(r) THEN {<<r, req[r].pos>>} ELSE {})
<1>1. req[r].st = "plan" /\ req[r].pos \in 1..MaxLen
  BY PlanningTypes DEF PlanIds
<1>2. /\ \A q \in Request \ {r} : req'[q] = req[q]
      /\ req'[r].st = "plan" /\ req'[r].batch = req[r].batch /\ req'[r].minute = req[r].minute
      /\ req'[r].folds = req[r].folds \cup (IF how = "fold" THEN {req[r].pos} ELSE {})
  BY DEF PlanIds
<1>3. \A q \in Request : /\ req'[q].st = req[q].st /\ (InFlight(q)' <=> InFlight(q))
                         /\ req'[q].batch = req[q].batch /\ req'[q].minute = req[q].minute
                         /\ FoldsOf(q) \subseteq FoldsOf(q)'
  BY <1>1, <1>2 DEF InFlight, FoldsOf
<1>4. \A f \in Fold : f[1] \in Request /\ f = <<f[1], f[2]>>
  BY DEF Fold
<1>5. \A f \in Fold : OccOf(f)' = OccOf(f) /\ KeyOf(f)' = KeyOf(f)
  BY <1>3, <1>4 DEF OccOf, KeyOf
<1>6. SameCommitted
  BY <1>1, <1>2, CommittedStays
<1>7. ASSUME NEW k \in Key
      PROVE  ReservedFolds(k)' = ReservedFolds(k) \cup
                (IF how = "fold" /\ k = ThisKey(r) THEN {<<r, req[r].pos>>} ELSE {})
  <2> DEFINE g == <<r, req[r].pos>>
  <2>1. g \in Fold /\ g[1] = r /\ g[2] = req[r].pos /\ KeyOf(g) = ThisKey(r)
    BY <1>1 DEF Fold, KeyOf, OccOf, ThisKey, This
  <2>2. \A f \in Fold :
           /\ f \in ReservedFolds(k)' <=>
                InFlight(f[1])' /\ f[2] \in req'[f[1]].folds /\ KeyOf(f)' = k
           /\ f \in ReservedFolds(k) <=>
                InFlight(f[1]) /\ f[2] \in req[f[1]].folds /\ KeyOf(f) = k
    BY DEF ReservedFolds, InFlight
  <2>3. \A f \in Fold : f[2] \in req'[f[1]].folds <=>
                           f[2] \in req[f[1]].folds \/ (how = "fold" /\ f = g)
    <3>1. \A f \in Fold : f[1] # r => f # g /\ req'[f[1]].folds = req[f[1]].folds
      BY <1>2, <1>4, <2>1
    <3>2. \A f \in Fold : f[1] = r => (f = g <=> f[2] = req[r].pos)
      BY <1>4, <2>1
    <3> HIDE DEF g
    <3>3. CASE how = "fold"
      BY <3>1, <3>2, <3>3, <1>2, <1>4
    <3>4. CASE how # "fold"
      BY <3>1, <3>4, <1>2, <1>4
    <3> QED
      BY <3>3, <3>4
  <2>4. InFlight(r)
    BY <1>1 DEF InFlight
  <2> HIDE DEF g
  <2>5. \A f \in Fold : f \in ReservedFolds(k)' <=>
           f \in ReservedFolds(k) \/ (how = "fold" /\ k = ThisKey(r) /\ f = g)
    <3>1. \A f \in Fold : f \in ReservedFolds(k)' <=>
             /\ InFlight(f[1]) /\ KeyOf(f) = k
             /\ f[2] \in req[f[1]].folds \/ (how = "fold" /\ f = g)
      BY <1>3, <1>4, <1>5, <2>2, <2>3
    <3> QED
      BY <3>1, <2>1, <2>2, <2>4
  <2>6. ReservedFolds(k) \subseteq Fold /\ ReservedFolds(k)' \subseteq Fold
    BY DEF ReservedFolds
  <2>7. CASE how = "fold" /\ k = ThisKey(r)
    BY <2>1, <2>5, <2>6, <2>7 DEF g
  <2>8. CASE ~(how = "fold" /\ k = ThisKey(r))
    BY <2>5, <2>6, <2>8
  <2> QED
    BY <2>7, <2>8
<1> QED
  BY <1>3, <1>5, <1>6, <1>7

(* plan() keeps what is counted. *)
LEMMA PlanAccepts ==
    ASSUME IInv, AcceptedInv, OrderlyExporters, NEW r \in Request, PlanStep(r)
    PROVE  AcceptedInv'
<1>1. TypeOK /\ RequestsSound /\ FoldsInv
  BY DEF IInv
<1>2. /\ SameFolds /\ req[r].st = "plan"
      /\ UNCHANGED <<now, carry, writing, flushing, stopped, rows, samples, sinkRows, sinkSamples>>
  BY <1>1, Planned DEF PlanEffect
<1>3. stopped # "flushed"
  BY <1>2 DEF AcceptedInv, NoneLeft, InFlight
<1>4. NoneLeft'
  BY <1>2, <1>3 DEF NoneLeft
<1>5. ASSUME NEW how \in {"past", "again", "known", "keep", "noslot", "fold"}, PlanIds(r, how)
      PROVE  AcceptedInv'
  <2>0. PICK k \in Key : k = ThisKey(r)
    BY <1>1, <1>5, PlanningTypes DEF PlanIds
  <2>00. PICK o \in Occ : o = This(r)
    BY <1>1, <1>5, PlanningTypes DEF PlanIds
  <2>01. PICK g \in Fold : g = <<r, req[r].pos>>
    BY <1>1, <1>5, PlanningTypes DEF PlanIds, Fold
  <2>1. /\ req[r].pos \in 1..Len(Content[req[r].batch]) /\ req[r].pos \in 1..MaxLen
        /\ req[r].batch \in Batch
        /\ o = Content[req[r].batch][req[r].pos] /\ o \in IdsOf(req[r].batch)
        /\ g \in Fold /\ OccOf(g) = o /\ InFlight(r) /\ Len(Content[req[r].batch]) \in Nat
    <3>1. Planning(r)
      BY <1>5 DEF PlanIds
    <3>2. /\ req[r].pos \in 1..Len(Content[req[r].batch]) /\ req[r].pos \in 1..MaxLen
          /\ req[r].batch \in Batch
      BY <1>1, <3>1, PlanningTypes
    <3>3. Content[req[r].batch] \in Seq(Occ)
      BY <3>2, ConstantsAssumption
    <3> QED
      BY <1>2, <2>00, <2>01, <3>2, <3>3 DEF This, IdsOf, OccOf, InFlight
  <2>2. /\ \A q \in Request : /\ req'[q].st = req[q].st /\ (InFlight(q)' <=> InFlight(q))
                              /\ req'[q].batch = req[q].batch
                              /\ FoldsOf(q) \subseteq FoldsOf(q)'
        /\ \A f \in Fold : OccOf(f)' = OccOf(f)
        /\ Committed' = Committed /\ Committed \subseteq Fold
        /\ \A j \in Key : ReservedFolds(j)' = ReservedFolds(j) \cup
                             (IF how = "fold" /\ j = k THEN {g} ELSE {})
    BY <1>1, <1>5, <2>0, <2>01, PlanSets DEF SameCommitted, Committed
  <2>3. /\ how = "known" => o \in win[k].foldedIds
        /\ \A j \in Key \ {k} : win'[j] = win[j]
        /\ win'[k].exists = (win[k].exists \/ how # "past")
        /\ \/ win'[k].foldedIds = win[k].foldedIds
           \/ how = "fold" /\ win'[k].foldedIds = win[k].foldedIds \cup {o}
           \/ how = "fold" /\ win'[k].foldedIds = {}
        /\ \A q \in Request \ {r} : req'[q] = req[q]
        /\ req'[r].pos = req[r].pos + 1
        /\ req'[r].kept = req[r].kept \cup (IF how \in {"known", "fold"} THEN {} ELSE {o})
        /\ req'[r].reservedIds = req[r].reservedIds \cup (IF how = "keep" THEN {o} ELSE {})
        /\ req'[r].folds = req[r].folds \cup (IF how = "fold" THEN {req[r].pos} ELSE {})
    BY <1>5, <2>0, <2>00 DEF PlanIds
  <2>4. \A j \in Key : win'[j].count = win[j].count
    BY <1>2 DEF SameFolds
  <2>5. PlansSound'
    <3>1. ASSUME NEW q \in Request \ {r}
          PROVE  /\ req'[q].st # "idle" =>
                       req'[q].kept \subseteq IdsOf(req'[q].batch)
                       /\ req'[q].reservedIds \subseteq IdsOf(req'[q].batch)
                 /\ req'[q].st \in {"write", "ok"} => req'[q].pos > Len(Content[req'[q].batch])
      BY <2>3 DEF AcceptedInv, PlansSound
    <3>2. req'[r].st = "plan" /\ req'[r].batch = req[r].batch
      BY <1>2, <2>2
    <3>3. req[r].kept \subseteq IdsOf(req[r].batch) /\ req[r].reservedIds \subseteq IdsOf(req[r].batch)
      BY <1>2 DEF AcceptedInv, PlansSound
    <3>4. req'[r].kept \subseteq IdsOf(req[r].batch) /\ req'[r].reservedIds \subseteq IdsOf(req[r].batch)
      BY <2>1, <2>3, <3>3
    <3> QED
      BY <3>1, <3>2, <3>4 DEF PlansSound
  <2>6. WindowsExist'
    <3> SUFFICES ASSUME NEW j \in Key,
                        win'[j].foldedIds # {} \/ win'[j].count # {} \/ ReservedFolds(j)' # {}
                 PROVE  win'[j].exists
      BY DEF WindowsExist
    <3>1. CASE j # k \/ how = "past"
      <4>1. win'[j].foldedIds = win[j].foldedIds /\ win'[j].count = win[j].count
            /\ ReservedFolds(j)' = ReservedFolds(j)
        <5>1. CASE j # k
          <6>1. ReservedFolds(j)' = ReservedFolds(j)
            BY <5>1, <2>2
          <6>2. win'[j] = win[j]
            BY <5>1, <2>3
          <6> QED
            BY <6>1, <6>2
        <5>2. CASE j = k /\ how = "past"
          BY <5>2, <2>2, <2>3, <2>4
        <5> QED
          BY <3>1, <5>1, <5>2
      <4>2. win[j].exists
        BY <4>1 DEF AcceptedInv, WindowsExist
      <4> QED
        BY <3>1, <4>2, <2>3
    <3>2. CASE j = k /\ how # "past"
      BY <3>2, <2>3
    <3> QED
      BY <3>1, <3>2
  <2>7. KnownFolds'
    <3> SUFFICES ASSUME NEW j \in Key, NEW id \in win'[j].foldedIds
                 PROVE  \E f \in Committed' \cup ReservedFolds(j)' : OccOf(f)' = id
      BY DEF KnownFolds
    <3>1. CASE id \in win[j].foldedIds
      <4>1. PICK f \in Committed \cup ReservedFolds(j) : OccOf(f) = id
        BY <3>1 DEF AcceptedInv, KnownFolds
      <4>2. f \in Fold
        BY <2>2 DEF ReservedFolds
      <4> QED
        BY <4>1, <4>2, <2>2
    <3>2. CASE id \notin win[j].foldedIds
      BY <3>2, <2>3, <2>1, <2>2
    <3> QED
      BY <3>1, <3>2
  <2>8. OneInFlight'
    BY <2>2 DEF AcceptedInv, OneInFlight
  <2>9. PassedCounted'
    <3> SUFFICES ASSUME NEW q \in Request, InFlight(q)',
                        NEW j \in 1..Len(Content[req'[q].batch]), j < req'[q].pos
                 PROVE  \/ Content[req'[q].batch][j] \in req'[q].kept
                        \/ \E f \in Committed' \cup FoldsOf(q)' :
                              OccOf(f)' = Content[req'[q].batch][j]
      BY DEF PassedCounted
    <3> DEFINE id == Content[req[q].batch][j]
    <3>1. /\ InFlight(q) /\ j \in 1..Len(Content[req[q].batch]) /\ req'[q].batch = req[q].batch
          /\ req[q].kept \subseteq req'[q].kept
      BY <2>2, <2>3
    <3>2. \A f \in Committed \cup FoldsOf(q) :
             f \in Committed' \cup FoldsOf(q)' /\ OccOf(f)' = OccOf(f)
      BY <1>1, FoldType, <2>2 DEF FoldsOf
    <3>3. CASE j < req[q].pos
      BY <3>1, <3>3, <3>2 DEF AcceptedInv, PassedCounted
    <3>4. CASE ~(j < req[q].pos)
      <4>1. q = r /\ j = req[r].pos /\ id = o
        BY <3>4, <2>3, <3>1, <2>1
      <4>2. CASE how \notin {"known", "fold"}
        BY <4>1, <4>2, <2>2, <2>3
      <4>3. CASE how = "fold"
        <5>1. g \in FoldsOf(r)'
          BY <4>3, <2>01, <2>3 DEF FoldsOf
        <5> QED
          BY <5>1, <4>1, <2>1, <2>2
      <4>4. CASE how = "known"
        <5>1. PICK f \in Committed \cup ReservedFolds(k) : OccOf(f) = o
          BY <4>4, <2>3 DEF AcceptedInv, KnownFolds
        <5>2. CASE f \in Committed
          BY <5>1, <5>2, <4>1, <3>1, <3>2
        <5>3. CASE f \in ReservedFolds(k)
          <6>1. f \in Fold /\ InFlight(f[1]) /\ f[2] \in req[f[1]].folds
            BY <5>3 DEF ReservedFolds
          <6>2. /\ f[1] \in Request /\ req[f[1]].batch \in Batch
                /\ o \in IdsOf(req[f[1]].batch) /\ f \in FoldsOf(f[1])
            BY <1>1, <5>1, <6>1, FoldIds
          <6>3. req[f[1]].batch = req[r].batch
            BY <6>2, <2>1 DEF OrderlyExporters
          <6>4. f[1] = r
            BY <6>1, <6>2, <6>3, <2>1 DEF AcceptedInv, OneInFlight
          <6> QED
            BY <6>2, <6>4, <5>1, <4>1, <3>1, <3>2
        <5> QED
          BY <5>2, <5>3
      <4> QED
        BY <4>2, <4>3, <4>4
    <3> QED
      BY <3>3, <3>4
  <2>10. AcceptedIsCounted'
    <3> SUFFICES ASSUME NEW q \in Request, req'[q].st = "ok",
                        NEW j \in 1..Len(Content[req'[q].batch])
                 PROVE  \/ Content[req'[q].batch][j] \in rows'
                        \/ \E f \in Committed' : OccOf(f)' = Content[req'[q].batch][j]
      BY DEF AcceptedIsCounted
    <3>1. req[q].st = "ok" /\ req'[q].batch = req[q].batch
      BY <2>2
    <3> QED
      BY <1>2, <2>2, <3>1 DEF AcceptedInv, AcceptedIsCounted
  <2> QED
    BY <1>4, <2>5, <2>6, <2>7, <2>8, <2>9, <2>10 DEF AcceptedInv
<1>6. CASE PlanReturns(r)
  <2>1. /\ req' = [req EXCEPT ![r].st = "write"] /\ win' = win
        /\ req[r].pos > Len(Content[req[r].batch]) /\ req[r] \in ReqType
    BY <1>1, <1>6 DEF PlanReturns, collapseVars, TypeOK
  <2>2. \A q \in Request :
           /\ req'[q].batch = req[q].batch /\ req'[q].minute = req[q].minute
           /\ req'[q].folds = req[q].folds /\ req'[q].kept = req[q].kept
           /\ req'[q].reservedIds = req[q].reservedIds /\ req'[q].pos = req[q].pos
           /\ q # r => req'[q].st = req[q].st
    BY <1>1, <2>1 DEF TypeOK, ReqType
  <2>3. req'[r].st = "write"
    BY <1>1, <2>1 DEF TypeOK, ReqType
  <2>4. \A q \in Request : (InFlight(q)' <=> InFlight(q)) /\ FoldsOf(q)' = FoldsOf(q)
    BY <1>2, <2>2, <2>3 DEF InFlight, FoldsOf
  <2>5. \A f \in Fold : f[1] \in Request /\ OccOf(f)' = OccOf(f) /\ KeyOf(f)' = KeyOf(f)
    BY <2>2 DEF OccOf, KeyOf, Fold
  <2>6. Committed' = Committed
    BY <2>2, <2>3, <1>2 DEF Fold, Committed
  <2>7. \A k \in Key : ReservedFolds(k)' = ReservedFolds(k)
    BY <2>2, <2>4, <2>5 DEF ReservedFolds, InFlight
  <2>8. Committed \subseteq Fold /\ \A k \in Key : ReservedFolds(k) \subseteq Fold
    BY DEF Committed, ReservedFolds
  <2>9. PlansSound'
    BY <1>2, <2>1, <2>2, <2>3 DEF AcceptedInv, PlansSound
  <2>10. WindowsExist'
    BY <2>1, <2>7 DEF AcceptedInv, WindowsExist
  <2>11. KnownFolds'
    <3> SUFFICES ASSUME NEW j \in Key, NEW id \in win'[j].foldedIds
                 PROVE  \E f \in Committed' \cup ReservedFolds(j)' : OccOf(f)' = id
      BY DEF KnownFolds
    <3>1. PICK f \in Committed \cup ReservedFolds(j) : OccOf(f) = id
      BY <2>1 DEF AcceptedInv, KnownFolds
    <3> QED
      BY <3>1, <2>5, <2>6, <2>7, <2>8
  <2>12. OneInFlight'
    BY <2>2, <2>4 DEF AcceptedInv, OneInFlight
  <2>13. PassedCounted'
    <3> SUFFICES ASSUME NEW q \in Request, InFlight(q)',
                        NEW j \in 1..Len(Content[req'[q].batch]), j < req'[q].pos
                 PROVE  \/ Content[req'[q].batch][j] \in req'[q].kept
                        \/ \E f \in Committed' \cup FoldsOf(q)' :
                              OccOf(f)' = Content[req'[q].batch][j]
      BY DEF PassedCounted
    <3> DEFINE id == Content[req[q].batch][j]
    <3>1. id \in req[q].kept \/ \E f \in Committed \cup FoldsOf(q) : OccOf(f) = id
      BY <2>2, <2>4 DEF AcceptedInv, PassedCounted
    <3>2. FoldsOf(q) \subseteq Fold
      BY <1>1, FoldType DEF FoldsOf
    <3> QED
      BY <3>1, <3>2, <2>2, <2>4, <2>5, <2>6, <2>8
  <2>14. AcceptedIsCounted'
    <3> SUFFICES ASSUME NEW q \in Request, req'[q].st = "ok",
                        NEW j \in 1..Len(Content[req'[q].batch])
                 PROVE  \/ Content[req'[q].batch][j] \in rows'
                        \/ \E f \in Committed' : OccOf(f)' = Content[req'[q].batch][j]
      BY DEF AcceptedIsCounted
    <3>1. req[q].st = "ok" /\ req'[q].batch = req[q].batch
      BY <2>2, <2>3
    <3> QED
      BY <1>2, <2>5, <2>6, <2>8, <3>1 DEF AcceptedInv, AcceptedIsCounted
  <2> QED
    BY <1>4, <2>9, <2>10, <2>11, <2>12, <2>13, <2>14 DEF AcceptedInv
<1> QED
  BY <1>1, <1>5, <1>6, PlanStepIds

(* A request settled: what the others have passed, and keep, stays. *)
LEMMA SettledAccepts ==
    ASSUME IInv, AcceptedInv, NEW r \in Request, Settled(r), req[r].st = "write",
           Committed \subseteq Committed',
           \A k \in Key : /\ win'[k].exists = win[k].exists
                          /\ win'[k].count \subseteq win[k].count \cup MyFolds(r, k)
                          /\ win'[k].foldedIds \subseteq win[k].foldedIds
                          /\ \A f \in MyFolds(r, k) :
                                f \in Committed' \/ OccOf(f) \notin win'[k].foldedIds
    PROVE  /\ PlansSound' /\ WindowsExist' /\ KnownFolds' /\ OneInFlight' /\ NoneLeft'
           /\ PassedCounted'
           /\ \A f \in Fold : OccOf(f)' = OccOf(f)
<1>1. TypeOK /\ RequestsSound
  BY DEF IInv
<1>2. /\ InFlight(r) /\ ~InFlight(r)'
      /\ \A q \in Request \ {r} : req'[q] = req[q]
      /\ req'[r].batch = req[r].batch /\ req'[r].minute = req[r].minute
      /\ req'[r].folds = req[r].folds /\ req'[r].kept = req[r].kept
      /\ req'[r].reservedIds = req[r].reservedIds /\ req'[r].pos = req[r].pos
      /\ stopped' = stopped
  BY DEF Settled
<1>3. \A q \in Request : InFlight(q)' => q # r /\ InFlight(q) /\ req'[q] = req[q]
  BY <1>2 DEF InFlight
<1>4. \A f \in Fold : OccOf(f)' = OccOf(f)
  BY <1>2 DEF OccOf, Fold
<1>5. \A k \in Key : /\ MyFolds(r, k) \subseteq ReservedFolds(k)
                     /\ ReservedFolds(k)' = ReservedFolds(k) \ MyFolds(r, k)
                     /\ ReservedFolds(k) \subseteq Fold
  BY <1>1, SettledSets DEF ReservedFolds
<1>6. PlansSound'
  <2> SUFFICES ASSUME NEW q \in Request
               PROVE  /\ req'[q].st # "idle" =>
                            req'[q].kept \subseteq IdsOf(req'[q].batch)
                            /\ req'[q].reservedIds \subseteq IdsOf(req'[q].batch)
                      /\ req'[q].st \in {"write", "ok"} => req'[q].pos > Len(Content[req'[q].batch])
    BY DEF PlansSound
  <2>1. /\ req[q].st # "idle" =>
              req[q].kept \subseteq IdsOf(req[q].batch)
              /\ req[q].reservedIds \subseteq IdsOf(req[q].batch)
        /\ req[q].st \in {"write", "ok"} => req[q].pos > Len(Content[req[q].batch])
    BY DEF AcceptedInv, PlansSound
  <2>2. CASE q = r
    BY <2>1, <2>2, <1>2
  <2>3. CASE q # r
    BY <2>1, <2>3, <1>2
  <2> QED
    BY <2>2, <2>3
<1>7. WindowsExist'
  <2> SUFFICES ASSUME NEW k \in Key,
                      win'[k].foldedIds # {} \/ win'[k].count # {} \/ ReservedFolds(k)' # {}
               PROVE  win'[k].exists
    BY DEF WindowsExist
  <2>1. win[k].foldedIds # {} \/ win[k].count # {} \/ ReservedFolds(k) # {}
    BY <1>5
  <2> QED
    BY <2>1 DEF AcceptedInv, WindowsExist
<1>8. KnownFolds'
  <2> SUFFICES ASSUME NEW k \in Key, NEW o \in win'[k].foldedIds
               PROVE  \E f \in Committed' \cup ReservedFolds(k)' : OccOf(f)' = o
    BY DEF KnownFolds
  <2>1. PICK f \in Committed \cup ReservedFolds(k) : OccOf(f) = o
    BY DEF AcceptedInv, KnownFolds
  <2>2. f \in Fold
    BY <1>5 DEF Committed
  <2>3. f \in Committed' \cup ReservedFolds(k)'
    BY <2>1, <1>5
  <2> QED
    BY <2>1, <2>2, <2>3, <1>4
<1>9. OneInFlight'
  <2> SUFFICES ASSUME NEW p \in Request, NEW q \in Request, InFlight(p)', InFlight(q)',
                      req'[p].batch = req'[q].batch
               PROVE  p = q
    BY DEF OneInFlight
  <2> QED
    BY <1>3 DEF AcceptedInv, OneInFlight
<1>10. NoneLeft'
  BY <1>2 DEF AcceptedInv, NoneLeft
<1>11. PassedCounted'
  <2> SUFFICES ASSUME NEW q \in Request, InFlight(q)',
                      NEW j \in 1..Len(Content[req'[q].batch]), j < req'[q].pos
               PROVE  \/ Content[req'[q].batch][j] \in req'[q].kept
                      \/ \E f \in Committed' \cup FoldsOf(q)' :
                            OccOf(f)' = Content[req'[q].batch][j]
    BY DEF PassedCounted
  <2> DEFINE id == Content[req[q].batch][j]
  <2>1. InFlight(q) /\ req'[q] = req[q]
    BY <1>3
  <2>2. id \in req[q].kept \/ \E f \in Committed \cup FoldsOf(q) : OccOf(f) = id
    BY <2>1 DEF AcceptedInv, PassedCounted
  <2>3. FoldsOf(q) \subseteq Fold /\ FoldsOf(q)' = FoldsOf(q) /\ Committed \subseteq Fold
    BY <1>1, <2>1, FoldType DEF FoldsOf, Committed
  <2> QED
    BY <2>1, <2>2, <2>3, <1>4
<1> QED
  BY <1>4, <1>6, <1>7, <1>8, <1>9, <1>10, <1>11

(* commit(): what the request passed is stored, or its folds count now. *)
LEMMA CommitAccepts ==
    ASSUME IInv, AcceptedInv, NEW r \in Request, WritesSucceed(r)
    PROVE  AcceptedInv'
<1>1. TypeOK /\ RequestsSound
  BY DEF IInv
<1>2. /\ Settled(r) /\ FoldsOf(r) \in SUBSET Fold /\ Committed' = Committed \cup FoldsOf(r)
      /\ \A f \in Fold : OccOf(f)' = OccOf(f)
  BY <1>1, CommitSettles
<1>3. req[r].st = "write" /\ rows' = rows \cup req[r].kept
  BY DEF WritesSucceed
<1>4. \A k \in Key : /\ win'[k].exists = win[k].exists /\ win'[k].foldedIds = win[k].foldedIds
                     /\ win'[k].count \subseteq win[k].count \cup MyFolds(r, k)
  <2> TAKE k \in Key
  <2> DEFINE mine == MyFolds(r, k)
  <2>1. /\ win'[k].exists = win[k].exists /\ win'[k].foldedIds = win[k].foldedIds
        /\ win[k].flushed => win'[k].count = win[k].count
        /\ ~win[k].flushed => win'[k].count = win[k].count \cup mine
    BY <1>1, CommitFields
  <2> HIDE DEF mine
  <2>2. win'[k].count \subseteq win[k].count \cup mine
    BY <2>1
  <2> QED
    BY <2>1, <2>2 DEF mine
<1>5. \A k \in Key : MyFolds(r, k) \subseteq Committed'
  BY <1>2 DEF MyFolds
<1>6. /\ PlansSound' /\ WindowsExist' /\ KnownFolds' /\ OneInFlight' /\ NoneLeft'
      /\ PassedCounted'
  BY <1>2, <1>3, <1>4, <1>5, SettledAccepts
<1>7. AcceptedIsCounted'
  <2> SUFFICES ASSUME NEW q \in Request, req'[q].st = "ok",
                      NEW j \in 1..Len(Content[req'[q].batch])
               PROVE  \/ Content[req'[q].batch][j] \in rows'
                      \/ \E f \in Committed' : OccOf(f)' = Content[req'[q].batch][j]
    BY DEF AcceptedIsCounted
  <2> DEFINE id == Content[req[q].batch][j]
  <2>1. req'[q].batch = req[q].batch /\ (q # r => req[q].st = "ok")
    BY <1>2 DEF Settled
  <2>2. id \in rows \/ id \in rows' \/ \E f \in Committed \cup FoldsOf(r) : OccOf(f) = id
    <3>1. CASE q # r
      BY <2>1, <3>1 DEF AcceptedInv, AcceptedIsCounted
    <3>2. CASE q = r
      <4>1. InFlight(r) /\ req[r].pos > Len(Content[req[r].batch]) /\ req[r] \in ReqType
        BY <1>1, <1>3 DEF InFlight, AcceptedInv, PlansSound, TypeOK
      <4>2. j < req[r].pos
        BY <1>1, <1>3, ConstantsAssumption, <4>1, <2>1, <3>2 DEF TypeOK, ReqType
      <4>3. id \in req[r].kept \/ \E f \in Committed \cup FoldsOf(r) : OccOf(f) = id
        BY <2>1, <3>2, <4>1, <4>2 DEF AcceptedInv, PassedCounted
      <4> QED
        BY <4>3, <1>3
    <3> QED
      BY <3>1, <3>2
  <2> QED
    BY <2>1, <2>2, <1>2, <1>3 DEF Committed
<1> QED
  BY <1>6, <1>7 DEF AcceptedInv

(* rollback(): the folds given back are no longer known. *)
LEMMA RollbackAccepts ==
    ASSUME IInv, AcceptedInv, NEW r \in Request, WritesFail(r)
    PROVE  AcceptedInv'
<1>1. TypeOK /\ RequestsSound
  BY DEF IInv
<1>2. Settled(r) /\ SameCommitted
  BY <1>1, RollbackSettles
<1>3. req[r].st = "write" /\ rows \subseteq rows'
  BY DEF WritesFail
<1>4. \A k \in Key : /\ win'[k].exists = win[k].exists /\ win'[k].count = win[k].count
                     /\ win'[k].foldedIds =
                          win[k].foldedIds \ {OccOf(f) : f \in MyFolds(r, k)}
  BY <1>1, RollbackFields
<1>5. /\ PlansSound' /\ WindowsExist' /\ KnownFolds' /\ OneInFlight' /\ NoneLeft'
      /\ PassedCounted' /\ \A f \in Fold : OccOf(f)' = OccOf(f)
  BY <1>2, <1>3, <1>4, SettledAccepts DEF SameCommitted
<1>6. AcceptedIsCounted'
  <2> SUFFICES ASSUME NEW q \in Request, req'[q].st = "ok",
                      NEW j \in 1..Len(Content[req'[q].batch])
               PROVE  \/ Content[req'[q].batch][j] \in rows'
                      \/ \E f \in Committed' : OccOf(f)' = Content[req'[q].batch][j]
    BY DEF AcceptedIsCounted
  <2>1. req'[r].st # "ok"
    BY <1>1 DEF WritesFail, TypeOK, ReqType
  <2>2. q # r /\ req'[q] = req[q]
    BY <2>1, <1>2 DEF Settled
  <2>3. \/ Content[req[q].batch][j] \in rows
        \/ \E f \in Committed : OccOf(f) = Content[req[q].batch][j]
    BY <2>2 DEF AcceptedInv, AcceptedIsCounted
  <2> QED
    BY <2>2, <2>3, <1>2, <1>3, <1>5 DEF SameCommitted, Committed
<1> QED
  BY <1>5, <1>6 DEF AcceptedInv

(* Steps that plan, settle and collect nothing. *)
LEMMA AcceptsLetBe ==
    ASSUME AcceptedInv, UNCHANGED req, rows \subseteq rows',
           \A k \in Key : /\ win'[k].exists = win[k].exists
                          /\ win'[k].foldedIds = win[k].foldedIds
                          /\ win'[k].count = win[k].count,
           NoneLeft'
    PROVE  AcceptedInv'
<1>1. /\ Committed' = Committed /\ \A k \in Key : ReservedFolds(k)' = ReservedFolds(k)
      /\ \A r \in Request : FoldsOf(r)' = FoldsOf(r) /\ InFlight(r)' = InFlight(r)
      /\ \A f : OccOf(f)' = OccOf(f)
  BY DEF Committed, ReservedFolds, FoldsOf, InFlight, KeyOf, OccOf
<1>2. PlansSound' /\ OneInFlight'
  BY <1>1 DEF AcceptedInv, PlansSound, OneInFlight
<1>3. WindowsExist' /\ KnownFolds'
  BY <1>1 DEF AcceptedInv, WindowsExist, KnownFolds
<1>4. PassedCounted'
  BY <1>1 DEF AcceptedInv, PassedCounted
<1>5. AcceptedIsCounted'
  BY <1>1 DEF AcceptedInv, AcceptedIsCounted
<1> QED
  BY <1>2, <1>3, <1>4, <1>5 DEF AcceptedInv

(* collectDue takes every window there is when it is called by stop(). *)
LEMMA CollectAccepts ==
    ASSUME IInv, AcceptedInv, NEW all \in BOOLEAN, CollectDue(all), UNCHANGED <<req, rows>>,
           IF all THEN stopped' = "flushed" /\ \A r \in Request : ~InFlight(r)
           ELSE stopped' = stopped /\ stopped # "flushed"
    PROVE  AcceptedInv'
<1>1. \A k \in Key :
         /\ win'[k].flushed = (win[k].flushed \/ k \in FlushSet(all))
         /\ win'[k].late = {} /\ win'[k].count = win[k].count
         /\ win'[k].exists = win[k].exists /\ win'[k].foldedIds = win[k].foldedIds
  BY CollectFields DEF IInv
<1>2. NoneLeft'
  <2>1. CASE ~all
    BY <2>1 DEF NoneLeft
  <2>2. CASE all
    <3>1. \A r \in Request : ~InFlight(r)'
      BY <2>2 DEF InFlight
    <3>2. ASSUME NEW k \in Key PROVE Counted(k)' = {}
      <4>1. CASE win[k].exists
        BY <4>1, <2>2, <1>1 DEF FlushSet, Counted
      <4>2. CASE ~win[k].exists
        BY <4>2, <1>1 DEF Counted, AcceptedInv, WindowsExist
      <4> QED
        BY <4>1, <4>2
    <3> QED
      BY <3>1, <3>2, <1>1 DEF NoneLeft
  <2> QED
    BY <2>1, <2>2
<1> QED
  BY <1>1, <1>2, AcceptsLetBe

(* A request arrives with nothing passed, and alone with its batch. *)
LEMMA ArriveAccepts ==
    ASSUME IInv, AcceptedInv, OrderlyExporters, NEW r \in Request, NEW b \in Batch, Arrive(r, b)
    PROVE  AcceptedInv'
<1> DEFINE p == [IdleRequest EXCEPT !.st = "plan", !.batch = b, !.minute = now]
<1>1. TypeOK /\ RequestsSound
  BY DEF IInv
<1>2. /\ req[r].st = "idle" /\ req' = [req EXCEPT ![r] = p] /\ stopped # "flushed"
      /\ \A q \in Request : req[q].batch = b => ~InFlight(q)
      /\ UNCHANGED <<win, stopped, rows>>
  BY DEF Arrive, MaySend, Attempts, OrderlyExporters, envVars, collapseVars, flushVars, storeVars
<1>3. /\ p.st = "plan" /\ p.batch = b /\ p.folds = {} /\ p.kept = {} /\ p.reservedIds = {}
      /\ p.pos = 1
  BY DEF IdleRequest
<1> HIDE DEF p
<1>4. req'[r] = p /\ \A q \in Request \ {r} : req'[q] = req[q]
  BY <1>1, <1>2 DEF TypeOK
<1>5. ~InFlight(r) /\ InFlight(r)' /\ \A q \in Request \ {r} : InFlight(q)' <=> InFlight(q)
  BY <1>2, <1>3, <1>4 DEF InFlight
<1>6. Committed \subseteq Fold /\ \A k \in Key : ReservedFolds(k) \subseteq Fold
  BY DEF Committed, ReservedFolds
<1>7. \A f \in Fold : f[1] # r => OccOf(f)' = OccOf(f) /\ KeyOf(f)' = KeyOf(f)
  BY <1>4 DEF OccOf, KeyOf, Fold
<1>8. \A f \in Committed : f[1] # r
  BY <1>2 DEF Committed
<1>9. Committed' = Committed
  <2>1. \A f \in Fold : f[1] \in Request
    BY DEF Fold
  <2>2. \A f \in Fold : f \in Committed' <=> f \in Committed
    BY <2>1, <1>2, <1>3, <1>4 DEF Committed
  <2>3. Committed' \subseteq Fold
    BY DEF Committed
  <2> QED
    BY <2>2, <2>3, <1>6
<1>10. \A k \in Key : ReservedFolds(k)' = ReservedFolds(k)
                      /\ \A f \in ReservedFolds(k) : f[1] # r
  BY <1>3, <1>4, <1>5, <1>7, <1>6 DEF Fold, ReservedFolds, InFlight
<1>11. PlansSound'
  BY <1>3, <1>4 DEF AcceptedInv, PlansSound
<1>12. WindowsExist'
  BY <1>2, <1>10 DEF AcceptedInv, WindowsExist
<1>13. KnownFolds'
  <2> SUFFICES ASSUME NEW k \in Key, NEW o \in win'[k].foldedIds
               PROVE  \E f \in Committed' \cup ReservedFolds(k)' : OccOf(f)' = o
    BY DEF KnownFolds
  <2>1. PICK f \in Committed \cup ReservedFolds(k) : OccOf(f) = o
    BY <1>2 DEF AcceptedInv, KnownFolds
  <2> QED
    BY <2>1, <1>6, <1>7, <1>8, <1>9, <1>10
<1>14. OneInFlight'
  BY <1>2, <1>3, <1>4, <1>5 DEF AcceptedInv, OneInFlight
<1>15. NoneLeft'
  BY <1>2 DEF NoneLeft
<1>16. PassedCounted'
  <2> SUFFICES ASSUME NEW q \in Request, InFlight(q)',
                      NEW j \in 1..Len(Content[req'[q].batch]), j < req'[q].pos
               PROVE  \/ Content[req'[q].batch][j] \in req'[q].kept
                      \/ \E f \in Committed' \cup FoldsOf(q)' :
                            OccOf(f)' = Content[req'[q].batch][j]
    BY DEF PassedCounted
  <2>1. CASE q = r
    BY <2>1, <1>3, <1>4
  <2>2. CASE q # r
    <3> DEFINE id == Content[req[q].batch][j]
    <3>1. req'[q] = req[q] /\ InFlight(q)
      BY <2>2, <1>4, <1>5
    <3>2. id \in req[q].kept \/ \E f \in Committed \cup FoldsOf(q) : OccOf(f) = id
      BY <3>1 DEF AcceptedInv, PassedCounted
    <3>3. /\ FoldsOf(q)' = FoldsOf(q)
          /\ \A f \in FoldsOf(q) : f \in Fold /\ f[1] = q
      BY <1>1, <3>1, FoldType DEF FoldsOf
    <3> QED
      BY <2>2, <3>1, <3>2, <3>3, <1>6, <1>7, <1>8, <1>9
  <2> QED
    BY <2>1, <2>2
<1>17. AcceptedIsCounted'
  <2> SUFFICES ASSUME NEW q \in Request, req'[q].st = "ok",
                      NEW j \in 1..Len(Content[req'[q].batch])
               PROVE  \/ Content[req'[q].batch][j] \in rows'
                      \/ \E f \in Committed' : OccOf(f)' = Content[req'[q].batch][j]
    BY DEF AcceptedIsCounted
  <2>1. q # r /\ req'[q] = req[q]
    BY <1>3, <1>4
  <2> QED
    BY <2>1, <1>2, <1>6, <1>7, <1>8, <1>9 DEF AcceptedInv, AcceptedIsCounted
<1> QED
  BY <1>11, <1>12, <1>13, <1>14, <1>15, <1>16, <1>17 DEF AcceptedInv

(* Every step of the ingester keeps what is counted. *)
LEMMA AcceptSteps ==
    ASSUME OrderlyExporters
    PROVE  IInv /\ AcceptedInv /\ [Next]_vars => AcceptedInv'
<1> SUFFICES ASSUME IInv, AcceptedInv, [Next]_vars PROVE AcceptedInv'
  OBVIOUS
<1>1. ASSUME UNCHANGED <<req, win>>, rows \subseteq rows', UNCHANGED stopped \/ stopped' = "closing"
      PROVE  AcceptedInv'
  <2>1. NoneLeft'
    BY <1>1 DEF AcceptedInv, NoneLeft, InFlight, Counted
  <2> QED
    BY <1>1, <2>1, AcceptsLetBe
<1>2. CASE Tick
  BY <1>1, <1>2 DEF Tick, collapseVars, flushVars, storeVars
<1>3. ASSUME NEW r \in Request, NEW b \in Batch, Arrive(r, b) PROVE AcceptedInv'
  BY <1>3, ArriveAccepts
<1>4. ASSUME NEW r \in Request, PlanStep(r) PROVE AcceptedInv'
  BY <1>4, PlanAccepts
<1>5. ASSUME NEW r \in Request, WritesSucceed(r) PROVE AcceptedInv'
  BY <1>5, CommitAccepts
<1>6. ASSUME NEW r \in Request, WritesFail(r) PROVE AcceptedInv'
  BY <1>6, RollbackAccepts
<1>7. CASE FlushTimer
  BY <1>7, CollectAccepts DEF FlushTimer, storeVars
<1>8. CASE FlushAll
  BY <1>8, CollectAccepts DEF FlushAll, storeVars, OrderlyExporters
<1>9. ASSUME NEW t \in Tenant, FlushStores(t) PROVE AcceptedInv'
  <2>1. \A k \in Key : /\ win'[k].exists = win[k].exists
                       /\ win'[k].foldedIds = win[k].foldedIds
                       /\ win'[k].count = win[k].count /\ win'[k].late = win[k].late
                       /\ win'[k].flushed = win[k].flushed
    <3> TAKE k \in Key
    <3> DEFINE w == win[k]
               slot == w.holdsSlot /\ k \notin {j \in Key : win[j].holdsSlot
                            /\ \E d \in DueOf(t) : d.key = j /\ d.holdsSlot}
    <3>1. w \in WindowType /\ win'[k] = [w EXCEPT !.holdsSlot = slot]
      BY <1>9 DEF FlushStores, IInv, TypeOK
    <3> HIDE DEF w, slot
    <3>2. /\ win'[k].exists = w.exists /\ win'[k].foldedIds = w.foldedIds
          /\ win'[k].count = w.count /\ win'[k].late = w.late /\ win'[k].flushed = w.flushed
      BY <3>1 DEF WindowType
    <3> QED
      BY <3>2 DEF w
  <2>2. UNCHANGED <<req, rows, stopped>>
    BY <1>9 DEF FlushStores
  <2>3. NoneLeft'
    BY <2>1, <2>2 DEF AcceptedInv, NoneLeft, InFlight, Counted
  <2> QED
    BY <2>1, <2>2, <2>3, AcceptsLetBe
<1>10. ASSUME NEW t \in Tenant, FlushFails(t) PROVE AcceptedInv'
  BY <1>1, <1>10 DEF FlushFails
<1>11. CASE FlushEnds
  BY <1>1, <1>11 DEF FlushEnds, collapseVars, storeVars
<1>12. CASE Shutdown
  BY <1>1, <1>12 DEF Shutdown, collapseVars, storeVars
<1>13. CASE UNCHANGED vars
  BY <1>1, <1>13 DEF vars
<1> QED
  BY <1>2, <1>3, <1>4, <1>5, <1>6, <1>7, <1>8, <1>9, <1>10, <1>11, <1>12, <1>13
     DEF Next, Operating

(* The ingester starts with nothing to count. *)
LEMMA AcceptedStart == Init => AcceptedInv
<1> SUFFICES ASSUME Init PROVE AcceptedInv
  OBVIOUS
<1>1. \A r \in Request : req[r].st = "idle" /\ ~InFlight(r)
  BY IdleType DEF Init, InFlight
<1>2. \A k \in Key : win[k].foldedIds = {} /\ win[k].count = {} /\ win[k].late = {}
  BY DEF Init, NoWindow
<1>3. \A k \in Key : ReservedFolds(k) = {}
  BY <1>1 DEF ReservedFolds, Fold
<1>4. stopped # "flushed"
  BY DEF Init
<1> QED
  BY <1>1, <1>2, <1>3, <1>4
     DEF AcceptedInv, PlansSound, WindowsExist, KnownFolds, OneInFlight, NoneLeft,
         PassedCounted, AcceptedIsCounted

(* The inductive invariant behind the next two, of plan(), commit() and      *)
(* rollback() with the exporter that resends: an id taken for folded is that *)
(* of a fold that counts or still may, and what a request has passed is to   *)
(* be stored or is such a fold.                                              *)
THEOREM AcceptedInvariant == ASSUME OrderlyExporters PROVE Spec => []AcceptedInv
<1>1. Init => AcceptedInv
  BY AcceptedStart
<1>2. IInv /\ AcceptedInv /\ [Next]_vars => AcceptedInv'
  BY AcceptSteps
<1> QED
  BY <1>1, <1>2, InvariantHolds, PTL DEF Spec

(* Each occurrence of a batch answered 2xx is stored, or counted by a fold   *)
(* of an answered request, for any retries after lost answers, rollbacks,    *)
(* limits and restarts of the minute: no occurrence is dropped as a          *)
(* duplicate of a fold that was rolled back.                                 *)
THEOREM AcceptedStaysCounted == ASSUME OrderlyExporters PROVE Spec => []AcceptedIsCounted
<1>1. AcceptedInv => AcceptedIsCounted
  BY DEF AcceptedInv
<1> QED
  BY <1>1, AcceptedInvariant, PTL

(* Once stop() is done, every fold answered 2xx is stored, or its write      *)
(* failed: the flush at shutdown leaves no window and no late fold behind.   *)
THEOREM ShutdownLeavesNothing == ASSUME OrderlyExporters PROVE Spec => []ShutdownStoresAll
<1>1. IInv /\ AcceptedInv => ShutdownStoresAll
  <2> SUFFICES ASSUME IInv, AcceptedInv, stopped = "flushed", ~flushing,
                      NEW f \in Committed \ StoredFolds
               PROVE  f \in UNION {d.folds : d \in carry}
    BY DEF ShutdownStoresAll
  <2>1. writing = {} /\ Waiting = carry
    BY DEF IInv, WritingInFlush, Waiting
  <2>2. f \in Unstored
    BY DEF IInv, FoldsInv, FoldsConserved
  <2>3. \A k \in Key : Counted(k) = {} /\ win[k].late = {}
    BY DEF AcceptedInv, NoneLeft
  <2> QED
    BY <2>1, <2>2, <2>3 DEF Unstored
<1> QED
  BY <1>1, AcceptedInvariant, InvariantHolds, PTL

-----------------------------------------------------------------------------
(* What is counted is counted once.                                         *)

(* Below the limits: a fold finds a sample slot, and the budget for its id.  *)
WithinLimits(r) ==
    ~PassWithoutSlot(r) /\ (FoldIn(r) => Remembers(win[ThisKey(r)], req[r].minute))

(* Neither failed nor yet to come. *)
Lives(r) == req[r].st \in {"plan", "write", "ok"}

(* All attempts of a batch came in one minute, and none of them failed after *)
(* it stored occurrences.                                                    *)
OneMinute(b) ==
    \A q, r \in Attempts(b) : req[q].minute = req[r].minute /\ req[r].st # "partial"

LiveFolds(b) ==
    {f \in Fold : req[f[1]].batch = b /\ Lives(f[1]) /\ f[2] \in req[f[1]].folds}

(* A window past the bound of its minute: it can never come to be. *)
Shut(k) == ~win[k].exists /\ Cardinality(WindowsIn(k[2])) >= MaxWindows

IdleFree == \A r \in Request : req[r].st = "idle" => req[r].batch = None
IdsApart == \A k \in Key : win[k].kept \cap win[k].foldedIds = {}
RowsKept == \A o \in rows : \E q \in Request : req[q].st \in {"ok", "partial"} /\ o \in req[q].kept

(* The window of what a live request keeps knows it as stored ... *)
KeptStays ==
    \A b \in Batch : OneMinute(b) =>
        \A r \in Attempts(b) : Lives(r) => \A o \in req[r].kept, k \in Key :
            k = <<IdentOf[o], req[r].minute>> => o \in win[k].kept \/ Shut(k)

(* ... and what it folds as folded. *)
FoldsStay ==
    \A b \in Batch : OneMinute(b) =>
        \A f \in LiveFolds(b), k \in Key : KeyOf(f) = k => OccOf(f) \in win[k].foldedIds

(* No occurrence is folded by two attempts, or twice by one. *)
FoldedOnce ==
    \A b \in Batch : OneMinute(b) =>
        \A f, g \in LiveFolds(b) : OccOf(f) = OccOf(g) => f = g

(* A retry reserves no id that an earlier attempt stored: a rollback takes   *)
(* away none.                                                                *)
ReservedNew ==
    \A b \in Batch : OneMinute(b) =>
        \A q, r \in Attempts(b) : Lives(q) /\ InFlight(r) /\ q # r
            => req[q].kept \cap req[r].reservedIds = {}

ExactInv ==
    /\ IdleFree /\ IdsApart /\ RowsKept /\ KeptStays /\ FoldsStay /\ FoldedOnce /\ ReservedNew

(* Requests stay what they are once they came. *)
GoOn ==
    \A r \in Request : req[r].st # "idle" =>
        /\ req'[r].batch = req[r].batch /\ req'[r].minute = req[r].minute
        /\ req[r].st = "partial" => req'[r].st = "partial"

(* A batch whose attempts are in one minute was so before. *)
LEMMA OneMinuteBefore ==
    ASSUME IdleFree, GoOn, NEW b \in Batch, OneMinute(b)'
    PROVE  OneMinute(b)
<1> SUFFICES ASSUME NEW q \in Attempts(b), NEW r \in Attempts(b)
             PROVE  req[q].minute = req[r].minute /\ req[r].st # "partial"
  BY DEF OneMinute
<1>1. q \in Request /\ r \in Request /\ req[q].batch = b /\ req[r].batch = b
  BY DEF Attempts
<1>2. req[q].st # "idle" /\ req[r].st # "idle"
  BY <1>1, ConstantsAssumption DEF IdleFree
<1>3. /\ req'[q].batch = b /\ req'[r].batch = b
      /\ req'[q].minute = req[q].minute /\ req'[r].minute = req[r].minute
      /\ req[r].st = "partial" => req'[r].st = "partial"
  BY <1>1, <1>2 DEF GoOn
<1>4. q \in Attempts(b)' /\ r \in Attempts(b)'
  BY <1>1, <1>3 DEF Attempts
<1>5. req'[q].minute = req'[r].minute /\ req'[r].st # "partial"
  BY <1>4 DEF OneMinute
<1> QED
  BY <1>3, <1>5

(* A window past the bound stays so. *)
LEMMA ShutStays ==
    ASSUME NEW k \in Key, Shut(k), ~win'[k].exists,
           \A j \in Key : win[j].exists => win'[j].exists
    PROVE  Shut(k)'
<1>1. WindowsIn(k[2]) \subseteq WindowsIn(k[2])' /\ IsFiniteSet(WindowsIn(k[2])')
  BY KeyFinite, FS_Subset DEF WindowsIn
<1>2. /\ Cardinality(WindowsIn(k[2])) <= Cardinality(WindowsIn(k[2])')
      /\ Cardinality(WindowsIn(k[2])) \in Nat /\ Cardinality(WindowsIn(k[2])') \in Nat
  BY <1>1, FS_Subset, FS_CardinalityType
<1> QED
  BY <1>2, ConstantsAssumption DEF Shut

(* The windows of what a sound request keeps. *)
LEMMA KeptKeys ==
    ASSUME TypeOK, NEW r \in Request, NEW o \in req[r].kept \cup req[r].reservedIds
    PROVE  o \in Occ /\ <<IdentOf[o], req[r].minute>> \in Key
<1>1. req[r] \in ReqType
  BY DEF TypeOK
<1> QED
  BY <1>1, ConstantsAssumption DEF ReqType, Key

(* One live request keeps, folds or reserves an occurrence in one batch.     *)
LEMMA SameBatch ==
    ASSUME OrderlyExporters, NEW b \in Batch, NEW c \in Batch,
           NEW o \in IdsOf(b) \cap IdsOf(c)
    PROVE  b = c
BY DEF OrderlyExporters

(* plan() keeps counts exact below the limits: an id of an earlier attempt   *)
(* is known, so a retry stores it again or leaves it out.                    *)
LEMMA PlanExact ==
    ASSUME IInv, AcceptedInv, ExactInv, OrderlyExporters, NEW r \in Request, WithinLimits(r),
           NEW how \in {"past", "again", "known", "keep", "noslot", "fold"}, PlanIds(r, how),
           PlanEffect(r)
    PROVE  ExactInv'
<1>1. TypeOK /\ RequestsSound
  BY DEF IInv
<1>2. Planning(r)
  BY DEF PlanIds
<1>3. PICK k \in Key : k = ThisKey(r)
  BY <1>1, <1>2, PlanningTypes
<1>4. PICK o \in Occ : o = This(r)
  BY <1>1, <1>2, PlanningTypes
<1>5. PICK g \in Fold : g = <<r, req[r].pos>>
  BY <1>1, <1>2, PlanningTypes DEF Fold
<1>6. /\ req[r].st = "plan" /\ req[r].batch \in Batch /\ InFlight(r) /\ Lives(r)
      /\ o \in IdsOf(req[r].batch) /\ k = <<IdentOf[o], req[r].minute>> /\ k[2] = req[r].minute
      /\ OccOf(g) = o /\ KeyOf(g) = k /\ g[1] = r /\ g[2] = req[r].pos
  BY <1>1, <1>2, <1>3, <1>4, <1>5, PlanningTypes
     DEF This, ThisKey, IdsOf, InFlight, Lives, OccOf, KeyOf
<1>7. /\ \A q \in Request : /\ req'[q].st = req[q].st /\ (InFlight(q)' <=> InFlight(q))
                            /\ req'[q].batch = req[q].batch /\ req'[q].minute = req[q].minute
      /\ \A f \in Fold : OccOf(f)' = OccOf(f) /\ KeyOf(f)' = KeyOf(f)
  BY <1>1, PlanSets
<1>8. /\ how # "noslot"
      /\ how = "past" <=> ~CanHold(r)
      /\ how = "again" => o \in win[k].kept
      /\ how \in {"keep", "fold"} => o \notin win[k].kept \cup win[k].foldedIds
      /\ \A j \in Key \ {k} : win'[j] = win[j]
      /\ win'[k].exists = (win[k].exists \/ how # "past")
      /\ win'[k].kept = win[k].kept \cup (IF how = "keep" THEN {o} ELSE {})
      /\ win'[k].foldedIds = win[k].foldedIds \cup (IF how = "fold" THEN {o} ELSE {})
      /\ \A q \in Request \ {r} : req'[q] = req[q]
      /\ req'[r].kept = req[r].kept \cup (IF how \in {"known", "fold"} THEN {} ELSE {o})
      /\ req'[r].reservedIds = req[r].reservedIds \cup (IF how = "keep" THEN {o} ELSE {})
      /\ req'[r].folds = req[r].folds \cup (IF how = "fold" THEN {req[r].pos} ELSE {})
  BY <1>3, <1>4 DEF PlanIds, WithinLimits
<1>9. GoOn /\ rows' = rows
  BY <1>7 DEF GoOn, PlanEffect
<1>10. \A q \in Request : Lives(q)' <=> Lives(q)
  BY <1>7 DEF Lives
<1>11. \A b \in Batch : OneMinute(b)' => OneMinute(b)
  BY <1>9, OneMinuteBefore DEF ExactInv
<1>12. \A q \in Request : Lives(q) => req[q].batch \in Batch /\ req[q].kept \subseteq IdsOf(req[q].batch)
  BY <1>1 DEF Lives, TypeOK, AcceptedInv, PlansSound
<1>13. /\ \A j \in Key : /\ win[j].exists => win'[j].exists
                         /\ win[j].kept \subseteq win'[j].kept
                         /\ win[j].foldedIds \subseteq win'[j].foldedIds
  BY <1>8
<1>14. ~CanHold(r) <=> Shut(k)
  <2>1. WindowsIn(req[r].minute) \subseteq Key
    BY DEF WindowsIn
  <2>2. Cardinality(WindowsIn(req[r].minute)) \in Nat
    BY <2>1, KeyFinite, FS_Subset, FS_CardinalityType
  <2> QED
    BY <2>2, <1>3, <1>6, ConstantsAssumption DEF CanHold, Shut
<1>15. \A j \in Key : Shut(j) => Shut(j)'
  <2> SUFFICES ASSUME NEW j \in Key, Shut(j) PROVE Shut(j)'
    OBVIOUS
  <2>1. ~win'[j].exists
    BY <1>8, <1>14 DEF Shut
  <2> QED
    BY <2>1, <1>13, ShutStays
<1>16. IdleFree'
  BY <1>7 DEF ExactInv, IdleFree
<1>17. IdsApart'
  <2> SUFFICES ASSUME NEW j \in Key PROVE win'[j].kept \cap win'[j].foldedIds = {}
    BY DEF IdsApart
  <2>1. win[j].kept \cap win[j].foldedIds = {}
    BY DEF ExactInv, IdsApart
  <2>2. CASE j # k
    BY <2>1, <2>2, <1>8
  <2>3. CASE j = k /\ how = "keep"
    BY <2>1, <2>3, <1>8
  <2>4. CASE j = k /\ how = "fold"
    BY <2>1, <2>4, <1>8
  <2>5. CASE j = k /\ how \notin {"keep", "fold"}
    BY <2>1, <2>5, <1>8
  <2> QED
    BY <2>2, <2>3, <2>4, <2>5
<1>18. \A q \in Request : req[q].kept \subseteq req'[q].kept
  BY <1>8
<1>19. RowsKept'
  <2> SUFFICES ASSUME NEW id \in rows
               PROVE  \E q \in Request : req'[q].st \in {"ok", "partial"} /\ id \in req'[q].kept
    BY <1>9 DEF RowsKept
  <2>1. PICK q \in Request : req[q].st \in {"ok", "partial"} /\ id \in req[q].kept
    BY DEF ExactInv, RowsKept
  <2> QED
    BY <2>1, <1>7, <1>18
<1>20. KeptStays'
  <2> SUFFICES ASSUME NEW b \in Batch, OneMinute(b)', NEW q \in Attempts(b)', Lives(q)',
                      NEW id \in req'[q].kept, NEW j \in Key,
                      j = <<IdentOf[id], req'[q].minute>>
               PROVE  id \in win'[j].kept \/ Shut(j)'
    BY DEF KeptStays
  <2>1. /\ OneMinute(b) /\ q \in Request /\ q \in Attempts(b) /\ Lives(q)
        /\ req'[q].minute = req[q].minute
    BY <1>7, <1>10, <1>11 DEF Attempts
  <2>2. CASE id \in req[q].kept
    BY <2>1, <2>2, <1>13, <1>15 DEF ExactInv, KeptStays
  <2>3. CASE id \notin req[q].kept
    BY <2>1, <2>3, <1>6, <1>8, <1>14, <1>15
  <2> QED
    BY <2>2, <2>3
<1>21. ASSUME NEW b \in Batch, NEW f \in LiveFolds(b)'
       PROVE  f \in Fold /\ (f \in LiveFolds(b) \/ (f = g /\ how = "fold" /\ b = req[r].batch))
  <2>1. f \in Fold /\ req'[f[1]].batch = b /\ Lives(f[1])' /\ f[2] \in req'[f[1]].folds
    BY <1>21 DEF LiveFolds, Lives
  <2>2. f[1] \in Request /\ f = <<f[1], f[2]>>
    BY <2>1 DEF Fold
  <2>3. Lives(f[1]) /\ req[f[1]].batch = b
    BY <2>1, <2>2, <1>7, <1>10
  <2>4. CASE f[2] \in req[f[1]].folds
    BY <2>1, <2>3, <2>4 DEF LiveFolds
  <2>5. CASE f[2] \notin req[f[1]].folds
    BY <2>1, <2>2, <2>5, <1>8, <2>3, <1>5
  <2> QED
    BY <2>1, <2>4, <2>5
<1>22. FoldsStay'
  <2> SUFFICES ASSUME NEW b \in Batch, OneMinute(b)', NEW f \in LiveFolds(b)', NEW j \in Key,
                      KeyOf(f)' = j
               PROVE  OccOf(f)' \in win'[j].foldedIds
    BY DEF FoldsStay
  <2>1. f \in Fold /\ OccOf(f)' = OccOf(f) /\ KeyOf(f)' = KeyOf(f) /\ OneMinute(b)
    BY <1>7, <1>11, <1>21
  <2>2. CASE f \in LiveFolds(b)
    BY <2>1, <2>2, <1>13 DEF ExactInv, FoldsStay
  <2>3. CASE f = g /\ how = "fold"
    BY <2>1, <2>3, <1>6, <1>8
  <2> QED
    BY <2>2, <2>3, <1>21
<1>23. ASSUME OneMinute(req[r].batch), NEW f \in LiveFolds(req[r].batch), OccOf(f) = o,
              how = "fold"
       PROVE  FALSE
  BY <1>23, <1>6, <1>8 DEF LiveFolds, Fold, OneMinute, Attempts, KeyOf, ExactInv, FoldsStay
<1>24. FoldedOnce'
  <2> SUFFICES ASSUME NEW b \in Batch, OneMinute(b)', NEW f \in LiveFolds(b)',
                      NEW h \in LiveFolds(b)', OccOf(f)' = OccOf(h)'
               PROVE  f = h
    BY DEF FoldedOnce
  <2>1. OccOf(f) = OccOf(h) /\ OneMinute(b)
    BY <1>7, <1>11, <1>21
  <2>2. CASE f \in LiveFolds(b) /\ h \in LiveFolds(b)
    BY <2>1, <2>2 DEF ExactInv, FoldedOnce
  <2>3. CASE f = g /\ how = "fold" /\ b = req[r].batch /\ h \in LiveFolds(b)
    BY <2>1, <2>3, <1>6, <1>23
  <2>4. CASE h = g /\ how = "fold" /\ b = req[r].batch /\ f \in LiveFolds(b)
    BY <2>1, <2>4, <1>6, <1>23
  <2> QED
    BY <2>2, <2>3, <2>4, <1>21
<1>25. ReservedNew'
  <2> SUFFICES ASSUME NEW b \in Batch, OneMinute(b)', NEW p \in Attempts(b)',
                      NEW q \in Attempts(b)', Lives(p)', InFlight(q)', p # q,
                      NEW id \in req'[p].kept, id \in req'[q].reservedIds
               PROVE  FALSE
    BY DEF ReservedNew
  <2>1. /\ OneMinute(b) /\ p \in Request /\ q \in Request /\ p \in Attempts(b) /\ q \in Attempts(b)
        /\ Lives(p) /\ InFlight(q) /\ req[p].batch = b /\ req[q].batch = b
    BY <1>7, <1>10, <1>11 DEF Attempts
  <2>2. CASE p = r
    BY <2>1, <2>2, <1>6 DEF AcceptedInv, OneInFlight
  <2>3. CASE p # r /\ id \in req[q].reservedIds
    BY <2>1, <2>3, <1>8 DEF ExactInv, ReservedNew
  <2>4. CASE p # r /\ id \notin req[q].reservedIds
    BY <2>1, <2>4, <1>8, <1>6, <1>14 DEF OneMinute, ExactInv, KeptStays
  <2> QED
    BY <2>2, <2>3, <2>4
<1> QED
  BY <1>16, <1>17, <1>19, <1>20, <1>22, <1>24, <1>25 DEF ExactInv

(* Steps that plan nothing: what a live request kept and folded is still     *)
(* known to its window.                                                      *)
LEMMA ExactShrinks ==
    ASSUME TypeOK, ExactInv, GoOn, RowsKept',
           \A q \in Request : /\ req'[q].batch = req[q].batch /\ req'[q].minute = req[q].minute
                              /\ req'[q].kept = req[q].kept /\ req'[q].folds = req[q].folds
                              /\ req'[q].reservedIds = req[q].reservedIds
                              /\ req'[q].st = "idle" => req[q].st = "idle"
                              /\ InFlight(q)' => InFlight(q)
                              /\ Lives(q)' => Lives(q),
           \A k \in Key : /\ win'[k].exists = win[k].exists
                          /\ win'[k].kept \subseteq win[k].kept
                          /\ win'[k].foldedIds \subseteq win[k].foldedIds,
           \A b \in Batch : OneMinute(b) =>
              /\ \A q \in Attempts(b) : Lives(q) /\ Lives(q)' => \A o \in req[q].kept, k \in Key :
                    k = <<IdentOf[o], req[q].minute>> /\ o \in win[k].kept => o \in win'[k].kept
              /\ \A f \in LiveFolds(b), k \in Key :
                    Lives(f[1])' /\ KeyOf(f) = k /\ OccOf(f) \in win[k].foldedIds
                       => OccOf(f) \in win'[k].foldedIds
    PROVE  ExactInv'
<1>1. \A b \in Batch : (OneMinute(b)' => OneMinute(b)) /\ Attempts(b)' = Attempts(b)
  BY OneMinuteBefore DEF ExactInv, Attempts
<1>2. \A f \in Fold : OccOf(f)' = OccOf(f) /\ KeyOf(f)' = KeyOf(f) /\ f[1] \in Request
  BY DEF OccOf, KeyOf, Fold
<1>3. ASSUME NEW b \in Batch, NEW f \in LiveFolds(b)'
      PROVE  f \in LiveFolds(b) /\ Lives(f[1])' /\ f \in Fold
  BY <1>3, <1>2 DEF LiveFolds, Lives
<1>4. IdleFree' /\ IdsApart'
  BY DEF ExactInv, IdleFree, IdsApart
<1>5. KeptStays'
  <2> SUFFICES ASSUME NEW b \in Batch, OneMinute(b)', NEW q \in Attempts(b)', Lives(q)',
                      NEW o \in req'[q].kept, NEW k \in Key, k = <<IdentOf[o], req'[q].minute>>
               PROVE  o \in win'[k].kept \/ Shut(k)'
    BY DEF KeptStays
  <2>1. OneMinute(b) /\ q \in Attempts(b) /\ q \in Request
    BY <1>1 DEF Attempts
  <2>2. Lives(q) /\ o \in req[q].kept /\ k = <<IdentOf[o], req[q].minute>>
    BY <2>1
  <2>3. o \in win[k].kept \/ Shut(k)
    BY <2>1, <2>2 DEF ExactInv, KeptStays
  <2>4. Shut(k) => Shut(k)'
    BY ShutStays DEF Shut
  <2> QED
    BY <2>1, <2>2, <2>3, <2>4
<1>6. FoldsStay'
  <2> SUFFICES ASSUME NEW b \in Batch, OneMinute(b)', NEW f \in LiveFolds(b)', NEW k \in Key,
                      KeyOf(f)' = k
               PROVE  OccOf(f)' \in win'[k].foldedIds
    BY DEF FoldsStay
  <2>1. OneMinute(b) /\ f \in LiveFolds(b) /\ Lives(f[1])' /\ KeyOf(f) = k /\ OccOf(f)' = OccOf(f)
    BY <1>1, <1>2, <1>3
  <2>2. OccOf(f) \in win[k].foldedIds
    BY <2>1 DEF ExactInv, FoldsStay
  <2> QED
    BY <2>1, <2>2
<1>7. FoldedOnce'
  <2> SUFFICES ASSUME NEW b \in Batch, OneMinute(b)', NEW f \in LiveFolds(b)',
                      NEW h \in LiveFolds(b)', OccOf(f)' = OccOf(h)'
               PROVE  f = h
    BY DEF FoldedOnce
  <2>1. OneMinute(b) /\ f \in LiveFolds(b) /\ h \in LiveFolds(b) /\ OccOf(f) = OccOf(h)
    BY <1>1, <1>2, <1>3
  <2> QED
    BY <2>1 DEF ExactInv, FoldedOnce
<1>8. ReservedNew'
  <2> SUFFICES ASSUME NEW b \in Batch, OneMinute(b)', NEW p \in Attempts(b)',
                      NEW q \in Attempts(b)', Lives(p)', InFlight(q)', p # q
               PROVE  req'[p].kept \cap req'[q].reservedIds = {}
    BY DEF ReservedNew
  <2>1. /\ OneMinute(b) /\ p \in Attempts(b) /\ q \in Attempts(b)
        /\ p \in Request /\ q \in Request
    BY <1>1 DEF Attempts
  <2> QED
    BY <2>1 DEF ExactInv, ReservedNew
<1> QED
  BY <1>4, <1>5, <1>6, <1>7, <1>8 DEF ExactInv

(* Steps that leave the requests and what the windows remember. *)
LEMMA ExactLetBe ==
    ASSUME TypeOK, ExactInv, UNCHANGED <<req, rows>>,
           \A k \in Key : /\ win'[k].exists = win[k].exists /\ win'[k].kept = win[k].kept
                          /\ win'[k].foldedIds = win[k].foldedIds
    PROVE  ExactInv'
  BY ExactShrinks DEF ExactInv, GoOn, RowsKept, InFlight, Lives

(* commit() forgets nothing. *)
LEMMA CommitExact ==
    ASSUME IInv, ExactInv, NEW r \in Request, WritesSucceed(r)
    PROVE  ExactInv'
<1>1. TypeOK /\ RequestsSound
  BY DEF IInv
<1>2. Settled(r)
  BY <1>1, CommitSettles
<1>3. req[r].st = "write" /\ req'[r].st = "ok" /\ rows' = rows \cup req[r].kept
  BY <1>1 DEF WritesSucceed, TypeOK, ReqType
<1>4. \A q \in Request : /\ req'[q].batch = req[q].batch /\ req'[q].minute = req[q].minute
                         /\ req'[q].kept = req[q].kept /\ req'[q].folds = req[q].folds
                         /\ req'[q].reservedIds = req[q].reservedIds
                         /\ q # r => req'[q] = req[q]
  BY <1>2 DEF Settled
<1>5. \A q \in Request : /\ req'[q].st = "idle" => req[q].st = "idle"
                         /\ req[q].st = "partial" => req'[q].st = "partial"
                         /\ InFlight(q)' => InFlight(q)
                         /\ Lives(q)' => Lives(q)
  BY <1>3, <1>4 DEF InFlight, Lives
<1>6. GoOn
  BY <1>4, <1>5 DEF GoOn
<1>7. RowsKept'
  <2> SUFFICES ASSUME NEW o \in rows'
               PROVE  \E q \in Request : req'[q].st \in {"ok", "partial"} /\ o \in req'[q].kept
    BY DEF RowsKept
  <2>1. CASE o \in req[r].kept
    BY <2>1, <1>3, <1>4
  <2>2. CASE o \in rows
    <3>1. PICK q \in Request : req[q].st \in {"ok", "partial"} /\ o \in req[q].kept
      BY <2>2 DEF ExactInv, RowsKept
    <3> QED
      BY <3>1, <1>3, <1>4
  <2> QED
    BY <2>1, <2>2, <1>3
<1>8. \A k \in Key : /\ win'[k].exists = win[k].exists /\ win'[k].kept = win[k].kept
                     /\ win'[k].foldedIds = win[k].foldedIds
  BY <1>1, CommitFields
<1> QED
  BY <1>1, <1>4, <1>5, <1>6, <1>7, <1>8, ExactShrinks

(* rollback() takes back only what no other live attempt kept or folded. *)
LEMMA RollbackExact ==
    ASSUME IInv, AcceptedInv, ExactInv, OrderlyExporters, NEW r \in Request, WritesFail(r)
    PROVE  ExactInv'
<1>1. TypeOK /\ RequestsSound
  BY DEF IInv
<1>2. Settled(r)
  BY <1>1, RollbackSettles
<1>3. /\ req[r].st = "write" /\ req'[r].st \in {"failed", "partial"} /\ InFlight(r) /\ Lives(r)
      /\ rows' = rows \/ (rows' = rows \cup req[r].kept /\ req'[r].st = "partial")
  BY <1>1 DEF WritesFail, TypeOK, ReqType, InFlight, Lives
<1>4. \A q \in Request : /\ req'[q].batch = req[q].batch /\ req'[q].minute = req[q].minute
                         /\ req'[q].kept = req[q].kept /\ req'[q].folds = req[q].folds
                         /\ req'[q].reservedIds = req[q].reservedIds
                         /\ q # r => req'[q] = req[q]
  BY <1>2 DEF Settled
<1>5. /\ \A q \in Request : /\ req'[q].st = "idle" => req[q].st = "idle"
                            /\ req[q].st = "partial" => req'[q].st = "partial"
                            /\ InFlight(q)' => InFlight(q)
                            /\ Lives(q)' => Lives(q)
      /\ ~Lives(r)'
  BY <1>3, <1>4 DEF InFlight, Lives
<1>6. GoOn
  BY <1>4, <1>5 DEF GoOn
<1>7. RowsKept'
  <2> SUFFICES ASSUME NEW o \in rows'
               PROVE  \E q \in Request : req'[q].st \in {"ok", "partial"} /\ o \in req'[q].kept
    BY DEF RowsKept
  <2>1. CASE o \in rows
    <3>1. PICK q \in Request : req[q].st \in {"ok", "partial"} /\ o \in req[q].kept
      BY <2>1 DEF ExactInv, RowsKept
    <3> QED
      BY <3>1, <1>3, <1>4
  <2>2. CASE o \notin rows
    BY <2>2, <1>3, <1>4
  <2> QED
    BY <2>1, <2>2
<1>8. \A k \in Key : /\ win'[k].exists = win[k].exists
                     /\ win'[k].kept = win[k].kept \ MyReservedIds(r, k)
                     /\ win'[k].foldedIds = win[k].foldedIds \ {OccOf(f) : f \in MyFolds(r, k)}
  BY <1>1, RollbackFields
<1>9. req[r].batch \in Batch /\ req[r].reservedIds \subseteq IdsOf(req[r].batch)
      /\ r \in Attempts(req[r].batch)
  BY <1>1, <1>3 DEF TypeOK, AcceptedInv, PlansSound, Attempts
<1>10. ASSUME NEW b \in Batch, OneMinute(b), NEW q \in Attempts(b), Lives(q), q # r,
              NEW o \in req[q].kept, o \in req[r].reservedIds
       PROVE  FALSE
  BY <1>10, <1>9, SameBatch, <1>3 DEF Attempts, AcceptedInv, PlansSound, Lives, ExactInv, ReservedNew
<1>11. ASSUME NEW b \in Batch, OneMinute(b), NEW f \in LiveFolds(b), f[1] # r,
              NEW k \in Key, NEW h \in MyFolds(r, k), OccOf(h) = OccOf(f)
       PROVE  FALSE
  <2>1. f \in Fold /\ f[2] \in req[f[1]].folds /\ req[f[1]].batch = b
    BY DEF LiveFolds
  <2>2. h \in Fold /\ h[1] = r /\ h[2] \in req[r].folds
    BY <1>1, FoldType DEF MyFolds, FoldsOf
  <2>3. OccOf(f) \in IdsOf(b) /\ OccOf(h) \in IdsOf(req[r].batch)
    BY <1>1, <2>1, <2>2, FoldIds
  <2>4. req[r].batch = b
    BY <2>3, <1>9, <1>11, SameBatch
  <2>5. h \in LiveFolds(b)
    BY <2>2, <2>4, <1>3 DEF LiveFolds
  <2> QED
    BY <2>2, <2>5, <1>11 DEF ExactInv, FoldedOnce
<1>12. \A b \in Batch : OneMinute(b) =>
          /\ \A q \in Attempts(b) : Lives(q) /\ Lives(q)' => \A o \in req[q].kept, k \in Key :
                k = <<IdentOf[o], req[q].minute>> /\ o \in win[k].kept => o \in win'[k].kept
          /\ \A f \in LiveFolds(b), k \in Key :
                Lives(f[1])' /\ KeyOf(f) = k /\ OccOf(f) \in win[k].foldedIds
                   => OccOf(f) \in win'[k].foldedIds
  <2> SUFFICES ASSUME NEW b \in Batch, OneMinute(b)
               PROVE  /\ \A q \in Attempts(b) : Lives(q) /\ Lives(q)' =>
                            \A o \in req[q].kept, k \in Key :
                               k = <<IdentOf[o], req[q].minute>> /\ o \in win[k].kept
                                  => o \in win'[k].kept
                      /\ \A f \in LiveFolds(b), k \in Key :
                            Lives(f[1])' /\ KeyOf(f) = k /\ OccOf(f) \in win[k].foldedIds
                               => OccOf(f) \in win'[k].foldedIds
    OBVIOUS
  <2>1. ASSUME NEW q \in Attempts(b), Lives(q), Lives(q)', NEW o \in req[q].kept, NEW k \in Key,
               o \in win[k].kept
        PROVE  o \in win'[k].kept
    BY <2>1, <1>5, <1>10, <1>8 DEF MyReservedIds
  <2>2. ASSUME NEW f \in LiveFolds(b), NEW k \in Key, Lives(f[1])', OccOf(f) \in win[k].foldedIds
        PROVE  OccOf(f) \in win'[k].foldedIds
    BY <2>2, <1>5, <1>11, <1>8
  <2> QED
    BY <2>1, <2>2
<1>13. \A k \in Key : /\ win'[k].exists = win[k].exists
                      /\ win'[k].kept \subseteq win[k].kept
                      /\ win'[k].foldedIds \subseteq win[k].foldedIds
  BY <1>8
<1> QED
  BY <1>1, <1>4, <1>5, <1>6, <1>7, <1>12, <1>13, ExactShrinks

(* A request arrives with nothing kept and nothing folded. *)
LEMMA ArriveExact ==
    ASSUME IInv, ExactInv, NEW r \in Request, NEW b \in Batch, Arrive(r, b)
    PROVE  ExactInv'
<1> DEFINE p == [IdleRequest EXCEPT !.st = "plan", !.batch = b, !.minute = now]
<1>1. /\ TypeOK /\ req[r].st = "idle" /\ req' = [req EXCEPT ![r] = p]
      /\ UNCHANGED <<win, rows>>
  BY DEF IInv, Arrive, collapseVars, storeVars
<1>2. p.st = "plan" /\ p.batch = b /\ p.folds = {} /\ p.kept = {} /\ p.reservedIds = {}
  BY DEF IdleRequest
<1> HIDE DEF p
<1>3. /\ req'[r].st = "plan" /\ req'[r].batch = b /\ req'[r].folds = {}
      /\ req'[r].kept = {} /\ req'[r].reservedIds = {}
      /\ \A q \in Request \ {r} : req'[q] = req[q]
  BY <1>1, <1>2 DEF TypeOK
<1>4. GoOn
  BY <1>1, <1>3 DEF GoOn
<1>5. \A c \in Batch : OneMinute(c)' => OneMinute(c)
  BY <1>4, OneMinuteBefore DEF ExactInv
<1>6. \A c \in Batch : \A q \in Attempts(c)' :
         q \in Request /\ (q # r => q \in Attempts(c) /\ req'[q] = req[q])
  BY <1>3 DEF Attempts
<1>7. \A c \in Batch : \A f \in LiveFolds(c)' :
         f \in LiveFolds(c) /\ OccOf(f)' = OccOf(f) /\ KeyOf(f)' = KeyOf(f)
  <2> SUFFICES ASSUME NEW c \in Batch, NEW f \in LiveFolds(c)'
               PROVE  f \in LiveFolds(c) /\ OccOf(f)' = OccOf(f) /\ KeyOf(f)' = KeyOf(f)
    OBVIOUS
  <2>1. f \in Fold /\ req'[f[1]].batch = c /\ Lives(f[1])' /\ f[2] \in req'[f[1]].folds
    BY DEF LiveFolds, Lives
  <2>2. f[1] \in Request /\ f[1] # r
    BY <2>1, <1>3 DEF Fold
  <2>3. req'[f[1]] = req[f[1]]
    BY <2>2, <1>3
  <2> QED
    BY <2>1, <2>3 DEF LiveFolds, Lives, OccOf, KeyOf
<1>8. IdleFree' /\ IdsApart'
  BY <1>1, <1>3 DEF ExactInv, IdleFree, IdsApart
<1>9. RowsKept'
  <2> SUFFICES ASSUME NEW o \in rows
               PROVE  \E q \in Request : req'[q].st \in {"ok", "partial"} /\ o \in req'[q].kept
    BY <1>1 DEF RowsKept
  <2>1. PICK q \in Request : req[q].st \in {"ok", "partial"} /\ o \in req[q].kept
    BY DEF ExactInv, RowsKept
  <2> QED
    BY <2>1, <1>1, <1>3
<1>10. KeptStays'
  <2> SUFFICES ASSUME NEW c \in Batch, OneMinute(c)', NEW q \in Attempts(c)', Lives(q)',
                      NEW o \in req'[q].kept, NEW k \in Key, k = <<IdentOf[o], req'[q].minute>>
               PROVE  o \in win'[k].kept \/ Shut(k)'
    BY DEF KeptStays
  <2>1. q # r /\ q \in Attempts(c) /\ req'[q] = req[q] /\ OneMinute(c)
    BY <1>3, <1>5, <1>6
  <2>2. Lives(q) /\ (Shut(k)' <=> Shut(k))
    BY <2>1, <1>1 DEF Lives, Shut, WindowsIn
  <2> QED
    BY <2>1, <2>2, <1>1 DEF ExactInv, KeptStays
<1>11. FoldsStay'
  <2> SUFFICES ASSUME NEW c \in Batch, OneMinute(c)', NEW f \in LiveFolds(c)', NEW k \in Key,
                      KeyOf(f)' = k
               PROVE  OccOf(f)' \in win'[k].foldedIds
    BY DEF FoldsStay
  <2> QED
    BY <1>1, <1>5, <1>7 DEF ExactInv, FoldsStay
<1>12. FoldedOnce'
  <2> SUFFICES ASSUME NEW c \in Batch, OneMinute(c)', NEW f \in LiveFolds(c)',
                      NEW h \in LiveFolds(c)', OccOf(f)' = OccOf(h)'
               PROVE  f = h
    BY DEF FoldedOnce
  <2> QED
    BY <1>5, <1>7 DEF ExactInv, FoldedOnce
<1>13. ReservedNew'
  <2> SUFFICES ASSUME NEW c \in Batch, OneMinute(c)', NEW q \in Attempts(c)',
                      NEW u \in Attempts(c)', Lives(q)', InFlight(u)', q # u
               PROVE  req'[q].kept \cap req'[u].reservedIds = {}
    BY DEF ReservedNew
  <2>1. CASE q = r \/ u = r
    BY <2>1, <1>3
  <2>2. CASE q # r /\ u # r
    BY <2>2, <1>5, <1>6 DEF Lives, InFlight, ExactInv, ReservedNew
  <2> QED
    BY <2>1, <2>2
<1> QED
  BY <1>8, <1>9, <1>10, <1>11, <1>12, <1>13 DEF ExactInv

(* Every step of plan(), its return included. *)
LEMMA PlanStepExact ==
    ASSUME IInv, AcceptedInv, ExactInv, OrderlyExporters, NEW r \in Request,
           PlanStep(r), WithinLimits(r)
    PROVE  ExactInv'
<1>1. TypeOK /\ RequestsSound
  BY DEF IInv
<1>2. PlanEffect(r)
  BY <1>1, Planned
<1>3. CASE PlanReturns(r)
  <2>1. req[r].st = "plan" /\ req' = [req EXCEPT ![r].st = "write"] /\ UNCHANGED <<win, rows>>
    BY <1>2, <1>3 DEF PlanReturns, PlanEffect, collapseVars
  <2>2. /\ req'[r].st = "write" /\ req'[r].batch = req[r].batch /\ req'[r].minute = req[r].minute
        /\ req'[r].kept = req[r].kept /\ req'[r].folds = req[r].folds
        /\ req'[r].reservedIds = req[r].reservedIds
    BY <1>1, <2>1 DEF TypeOK, ReqType
  <2>3. \A q \in Request \ {r} : req'[q] = req[q]
    BY <1>1, <2>1 DEF TypeOK
  <2>4. \A q \in Request : /\ req'[q].batch = req[q].batch /\ req'[q].minute = req[q].minute
                           /\ req'[q].kept = req[q].kept /\ req'[q].folds = req[q].folds
                           /\ req'[q].reservedIds = req[q].reservedIds
                           /\ req'[q].st = "idle" => req[q].st = "idle"
                           /\ req[q].st = "partial" => req'[q].st = "partial"
                           /\ req[q].st \in {"ok", "partial"} => req'[q].st = req[q].st
                           /\ InFlight(q)' => InFlight(q)
                           /\ Lives(q)' => Lives(q)
    BY <2>1, <2>2, <2>3 DEF InFlight, Lives
  <2>5. GoOn /\ RowsKept'
    BY <2>1, <2>4 DEF GoOn, ExactInv, RowsKept
  <2> QED
    BY <1>1, <2>1, <2>4, <2>5, ExactShrinks
<1>4. ASSUME NEW how \in {"past", "again", "known", "keep", "noslot", "fold"}, PlanIds(r, how)
      PROVE  ExactInv'
  BY <1>2, <1>4, PlanExact
<1> QED
  BY <1>1, <1>3, <1>4, PlanStepIds

(* Every step of the ingester below the limits keeps the counts exact. *)
LEMMA ExactSteps ==
    ASSUME OrderlyExporters
    PROVE  IInv /\ AcceptedInv /\ ExactInv /\ [Next]_vars
              /\ [\A r \in Request : WithinLimits(r)]_vars => ExactInv'
<1> SUFFICES ASSUME IInv, AcceptedInv, ExactInv, [Next]_vars,
                    [\A r \in Request : WithinLimits(r)]_vars
             PROVE  ExactInv'
  OBVIOUS
<1>1. TypeOK
  BY DEF IInv
<1>2. ASSUME UNCHANGED <<req, rows, win>> PROVE ExactInv'
  BY <1>1, <1>2, ExactLetBe
<1>3. ASSUME NEW all \in BOOLEAN, CollectDue(all), UNCHANGED <<req, rows>> PROVE ExactInv'
  BY <1>1, <1>3, CollectFields, ExactLetBe
<1>4. CASE UNCHANGED vars
  BY <1>2, <1>4 DEF vars
<1>5. CASE Tick
  BY <1>2, <1>5 DEF Tick, collapseVars, storeVars
<1>6. ASSUME NEW r \in Request, NEW b \in Batch, Arrive(r, b) PROVE ExactInv'
  BY <1>6, ArriveExact
<1>7. ASSUME NEW r \in Request, PlanStep(r), \A q \in Request : WithinLimits(q) PROVE ExactInv'
  BY <1>7, PlanStepExact
<1>8. ASSUME NEW r \in Request, WritesSucceed(r) PROVE ExactInv'
  BY <1>8, CommitExact
<1>9. ASSUME NEW r \in Request, WritesFail(r) PROVE ExactInv'
  BY <1>9, RollbackExact
<1>10. CASE FlushTimer
  BY <1>3, <1>10 DEF FlushTimer, storeVars
<1>11. CASE FlushAll
  BY <1>3, <1>11 DEF FlushAll, storeVars
<1>12. ASSUME NEW t \in Tenant, FlushStores(t) PROVE ExactInv'
  <2>1. \A k \in Key : /\ win'[k].exists = win[k].exists /\ win'[k].kept = win[k].kept
                       /\ win'[k].foldedIds = win[k].foldedIds
    <3> TAKE k \in Key
    <3> DEFINE w == win[k]
               slot == w.holdsSlot /\ k \notin {j \in Key : win[j].holdsSlot
                            /\ \E d \in DueOf(t) : d.key = j /\ d.holdsSlot}
    <3>1. w \in WindowType /\ win'[k] = [w EXCEPT !.holdsSlot = slot]
      BY <1>1, <1>12 DEF FlushStores, TypeOK
    <3> HIDE DEF w, slot
    <3>2. /\ win'[k].exists = w.exists /\ win'[k].kept = w.kept
          /\ win'[k].foldedIds = w.foldedIds
      BY <3>1 DEF WindowType
    <3> QED
      BY <3>2 DEF w
  <2> QED
    BY <1>1, <1>12, <2>1, ExactLetBe DEF FlushStores
<1>13. ASSUME NEW t \in Tenant, FlushFails(t) PROVE ExactInv'
  BY <1>2, <1>13 DEF FlushFails
<1>14. CASE FlushEnds
  BY <1>2, <1>14 DEF FlushEnds, collapseVars, storeVars
<1>15. CASE Shutdown
  BY <1>2, <1>15 DEF Shutdown, collapseVars, storeVars
<1> QED
  BY <1>4, <1>5, <1>6, <1>7, <1>8, <1>9, <1>10, <1>11, <1>12, <1>13, <1>14, <1>15
     DEF Next, Operating

(* The ingester starts with nothing stored. *)
LEMMA ExactStart == Init => ExactInv
<1> SUFFICES ASSUME Init PROVE ExactInv
  OBVIOUS
<1>1. \A r \in Request : req[r].st = "idle" /\ req[r].batch = None
  BY DEF Init, IdleRequest
<1>2. \A k \in Key : win[k].foldedIds = {} /\ win[k].kept = {}
  BY DEF Init, NoWindow
<1>3. \A b \in Batch : Attempts(b) = {} /\ LiveFolds(b) = {}
  BY <1>1, ConstantsAssumption DEF Attempts, LiveFolds, Fold
<1>4. rows = {}
  BY DEF Init
<1> QED
  BY <1>1, <1>2, <1>3, <1>4
     DEF ExactInv, IdleFree, IdsApart, RowsKept, KeptStays, FoldsStay, FoldedOnce, ReservedNew

(* What is remembered makes the counts exact. *)
LEMMA ExactCounts ==
    ASSUME IInv, AcceptedInv, ExactInv, OrderlyExporters
    PROVE  ExactInMinute
<1>1. TypeOK /\ RequestsSound
  BY DEF IInv
<1> SUFFICES ASSUME NEW f \in Committed, OneMinute(req[f[1]].batch)
             PROVE  CountedOnce(f)
  BY DEF ExactInMinute, OneMinute
<1>2. f \in Fold /\ req[f[1]].st = "ok" /\ f[2] \in req[f[1]].folds
  BY DEF Committed
<1>3. PICK b \in Batch : b = req[f[1]].batch
  BY <1>1, <1>2, FoldIds
<1>4. f[1] \in Request /\ OccOf(f) \in IdsOf(b) /\ f \in LiveFolds(b) /\ OneMinute(b)
  BY <1>1, <1>2, <1>3, FoldIds DEF LiveFolds, Lives
<1>5. ASSUME OccOf(f) \in rows PROVE FALSE
  <2>1. PICK q \in Request : req[q].st \in {"ok", "partial"} /\ OccOf(f) \in req[q].kept
    BY <1>5 DEF ExactInv, RowsKept
  <2>2. req[q].batch \in Batch /\ OccOf(f) \in IdsOf(req[q].batch)
    BY <1>1, <2>1 DEF TypeOK, AcceptedInv, PlansSound
  <2>3. req[q].batch = b
    BY <1>4, <2>2, SameBatch
  <2>4. q \in Attempts(b) /\ f[1] \in Attempts(b)
    BY <1>3, <1>4, <2>3 DEF Attempts
  <2>5. Lives(q) /\ req[q].minute = req[f[1]].minute
    BY <1>4, <2>1, <2>4 DEF OneMinute, Lives
  <2>6. PICK k \in Key : k = KeyOf(f) /\ k = <<IdentOf[OccOf(f)], req[q].minute>>
    BY <1>1, <1>2, <2>1, <2>5, KeptKeys DEF KeyOf
  <2>7. OccOf(f) \in win[k].foldedIds
    BY <1>4, <2>6 DEF ExactInv, FoldsStay
  <2>8. OccOf(f) \in win[k].kept \/ Shut(k)
    BY <1>4, <2>1, <2>4, <2>5, <2>6 DEF ExactInv, KeptStays
  <2> QED
    BY <2>7, <2>8 DEF ExactInv, IdsApart, Shut, AcceptedInv, WindowsExist
<1>6. ASSUME NEW g \in Committed, f # g, OccOf(f) = OccOf(g) PROVE FALSE
  BY <1>1, FoldIds, <1>4, <1>6, SameBatch DEF Committed, LiveFolds, Lives, ExactInv, FoldedOnce
<1> QED
  BY <1>5, <1>6 DEF CountedOnce

(* A loop is counted exactly, however often its 2xx is lost and the exporter *)
(* resends: below the limits (every fold finds a sample slot and the budget  *)
(* for its id, which no run of plan() may then pass), no occurrence of a     *)
(* batch whose attempts fall in one minute is both stored and folded, or     *)
(* folded twice; and a shutdown leaves no answered fold unwritten.           *)
THEOREM SamplesStayExact ==
    ASSUME OrderlyExporters
    PROVE  Spec /\ [][\A r \in Request : WithinLimits(r)]_vars => []SamplesExact
<1>1. Init => ExactInv
  BY ExactStart
<1>2. IInv /\ AcceptedInv /\ ExactInv /\ [Next]_vars
         /\ [\A r \in Request : WithinLimits(r)]_vars => ExactInv'
  BY ExactSteps
<1>3. IInv /\ AcceptedInv /\ ExactInv => ExactInMinute
  BY ExactCounts
<1>4. ExactInMinute /\ ShutdownStoresAll => SamplesExact
  BY DEF SamplesExact
<1> QED
  BY <1>1, <1>2, <1>3, <1>4, InvariantHolds, AcceptedInvariant, ShutdownLeavesNothing, PTL
     DEF Spec

-----------------------------------------------------------------------------
(***************************************************************************)
(* The drop counter's accounting is exact, for any bounds, tenants and key  *)
(* hashes and any number of drops.                                          *)
(*                                                                         *)
(* DropsTypeOK is inductive.  DropsConserved and TableExact are inductive on top *)
(* of it: every step moves counts between the six places without changing   *)
(* their sum, shown row by row.  BufferBounded is inductive because a new   *)
(* row or a new hash is added only below its bound.                         *)
(***************************************************************************)

(* A sum of counts is a count of each row. *)
LEMMA PlusType ==
    ASSUME NEW f \in Counts, NEW g \in Counts
    PROVE  /\ Plus(f, g) \in Counts
           /\ \A k \in RowKey : Plus(f, g)[k] = f[k] + g[k]
  BY DEF Counts, Plus

(* No row at all. *)
LEMMA NothingType == Nothing \in Counts /\ \A k \in RowKey : Nothing[k] = 0
BY DEF Nothing, Counts

(* A drop is counted under a row key. *)
LEMMA CountedType ==
    ASSUME NEW who \in DropTenant \cup Anon, NEW hash \in Hash \cup {NoHash}
    PROVE  CountedUnder(who, hash) \in RowKey
BY DEF CountedUnder, RowKey

(* One more of a row. *)
LEMMA OneMore ==
    ASSUME NEW f \in Counts, NEW k \in RowKey
    PROVE  [f EXCEPT ![k] = @ + 1] \in Counts
<1>1. f[k] + 1 \in Nat
  BY DEF Counts
<1> QED
  BY <1>1 DEF Counts

(* The rows of the buffer are finitely many. *)
LEMMA RowKeyFinite == IsFiniteSet(RowKey)
  BY DropsConstants, FS_Union, FS_Singleton, FS_Product DEF RowKey

(* The rows of one state are finitely many. *)
LEMMA RowsInFinite ==
    ASSUME NEW f
    PROVE  IsFiniteSet(RowsIn(f)) /\ Cardinality(RowsIn(f)) \in Nat
<1>1. RowsIn(f) \in SUBSET RowKey
  BY DEF RowsIn
<1> QED
  BY <1>1, RowKeyFinite, FS_Subset, FS_CardinalityType

-----------------------------------------------------------------------------
(* The values of the variables have their types (IngestDropCounter).        *)
THEOREM DropsTypeCorrect == DropsSpec => []DropsTypeOK
<1>1. DropsInit => DropsTypeOK
  BY NothingType DEF DropsInit, DropsTypeOK
<1>2. DropsTypeOK /\ [DropsNext]_dropsVars => DropsTypeOK'
  <2> SUFFICES ASSUME DropsTypeOK, [DropsNext]_dropsVars PROVE DropsTypeOK'
    OBVIOUS
  <2> USE DEF DropsTypeOK
  <2>1. ASSUME NEW who \in DropTenant \cup Anon, NEW hash \in Hash \cup {NoHash}, Record(who, hash)
        PROVE  DropsTypeOK'
    <3> DEFINE k == CountedUnder(who, hash)
    <3>1. k \in RowKey
      BY CountedType
    <3>2. recorded' \in Counts /\ overflow' \in Counts /\ buffered' \in Counts
      BY <2>1, <3>1, OneMore DEF Record
    <3>3. HashOf(k) \subseteq Hash
      BY <3>1 DEF HashOf, RowKey
    <3>4. keyHashes' \subseteq Hash
      BY <2>1, <3>3 DEF Record
    <3> QED
      BY <2>1, <3>2, <3>4 DEF Record
  <2>2. ASSUME Flush, UNCHANGED <<overflow, recorded, written, discarded, table>>
        PROVE  /\ {buffered, overflow, dropWrite, recorded, written, discarded, table}' \subseteq Counts
               /\ keyHashes' \subseteq Hash /\ writePending' \in BOOLEAN
    BY <2>2, NothingType DEF Flush
  <2>3. CASE DropTimerFires
    BY <2>2, <2>3 DEF DropTimerFires
  <2>4. CASE WriteSucceeds
    <3>1. Plus(written, dropWrite) \in Counts /\ Plus(table, dropWrite) \in Counts
      BY PlusType
    <3>2. dropWrite' \in Counts /\ written' \in Counts /\ table' \in Counts
      BY <2>4, <3>1, NothingType DEF WriteSucceeds
    <3> QED
      BY <2>4, <3>2 DEF WriteSucceeds
  <2>5. CASE WriteFails
    <3>1. Plus(discarded, dropWrite) \in Counts /\ Plus(table, dropWrite) \in Counts
      BY PlusType
    <3>2. dropWrite' \in Counts /\ discarded' \in Counts /\ table' \in Counts
      BY <2>5, <3>1, NothingType DEF WriteFails
    <3> QED
      BY <2>5, <3>2 DEF WriteFails
  <2>6. CASE StopDrops
    BY <2>2, <2>6 DEF StopDrops
  <2>7. CASE StopReturns
    BY <2>7 DEF StopReturns
  <2>8. CASE UNCHANGED dropsVars
    BY <2>8 DEF dropsVars
  <2> QED
    BY <2>1, <2>3, <2>4, <2>5, <2>6, <2>7, <2>8 DEF DropsNext
<1> QED
  BY <1>1, <1>2, PTL DEF DropsSpec

-----------------------------------------------------------------------------
(* Row by row, every drop recorded is in exactly one of the places that     *)
(* DropsConserved sums.                                                     *)
Places(k) == buffered[k] + dropWrite[k] + written[k] + discarded[k] + overflow[k]
EachRowConserved == \A k \in RowKey : recorded[k] = Places(k)

(* The rows of a write are there only while its promise is set: flush()     *)
(* never overwrites a batch whose write     has not settled.                    *)
BatchInFlight == dropWrite # Nothing => writePending

(* The sum of the places, row by row. *)
LEMMA PlusSum ==
    ASSUME DropsTypeOK
    PROVE  DropsConserved <=> EachRowConserved
<1> DEFINE sum == Plus(buffered, Plus(dropWrite, Plus(written, Plus(discarded, overflow))))
<1>1. sum \in Counts /\ recorded \in Counts
  BY PlusType DEF DropsTypeOK
<1>2. \A k \in RowKey : sum[k] = Places(k)
  <2> TAKE k \in RowKey
  <2>1. /\ buffered[k] \in Nat /\ dropWrite[k] \in Nat /\ written[k] \in Nat
        /\ discarded[k] \in Nat /\ overflow[k] \in Nat
    BY DEF DropsTypeOK, Counts
  <2>2. sum[k] = buffered[k] + (dropWrite[k] + (written[k] + (discarded[k] + overflow[k])))
    BY PlusType DEF DropsTypeOK
  <2> QED
    BY <2>1, <2>2 DEF Places
<1>3. recorded = sum <=> \A k \in RowKey : recorded[k] = sum[k]
  BY <1>1 DEF Counts
<1> QED
  BY <1>2, <1>3 DEF DropsConserved, EachRowConserved

(* Drops are conserved whatever the interleaving of record(), flush(), its  *)
(* write and stop(): DropsConserved holds in every reachable state.         *)
THEOREM Conservation == DropsSpec => []DropsConserved
<1>1. DropsInit => EachRowConserved /\ BatchInFlight
  BY NothingType DEF DropsInit, EachRowConserved, Places, BatchInFlight
<1>2. DropsTypeOK /\ BatchInFlight /\ [DropsNext]_dropsVars => BatchInFlight'
  <2> SUFFICES ASSUME DropsTypeOK, BatchInFlight, [DropsNext]_dropsVars PROVE BatchInFlight'
    OBVIOUS
  <2> USE DEF BatchInFlight
  <2>1. CASE DropTimerFires \/ StopDrops
    BY <2>1 DEF DropTimerFires, StopDrops, Flush
  <2>2. CASE WriteSucceeds \/ WriteFails
    BY <2>2 DEF WriteSucceeds, WriteFails
  <2>3. CASE \E who \in DropTenant \cup Anon, hash \in Hash \cup {NoHash} : Record(who, hash)
    BY <2>3 DEF Record
  <2>4. CASE StopReturns \/ UNCHANGED dropsVars
    BY <2>4 DEF StopReturns, dropsVars
  <2> QED
    BY <2>1, <2>2, <2>3, <2>4 DEF DropsNext
<1>3. DropsTypeOK /\ BatchInFlight /\ EachRowConserved /\ [DropsNext]_dropsVars => EachRowConserved'
  <2> SUFFICES ASSUME DropsTypeOK, BatchInFlight, EachRowConserved, [DropsNext]_dropsVars, NEW j \in RowKey
               PROVE  recorded'[j] = Places(j)'
    BY DEF EachRowConserved
  <2>1. /\ buffered[j] \in Nat /\ dropWrite[j] \in Nat /\ written[j] \in Nat
        /\ discarded[j] \in Nat /\ overflow[j] \in Nat
        /\ Nothing[j] = 0
    BY NothingType DEF DropsTypeOK, Counts
  <2>2. recorded[j] = buffered[j] + dropWrite[j] + written[j] + discarded[j] + overflow[j]
    BY DEF EachRowConserved, Places
  <2> USE DEF Places
  <2>3. ASSUME NEW who \in DropTenant \cup Anon, NEW hash \in Hash \cup {NoHash}, Record(who, hash)
        PROVE  recorded'[j] = Places(j)'
    <3> DEFINE k == CountedUnder(who, hash)
               More(f) == [f EXCEPT ![k] = @ + 1]
    <3>1. /\ recorded' = More(recorded)
          /\ \/ buffered' = More(buffered) /\ overflow' = overflow
             \/ buffered' = buffered /\ overflow' = More(overflow)
          /\ dropWrite' = dropWrite /\ written' = written /\ discarded' = discarded
      BY <2>3 DEF Record
    <3>2. \A f \in Counts : More(f)[j] = IF j = k THEN f[j] + 1 ELSE f[j]
      BY CountedType DEF Counts
    <3>3. recorded \in Counts /\ buffered \in Counts /\ overflow \in Counts
      BY DEF DropsTypeOK
    <3> HIDE DEF More
    <3> QED
      BY <3>1, <3>2, <3>3, <2>1, <2>2
  <2>4. ASSUME Flush, UNCHANGED <<overflow, recorded, written, discarded, table>>
        PROVE  recorded'[j] = Places(j)'
    BY <2>1, <2>2, <2>4 DEF Flush, BatchInFlight
  <2>5. CASE DropTimerFires
    BY <2>4, <2>5 DEF DropTimerFires
  <2>6. CASE StopDrops
    BY <2>4, <2>6 DEF StopDrops
  <2>7. CASE WriteSucceeds
    BY PlusType, <2>1, <2>2, <2>7 DEF DropsTypeOK, WriteSucceeds
  <2>8. CASE WriteFails
    BY PlusType, <2>1, <2>2, <2>8 DEF DropsTypeOK, WriteFails
  <2>9. CASE StopReturns \/ UNCHANGED dropsVars
    BY <2>2, <2>9 DEF StopReturns, dropsVars
  <2> QED
    BY <2>3, <2>5, <2>6, <2>7, <2>8, <2>9 DEF DropsNext
<1>4. DropsTypeOK /\ EachRowConserved => DropsConserved
  BY PlusSum
<1> QED
  BY <1>1, <1>2, <1>3, <1>4, DropsTypeCorrect, PTL DEF DropsSpec

-----------------------------------------------------------------------------
(* The table agrees with what was counted as written, up to the writes that *)
(* failed: TableExact holds in every reachable state.                       *)
THEOREM TableIsExact == DropsSpec => []TableExact
<1>1. DropsInit => TableExact
  BY NothingType DEF DropsInit, TableExact
<1>2. DropsTypeOK /\ TableExact /\ [DropsNext]_dropsVars => TableExact'
  <2> SUFFICES ASSUME DropsTypeOK, TableExact, [DropsNext]_dropsVars, NEW j \in RowKey
               PROVE  written'[j] <= table'[j] /\ table'[j] <= written'[j] + discarded'[j]
    BY DEF TableExact
  <2>1. written[j] \in Nat /\ discarded[j] \in Nat /\ table[j] \in Nat /\ dropWrite[j] \in Nat
    BY DEF DropsTypeOK, Counts
  <2>2. written[j] <= table[j] /\ table[j] <= written[j] + discarded[j]
    BY DEF TableExact
  <2>3. /\ Plus(written, dropWrite)[j] = written[j] + dropWrite[j]
        /\ Plus(discarded, dropWrite)[j] = discarded[j] + dropWrite[j]
        /\ Plus(table, dropWrite)[j] = table[j] + dropWrite[j]
    BY PlusType DEF DropsTypeOK
  <2>4. CASE WriteSucceeds
    BY <2>1, <2>2, <2>3, <2>4 DEF WriteSucceeds
  <2>5. CASE WriteFails
    BY <2>1, <2>2, <2>3, <2>5 DEF WriteFails
  <2>6. CASE UNCHANGED <<written, discarded, table>>
    BY <2>2, <2>6
  <2> QED
    BY <2>4, <2>5, <2>6 DEF DropsNext, Record, DropTimerFires, StopDrops, StopReturns, dropsVars
<1> QED
  BY <1>1, <1>2, DropsTypeCorrect, PTL DEF DropsSpec

-----------------------------------------------------------------------------
(* An empty buffer has no rows. *)
LEMMA EmptyBuffer == RowsIn(Nothing) = {}
BY NothingType DEF RowsIn

(* The buffer stays within its two bounds, and the hashes counted against   *)
(* the second are exactly those of the buffered rows.                          *)
THEOREM BufferStaysBounded == DropsSpec => []BufferBounded
<1>1. DropsInit => BufferBounded
  <2>1. Cardinality({}) = 0
    BY FS_EmptySet
  <2> QED
    BY <2>1, EmptyBuffer, DropsConstants DEF DropsInit, BufferBounded
<1>2. DropsTypeOK /\ BufferBounded /\ [DropsNext]_dropsVars => BufferBounded'
  <2> SUFFICES ASSUME DropsTypeOK, BufferBounded, [DropsNext]_dropsVars PROVE BufferBounded'
    OBVIOUS
  <2>1. ASSUME NEW who \in DropTenant \cup Anon, NEW hash \in Hash \cup {NoHash},
               Record(who, hash), buffered' # buffered
        PROVE  BufferBounded'
    <3> DEFINE k == CountedUnder(who, hash)
    <3>1. /\ k \in RowKey
          /\ buffered' = [buffered EXCEPT ![k] = @ + 1]
          /\ buffered[k] = 0 => ~(Cardinality(RowsIn(buffered)) >= MaxRows)
          /\ keyHashes' = IF buffered[k] = 0 THEN keyHashes \cup HashOf(k) ELSE keyHashes
      BY <2>1, CountedType DEF Record
    <3> HIDE DEF k
    <3>2. buffered \in [RowKey -> Nat] /\ buffered[k] \in Nat
      BY <3>1 DEF DropsTypeOK, Counts
    <3>3. RowsIn(buffered') = RowsIn(buffered) \cup {k}
      BY <3>1, <3>2 DEF RowsIn
    <3>4. k \in RowsIn(buffered) <=> buffered[k] # 0
      BY <3>1, <3>2 DEF RowsIn
    <3>5. Cardinality(RowsIn(buffered')) <= MaxRows
      <4>1. IsFiniteSet(RowsIn(buffered)) /\ Cardinality(RowsIn(buffered)) \in Nat
        BY RowsInFinite
      <4>2. Cardinality(RowsIn(buffered) \cup {k}) =
                IF k \in RowsIn(buffered) THEN Cardinality(RowsIn(buffered)) ELSE Cardinality(RowsIn(buffered)) + 1
        BY <4>1, FS_AddElement
      <4>3. Cardinality(RowsIn(buffered)) <= MaxRows /\ MaxRows \in Nat
        BY DropsConstants DEF BufferBounded
      <4>4. k \notin RowsIn(buffered) => ~(Cardinality(RowsIn(buffered)) >= MaxRows)
        BY <3>1, <3>4
      <4>5. Cardinality(RowsIn(buffered) \cup {k}) <= MaxRows
        BY <4>1, <4>2, <4>3, <4>4
      <4> QED
        BY <3>3, <4>5
    <3>6. keyHashes' = {j[2] : j \in RowsIn(buffered')} \ {NoHash}
      BY <3>1, <3>3, <3>4 DEF BufferBounded, HashOf
    <3>7. Cardinality(keyHashes') <= MaxKeyHashes
      <4>1. IsFiniteSet(keyHashes) /\ Cardinality(keyHashes) \in Nat
        BY FS_Subset, FS_CardinalityType, DropsConstants DEF DropsTypeOK
      <4>2. \/ keyHashes' = keyHashes
            \/ k[2] \notin keyHashes /\ k[2] # NoHash /\ keyHashes' = keyHashes \cup {k[2]}
        BY <3>1 DEF HashOf
      <4>3. ASSUME k[2] \notin keyHashes, k[2] # NoHash
            PROVE  ~(Cardinality(keyHashes) >= MaxKeyHashes)
        BY <4>3 DEF k, CountedUnder
      <4>4. Cardinality(keyHashes) <= MaxKeyHashes /\ MaxKeyHashes \in Nat
        BY DropsConstants DEF BufferBounded
      <4>5. ASSUME k[2] \notin keyHashes
            PROVE  Cardinality(keyHashes \cup {k[2]}) = Cardinality(keyHashes) + 1
        BY <4>1, <4>5, FS_AddElement
      <4> QED
        BY <4>1, <4>2, <4>3, <4>4, <4>5
    <3> QED
      BY <3>5, <3>6, <3>7 DEF BufferBounded
  <2>2. ASSUME NEW who \in DropTenant \cup Anon, NEW hash \in Hash \cup {NoHash},
               Record(who, hash), buffered' = buffered
        PROVE  UNCHANGED <<buffered, keyHashes>>
    <3> DEFINE k == CountedUnder(who, hash)
    <3>1. k \in RowKey /\ buffered \in [RowKey -> Nat] /\ buffered[k] \in Nat
      BY CountedType DEF DropsTypeOK, Counts
    <3>2. [buffered EXCEPT ![k] = @ + 1] # buffered
      BY <3>1
    <3> QED
      BY <2>2, <3>2 DEF Record
  <2>3. CASE UNCHANGED <<buffered, keyHashes>>
    BY <2>3 DEF BufferBounded
  <2>4. CASE buffered' = Nothing /\ keyHashes' = {}
    <3>1. Cardinality({}) = 0
      BY FS_EmptySet
    <3> QED
      BY <2>4, <3>1, EmptyBuffer, DropsConstants DEF BufferBounded
  <2>5. CASE DropTimerFires \/ StopDrops
    BY <2>3, <2>4, <2>5 DEF DropTimerFires, StopDrops, Flush
  <2>6. CASE WriteSucceeds \/ WriteFails \/ StopReturns \/ UNCHANGED dropsVars
    BY <2>3, <2>6 DEF WriteSucceeds, WriteFails, StopReturns, dropsVars
  <2> QED
    BY <2>1, <2>2, <2>3, <2>5, <2>6 DEF DropsNext
<1> QED
  BY <1>1, <1>2, DropsTypeCorrect, PTL DEF DropsSpec

(* The drop counter's promise as the runs check it (ingest-drops.ts:262-516): *)
(* every drop is accounted for, the table holds what was written, and the     *)
(* buffer keeps its bounds, in every state of every run.                      *)
THEOREM DropsStayAccounted == DropsSpec => []DropsAccounted
<1>1. DropsTypeOK /\ DropsConserved /\ TableExact /\ BufferBounded => DropsAccounted
  BY DEF DropsAccounted
<1> QED
  BY <1>1, DropsTypeCorrect, Conservation, TableIsExact, BufferStaysBounded, PTL
=============================================================================
