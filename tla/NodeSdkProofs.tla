----------------------------- MODULE NodeSdkProofs -----------------------------
(***************************************************************************)
(* Proofs about the parts of the server SDKs, each on its own and then as    *)
(* parts of the instance: unhandled rejections, LLM calls, the version check, *)
(* logger patches, errors that are handled and who reports them first, the    *)
(* errors of a Next.js app, operations, start and stop, for any values of    *)
(* their constants.  RetentionProofs has the retention of traces.            *)
(***************************************************************************)
EXTENDS MCNodeSdk, RetentionProofs

-----------------------------------------------------------------------------
(***************************************************************************)
(* Unhandled rejections.                                                    *)
(***************************************************************************)
RejectionSpec == RejectionInit /\ [][RejectionNext]_rejectionVars

-----------------------------------------------------------------------------
(* What the listeners that ran so far have left: one copy decided, or none.  *)
Outside == Alone /\ mode = "throw"
CopyAt(i) == listeners[i] # App
Nothing == recorded = [c \in SdkCopy |-> FALSE] /\ occurrences = [c \in SdkCopy |-> <<>>]
RecordedBy(c) ==
    /\ recorded = [d \in SdkCopy |-> d = c /\ objectReason]
    /\ occurrences = [d \in SdkCopy |-> IF d = c THEN <<"rejection">> ELSE <<>>]

ListenersSound ==
    /\ \A i \in 1 .. Len(listeners) : CopyAt(i) => listeners[i] \in SdkCopy
    /\ mode # "strict" => \E i \in 1 .. Len(listeners) : CopyAt(i)

PendingSound ==
    rejection = "pending" =>
        turn = 1 /\ ~promiseHandled /\ ~rethrown /\ ~crashed /\ exitCode = 0 /\ Nothing
EmittedSound ==
    rejection = "emitted" =>
        /\ mode # "strict" /\ ~crashed
        /\ promiseHandled <=> \E i \in 1 .. (turn - 1) : CopyAt(i)
        /\ appThrows => \A i \in 1 .. (turn - 1) : CopyAt(i)
        /\ rethrown <=> promiseHandled /\ Outside
        /\ exitCode = 1 <=> promiseHandled /\ Alone /\ mode = "warn-with-error-code"
        /\ (~promiseHandled \/ Outside) => Nothing
        /\ promiseHandled /\ ~Outside => \E c \in SdkCopy : RecordedBy(c)

(* OneOccurrence without its count.                                          *)
OneEach ==
    /\ objectReason => \A c \in SdkCopy : Len(occurrences[c]) <= 1
    /\ \A c, d \in SdkCopy : occurrences[c] = <<"rejection">> /\ occurrences[d] = <<"rejection">> => c = d
    /\ rejection = "settled" => \E c \in SdkCopy : occurrences[c] # <<>>

RejectionInv ==
    /\ RejectionTypeOK /\ ListenersSound /\ PendingSound /\ EmittedSound /\ CrashesAsNode /\ OneEach

-----------------------------------------------------------------------------
(* An order of finitely many listeners that one copy is among has a copy in it. *)
LEMMA SomeCopyListens ==
    ASSUME NEW who \in Listens, NEW l \in SetToSeqs(who)
    PROVE  l \in Seq(SdkCopy \cup {App}) /\ \E i \in 1 .. Len(l) : l[i] # App
<1>1. IsFiniteSet(SdkCopy \cup {App})
  BY RejectionAssumption, FS_AddElement
<1>2. IsFiniteSet(who) /\ Cardinality(who) \in Nat
  BY <1>1, FS_Subset, FS_CardinalityType DEF Listens
<1>3. /\ l \in [1 .. Cardinality(who) -> who]
      /\ \A i, j \in 1 .. Cardinality(who) : i # j => l[i] # l[j]
  BY DEF SetToSeqs
<1>4. l \in Seq(SdkCopy \cup {App}) /\ Len(l) = Cardinality(who)
  BY <1>2, <1>3 DEF Listens
<1>5. PICK c \in SdkCopy : c \in who
  BY DEF Listens
<1>6. IsFiniteSet(who \ {c}) /\ Cardinality(who \ {c}) = Cardinality(who) - 1
  BY <1>2, <1>5, FS_RemoveElement
<1>7. Cardinality(who \ {c}) \in Nat
  BY <1>6, FS_CardinalityType
<1>8. CASE who = {c}
  <2>1. Cardinality(who) = 1
    BY <1>8, FS_Singleton
  <2>2. l[1] = c
    BY <2>1, <1>3, <1>8
  <2> QED
    BY <2>1, <2>2, <1>4, <1>5, RejectionAssumption
<1>9. CASE who # {c}
  <2>1. Cardinality(who \ {c}) # 0
    BY <1>6, <1>5, <1>9, FS_EmptySet
  <2>2. 1 \in 1 .. Cardinality(who) /\ 2 \in 1 .. Cardinality(who)
    BY <2>1, <1>2, <1>6, <1>7
  <2>3. l[1] # l[2]
    BY <2>2, <1>3
  <2> QED
    BY <2>2, <2>3, <1>4
<1> QED
  BY <1>8, <1>9

LEMMA RejectionStarts == RejectionInit => RejectionInv
<1> SUFFICES ASSUME RejectionInit PROVE RejectionInv
  OBVIOUS
<1> USE DEF RejectionInit
<1>1. PICK who \in Listens : listeners \in SetToSeqs(IF mode = "strict" THEN who \ SdkCopy ELSE who)
  OBVIOUS
<1>2. listeners \in Seq(SdkCopy \cup {App}) /\ ListenersSound
  <2>1. CASE mode # "strict"
    BY <1>1, <2>1, SomeCopyListens DEF ListenersSound, CopyAt
  <2>2. CASE mode = "strict"
    <3> DEFINE app == who \ SdkCopy
    <3>1. app \subseteq {App}
      BY DEF Listens
    <3>2. IsFiniteSet(app) /\ Cardinality(app) \in Nat
      BY <3>1, FS_Subset, FS_Singleton, FS_CardinalityType
    <3>3. listeners \in [1 .. Cardinality(app) -> app]
      BY <1>1, <2>2 DEF SetToSeqs
    <3>4. listeners \in Seq({App})
      BY <3>1, <3>2, <3>3
    <3>5. \A i \in 1 .. Len(listeners) : listeners[i] = App
      BY <3>4
    <3> QED
      BY <3>4, <3>5, <2>2 DEF ListenersSound, CopyAt
  <2> QED
    BY <2>1, <2>2
<1>3. RejectionTypeOK
  <2>1. occurrences \in [SdkCopy -> Seq({"rejection", "crash"})] /\ recorded \in [SdkCopy -> BOOLEAN]
    OBVIOUS
  <2>2. Len(listeners) \in Nat
    BY <1>2
  <2>3. turn \in 1..(Len(listeners) + 1)
    BY <2>2
  <2> QED
    BY <1>2, <2>1, <2>3 DEF RejectionTypeOK
<1>4. PendingSound /\ EmittedSound /\ CrashesAsNode
  BY DEF PendingSound, EmittedSound, CrashesAsNode, Nothing
<1>5. OneEach
  BY DEF OneEach
<1> QED
  BY <1>2, <1>3, <1>4, <1>5 DEF RejectionInv

LEMMA Words ==
    /\ Append(<<>>, "crash") = <<"crash">> /\ Append(<<>>, "rejection") = <<"rejection">>
    /\ Len(<<"crash">>) = 1 /\ Len(<<"rejection">>) = 1 /\ Len(<<>>) = 0
    /\ Len(<<"crash">>) <= 1 /\ Len(<<"rejection">>) <= 1 /\ Len(<<>>) <= 1
    /\ <<"crash">>[1] = "crash" /\ <<"rejection">>[1] = "rejection"
  OBVIOUS
LEMMA WordsDiffer ==
    /\ <<"crash">> # <<>> /\ <<"rejection">> # <<>> /\ <<"crash">> # <<"rejection">>
  BY Words

(* A crash is seen by every copy that did not just record the rejection.     *)
LEMMA CrashSeen ==
    ASSUME RejectionInv, Crashes, rejection # "settled", UNCHANGED objectReason
    PROVE  OneEach'
<1>0. occurrences' = [c \in SdkCopy |-> IF recorded[c] THEN occurrences[c] ELSE Append(occurrences[c], "crash")]
  BY DEF Crashes, MonitorsSee
<1>1. occurrences \in [SdkCopy -> Seq({"rejection", "crash"})] /\ rejection \in {"pending", "emitted"}
  BY DEF RejectionInv, RejectionTypeOK
<1>2. CASE Nothing
  <2>1. \A c \in SdkCopy : occurrences'[c] = <<"crash">>
    BY <1>0, <1>2, Words DEF Nothing
  <2> QED
    BY <2>1, Words, WordsDiffer, RejectionAssumption DEF OneEach
<1>3. ASSUME NEW c \in SdkCopy, RecordedBy(c)
      PROVE  OneEach'
  <2>1. \A d \in SdkCopy \ {c} : occurrences'[d] = <<"crash">>
    BY <1>0, <1>3, Words DEF RecordedBy
  <2>2. IF objectReason THEN occurrences'[c] = <<"rejection">> ELSE Len(occurrences'[c]) = 2
    <3>1. CASE objectReason
      BY <1>0, <1>3, <3>1 DEF RecordedBy
    <3>2. CASE ~objectReason
      <4>1. occurrences[c] = <<"rejection">> /\ occurrences'[c] = Append(occurrences[c], "crash")
        BY <1>0, <1>3, <3>2 DEF RecordedBy
      <4>2. Len(occurrences[c]) = 1
        BY <4>1, Words
      <4> QED
        BY <4>1, <4>2, <1>1, <3>2
    <3> QED
      BY <3>1, <3>2
  <2>3. CASE objectReason'
    <3>1. objectReason' => \A d \in SdkCopy : Len(occurrences'[d]) <= 1
      BY <2>1, <2>2, <2>3, Words
    <3>2. \A d \in SdkCopy : occurrences'[d] = <<"rejection">> => d = c
      BY <2>1, WordsDiffer
    <3>3. occurrences'[c] # <<>>
      BY <2>2, <2>3, WordsDiffer
    <3> QED
      BY <3>1, <3>2, <3>3 DEF OneEach
  <2>4. CASE ~objectReason'
    BY <2>1, <2>2, <2>4, Words, WordsDiffer DEF OneEach
  <2> QED
    BY <2>3, <2>4
<1>4. Nothing \/ \E c \in SdkCopy : RecordedBy(c)
  BY <1>1 DEF RejectionInv, PendingSound, EmittedSound
<1> QED
  BY <1>2, <1>3, <1>4

LEMMA EmitsKeeps == RejectionInv /\ Emits => RejectionInv'
<1> SUFFICES ASSUME RejectionInv, Emits PROVE RejectionInv'
  OBVIOUS
<1> USE DEF Emits
<1>1. RejectionTypeOK /\ ListenersSound /\ PendingSound
  BY DEF RejectionInv
<1>2. CASE mode = "strict"
  <2>1. Crashes /\ UNCHANGED exitCode
    BY <1>2
  <2>2. OneEach'
    BY <2>1, CrashSeen
  <2>3. RejectionTypeOK'
    BY <2>1, <1>1 DEF Crashes, MonitorsSee, RejectionTypeOK
  <2>4. ListenersSound'
    BY <1>1 DEF ListenersSound, CopyAt
  <2>5. CrashesAsNode'
    BY <2>1, <1>1, <1>2 DEF CrashesAsNode, Crashes, PendingSound, AppListening
  <2>6. PendingSound' /\ EmittedSound'
    BY <2>1 DEF PendingSound, EmittedSound, Crashes
  <2> QED
    BY <2>2, <2>3, <2>4, <2>5, <2>6 DEF RejectionInv
<1>3. CASE mode # "strict"
  <2>1. rejection' = "emitted" /\ UNCHANGED <<crashed, exitCode, occurrences>>
    BY <1>3
  <2>2. RejectionTypeOK'
    BY <2>1, <1>1 DEF RejectionTypeOK
  <2>3. ListenersSound'
    BY <1>1 DEF ListenersSound, CopyAt
  <2>4. EmittedSound'
    BY <2>1, <1>1, <1>3 DEF EmittedSound, PendingSound, Nothing, CopyAt
  <2>5. PendingSound' /\ CrashesAsNode'
    BY <2>1 DEF PendingSound, CrashesAsNode
  <2>6. OneEach'
    BY <2>1, <1>1, Words, WordsDiffer DEF PendingSound, Nothing, OneEach
  <2> QED
    BY <2>2, <2>3, <2>4, <2>5, <2>6 DEF RejectionInv
<1> QED
  BY <1>2, <1>3

LEMMA CopyListensKeeps ==
    ASSUME RejectionInv, NEW c \in SdkCopy, CopyListens(c)
    PROVE  RejectionInv'
<1> USE DEF CopyListens
<1>1. RejectionTypeOK /\ ListenersSound /\ EmittedSound /\ OneEach
  BY DEF RejectionInv
<1>2. /\ mode # "strict" /\ ~crashed /\ turn \in 1 .. Len(listeners) /\ CopyAt(turn) /\ turn' = turn + 1
      /\ Len(listeners) \in Nat /\ rejection' = "emitted" /\ promiseHandled'
      /\ UNCHANGED <<mode, appThrows, objectReason, listeners, crashed>>
  BY <1>1 DEF RejectionTypeOK, EmittedSound, CopyAt
<1>3. 1 .. (turn' - 1) = (1 .. (turn - 1)) \cup {turn}
  BY <1>2
<1>4. ListenersSound' /\ PendingSound' /\ CrashesAsNode'
  BY <1>1, <1>2 DEF ListenersSound, CopyAt, PendingSound, CrashesAsNode
<1>5. (\E i \in 1 .. (turn' - 1) : CopyAt(i)') /\ (appThrows' => \A i \in 1 .. (turn' - 1) : CopyAt(i)')
  BY <1>1, <1>2, <1>3 DEF EmittedSound, CopyAt
<1>6. CASE promiseHandled \/ Outside
  <2>1. /\ UNCHANGED <<recorded, exitCode, occurrences>>
        /\ rethrown' <=> Outside
    BY <1>1, <1>6 DEF EmittedSound, Outside
  <2>2. RejectionTypeOK'
    <3>1. rethrown' \in BOOLEAN
      BY <2>1, <1>1, <1>6 DEF RejectionTypeOK, Outside
    <3>2. turn' \in 1 .. (Len(listeners) + 1)
      BY <1>2
    <3> QED
      BY <3>1, <3>2, <2>1, <1>1, <1>2 DEF RejectionTypeOK
  <2>3. EmittedSound'
    BY <1>2, <2>1, <1>1, <1>6, <1>5 DEF Outside, Alone, Nothing, RecordedBy, EmittedSound
  <2>4. OneEach'
    BY <2>1, <1>1, <1>2 DEF OneEach
  <2> QED
    BY <2>2, <2>3, <2>4, <1>4 DEF RejectionInv
<1>7. CASE ~promiseHandled /\ ~Outside
  <2>1. /\ exitCode' = IF Alone /\ mode = "warn-with-error-code" THEN 1 ELSE exitCode
        /\ recorded' = [recorded EXCEPT ![c] = objectReason]
        /\ occurrences' = [occurrences EXCEPT ![c] = Append(@, "rejection")]
        /\ UNCHANGED rethrown
    BY <1>7 DEF Outside, MarkRecorded, Captured
  <2>2. Nothing /\ ~rethrown /\ exitCode # 1
    BY <1>1, <1>7 DEF EmittedSound
  <2>3. RecordedBy(c)'
    <3>1. \A d \in SdkCopy : recorded[d] = FALSE /\ occurrences[d] = <<>>
      BY <2>2 DEF Nothing
    <3>2. recorded' = [d \in SdkCopy |-> d = c /\ objectReason]
      BY <2>1, <3>1, <1>1 DEF RejectionTypeOK
    <3>3. occurrences' = [d \in SdkCopy |-> IF d = c THEN <<"rejection">> ELSE <<>>]
      BY <2>1, <3>1, <1>1, Words DEF RejectionTypeOK
    <3> QED
      BY <3>2, <3>3, <1>2 DEF RecordedBy
  <2>4. RejectionTypeOK'
    BY <2>1, <1>1, <1>2 DEF RejectionTypeOK
  <2>5. EmittedSound'
    BY <1>2, <2>1, <2>2, <2>3, <1>5, <1>7 DEF Outside, Alone, EmittedSound
  <2>6. OneEach'
    BY <2>3, Words, WordsDiffer, <1>2 DEF RecordedBy, OneEach
  <2> QED
    BY <1>4, <2>4, <2>5, <2>6 DEF RejectionInv
<1> QED
  BY <1>6, <1>7

LEMMA AppListensKeeps == RejectionInv /\ AppListens => RejectionInv'
<1> SUFFICES ASSUME RejectionInv, AppListens PROVE RejectionInv'
  OBVIOUS
<1> USE DEF AppListens
<1>1. RejectionTypeOK /\ ListenersSound /\ EmittedSound /\ OneEach
  BY DEF RejectionInv
<1>2. /\ mode # "strict" /\ ~crashed /\ turn \in 1 .. Len(listeners) /\ listeners[turn] = App
      /\ Len(listeners) \in Nat /\ rejection = "emitted" /\ ~Alone /\ ~Outside /\ ~rethrown
      /\ UNCHANGED <<mode, appThrows, objectReason, listeners, promiseHandled, rethrown, recorded, exitCode>>
  BY <1>1 DEF RejectionTypeOK, EmittedSound, Alone, Outside, ToSet
<1>3. ListenersSound' /\ PendingSound'
  BY <1>1, <1>2 DEF ListenersSound, CopyAt, PendingSound, Crashes
<1>4. CASE appThrows
  <2>1. Crashes /\ UNCHANGED turn
    BY <1>4
  <2>2. OneEach'
    BY <2>1, <1>2, CrashSeen
  <2>3. RejectionTypeOK'
    BY <2>1, <1>1, <1>2 DEF Crashes, MonitorsSee, RejectionTypeOK
  <2>4. CrashesAsNode'
    BY <2>1, <1>1, <1>2, <1>4 DEF CrashesAsNode, AppListening, Alone, EmittedSound, Crashes
  <2>5. EmittedSound'
    BY <2>1 DEF EmittedSound, Crashes
  <2> QED
    BY <1>3, <2>2, <2>3, <2>4, <2>5 DEF RejectionInv
<1>5. CASE ~appThrows
  <2>1. turn' = turn + 1 /\ UNCHANGED <<crashed, rejection, occurrences>>
    BY <1>5
  <2>2. 1 .. (turn' - 1) = (1 .. (turn - 1)) \cup {turn}
    BY <1>2, <2>1
  <2>3. EmittedSound'
    BY <1>2, <2>1, <2>2, <1>1, <1>5 DEF Outside, Alone, Nothing, RecordedBy, CopyAt, EmittedSound
  <2>4. RejectionTypeOK' /\ CrashesAsNode' /\ OneEach'
    BY <2>1, <1>1, <1>2 DEF RejectionTypeOK, CrashesAsNode, OneEach
  <2> QED
    BY <1>3, <2>3, <2>4 DEF RejectionInv
<1> QED
  BY <1>4, <1>5

LEMMA NextTickKeeps == RejectionInv /\ NextTick => RejectionInv'
<1> SUFFICES ASSUME RejectionInv, NextTick PROVE RejectionInv'
  OBVIOUS
<1> USE DEF NextTick
<1>1. RejectionTypeOK /\ ListenersSound /\ EmittedSound /\ OneEach
  BY DEF RejectionInv
<1>2. /\ mode # "strict" /\ ~crashed /\ turn > Len(listeners) /\ Len(listeners) \in Nat /\ turn \in Nat
      /\ rejection = "emitted" /\ rejection' = "settled"
      /\ UNCHANGED <<mode, appThrows, objectReason, listeners, turn, promiseHandled, rethrown, recorded, exitCode>>
  BY <1>1 DEF RejectionTypeOK, EmittedSound, Crashes
<1>3. ListenersSound' /\ PendingSound' /\ EmittedSound'
  BY <1>1, <1>2 DEF ListenersSound, CopyAt, PendingSound, EmittedSound
<1>4. 1 .. Len(listeners) \subseteq 1 .. (turn - 1)
  BY <1>2
<1>5. promiseHandled
  BY <1>1, <1>2, <1>4 DEF ListenersSound, EmittedSound
<1>6. AppListening /\ appThrows => FALSE
  BY <1>1, <1>2, <1>4 DEF EmittedSound, CopyAt, RejectionTypeOK, AppListening, ToSet
<1>7. CrashesAsNode'
  BY <1>2, <1>1, <1>5, <1>6 DEF Crashes, RejectionTypeOK, AppListening, Alone, CrashesAsNode,
     EmittedSound, Outside
<1>8. CASE rethrown
  <2>1. Crashes
    BY <1>8
  <2>2. OneEach'
    BY <2>1, <1>2, CrashSeen
  <2>3. RejectionTypeOK'
    BY <2>1, <1>1, <1>2 DEF Crashes, MonitorsSee, RejectionTypeOK
  <2> QED
    BY <1>3, <1>7, <2>2, <2>3 DEF RejectionInv
<1>9. CASE ~rethrown
  <2>1. UNCHANGED <<crashed, occurrences>>
    BY <1>9
  <2>2. PICK c \in SdkCopy : RecordedBy(c)
    BY <1>1, <1>2, <1>5, <1>9 DEF EmittedSound
  <2>3. occurrences'[c] # <<>>
    BY <2>1, <2>2, WordsDiffer DEF RecordedBy
  <2>4. OneEach'
    BY <2>1, <2>3, <1>1, <1>2 DEF OneEach
  <2>5. RejectionTypeOK'
    BY <2>1, <1>1, <1>2 DEF RejectionTypeOK
  <2> QED
    BY <1>3, <1>7, <2>4, <2>5 DEF RejectionInv
<1> QED
  BY <1>8, <1>9

LEMMA NextTurnKeeps == RejectionInv /\ NextTurn => RejectionInv'
<1> SUFFICES ASSUME RejectionInv, NextTurn PROVE RejectionInv'
  OBVIOUS
<1> USE DEF NextTurn, RejectionInv
<1>1. RejectionTypeOK' /\ ListenersSound' /\ PendingSound' /\ EmittedSound'
  BY DEF RejectionTypeOK, ListenersSound, CopyAt, PendingSound, EmittedSound
<1>2. CrashesAsNode' /\ OneEach'
  BY DEF CrashesAsNode, AppListening, OneEach
<1> QED
  BY <1>1, <1>2

(* The invariant of unhandled rejections (unhandled.ts). *)
THEOREM RejectionInvariant == RejectionSpec => []RejectionInv
<1>1. RejectionInit => RejectionInv
  BY RejectionStarts
<1>2. RejectionInv /\ [RejectionNext]_rejectionVars => RejectionInv'
  <2>1. ASSUME RejectionInv, RejectionNext PROVE RejectionInv'
    BY <2>1, EmitsKeeps, CopyListensKeeps, AppListensKeeps, NextTickKeeps, NextTurnKeeps DEF RejectionNext
  <2>2. ASSUME RejectionInv, UNCHANGED rejectionVars PROVE RejectionInv'
    <3> USE <2>2 DEF rejectionVars, RejectionInv
    <3>1. RejectionTypeOK' /\ ListenersSound' /\ PendingSound'
      BY DEF RejectionTypeOK, ListenersSound, CopyAt, PendingSound, Nothing
    <3>2. EmittedSound'
      BY DEF EmittedSound, CopyAt, Outside, Alone, Nothing, RecordedBy
    <3>3. CrashesAsNode' /\ OneEach'
      BY DEF CrashesAsNode, AppListening, OneEach
    <3> QED
      BY <3>1, <3>2, <3>3
  <2> QED
    BY <2>1, <2>2
<1> QED
  BY <1>1, <1>2, PTL DEF RejectionSpec

LEMMA RejectionHolds == RejectionInv => CrashesAsNode /\ OneOccurrence
<1> SUFFICES ASSUME RejectionInv PROVE OneOccurrence
  BY DEF RejectionInv
<1> DEFINE those == {c \in SdkCopy : occurrences[c] = <<"rejection">>}
<1>1. OneEach
  BY DEF RejectionInv
<1>2. IsFiniteSet(those) /\ Cardinality(those) \in Nat
  BY RejectionAssumption, FS_Subset, FS_CardinalityType
<1>3. Cardinality(those) <= 1
  <2>1. CASE those = {}
    BY <2>1, FS_EmptySet, <1>2
  <2>2. ASSUME NEW c \in those PROVE Cardinality(those) <= 1
    <3>1. those = {c}
      BY <1>1, <2>2 DEF OneEach
    <3>2. Cardinality(those) = 1
      BY <3>1, FS_Singleton
    <3> QED
      BY <3>2, <1>2
  <2> QED
    BY <2>1, <2>2
<1> QED
  BY <1>1, <1>3 DEF OneEach, OneOccurrence

-----------------------------------------------------------------------------
(***************************************************************************)
(* LLM calls.                                                               *)
(***************************************************************************)
LlmSpec == LlmInit /\ [][LlmNext]_llmVars

Usage == [in : Nat, out : Nat]
CallStates == {"none", "asked", "failed", "stream", "wrapped", "settled", "over"}
LlmTypes ==
    /\ call \in [LlmCall -> CallStates]
    /\ llmSpan \in [LlmCall -> [open : BOOLEAN, in : Nat, out : Nat]] /\ seen \in [LlmCall -> Usage]
    /\ streamEnded \in [LlmCall -> BOOLEAN] /\ reading \in [LlmCall -> 0 .. 2]
    /\ reads \in [LlmCall -> Nat] /\ spanEnds \in [LlmCall -> Nat] /\ rolled \in [LlmCall -> Seq(Usage)]
    /\ rollup \in [calls : Nat, in : Nat, out : Nat] /\ sealed \in BOOLEAN

(* What a span says before its call is over, and who may still end it.       *)
LlmCallSound(c) ==
    /\ UsageOnce(c)
    /\ (streamEnded[c] \/ reading[c] > 0) => call[c] = "stream"
    /\ call[c] = "none" => seen[c].in = 0 /\ seen[c].out = 0
    /\ call[c] \in {"none", "asked", "stream"} /\ ~streamEnded[c] => llmSpan[c].in = 0 /\ llmSpan[c].out = 0
    /\ call[c] = "wrapped" =>
          llmSpan[c].open /\ llmSpan[c].in = seen[c].in /\ llmSpan[c].out = seen[c].out

(* The totals, and what each call adds to them.                              *)
AddsOf(r, field) == [c \in LlmCall |-> IF r[c] = <<>> THEN 0 ELSE Head(r[c])[field]]
Adds(field) == AddsOf(rolled, field)
RolledUp == {c \in LlmCall : rolled[c] # <<>>}
TotalsSound ==
    /\ ~sealed => rollup = [calls |-> Cardinality(RolledUp),
                            in |-> SetSum(Adds("in"), LlmCall), out |-> SetSum(Adds("out"), LlmCall)]
    /\ rollup.calls <= Cardinality(LlmCall)

LlmInv == LlmTypes /\ (\A c \in LlmCall : LlmCallSound(c)) /\ TotalsSound

-----------------------------------------------------------------------------
LEMMA SumRolledIsSum ==
    SumRolled("in") = SetSum(Adds("in"), LlmCall) /\ SumRolled("out") = SetSum(Adds("out"), LlmCall)
<1>1. SumRolled("in") = SetSum(Adds("in"), LlmCall)
  BY DEF SumRolled, MapThenSumSet, MapThenFoldSet, SetSum, SetSums, SumStep, AnyOf, Adds, AddsOf
<1>2. SumRolled("out") = SetSum(Adds("out"), LlmCall)
  BY DEF SumRolled, MapThenSumSet, MapThenFoldSet, SetSum, SetSums, SumStep, AnyOf, Adds, AddsOf
<1> QED
  BY <1>1, <1>2

LEMMA AddsTypes ==
    ASSUME NEW r \in [LlmCall -> Seq(Usage)]
    PROVE  AddsOf(r, "in") \in [LlmCall -> Int] /\ AddsOf(r, "out") \in [LlmCall -> Int]
<1>1. ASSUME NEW c \in LlmCall, r[c] # <<>> PROVE Head(r[c]) \in Usage
  BY <1>1
<1>2. ASSUME NEW c \in LlmCall, r[c] # <<>> PROVE Head(r[c]).in \in Int /\ Head(r[c]).out \in Int
  BY <1>1, <1>2 DEF Usage
<1>3. ASSUME NEW c \in LlmCall
      PROVE  /\ (IF r[c] = <<>> THEN 0 ELSE Head(r[c])["in"]) \in Int
             /\ (IF r[c] = <<>> THEN 0 ELSE Head(r[c])["out"]) \in Int
  BY <1>2
<1> QED
  BY <1>3 DEF AddsOf

(* The sum of one field when one more call has rolled up.                    *)
LEMMA OneMoreAdds ==
    ASSUME NEW r \in [LlmCall -> Seq(Usage)], NEW p \in [LlmCall -> Seq(Usage)], NEW c \in LlmCall,
           NEW usage \in Usage, r[c] = <<>>, p[c] # <<>>, Head(p[c]) = usage,
           \A d \in LlmCall \ {c} : p[d] = r[d], NEW field \in {"in", "out"}
    PROVE  /\ SetSum(AddsOf(r, field), LlmCall) \in Int
           /\ SetSum(AddsOf(p, field), LlmCall) = SetSum(AddsOf(r, field), LlmCall) + usage[field]
<1> DEFINE before == AddsOf(r, field)
           after == AddsOf(p, field)
<1>1. before \in [LlmCall -> Int] /\ after \in [LlmCall -> Int] /\ IsFiniteSet(LlmCall)
  BY AddsTypes, LlmAssumption
<1>2. before[c] = 0 /\ after[c] = usage[field] /\ \A d \in LlmCall \ {c} : after[d] = before[d]
  BY DEF AddsOf
<1>3. usage[field] \in Int
  BY DEF Usage
<1> HIDE DEF before, after
<1>4. SetSum(before, LlmCall) \in Int
  BY <1>1, SetSumType
<1>5. SetSum(after, LlmCall) = SetSum(before, LlmCall) + after[c] - before[c]
  <2>1. \A x \in LlmCall \ {c} : after[x] = before[x]
    BY <1>2
  <2>2. c \in LlmCall
    OBVIOUS
  <2> QED
    BY ONLY <1>1, <2>1, <2>2, SetSumUpdate
<1>6. SetSum(after, LlmCall) = SetSum(before, LlmCall) + usage[field]
  BY <1>2, <1>3, <1>4, <1>5
<1> QED
  BY <1>4, <1>6 DEF before, after

(* A call that rolls up for the first time adds its usage to the totals.     *)
LEMMA RollUpAdds ==
    ASSUME LlmInv, NEW c \in LlmCall, rolled[c] = <<>>, NEW usage \in Usage, RollUp(c, usage), UNCHANGED sealed
    PROVE  TotalsSound'
<1>1. /\ rolled \in [LlmCall -> Seq(Usage)] /\ rolled' = [rolled EXCEPT ![c] = Append(@, usage)]
      /\ IsFiniteSet(LlmCall) /\ TotalsSound
      /\ rollup \in [calls : Nat, in : Nat, out : Nat]
  BY LlmAssumption DEF LlmInv, LlmTypes, RollUp
<1>2. /\ rolled'[c] # <<>> /\ Head(rolled'[c]) = usage /\ \A d \in LlmCall \ {c} : rolled'[d] = rolled[d]
      /\ rolled' \in [LlmCall -> Seq(Usage)]
  BY <1>1
<1>3. \A field \in {"in", "out"} : SetSum(AddsOf(rolled', field), LlmCall) = SetSum(AddsOf(rolled, field), LlmCall) + usage[field]
  <2>1. ASSUME NEW field \in {"in", "out"}
        PROVE  SetSum(AddsOf(rolled', field), LlmCall) = SetSum(AddsOf(rolled, field), LlmCall) + usage[field]
    <3> DEFINE r == rolled
               p == rolled'
    <3>1. /\ r \in [LlmCall -> Seq(Usage)] /\ p \in [LlmCall -> Seq(Usage)] /\ c \in LlmCall /\ usage \in Usage
          /\ r[c] = <<>> /\ p[c] # <<>> /\ Head(p[c]) = usage /\ \A d \in LlmCall \ {c} : p[d] = r[d]
      BY <1>1, <1>2
    <3> HIDE DEF r, p
    <3>2. SetSum(AddsOf(p, field), LlmCall) = SetSum(AddsOf(r, field), LlmCall) + usage[field]
      BY ONLY <3>1, <2>1, OneMoreAdds
    <3> QED
      BY <3>2 DEF r, p
  <2> QED
    BY <2>1
<1>4. SetSum(Adds("in")', LlmCall) = SetSum(Adds("in"), LlmCall) + usage.in
  BY <1>3 DEF Adds
<1>5. SetSum(Adds("out")', LlmCall) = SetSum(Adds("out"), LlmCall) + usage.out
  BY <1>3 DEF Adds
<1>6. /\ Cardinality(RolledUp') = Cardinality(RolledUp) + 1
      /\ Cardinality(RolledUp') <= Cardinality(LlmCall)
  <2>1. RolledUp' = RolledUp \cup {c} /\ c \notin RolledUp
    BY <1>1, <1>2 DEF RolledUp
  <2>2. IsFiniteSet(RolledUp) /\ RolledUp' \in SUBSET LlmCall
    BY <1>1, FS_Subset DEF RolledUp
  <2> QED
    BY <1>1, <2>1, <2>2, FS_AddElement, FS_Subset
<1>7. CASE sealed
  BY <1>1, <1>7 DEF TotalsSound, RollUp
<1>8. CASE ~sealed
  BY <1>8, <1>1, <1>4, <1>5, <1>6 DEF RollUp, TotalsSound
<1> QED
  BY <1>7, <1>8

LEMMA LlmStarts == LlmInit => LlmInv
<1> SUFFICES ASSUME LlmInit PROVE LlmInv
  OBVIOUS
<1> USE DEF LlmInit
<1>1. LlmTypes
  <2>1. /\ call \in [LlmCall -> CallStates] /\ seen \in [LlmCall -> Usage] /\ reading \in [LlmCall -> 0 .. 2]
        /\ streamEnded \in [LlmCall -> BOOLEAN] /\ sealed \in BOOLEAN
    <3>1. call \in [LlmCall -> CallStates]
      BY DEF CallStates
    <3>2. NoUsage \in Usage
      BY DEF NoUsage, Usage
    <3>3. seen \in [LlmCall -> Usage] /\ reading \in [LlmCall -> 0 .. 2]
      BY <3>2
    <3> QED
      BY <3>1, <3>3
  <2>2. llmSpan \in [LlmCall -> [open : BOOLEAN, in : Nat, out : Nat]]
    BY DEF OpenSpan
  <2>3. reads \in [LlmCall -> Nat] /\ spanEnds \in [LlmCall -> Nat] /\ rolled \in [LlmCall -> Seq(Usage)]
    OBVIOUS
  <2>4. rollup \in [calls : Nat, in : Nat, out : Nat]
    OBVIOUS
  <2> QED
    BY <2>1, <2>2, <2>3, <2>4 DEF LlmTypes
<1>2. ASSUME NEW c \in LlmCall PROVE LlmCallSound(c)
  BY DEF OpenSpan, NoUsage, LlmCallSound, UsageOnce, Over
<1>3. TotalsSound
  <2>1. RolledUp = {} /\ rolled \in [LlmCall -> Seq(Usage)]
    BY DEF RolledUp
  <2>2. \A c \in LlmCall : Adds("in")[c] = 0 /\ Adds("out")[c] = 0
    BY DEF Adds, AddsOf
  <2>3. Adds("in") \in [LlmCall -> Int] /\ Adds("out") \in [LlmCall -> Int]
    BY <2>1, AddsTypes DEF Adds
  <2>4. SetSum(Adds("in"), LlmCall) = 0 /\ SetSum(Adds("out"), LlmCall) = 0
    BY ONLY LlmAssumption, <2>2, <2>3, SetSumZero
  <2>5. Cardinality(RolledUp) = 0 /\ Cardinality(LlmCall) \in Nat
    BY <2>1, LlmAssumption, FS_EmptySet, FS_CardinalityType
  <2> QED
    BY <2>4, <2>5 DEF TotalsSound
<1> QED
  BY <1>1, <1>2, <1>3 DEF LlmInv

(* A call whose state does not change stays sound.                           *)
SameCall(d) ==
    UNCHANGED <<call[d], llmSpan[d], seen[d], streamEnded[d], reading[d], spanEnds[d], rolled[d]>>
LEMMA OtherCall ==
    ASSUME NEW d \in LlmCall, LlmCallSound(d), SameCall(d) PROVE LlmCallSound(d)'
  BY DEF LlmCallSound, UsageOnce, Over, SameCall

(* Nothing is rolled up.                                                     *)
LEMMA TotalsStay ==
    ASSUME TotalsSound, UNCHANGED <<rolled, rollup>>, sealed => sealed' PROVE TotalsSound'
  BY DEF TotalsSound, RolledUp, Adds

(* A call is over: its span ends with the usage that is rolled up.           *)
LEMMA CallIsOver ==
    ASSUME LlmInv, NEW c \in LlmCall, ~Over(c), NEW usage \in Usage, RollUp(c, usage), UNCHANGED sealed,
           llmSpan' = [llmSpan EXCEPT ![c] = [open |-> FALSE, in |-> usage.in, out |-> usage.out]],
           spanEnds' = [spanEnds EXCEPT ![c] = @ + 1],
           Over(c)', call'[c] # "failed"
    PROVE  /\ UsageOnce(c)' /\ TotalsSound'
           /\ llmSpan' \in [LlmCall -> [open : BOOLEAN, in : Nat, out : Nat]] /\ spanEnds' \in [LlmCall -> Nat]
           /\ rolled' \in [LlmCall -> Seq(Usage)] /\ rollup' \in [calls : Nat, in : Nat, out : Nat]
           /\ \A d \in LlmCall \ {c} : UNCHANGED <<llmSpan[d], spanEnds[d], rolled[d]>>
<1>1. LlmTypes /\ UsageOnce(c)
  BY DEF LlmInv, LlmCallSound
<1>2. spanEnds[c] = 0 /\ Len(rolled[c]) = 0 /\ rolled[c] \in Seq(Usage)
  BY <1>1 DEF UsageOnce, LlmTypes
<1>3. rolled[c] = <<>>
  BY <1>2
<1>4. TotalsSound'
  BY <1>3, RollUpAdds
<1>5. rolled' = [rolled EXCEPT ![c] = Append(@, usage)]
  BY DEF RollUp
<1>6. rolled'[c] = <<usage>> /\ Len(rolled'[c]) = 1 /\ rolled'[c][1] = usage
  BY <1>1, <1>3, <1>5 DEF LlmTypes
<1>7. spanEnds'[c] = 1 /\ ~llmSpan'[c].open /\ llmSpan'[c].in = usage.in /\ llmSpan'[c].out = usage.out
  BY <1>1, <1>2 DEF LlmTypes
<1>8. usage = [in |-> usage.in, out |-> usage.out]
  BY DEF Usage
<1>9. UsageOnce(c)'
  <2>1. Over(c)' /\ call'[c] # "failed"
    OBVIOUS
  <2> QED
    BY <2>1, <1>7, <1>6, <1>8 DEF UsageOnce
<1>10. rolled' \in [LlmCall -> Seq(Usage)]
  BY <1>1, <1>5 DEF LlmTypes
<1>11. rollup' \in [calls : Nat, in : Nat, out : Nat]
  <2>1. usage.in \in Nat /\ usage.out \in Nat
    BY DEF Usage
  <2> QED
    <3>1. rollup.calls \in Nat /\ rollup.in \in Nat /\ rollup.out \in Nat
      BY <1>1 DEF LlmTypes
    <3>2. rollup.calls + 1 \in Nat /\ rollup.in + usage.in \in Nat /\ rollup.out + usage.out \in Nat
      BY <2>1, <3>1
    <3> QED
      BY <1>1, <3>2 DEF RollUp, LlmTypes
<1>12. spanEnds' \in [LlmCall -> Nat]
  BY <1>1 DEF LlmTypes
<1>13. llmSpan' \in [LlmCall -> [open : BOOLEAN, in : Nat, out : Nat]]
  <2>1. usage.in \in Nat /\ usage.out \in Nat
    BY DEF Usage
  <2> QED
    BY <2>1, <1>1 DEF LlmTypes
<1>14. \A d \in LlmCall \ {c} : UNCHANGED <<llmSpan[d], spanEnds[d], rolled[d]>>
  BY <1>1, <1>5 DEF LlmTypes
<1> QED
  BY <1>4, <1>9, <1>10, <1>11, <1>12, <1>13, <1>14

(* What EndLlmSpan leaves of a span.                                         *)
LEMMA EndedSpan ==
    ASSUME LlmTypes, NEW c \in LlmCall, NEW usage \in Usage, NEW known \in Usage, EndLlmSpan(c, usage),
           known.in = IF usage.in # 0 THEN usage.in ELSE llmSpan[c].in,
           known.out = IF usage.out # 0 THEN usage.out ELSE llmSpan[c].out
    PROVE  /\ llmSpan' = [llmSpan EXCEPT ![c] = [open |-> FALSE, in |-> known.in, out |-> known.out]]
           /\ spanEnds' = [spanEnds EXCEPT ![c] = @ + 1]
<1>1. llmSpan[c] \in [open : BOOLEAN, in : Nat, out : Nat]
  BY DEF LlmTypes
<1>2. [WithUsage(llmSpan[c], usage) EXCEPT !.open = FALSE] = [open |-> FALSE, in |-> known.in, out |-> known.out]
  <2> DEFINE s == llmSpan[c]
             Closed(x) == [x EXCEPT !.open = FALSE]
  <2>1. s = [open |-> s.open, in |-> s.in, out |-> s.out]
    BY <1>1
  <2>2. WithUsage(s, usage) = [open |-> s.open, in |-> known.in, out |-> known.out]
    <3>1. WithUsage(s, usage) = [s EXCEPT !.in = known.in, !.out = known.out]
      BY DEF WithUsage
    <3> HIDE DEF s
    <3> QED
      BY <2>1, <3>1
  <2>3. WithUsage(s, usage) \in [open : BOOLEAN, in : Nat, out : Nat]
    BY <1>1, <2>2 DEF Usage
  <2>4. Closed(WithUsage(s, usage)) = [open |-> FALSE, in |-> WithUsage(s, usage).in, out |-> WithUsage(s, usage).out]
    <3>1. ASSUME NEW w \in [open : BOOLEAN, in : Nat, out : Nat], NEW f, f = FALSE
          PROVE  [w EXCEPT !.open = f] = [open |-> f, in |-> w.in, out |-> w.out]
      OBVIOUS
    <3> HIDE DEF s
    <3> QED
      BY <2>3, <3>1
  <2>5. WithUsage(s, usage).in = known.in /\ WithUsage(s, usage).out = known.out
    BY <2>2
  <2> QED
    BY <2>4, <2>5
<1>3. llmSpan' = [llmSpan EXCEPT ![c] = [WithUsage(llmSpan[c], usage) EXCEPT !.open = FALSE]]
  BY DEF EndLlmSpan
<1> QED
  BY <1>2, <1>3 DEF EndLlmSpan

(* The steps of one call: the other calls stay as they are.                  *)
LEMMA OneCallMoves ==
    ASSUME LlmInv, NEW c \in LlmCall, \A d \in LlmCall \ {c} : SameCall(d),
           LlmTypes', LlmCallSound(c)', TotalsSound'
    PROVE  LlmInv'
  BY OtherCall DEF LlmInv

LEMMA CallBegins ==
    ASSUME LlmInv, NEW c \in LlmCall, call[c] = "none", NEW st \in {"asked", "wrapped"},
           call' = [call EXCEPT ![c] = st], llmSpan' = [llmSpan EXCEPT ![c] = OpenSpan],
           UNCHANGED <<seen, streamEnded, reading, reads, rollup, sealed, spanEnds, rolled>>
    PROVE  LlmInv'
<1>1. LlmTypes /\ LlmCallSound(c) /\ TotalsSound
  BY DEF LlmInv
<1>2. LlmTypes'
  BY <1>1 DEF OpenSpan, LlmTypes, CallStates
<1>3. LlmCallSound(c)'
  <2>1. call'[c] = st /\ llmSpan'[c].open /\ llmSpan'[c].in = 0 /\ llmSpan'[c].out = 0
    BY <1>1 DEF LlmTypes, OpenSpan
  <2>2. ~Over(c) /\ ~streamEnded[c] /\ ~Over(c)' /\ seen[c].in = 0 /\ seen[c].out = 0 /\ ~(reading[c] > 0)
    BY <1>1, <2>1 DEF LlmCallSound, Over
  <2>3. UsageOnce(c)'
    BY <1>1, <2>2 DEF LlmCallSound, UsageOnce
  <2> QED
    BY <2>1, <2>2, <2>3 DEF LlmCallSound
<1>4. \A d \in LlmCall \ {c} : SameCall(d)
  BY <1>1 DEF LlmTypes, SameCall
<1>5. TotalsSound'
  BY <1>1, TotalsStay
<1> QED
  BY <1>2, <1>3, <1>4, <1>5, OneCallMoves

LEMMA CallFailsKeeps == ASSUME LlmInv, NEW c \in LlmCall, CallFails(c) PROVE LlmInv'
<1> USE DEF CallFails
<1>1. LlmTypes /\ LlmCallSound(c) /\ TotalsSound
  BY DEF LlmInv
<1>2. llmSpan[c].in = 0 /\ llmSpan[c].out = 0 /\ ~streamEnded[c] /\ ~(reading[c] > 0) /\ spanEnds[c] = 0 /\ Len(rolled[c]) = 0
  BY <1>1 DEF LlmCallSound, UsageOnce, Over
<1>3. /\ llmSpan' = [llmSpan EXCEPT ![c] = [open |-> FALSE, in |-> 0, out |-> 0]]
      /\ spanEnds' = [spanEnds EXCEPT ![c] = @ + 1]
  BY <1>1, <1>2, EndedSpan DEF NoUsage, Usage
<1>4. LlmTypes'
  <2>1. call' \in [LlmCall -> CallStates]
    BY <1>1 DEF LlmTypes, CallStates
  <2>2. llmSpan' \in [LlmCall -> [open : BOOLEAN, in : Nat, out : Nat]] /\ spanEnds' \in [LlmCall -> Nat]
    BY <1>1, <1>3 DEF LlmTypes
  <2> QED
    BY <1>1, <2>1, <2>2 DEF LlmTypes
<1>5. LlmCallSound(c)'
  BY <1>1, <1>2, <1>3 DEF LlmTypes, Over, UsageOnce, LlmCallSound
<1>6. \A d \in LlmCall \ {c} : SameCall(d)
  BY <1>1, <1>3 DEF LlmTypes, SameCall
<1>7. TotalsSound'
  BY <1>1, TotalsStay
<1> QED
  BY <1>4, <1>5, <1>6, <1>7, OneCallMoves

(* CallReturns, RecordsCall: the usage comes with the end.                   *)
LEMMA OverWithUsage ==
    ASSUME LlmInv, NEW c \in LlmCall, call[c] \in {"none", "asked"}, NEW usage \in Usage,
           call' = [call EXCEPT ![c] = "over"], EndLlmSpan(c, usage), RollUp(c, usage),
           UNCHANGED <<seen, streamEnded, reading, reads, sealed>>
    PROVE  LlmInv'
<1>1. LlmTypes /\ LlmCallSound(c)
  BY DEF LlmInv
<1>2. llmSpan[c].in = 0 /\ llmSpan[c].out = 0 /\ ~streamEnded[c] /\ ~(reading[c] > 0) /\ ~Over(c)
  BY <1>1 DEF LlmCallSound, Over
<1>3. /\ llmSpan' = [llmSpan EXCEPT ![c] = [open |-> FALSE, in |-> usage.in, out |-> usage.out]]
      /\ spanEnds' = [spanEnds EXCEPT ![c] = @ + 1]
  BY <1>2, <1>1, EndedSpan
<1>4. call'[c] = "over" /\ Over(c)'
  BY <1>1 DEF Over, LlmTypes
<1>5. /\ UsageOnce(c)' /\ TotalsSound'
      /\ llmSpan' \in [LlmCall -> [open : BOOLEAN, in : Nat, out : Nat]] /\ spanEnds' \in [LlmCall -> Nat]
      /\ rolled' \in [LlmCall -> Seq(Usage)] /\ rollup' \in [calls : Nat, in : Nat, out : Nat]
      /\ \A d \in LlmCall \ {c} : UNCHANGED <<llmSpan[d], spanEnds[d], rolled[d]>>
  BY <1>2, <1>3, <1>4, CallIsOver
<1>6. LlmTypes'
  BY <1>1, <1>5 DEF LlmTypes, CallStates
<1>7. LlmCallSound(c)'
  BY <1>2, <1>4, <1>5 DEF LlmCallSound
<1>8. \A d \in LlmCall \ {c} : SameCall(d)
  BY <1>1, <1>5 DEF LlmTypes, SameCall
<1> QED
  BY <1>5, <1>6, <1>7, <1>8, OneCallMoves

LEMMA StreamReturnedKeeps == ASSUME LlmInv, NEW c \in LlmCall, StreamReturned(c) PROVE LlmInv'
<1> USE DEF StreamReturned
<1>1. LlmTypes /\ LlmCallSound(c) /\ TotalsSound
  BY DEF LlmInv
<1>2. LlmTypes'
  BY <1>1 DEF LlmTypes, CallStates
<1>3. call'[c] = "stream" /\ ~Over(c) /\ ~Over(c)'
  BY <1>1 DEF LlmTypes, LlmCallSound, Over
<1>4. LlmCallSound(c)'
  BY <1>1, <1>3 DEF LlmCallSound, UsageOnce
<1>5. \A d \in LlmCall \ {c} : SameCall(d)
  BY <1>1 DEF LlmTypes, SameCall
<1>6. TotalsSound'
  BY <1>1, TotalsStay
<1> QED
  BY <1>2, <1>4, <1>5, <1>6, OneCallMoves

(* Finish, in a step that changes nothing else but what is waited for.       *)
LEMMA FinishKeeps ==
    ASSUME LlmInv, NEW c \in LlmCall, call[c] = "stream", Finish(c),
           UNCHANGED <<call, seen, reads, sealed>>, reading' \in [LlmCall -> 0 .. 2],
           \A d \in LlmCall \ {c} : reading'[d] = reading[d]
    PROVE  LlmInv'
<1>1. LlmTypes /\ LlmCallSound(c) /\ TotalsSound
  BY DEF LlmInv
<1>2. CASE streamEnded[c]
  <2>1. UNCHANGED <<streamEnded, llmSpan, spanEnds, rollup, rolled>>
    BY <1>2 DEF Finish
  <2>2. LlmTypes'
    BY <1>1, <2>1 DEF LlmTypes
  <2>3. LlmCallSound(c)'
    BY <2>1, <1>1 DEF Over, LlmCallSound, UsageOnce
  <2>4. \A d \in LlmCall \ {c} : SameCall(d)
    BY <2>1 DEF SameCall
  <2>5. TotalsSound'
    BY <1>1, <2>1, TotalsStay
  <2> QED
    BY <2>2, <2>3, <2>4, <2>5, OneCallMoves
<1>3. CASE ~streamEnded[c]
  <2> DEFINE usage == seen[c]
  <2>1. usage \in Usage /\ streamEnded' = [streamEnded EXCEPT ![c] = TRUE] /\ EndLlmSpan(c, usage) /\ RollUp(c, usage)
    BY <1>1, <1>3 DEF LlmTypes, Finish
  <2>2. llmSpan[c].in = 0 /\ llmSpan[c].out = 0 /\ ~Over(c)
    BY <1>1, <1>3 DEF LlmCallSound, Over
  <2> HIDE DEF usage
  <2>3. /\ llmSpan' = [llmSpan EXCEPT ![c] = [open |-> FALSE, in |-> usage.in, out |-> usage.out]]
        /\ spanEnds' = [spanEnds EXCEPT ![c] = @ + 1]
    BY <2>2, <1>1, <2>1, EndedSpan
  <2>4. streamEnded'[c] /\ Over(c)' /\ call'[c] # "failed" /\ call'[c] = "stream"
    BY <1>1, <2>1 DEF Over, LlmTypes
  <2>5. /\ UsageOnce(c)' /\ TotalsSound'
        /\ llmSpan' \in [LlmCall -> [open : BOOLEAN, in : Nat, out : Nat]] /\ spanEnds' \in [LlmCall -> Nat]
        /\ rolled' \in [LlmCall -> Seq(Usage)] /\ rollup' \in [calls : Nat, in : Nat, out : Nat]
        /\ \A d \in LlmCall \ {c} : UNCHANGED <<llmSpan[d], spanEnds[d], rolled[d]>>
    BY <2>1, <2>2, <2>3, <2>4, CallIsOver
  <2>6. LlmTypes'
    BY <1>1, <2>1, <2>5 DEF LlmTypes
  <2>7. LlmCallSound(c)'
    BY <2>4, <2>5 DEF LlmCallSound
  <2>8. \A d \in LlmCall \ {c} : SameCall(d)
    BY <1>1, <2>1, <2>5 DEF LlmTypes, SameCall
  <2> QED
    BY <2>5, <2>6, <2>7, <2>8, OneCallMoves
<1> QED
  BY <1>2, <1>3

LEMMA StreamEndsKeeps == ASSUME LlmInv, NEW c \in LlmCall, StreamEnds(c) \/ LeavesStream(c) PROVE LlmInv'
<1>1. LlmTypes /\ LlmCallSound(c)
  BY DEF LlmInv
<1>2. CASE StreamEnds(c)
  <2>1. call[c] = "stream"
    BY <1>1, <1>2 DEF LlmCallSound, StreamEnds
  <2>2. reading' \in [LlmCall -> 0 .. 2] /\ \A d \in LlmCall \ {c} : reading'[d] = reading[d]
    BY <1>1, <1>2 DEF LlmTypes, StreamEnds
  <2> QED
    BY <1>2, <2>1, <2>2, FinishKeeps DEF StreamEnds
<1>3. CASE LeavesStream(c)
  BY <1>1, <1>3, FinishKeeps DEF LlmTypes, LeavesStream
<1> QED
  BY <1>2, <1>3

(* What a chunk or a function tells, on top of what was told.                *)
LEMMA FoldedUsage == ASSUME NEW old \in Usage, NEW usage \in Usage PROVE Folded(old, usage) \in Usage
  BY DEF Folded, Usage

LEMMA AsksNextKeeps ==
    ASSUME LlmInv, NEW c \in LlmCall, NEW usage \in Usage, AsksNext(c) \/ ChunkArrives(c, usage) PROVE LlmInv'
<1>1. LlmTypes /\ LlmCallSound(c) /\ TotalsSound
  BY DEF LlmInv
<1>2. call[c] = "stream"
  BY <1>1 DEF LlmCallSound, AsksNext, ChunkArrives
<1>3. UNCHANGED <<call, llmSpan, streamEnded, rollup, sealed, spanEnds, rolled>>
  BY DEF AsksNext, ChunkArrives
<1>4. /\ reading' \in [LlmCall -> 0 .. 2] /\ seen' \in [LlmCall -> Usage] /\ reads' \in [LlmCall -> Nat]
      /\ \A d \in LlmCall \ {c} : reading'[d] = reading[d] /\ seen'[d] = seen[d]
  <2>1. CASE AsksNext(c)
    <3>1. reading[c] \in 0 .. 2 /\ reads[c] \in Nat /\ reading[c] < 2
      BY <1>1, <2>1 DEF AsksNext, LlmTypes
    <3>2. /\ reading' = [reading EXCEPT ![c] = reading[c] + 1] /\ reads' = [reads EXCEPT ![c] = reads[c] + 1]
          /\ UNCHANGED seen
      BY <2>1 DEF AsksNext
    <3>3. reading' \in [LlmCall -> 0 .. 2] /\ \A d \in LlmCall \ {c} : reading'[d] = reading[d]
      BY <3>1, <1>1, <3>2 DEF LlmTypes
    <3>4. reads' \in [LlmCall -> Nat]
      BY <1>1, <3>1, <3>2 DEF LlmTypes
    <3>5. seen' \in [LlmCall -> Usage] /\ seen' = seen
      BY <1>1, <3>2 DEF LlmTypes
    <3> QED
      BY <3>3, <3>4, <3>5
  <2>2. CASE ChunkArrives(c, usage)
    BY <1>1, <2>2, FoldedUsage DEF ChunkArrives, LlmTypes
  <2> QED
    BY <2>1, <2>2
<1>5. LlmTypes'
  BY <1>1, <1>3, <1>4 DEF LlmTypes
<1>6. LlmCallSound(c)'
  BY <1>3, <1>1, <1>2 DEF Over, LlmCallSound, UsageOnce
<1>7. \A d \in LlmCall \ {c} : SameCall(d)
  BY <1>3, <1>4 DEF SameCall
<1>8. TotalsSound'
  BY <1>1, <1>3, TotalsStay
<1> QED
  BY <1>5, <1>6, <1>7, <1>8, OneCallMoves

LEMMA SetsUsageKeeps == ASSUME LlmInv, NEW c \in LlmCall, NEW usage \in Usage, SetsUsage(c, usage) PROVE LlmInv'
<1> USE DEF SetsUsage
<1>1. LlmTypes /\ LlmCallSound(c) /\ TotalsSound
  BY DEF LlmInv
<1>2. Over(c)' <=> Over(c)
  BY DEF Over
<1>3. seen[c] \in Usage /\ llmSpan[c] \in [open : BOOLEAN, in : Nat, out : Nat] /\ Folded(seen[c], usage) \in Usage
  BY <1>1, FoldedUsage DEF LlmTypes
<1>4. seen' \in [LlmCall -> Usage] /\ reads' \in [LlmCall -> Nat] /\ seen'[c] = Folded(seen[c], usage)
  BY <1>1, <1>3 DEF LlmTypes
<1>5. WithUsage(llmSpan[c], usage) \in [open : BOOLEAN, in : Nat, out : Nat]
  BY <1>3 DEF WithUsage, Usage
<1>6. llmSpan' \in [LlmCall -> [open : BOOLEAN, in : Nat, out : Nat]]
  BY <1>1, <1>5 DEF LlmTypes
<1>7. LlmTypes'
  BY <1>1, <1>4, <1>6 DEF LlmTypes
<1>8. LlmCallSound(c)'
  <2>1. CASE call[c] = "settled"
    BY <1>1, <2>1, <1>2 DEF LlmCallSound, UsageOnce, Over
  <2>2. CASE call[c] = "wrapped"
    <3>1. /\ llmSpan[c].open /\ llmSpan[c].in = seen[c].in /\ llmSpan[c].out = seen[c].out
          /\ ~streamEnded[c] /\ ~(reading[c] > 0) /\ ~Over(c)
      BY <1>1, <2>2 DEF LlmCallSound, Over
    <3>2. llmSpan'[c] = WithUsage(llmSpan[c], usage)
      BY <1>1, <3>1 DEF LlmTypes
    <3>3. llmSpan'[c].open /\ llmSpan'[c].in = seen'[c].in /\ llmSpan'[c].out = seen'[c].out
      <4> DEFINE span == llmSpan[c]
      <4>1. /\ WithUsage(span, usage).open = span.open
            /\ WithUsage(span, usage).in = IF usage.in # 0 THEN usage.in ELSE span.in
            /\ WithUsage(span, usage).out = IF usage.out # 0 THEN usage.out ELSE span.out
        BY <1>3 DEF WithUsage
      <4>2. /\ Folded(seen[c], usage).in = IF usage.in # 0 THEN usage.in ELSE seen[c].in
            /\ Folded(seen[c], usage).out = IF usage.out # 0 THEN usage.out ELSE seen[c].out
        BY DEF Folded
      <4> QED
        BY <1>4, <3>1, <3>2, <4>1, <4>2
    <3>4. UsageOnce(c)'
      BY <1>1, <3>1, <1>2 DEF LlmCallSound, UsageOnce
    <3> QED
      BY <2>2, <3>1, <3>3, <3>4 DEF LlmCallSound
  <2> QED
    BY <2>1, <2>2
<1>9. \A d \in LlmCall \ {c} : SameCall(d)
  BY <1>1 DEF LlmTypes, SameCall
<1>10. TotalsSound'
  BY <1>1, TotalsStay
<1> QED
  BY <1>7, <1>8, <1>9, <1>10, OneCallMoves

LEMMA WrappedSettlesKeeps == ASSUME LlmInv, NEW c \in LlmCall, WrappedSettles(c) PROVE LlmInv'
<1> USE DEF WrappedSettles
<1>1. LlmTypes /\ LlmCallSound(c)
  BY DEF LlmInv
<1> DEFINE usage == seen[c]
<1>2. /\ llmSpan[c].in = usage.in /\ llmSpan[c].out = usage.out /\ ~streamEnded[c] /\ ~(reading[c] > 0) /\ ~Over(c)
      /\ usage \in Usage /\ RollUp(c, usage)
  BY <1>1 DEF LlmCallSound, Over, LlmTypes
<1> HIDE DEF usage
<1>3. /\ llmSpan' = [llmSpan EXCEPT ![c] = [open |-> FALSE, in |-> usage.in, out |-> usage.out]]
      /\ spanEnds' = [spanEnds EXCEPT ![c] = @ + 1]
  BY <1>2, <1>1, EndedSpan DEF NoUsage, Usage
<1>4. call'[c] = "settled" /\ Over(c)'
  BY <1>1 DEF Over, LlmTypes
<1>5. /\ UsageOnce(c)' /\ TotalsSound'
      /\ llmSpan' \in [LlmCall -> [open : BOOLEAN, in : Nat, out : Nat]] /\ spanEnds' \in [LlmCall -> Nat]
      /\ rolled' \in [LlmCall -> Seq(Usage)] /\ rollup' \in [calls : Nat, in : Nat, out : Nat]
      /\ \A d \in LlmCall \ {c} : UNCHANGED <<llmSpan[d], spanEnds[d], rolled[d]>>
  BY <1>2, <1>3, <1>4, CallIsOver
<1>6. LlmTypes'
  BY <1>1, <1>5 DEF LlmTypes, CallStates
<1>7. LlmCallSound(c)'
  BY <1>2, <1>4, <1>5 DEF LlmCallSound
<1>8. \A d \in LlmCall \ {c} : SameCall(d)
  BY <1>1, <1>5 DEF LlmTypes, SameCall
<1> QED
  BY <1>5, <1>6, <1>7, <1>8, OneCallMoves

LEMMA OperationSealsKeeps == LlmInv /\ OperationSeals => LlmInv'
<1> SUFFICES ASSUME LlmInv, OperationSeals PROVE LlmInv'
  OBVIOUS
<1> USE DEF OperationSeals
<1>1. LlmTypes'
  BY DEF LlmInv, LlmTypes
<1>2. \A c \in LlmCall : LlmCallSound(c)'
  BY OtherCall DEF LlmInv, SameCall
<1>3. TotalsSound'
  BY TotalsStay DEF LlmInv
<1> QED
  BY <1>1, <1>2, <1>3 DEF LlmInv

(* The invariant of LLM calls and their operation (llm.ts). *)
THEOREM LlmInvariant == LlmSpec => []LlmInv
<1>1. LlmInit => LlmInv
  BY LlmStarts
<1>2. LlmInv /\ [LlmNext]_llmVars => LlmInv'
  <2>1. ASSUME LlmInv, LlmNext PROVE LlmInv'
    <3>1. \A usage \in ChunkUsage : usage \in Usage
      BY LlmAssumption DEF Usage
    <3>2. NoUsage \in Usage
      BY DEF NoUsage, Usage
    <3>3. ASSUME NEW c \in LlmCall, Calls(c) \/ RunsWrapped(c) PROVE LlmInv'
      BY <2>1, <3>3, CallBegins DEF Calls, RunsWrapped
    <3>4. ASSUME NEW c \in LlmCall, NEW usage \in ChunkUsage, CallReturns(c, usage) \/ RecordsCall(c, usage) PROVE LlmInv'
      BY <2>1, <3>1, <3>4, OverWithUsage DEF CallReturns, RecordsCall
    <3>5. ASSUME NEW c \in LlmCall,
                 CallFails(c) \/ StreamReturned(c) \/ AsksNext(c) \/ StreamEnds(c) \/ LeavesStream(c) \/ WrappedSettles(c)
          PROVE  LlmInv'
      BY <2>1, <3>2, <3>5, CallFailsKeeps, StreamReturnedKeeps, AsksNextKeeps, StreamEndsKeeps, WrappedSettlesKeeps
    <3>6. ASSUME NEW c \in LlmCall, NEW usage \in ChunkUsage, ChunkArrives(c, usage) \/ SetsUsage(c, usage) PROVE LlmInv'
      BY <2>1, <3>1, <3>6, AsksNextKeeps, SetsUsageKeeps
    <3> QED
      BY <2>1, <3>3, <3>4, <3>5, <3>6, OperationSealsKeeps DEF LlmNext
  <2>2. ASSUME LlmInv, UNCHANGED llmVars PROVE LlmInv'
    BY <2>2, OtherCall DEF LlmInv, LlmTypes, TotalsSound, RolledUp, Adds, llmVars, SameCall
  <2> QED
    BY <2>1, <2>2
<1> QED
  BY <1>1, <1>2, PTL DEF LlmSpec

LEMMA LlmHolds == LlmInv => TokensCountedOnce
<1> SUFFICES ASSUME LlmInv PROVE TokensCountedOnce
  OBVIOUS
<1>1. \A c \in LlmCall : UsageOnce(c)
  BY DEF LlmInv, LlmCallSound
<1>2. ~sealed => rollup = [calls |-> Cardinality({c \in LlmCall : rolled[c] # <<>>}),
                           in |-> SumRolled("in"), out |-> SumRolled("out")]
  BY SumRolledIsSum DEF LlmInv, TotalsSound, RolledUp
<1> QED
  BY <1>1, <1>2 DEF TokensCountedOnce

-----------------------------------------------------------------------------
(***************************************************************************)
(* The version check.                                                       *)
(***************************************************************************)
CompatSpec == CompatInit /\ [][CompatNext]_compatVars

Deployed == [version : Versions, schema : {"pending", "ready", "failed"}]
RouteTable == UNION {[R -> BOOLEAN] : R \in SUBSET CompatRoutes}
Info == [known : BOOLEAN, version : Versions, schema : {"unknown", "pending", "ready", "failed"},
         applied : Versions, routes : RouteTable]
Kinds == {"ingester_too_old", "schema_not_applied", "relay_rejected"}
CompatState ==
    [id : 0 .. MaxConfigures, endpoint : BOOLEAN, features : SUBSET Feature, info : Info,
     started : BOOLEAN, pending : SUBSET CompatRoutes, warned : SUBSET (Feature \X Kinds)]
Asked == [kind : {"timer", "check", "probe"}, id : Nat, routes : SUBSET CompatRoutes]
CompatTypes ==
    /\ ingester \in Deployed /\ lived \subseteq Deployed /\ ingester \in lived
    /\ oldRoutes \subseteq CompatRoutes /\ check \in CompatState /\ knew \in BOOLEAN
    /\ asked \subseteq Asked /\ \A request \in asked : request.id <= check.id

(* What an answer may say of the ingesters of the deployment.                *)
InfoSound(info) ==
    /\ info.version # 0 => \E was \in lived : was.version = info.version
    /\ info.schema = "failed" => \E was \in lived : was.version > 0 /\ was.schema = "failed"
    /\ info.schema = "ready" => \E was \in lived : was.version = info.applied /\ was.schema = "ready" /\ was.version > 0
    /\ \A r \in DOMAIN info.routes : ~info.routes[r] => r \notin oldRoutes /\ \E was \in lived : was.version = 0

CompatInv ==
    /\ CompatTypes /\ InfoSound(check.info) /\ (knew => check.info.version # 0) /\ WarningsAreProven

-----------------------------------------------------------------------------
(* A table of no routes.                                                    *)
LEMMA NoRoutes == <<>> \in RouteTable /\ DOMAIN <<>> = {}
  BY DEF RouteTable

(* A table of some routes.                                                  *)
LEMMA SomeRoutes ==
    ASSUME NEW R \in SUBSET CompatRoutes, NEW t \in [R -> BOOLEAN]
    PROVE  t \in RouteTable /\ DOMAIN t = R
  BY DEF RouteTable

LEMMA TableDomain ==
    ASSUME NEW t \in RouteTable
    PROVE  DOMAIN t \subseteq CompatRoutes /\ t \in [DOMAIN t -> BOOLEAN]
  BY DEF RouteTable

LEMMA InfoType ==
    ASSUME NEW v \in Versions, NEW s \in {"unknown", "pending", "ready", "failed"}, NEW t \in RouteTable
    PROVE  OfVersion(v, s, t) \in Info
  BY DEF OfVersion, Info, Versions

LEMMA MergeType ==
    ASSUME NEW info \in Info, NEW next \in Info
    PROVE  Merge(info, next) \in Info
<1> DEFINE D == DOMAIN info.routes \cup DOMAIN next.routes
           table == [r \in D |-> IF r \in DOMAIN next.routes THEN next.routes[r] ELSE info.routes[r]]
<1>1. info.routes \in RouteTable /\ next.routes \in RouteTable
  BY DEF Info
<1>2. D \in SUBSET CompatRoutes /\ table \in [D -> BOOLEAN]
  BY <1>1, TableDomain
<1>3. table \in RouteTable
  BY <1>2, SomeRoutes
<1>4. Merge(info, next) = [known |-> TRUE, version |-> IF next.version # 0 THEN next.version ELSE info.version,
                           schema |-> IF next.schema # "unknown" THEN next.schema ELSE info.schema,
                           applied |-> IF next.schema # "unknown" THEN next.applied ELSE info.applied, routes |-> table]
  BY DEF Merge
<1> HIDE DEF table
<1> QED
  BY <1>3, <1>4 DEF Info

(* What is put together of two sound answers is sound.                       *)
LEMMA MergeSound ==
    ASSUME NEW info \in Info, NEW next \in Info, InfoSound(info), InfoSound(next)
    PROVE  InfoSound(Merge(info, next))
<1> DEFINE D == DOMAIN info.routes \cup DOMAIN next.routes
           merged == Merge(info, next)
<1>1. /\ merged.version = (IF next.version # 0 THEN next.version ELSE info.version)
      /\ merged.schema = (IF next.schema # "unknown" THEN next.schema ELSE info.schema)
      /\ merged.applied = (IF next.schema # "unknown" THEN next.applied ELSE info.applied)
      /\ DOMAIN merged.routes = D
      /\ \A r \in D : merged.routes[r] = IF r \in DOMAIN next.routes THEN next.routes[r] ELSE info.routes[r]
  BY DEF Merge
<1> HIDE DEF merged
<1>2. merged.version # 0 => \E was \in lived : was.version = merged.version
  BY <1>1 DEF InfoSound
<1>3. /\ merged.schema = "failed" => \E was \in lived : was.version > 0 /\ was.schema = "failed"
      /\ merged.schema = "ready" =>
             \E was \in lived : was.version = merged.applied /\ was.schema = "ready" /\ was.version > 0
  BY <1>1 DEF InfoSound
<1>4. ASSUME NEW r \in D, ~merged.routes[r]
      PROVE  r \notin oldRoutes /\ \E was \in lived : was.version = 0
  BY <1>1, <1>4 DEF InfoSound
<1>5. InfoSound(merged)
  BY <1>1, <1>2, <1>3, <1>4 DEF InfoSound
<1> QED
  BY <1>5 DEF merged

(* A version that is known, some ingester had.                               *)
LEMMA Reached ==
    ASSUME NEW info \in Info, InfoSound(info), NEW f \in Feature, info.version >= FeatureNeeds[f]
    PROVE  \E was \in lived : was.version >= FeatureNeeds[f]
<1>1. info.version # 0
  BY CompatAssumption
<1> QED
  BY <1>1 DEF InfoSound

(* An issue names what an ingester lacked, if what is known is sound.        *)
LEMMA IssuesLacked ==
    ASSUME NEW info \in Info, InfoSound(info), lived \subseteq Deployed,
           NEW features \in SUBSET Feature, NEW i \in Issues(features, info)
    PROVE  /\ Lacked(i) /\ (i.by = "route" => info.version = 0)
           /\ i.kind = "schema_not_applied" => \E was \in lived : was.version >= FeatureNeeds[i.feature]
<1>1. CASE \E f \in features : /\ info.version # 0 /\ info.version < FeatureNeeds[f]
                               /\ i = [feature |-> f, kind |-> "ingester_too_old", by |-> "version"]
  <2>1. PICK f \in features : /\ info.version # 0 /\ info.version < FeatureNeeds[f]
                              /\ i = [feature |-> f, kind |-> "ingester_too_old", by |-> "version"]
    BY <1>1
  <2>2. PICK was \in lived : was.version = info.version
    BY <2>1 DEF InfoSound
  <2>3. info.version \in 1 .. FeatureNeeds[f] - 1
    BY <2>1, CompatAssumption DEF Info, Versions
  <2> QED
    BY <2>1, <2>2, <2>3 DEF Lacked
<1>2. CASE \E f \in features : /\ info.version = 0 /\ FeatureRoute[f] \in DOMAIN info.routes
                               /\ ~info.routes[FeatureRoute[f]]
                               /\ i = [feature |-> f, kind |-> "ingester_too_old", by |-> "route"]
  BY <1>2 DEF Lacked, InfoSound
<1>3. CASE \E f \in features \cap WritesMigration :
              /\ info.version >= FeatureNeeds[f] /\ info.schema = "failed"
              /\ i = [feature |-> f, kind |-> "schema_not_applied", by |-> "schema"]
  <2>1. PICK f \in features \cap WritesMigration :
              /\ info.version >= FeatureNeeds[f] /\ info.schema = "failed"
              /\ i = [feature |-> f, kind |-> "schema_not_applied", by |-> "schema"]
    BY <1>3
  <2>2. \E was \in lived : was.version > 0 /\ was.schema = "failed"
    BY <2>1 DEF InfoSound
  <2>3. \E was \in lived : was.version >= FeatureNeeds[f]
    BY <2>1, <2>2, Reached
  <2> QED
    BY <2>1, <2>2, <2>3 DEF Lacked
<1>4. CASE \E f \in features \cap WritesMigration :
              /\ info.version >= FeatureNeeds[f] /\ info.schema = "ready" /\ info.applied < FeatureNeeds[f]
              /\ i = [feature |-> f, kind |-> "schema_not_applied", by |-> "list"]
  <2>1. PICK f \in features \cap WritesMigration :
              /\ info.version >= FeatureNeeds[f] /\ info.schema = "ready" /\ info.applied < FeatureNeeds[f]
              /\ i = [feature |-> f, kind |-> "schema_not_applied", by |-> "list"]
    BY <1>4
  <2>2. PICK was \in lived : was.version = info.applied /\ was.schema = "ready" /\ was.version > 0
    BY <2>1 DEF InfoSound
  <2>3. was.version \in 1 .. FeatureNeeds[f] - 1
    BY <2>1, <2>2, CompatAssumption DEF Info, Versions
  <2>4. \E w \in lived : w.version >= FeatureNeeds[f]
    BY <2>1, <2>2, Reached
  <2> QED
    BY <2>1, <2>2, <2>3, <2>4 DEF Lacked
<1> QED
  BY <1>1, <1>2, <1>3, <1>4 DEF Issues

(* What was lacked stays so, as long as the deployment only grows.           *)
LEMMA LackedStays ==
    ASSUME lived \subseteq lived', UNCHANGED oldRoutes, NEW i, Lacked(i)
    PROVE  Lacked(i)'
  BY DEF Lacked

(* evaluateAndWarn on sound knowledge.                                       *)
LEMMA EvaluateKeeps ==
    ASSUME CompatInv, NEW next \in CompatState, next.id = check.id, InfoSound(next.info),
           knew => next.info.version # 0, NEW open \in SUBSET asked,
           Evaluate(next, open), UNCHANGED <<ingester, oldRoutes, lived>>
    PROVE  CompatInv'
<1> DEFINE unprobed == IF next.info.version = 0
                       THEN (RoutesFor(next.features) \ DOMAIN next.info.routes) \ next.pending ELSE {}
           new == {i \in Issues(next.features, next.info) : KeyOfIssue(i) \notin next.warned}
           keys == {KeyOfIssue(i) : i \in new}
           probe == [kind |-> "probe", id |-> next.id, routes |-> unprobed]
<1>1. /\ check' = [next EXCEPT !.pending = @ \cup unprobed, !.warned = @ \cup keys]
      /\ asked' = IF unprobed = {} THEN open ELSE open \cup {probe}
      /\ knew' = (knew \/ next.info.version # 0)
      /\ warnings' = warnings \cup {[issue |-> i, knew |-> knew'] : i \in new}
  BY DEF Evaluate
<1>2. unprobed \in SUBSET CompatRoutes
  BY DEF CompatState, RoutesFor, CompatRoutes
<1>3. new \subseteq Issues(next.features, next.info)
  OBVIOUS
<1>4. keys \in SUBSET (Feature \X Kinds)
  <2> SUFFICES ASSUME NEW i \in new PROVE KeyOfIssue(i) \in Feature \X Kinds
    OBVIOUS
  <2>1. i \in Issues(next.features, next.info) /\ next.features \subseteq Feature
    BY DEF CompatState
  <2>2. i.feature \in Feature /\ i.kind \in Kinds
    <3>1. \E f \in next.features, kind \in {"ingester_too_old", "schema_not_applied"}, by \in {"version", "route", "schema", "list"} :
              i = [feature |-> f, kind |-> kind, by |-> by]
      BY ONLY <2>1 DEF Issues
    <3>2. PICK f \in next.features, kind \in {"ingester_too_old", "schema_not_applied"}, by \in {"version", "route", "schema", "list"} :
              i = [feature |-> f, kind |-> kind, by |-> by]
      BY <3>1
    <3>3. f \in Feature /\ kind \in Kinds
      BY <2>1 DEF Kinds
    <3> QED
      BY <3>2, <3>3
  <2> QED
    BY <2>2 DEF KeyOfIssue
<1>5. check' \in CompatState /\ check'.id = check.id /\ check'.info = next.info
  <2> HIDE DEF unprobed, keys
  <2> QED
    BY <1>1, <1>2, <1>4 DEF CompatState
<1>6. asked' \subseteq Asked /\ \A request \in asked' : request.id <= check'.id
  <2>1. probe \in Asked /\ probe.id = check.id
    BY <1>2 DEF Asked, CompatState
  <2>2. open \subseteq Asked /\ \A request \in open : request.id <= check.id
    BY DEF CompatInv, CompatTypes
  <2>3. check.id <= check.id
    BY DEF CompatInv, CompatTypes, CompatState
  <2>4. asked' \subseteq open \cup {probe}
    BY <1>1
  <2> HIDE DEF probe
  <2> QED
    BY <1>5, <2>1, <2>2, <2>3, <2>4
<1>7. CompatTypes'
  BY <1>1, <1>5, <1>6 DEF CompatInv, CompatTypes
<1>8. InfoSound(check.info)' /\ (knew => check.info.version # 0)'
  BY <1>1, <1>5 DEF InfoSound
<1>9. WarningsAreProven'
  <2> DEFINE Grounded(w) ==
             /\ Lacked(w.issue)' /\ (w.issue.by = "route" => ~w.knew)
             /\ w.issue.kind = "schema_not_applied" =>
                   \E was \in lived' : was.version >= FeatureNeeds[w.issue.feature]
  <2> SUFFICES ASSUME NEW w \in warnings' PROVE Grounded(w)
    BY DEF WarningsAreProven
  <2>1. CASE w \in warnings
    BY <2>1, LackedStays DEF CompatInv, WarningsAreProven
  <2>2. ASSUME NEW i \in new, w = [issue |-> i, knew |-> knew']
        PROVE  Grounded(w)
    BY <1>3, <2>2, IssuesLacked, <1>1, LackedStays DEF CompatState, CompatInv, CompatTypes
  <2> QED
    BY <1>1, <2>1, <2>2
<1> QED
  BY <1>7, <1>8, <1>9 DEF CompatInv

-----------------------------------------------------------------------------
(* A step that leaves what is known, and the warnings, as they are.          *)
LEMMA KnowledgeStays ==
    ASSUME CompatInv, CompatTypes', lived \subseteq lived',
           check'.info = check.info, UNCHANGED <<oldRoutes, knew, warnings>>
    PROVE  CompatInv'
  BY LackedStays DEF CompatInv, InfoSound, WarningsAreProven

LEMMA CompatStarts == CompatInit => CompatInv
<1> SUFFICES ASSUME CompatInit PROVE CompatInv
  OBVIOUS
<1>1. Unknown \in Info /\ Unknown.version = 0 /\ Unknown.schema = "unknown" /\ DOMAIN Unknown.routes = {}
  BY NoRoutes DEF Unknown, Info, Versions
<1>2. check.info = Unknown /\ check \in CompatState /\ check.id = 0
  BY <1>1, CompatAssumption DEF CompatInit, FreshCheck, CompatState
<1>3. CompatTypes
  BY <1>2 DEF CompatInit, CompatTypes, Deployed
<1>4. InfoSound(check.info)
  BY <1>1, <1>2 DEF InfoSound
<1> QED
  BY <1>3, <1>4 DEF CompatInv, CompatInit, WarningsAreProven

LEMMA ConfiguredKeeps ==
    ASSUME CompatInv, NEW endpoint \in BOOLEAN, check.id < MaxConfigures, Configured(endpoint) PROVE CompatInv'
<1>1. Unknown \in Info /\ Unknown.version = 0 /\ Unknown.schema = "unknown" /\ DOMAIN Unknown.routes = {}
  BY NoRoutes DEF Unknown, Info, Versions
<1>2. check.id + 1 \in 0 .. MaxConfigures /\ check.id \in Nat
  BY CompatAssumption DEF CompatInv, CompatTypes, CompatState
<1>3. check'.info = Unknown /\ check' \in CompatState /\ check'.id = check.id + 1
  BY <1>1, <1>2 DEF Configured, FreshCheck, CompatState
<1>4. asked' \subseteq Asked /\ \A request \in asked' : request.id <= check'.id
  <2> SUFFICES ASSUME NEW request \in asked PROVE request \in Asked /\ request.id <= check'.id
    BY DEF Configured
  <2>1. request \in Asked /\ request.id <= check.id
    BY DEF CompatInv, CompatTypes
  <2>2. request.id \in Nat
    BY <2>1 DEF Asked
  <2> QED
    BY <1>2, <1>3, <2>1, <2>2
<1>5. CompatTypes'
  BY <1>3, <1>4 DEF CompatInv, CompatTypes, Configured
<1>6. InfoSound(check.info)'
  BY <1>1, <1>3 DEF InfoSound
<1> QED
  BY <1>5, <1>6 DEF CompatInv, Configured, WarningsAreProven

(* What a change to the knowledge needs to be put to use.                    *)
LEMMA TypedCheck ==
    ASSUME CompatInv
    PROVE  /\ check \in CompatState /\ check.info \in Info /\ InfoSound(check.info)
           /\ asked \subseteq Asked /\ lived \subseteq Deployed /\ ingester \in lived /\ ingester \in Deployed
           /\ check.id \in Nat /\ check.features \in SUBSET Feature
  BY CompatAssumption DEF CompatInv, CompatTypes, CompatState

LEMMA NoteFeatureKeeps == ASSUME CompatInv, NEW f \in Feature, NoteFeature(f) PROVE CompatInv'
<1> DEFINE next == [check EXCEPT !.features = @ \cup {f}]
           timer == [kind |-> "timer", id |-> check.id, routes |-> {}]
<1>1. next \in CompatState /\ next.id = check.id /\ next.info = check.info
  BY TypedCheck DEF CompatState
<1>2. UNCHANGED <<ingester, oldRoutes, lived>>
  BY DEF NoteFeature
<1>3. CASE Evaluate(next, asked)
  <2> HIDE DEF next
  <2> QED
    BY <1>1, <1>2, <1>3, TypedCheck, EvaluateKeeps DEF CompatInv
<1>4. CASE /\ check' = [next EXCEPT !.started = TRUE]
           /\ asked' = IF check.started THEN asked ELSE asked \cup {timer}
           /\ UNCHANGED <<probed, knew, warnings>>
  <2>1. check' \in CompatState /\ check'.id = check.id /\ check'.info = check.info
    <3> HIDE DEF next
    <3> QED
      BY <1>1, <1>4 DEF CompatState
  <2>2. timer \in Asked /\ timer.id <= check.id
    BY TypedCheck DEF Asked
  <2>3. asked' \subseteq asked \cup {timer}
    BY <1>4
  <2>4. CompatTypes'
    <3> HIDE DEF timer
    <3> QED
      BY <1>2, <1>4, <2>1, <2>2, <2>3 DEF CompatInv, CompatTypes
  <2> QED
    BY <1>2, <1>4, <2>1, <2>4, KnowledgeStays
<1> QED
  BY <1>3, <1>4 DEF NoteFeature

LEMMA RunCheckKeeps == ASSUME CompatInv, NEW timer \in asked, RunCheck(timer) PROVE CompatInv'
<1> DEFINE paths == IF timer.id = check.id THEN RoutesFor(check.features) ELSE {}
           request == [kind |-> "check", id |-> timer.id, routes |-> paths]
<1>1. paths \in SUBSET CompatRoutes
  BY TypedCheck DEF RoutesFor, CompatRoutes
<1>2. timer.id \in Nat /\ timer.id <= check.id
  BY DEF CompatInv, CompatTypes, Asked
<1>3. request \in Asked /\ request.id <= check.id
  BY <1>1, <1>2 DEF Asked
<1>4. asked' \subseteq asked \cup {request} /\ UNCHANGED <<ingester, oldRoutes, lived, check, knew, warnings>>
  BY DEF RunCheck
<1>5. CompatTypes'
  <2> HIDE DEF request
  <2> QED
    BY <1>3, <1>4 DEF CompatInv, CompatTypes
<1> QED
  BY <1>4, <1>5, KnowledgeStays

(* An answer to somebody else, or none at all.                               *)
LEMMA IgnoredKeeps ==
    ASSUME CompatInv, asked' \subseteq asked, UNCHANGED <<ingester, oldRoutes, lived, check, knew, warnings>>
    PROVE  CompatInv'
<1>1. CompatTypes'
  BY DEF CompatInv, CompatTypes
<1> QED
  BY <1>1, KnowledgeStays

(* Sound news of the ingester, merged into what is known and put to use.     *)
LEMMA NewsKeeps ==
    ASSUME CompatInv, NEW info \in Info, InfoSound(info), NEW next \in CompatState,
           next.id = check.id, next.info = Merge(check.info, info),
           NEW open \in SUBSET asked, Evaluate(next, open), UNCHANGED <<ingester, oldRoutes, lived>>
    PROVE  CompatInv'
  BY TypedCheck, MergeSound, EvaluateKeeps DEF Merge, CompatInv

(* The probes of an old ingester that answered.                              *)
LEMMA ProbesSound ==
    ASSUME lived \subseteq Deployed, ingester \in lived, ingester.version = 0,
           NEW paths \in SUBSET CompatRoutes, NEW answered \in SUBSET paths,
           NEW info, info = OfVersion(0, "unknown", ProbeRoutes(paths, answered))
    PROVE  info \in Info /\ InfoSound(info)
<1> DEFINE table == [r \in answered |-> r \in oldRoutes]
<1>1. table \in [answered -> BOOLEAN] /\ answered \in SUBSET CompatRoutes
  OBVIOUS
<1>2. table \in RouteTable /\ DOMAIN table = answered /\ \A r \in answered : table[r] = (r \in oldRoutes)
  BY <1>1, SomeRoutes
<1>3. info = OfVersion(0, "unknown", table)
  BY DEF ProbeRoutes
<1> HIDE DEF table
<1>4. info \in Info
  <2>1. 0 \in Versions
    BY DEF Versions
  <2> QED
    BY <1>2, <1>3, <2>1, InfoType
<1>5. info.version = 0 /\ info.schema = "unknown" /\ info.routes = table
  BY <1>3 DEF OfVersion
<1>6. InfoSound(info)
  BY <1>2, <1>5 DEF InfoSound
<1> QED
  BY <1>4, <1>6

(* What the check may be answered.                                           *)
LEMMA AnswersSound ==
    ASSUME CompatInv, NEW request \in Asked, NEW info \in CheckAnswer(request), info.known
    PROVE  info \in Info /\ InfoSound(info)
<1>1. info # Unknown
  BY DEF Unknown
<1>2. CASE ingester.version > 0
  <2>1. PICK s \in {"unknown", ingester.schema} : info = OfVersion(ingester.version, s, <<>>)
    BY <1>1, <1>2 DEF CheckAnswer
  <2>2. info = [known |-> TRUE, version |-> ingester.version, schema |-> s,
                applied |-> IF s = "ready" THEN ingester.version ELSE 0, routes |-> <<>>]
    BY <2>1 DEF OfVersion
  <2>3. info \in Info
    BY <2>2, TypedCheck, NoRoutes DEF Info, Deployed, Versions
  <2>4. /\ info.version = ingester.version /\ info.schema = s
        /\ s = "ready" => info.applied = ingester.version
        /\ DOMAIN info.routes = {}
    BY <2>2, NoRoutes
  <2> QED
    BY <1>2, <2>1, <2>3, <2>4, TypedCheck DEF InfoSound
<1>3. CASE ~(ingester.version > 0)
  <2>1. PICK answered \in SUBSET request.routes : info = OfVersion(0, "unknown", ProbeRoutes(request.routes, answered))
    BY <1>1, <1>3 DEF CheckAnswer
  <2>2. ingester.version = 0 /\ request.routes \in SUBSET CompatRoutes
    BY <1>3, TypedCheck DEF Deployed, Versions, Asked
  <2> QED
    BY <2>1, <2>2, TypedCheck, ProbesSound
<1> QED
  BY <1>2, <1>3

LEMMA CheckAnswersKeeps == ASSUME CompatInv, NEW request \in asked, CheckAnswers(request) PROVE CompatInv'
<1>1. UNCHANGED <<ingester, oldRoutes, lived>>
  BY DEF CheckAnswers
<1>2. PICK info \in CheckAnswer(request) :
          IF request.id # check.id \/ ~info.known
          THEN asked' = asked \ {request} /\ UNCHANGED <<check, probed, knew, warnings>>
          ELSE LET next == [check EXCEPT !.info = Merge(@, info),
                                         !.pending = @ \cup RoutesFor(check.features)]
               IN  Evaluate(next, asked \ {request})
  BY DEF CheckAnswers
<1>3. CASE request.id # check.id \/ ~info.known
  BY <1>1, <1>2, <1>3, IgnoredKeeps
<1>4. CASE ~(request.id # check.id \/ ~info.known)
  <2> DEFINE next == [check EXCEPT !.info = Merge(check.info, info),
                                   !.pending = check.pending \cup RoutesFor(check.features)]
  <2>1. request \in Asked
    BY TypedCheck
  <2>2. info \in Info /\ InfoSound(info)
    BY <1>4, <2>1, AnswersSound
  <2>3. Merge(check.info, info) \in Info /\ RoutesFor(check.features) \subseteq CompatRoutes
    BY <2>2, TypedCheck, MergeType DEF RoutesFor, CompatRoutes
  <2>4. next \in CompatState /\ next.id = check.id /\ next.info = Merge(check.info, info)
    BY <2>3, TypedCheck DEF CompatState
  <2>5. Evaluate(next, asked \ {request})
    BY <1>2, <1>4
  <2>6. (asked \ {request}) \in SUBSET asked
    OBVIOUS
  <2> HIDE DEF next
  <2> QED
    BY <1>1, <2>2, <2>4, <2>5, <2>6, NewsKeeps
<1> QED
  BY <1>3, <1>4

LEMMA ProbeAnswersKeeps == ASSUME CompatInv, NEW request \in asked, ProbeAnswers(request) PROVE CompatInv'
<1>1. UNCHANGED <<ingester, oldRoutes, lived>>
  BY DEF ProbeAnswers
<1>2. request \in Asked /\ request.routes \in SUBSET CompatRoutes
  BY TypedCheck DEF Asked
<1>3. PICK answered \in SUBSET request.routes :
          LET paths == IF ingester.version = 0 THEN ProbeRoutes(request.routes, answered)
                        ELSE [r \in answered |-> TRUE]
              next == [check EXCEPT !.info = Merge(@, OfVersion(0, "unknown", paths))]
          IN  IF request.id # check.id
              THEN asked' = asked \ {request} /\ UNCHANGED <<check, probed, knew, warnings>>
              ELSE Evaluate(next, asked \ {request})
  BY DEF ProbeAnswers
<1> DEFINE paths == IF ingester.version = 0 THEN ProbeRoutes(request.routes, answered)
                     ELSE [r \in answered |-> TRUE]
           info == OfVersion(0, "unknown", paths)
           next == [check EXCEPT !.info = Merge(check.info, info)]
<1>4. CASE request.id # check.id
  BY <1>1, <1>3, <1>4, IgnoredKeeps
<1>5. CASE request.id = check.id
  <2>1. info \in Info /\ InfoSound(info)
    <3>1. CASE ingester.version = 0
      BY <1>2, <3>1, TypedCheck, ProbesSound
    <3>2. CASE ingester.version # 0
      <4> DEFINE table == [r \in answered |-> TRUE]
      <4>1. table \in [answered -> BOOLEAN] /\ answered \in SUBSET CompatRoutes
        BY <1>2
      <4>2. table \in RouteTable /\ DOMAIN table = answered /\ \A r \in answered : table[r]
        BY <4>1, SomeRoutes
      <4>3. info = [known |-> TRUE, version |-> 0, schema |-> "unknown", applied |-> 0, routes |-> table]
        BY <3>2 DEF OfVersion
      <4> HIDE DEF table, info
      <4>4. info \in Info
        BY <4>2, <4>3 DEF Info, Versions
      <4>5. info.version = 0 /\ info.schema = "unknown" /\ info.routes = table
        BY <4>3
      <4>6. InfoSound(info)
        BY <4>2, <4>5 DEF InfoSound
      <4> QED
        BY <4>4, <4>6
    <3> QED
      BY <3>1, <3>2
  <2>2. Evaluate(next, asked \ {request})
    BY <1>3, <1>5
  <2> HIDE DEF info
  <2>3. Merge(check.info, info) \in Info
    BY <2>1, TypedCheck, MergeType
  <2>4. next \in CompatState /\ next.id = check.id /\ next.info = Merge(check.info, info)
    BY <2>3, TypedCheck DEF CompatState
  <2>5. (asked \ {request}) \in SUBSET asked
    OBVIOUS
  <2> HIDE DEF next
  <2> QED
    BY <1>1, <2>1, <2>2, <2>4, <2>5, NewsKeeps
<1> QED
  BY <1>4, <1>5

LEMMA ObserveKeeps ==
    ASSUME CompatInv, NEW was \in lived, NEW route \in CompatRoutes, Observe(was, route) PROVE CompatInv'
<1>1. UNCHANGED <<ingester, oldRoutes, lived>> /\ was \in Deployed
  BY TypedCheck DEF Observe
<1>2. ASSUME NEW info \in Info, InfoSound(info), Evaluate([check EXCEPT !.info = Merge(@, info)], asked)
      PROVE  CompatInv'
  <2> DEFINE next == [check EXCEPT !.info = Merge(check.info, info)]
  <2>1. Merge(check.info, info) \in Info
    BY <1>2, TypedCheck, MergeType
  <2>2. next \in CompatState /\ next.id = check.id /\ next.info = Merge(check.info, info)
    BY <2>1, TypedCheck DEF CompatState
  <2>3. Evaluate(next, asked) /\ asked \in SUBSET asked
    BY <1>2
  <2> HIDE DEF next
  <2> QED
    BY <1>1, <1>2, <2>2, <2>3, NewsKeeps
<1>3. CASE was.version > 0 /\ Evaluate([check EXCEPT !.info = Merge(@, OfVersion(was.version, "unknown", <<>>))], asked)
  <2> DEFINE info == OfVersion(was.version, "unknown", <<>>)
  <2>1. info = [known |-> TRUE, version |-> was.version, schema |-> "unknown", applied |-> 0, routes |-> <<>>]
    BY DEF OfVersion
  <2>2. info \in Info
    BY <1>1, NoRoutes, InfoType DEF Deployed
  <2>3. info.version = was.version /\ info.schema = "unknown" /\ DOMAIN info.routes = {}
    BY <2>1, NoRoutes
  <2>4. InfoSound(info)
    BY <2>3 DEF InfoSound
  <2> HIDE DEF info
  <2>5. Evaluate([check EXCEPT !.info = Merge(@, info)], asked)
    BY <1>3 DEF info
  <2> QED
    BY <1>2, <2>2, <2>4, <2>5
<1>4. CASE /\ was.version = 0 /\ route \notin oldRoutes
           /\ Evaluate([check EXCEPT !.info = Merge(@, OfVersion(0, "unknown", [r \in {route} |-> FALSE]))], asked)
  <2> DEFINE table == [r \in {route} |-> FALSE]
             info == OfVersion(0, "unknown", table)
  <2>1. table \in [{route} -> BOOLEAN] /\ {route} \in SUBSET CompatRoutes
    OBVIOUS
  <2>2. table \in RouteTable /\ DOMAIN table = {route}
    BY <2>1, SomeRoutes
  <2>3. info = [known |-> TRUE, version |-> 0, schema |-> "unknown", applied |-> 0, routes |-> table]
    BY DEF OfVersion
  <2>4. Evaluate([check EXCEPT !.info = Merge(@, info)], asked)
    BY <1>4
  <2> HIDE DEF table, info
  <2>5. info \in Info
    BY <2>2, <2>3 DEF Info, Versions
  <2>6. info.version = 0 /\ info.schema = "unknown" /\ info.routes = table
    BY <2>3
  <2>7. InfoSound(info)
    BY <1>4, <2>2, <2>6 DEF InfoSound
  <2> QED
    BY <1>2, <2>4, <2>5, <2>7
<1> QED
  BY <1>3, <1>4 DEF Observe

LEMMA RelayRejectedKeeps ==
    ASSUME CompatInv, NEW features \in SUBSET BrowserFeature, RelayRejected(features) PROVE CompatInv'
<1> DEFINE keys == {<<f, "relay_rejected">> : f \in {g \in features : <<g, "relay_rejected">> \notin check.warned}}
<1>1. keys \in SUBSET (Feature \X Kinds)
  <2>1. ASSUME NEW f \in features PROVE <<f, "relay_rejected">> \in Feature \X Kinds
    BY CompatAssumption DEF Kinds
  <2> QED
    BY <2>1
<1>2. check' = [check EXCEPT !.warned = @ \cup keys] /\ UNCHANGED <<ingester, oldRoutes, lived, asked, knew, warnings>>
  BY DEF RelayRejected
<1>3. check' \in CompatState /\ check'.id = check.id /\ check'.info = check.info
  <2> HIDE DEF keys
  <2> QED
    BY <1>1, <1>2, TypedCheck DEF CompatState
<1>4. CompatTypes'
  BY <1>2, <1>3 DEF CompatInv, CompatTypes
<1> QED
  BY <1>2, <1>3, <1>4, KnowledgeStays

(* The ingester moves on: what was said of it before was true of what it was. *)
LEMMA DeploymentKeeps == ASSUME CompatInv, SchemaSettles \/ Upgrade PROVE CompatInv'
<1>1. lived' = lived \cup {ingester'} /\ UNCHANGED <<oldRoutes, check, asked, knew, warnings>>
  BY DEF SchemaSettles, Upgrade
<1>2. ingester' \in Deployed
  <2>1. CASE SchemaSettles
    BY <2>1, TypedCheck DEF SchemaSettles, Deployed
  <2>2. CASE Upgrade
    BY <2>2, TypedCheck DEF Upgrade, Deployed, Versions
  <2> QED
    BY <2>1, <2>2
<1>3. CompatTypes'
  BY <1>1, <1>2 DEF CompatInv, CompatTypes
<1>4. InfoSound(check.info)'
  BY <1>1, TypedCheck DEF InfoSound
<1>5. WarningsAreProven'
  BY <1>1, LackedStays DEF CompatInv, WarningsAreProven
<1> QED
  BY <1>1, <1>3, <1>4, <1>5 DEF CompatInv

LEMMA CompatSteps == CompatInv /\ [CompatNext]_compatVars => CompatInv'
<1> SUFFICES ASSUME CompatInv, [CompatNext]_compatVars PROVE CompatInv'
  OBVIOUS
<1>1. CASE Configure \/ EnsureConfigured
  BY <1>1, ConfiguredKeeps DEF Configure, EnsureConfigured
<1>2. CASE \E f \in Feature : NoteFeature(f)
  BY <1>2, NoteFeatureKeeps
<1>3. CASE \E request \in asked : RunCheck(request) \/ CheckAnswers(request) \/ ProbeAnswers(request)
  BY <1>3, RunCheckKeeps, CheckAnswersKeeps, ProbeAnswersKeeps
<1>4. CASE \E was \in lived, route \in CompatRoutes : Observe(was, route)
  BY <1>4, ObserveKeeps
<1>5. CASE \E features \in SUBSET BrowserFeature : RelayRejected(features)
  BY <1>5, RelayRejectedKeeps
<1>6. CASE SchemaSettles \/ Upgrade
  BY <1>6, DeploymentKeeps
<1>7. CASE UNCHANGED compatVars
  BY <1>7, IgnoredKeeps DEF compatVars
<1> QED
  BY <1>1, <1>2, <1>3, <1>4, <1>5, <1>6, <1>7 DEF CompatNext

(* What is known of the ingester was true of one that ran: the inductive      *)
(* invariant of the version check (compat.ts), for any features, routes,     *)
(* versions needed and order of the answers.                                 *)
THEOREM CompatInvariant == CompatSpec => []CompatInv
<1> QED
  BY CompatStarts, CompatSteps, PTL DEF CompatSpec

-----------------------------------------------------------------------------
(***************************************************************************)
(* Logger patches.                                                          *)
(***************************************************************************)
PatchesSpec == PatchesInit /\ [][PatchesNext]_patchVars

(* A source that is on is wired: but for a logger that was imported past the  *)
(* hook and waits for the next scan.                                         *)
SourcesWired ==
    /\ "console" \in sources => consolePatched
    /\ sources \cap Logger # {} => hooked
    /\ \A s \in sources \cap Logger : prototypes[s] = "loaded" => s \in imported
PatchesInv == PatchesTypeOK /\ SourcesWired /\ LoggedErrorsAreSeen

-----------------------------------------------------------------------------
LEMMA PatchedTypes ==
    ASSUME PatchesTypeOK
    PROVE  Patched \in [Logger -> {"absent", "loaded", "patched"}] /\ \A s \in Logger : Patched[s] # "loaded"
  BY DEF PatchesTypeOK, Patched

LEMMA PatchesStart == PatchesInit => PatchesInv
<1> SUFFICES ASSUME PatchesInit PROVE PatchesInv
  OBVIOUS
<1>1. sources = Off /\ prototypes \in [Logger -> {"absent", "loaded", "patched"}]
  BY DEF PatchesInit
<1>2. PatchesTypeOK
  <2>1. sources \in (SUBSET Source) \cup {Off}
    BY <1>1
  <2>2. scansLeft \in 0 .. CacheScans /\ starts \in 0 .. MaxStarts
    BY PatchAssumption DEF PatchesInit
  <2> QED
    BY <1>1, <2>1, <2>2 DEF PatchesInit, PatchesTypeOK
<1>3. SourcesWired
  BY <1>1, PatchAssumption DEF SourcesWired, Off
<1> QED
  BY <1>2, <1>3 DEF PatchesInv, PatchesInit, LoggedErrorsAreSeen

LEMMA StartsKeeps == ASSUME PatchesInv, Starts PROVE PatchesInv'
<1>1. PICK on \in SUBSET Source :
          /\ sources' = on /\ consolePatched' = (consolePatched \/ "console" \in on)
          /\ \/ on \cap Logger = {} /\ UNCHANGED <<prototypes, hooked, scansLeft, imported>>
             \/ /\ on \cap Logger # {}
                /\ prototypes' = Patched /\ imported' = {} /\ hooked' = TRUE
                /\ scansLeft' = IF hooked THEN scansLeft ELSE CacheScans
  BY DEF Starts, Scanned
<1>2. PatchesTypeOK
  BY DEF PatchesInv
<1>3. starts' \in 0 .. MaxStarts /\ unseen' = unseen
  BY <1>2, PatchAssumption DEF Starts, PatchesTypeOK
<1>4. CASE on \cap Logger = {} /\ UNCHANGED <<prototypes, hooked, scansLeft, imported>>
  BY <1>1, <1>2, <1>3, <1>4 DEF PatchesTypeOK, PatchesInv, SourcesWired, LoggedErrorsAreSeen
<1>5. CASE /\ prototypes' = Patched /\ imported' = {} /\ hooked' = TRUE
           /\ scansLeft' = IF hooked THEN scansLeft ELSE CacheScans
  <2>1. scansLeft' \in 0 .. CacheScans
    BY <1>2, <1>5, PatchAssumption DEF PatchesTypeOK
  <2>2. PatchesTypeOK'
    BY <1>1, <1>2, <1>3, <1>5, <2>1, PatchedTypes DEF PatchesTypeOK
  <2>3. SourcesWired'
    BY <1>1, <1>2, <1>5, PatchedTypes DEF SourcesWired
  <2> QED
    BY <1>3, <2>2, <2>3 DEF PatchesInv, LoggedErrorsAreSeen
<1> QED
  BY <1>1, <1>4, <1>5

LEMMA StopsKeeps == ASSUME PatchesInv, Stops PROVE PatchesInv'
<1>1. sources' = Off /\ UNCHANGED <<prototypes, consolePatched, hooked, scansLeft, starts, imported, unseen>>
  BY DEF Stops
<1>2. sources' \cap Logger = {} /\ "console" \notin sources'
  BY <1>1, PatchAssumption DEF Off
<1>3. PatchesTypeOK'
  BY <1>1 DEF PatchesInv, PatchesTypeOK
<1> QED
  BY <1>1, <1>2, <1>3 DEF PatchesInv, SourcesWired, LoggedErrorsAreSeen

LEMMA ScanFiresKeeps == ASSUME PatchesInv, ScanFires PROVE PatchesInv'
<1>1. PatchesTypeOK
  BY DEF PatchesInv
<1>2. scansLeft' \in 0 .. CacheScans
  BY <1>1, PatchAssumption DEF ScanFires, PatchesTypeOK
<1>3. prototypes' = Patched /\ imported' = {} /\ UNCHANGED <<sources, consolePatched, hooked, starts, unseen>>
  BY DEF ScanFires
<1>4. PatchesTypeOK'
  BY <1>1, <1>2, <1>3, PatchedTypes DEF PatchesTypeOK
<1>5. SourcesWired'
  BY <1>1, <1>3, PatchedTypes DEF PatchesInv, SourcesWired
<1> QED
  BY <1>3, <1>4, <1>5 DEF PatchesInv, LoggedErrorsAreSeen

LEMMA LoadsKeeps == ASSUME PatchesInv, NEW s \in Logger, Loads(s) PROVE PatchesInv'
<1>1. PICK required \in BOOLEAN :
          /\ prototypes' = [prototypes EXCEPT ![s] = LoadedAs(s, required)]
          /\ imported' = IF hooked /\ ~required THEN imported \cup {s} ELSE imported
  BY DEF Loads
<1>2. UNCHANGED <<sources, consolePatched, hooked, scansLeft, starts, unseen>> /\ PatchesTypeOK
  BY DEF Loads, PatchesInv
<1>3. LoadedAs(s, required) \in {"loaded", "patched"}
  BY DEF LoadedAs
<1>4. PatchesTypeOK'
  BY <1>1, <1>2, <1>3 DEF PatchesTypeOK
<1>5. SourcesWired'
  <2> SUFFICES ASSUME NEW l \in sources \cap Logger, prototypes'[l] = "loaded" PROVE l \in imported'
    BY <1>2 DEF PatchesInv, SourcesWired
  <2>1. CASE l = s
    BY <1>1, <1>2, <2>1 DEF PatchesInv, PatchesTypeOK, SourcesWired, LoadedAs
  <2>2. CASE l # s
    BY <1>1, <1>2, <2>2 DEF PatchesInv, PatchesTypeOK, SourcesWired
  <2> QED
    BY <2>1, <2>2
<1> QED
  BY <1>2, <1>4, <1>5 DEF PatchesInv, LoggedErrorsAreSeen

LEMMA LogsErrorKeeps == ASSUME PatchesInv, NEW s \in Source, LogsError(s) PROVE PatchesInv'
<1>1. UNCHANGED <<sources, prototypes, consolePatched, hooked, scansLeft, starts, imported>>
  BY DEF LogsError
<1>2. unseen' = IF s \in sources /\ ~Sees(s) THEN unseen \cup {<<s, s \in imported>>} ELSE unseen
  BY DEF LogsError
<1>3. s \in Logger => prototypes[s] \in {"loaded", "patched"}
  BY DEF LogsError, PatchesInv, PatchesTypeOK
<1>4. s \in sources /\ ~Sees(s) => s \in Logger /\ s \in imported
  BY <1>3 DEF Sees, Source, PatchesInv, SourcesWired
<1>5. LoggedErrorsAreSeen'
  <2>1. CASE s \in sources /\ ~Sees(s)
    <3>1. (s \in imported) = TRUE /\ s \in Logger
      BY <1>4, <2>1
    <3>2. <<s, s \in imported>> = <<s, TRUE>>
      BY <3>1
    <3>3. unseen' = unseen \cup {<<s, TRUE>>}
      BY <1>2, <2>1, <3>2
    <3>4. <<s, TRUE>> \in Logger \X {TRUE}
      BY <3>1
    <3>5. unseen \subseteq Logger \X {TRUE}
      BY DEF PatchesInv, LoggedErrorsAreSeen
    <3> QED
      BY ONLY <3>3, <3>4, <3>5 DEF LoggedErrorsAreSeen
  <2>2. CASE ~(s \in sources /\ ~Sees(s))
    BY <1>2, <2>2 DEF PatchesInv, LoggedErrorsAreSeen
  <2> QED
    BY <2>1, <2>2
<1>6. unseen' \subseteq Source \X BOOLEAN
  BY <1>5 DEF LoggedErrorsAreSeen, Source
<1>7. PatchesTypeOK'
  BY <1>1, <1>6 DEF PatchesInv, PatchesTypeOK
<1> QED
  BY <1>1, <1>5, <1>7 DEF PatchesInv, SourcesWired

LEMMA PatchesSteps == PatchesInv /\ [PatchesNext]_patchVars => PatchesInv'
<1> SUFFICES ASSUME PatchesInv, [PatchesNext]_patchVars PROVE PatchesInv'
  OBVIOUS
<1>1. CASE UNCHANGED patchVars
  BY <1>1 DEF patchVars, PatchesInv, PatchesTypeOK, SourcesWired, LoggedErrorsAreSeen
<1> QED
  BY <1>1, StartsKeeps, StopsKeeps, ScanFiresKeeps, LoadsKeeps, LogsErrorKeeps DEF PatchesNext

(* A source that is on is wired, whatever was loaded and started before, in   *)
(* any order (caught-errors.ts), for any loggers and bounds.                 *)
THEOREM PatchesInvariant == PatchesSpec => []PatchesInv
<1> QED
  BY PatchesStart, PatchesSteps, PTL DEF PatchesSpec

-----------------------------------------------------------------------------
(***************************************************************************)
(* Handled errors: who reports first.                                       *)
(***************************************************************************)
HandledSpec == HandledInit /\ [][HandledNext]_handledVars

(* What some path reported is captured.                                      *)
ReportsSound ==
    /\ reports \in [AppError -> Seq({"log", "degraded", "capture", "boundary"})]
    /\ \A e \in AppError : reports[e] # <<>> => e \in captured
ReportInv == ReportsSound /\ LogAndBoundaryReportFirst

-----------------------------------------------------------------------------
(* One more report of an error, and the others as they are.                  *)
LEMMA OneMoreReport ==
    ASSUME ReportInv, NEW e \in AppError, NEW how \in {"log", "degraded", "capture", "boundary"},
           how \in {"log", "boundary"} => e \notin captured,
           captured' = captured \cup {e}, Reported(e, how)
    PROVE  ReportInv'
<1>1. ReportsSound /\ LogAndBoundaryReportFirst /\ reports' = [reports EXCEPT ![e] = Append(reports[e], how)]
  BY DEF ReportInv, Reported
<1>2. reports[e] \in Seq({"log", "degraded", "capture", "boundary"})
  BY <1>1 DEF ReportsSound
<1>3. /\ Append(reports[e], how) \in Seq({"log", "degraded", "capture", "boundary"})
      /\ Append(reports[e], how) # <<>>
      /\ Len(Append(reports[e], how)) = Len(reports[e]) + 1
      /\ Append(reports[e], how)[Len(reports[e]) + 1] = how
      /\ \A i \in 1 .. Len(reports[e]) : Append(reports[e], how)[i] = reports[e][i]
  BY <1>2, AppendProperties
<1>4. ReportsSound'
  BY <1>1, <1>3 DEF ReportsSound
<1>5. LogAndBoundaryReportFirst'
  <2> SUFFICES ASSUME NEW d \in AppError, NEW i \in DOMAIN (reports'[d]), reports'[d][i] \in {"log", "boundary"}
               PROVE  i = 1
    BY DEF LogAndBoundaryReportFirst
  <2>1. CASE d # e
    BY <1>1, <2>1 DEF ReportsSound, LogAndBoundaryReportFirst
  <2>2. CASE d = e
    <3>1. reports'[e] = Append(reports[e], how)
      BY <1>1 DEF ReportsSound
    <3>2. i \in 1 .. Len(reports[e]) + 1 /\ Len(reports[e]) \in Nat
      BY <1>2, <1>3, <2>2, <3>1
    <3>3. CASE i = Len(reports[e]) + 1
      BY <1>3, <2>2, <3>1, <3>3, <1>1 DEF ReportsSound
    <3>4. CASE i # Len(reports[e]) + 1
      <4>1. i \in 1 .. Len(reports[e]) /\ i \in DOMAIN reports[e] /\ reports[e][i] \in {"log", "boundary"}
        BY <1>2, <1>3, <2>2, <3>1, <3>2, <3>4
      <4> QED
        BY <1>1, <4>1 DEF LogAndBoundaryReportFirst
    <3> QED
      BY <3>3, <3>4
  <2> QED
    BY <2>1, <2>2
<1> QED
  BY <1>4, <1>5 DEF ReportInv

(* No report: more errors may count as captured.                             *)
LEMMA NoReport ==
    ASSUME ReportInv, captured \subseteq captured', UNCHANGED reports PROVE ReportInv'
  BY DEF ReportInv, ReportsSound, LogAndBoundaryReportFirst

LEMMA ReportsStart == HandledInit => ReportInv
<1> SUFFICES ASSUME HandledInit PROVE ReportInv
  OBVIOUS
<1>1. <<>> \in Seq({"log", "degraded", "capture", "boundary"})
  OBVIOUS
<1>2. ReportsSound /\ \A e \in AppError : reports[e] = <<>>
  BY <1>1 DEF HandledInit, ReportsSound
<1>3. LogAndBoundaryReportFirst
  BY <1>2 DEF LogAndBoundaryReportFirst
<1> QED
  BY <1>2, <1>3 DEF ReportInv

LEMMA ReportSteps == ReportInv /\ [HandledNext]_handledVars => ReportInv'
<1> SUFFICES ASSUME ReportInv, [HandledNext]_handledVars PROVE ReportInv'
  OBVIOUS
<1>1. CASE ErrorTick \/ TailTimerFires \/ StopsCapture \/ StartsCapture
  BY <1>1, NoReport DEF ErrorTick, TailTimerFires, StopsCapture, StartsCapture
<1>2. ASSUME NEW e \in AppError, Logs(e) PROVE ReportInv'
  BY <1>2, NoReport DEF Logs
<1>3. ASSUME NEW e \in AppError, TickOver(e) PROVE ReportInv'
  BY NoReport, OneMoreReport, <1>3 DEF MayReport, TickOver
<1>4. ASSUME NEW e \in AppError, Degrades(e) PROVE ReportInv'
  BY NoReport, OneMoreReport, <1>4 DEF Degrades
<1>5. ASSUME NEW e \in AppError, Captures(e) PROVE ReportInv'
  BY <1>5, NoReport, OneMoreReport DEF Captures
<1>6. ASSUME NEW e \in AppError, ReachesBoundary(e) PROVE ReportInv'
  BY <1>6, OneMoreReport DEF ReachesBoundary
<1>7. CASE UNCHANGED handledVars
  BY <1>7, NoReport DEF handledVars
<1> QED
  BY <1>1, <1>2, <1>3, <1>4, <1>5, <1>6, <1>7 DEF HandledNext

(* An error some path reported is captured, whatever tick, call or boundary   *)
(* comes first, and what is captured no log line and no boundary reports      *)
(* (caught-errors.ts, captured.ts), for any errors and any burst limit.      *)
THEOREM ReportInvariant == HandledSpec => []ReportInv
<1> QED
  BY ReportsStart, ReportSteps, PTL DEF HandledSpec

-----------------------------------------------------------------------------
(***************************************************************************)
(* Handled errors: what the burst limit leaves out.                         *)
(***************************************************************************)
(* The limiter keeps one bucket for each kind, and no more than it may.       *)
BucketsOf(l) == {l.buckets[i] : i \in DOMAIN l.buckets}
LimiterSound(l) ==
    /\ l \in Limiter /\ Len(l.buckets) <= MaxKinds
    /\ \A i, j \in DOMAIN l.buckets : l.buckets[i].key = l.buckets[j].key => i = j
(* What is held waits for a token its bucket lacks, since no later than its     *)
(* history says: the parts it has were gained since then.                    *)
BucketTimed(b, since, now) ==
    /\ b.at <= now
    /\ b.dropped > 0 => b.tokens < RefillTime /\ since # NoTimer /\ b.at <= since + b.tokens
SinceTimed(since, timer) ==
    since # NoTimer => timer # NoTimer /\ timer <= since + RefillTime
HistoryOf == [LimitKey -> Nat \cup {NoTimer}]
HeldInv ==
    /\ errorTime \in Nat /\ tailTimer \in Nat \cup {NoTimer}
    /\ leftOut \in [LimitKey -> Nat] /\ carried \in [LimitKey -> Nat]
    /\ heldSince \in [bucket : HistoryOf, evicted : HistoryOf]
    /\ LimiterSound(limiter)
    /\ \A b \in BucketsOf(limiter) : BucketTimed(b, heldSince.bucket[b.key], errorTime)
    /\ \A k \in LimitKey :
         /\ BucketHolds(limiter, k) > 0 <=> heldSince.bucket[k] # NoTimer
         /\ limiter.evicted[k] > 0 <=> heldSince.evicted[k] # NoTimer
         /\ SinceTimed(heldSince.bucket[k], tailTimer) /\ SinceTimed(heldSince.evicted[k], tailTimer)
    /\ tailTimer # NoTimer => errorTime <= tailTimer /\ tailTimer <= errorTime + RefillTime
    /\ CountsCarriedOnce

-----------------------------------------------------------------------------
LEMMA MinOfTwo ==
    ASSUME NEW a \in Int, NEW b \in Int PROVE Min({a, b}) = IF a <= b THEN a ELSE b
<1>1. \E x \in {a, b} : \A y \in {a, b} : x <= y
  OBVIOUS
<1>2. Min({a, b}) \in {a, b} /\ \A y \in {a, b} : Min({a, b}) <= y
  BY <1>1 DEF Min
<1> HIDE DEF Min
<1> QED
  BY <1>2

LEMMA MaxOfTwo ==
    ASSUME NEW a \in Int, NEW b \in Int PROVE Max({a, b}) = IF a >= b THEN a ELSE b
  BY DEF Max

LEMMA Sizes == /\ RefillTime \in Nat /\ RefillTime > 0 /\ MaxKinds \in Nat /\ MaxKinds > 0
               /\ BurstSize * RefillTime \in Nat /\ RefillTime <= BurstSize * RefillTime
<1>1. BurstSize \in Nat \ {0} /\ RefillTime \in Nat \ {0} /\ MaxKinds \in Nat \ {0}
  BY BurstAssumption
<1>2. PICK n \in Nat : BurstSize = n + 1
  BY <1>1
<1>3. BurstSize * RefillTime = n * RefillTime + RefillTime /\ n * RefillTime \in Nat
  BY <1>1, <1>2
<1> QED
  BY <1>1, <1>3

(* A refill: the time and the parts gained with it, up to the size.          *)
LEMMA RefillFacts ==
    ASSUME NEW b \in Bucket, NEW now \in Nat, b.at <= now
    PROVE  /\ Refilled(b, now) \in Bucket
           /\ Refilled(b, now).key = b.key /\ Refilled(b, now).dropped = b.dropped
           /\ Refilled(b, now).at = now
           /\ Refilled(b, now).tokens < RefillTime =>
                 b.tokens < RefillTime /\ now = b.at + Refilled(b, now).tokens - b.tokens
<1> DEFINE size == BurstSize * RefillTime
           full == b.tokens + now - b.at
           tokens == Min({size, full})
<1>1. b.tokens \in 0 .. size /\ b.at \in Nat /\ b.dropped \in Nat /\ b.key \in LimitKey
  BY DEF Bucket
<1>2. size \in Nat /\ RefillTime \in Nat /\ RefillTime <= size
  BY Sizes
<1>3. full \in Nat
  <2> HIDE DEF size
  <2> QED
    BY <1>1, <1>2
<1>4. tokens = IF size <= full THEN size ELSE full
  <2> HIDE DEF size, full
  <2> QED
    BY <1>2, <1>3, MinOfTwo
<1>5. Refilled(b, now) = [b EXCEPT !.tokens = tokens, !.at = now]
  BY DEF Refilled
<1>6. tokens \in 0 .. size /\ (tokens < RefillTime => tokens = full)
  <2> HIDE DEF size, full, tokens
  <2> QED
    BY <1>2, <1>3, <1>4
<1>7. tokens < RefillTime => b.tokens < RefillTime /\ now = b.at + tokens - b.tokens
  <2> HIDE DEF size, tokens
  <2> QED
    BY <1>1, <1>2, <1>6
<1>8. Refilled(b, now) = [key |-> b.key, tokens |-> tokens, at |-> now, dropped |-> b.dropped]
  <2> HIDE DEF tokens
  <2> QED
    BY <1>5 DEF Bucket
<1> HIDE DEF tokens, size
<1> QED
  BY <1>1, <1>6, <1>7, <1>8 DEF Bucket, size

(* A kind's bucket is the one at its place.                                  *)
LEMMA BucketAt ==
    ASSUME NEW l, LimiterSound(l)
    PROVE  /\ \A k : IndexesOf(l, k) # {} =>
                 PlaceOf(l, k) \in DOMAIN l.buckets /\ l.buckets[PlaceOf(l, k)].key = k
                 /\ IndexesOf(l, k) = {PlaceOf(l, k)}
           /\ \A b \in BucketsOf(l) : IndexesOf(l, b.key) # {} /\ l.buckets[PlaceOf(l, b.key)] = b
                                      /\ BucketHolds(l, b.key) = b.dropped /\ b \in Bucket
           /\ \A k : (\A b \in BucketsOf(l) : b.key # k) => IndexesOf(l, k) = {} /\ BucketHolds(l, k) = 0
<1>1. \A i, j \in DOMAIN l.buckets : l.buckets[i].key = l.buckets[j].key => i = j
  BY DEF LimiterSound
<1>2. l.buckets \in Seq(Bucket)
  BY DEF LimiterSound, Limiter
<1>3. ASSUME NEW k, IndexesOf(l, k) # {}
      PROVE  PlaceOf(l, k) \in DOMAIN l.buckets /\ l.buckets[PlaceOf(l, k)].key = k
             /\ IndexesOf(l, k) = {PlaceOf(l, k)}
  BY <1>3, <1>1 DEF PlaceOf, IndexesOf
<1>4. ASSUME NEW b \in BucketsOf(l)
      PROVE  IndexesOf(l, b.key) # {} /\ l.buckets[PlaceOf(l, b.key)] = b
             /\ BucketHolds(l, b.key) = b.dropped /\ b \in Bucket
  <2>1. PICK i \in DOMAIN l.buckets : b = l.buckets[i]
    BY DEF BucketsOf
  <2>2. i \in IndexesOf(l, b.key)
    BY <2>1 DEF IndexesOf
  <2>3. PlaceOf(l, b.key) = i
    BY <1>3, <2>2
  <2> QED
    BY <1>2, <2>1, <2>2, <2>3 DEF BucketHolds
<1>5. ASSUME NEW k, \A b \in BucketsOf(l) : b.key # k PROVE IndexesOf(l, k) = {} /\ BucketHolds(l, k) = 0
  BY <1>5 DEF BucketsOf, IndexesOf, BucketHolds
<1> QED
  BY <1>3, <1>4, <1>5

LEMMA HoldsType ==
    ASSUME NEW l, LimiterSound(l), NEW k \in LimitKey
    PROVE  BucketHolds(l, k) \in Nat /\ l.evicted[k] \in Nat /\ Held(l, k) \in Nat
           /\ Held(l, k) = l.evicted[k] + BucketHolds(l, k)
<1>1. l.buckets \in Seq(Bucket) /\ l.evicted[k] \in Nat
  BY DEF LimiterSound, Limiter
<1>2. BucketHolds(l, k) \in Nat
  <2>1. CASE IndexesOf(l, k) = {}
    BY <2>1 DEF BucketHolds
  <2>2. CASE IndexesOf(l, k) # {}
    BY <2>2, BucketAt, <1>1 DEF BucketHolds, Bucket
  <2> QED
    BY <2>1, <2>2
<1> QED
  BY <1>1, <1>2 DEF Held

-----------------------------------------------------------------------------
(* The buckets when that of a kind is taken out and put back at the end.     *)
Others(l, key) ==
    IF IndexesOf(l, key) = {} THEN l.buckets ELSE RemoveAt(l.buckets, PlaceOf(l, key))

LEMMA OthersFacts ==
    ASSUME NEW l, LimiterSound(l), NEW key \in LimitKey
    PROVE  /\ Others(l, key) \in Seq(Bucket) /\ Len(Others(l, key)) <= MaxKinds
           /\ \A i, j \in DOMAIN Others(l, key) : Others(l, key)[i].key = Others(l, key)[j].key => i = j
           /\ {Others(l, key)[i] : i \in DOMAIN Others(l, key)} = {b \in BucketsOf(l) : b.key # key}
<1> DEFINE q == l.buckets
           p == PlaceOf(l, key)
           o == Others(l, key)
<1>1. q \in Seq(Bucket) /\ Len(q) <= MaxKinds /\ \A i, j \in DOMAIN q : q[i].key = q[j].key => i = j
  BY DEF LimiterSound, Limiter
<1>2. CASE IndexesOf(l, key) = {}
  BY <1>2, <1>1 DEF Others, IndexesOf, BucketsOf
<1>3. CASE IndexesOf(l, key) # {}
  <2>1. p \in 1 .. Len(q) /\ q[p].key = key /\ MaxKinds \in Nat /\ Len(q) \in Nat
    BY <1>1, <1>3, BucketAt, Sizes
  <2>2. o = RemoveAt(q, p)
    BY <1>3 DEF Others
  <2> HIDE DEF o, p, q
  <2>3. /\ o \in Seq(Bucket) /\ Len(o) = Len(q) - 1
        /\ \A j \in 1 .. Len(q) - 1 : o[j] = IF j < p THEN q[j] ELSE q[j + 1]
    BY <1>1, <2>1, <2>2, RemoveAtFacts
  <2>4. DOMAIN o = 1 .. Len(q) - 1 /\ DOMAIN q = 1 .. Len(q)
    BY <1>1, <2>3
  <2>5. ASSUME NEW i \in DOMAIN o, NEW j \in DOMAIN o, o[i].key = o[j].key PROVE i = j
    <3> DEFINE f(n) == IF n < p THEN n ELSE n + 1
    <3>1. f(i) \in DOMAIN q /\ f(j) \in DOMAIN q /\ o[i] = q[f(i)] /\ o[j] = q[f(j)]
      BY <2>1, <2>3, <2>4
    <3>2. f(i) = f(j)
      <4> HIDE DEF f
      <4> QED
        BY <1>1, <2>5, <3>1
    <3> QED
      BY <2>1, <2>4, <3>2
  <2>6. ASSUME NEW i \in DOMAIN o PROVE \E j \in DOMAIN q : j # p /\ o[i] = q[j]
    <3>1. CASE i < p
      BY <2>1, <2>3, <2>4, <3>1
    <3>2. CASE ~(i < p)
      BY <2>1, <2>3, <2>4, <3>2
    <3> QED
      BY <3>1, <3>2
  <2>7. ASSUME NEW j \in DOMAIN q, j # p PROVE \E i \in DOMAIN o : o[i] = q[j]
    <3>1. CASE j < p
      BY <2>1, <2>3, <2>4, <3>1
    <3>2. CASE ~(j < p)
      <4>1. j - 1 \in DOMAIN o /\ o[j - 1] = q[j]
        BY <2>1, <2>3, <2>4, <2>7, <3>2
      <4> QED
        BY <4>1
    <3> QED
      BY <3>1, <3>2
  <2>8. \A j \in DOMAIN q : q[j].key # key <=> j # p
    BY <1>1, <2>1, <2>4
  <2>9. {o[i] : i \in DOMAIN o} = {b \in {q[i] : i \in DOMAIN q} : b.key # key}
    BY <2>6, <2>7, <2>8
  <2>10. Len(o) <= MaxKinds
    BY <1>1, <2>1, <2>3
  <2> QED
    BY <2>3, <2>5, <2>9, <2>10 DEF o, q, BucketsOf
<1> QED
  BY <1>2, <1>3

Appended(l, key, after) == Append(Others(l, key), after)
Unforgotten(o, l, key, after) ==
    /\ o \in Seq(Bucket) /\ Len(o) <= MaxKinds + 1
    /\ \A i, j \in DOMAIN o : o[i].key = o[j].key => i = j
    /\ {o[i] : i \in DOMAIN o} = {b \in BucketsOf(l) : b.key # key} \cup {after}
    /\ Len(o) > 0 /\ o[Len(o)] = after

LEMMA AppendedFacts ==
    ASSUME NEW l, LimiterSound(l), NEW key \in LimitKey, NEW after \in Bucket, after.key = key
    PROVE  Unforgotten(Appended(l, key, after), l, key, after)
<1> DEFINE q == Others(l, key)
           o == Appended(l, key, after)
<1>1. /\ q \in Seq(Bucket) /\ Len(q) <= MaxKinds /\ MaxKinds \in Nat
      /\ \A i, j \in DOMAIN q : q[i].key = q[j].key => i = j
      /\ {q[i] : i \in DOMAIN q} = {b \in BucketsOf(l) : b.key # key}
  BY OthersFacts, Sizes
<1>2. o = Append(q, after)
  BY DEF Appended
<1> HIDE DEF q, o
<1>3. /\ o \in Seq(Bucket) /\ Len(o) = Len(q) + 1 /\ Len(q) \in Nat
      /\ DOMAIN o = 1 .. Len(q) + 1 /\ DOMAIN q = 1 .. Len(q)
      /\ \A i \in 1 .. Len(q) : o[i] = q[i]
      /\ o[Len(q) + 1] = after
  BY <1>1, <1>2, AppendProperties
<1>4. \A i \in DOMAIN q : q[i].key # key
  BY <1>1
<1>5. ASSUME NEW i \in DOMAIN o, NEW j \in DOMAIN o, o[i].key = o[j].key PROVE i = j
  BY <1>1, <1>3, <1>5, <1>4
<1>6. {o[i] : i \in DOMAIN o} = {q[i] : i \in DOMAIN q} \cup {after}
  BY <1>3
<1>7. Len(o) <= MaxKinds + 1 /\ Len(o) > 0 /\ o[Len(o)] = after
  BY <1>1, <1>3
<1>8. Unforgotten(o, l, key, after)
  BY <1>1, <1>3, <1>5, <1>6, <1>7 DEF Unforgotten
<1> QED
  BY <1>8 DEF o

(* take(): the kind's bucket as it is after it; at the limit another kind's    *)
(* bucket goes, and its count stays.                                         *)
AfterTake(l, key, now) ==
    LET bucket == BucketOf(l, key, now) IN
    IF Sends(l, key, now) THEN [bucket EXCEPT !.tokens = @ - RefillTime, !.dropped = 0]
    ELSE [bucket EXCEPT !.dropped = @ + 1]

TakenTo(L, l, key, after) ==
    LET rest == {b \in BucketsOf(l) : b.key # key} IN
    \/ BucketsOf(L) = rest \cup {after} /\ L.evicted = l.evicted
    \/ \E gone \in rest :
          /\ BucketsOf(L) = (rest \ {gone}) \cup {after}
          /\ L.evicted = [l.evicted EXCEPT ![gone.key] = l.evicted[gone.key] + gone.dropped]

LEMMA TakenFacts ==
    ASSUME NEW l, LimiterSound(l), NEW key \in LimitKey, NEW now \in Nat,
           AfterTake(l, key, now) \in Bucket, AfterTake(l, key, now).key = key
    PROVE  LimiterSound(Taken(l, key, now)) /\ TakenTo(Taken(l, key, now), l, key, AfterTake(l, key, now))
<1> DEFINE L == Taken(l, key, now)
           after == AfterTake(l, key, now)
           rest == {b \in BucketsOf(l) : b.key # key}
           o == Appended(l, key, after)
           x == [l EXCEPT !.buckets = o]
<1>1. L = Forgetting(x)
  BY DEF Taken, AfterTake, Others, Appended
<1>0. after \in Bucket /\ after.key = key
  OBVIOUS
<1>2. /\ o \in Seq(Bucket) /\ Len(o) <= MaxKinds + 1
      /\ \A i, j \in DOMAIN o : o[i].key = o[j].key => i = j
      /\ {o[i] : i \in DOMAIN o} = rest \cup {after}
      /\ Len(o) > 0 /\ o[Len(o)] = after
  <2>1. Unforgotten(o, l, key, after)
    BY AppendedFacts
  <2> HIDE DEF o
  <2> QED
    BY <2>1 DEF Unforgotten
<1>3. x = [buckets |-> o, evicted |-> l.evicted] /\ l.evicted \in [LimitKey -> Nat] /\ MaxKinds \in Nat /\ MaxKinds > 0
  <2> HIDE DEF o
  <2> QED
    BY Sizes DEF LimiterSound, Limiter
<1> HIDE DEF o, x, L, rest, after
<1>4. CASE Len(o) <= MaxKinds
  BY <1>1, <1>3, <1>4, <1>2 DEF Forgetting, LimiterSound, Limiter, BucketsOf, L, rest, after, TakenTo
<1>5. CASE ~(Len(o) <= MaxKinds)
  <2> DEFINE gone == Head(o)
             t == Tail(o)
             ev == [l.evicted EXCEPT ![gone.key] = l.evicted[gone.key] + gone.dropped]
  <2>1. L = [buckets |-> t, evicted |-> ev]
    BY <1>1, <1>3, <1>5 DEF Forgetting
  <2>2. /\ t \in Seq(Bucket) /\ Len(t) = Len(o) - 1 /\ gone = o[1] /\ gone \in Bucket
        /\ \A i \in 1 .. Len(o) - 1 : t[i] = o[i + 1]
        /\ Len(o) = MaxKinds + 1 /\ Len(o) \in Nat /\ DOMAIN o = 1 .. Len(o) /\ DOMAIN t = 1 .. Len(o) - 1
    BY <1>2, HeadTailProperties, <1>3, <1>5
  <2> HIDE DEF t, gone
  <2>3. gone.key # key /\ gone \in rest
    BY <1>3, <2>2, <1>0, <1>2
  <2>4. gone.key \in LimitKey /\ gone.dropped \in Nat
    BY <2>2 DEF Bucket
  <2>5. ev \in [LimitKey -> Nat]
    BY <1>3, <2>4
  <2> HIDE DEF ev
  <2>6. ASSUME NEW i \in DOMAIN t, NEW j \in DOMAIN t, t[i].key = t[j].key PROVE i = j
    <3>1. i + 1 \in DOMAIN o /\ j + 1 \in DOMAIN o /\ t[i] = o[i + 1] /\ t[j] = o[j + 1]
      BY <2>2
    <3>2. i + 1 = j + 1
      BY <1>2, <2>6, <3>1
    <3> QED
      BY <2>2, <3>2
  <2>7. LimiterSound(L)
    BY <1>3, <2>2, <2>1, <2>5, <2>6 DEF LimiterSound, Limiter
  <2>8. {t[i] : i \in DOMAIN t} = (rest \ {gone}) \cup {after}
    <3>1. ASSUME NEW i \in DOMAIN t PROVE t[i] \in (rest \ {gone}) \cup {after}
      <4>1. i + 1 \in DOMAIN o /\ 1 \in DOMAIN o /\ t[i] = o[i + 1] /\ i + 1 # 1
        BY <2>2
      <4>2. t[i] # gone
        BY <1>2, <2>2, <4>1
      <4> QED
        BY <1>2, <4>1, <4>2
    <3>2. ASSUME NEW b \in (rest \ {gone}) \cup {after} PROVE \E i \in DOMAIN t : t[i] = b
      <4>1. b # gone
        BY <1>0, <2>3
      <4>2. PICK j \in DOMAIN o : o[j] = b
        BY <1>2
      <4>3. j - 1 \in DOMAIN t /\ t[j - 1] = b
        BY <2>2, <4>1, <4>2
      <4> QED
        BY <4>3
    <3> QED
      BY <3>1, <3>2
  <2>9. BucketsOf(L) = (rest \ {gone}) \cup {after} /\ L.evicted = ev
    BY <2>1, <2>8 DEF BucketsOf
  <2> QED
    BY <2>3, <2>7, <2>9 DEF L, rest, ev, after, TakenTo
<1> QED
  BY <1>4, <1>5

(* What take() makes of the kind's bucket.                                   *)
LEMMA TakesToken ==
    ASSUME NEW l, LimiterSound(l), NEW key \in LimitKey, NEW now \in Nat,
           \A b \in BucketsOf(l) : b.at <= now
    PROVE  LET after == AfterTake(l, key, now) IN
           /\ after \in Bucket /\ after.key = key /\ after.at = now
           /\ Carries(l, key, now) = BucketHolds(l, key)
           /\ Sends(l, key, now) => after.dropped = 0
           /\ ~Sends(l, key, now) =>
                 /\ after.dropped = BucketHolds(l, key) + 1 /\ after.tokens < RefillTime
                 /\ \A b \in BucketsOf(l) : b.key = key => now = b.at + after.tokens - b.tokens
<1> DEFINE bucket == BucketOf(l, key, now)
           after == AfterTake(l, key, now)
<1>1. /\ bucket \in Bucket /\ bucket.key = key /\ bucket.at = now /\ bucket.dropped = BucketHolds(l, key)
      /\ bucket.tokens < RefillTime =>
           \A b \in BucketsOf(l) : b.key = key => now = b.at + bucket.tokens - b.tokens
  <2>1. CASE IndexesOf(l, key) = {}
    <3>1. bucket = [key |-> key, tokens |-> BurstSize * RefillTime, at |-> now, dropped |-> 0]
      BY <2>1 DEF BucketOf
    <3>2. BucketHolds(l, key) = 0
      BY <2>1 DEF BucketHolds
    <3>3. BurstSize * RefillTime \in 0 .. (BurstSize * RefillTime) /\ ~(BurstSize * RefillTime < RefillTime)
      BY Sizes
    <3> HIDE DEF bucket
    <3> QED
      BY <3>1, <3>2, <3>3 DEF Bucket
  <2>2. CASE IndexesOf(l, key) # {}
    <3> DEFINE old == l.buckets[PlaceOf(l, key)]
    <3>1. bucket = Refilled(old, now)
      BY <2>2 DEF BucketOf
    <3>2. old \in BucketsOf(l) /\ old.key = key
      BY <2>2, BucketAt DEF BucketsOf
    <3>3. old \in Bucket /\ BucketHolds(l, key) = old.dropped /\ \A b \in BucketsOf(l) : b.key = key => b = old
      <4> HIDE DEF old
      <4>1. ASSUME NEW b \in BucketsOf(l), b.key = key PROVE b = old
        BY <4>1, BucketAt DEF old
      <4> QED
        BY <3>2, <4>1, BucketAt
    <3> HIDE DEF bucket, old
    <3> QED
      BY <3>1, <3>2, <3>3, RefillFacts
  <2> QED
    BY <2>1, <2>2
<1>2. Carries(l, key, now) = BucketHolds(l, key) /\ (Sends(l, key, now) <=> bucket.tokens >= RefillTime)
  BY <1>1 DEF Carries, Sends
<1>3. /\ Sends(l, key, now) => after = [bucket EXCEPT !.tokens = bucket.tokens - RefillTime, !.dropped = 0]
      /\ ~Sends(l, key, now) => after = [bucket EXCEPT !.dropped = bucket.dropped + 1]
  BY DEF AfterTake
<1> HIDE DEF bucket, after
<1>4. /\ bucket.tokens \in 0 .. (BurstSize * RefillTime) /\ bucket.at \in Nat /\ bucket.dropped \in Nat
      /\ bucket = [key |-> bucket.key, tokens |-> bucket.tokens, at |-> bucket.at, dropped |-> bucket.dropped]
  BY <1>1 DEF Bucket
<1>5. CASE Sends(l, key, now)
  <2>1. after = [key |-> key, tokens |-> bucket.tokens - RefillTime, at |-> now, dropped |-> 0]
    BY <1>1, <1>3, <1>4, <1>5
  <2>2. bucket.tokens - RefillTime \in 0 .. (BurstSize * RefillTime)
    <3> DEFINE size == BurstSize * RefillTime
    <3>1. size \in Nat /\ bucket.tokens \in 0 .. size /\ RefillTime \in Nat /\ bucket.tokens >= RefillTime
      BY <1>2, <1>4, <1>5, Sizes
    <3> HIDE DEF size
    <3>2. bucket.tokens - RefillTime \in 0 .. size
      BY <3>1
    <3> QED
      BY <3>2 DEF size
  <2>3. after \in Bucket /\ after.key = key /\ after.at = now /\ after.dropped = 0
    BY <2>1, <2>2 DEF Bucket
  <2> QED
    BY <1>2, <1>5, <2>3 DEF after
<1>6. CASE ~Sends(l, key, now)
  <2>1. after = [key |-> key, tokens |-> bucket.tokens, at |-> now, dropped |-> bucket.dropped + 1]
    BY <1>1, <1>3, <1>4, <1>6
  <2>2. after \in Bucket /\ after.key = key /\ after.at = now /\ after.dropped = bucket.dropped + 1
        /\ after.tokens = bucket.tokens
    BY <1>4, <2>1 DEF Bucket
  <2>3. bucket.tokens < RefillTime
    <3> DEFINE size == BurstSize * RefillTime
    <3>1. size \in Nat /\ bucket.tokens \in 0 .. size /\ RefillTime \in Nat /\ ~(bucket.tokens >= RefillTime)
      BY <1>2, <1>4, <1>6, Sizes
    <3> HIDE DEF size
    <3> QED
      BY <3>1
  <2> QED
    BY <1>1, <1>2, <1>6, <2>2, <2>3 DEF after
<1> QED
  BY <1>5, <1>6

-----------------------------------------------------------------------------
(* drain(): a bucket keeps its count only without a token, and waits on.      *)
DrainedBucket(b, now, all) ==
    IF b.dropped = 0 THEN b
    ELSE [Refilled(b, now) EXCEPT !.dropped = IF Drains(b, now, all) THEN 0 ELSE @]

LEMMA DrainedBucketFacts ==
    ASSUME NEW b \in Bucket, NEW now \in Nat, b.at <= now, NEW all \in BOOLEAN
    PROVE  LET d == DrainedBucket(b, now, all) IN
           /\ d \in Bucket /\ d.key = b.key /\ d.at <= now
           /\ d.dropped = IF Drains(b, now, all) THEN 0 ELSE b.dropped
           /\ d.dropped > 0 => ~all /\ d.tokens < RefillTime /\ d.at = b.at + d.tokens - b.tokens
<1> DEFINE d == DrainedBucket(b, now, all)
           r == Refilled(b, now)
<1>1. /\ r \in Bucket /\ r.key = b.key /\ r.dropped = b.dropped /\ r.at = now
      /\ r.tokens < RefillTime => b.tokens < RefillTime /\ now = b.at + r.tokens - b.tokens
  BY RefillFacts
<1>2. Drains(b, now, all) <=> b.dropped > 0 /\ (all \/ r.tokens >= RefillTime)
  BY DEF Drains
<1>3. b.dropped = 0 => d = b
  BY DEF DrainedBucket
<1>4. b.dropped # 0 => d = [r EXCEPT !.dropped = IF Drains(b, now, all) THEN 0 ELSE r.dropped]
  BY DEF DrainedBucket
<1> HIDE DEF d, r
<1>5. b.dropped \in Nat /\ r.tokens \in Int
  BY <1>1, Sizes DEF Bucket
<1>6. CASE b.dropped = 0
  <2>1. ~Drains(b, now, all)
    BY <1>2, <1>6
  <2> QED
    BY <1>3, <1>6, <2>1 DEF d
<1>7. CASE b.dropped # 0
  <2> DEFINE n == IF Drains(b, now, all) THEN 0 ELSE b.dropped
  <2>1. n \in Nat
    BY <1>5
  <2>2. d = [key |-> b.key, tokens |-> r.tokens, at |-> now, dropped |-> n]
    BY <1>1, <1>4, <1>7 DEF Bucket
  <2>3. n > 0 => ~all /\ r.tokens < RefillTime
    <3>1. RefillTime \in Int
      BY Sizes
    <3> QED
      BY <1>2, <1>5, <3>1
  <2> HIDE DEF n
  <2>4. d \in Bucket /\ d.key = b.key /\ d.at = now /\ d.dropped = n /\ d.tokens = r.tokens
    BY <1>1, <2>1, <2>2 DEF Bucket
  <2> QED
    BY <1>1, <2>3, <2>4 DEF d, n
<1> QED
  BY <1>6, <1>7

LEMMA DrainedFacts ==
    ASSUME NEW l, LimiterSound(l), NEW now \in Nat, \A b \in BucketsOf(l) : b.at <= now,
           NEW all \in BOOLEAN
    PROVE  LET D == Drained(l, now, all) IN
           /\ LimiterSound(D) /\ \A k \in LimitKey : D.evicted[k] = 0
           /\ BucketsOf(D) = {DrainedBucket(b, now, all) : b \in BucketsOf(l)}
           /\ \A k \in LimitKey :
                /\ Tails(l, now, all)[k] \in Nat
                /\ Tails(l, now, all)[k] + BucketHolds(D, k) = Held(l, k)
                /\ BucketHolds(D, k) > 0 => BucketHolds(l, k) > 0 /\ ~all
<1> DEFINE D == Drained(l, now, all)
           q == l.buckets
           p == [i \in DOMAIN q |-> DrainedBucket(q[i], now, all)]
<1>1. D = [buckets |-> p, evicted |-> [k \in LimitKey |-> 0]]
  BY DEF Drained, DrainedBucket
<1>2. q \in Seq(Bucket) /\ Len(q) <= MaxKinds /\ \A i, j \in DOMAIN q : q[i].key = q[j].key => i = j
  BY DEF LimiterSound, Limiter
<1>3. \A i \in DOMAIN q : q[i] \in Bucket /\ q[i].at <= now
  BY <1>2 DEF BucketsOf
<1>4. \A i \in DOMAIN q : p[i] = DrainedBucket(q[i], now, all) /\ p[i] \in Bucket /\ p[i].key = q[i].key
  BY <1>3, DrainedBucketFacts
<1>5. p \in Seq(Bucket) /\ DOMAIN p = DOMAIN q /\ Len(p) = Len(q)
  <2>1. DOMAIN q = 1 .. Len(q) /\ Len(q) \in Nat
    BY <1>2
  <2> HIDE DEF q
  <2>2. p \in [1 .. Len(q) -> Bucket]
    BY <1>4, <2>1
  <2> QED
    BY <2>1, <2>2
<1>6. BucketsOf(D) = {DrainedBucket(b, now, all) : b \in BucketsOf(l)}
  BY <1>1 DEF BucketsOf
<1> HIDE DEF p, q, D
<1>7. LimiterSound(D) /\ \A k \in LimitKey : D.evicted[k] = 0
  BY <1>2, <1>4, <1>5, <1>1 DEF LimiterSound, Limiter
<1>8. ASSUME NEW k \in LimitKey
      PROVE  /\ Tails(l, now, all)[k] \in Nat
             /\ Tails(l, now, all)[k] + BucketHolds(D, k) = Held(l, k)
             /\ BucketHolds(D, k) > 0 => BucketHolds(l, k) > 0 /\ ~all
  <2> DEFINE i == PlaceOf(l, k)
             drains == \E j \in IndexesOf(l, k) : Drains(q[j], now, all)
  <2>1. Tails(l, now, all)[k] = l.evicted[k] + IF drains THEN q[i].dropped ELSE 0
    BY DEF Tails, q
  <2>2. l.evicted[k] \in Nat /\ Held(l, k) = l.evicted[k] + BucketHolds(l, k) /\ BucketHolds(l, k) \in Nat
    BY HoldsType
  <2>3. CASE IndexesOf(l, k) = {}
    <3>1. ~drains /\ BucketHolds(l, k) = 0
      BY <2>3 DEF BucketHolds
    <3>2. IndexesOf(D, k) = {}
      BY <1>1, <1>4, <1>5, <2>3 DEF IndexesOf, q
    <3>3. BucketHolds(D, k) = 0
      BY <3>2 DEF BucketHolds
    <3> HIDE DEF drains
    <3> QED
      BY <2>1, <2>2, <3>1, <3>3
  <2>4. CASE IndexesOf(l, k) # {}
    <3>1. i \in DOMAIN q /\ q[i].key = k /\ IndexesOf(l, k) = {i} /\ BucketHolds(l, k) = q[i].dropped
      BY <2>4, BucketAt DEF q, BucketHolds
    <3>2. drains <=> Drains(q[i], now, all)
      BY <3>1
    <3> HIDE DEF i, drains
    <3>3. p[i] \in BucketsOf(D) /\ p[i].key = k
      BY <1>1, <1>4, <1>5, <3>1 DEF BucketsOf
    <3>4. BucketHolds(D, k) = p[i].dropped
      BY <1>7, <3>3, BucketAt
    <3>5. /\ p[i].dropped = IF drains THEN 0 ELSE q[i].dropped
          /\ p[i].dropped > 0 => ~all
      BY <1>3, <1>4, <3>1, <3>2, DrainedBucketFacts
    <3> QED
      BY <2>1, <2>2, <3>1, <3>4, <3>5
  <2> QED
    BY <2>3, <2>4
<1> QED
  BY <1>6, <1>7, <1>8 DEF D

-----------------------------------------------------------------------------
(* nextDrainAt(): no later than any count's token, and soon.                  *)
LEMMA NextFacts ==
    ASSUME NEW l, LimiterSound(l), Pending(l), NEW now \in Nat,
           \A b \in BucketsOf(l) : b.at <= now /\ (b.dropped > 0 => b.tokens < RefillTime)
    PROVE  /\ NextDrainAt(l) \in Nat /\ NextDrainAt(l) <= now + RefillTime
           /\ \A b \in BucketsOf(l) : b.dropped > 0 => NextDrainAt(l) <= b.at + RefillTime - b.tokens
<1> DEFINE q == l.buckets
           J == {j \in DOMAIN q : q[j].dropped > 0}
           at(b) == b.at + Max({0, RefillTime - b.tokens})
           S == {at(q[i]) : i \in J}
<1>1. q \in Seq(Bucket) /\ l.evicted \in [LimitKey -> Nat]
  BY DEF LimiterSound, Limiter
<1>2. \A j \in J : /\ q[j] \in BucketsOf(l) /\ q[j] \in Bucket /\ q[j].at <= now /\ q[j].tokens < RefillTime
                   /\ q[j].at \in Nat /\ q[j].tokens \in Nat
  <2>1. \A j \in J : q[j] \in BucketsOf(l) /\ q[j] \in Bucket
    BY <1>1 DEF BucketsOf
  <2>2. \A j \in J : q[j].tokens \in 0 .. (BurstSize * RefillTime) /\ q[j].at \in Nat
    BY <2>1 DEF Bucket
  <2>3. ASSUME NEW n \in 0 .. (BurstSize * RefillTime) PROVE n \in Nat
    BY Sizes
  <2>4. \A j \in J : q[j].tokens \in Nat
    <3> HIDE DEF J
    <3> QED
      BY <2>2, <2>3
  <2>5. \A j \in J : q[j].dropped > 0
    OBVIOUS
  <2> HIDE DEF J, q
  <2> QED
    BY <2>1, <2>2, <2>4, <2>5
<1>3. ASSUME NEW j \in J
      PROVE  at(q[j]) = q[j].at + RefillTime - q[j].tokens /\ at(q[j]) \in Nat /\ at(q[j]) <= now + RefillTime
  <2>1. /\ q[j].at <= now /\ q[j].tokens < RefillTime /\ q[j].at \in Nat /\ q[j].tokens \in Nat
        /\ RefillTime \in Nat /\ RefillTime - q[j].tokens \in Nat
    BY <1>2, Sizes
  <2>2. Max({0, RefillTime - q[j].tokens}) = RefillTime - q[j].tokens
    <3> DEFINE x == RefillTime - q[j].tokens
    <3>1. x \in Nat
      BY <2>1
    <3> HIDE DEF x
    <3>2. Max({0, x}) = x
      BY <3>1, MaxOfTwo
    <3> QED
      BY <3>2 DEF x
  <2> QED
    BY <2>1, <2>2
<1>4. ASSUME NEW b \in BucketsOf(l), b.dropped > 0 PROVE \E j \in J : b = q[j]
  BY <1>4 DEF BucketsOf
<1>5. NextDrainAt(l) = IF \E k \in LimitKey : l.evicted[k] > 0 THEN 0 ELSE Min(S)
  BY DEF NextDrainAt
<1>6. CASE \E k \in LimitKey : l.evicted[k] > 0
  <2>1. NextDrainAt(l) = 0
    BY <1>5, <1>6
  <2>2. \A j \in J : 0 <= q[j].at + RefillTime - q[j].tokens
    <3> HIDE DEF J, at, q
    <3> QED
      BY <1>3, <1>2, Sizes
  <2> HIDE DEF J, q
  <2> QED
    BY <1>4, <2>1, <2>2, Sizes
<1>7. CASE ~ \E k \in LimitKey : l.evicted[k] > 0
  <2>1. PICK k \in LimitKey : Held(l, k) > 0
    BY DEF Pending
  <2>2. BucketHolds(l, k) > 0
    BY <1>7, <2>1, HoldsType
  <2>3. IndexesOf(l, k) # {} /\ q[PlaceOf(l, k)].dropped > 0 /\ PlaceOf(l, k) \in DOMAIN q
    BY <2>2, BucketAt DEF BucketHolds
  <2>4. J # {}
    BY <2>3
  <2> HIDE DEF J, at, q
  <2>5. S \in SUBSET Nat /\ S # {}
    BY <1>3, <2>4
  <2>6. Min(S) \in S /\ \A m \in S : Min(S) <= m
    BY <2>5, MinIsLeast
  <2>7. NextDrainAt(l) \in S /\ \A m \in S : NextDrainAt(l) <= m
    BY <1>5, <1>7, <2>6
  <2>8. NextDrainAt(l) \in Nat /\ NextDrainAt(l) <= now + RefillTime
    BY <1>3, <2>7
  <2>9. \A j \in J : NextDrainAt(l) <= q[j].at + RefillTime - q[j].tokens
    <3> SUFFICES ASSUME NEW j \in J PROVE NextDrainAt(l) <= q[j].at + RefillTime - q[j].tokens
      OBVIOUS
    <3>1. at(q[j]) \in S
      OBVIOUS
    <3> HIDE DEF S
    <3> QED
      BY <1>3, <2>7, <3>1
  <2> QED
    BY <1>4, <2>8, <2>9
<1> QED
  BY <1>6, <1>7

-----------------------------------------------------------------------------
(* scheduleTail(): a new timer is not yet due, and no later than any token.  *)
LEMMA NewTimer ==
    ASSUME NEW l, LimiterSound(l), errorTime \in Nat,
           \A b \in BucketsOf(l) : b.at <= errorTime /\ (b.dropped > 0 => b.tokens < RefillTime)
    PROVE  LET T == TimerFor(NoTimer, l) IN
           /\ ~Pending(l) => T = NoTimer
           /\ Pending(l) =>
                /\ T \in Nat /\ T # NoTimer /\ errorTime <= T /\ T <= errorTime + RefillTime
                /\ \A b \in BucketsOf(l) :
                      b.dropped > 0 => T <= errorTime \/ T <= b.at + RefillTime - b.tokens
<1>1. CASE ~Pending(l)
  BY <1>1 DEF TimerFor
<1>2. CASE Pending(l)
  BY <1>2, NextFacts, MaxOfTwo, Sizes, HandledAssumption DEF TimerFor
<1> QED
  BY <1>1, <1>2

(* take(): another kind's count stays with its bucket or without it.         *)
LEMMA TakenHolds ==
    ASSUME NEW l, LimiterSound(l), NEW key \in LimitKey, NEW now \in Nat,
           \A b \in BucketsOf(l) : b.at <= now
    PROVE  LET L == Taken(l, key, now)
               after == AfterTake(l, key, now) IN
           /\ LimiterSound(L)
           /\ BucketHolds(L, key) = after.dropped /\ L.evicted[key] = l.evicted[key]
           /\ \A k \in LimitKey \ {key} :
                \/ BucketHolds(L, k) = BucketHolds(l, k) /\ L.evicted[k] = l.evicted[k]
                \/ BucketHolds(L, k) = 0 /\ L.evicted[k] = l.evicted[k] + BucketHolds(l, k)
           /\ \A b \in BucketsOf(L) : b = after \/ (b \in BucketsOf(l) /\ b.key # key)
<1> DEFINE L == Taken(l, key, now)
           after == AfterTake(l, key, now)
           rest == {b \in BucketsOf(l) : b.key # key}
<1>1. after \in Bucket /\ after.key = key
  BY TakesToken
<1>2. /\ LimiterSound(L)
      /\ \/ BucketsOf(L) = rest \cup {after} /\ L.evicted = l.evicted
         \/ \E gone \in rest :
               /\ BucketsOf(L) = (rest \ {gone}) \cup {after}
               /\ L.evicted = [l.evicted EXCEPT ![gone.key] = l.evicted[gone.key] + gone.dropped]
  <2>1. LimiterSound(L) /\ TakenTo(L, l, key, after)
    BY <1>1, TakenFacts
  <2> HIDE DEF L, after
  <2> QED
    BY <2>1 DEF TakenTo
<1>3. l.evicted \in [LimitKey -> Nat] /\ \A b \in BucketsOf(l) : b \in Bucket /\ b.key \in LimitKey
  BY BucketAt DEF LimiterSound, Limiter, Bucket
<1> HIDE DEF L, after
<1>4. after \in BucketsOf(L)
  BY <1>2
<1>5. BucketHolds(L, key) = after.dropped
  BY <1>1, <1>2, <1>4, BucketAt
<1>6. CASE BucketsOf(L) = rest \cup {after} /\ L.evicted = l.evicted
  <2>1. ASSUME NEW k \in LimitKey \ {key} PROVE BucketHolds(L, k) = BucketHolds(l, k)
    <3>1. CASE \E b \in BucketsOf(l) : b.key = k
      <4>1. PICK b \in BucketsOf(l) : b.key = k
        BY <3>1
      <4>2. b \in BucketsOf(L)
        BY <1>6, <4>1
      <4>3. BucketHolds(L, b.key) = b.dropped
        BY <1>2, <4>2, BucketAt
      <4>4. BucketHolds(l, b.key) = b.dropped
        BY <4>1, BucketAt
      <4> QED
        BY <4>1, <4>3, <4>4
    <3>2. CASE \A b \in BucketsOf(l) : b.key # k
      BY <1>1, <1>6, <2>1, <3>2, <1>2, BucketAt
    <3> QED
      BY <3>1, <3>2
  <2> QED
    BY <1>2, <1>5, <1>6, <2>1 DEF L, after
<1>7. CASE \E gone \in rest :
               /\ BucketsOf(L) = (rest \ {gone}) \cup {after}
               /\ L.evicted = [l.evicted EXCEPT ![gone.key] = l.evicted[gone.key] + gone.dropped]
  <2>1. PICK gone \in rest :
               /\ BucketsOf(L) = (rest \ {gone}) \cup {after}
               /\ L.evicted = [l.evicted EXCEPT ![gone.key] = l.evicted[gone.key] + gone.dropped]
    BY <1>7
  <2>2. gone \in BucketsOf(l) /\ gone.key # key /\ gone.key \in LimitKey
    BY <1>3
  <2>3. \A b \in BucketsOf(l) : b.key = gone.key => b = gone
    BY <2>2, BucketAt
  <2>4. BucketHolds(l, gone.key) = gone.dropped
    BY <2>2, BucketAt
  <2>5. ASSUME NEW k \in LimitKey \ {key}, k # gone.key PROVE BucketHolds(L, k) = BucketHolds(l, k)
    <3>1. CASE \E b \in BucketsOf(l) : b.key = k
      <4>1. PICK b \in BucketsOf(l) : b.key = k
        BY <3>1
      <4>2. b \in BucketsOf(L)
        BY <2>1, <2>5, <4>1
      <4>3. BucketHolds(L, b.key) = b.dropped
        BY <1>2, <4>2, BucketAt
      <4>4. BucketHolds(l, b.key) = b.dropped
        BY <4>1, BucketAt
      <4> QED
        BY <4>1, <4>3, <4>4
    <3>2. CASE \A b \in BucketsOf(l) : b.key # k
      BY <1>1, <2>1, <2>5, <3>2, <1>2, BucketAt
    <3> QED
      BY <3>1, <3>2
  <2>6. BucketHolds(L, gone.key) = 0
    BY <1>1, <2>1, <2>2, <2>3, <1>2, BucketAt
  <2>7. \A k \in LimitKey : L.evicted[k] = IF k = gone.key THEN l.evicted[k] + gone.dropped ELSE l.evicted[k]
    BY <1>3, <2>1
  <2>8. \A k \in LimitKey \ {key} :
                \/ BucketHolds(L, k) = BucketHolds(l, k) /\ L.evicted[k] = l.evicted[k]
                \/ BucketHolds(L, k) = 0 /\ L.evicted[k] = l.evicted[k] + BucketHolds(l, k)
    BY <2>4, <2>5, <2>6, <2>7
  <2>9. \A b \in BucketsOf(L) : b = after \/ (b \in BucketsOf(l) /\ b.key # key)
    BY <2>1
  <2>10. L.evicted[key] = l.evicted[key]
    BY <2>2, <2>7
  <2> QED
    BY <1>2, <1>5, <2>8, <2>9, <2>10 DEF L, after
<1> QED
  BY <1>2, <1>6, <1>7

-----------------------------------------------------------------------------
(* The history of what is held, by what the limiter holds after a step.      *)
LEMMA SinceFacts ==
    ASSUME HeldInv, NEW l, LimiterSound(l), NEW k \in LimitKey,
           l.evicted[k] > 0 => limiter.evicted[k] > 0 \/ BucketHolds(limiter, k) > 0
    PROVE  /\ BucketHolds(l, k) > 0 <=> Since(l).bucket[k] # NoTimer
           /\ l.evicted[k] > 0 <=> Since(l).evicted[k] # NoTimer
           /\ Since(l).bucket[k] \in Nat \cup {NoTimer} /\ Since(l).evicted[k] \in Nat \cup {NoTimer}
           /\ BucketHolds(l, k) > 0 =>
                Since(l).bucket[k] = IF BucketHolds(limiter, k) > 0 THEN heldSince.bucket[k] ELSE errorTime
           /\ l.evicted[k] > 0 =>
                \/ limiter.evicted[k] > 0 /\ Since(l).evicted[k] = heldSince.evicted[k]
                \/ BucketHolds(limiter, k) > 0 /\ Since(l).evicted[k] = heldSince.bucket[k]
  BY HoldsType, HandledAssumption DEF HeldInv, HistoryOf, Since

(* Every history of a count after a step is one from before, or begins now.   *)
HistoryKept(k, since) ==
    since # NoTimer => since \in {heldSince.bucket[k], heldSince.evicted[k]}

LEMMA HeldParts ==
    ASSUME HeldInv
    PROVE  /\ LimiterSound(limiter) /\ errorTime \in Nat
           /\ \A b \in BucketsOf(limiter) :
                /\ b \in Bucket /\ b.at <= errorTime /\ b.tokens \in Nat /\ b.at \in Nat /\ b.key \in LimitKey
                /\ b.dropped > 0 => b.tokens < RefillTime
           /\ \A k \in LimitKey : /\ BucketHolds(limiter, k) \in Nat /\ limiter.evicted[k] \in Nat
                                  /\ leftOut[k] \in Nat /\ carried[k] \in Nat
                                  /\ Held(limiter, k) = limiter.evicted[k] + BucketHolds(limiter, k)
                                  /\ heldSince.bucket[k] \in Nat \cup {NoTimer}
                                  /\ heldSince.evicted[k] \in Nat \cup {NoTimer}
           /\ NoTimer \notin Nat
<1>1. LimiterSound(limiter) /\ errorTime \in Nat /\ NoTimer \notin Nat
  BY HandledAssumption DEF HeldInv
<1>2. ASSUME NEW b \in BucketsOf(limiter)
      PROVE  /\ b \in Bucket /\ b.at <= errorTime /\ b.tokens \in Nat /\ b.at \in Nat /\ b.key \in LimitKey
             /\ b.dropped > 0 => b.tokens < RefillTime
  BY <1>1, BucketAt, Sizes DEF Bucket, HeldInv, BucketTimed
<1>3. ASSUME NEW k \in LimitKey
      PROVE  /\ BucketHolds(limiter, k) \in Nat /\ limiter.evicted[k] \in Nat
             /\ leftOut[k] \in Nat /\ carried[k] \in Nat
             /\ Held(limiter, k) = limiter.evicted[k] + BucketHolds(limiter, k)
             /\ heldSince.bucket[k] \in Nat \cup {NoTimer} /\ heldSince.evicted[k] \in Nat \cup {NoTimer}
  BY <1>1, HoldsType DEF HeldInv, HistoryOf
<1> QED
  BY <1>1, <1>2, <1>3

LEMMA LimitSteps ==
    ASSUME HeldInv, NEW key \in LimitKey, Limit(key), UNCHANGED errorTime PROVE HeldInv'
<1> DEFINE L == Taken(limiter, key, errorTime)
           after == AfterTake(limiter, key, errorTime)
           sends == Sends(limiter, key, errorTime)
<1>1. /\ LimiterSound(limiter) /\ errorTime \in Nat /\ errorTime' = errorTime /\ NoTimer \notin Nat
      /\ \A b \in BucketsOf(limiter) :
           /\ b \in Bucket /\ b.at <= errorTime /\ b.tokens \in Nat /\ b.at \in Nat /\ b.key \in LimitKey
           /\ b.dropped > 0 => b.tokens < RefillTime
      /\ \A k \in LimitKey : /\ BucketHolds(limiter, k) \in Nat /\ limiter.evicted[k] \in Nat
                             /\ leftOut[k] \in Nat /\ carried[k] \in Nat
                             /\ Held(limiter, k) = limiter.evicted[k] + BucketHolds(limiter, k)
                             /\ heldSince.bucket[k] \in Nat \cup {NoTimer}
                             /\ heldSince.evicted[k] \in Nat \cup {NoTimer}
  BY HeldParts
<1>2. /\ after \in Bucket /\ after.key = key /\ after.at = errorTime
      /\ Carries(limiter, key, errorTime) = BucketHolds(limiter, key)
      /\ sends => after.dropped = 0
      /\ ~sends =>
            /\ after.dropped = BucketHolds(limiter, key) + 1 /\ after.tokens < RefillTime
            /\ \A b \in BucketsOf(limiter) : b.key = key => errorTime = b.at + after.tokens - b.tokens
  BY <1>1, TakesToken
<1>3. /\ LimiterSound(L) /\ BucketHolds(L, key) = after.dropped /\ L.evicted[key] = limiter.evicted[key]
      /\ \A k \in LimitKey \ {key} :
           \/ BucketHolds(L, k) = BucketHolds(limiter, k) /\ L.evicted[k] = limiter.evicted[k]
           \/ BucketHolds(L, k) = 0 /\ L.evicted[k] = limiter.evicted[k] + BucketHolds(limiter, k)
      /\ \A b \in BucketsOf(L) : b = after \/ (b \in BucketsOf(limiter) /\ b.key # key)
  BY <1>1, TakenHolds
<1>4. /\ limiter' = L /\ heldSince' = Since(L)
      /\ sends => carried' = [carried EXCEPT ![key] = carried[key] + BucketHolds(limiter, key)]
                  /\ UNCHANGED <<leftOut, tailTimer>>
      /\ ~sends => leftOut' = [leftOut EXCEPT ![key] = leftOut[key] + 1]
                   /\ tailTimer' = TimerFor(tailTimer, L) /\ UNCHANGED carried
  BY <1>2 DEF Limit, TimerAfter
<1>5. after.tokens \in Nat
  BY <1>2, Sizes DEF Bucket
<1> HIDE DEF L, after, sends
<1>6. \A k \in LimitKey : /\ BucketHolds(L, k) \in Nat /\ L.evicted[k] \in Nat
                          /\ Held(L, k) = L.evicted[k] + BucketHolds(L, k)
  BY <1>3, HoldsType
<1>7. ASSUME NEW k \in LimitKey
      PROVE  /\ BucketHolds(L, k) > 0 <=> Since(L).bucket[k] # NoTimer
             /\ L.evicted[k] > 0 <=> Since(L).evicted[k] # NoTimer
             /\ Since(L).bucket[k] \in Nat \cup {NoTimer} /\ Since(L).evicted[k] \in Nat \cup {NoTimer}
             /\ BucketHolds(L, k) > 0 =>
                  Since(L).bucket[k] = IF BucketHolds(limiter, k) > 0 THEN heldSince.bucket[k] ELSE errorTime
             /\ L.evicted[k] > 0 =>
                  \/ limiter.evicted[k] > 0 /\ Since(L).evicted[k] = heldSince.evicted[k]
                  \/ BucketHolds(limiter, k) > 0 /\ Since(L).evicted[k] = heldSince.bucket[k]
  BY <1>1, <1>3, SinceFacts
<1>8. heldSince' \in [bucket : HistoryOf, evicted : HistoryOf]
  BY <1>4, <1>7 DEF Since, HistoryOf
<1>9. \A k \in LimitKey :
        /\ HistoryKept(k, Since(L).evicted[k])
        /\ \/ HistoryKept(k, Since(L).bucket[k])
           \/ k = key /\ ~sends /\ Since(L).bucket[k] = errorTime
  <2> SUFFICES ASSUME NEW k \in LimitKey
               PROVE  /\ HistoryKept(k, Since(L).evicted[k])
                      /\ \/ HistoryKept(k, Since(L).bucket[k])
                         \/ k = key /\ ~sends /\ Since(L).bucket[k] = errorTime
    OBVIOUS
  <2>1. HistoryKept(k, Since(L).evicted[k])
    BY <1>7 DEF HistoryKept
  <2>2. CASE k # key
    BY <1>1, <1>3, <2>2, <1>7, <2>1 DEF HistoryKept
  <2>3. CASE k = key /\ sends
    BY <1>2, <1>3, <2>3, <1>7, <2>1 DEF HistoryKept
  <2>4. CASE k = key /\ ~sends
    BY <1>7, <2>1, <2>4 DEF HistoryKept
  <2> QED
    BY <2>2, <2>3, <2>4
<1>10. ASSUME NEW b \in BucketsOf(L) PROVE BucketTimed(b, Since(L).bucket[b.key], errorTime)
  <2>1. CASE b # after
    BY <1>1, <1>3, <2>1, BucketAt, <1>7 DEF HeldInv, BucketTimed
  <2>2. CASE b = after /\ sends
    BY <1>1, <1>2, <2>2 DEF BucketTimed
  <2>3. CASE b = after /\ ~sends
    <3>1. BucketHolds(L, key) > 0
      BY <1>1, <1>2, <1>3, <2>3
    <3>2. Since(L).bucket[key] # NoTimer /\ Since(L).bucket[key] \in Nat
          /\ Since(L).bucket[key] = IF BucketHolds(limiter, key) > 0 THEN heldSince.bucket[key] ELSE errorTime
      BY <1>7, <3>1
    <3>3. errorTime <= Since(L).bucket[key] + after.tokens
      <4>1. CASE BucketHolds(limiter, key) > 0
        <5>1. PICK o \in BucketsOf(limiter) : o.key = key
          BY <1>1, <4>1, BucketAt
        <5>2. o.dropped > 0
          BY <1>1, <4>1, <5>1, BucketAt
        <5>3. o.at <= heldSince.bucket[key] + o.tokens
          BY <5>1, <5>2 DEF HeldInv, BucketTimed
        <5>4. errorTime = o.at + after.tokens - o.tokens /\ o.at \in Nat /\ o.tokens \in Nat
          BY <1>1, <1>2, <2>3, <5>1
        <5> QED
          BY <1>1, <1>5, <3>2, <4>1, <5>3, <5>4
      <4>2. CASE ~(BucketHolds(limiter, key) > 0)
        BY <1>1, <1>5, <3>2, <4>2
      <4> QED
        BY <4>1, <4>2
    <3> QED
      BY <1>1, <1>2, <2>3, <3>2, <3>3 DEF BucketTimed
  <2> QED
    BY <2>1, <2>2, <2>3
<1>11. /\ tailTimer' \in Nat \cup {NoTimer}
       /\ tailTimer' # NoTimer => errorTime <= tailTimer' /\ tailTimer' <= errorTime + RefillTime
       /\ tailTimer # NoTimer => tailTimer' = tailTimer
       /\ ~sends => tailTimer' # NoTimer
  <2>1. tailTimer \in Nat \cup {NoTimer}
        /\ (tailTimer # NoTimer => errorTime <= tailTimer /\ tailTimer <= errorTime + RefillTime)
    BY DEF HeldInv
  <2>2. CASE sends
    BY <1>4, <2>1, <2>2
  <2>3. CASE ~sends /\ tailTimer # NoTimer
    BY <1>4, <2>1, <2>3 DEF TimerFor
  <2>4. CASE ~sends /\ tailTimer = NoTimer
    <3>1. Pending(L)
      BY <1>1, <1>2, <1>3, <1>6, <2>4 DEF Pending
    <3>2. \A b \in BucketsOf(L) : b.at <= errorTime /\ (b.dropped > 0 => b.tokens < RefillTime)
      BY <1>10 DEF BucketTimed
    <3> QED
      BY <1>1, <1>3, <1>4, <2>4, <3>1, <3>2, NewTimer
  <2> QED
    BY <2>2, <2>3, <2>4
<1>12. ASSUME NEW k \in LimitKey
       PROVE  SinceTimed(Since(L).bucket[k], tailTimer') /\ SinceTimed(Since(L).evicted[k], tailTimer')
  BY <1>11, <1>9 DEF HeldInv, SinceTimed, HistoryKept
<1>13. CountsCarriedOnce' /\ leftOut' \in [LimitKey -> Nat] /\ carried' \in [LimitKey -> Nat]
  <2>1. leftOut \in [LimitKey -> Nat] /\ carried \in [LimitKey -> Nat]
        /\ \A k \in LimitKey : leftOut[k] = carried[k] + Held(limiter, k)
    BY DEF HeldInv, CountsCarriedOnce
  <2>2. \A k \in LimitKey \ {key} : Held(L, k) = Held(limiter, k)
    BY <1>1, <1>3, <1>6
  <2>3. CASE sends
    <3>1. Held(L, key) = limiter.evicted[key]
      BY <1>1, <1>2, <1>3, <1>6, <2>3
    <3>2. carried' = [carried EXCEPT ![key] = carried[key] + BucketHolds(limiter, key)] /\ leftOut' = leftOut
      BY <1>4, <2>3
    <3>3. carried' \in [LimitKey -> Nat] /\ carried'[key] = carried[key] + BucketHolds(limiter, key)
          /\ \A k \in LimitKey \ {key} : carried'[k] = carried[k]
      BY <1>1, <2>1, <3>2
    <3>4. leftOut[key] = carried'[key] + Held(L, key)
      BY <1>1, <2>1, <3>1, <3>3
    <3> QED
      BY <1>4, <2>1, <2>2, <3>2, <3>3, <3>4 DEF CountsCarriedOnce
  <2>4. CASE ~sends
    <3>1. Held(L, key) = Held(limiter, key) + 1
      BY <1>1, <1>2, <1>3, <1>6, <2>4
    <3>2. leftOut' = [leftOut EXCEPT ![key] = leftOut[key] + 1] /\ carried' = carried
      BY <1>4, <2>4
    <3>3. leftOut' \in [LimitKey -> Nat] /\ leftOut'[key] = leftOut[key] + 1
          /\ \A k \in LimitKey \ {key} : leftOut'[k] = leftOut[k]
      BY <1>1, <2>1, <3>2
    <3>4. leftOut'[key] = carried[key] + Held(L, key)
      BY <1>1, <2>1, <3>1, <3>3
    <3> QED
      BY <1>4, <2>1, <2>2, <3>2, <3>3, <3>4 DEF CountsCarriedOnce
  <2> QED
    BY <2>3, <2>4
<1>14. \A k \in LimitKey :
         /\ BucketHolds(limiter', k) > 0 <=> heldSince'.bucket[k] # NoTimer
         /\ limiter'.evicted[k] > 0 <=> heldSince'.evicted[k] # NoTimer
         /\ SinceTimed(heldSince'.bucket[k], tailTimer') /\ SinceTimed(heldSince'.evicted[k], tailTimer')
  BY <1>4, <1>7, <1>12
<1>15. \A b \in BucketsOf(limiter') : BucketTimed(b, heldSince'.bucket[b.key], errorTime')
  BY <1>1, <1>4, <1>10
<1> QED
  BY <1>1, <1>3, <1>4, <1>8, <1>11, <1>13, <1>14, <1>15 DEF HeldInv, SinceTimed, BucketTimed

LEMMA TailSteps ==
    ASSUME HeldInv, NEW all \in BOOLEAN, all \/ TimerIsDue, SendTails(all), UNCHANGED errorTime
    PROVE  HeldInv'
<1> DEFINE D == Drained(limiter, errorTime, all)
           tails == Tails(limiter, errorTime, all)
<1>1. /\ LimiterSound(limiter) /\ errorTime \in Nat /\ errorTime' = errorTime /\ NoTimer \notin Nat
      /\ \A b \in BucketsOf(limiter) :
           /\ b \in Bucket /\ b.at <= errorTime /\ b.tokens \in Nat /\ b.at \in Nat /\ b.key \in LimitKey
           /\ b.dropped > 0 => b.tokens < RefillTime
      /\ \A k \in LimitKey : /\ BucketHolds(limiter, k) \in Nat /\ limiter.evicted[k] \in Nat
                             /\ leftOut[k] \in Nat /\ carried[k] \in Nat
                             /\ Held(limiter, k) = limiter.evicted[k] + BucketHolds(limiter, k)
                             /\ heldSince.bucket[k] \in Nat \cup {NoTimer}
                             /\ heldSince.evicted[k] \in Nat \cup {NoTimer}
  BY HeldParts
<1>2. /\ LimiterSound(D) /\ \A k \in LimitKey : D.evicted[k] = 0
      /\ BucketsOf(D) = {DrainedBucket(b, errorTime, all) : b \in BucketsOf(limiter)}
      /\ \A k \in LimitKey :
           /\ tails[k] \in Nat /\ tails[k] + BucketHolds(D, k) = Held(limiter, k)
           /\ BucketHolds(D, k) > 0 => BucketHolds(limiter, k) > 0 /\ ~all
  BY <1>1, DrainedFacts
<1>3. /\ limiter' = D /\ heldSince' = Since(D) /\ UNCHANGED leftOut
      /\ carried' = [k \in LimitKey |-> carried[k] + tails[k]]
      /\ tailTimer' = IF all THEN NoTimer ELSE TimerFor(NoTimer, D)
  BY DEF SendTails
<1> HIDE DEF D, tails
<1>4. \A k \in LimitKey : BucketHolds(D, k) \in Nat /\ Held(D, k) = BucketHolds(D, k)
  BY <1>2, HoldsType
<1>5. ASSUME NEW k \in LimitKey
      PROVE  /\ BucketHolds(D, k) > 0 <=> Since(D).bucket[k] # NoTimer
             /\ D.evicted[k] > 0 <=> Since(D).evicted[k] # NoTimer
             /\ Since(D).bucket[k] \in Nat \cup {NoTimer} /\ Since(D).evicted[k] \in Nat \cup {NoTimer}
             /\ BucketHolds(D, k) > 0 => Since(D).bucket[k] = heldSince.bucket[k] /\ ~all
             /\ Since(D).evicted[k] = NoTimer
  <2>1. ~(D.evicted[k] > 0)
    BY <1>2
  <2> QED
    BY <1>2, <2>1, SinceFacts
<1>6. heldSince' \in [bucket : HistoryOf, evicted : HistoryOf]
  BY <1>3, <1>5 DEF Since, HistoryOf
<1>7. ASSUME NEW d \in BucketsOf(D)
      PROVE  d.key \in LimitKey /\ BucketTimed(d, Since(D).bucket[d.key], errorTime)
  <2>1. PICK b \in BucketsOf(limiter) : d = DrainedBucket(b, errorTime, all)
    BY <1>2
  <2>2. /\ d.key = b.key /\ d.at <= errorTime
        /\ d.dropped = IF Drains(b, errorTime, all) THEN 0 ELSE b.dropped
        /\ d.dropped > 0 => ~all /\ d.tokens < RefillTime /\ d.at = b.at + d.tokens - b.tokens
    BY <1>1, <2>1, DrainedBucketFacts
  <2>3. BucketHolds(D, d.key) = d.dropped /\ d \in Bucket
    BY <1>2, BucketAt
  <2>4. d.tokens \in Nat /\ d.at \in Nat
    BY <2>3, Sizes DEF Bucket
  <2>5. CASE d.dropped > 0
    BY <1>1, <1>5, <2>2, <2>3, <2>5, <2>4 DEF HeldInv, BucketTimed
  <2>6. CASE ~(d.dropped > 0)
    BY <1>1, <2>2, <2>6 DEF BucketTimed
  <2> QED
    BY <2>5, <2>6
<1>8. /\ all => tailTimer' = NoTimer
      /\ ~all => (~Pending(D) => tailTimer' = NoTimer)
      /\ ~all => (Pending(D) =>
           /\ tailTimer' \in Nat /\ tailTimer' # NoTimer
           /\ errorTime <= tailTimer' /\ tailTimer' <= errorTime + RefillTime
           /\ \A b \in BucketsOf(D) :
                 b.dropped > 0 => tailTimer' <= errorTime \/ tailTimer' <= b.at + RefillTime - b.tokens)
  BY <1>7, <1>1, <1>2, <1>3, NewTimer DEF BucketTimed
<1>9. ASSUME NEW k \in LimitKey
      PROVE  SinceTimed(Since(D).bucket[k], tailTimer') /\ SinceTimed(Since(D).evicted[k], tailTimer')
  <2>1. SinceTimed(Since(D).evicted[k], tailTimer')
    BY <1>5 DEF SinceTimed
  <2>2. CASE ~(BucketHolds(D, k) > 0)
    BY <1>5, <2>1, <2>2 DEF SinceTimed
  <2>3. CASE BucketHolds(D, k) > 0
    <3>1. ~all /\ TimerIsDue /\ Pending(D)
      BY <1>4, <1>5, <2>3 DEF Pending
    <3> DEFINE since == Since(D).bucket[k]
    <3>2. since = heldSince.bucket[k] /\ since # NoTimer /\ since \in Nat
      BY <1>1, <1>5, <2>3
    <3>3. PICK d \in BucketsOf(D) : d.key = k
      BY <1>2, <1>4, <2>3, BucketAt
    <3>4. d.dropped > 0 /\ d \in Bucket
      BY <1>2, <2>3, <3>3, BucketAt
    <3>5. d.at <= since + d.tokens
      BY <1>7, <3>3, <3>4 DEF BucketTimed
    <3>6. d.tokens \in Nat /\ d.at \in Nat /\ RefillTime \in Nat
      BY <3>4, Sizes DEF Bucket
    <3>7. errorTime <= since + RefillTime
      BY <1>1, <3>1, <3>2, <3>6 DEF HeldInv, TimerIsDue, SinceTimed
    <3>8. tailTimer' \in Nat /\ tailTimer' # NoTimer
          /\ (tailTimer' <= errorTime \/ tailTimer' <= d.at + RefillTime - d.tokens)
      BY <1>8, <3>1, <3>4
    <3> HIDE DEF since
    <3>9. tailTimer' <= since + RefillTime
      BY <1>1, <3>2, <3>5, <3>6, <3>7, <3>8
    <3> QED
      BY <2>1, <3>8, <3>9 DEF SinceTimed, since
  <2> QED
    BY <2>2, <2>3
<1>10. CountsCarriedOnce' /\ leftOut' \in [LimitKey -> Nat] /\ carried' \in [LimitKey -> Nat]
  BY <1>1, <1>2, <1>3, <1>4 DEF HeldInv, CountsCarriedOnce
<1>11. \A k \in LimitKey :
         /\ BucketHolds(limiter', k) > 0 <=> heldSince'.bucket[k] # NoTimer
         /\ limiter'.evicted[k] > 0 <=> heldSince'.evicted[k] # NoTimer
         /\ SinceTimed(heldSince'.bucket[k], tailTimer') /\ SinceTimed(heldSince'.evicted[k], tailTimer')
  BY <1>3, <1>5, <1>9
<1>12. \A b \in BucketsOf(limiter') : BucketTimed(b, heldSince'.bucket[b.key], errorTime')
  BY <1>1, <1>3, <1>7
<1>13. /\ tailTimer' \in Nat \cup {NoTimer}
       /\ tailTimer' # NoTimer => errorTime' <= tailTimer' /\ tailTimer' <= errorTime' + RefillTime
  BY <1>1, <1>8
<1> QED
  BY <1>1, <1>2, <1>3, <1>6, <1>10, <1>11, <1>12, <1>13 DEF HeldInv, SinceTimed, BucketTimed

(* Time passes while no timer is due.                                        *)
LEMMA TickSteps ==
    ASSUME HeldInv, errorTime' = errorTime + 1, ~TimerIsDue, UNCHANGED limitVars PROVE HeldInv'
<1>1. /\ errorTime \in Nat /\ tailTimer \in Nat \cup {NoTimer}
      /\ tailTimer # NoTimer => tailTimer > errorTime /\ errorTime + 1 <= tailTimer
                                /\ tailTimer <= errorTime + 1 + RefillTime
  BY Sizes DEF HeldInv, TimerIsDue
<1>2. \A b \in BucketsOf(limiter) : BucketTimed(b, heldSince.bucket[b.key], errorTime')
  BY HeldParts, <1>1 DEF HeldInv, BucketTimed
<1>3. limiter' = limiter /\ tailTimer' = tailTimer /\ leftOut' = leftOut /\ carried' = carried
      /\ heldSince' = heldSince
  BY DEF limitVars
<1>4. /\ errorTime' \in Nat
      /\ tailTimer' # NoTimer => errorTime' <= tailTimer' /\ tailTimer' <= errorTime' + RefillTime
  BY <1>1, <1>3
<1> QED
  BY <1>2, <1>3, <1>4 DEF HeldInv, CountsCarriedOnce

LEMMA RestSteps == ASSUME HeldInv, UNCHANGED errorTime, UNCHANGED limitVars PROVE HeldInv'
  BY DEF HeldInv, limitVars, CountsCarriedOnce

LEMMA HeldStarts == HandledInit => HeldInv
<1> SUFFICES ASSUME HandledInit PROVE HeldInv
  OBVIOUS
<1>1. /\ limiter = [buckets |-> <<>>, evicted |-> [k \in LimitKey |-> 0]]
      /\ errorTime = 0 /\ tailTimer = NoTimer
      /\ leftOut = [k \in LimitKey |-> 0] /\ carried = [k \in LimitKey |-> 0]
      /\ heldSince = [bucket |-> [k \in LimitKey |-> NoTimer], evicted |-> [k \in LimitKey |-> NoTimer]]
  BY DEF HandledInit, NewLimiter
<1>2. LimiterSound(limiter)
  BY <1>1, Sizes DEF LimiterSound, Limiter
<1>3. BucketsOf(limiter) = {}
  BY <1>1 DEF BucketsOf
<1>4. \A k \in LimitKey : BucketHolds(limiter, k) = 0 /\ limiter.evicted[k] = 0
  BY <1>1, <1>2, <1>3, BucketAt
<1>5. \A k \in LimitKey : Held(limiter, k) = 0
  BY <1>4 DEF Held
<1>6. heldSince \in [bucket : HistoryOf, evicted : HistoryOf]
  BY <1>1 DEF HistoryOf
<1>7. CountsCarriedOnce
  BY <1>1, <1>5 DEF CountsCarriedOnce
<1> QED
  BY <1>1, <1>2, <1>3, <1>4, <1>6, <1>7 DEF HeldInv, SinceTimed

LEMMA HeldInvSteps == HeldInv /\ [HandledNext]_handledVars => HeldInv'
<1> SUFFICES ASSUME HeldInv, [HandledNext]_handledVars PROVE HeldInv'
  OBVIOUS
<1>1. CASE ErrorTick
  BY <1>1, TickSteps DEF ErrorTick
<1>2. CASE TailTimerFires
  BY <1>2, TailSteps DEF TailTimerFires
<1>3. CASE StopsCapture
  BY <1>3, TailSteps DEF StopsCapture
<1>4. CASE StartsCapture
  BY <1>4, RestSteps DEF StartsCapture
<1>5. ASSUME NEW e \in AppError PROVE KeyOfKind("caught", e) \in LimitKey /\ KeyOfKind("deliberate", e) \in LimitKey
  BY HandledAssumption DEF KeyOfKind
<1>6. ASSUME NEW e \in AppError, Logs(e) PROVE HeldInv'
  BY <1>6, RestSteps DEF Logs
<1>7. ASSUME NEW e \in AppError, TickOver(e) PROVE HeldInv'
  BY <1>5, <1>7, LimitSteps, RestSteps DEF TickOver
<1>8. ASSUME NEW e \in AppError, Degrades(e) PROVE HeldInv'
  BY <1>5, <1>8, LimitSteps DEF Degrades
<1>9. ASSUME NEW e \in AppError, Captures(e) PROVE HeldInv'
  BY <1>9, RestSteps DEF Captures
<1>10. ASSUME NEW e \in AppError, ReachesBoundary(e) PROVE HeldInv'
  BY <1>10, RestSteps DEF ReachesBoundary
<1>11. CASE UNCHANGED handledVars
  BY <1>11, RestSteps DEF handledVars, limitVars
<1> QED
  BY <1>1, <1>2, <1>3, <1>4, <1>6, <1>7, <1>8, <1>9, <1>10, <1>11 DEF HandledNext

(* What the burst limiter holds for each kind, with its bucket or without, and  *)
(* the timer that will send it (handled.ts, caught-errors.ts), for any       *)
(* errors, burst, refill and number of kinds.                                *)
THEOREM HeldInvariant == HandledSpec => []HeldInv
<1> QED
  BY HeldStarts, HeldInvSteps, PTL DEF HandledSpec

LEMMA HeldHolds == HeldInv => CountsCarriedOnce /\ HeldCountsLeave
<1> SUFFICES ASSUME HeldInv PROVE HeldCountsLeave
  BY DEF HeldInv
<1> SUFFICES ASSUME NEW k \in LimitKey
             PROVE  /\ Held(limiter, k) > 0 => tailTimer # NoTimer
                    /\ \A since \in {heldSince.bucket[k], heldSince.evicted[k]} :
                          since # NoTimer => errorTime <= since + RefillTime
  BY DEF HeldCountsLeave
<1>1. /\ errorTime \in Nat /\ BucketHolds(limiter, k) \in Nat /\ limiter.evicted[k] \in Nat
      /\ Held(limiter, k) = limiter.evicted[k] + BucketHolds(limiter, k)
      /\ heldSince.bucket[k] \in Nat \cup {NoTimer} /\ heldSince.evicted[k] \in Nat \cup {NoTimer}
  BY HeldParts
<1>2. /\ BucketHolds(limiter, k) > 0 <=> heldSince.bucket[k] # NoTimer
      /\ limiter.evicted[k] > 0 <=> heldSince.evicted[k] # NoTimer
      /\ SinceTimed(heldSince.bucket[k], tailTimer) /\ SinceTimed(heldSince.evicted[k], tailTimer)
      /\ tailTimer \in Nat \cup {NoTimer} /\ (tailTimer # NoTimer => errorTime <= tailTimer)
  BY DEF HeldInv
<1>3. Held(limiter, k) > 0 => tailTimer # NoTimer
  BY <1>1, <1>2 DEF SinceTimed
<1>4. ASSUME NEW since \in {heldSince.bucket[k], heldSince.evicted[k]}, since # NoTimer
      PROVE  errorTime <= since + RefillTime
  BY <1>1, <1>2, <1>4, Sizes, HandledAssumption DEF SinceTimed
<1> QED
  BY <1>3, <1>4

-----------------------------------------------------------------------------
(***************************************************************************)
(* Handled errors: types.                                                   *)
(***************************************************************************)
(* What the history and the limiter leave aside.                             *)
HandledRest ==
    /\ errorTime \in 0..MaxErrorTime /\ capturing \in BOOLEAN /\ handled \in 0..MaxHandled
    /\ decided \subseteq AppError /\ captured \subseteq AppError /\ immediates \subseteq AppError

LEMMA HandledRestStarts == HandledInit => HandledRest
  BY HandledAssumption DEF HandledInit, HandledRest

LEMMA HandledRestSteps == HandledRest /\ [HandledNext]_handledVars => HandledRest'
<1> SUFFICES ASSUME HandledRest, [HandledNext]_handledVars PROVE HandledRest'
  OBVIOUS
<1> USE HandledAssumption DEF HandledRest
<1>1. ASSUME NEW e \in AppError, Logs(e) \/ TickOver(e) PROVE HandledRest'
  BY <1>1 DEF Logs, TickOver
<1>2. ASSUME NEW e \in AppError, Degrades(e) \/ Captures(e) \/ ReachesBoundary(e) PROVE HandledRest'
  BY <1>2 DEF Degrades, Captures, ReachesBoundary
<1>3. CASE ErrorTick
  BY <1>3 DEF ErrorTick
<1>4. CASE TailTimerFires \/ StopsCapture \/ StartsCapture
  BY <1>4 DEF TailTimerFires, StopsCapture, StartsCapture
<1>5. CASE UNCHANGED handledVars
  BY <1>5 DEF handledVars
<1> QED
  BY <1>1, <1>2, <1>3, <1>4, <1>5 DEF HandledNext

LEMMA HandledTypes == HandledSpec => []HandledRest
  BY HandledRestStarts, HandledRestSteps, PTL DEF HandledSpec

LEMMA HandledTypesHold == HandledRest /\ ReportInv /\ HeldInv => HandledTypeOK
<1> SUFFICES ASSUME HandledRest, ReportInv, HeldInv PROVE HandledTypeOK
  OBVIOUS
<1>1. IsInjective([i \in DOMAIN limiter.buckets |-> limiter.buckets[i].key])
  BY Fun_IsInj DEF HeldInv, LimiterSound, IsInjective
<1> QED
  BY <1>1 DEF HandledRest, ReportInv, ReportsSound, HeldInv, LimiterSound, HandledTypeOK

-----------------------------------------------------------------------------
(***************************************************************************)
(* Errors of a Next.js app.                                                 *)
(***************************************************************************)
NextErrorsSpec == NextErrorsInit /\ [][NextErrorsNext]_nextVars

Who == {"app", "boundary", "page"}
RouteState ==
    [st : {"running", "thrown", "importing", "ended"}, error : NextError \cup {NoError},
     outcome : {"none", "succeeded", "failed"}]
NextTypes ==
    /\ routes \in [Route -> RouteState] /\ reportedBy \in [NextError -> Seq(Who)]
    /\ flushes \in [Route -> {"none", "waiting", "handed", "own"}] /\ afterFn \in {"loading", "here", "absent"}
    /\ capturedNode \subseteq NextError

(* Who reported an error object: the boundaries first, but for pages, and     *)
(* then never again.                                                         *)
BoundaryFirst(e) ==
    \A i \in DOMAIN reportedBy[e] : reportedBy[e][i] = "boundary" => \A j \in 1 .. (i - 1) : reportedBy[e][j] = "page"
CapturedSound(e) == e \in capturedNode <=> Reporters(e) \cap {"app", "boundary"} # {}
ObjectsSound == \A e \in NextError : BoundaryFirst(e) /\ CapturedSound(e)

(* Why a boundary may report a signal of Next.                               *)
ToldTo(e) ==
    \/ HookRule = "all"
    \/ \E r \in Route : routes[r].error = e /\ Wrapper[r] = "request" /\ Decided(CaptureRule[r], e, TRUE)
SignalsSound == \A e \in ControlFlow : "boundary" \in Reporters(e) => ToldTo(e)

(* Where a request stands, and what was done about its error by then.        *)
ErrorSound(r) ==
    LET e == routes[r].error IN
    /\ routes[r].st = "running" <=> (routes[r].st # "ended" /\ e = NoError)
    /\ e # NoError /\ e \notin ControlFlow /\ Wrapper[r] # "none" /\ CaptureRule[r] = "unset" => e \in capturedNode
    /\ e # NoError /\ e \notin ControlFlow /\ Wrapper[r] = "none" /\ r \notin EdgeRoute /\ HookRule # "off"
          /\ routes[r].st = "ended" => e \in capturedNode
    /\ routes[r].st = "importing" /\ e \in ControlFlow => HookRule = "all"
    /\ Wrapper[r] = "autter" /\ e \in ControlFlow => routes[r].outcome = "succeeded"
WayOut == CASE afterFn = "loading" -> "waiting" [] afterFn = "here" -> "handed" [] OTHER -> "own"
FlushSound(r) == routes[r].st # "running" /\ Wrapper[r] # "none" => flushes[r] = WayOut

NextErrorsInv ==
    /\ NextTypes /\ ObjectsSound /\ SignalsSound /\ \A r \in Route : ErrorSound(r) /\ FlushSound(r)

-----------------------------------------------------------------------------
LEMMA NextErrorsStart == NextErrorsInit => NextErrorsInv
<1> SUFFICES ASSUME NextErrorsInit PROVE NextErrorsInv
  OBVIOUS
<1>1. <<>> \in Seq(Who) /\ NoError \notin ControlFlow
  BY NextAssumption
<1>2. NextTypes
  BY <1>1 DEF NextErrorsInit, NextTypes, RouteState
<1>3. ASSUME NEW e \in NextError PROVE reportedBy[e] = <<>> /\ DOMAIN reportedBy[e] = {} /\ Reporters(e) = {}
  BY DEF NextErrorsInit, Reporters
<1>4. ObjectsSound
  BY <1>3 DEF ObjectsSound, BoundaryFirst, CapturedSound, NextErrorsInit
<1>5. SignalsSound
  BY <1>3, NextAssumption DEF SignalsSound
<1>6. ASSUME NEW r \in Route PROVE ErrorSound(r) /\ FlushSound(r)
  BY <1>1 DEF NextErrorsInit, ErrorSound, FlushSound
<1> QED
  BY <1>2, <1>4, <1>5, <1>6 DEF NextErrorsInv

(* One more report of an error object.                                       *)
LEMMA ObjectReported ==
    ASSUME NextTypes, ObjectsSound, NEW e \in NextError, NEW who \in Who,
           who = "boundary" => e \notin capturedNode,
           who = "page" => UNCHANGED capturedNode, who # "page" => capturedNode' = capturedNode \cup {e},
           reportedBy' = [reportedBy EXCEPT ![e] = Append(@, who)]
    PROVE  /\ ObjectsSound' /\ reportedBy' \in [NextError -> Seq(Who)] /\ capturedNode' \subseteq NextError
           /\ Reporters(e)' = Reporters(e) \cup {who} /\ \A d \in NextError \ {e} : Reporters(d)' = Reporters(d)
<1> DEFINE old == reportedBy[e]
           new == Append(old, who)
<1>1. old \in Seq(Who) /\ reportedBy' = [reportedBy EXCEPT ![e] = new] /\ reportedBy \in [NextError -> Seq(Who)]
  BY DEF NextTypes
<1>2. /\ new \in Seq(Who) /\ Len(new) = Len(old) + 1 /\ new[Len(old) + 1] = who
      /\ \A i \in 1 .. Len(old) : new[i] = old[i]
      /\ DOMAIN old = 1 .. Len(old) /\ DOMAIN new = 1 .. Len(old) + 1 /\ Len(old) \in Nat
  BY <1>1, AppendProperties
<1>3. CapturedSound(e) /\ BoundaryFirst(e)
  BY DEF ObjectsSound
<1> HIDE DEF new
<1>4. reportedBy' \in [NextError -> Seq(Who)] /\ reportedBy'[e] = new /\ \A d \in NextError \ {e} : reportedBy'[d] = reportedBy[d]
  BY <1>1, <1>2
<1>5. Reporters(e)' = Reporters(e) \cup {who}
  BY <1>2, <1>4 DEF Reporters
<1>6. \A d \in NextError \ {e} : Reporters(d)' = Reporters(d)
  BY <1>4 DEF Reporters
<1>7. CapturedSound(e)'
  BY <1>3, <1>5 DEF CapturedSound, Who
<1>8. BoundaryFirst(e)'
  <2> SUFFICES ASSUME NEW i \in 1 .. Len(old) + 1, new[i] = "boundary", NEW j \in 1 .. (i - 1) PROVE new[j] = "page"
    BY <1>2, <1>4 DEF BoundaryFirst
  <2>1. j \in 1 .. Len(old) /\ new[j] = old[j] /\ i \in 1 .. Len(old) + 1
    BY <1>2
  <2>2. CASE i \in 1 .. Len(old)
    BY <1>2, <1>3, <2>1, <2>2 DEF BoundaryFirst
  <2>3. CASE i = Len(old) + 1
    <3>1. Reporters(e) \cap {"app", "boundary"} = {}
      BY <1>2, <1>3, <2>3 DEF CapturedSound
    <3>2. old[j] \in Reporters(e) /\ old[j] \in Who
      BY <1>1, <1>2, <2>1 DEF Reporters
    <3> QED
      BY <2>1, <3>1, <3>2 DEF Who
  <2> QED
    BY <1>2, <2>2, <2>3
<1>9. ASSUME NEW d \in NextError \ {e} PROVE BoundaryFirst(d)' /\ CapturedSound(d)'
  BY <1>4, <1>6 DEF ObjectsSound, BoundaryFirst, CapturedSound
<1> QED
  BY <1>4, <1>5, <1>6, <1>7, <1>8, <1>9 DEF ObjectsSound, NextTypes

(* What the objects say stays, if nothing is reported.                       *)
LEMMA NothingReported ==
    ASSUME ObjectsSound, UNCHANGED <<capturedNode, reportedBy>>
    PROVE  /\ ObjectsSound' /\ \A d \in NextError : Reporters(d)' = Reporters(d)
  BY DEF ObjectsSound, BoundaryFirst, CapturedSound, Reporters

(* What a boundary is given: reported, unless the object is captured.        *)
LEMMA BoundaryReports ==
    ASSUME NextTypes, ObjectsSound, NEW e \in NextError, AtBoundary(e)
    PROVE  /\ ObjectsSound' /\ reportedBy' \in [NextError -> Seq(Who)] /\ capturedNode' \subseteq NextError
           /\ e \in capturedNode' /\ capturedNode \subseteq capturedNode'
           /\ \A d \in NextError \ {e} : Reporters(d)' = Reporters(d)
<1>1. CASE e \in capturedNode
  BY <1>1, NothingReported DEF AtBoundary, NextTypes
<1>2. CASE e \notin capturedNode
  BY <1>2, ObjectReported DEF AtBoundary, Who
<1> QED
  BY <1>1, <1>2

(* A request that changes, and the others that stay.                         *)
LEMMA OtherRoutes ==
    ASSUME NextErrorsInv, NEW r \in Route, capturedNode \subseteq capturedNode',
           routes'[r] = routes[r], flushes'[r] = flushes[r], UNCHANGED afterFn
    PROVE  ErrorSound(r)' /\ FlushSound(r)'
  BY DEF NextErrorsInv, ErrorSound, FlushSound, WayOut

(* Signals may be told of as before, while errors stay with their requests.  *)
LEMMA SignalsStay ==
    ASSUME NextErrorsInv, \A r \in Route : routes[r].error # NoError => routes'[r].error = routes[r].error,
           \A e \in ControlFlow : "boundary" \in Reporters(e)' => "boundary" \in Reporters(e) \/ ToldTo(e)'
    PROVE  SignalsSound'
<1> SUFFICES ASSUME NEW e \in ControlFlow, "boundary" \in Reporters(e), ToldTo(e) PROVE ToldTo(e)'
  BY DEF NextErrorsInv, SignalsSound
<1>1. e # NoError
  BY NextAssumption
<1> QED
  BY <1>1 DEF ToldTo

(* A step of one request.                                                    *)
LEMMA OneRouteMoves ==
    ASSUME NextErrorsInv, NEW r \in Route, NextTypes', ObjectsSound', capturedNode \subseteq capturedNode',
           \A q \in Route \ {r} : routes'[q] = routes[q] /\ flushes'[q] = flushes[q], UNCHANGED afterFn,
           routes[r].error # NoError => routes'[r].error = routes[r].error,
           \A e \in ControlFlow : "boundary" \in Reporters(e)' => "boundary" \in Reporters(e) \/ ToldTo(e)',
           ErrorSound(r)', FlushSound(r)'
    PROVE  NextErrorsInv'
  BY SignalsStay, OtherRoutes DEF NextErrorsInv

(* One that reports nothing.                                                 *)
LEMMA QuietRouteMoves ==
    ASSUME NextErrorsInv, NEW r \in Route, NextTypes', UNCHANGED <<capturedNode, reportedBy, afterFn>>,
           \A q \in Route \ {r} : routes'[q] = routes[q] /\ flushes'[q] = flushes[q],
           routes[r].error # NoError => routes'[r].error = routes[r].error,
           ErrorSound(r)', FlushSound(r)'
    PROVE  NextErrorsInv'
  BY NothingReported, NextAssumption, OneRouteMoves DEF NextErrorsInv

LEMMA RouteOf ==
    ASSUME NextErrorsInv, NEW r \in Route
    PROVE  /\ routes \in [Route -> RouteState] /\ routes[r] \in RouteState
           /\ flushes \in [Route -> {"none", "waiting", "handed", "own"}]
           /\ ErrorSound(r) /\ FlushSound(r) /\ NextTypes /\ ObjectsSound
  BY DEF NextErrorsInv, NextTypes

LEMMA FlushIsWayOut ==
    ASSUME NEW r \in Route
    PROVE  FlushOf(r) \in {"none", "waiting", "handed", "own"} /\ (Wrapper[r] # "none" => FlushOf(r) = WayOut)
  BY DEF FlushOf, WayOut

LEMMA RouteReturnsKeeps == ASSUME NextErrorsInv, NEW r \in Route, RouteReturns(r) PROVE NextErrorsInv'
<1> DEFINE s == routes[r]
           outcome == IF Wrapper[r] = "none" THEN s.outcome ELSE "succeeded"
           t == [s EXCEPT !.st = "ended", !.outcome = outcome]
<1>1. s \in RouteState /\ s.st = "running" /\ s.error = NoError
  BY RouteOf DEF RouteReturns, ErrorSound
<1>2. outcome \in {"none", "succeeded", "failed"}
  BY <1>1 DEF RouteState
<1>3. routes' = [routes EXCEPT ![r] = t] /\ flushes' = [flushes EXCEPT ![r] = FlushOf(r)]
  BY DEF RouteReturns
<1> HIDE DEF outcome
<1>4. t \in RouteState /\ t.st = "ended" /\ t.error = NoError
  BY <1>1, <1>2 DEF RouteState
<1> HIDE DEF t
<1>5. UNCHANGED <<capturedNode, reportedBy, afterFn>>
  BY DEF RouteReturns
<1>6. NextTypes'
  BY <1>3, <1>4, RouteOf, FlushIsWayOut, <1>5 DEF NextErrorsInv, NextTypes
<1>7. routes'[r] = t /\ flushes'[r] = FlushOf(r) /\ \A q \in Route \ {r} : routes'[q] = routes[q] /\ flushes'[q] = flushes[q]
  BY <1>3, RouteOf
<1>8. ErrorSound(r)'
  BY <1>4, <1>7, NextAssumption DEF ErrorSound
<1>9. FlushSound(r)'
  BY <1>5, <1>7, FlushIsWayOut DEF FlushSound, WayOut
<1> QED
  BY <1>1, <1>5, <1>6, <1>7, <1>8, <1>9, QuietRouteMoves

(* Only the route's state moves on, and nobody reports.                      *)
LEMMA RouteGoesOn ==
    ASSUME NextErrorsInv, NEW r \in Route, NEW st \in {"importing", "ended"}, routes[r].st = "thrown",
           routes' = [routes EXCEPT ![r].st = st], UNCHANGED <<capturedNode, reportedBy, afterFn, flushes>>,
           st = "importing" /\ routes[r].error \in ControlFlow => HookRule = "all",
           st = "ended" /\ Wrapper[r] = "none" /\ r \notin EdgeRoute /\ HookRule # "off"
               => routes[r].error \in ControlFlow
    PROVE  NextErrorsInv'
<1> DEFINE s == routes[r]
           t == [s EXCEPT !.st = st]
<1>1. s \in RouteState /\ s.st = "thrown" /\ s.error # NoError
  BY RouteOf DEF ErrorSound
<1>2. routes' = [routes EXCEPT ![r] = t]
  OBVIOUS
<1>3. t \in RouteState /\ t.st = st /\ t.error = s.error /\ t.outcome = s.outcome
  BY <1>1 DEF RouteState
<1> HIDE DEF t
<1>4. routes' \in [Route -> RouteState] /\ routes'[r] = t /\ \A q \in Route \ {r} : routes'[q] = routes[q]
  BY <1>2, <1>3, RouteOf
<1>5. NextTypes'
  BY <1>4 DEF NextErrorsInv, NextTypes
<1>6. ErrorSound(r)'
  BY <1>1, <1>3, <1>4, RouteOf DEF ErrorSound
<1>7. FlushSound(r)'
  BY <1>1, <1>4, RouteOf DEF FlushSound, WayOut
<1> QED
  BY <1>1, <1>3, <1>4, <1>5, <1>6, <1>7, QuietRouteMoves

LEMMA NextAnswersKeeps == ASSUME NextErrorsInv, NEW r \in Route, NextAnswers(r) PROVE NextErrorsInv'
  BY RouteGoesOn DEF NextAnswers

LEMMA HookCalledKeeps == ASSUME NextErrorsInv, NEW r \in Route, HookCalled(r) PROVE NextErrorsInv'
<1> DEFINE e == routes[r].error
           wanted == Decided(HookRule, e, e \notin ControlFlow)
           st == IF wanted /\ r \notin EdgeRoute THEN "importing" ELSE "ended"
<1>1. routes[r].st = "thrown" /\ routes' = [routes EXCEPT ![r].st = st]
      /\ UNCHANGED <<capturedNode, reportedBy, afterFn, flushes>>
  BY DEF HookCalled
<1>2. wanted => e \notin ControlFlow \/ HookRule = "all"
  BY NextAssumption DEF Decided
<1>3. HookRule # "off" => wanted \/ e \in ControlFlow
  BY NextAssumption DEF Decided
<1>4. st \in {"importing", "ended"}
  OBVIOUS
<1>5. st = "importing" /\ e \in ControlFlow => HookRule = "all"
  BY <1>2
<1>6. st = "ended" /\ Wrapper[r] = "none" /\ r \notin EdgeRoute /\ HookRule # "off" => e \in ControlFlow
  BY <1>3
<1> HIDE DEF st
<1> QED
  BY <1>1, <1>4, <1>5, <1>6, RouteGoesOn

LEMMA HookReportsKeeps == ASSUME NextErrorsInv, NEW r \in Route, HookReports(r) PROVE NextErrorsInv'
<1> DEFINE s == routes[r]
           e == s.error
           t == [s EXCEPT !.st = "ended"]
<1>1. s \in RouteState /\ s.st = "importing" /\ e \in NextError /\ e # NoError
  BY RouteOf DEF HookReports, ErrorSound, RouteState
<1>2. AtBoundary(e) /\ routes' = [routes EXCEPT ![r] = t] /\ UNCHANGED <<afterFn, flushes>>
  BY DEF HookReports
<1>3. t \in RouteState /\ t.st = "ended" /\ t.error = e /\ t.outcome = s.outcome
  BY <1>1 DEF RouteState
<1> HIDE DEF t
<1>4. routes' \in [Route -> RouteState] /\ routes'[r] = t /\ \A q \in Route \ {r} : routes'[q] = routes[q]
  BY <1>2, <1>3, RouteOf
<1>5. /\ ObjectsSound' /\ reportedBy' \in [NextError -> Seq(Who)] /\ capturedNode' \subseteq NextError
      /\ e \in capturedNode' /\ capturedNode \subseteq capturedNode'
      /\ \A d \in NextError \ {e} : Reporters(d)' = Reporters(d)
  BY <1>1, <1>2, RouteOf, BoundaryReports
<1>6. NextTypes'
  BY <1>2, <1>4, <1>5 DEF NextErrorsInv, NextTypes
<1>7. ErrorSound(r)'
  BY <1>1, <1>3, <1>4, <1>5, RouteOf DEF ErrorSound
<1>8. FlushSound(r)'
  BY <1>1, <1>2, <1>4, RouteOf DEF FlushSound, WayOut
<1>9. ASSUME NEW d \in ControlFlow, "boundary" \in Reporters(d)' PROVE "boundary" \in Reporters(d) \/ ToldTo(d)'
  BY <1>1, RouteOf, <1>5, <1>9, NextAssumption DEF ErrorSound, ToldTo
<1> QED
  BY <1>1, <1>2, <1>3, <1>4, <1>5, <1>6, <1>7, <1>8, <1>9, OneRouteMoves

LEMMA RouteThrowsKeeps ==
    ASSUME NextErrorsInv, NEW r \in Route, NEW e \in NextError, RouteThrows(r, e) PROVE NextErrorsInv'
<1> DEFINE noted == Wrapper[r] # "none" /\ Wanted(r, e)
           failing == ~AnswersIt(r, e) \/ e \in ServerFault
           st == IF AnswersIt(r, e) THEN "ended" ELSE "thrown"
           outcome == IF Wrapper[r] = "none" THEN "none" ELSE SummaryOutcome(r, e, noted, failing)
           t == [st |-> st, error |-> e, outcome |-> outcome]
<1>1. /\ routes[r].st = "running" /\ routes' = [routes EXCEPT ![r] = t]
      /\ IF noted THEN AtBoundary(e) ELSE UNCHANGED <<capturedNode, reportedBy>>
      /\ flushes' = [flushes EXCEPT ![r] = FlushOf(r)] /\ UNCHANGED afterFn
  BY DEF RouteThrows
<1>2. outcome \in {"none", "succeeded", "failed"} /\ (Wrapper[r] = "autter" /\ e \in ControlFlow => outcome = "succeeded")
  BY DEF SummaryOutcome
<1>3. st \in {"thrown", "ended"} /\ (st = "ended" => Wrapper[r] = "autter")
  BY DEF AnswersIt
<1>4. e \notin ControlFlow /\ Wrapper[r] # "none" /\ CaptureRule[r] = "unset" => noted
  BY DEF Wanted, Decided
<1>5. noted /\ e \in ControlFlow => Wrapper[r] = "request" /\ Decided(CaptureRule[r], e, TRUE)
  BY NextAssumption DEF Wanted
<1> HIDE DEF noted, outcome, st
<1>6. t \in RouteState /\ t.st = st /\ t.error = e /\ t.outcome = outcome
  BY <1>2, <1>3 DEF RouteState
<1> HIDE DEF t
<1>7. /\ routes' \in [Route -> RouteState] /\ routes'[r] = t /\ \A q \in Route \ {r} : routes'[q] = routes[q]
  BY <1>1, <1>6, RouteOf
<1>8. /\ flushes' \in [Route -> {"none", "waiting", "handed", "own"}] /\ flushes'[r] = FlushOf(r)
      /\ \A q \in Route \ {r} : flushes'[q] = flushes[q]
  BY <1>1, FlushIsWayOut, RouteOf
<1>9. /\ ObjectsSound' /\ reportedBy' \in [NextError -> Seq(Who)] /\ capturedNode' \subseteq NextError
      /\ (noted => e \in capturedNode') /\ capturedNode \subseteq capturedNode'
      /\ \A d \in NextError \ {e} : Reporters(d)' = Reporters(d)
      /\ ~noted => Reporters(e)' = Reporters(e)
  <2>1. CASE noted
    BY <1>1, <2>1, RouteOf, BoundaryReports
  <2>2. CASE ~noted
    BY <1>1, <2>2, RouteOf, NothingReported DEF NextTypes
  <2> QED
    BY <2>1, <2>2
<1>10. NextTypes'
  BY <1>1, <1>7, <1>8, <1>9 DEF NextErrorsInv, NextTypes
<1>11. ErrorSound(r)'
  BY <1>2, <1>3, <1>4, <1>6, <1>7, <1>9, NextAssumption DEF ErrorSound
<1>12. FlushSound(r)'
  BY <1>1, <1>8, FlushIsWayOut DEF FlushSound, WayOut
<1>13. ASSUME NEW d \in ControlFlow, "boundary" \in Reporters(d)' PROVE "boundary" \in Reporters(d) \/ ToldTo(d)'
  BY <1>5, <1>6, <1>7, <1>9, <1>13, NextAssumption DEF ToldTo
<1>14. routes[r].error = NoError
  BY <1>1, RouteOf DEF ErrorSound
<1> QED
  BY <1>1, <1>7, <1>8, <1>9, <1>10, <1>11, <1>12, <1>13, <1>14, OneRouteMoves

(* The application or an error page reports: no request moves.               *)
LEMMA ReportedElsewhere ==
    ASSUME NextErrorsInv, ObjectsSound', reportedBy' \in [NextError -> Seq(Who)], capturedNode' \subseteq NextError,
           capturedNode \subseteq capturedNode', UNCHANGED <<routes, flushes, afterFn>>,
           \A e \in ControlFlow : "boundary" \in Reporters(e)' => "boundary" \in Reporters(e)
    PROVE  NextErrorsInv'
  BY SignalsStay, OtherRoutes DEF NextErrorsInv, NextTypes

LEMMA AppCapturesKeeps ==
    ASSUME NextErrorsInv, NEW r \in Route, NEW e \in NextError, AppCaptures(r, e) PROVE NextErrorsInv'
<1>1. /\ capturedNode' = capturedNode \cup {e} /\ "app" \in Who /\ UNCHANGED <<routes, flushes, afterFn>>
      /\ reportedBy' = [reportedBy EXCEPT ![e] = Append(@, "app")] /\ NextTypes /\ ObjectsSound
  BY RouteOf DEF AppCaptures, Who
<1>2. /\ ObjectsSound' /\ reportedBy' \in [NextError -> Seq(Who)] /\ capturedNode' \subseteq NextError
      /\ Reporters(e)' = Reporters(e) \cup {"app"} /\ \A d \in NextError \ {e} : Reporters(d)' = Reporters(d)
  BY <1>1, ObjectReported
<1>3. \A d \in ControlFlow : "boundary" \in Reporters(d)' => "boundary" \in Reporters(d)
  BY <1>2, NextAssumption
<1> QED
  BY <1>1, <1>2, <1>3, ReportedElsewhere

LEMMA PageRendersKeeps == ASSUME NextErrorsInv, NEW e \in PageError, PageRenders(e) PROVE NextErrorsInv'
<1>1. UNCHANGED <<routes, capturedNode, afterFn, flushes>> /\ e \in NextError /\ NextTypes /\ ObjectsSound
  BY NextAssumption DEF PageRenders, NextErrorsInv
<1>2. CASE UNCHANGED reportedBy
  BY <1>1, <1>2, NothingReported, ReportedElsewhere, NextAssumption DEF NextTypes
<1>3. CASE reportedBy' = [reportedBy EXCEPT ![e] = Append(@, "page")]
  BY <1>1, <1>3, ObjectReported, NextAssumption, ReportedElsewhere DEF Who
<1> QED
  BY <1>2, <1>3 DEF PageRenders

(* The import of next/server ends: every flush that waited goes out.         *)
LEMMA AfterImportedKeeps == ASSUME NextErrorsInv, NEW found \in BOOLEAN, AfterImported(found) PROVE NextErrorsInv'
<1>1. UNCHANGED <<routes, capturedNode, reportedBy>> /\ afterFn = "loading"
      /\ afterFn' = IF found THEN "here" ELSE "absent"
  BY DEF AfterImported
<1>2. \A r \in Route : flushes'[r] = IF flushes[r] # "waiting" THEN flushes[r]
                                     ELSE IF found THEN "handed" ELSE "own"
  BY DEF AfterImported
<1>3. flushes' \in [Route -> {"none", "waiting", "handed", "own"}]
  BY DEF AfterImported, NextErrorsInv, NextTypes
<1>4. NextTypes'
  BY <1>1, <1>3 DEF NextErrorsInv, NextTypes
<1>5. ObjectsSound' /\ \A e \in ControlFlow : Reporters(e)' = Reporters(e)
  BY <1>1, NothingReported, NextAssumption DEF NextErrorsInv
<1>6. SignalsSound'
  BY <1>1, <1>5, SignalsStay
<1>7. ASSUME NEW r \in Route PROVE ErrorSound(r)' /\ FlushSound(r)'
  BY <1>1, RouteOf, <1>2 DEF ErrorSound, FlushSound, WayOut
<1> QED
  BY <1>4, <1>5, <1>6, <1>7 DEF NextErrorsInv

LEMMA NextErrorsSteps == NextErrorsInv /\ [NextErrorsNext]_nextVars => NextErrorsInv'
<1> SUFFICES ASSUME NextErrorsInv, [NextErrorsNext]_nextVars PROVE NextErrorsInv'
  OBVIOUS
<1>1. CASE UNCHANGED <<routes, capturedNode, reportedBy, afterFn, flushes>>
  BY <1>1, NothingReported, ReportedElsewhere, NextAssumption DEF NextErrorsInv, NextTypes
<1>2. CASE \E r \in Route : RouteReturns(r) \/ NextAnswers(r) \/ HookCalled(r) \/ HookReports(r)
  BY <1>2, RouteReturnsKeeps, NextAnswersKeeps, HookCalledKeeps, HookReportsKeeps
<1>3. CASE \E r \in Route, e \in NextError : AppCaptures(r, e) \/ RouteThrows(r, e)
  BY <1>3, AppCapturesKeeps, RouteThrowsKeeps
<1>4. CASE \E found \in BOOLEAN : AfterImported(found)
  BY <1>4, AfterImportedKeeps
<1>5. CASE \E r \in Route : EdgePosted(r) \/ EdgeStops(r)
  BY <1>1, <1>5 DEF EdgePosted, EdgeStops
<1>6. CASE \E e \in PageError : PageRenders(e)
  BY <1>6, PageRendersKeeps
<1>7. CASE UNCHANGED nextVars
  BY <1>1, <1>7 DEF nextVars
<1> QED
  BY <1>2, <1>3, <1>4, <1>5, <1>6, <1>7 DEF NextErrorsNext

(* Each error object of a Next.js app is captured once some boundary reported *)
(* it, a request's state says what became of its error, and its flush is      *)
(* where the import of after() has brought it, for any routes, wrappers,      *)
(* rules and errors: the inductive invariant.                                *)
THEOREM NextErrorsInvariant == NextErrorsSpec => []NextErrorsInv
<1> QED
  BY NextErrorsStart, NextErrorsSteps, PTL DEF NextErrorsSpec

LEMMA NextErrorsHold == NextErrorsInv => NextErrorsOnce /\ FlushesHanded
<1> SUFFICES ASSUME NextErrorsInv PROVE NextErrorsOnce /\ FlushesHanded
  OBVIOUS
<1>1. \A e \in NextError, i \in 1 .. 4 :
          i \in DOMAIN reportedBy[e] /\ reportedBy[e][i] = "boundary" =>
              \A j \in 1 .. (i - 1) : reportedBy[e][j] = "page"
  BY DEF NextErrorsInv, ObjectsSound, BoundaryFirst
<1>2. ASSUME NEW r \in Route, routes[r].st = "ended", routes[r].error # NoError,
             routes[r].error \notin ControlFlow, ReportingRoute(r)
      PROVE  Reporters(routes[r].error) \cap {"app", "boundary"} # {}
  BY <1>2, RouteOf DEF ReportingRoute, ErrorSound, RouteState, NextErrorsInv, ObjectsSound, CapturedSound
<1>3. \A e \in ControlFlow : "boundary" \in Reporters(e) => ToldTo(e)
  BY DEF NextErrorsInv, SignalsSound
<1>4. \A r \in Route : Wrapper[r] = "autter" /\ routes[r].error \in ControlFlow => routes[r].outcome = "succeeded"
  BY DEF NextErrorsInv, ErrorSound
<1>5. NextErrorsOnce
  BY <1>1, <1>2, <1>3, <1>4 DEF NextErrorsOnce, ToldTo
<1>6. FlushesHanded
  BY DEF NextErrorsInv, FlushSound, WayOut, FlushesHanded
<1> QED
  BY <1>5, <1>6

-----------------------------------------------------------------------------
(***************************************************************************)
(* Errors of a Next.js app: pages.                                          *)
(***************************************************************************)
PagesSound ==
    /\ capturedEdge \cup pages \subseteq NextError
    /\ \A r \in Route : routes[r].st = "thrown" => routes[r].error \in NextError

LEMMA PagesStart == NextErrorsInit => PagesSound
  BY DEF NextErrorsInit, PagesSound

LEMMA PagesStay == NextErrorsInv /\ PagesSound /\ [NextErrorsNext]_nextVars => PagesSound'
<1> SUFFICES ASSUME NextErrorsInv, PagesSound, [NextErrorsNext]_nextVars PROVE PagesSound'
  OBVIOUS
<1> USE DEF PagesSound
<1>0. routes \in [Route -> RouteState]
  BY DEF NextErrorsInv, NextTypes
<1>1. ASSUME NEW r \in Route, RouteReturns(r) \/ NextAnswers(r) PROVE PagesSound'
  BY <1>0, <1>1 DEF RouteReturns, NextAnswers, RouteState
<1>2. ASSUME NEW r \in Route, HookCalled(r) PROVE PagesSound'
  BY <1>0, <1>2 DEF HookCalled, RouteState
<1>3. ASSUME NEW r \in Route, HookReports(r) PROVE PagesSound'
  BY <1>0, <1>3 DEF HookReports, RouteState
<1>4. ASSUME NEW r \in Route, NEW e \in NextError, AppCaptures(r, e) PROVE PagesSound'
  BY <1>4 DEF AppCaptures
<1>5. ASSUME NEW r \in Route, NEW e \in NextError, RouteThrows(r, e) PROVE PagesSound'
  <2> DEFINE noted == Wrapper[r] # "none" /\ Wanted(r, e)
             failing == ~AnswersIt(r, e) \/ e \in ServerFault
             t == [st |-> IF AnswersIt(r, e) THEN "ended" ELSE "thrown", error |-> e,
                   outcome |-> IF Wrapper[r] = "none" THEN "none" ELSE SummaryOutcome(r, e, noted, failing)]
  <2>1. routes' = [routes EXCEPT ![r] = t] /\ t.error = e
    BY <1>5 DEF RouteThrows
  <2> HIDE DEF t
  <2>2. UNCHANGED <<capturedEdge, pages>>
    BY <1>5 DEF RouteThrows
  <2> QED
    BY <1>0, <2>1, <2>2
<1>6. ASSUME NEW found \in BOOLEAN, AfterImported(found) PROVE PagesSound'
  BY <1>6 DEF AfterImported
<1>7. ASSUME NEW r \in Route, EdgePosted(r) \/ EdgeStops(r) PROVE PagesSound'
  BY <1>7 DEF EdgePosted, EdgeStops
<1>8. ASSUME NEW e \in PageError, PageRenders(e) PROVE PagesSound'
  BY <1>8, NextAssumption DEF PageRenders
<1>9. CASE UNCHANGED nextVars
  BY <1>9 DEF nextVars
<1> QED
  BY <1>1, <1>2, <1>3, <1>4, <1>5, <1>6, <1>7, <1>8, <1>9 DEF NextErrorsNext

LEMMA PagesInvariant == NextErrorsSpec => []PagesSound
  BY PagesStart, PagesStay, NextErrorsInvariant, PTL DEF NextErrorsSpec

LEMMA NextErrorsTyped == NextErrorsInv /\ PagesSound => NextErrorsTypeOK
<1> SUFFICES ASSUME NextErrorsInv, PagesSound PROVE NextErrorsTypeOK
  OBVIOUS
<1>1. \A e \in NextError : Reporters(e) \subseteq Who
  BY DEF NextErrorsInv, NextTypes, Reporters
<1> QED
  BY <1>1 DEF NextErrorsInv, NextTypes, RouteState, Who, PagesSound, NextErrorsTypeOK

-----------------------------------------------------------------------------
(***************************************************************************)
(* Operations.                                                              *)
(***************************************************************************)
OperationSpec == OperationInit /\ [][OperationNext]_operationVars

OperationState ==
    [st : {"none", "running", "sealed"}, kind : {"none", "request", "operation"},
     parent : Operation \cup {NoOp}, request : Operation \cup {NoOp}, outcome : Statuses,
     explicit : BOOLEAN, error : Thrown \cup {NoOp}, thrown : BOOLEAN, degraded : BOOLEAN]
OperationTypes ==
    /\ operations \in [Operation -> OperationState] /\ opRecords \in [Operation -> Seq({"line", "summary"})]
    /\ failureReports \in [Operation -> Seq({"outcome", "exception"})]
    /\ outcomesSet \in [Operation -> Statuses \cup {NoOp}]

(* Where an operation stands in its records, its reports and its outcome.     *)
RecordsSound(o) ==
    /\ operations[o].st # "sealed" => \A i \in DOMAIN opRecords[o] : opRecords[o][i] = "line"
    /\ operations[o].st = "sealed" =>
          /\ Len(opRecords[o]) > 0
          /\ \A i \in DOMAIN opRecords[o] : opRecords[o][i] = "summary" <=> i = Len(opRecords[o])
ReportsSoundOf(o) ==
    operations[o].kind # "request" =>
        /\ operations[o].st # "sealed" => failureReports[o] = <<>>
        /\ operations[o].st = "sealed" /\ operations[o].error \notin FalsyErrors =>
              Len(failureReports[o]) = IF operations[o].outcome = "failed" THEN 1 ELSE 0
OutcomeSound(o) ==
    operations[o].kind = "request" \/ operations[o].st # "sealed" =>
        /\ operations[o].explicit <=> outcomesSet[o] # NoOp
        /\ outcomesSet[o] # NoOp => operations[o].outcome = outcomesSet[o]
StateSound(o) ==
    /\ operations[o].st = "none" <=> operations[o].kind = "none"
    /\ operations[o].st = "none" => ~operations[o].explicit
Linked(o) ==
    operations[o].kind = "operation" =>
        LET p == operations[o].parent IN
        p # NoOp => p \in Started /\ operations[o].request = operations[p].request
OperationSound(o) == RecordsSound(o) /\ ReportsSoundOf(o) /\ OutcomeSound(o) /\ StateSound(o)

OperationInv == OperationTypes /\ \A o \in Operation : OperationSound(o) /\ Linked(o)

-----------------------------------------------------------------------------
LEMMA OperationStarts == OperationInit => OperationInv
<1> SUFFICES ASSUME OperationInit PROVE OperationInv
  OBVIOUS
<1>1. Unstarted \in OperationState
  BY DEF Unstarted, OperationState, Statuses
<1>2. <<>> \in Seq({"line", "summary"}) /\ <<>> \in Seq({"outcome", "exception"}) /\ DOMAIN <<>> = {}
  OBVIOUS
<1>3. OperationTypes
  BY <1>1, <1>2 DEF OperationInit, OperationTypes
<1>4. ASSUME NEW o \in Operation PROVE OperationSound(o) /\ Linked(o)
  BY <1>2 DEF OperationInit, RecordsSound, Unstarted, ReportsSoundOf, OutcomeSound, StateSound, Linked,
     OperationSound
<1> QED
  BY <1>3, <1>4 DEF OperationInv

(* A step of one operation: what it keeps of what others link to.            *)
LEMMA OneOperationMoves ==
    ASSUME OperationInv, NEW o \in Operation, OperationTypes', OperationSound(o)', Linked(o)',
           operations'[o].st # "none",
           operations[o].st # "none" => operations'[o].request = operations[o].request,
           \A q \in Operation \ {o} :
               /\ operations'[q] = operations[q] /\ opRecords'[q] = opRecords[q]
               /\ failureReports'[q] = failureReports[q] /\ outcomesSet'[q] = outcomesSet[q]
    PROVE  OperationInv'
<1> SUFFICES ASSUME NEW q \in Operation \ {o} PROVE OperationSound(q)' /\ Linked(q)'
  BY DEF OperationInv
<1>1. OperationSound(q) /\ Linked(q)
  BY DEF OperationInv
<1>2. OperationSound(q)'
  BY <1>1 DEF OperationSound, RecordsSound, ReportsSoundOf, OutcomeSound, StateSound
<1>3. ASSUME NEW p \in Started PROVE p \in Started' /\ operations'[p].request = operations[p].request
  BY DEF Started
<1>4. Linked(q)'
  BY <1>1, <1>3 DEF Linked
<1> QED
  BY <1>2, <1>4

LEMMA OperationOf ==
    ASSUME OperationInv, NEW o \in Operation
    PROVE  /\ operations \in [Operation -> OperationState] /\ operations[o] \in OperationState
           /\ opRecords \in [Operation -> Seq({"line", "summary"})] /\ opRecords[o] \in Seq({"line", "summary"})
           /\ failureReports \in [Operation -> Seq({"outcome", "exception"})]
           /\ failureReports[o] \in Seq({"outcome", "exception"})
           /\ outcomesSet \in [Operation -> Statuses \cup {NoOp}]
           /\ OperationSound(o) /\ Linked(o)
  BY DEF OperationInv, OperationTypes

-----------------------------------------------------------------------------
(* A new operation, linked to one that has started or to none.               *)
LEMMA NewStateKeeps ==
    ASSUME OperationInv, NEW o \in Operation, NEW kind \in {"request", "operation"},
           NEW parent \in Started \cup {NoOp}, NEW request \in Operation \cup {NoOp},
           kind = "operation" /\ parent # NoOp => request = operations[parent].request,
           NewState(o, kind, parent, request)
    PROVE  OperationInv'
<1> DEFINE t == [Unstarted EXCEPT !.st = "running", !.kind = kind, !.parent = parent, !.request = request]
<1>1. o \notin Started /\ operations' = [operations EXCEPT ![o] = t]
      /\ UNCHANGED <<opRecords, failureReports, outcomesSet>>
  BY DEF NewState, Started
<1>2. Unstarted \in OperationState /\ ~Unstarted.explicit /\ parent \in Operation \cup {NoOp}
  BY DEF Unstarted, OperationState, Statuses, Started
<1>3. t \in OperationState
  BY <1>2 DEF OperationState
<1>4. /\ t.st = "running" /\ t.kind = kind /\ t.parent = parent /\ t.request = request /\ ~t.explicit
  BY <1>2 DEF OperationState
<1> HIDE DEF t
<1>5. operations' \in [Operation -> OperationState] /\ operations'[o] = t
      /\ \A q \in Operation \ {o} : operations'[q] = operations[q]
  BY <1>1, <1>3, OperationOf
<1>6. OperationTypes'
  BY <1>1, <1>5 DEF OperationInv, OperationTypes
<1>7. operations[o].st = "none" /\ operations[o].kind = "none" /\ ~operations[o].explicit
  BY <1>1, OperationOf DEF Started, OperationSound, StateSound
<1>8. OperationSound(o)'
  BY <1>1, <1>4, <1>5, <1>7, OperationOf
  DEF OperationSound, RecordsSound, ReportsSoundOf, OutcomeSound, StateSound
<1>9. Linked(o)'
  <2> SUFFICES ASSUME kind = "operation", parent # NoOp
               PROVE  parent \in Started' /\ request = operations'[parent].request
    BY <1>4, <1>5 DEF Linked
  <2>1. parent \in Operation \ {o} /\ operations'[parent] = operations[parent]
    BY <1>1, <1>5 DEF Started
  <2> QED
    BY <2>1 DEF Started
<1> QED
  BY <1>1, <1>4, <1>5, <1>6, <1>7, <1>8, <1>9, OneOperationMoves

LEMMA BeginsKeep ==
    ASSUME OperationInv, NEW o \in Operation, NEW store \in Started \cup {NoOp},
           BeginRequest(o, store) \/ WithOperation(o, store) \/ Fork(o, store)
    PROVE  OperationInv'
  BY OperationOf, NewStateKeeps DEF CurrentOf, RequestOf, Started, OperationState, BeginRequest,
     WithOperation, Fork

(* Only the state of a live operation moves: what it has to keep.            *)
LEMMA LiveMoves ==
    ASSUME OperationInv, NEW o \in Operation, Live(o), NEW t \in OperationState,
           operations' = [operations EXCEPT ![o] = t], UNCHANGED <<opRecords, failureReports>>,
           outcomesSet' \in [Operation -> Statuses \cup {NoOp}],
           \A q \in Operation \ {o} : outcomesSet'[q] = outcomesSet[q],
           t.st = "running", t.kind = operations[o].kind, t.parent = operations[o].parent,
           t.request = operations[o].request,
           t.explicit <=> outcomesSet'[o] # NoOp, outcomesSet'[o] # NoOp => t.outcome = outcomesSet'[o]
    PROVE  OperationInv'
<1>1. operations' \in [Operation -> OperationState] /\ operations'[o] = t
      /\ \A q \in Operation \ {o} : operations'[q] = operations[q]
  BY OperationOf
<1>2. OperationTypes'
  BY <1>1 DEF OperationInv, OperationTypes
<1>3. OperationSound(o)'
  BY <1>1, OperationOf DEF Live, OperationSound, RecordsSound, ReportsSoundOf, OutcomeSound, StateSound
<1>4. Linked(o)'
  <2> SUFFICES ASSUME t.kind = "operation", t.parent # NoOp
               PROVE  t.parent \in Started' /\ t.request = operations'[t.parent].request
    BY <1>1 DEF Linked
  <2>1. t.parent \in Started /\ t.request = operations[t.parent].request
    BY OperationOf DEF Linked
  <2>2. CASE t.parent = o
    BY <1>1, <2>1, <2>2 DEF Started
  <2>3. CASE t.parent # o
    BY <1>1, <2>1, <2>3 DEF Started
  <2> QED
    BY <2>2, <2>3
<1>5. \A q \in Operation \ {o} :
          /\ operations'[q] = operations[q] /\ opRecords'[q] = opRecords[q]
          /\ failureReports'[q] = failureReports[q] /\ outcomesSet'[q] = outcomesSet[q]
  BY <1>1
<1> QED
  BY <1>1, <1>2, <1>3, <1>4, <1>5, OneOperationMoves

LEMMA SetOutcomeKeeps ==
    ASSUME OperationInv, NEW o \in Started, NEW status \in Statuses, SetOutcome(o, status) PROVE OperationInv'
<1> DEFINE s == operations[o]
           t == [s EXCEPT !.outcome = status, !.explicit = TRUE]
<1>1. o \in Operation /\ Live(o) /\ s \in OperationState
  BY OperationOf DEF SetOutcome, CurrentOf, Started
<1>2. /\ operations' = [operations EXCEPT ![o].outcome = status, ![o].explicit = TRUE]
      /\ outcomesSet' = [outcomesSet EXCEPT ![o] = status] /\ UNCHANGED <<opRecords, failureReports>>
  BY DEF SetOutcome
<1>3. operations' = [operations EXCEPT ![o] = t]
  BY <1>1, <1>2, OperationOf
<1>4. t \in OperationState /\ t.st = "running" /\ t.kind = s.kind /\ t.parent = s.parent
      /\ t.request = s.request /\ t.explicit /\ t.outcome = status
  BY <1>1 DEF OperationState, Live
<1>5. outcomesSet' \in [Operation -> Statuses \cup {NoOp}] /\ outcomesSet'[o] = status
      /\ \A q \in Operation \ {o} : outcomesSet'[q] = outcomesSet[q]
  BY <1>1, <1>2, OperationOf
<1>6. status # NoOp
  BY OperationAssumption DEF Statuses
<1> HIDE DEF t
<1> QED
  BY <1>1, <1>2, <1>3, <1>4, <1>5, <1>6, LiveMoves

(* An error is noted: the outcome stays as it is.                            *)
LEMMA ErrorNoted ==
    ASSUME OperationInv, NEW o \in Started, NEW e \in Thrown, NoteError(o, e) \/ Degraded(o, e) PROVE OperationInv'
<1> DEFINE s == operations[o]
<1>1. o \in Operation /\ Live(o) /\ s \in OperationState /\ OutcomeSound(o)
      /\ UNCHANGED <<opRecords, failureReports, outcomesSet>>
  BY OperationOf DEF NoteError, Degraded, CurrentOf, Started, OperationSound
<1>2. ASSUME NEW t \in OperationState, operations' = [operations EXCEPT ![o] = t], t.st = "running", t.kind = s.kind,
             t.parent = s.parent, t.request = s.request, t.explicit = s.explicit, t.outcome = s.outcome
      PROVE  OperationInv'
  BY <1>1, <1>2, OperationOf, LiveMoves DEF OutcomeSound, Live
<1>3. CASE NoteError(o, e)
  <2> DEFINE t == [s EXCEPT !.error = e]
  <2>1. operations' = [operations EXCEPT ![o] = t]
    BY <1>3 DEF NoteError
  <2>2. t \in OperationState /\ t.st = "running" /\ t.kind = s.kind /\ t.parent = s.parent
        /\ t.request = s.request /\ t.explicit = s.explicit /\ t.outcome = s.outcome
    BY <1>1 DEF OperationState, Live
  <2> HIDE DEF t
  <2> QED
    BY <1>2, <2>1, <2>2
<1>4. CASE Degraded(o, e)
  <2> DEFINE t == [s EXCEPT !.error = e, !.degraded = TRUE]
  <2>1. operations' = [operations EXCEPT ![o].error = e, ![o].degraded = TRUE]
    BY <1>4 DEF Degraded
  <2>2. operations' = [operations EXCEPT ![o] = t]
    BY <1>1, <2>1, OperationOf
  <2>3. t \in OperationState /\ t.st = "running" /\ t.kind = s.kind /\ t.parent = s.parent
        /\ t.request = s.request /\ t.explicit = s.explicit /\ t.outcome = s.outcome
    BY <1>1 DEF OperationState, Live
  <2> HIDE DEF t
  <2> QED
    BY <1>2, <2>2, <2>3
<1> QED
  BY <1>3, <1>4

LEMMA LogLineKeeps == ASSUME OperationInv, NEW o \in Started, LogLine(o) PROVE OperationInv'
<1>1. o \in Operation /\ operations[o].st = "running"
      /\ opRecords' = [opRecords EXCEPT ![o] = Append(opRecords[o], "line")]
      /\ UNCHANGED <<operations, failureReports, outcomesSet>>
  BY DEF LogLine, MayEmit, Live, Started
<1>2. /\ Append(opRecords[o], "line") \in Seq({"line", "summary"})
      /\ DOMAIN Append(opRecords[o], "line") = 1 .. Len(opRecords[o]) + 1
      /\ Append(opRecords[o], "line")[Len(opRecords[o]) + 1] = "line"
      /\ \A i \in 1 .. Len(opRecords[o]) : Append(opRecords[o], "line")[i] = opRecords[o][i]
      /\ DOMAIN opRecords[o] = 1 .. Len(opRecords[o])
  BY <1>1, OperationOf, AppendProperties
<1>3. opRecords' \in [Operation -> Seq({"line", "summary"})] /\ opRecords'[o] = Append(opRecords[o], "line")
      /\ \A q \in Operation \ {o} : opRecords'[q] = opRecords[q]
  BY <1>1, <1>2, OperationOf
<1>4. OperationTypes'
  BY <1>1, <1>3 DEF OperationInv, OperationTypes
<1>5. RecordsSound(o)'
  <2> SUFFICES ASSUME NEW i \in 1 .. Len(opRecords[o]) + 1 PROVE opRecords'[o][i] = "line"
    BY <1>1, <1>2, <1>3 DEF RecordsSound
  <2>1. CASE i \in 1 .. Len(opRecords[o])
    BY <1>1, <1>2, <1>3, <2>1, OperationOf DEF OperationSound, RecordsSound
  <2>2. CASE i = Len(opRecords[o]) + 1
    BY <1>2, <1>3, <2>2
  <2>3. Len(opRecords[o]) \in Nat
    BY <1>1, OperationOf
  <2> QED
    BY <2>1, <2>2, <2>3
<1>6. OperationSound(o)'
  BY <1>1, <1>5, OperationOf DEF OperationSound, ReportsSoundOf, OutcomeSound, StateSound
<1>7. Linked(o)'
  BY <1>1, OperationOf DEF Linked, Started
<1> QED
  BY <1>1, <1>3, <1>4, <1>6, <1>7, OneOperationMoves

-----------------------------------------------------------------------------
(* The summary of an operation whose state by then is s, with its report.    *)
LEMMA SummaryKeeps ==
    ASSUME OperationInv, NEW o \in Operation, Live(o), NEW s \in OperationState,
           NEW report \in Seq({"outcome", "exception"}), EmitSummary(o, s, report),
           s.st = "running", s.kind = operations[o].kind, s.parent = operations[o].parent,
           s.request = operations[o].request, s.explicit = operations[o].explicit,
           s.kind = "request" /\ s.explicit => s.outcome = operations[o].outcome,
           s.kind # "request" /\ s.error \notin FalsyErrors =>
               Len(report) = IF s.outcome = "failed" THEN 1 ELSE 0
    PROVE  OperationInv'
<1> DEFINE outcome == IF s.degraded /\ s.outcome = "succeeded" /\ ~s.explicit THEN "degraded" ELSE s.outcome
           t == [s EXCEPT !.st = "sealed", !.outcome = outcome]
           records == Append(opRecords[o], "summary")
           reported == failureReports[o] \o report
<1>1. /\ operations' = [operations EXCEPT ![o] = t] /\ opRecords' = [opRecords EXCEPT ![o] = records]
      /\ failureReports' = [failureReports EXCEPT ![o] = reported] /\ UNCHANGED outcomesSet
  BY DEF EmitSummary
<1>2. outcome \in Statuses
  BY DEF OperationState, Statuses
<1>3. (outcome = "failed" <=> s.outcome = "failed") /\ (s.explicit => outcome = s.outcome)
  OBVIOUS
<1> HIDE DEF outcome
<1>4. t \in OperationState /\ t.st = "sealed" /\ t.kind = s.kind /\ t.parent = s.parent /\ t.request = s.request
      /\ t.explicit = s.explicit /\ t.outcome = outcome /\ t.error = s.error
  BY <1>2 DEF OperationState
<1>5. /\ records \in Seq({"line", "summary"}) /\ Len(records) = Len(opRecords[o]) + 1
      /\ DOMAIN records = 1 .. Len(opRecords[o]) + 1 /\ records[Len(opRecords[o]) + 1] = "summary"
      /\ \A i \in 1 .. Len(opRecords[o]) : records[i] = opRecords[o][i]
      /\ DOMAIN opRecords[o] = 1 .. Len(opRecords[o]) /\ Len(opRecords[o]) \in Nat
  BY OperationOf, AppendProperties
<1>6. reported \in Seq({"outcome", "exception"}) /\ Len(reported) = Len(failureReports[o]) + Len(report)
  BY OperationOf, ConcatProperties
<1> HIDE DEF t, records, reported
<1>7. /\ operations' \in [Operation -> OperationState] /\ operations'[o] = t
      /\ opRecords' \in [Operation -> Seq({"line", "summary"})] /\ opRecords'[o] = records
      /\ failureReports' \in [Operation -> Seq({"outcome", "exception"})] /\ failureReports'[o] = reported
  BY <1>1, <1>4, <1>5, <1>6, OperationOf
<1>8. \A q \in Operation \ {o} : /\ operations'[q] = operations[q] /\ opRecords'[q] = opRecords[q]
                                 /\ failureReports'[q] = failureReports[q] /\ outcomesSet'[q] = outcomesSet[q]
  BY <1>1, OperationOf
<1>9. OperationTypes'
  BY <1>1, <1>7 DEF OperationInv, OperationTypes
<1>10. RecordsSound(o)'
  <2>1. \A i \in DOMAIN opRecords[o] : opRecords[o][i] = "line"
    BY OperationOf DEF OperationSound, RecordsSound, Live
  <2>2. DOMAIN records = 1 .. Len(records)
    BY <1>5
  <2>3. \A i \in 1 .. Len(opRecords[o]) : records[i] = "line" /\ i # Len(records)
    <3> TAKE i \in 1 .. Len(opRecords[o])
    <3>1. i # Len(records)
      BY <1>5
    <3>2. records[i] = "line"
      BY ONLY <1>5, <2>1, i \in 1 .. Len(opRecords[o])
    <3> QED
      BY <3>1, <3>2
  <2>4. \A i \in DOMAIN records : i \in 1 .. Len(opRecords[o]) \/ i = Len(records)
    BY <1>5
  <2>5. records[Len(records)] = "summary"
    BY ONLY <1>5
  <2>6. \A i \in DOMAIN records : records[i] = "summary" <=> i = Len(records)
    BY ONLY <2>3, <2>4, <2>5
  <2> QED
    BY <1>4, <1>5, <1>7, <2>6 DEF RecordsSound
<1>11. ReportsSoundOf(o)'
  <2> SUFFICES ASSUME s.kind # "request", s.error \notin FalsyErrors
               PROVE  Len(reported) = IF s.outcome = "failed" THEN 1 ELSE 0
    BY <1>3, <1>4, <1>7 DEF ReportsSoundOf
  <2>1. failureReports[o] = <<>>
    BY OperationOf DEF OperationSound, ReportsSoundOf, Live
  <2>2. Len(reported) = Len(report)
    BY <1>6, <2>1
  <2> QED
    BY <2>2
<1>12. OutcomeSound(o)' /\ StateSound(o)'
  BY <1>1, <1>3, <1>4, <1>7, OperationOf DEF Live, OperationSound, OutcomeSound, StateSound
<1>13. Linked(o)'
  <2> SUFFICES ASSUME t.kind = "operation", t.parent # NoOp
               PROVE  t.parent \in Started' /\ t.request = operations'[t.parent].request
    BY <1>7 DEF Linked
  <2>1. t.parent \in Started /\ t.request = operations[t.parent].request
    BY <1>4, OperationOf DEF Linked
  <2>2. CASE t.parent = o
    BY <1>4, <1>7, <2>1, <2>2 DEF Started
  <2>3. CASE t.parent # o
    BY <1>8, <2>1, <2>3 DEF Started
  <2> QED
    BY <2>2, <2>3
<1> QED
  BY <1>4, <1>7, <1>8, <1>9, <1>10, <1>11, <1>12, <1>13, OneOperationMoves DEF OperationSound

LEMMA ReportTypes ==
    /\ <<"outcome">> \in Seq({"outcome", "exception"}) /\ Len(<<"outcome">>) = 1
    /\ <<>> \in Seq({"outcome", "exception"}) /\ Len(<<>>) = 0
  OBVIOUS

LEMMA OneReport ==
    ASSUME NEW s, NEW truthy \in BOOLEAN
    PROVE  /\ OutcomeReported(s, truthy) \in Seq({"outcome", "exception"})
           /\ Len(OutcomeReported(s, truthy)) = IF s.outcome = "failed" /\ ~truthy THEN 1 ELSE 0
<1>1. CASE s.outcome = "failed" /\ ~truthy
  BY <1>1, ReportTypes DEF OutcomeReported
<1>2. CASE ~(s.outcome = "failed" /\ ~truthy)
  BY <1>2, ReportTypes DEF OutcomeReported
<1> QED
  BY <1>1, <1>2

LEMMA OperationReturnsKeeps == ASSUME OperationInv, NEW o \in Started, OperationReturns(o) PROVE OperationInv'
  BY OneReport, OperationOf, SummaryKeeps DEF OperationReturns, Requests, Started, Live

LEMMA OperationThrowsKeeps ==
    ASSUME OperationInv, NEW o \in Started, NEW e \in Thrown, OperationThrows(o, e) PROVE OperationInv'
<1> DEFINE s == operations[o]
           t == [s EXCEPT !.outcome = "failed", !.error = e, !.thrown = TRUE]
           before == OutcomeReported(t, e \notin FalsyErrors)
           report == Append(before, "exception")
<1>1. o \in Operation /\ Live(o) /\ s.kind # "request" /\ s.st = "running" /\ s \in OperationState
      /\ EmitSummary(o, t, report)
  BY OperationOf DEF OperationThrows, Requests, Started, Live
<1>2. t \in OperationState /\ t.st = "running" /\ t.kind = s.kind /\ t.parent = s.parent /\ t.request = s.request
      /\ t.explicit = s.explicit /\ t.outcome = "failed" /\ t.error = e
  BY <1>1 DEF OperationState, Statuses
<1>3. before \in Seq({"outcome", "exception"}) /\ (e \notin FalsyErrors => Len(before) = 0)
  BY OneReport
<1> HIDE DEF before
<1>4. report \in Seq({"outcome", "exception"}) /\ (e \notin FalsyErrors => Len(report) = 1)
  BY <1>3, AppendProperties
<1> HIDE DEF report, t
<1> QED
  BY <1>1, <1>2, <1>4, SummaryKeeps

LEMMA FinishRequestKeeps ==
    ASSUME OperationInv, NEW o \in Started, NEW failing \in BOOLEAN, NEW aborted \in BOOLEAN,
           FinishRequest(o, failing, aborted)
    PROVE  OperationInv'
<1> DEFINE s == operations[o]
           outcome == RequestOutcome(s, failing, aborted)
           t == [s EXCEPT !.outcome = outcome]
           report == IF t.outcome = "failed" /\ t.explicit /\ ~t.thrown THEN <<"outcome">> ELSE <<>>
<1>1. o \in Operation /\ Live(o) /\ s.kind = "request" /\ s.st = "running" /\ s \in OperationState
      /\ EmitSummary(o, t, report)
  BY OperationOf DEF FinishRequest, MayFinish, Requests, Started, Live
<1>2. outcome \in Statuses /\ (s.explicit => outcome = s.outcome)
  BY <1>1 DEF RequestOutcome, Statuses, OperationState
<1>3. report \in Seq({"outcome", "exception"})
  BY ReportTypes
<1> HIDE DEF outcome, report
<1>4. t \in OperationState /\ t.st = "running" /\ t.kind = s.kind /\ t.parent = s.parent /\ t.request = s.request
      /\ t.explicit = s.explicit /\ t.outcome = outcome
  BY <1>1, <1>2 DEF OperationState
<1> HIDE DEF t
<1> QED
  BY <1>1, <1>2, <1>3, <1>4, SummaryKeeps

(* A request's error: noted as thrown, and reported beside its outcome.      *)
LEMMA RequestThrowsKeeps ==
    ASSUME OperationInv, NEW o \in Started, NEW e \in Thrown, RequestThrows(o, e) PROVE OperationInv'
<1> DEFINE s == operations[o]
           t == [s EXCEPT !.error = e, !.thrown = TRUE]
<1>1. o \in Operation /\ Live(o) /\ s.kind = "request" /\ s.st = "running" /\ s \in OperationState
      /\ UNCHANGED <<opRecords, outcomesSet>>
      /\ failureReports' = [failureReports EXCEPT ![o] = Append(failureReports[o], "exception")]
      /\ operations' = [operations EXCEPT ![o].error = e, ![o].thrown = TRUE]
  BY OperationOf DEF RequestThrows, Requests, Started, Live
<1>2. operations' = [operations EXCEPT ![o] = t]
  BY <1>1, OperationOf
<1>3. t \in OperationState /\ t.st = s.st /\ t.kind = s.kind /\ t.parent = s.parent /\ t.request = s.request
      /\ t.explicit = s.explicit /\ t.outcome = s.outcome
  BY <1>1 DEF OperationState
<1> HIDE DEF t
<1>4. Append(failureReports[o], "exception") \in Seq({"outcome", "exception"})
  BY <1>1, OperationOf, AppendProperties
<1>5. /\ operations' \in [Operation -> OperationState] /\ operations'[o] = t
      /\ failureReports' \in [Operation -> Seq({"outcome", "exception"})]
      /\ \A q \in Operation \ {o} : /\ operations'[q] = operations[q] /\ opRecords'[q] = opRecords[q]
                                    /\ failureReports'[q] = failureReports[q] /\ outcomesSet'[q] = outcomesSet[q]
  BY <1>1, <1>2, <1>3, <1>4, OperationOf
<1>6. OperationTypes'
  BY <1>1, <1>5 DEF OperationInv, OperationTypes
<1>7. OperationSound(o)'
  BY <1>1, <1>3, <1>5, OperationOf DEF OperationSound, RecordsSound, ReportsSoundOf, OutcomeSound, StateSound
<1>8. Linked(o)'
  BY <1>1, <1>3, <1>5 DEF Linked
<1> QED
  BY <1>1, <1>3, <1>5, <1>6, <1>7, <1>8, OneOperationMoves

LEMMA OperationSteps == OperationInv /\ [OperationNext]_operationVars => OperationInv'
<1> SUFFICES ASSUME OperationInv, [OperationNext]_operationVars PROVE OperationInv'
  OBVIOUS
<1>1. CASE \E o \in Operation, store \in Started \cup {NoOp} :
              BeginRequest(o, store) \/ WithOperation(o, store) \/ Fork(o, store)
  BY <1>1, BeginsKeep
<1>2. CASE \E o \in Operation, store \in Started : FromCarrier(o, store)
  BY <1>2, BeginsKeep DEF FromCarrier, Fork
<1>3. CASE \E store \in Started : LogLine(store)
  BY <1>3, LogLineKeeps
<1>4. CASE \E store \in Started, status \in Statuses : SetOutcome(store, status)
  BY <1>4, SetOutcomeKeeps
<1>5. CASE \E store \in Started, e \in Thrown :
              NoteError(store, e) \/ Degraded(store, e) \/ OperationThrows(store, e) \/ RequestThrows(store, e)
  BY <1>5, ErrorNoted, OperationThrowsKeeps, RequestThrowsKeeps
<1>6. CASE \E o \in Started : OperationReturns(o)
  BY <1>6, OperationReturnsKeeps
<1>7. CASE \E o \in Started, failing, aborted \in BOOLEAN : FinishRequest(o, failing, aborted)
  BY <1>7, FinishRequestKeeps
<1>8. CASE UNCHANGED operationVars
  <2>1. OperationTypes'
    BY <1>8 DEF operationVars, OperationInv, OperationTypes
  <2>2. ASSUME NEW o \in Operation PROVE OperationSound(o)' /\ Linked(o)'
    BY <1>8, OperationOf DEF operationVars, OperationSound, RecordsSound, ReportsSoundOf, OutcomeSound,
                             StateSound, Linked, Started
  <2> QED
    BY <2>1, <2>2 DEF OperationInv
<1> QED
  BY <1>1, <1>2, <1>3, <1>4, <1>5, <1>6, <1>7, <1>8 DEF OperationNext

(* An operation that is sealed has one summary after its lines and the report *)
(* its outcome calls for, and is linked to work of the same request (logger.ts), *)
(* for any operations, errors and number of lines: the inductive invariant.  *)
THEOREM OperationInvariant == OperationSpec => []OperationInv
<1> QED
  BY OperationStarts, OperationSteps, PTL DEF OperationSpec

LEMMA OperationHolds ==
    OperationInv => SummaryIsLast /\ RequestIdFollows /\ ExplicitOutcomeWins /\ FailureReportedOnce
<1> SUFFICES ASSUME OperationInv
             PROVE  SummaryIsLast /\ RequestIdFollows /\ ExplicitOutcomeWins /\ FailureReportedOnce
  OBVIOUS
<1>1. SummaryIsLast
  <2> SUFFICES ASSUME NEW o \in Operation, NEW i \in DOMAIN opRecords[o]
               PROVE  opRecords[o][i] = "summary" <=> operations[o].st = "sealed" /\ i = Len(opRecords[o])
    BY DEF SummaryIsLast
  <2> QED
    BY OperationOf DEF OperationSound, RecordsSound
<1>2. RequestIdFollows
  <2> SUFFICES ASSUME NEW o \in Started \ Requests, operations[o].parent # NoOp
               PROVE  operations[o].request = operations[operations[o].parent].request
    BY DEF RequestIdFollows
  <2>1. o \in Operation /\ operations[o].kind = "operation"
    BY OperationOf DEF Started, Requests, OperationSound, StateSound, OperationState
  <2> QED
    BY <2>1, OperationOf DEF Linked
<1>3. ExplicitOutcomeWins
  BY OperationOf DEF ExplicitOutcomeWins, Requests, OperationSound, OutcomeSound
<1>4. FailureReportedOnce
  BY OperationOf DEF FailureReportedOnce, Started, Requests, OperationSound, ReportsSoundOf
<1> QED
  BY <1>1, <1>2, <1>3, <1>4

-----------------------------------------------------------------------------
(***************************************************************************)
(* Operations: how many records and reports.                                *)
(***************************************************************************)
(* How many records and reports an operation may have by where it stands.     *)
BoundsOf(o) ==
    /\ Len(opRecords[o]) <= IF operations[o].st = "sealed" THEN MaxLines + 1 ELSE MaxLines
    /\ Len(failureReports[o]) <= 2
    /\ operations[o].st # "sealed" /\ operations[o].kind = "request" =>
          Len(failureReports[o]) <= IF operations[o].thrown THEN 1 ELSE 0
OperationBounds == \A o \in Operation : BoundsOf(o)

LEMMA BoundsStart == OperationInit => OperationBounds
  BY OperationAssumption DEF OperationInit, OperationBounds, BoundsOf, Unstarted

(* A step of one operation. *)
LEMMA BoundsOfOne ==
    ASSUME OperationBounds, NEW o \in Operation, BoundsOf(o)',
           \A q \in Operation \ {o} :
               operations'[q] = operations[q] /\ opRecords'[q] = opRecords[q] /\ failureReports'[q] = failureReports[q]
    PROVE  OperationBounds'
  BY DEF OperationBounds, BoundsOf

LEMMA NewStateBounds ==
    ASSUME OperationInv, OperationBounds, NEW o \in Operation, NEW kind \in {"request", "operation"},
           NEW parent, NEW request, NewState(o, kind, parent, request)
    PROVE  OperationBounds'
<1> DEFINE t == [Unstarted EXCEPT !.st = "running", !.kind = kind, !.parent = parent, !.request = request]
<1>1. o \notin Started /\ operations' = [operations EXCEPT ![o] = t] /\ UNCHANGED <<opRecords, failureReports>>
  BY DEF NewState, Started
<1>2. t.st = "running" /\ t.kind = kind /\ t.thrown = FALSE
  BY DEF Unstarted
<1> HIDE DEF t
<1>3. /\ operations'[o] = t /\ \A q \in Operation \ {o} : operations'[q] = operations[q]
      /\ operations[o].st = "none" /\ operations[o].kind = "none"
  BY <1>1, OperationOf DEF Started, OperationSound, StateSound
<1>4. failureReports[o] = <<>> /\ Len(<<>>) = 0
  BY <1>3, OperationOf DEF OperationSound, ReportsSoundOf
<1>5. Len(opRecords[o]) <= MaxLines
  BY <1>3 DEF OperationBounds, BoundsOf
<1>6. BoundsOf(o)'
  BY <1>1, <1>2, <1>3, <1>4, <1>5 DEF BoundsOf
<1> QED
  BY <1>1, <1>3, <1>6, BoundsOfOne

(* The state moves, but not where the operation stands. *)
LEMMA QuietBounds ==
    ASSUME OperationInv, OperationBounds, NEW o \in Operation, NEW t,
           operations' = [operations EXCEPT ![o] = t], t.st = operations[o].st, t.kind = operations[o].kind,
           t.thrown = operations[o].thrown, UNCHANGED <<opRecords, failureReports>>
    PROVE  OperationBounds'
  BY OperationOf, BoundsOfOne DEF OperationBounds, BoundsOf

LEMMA OutcomeBounds ==
    ASSUME OperationInv, OperationBounds, NEW o \in Started, NEW status \in Statuses, SetOutcome(o, status)
    PROVE  OperationBounds'
<1> DEFINE s == operations[o]
           t == [s EXCEPT !.outcome = status, !.explicit = TRUE]
<1>1. o \in Operation /\ s \in OperationState
  BY OperationOf DEF Started
<1>2. operations' = [operations EXCEPT ![o] = t] /\ UNCHANGED <<opRecords, failureReports>>
  BY <1>1, OperationOf DEF SetOutcome
<1>3. t.st = s.st /\ t.kind = s.kind /\ t.thrown = s.thrown
  BY <1>1 DEF OperationState
<1> HIDE DEF t
<1> QED
  BY <1>1, <1>2, <1>3, QuietBounds

LEMMA NotedBounds ==
    ASSUME OperationInv, OperationBounds, NEW o \in Started, NEW e \in Thrown, NoteError(o, e)
    PROVE  OperationBounds'
<1> DEFINE s == operations[o]
           t == [s EXCEPT !.error = e]
<1>1. o \in Operation /\ s \in OperationState
  BY OperationOf DEF Started
<1>2. operations' = [operations EXCEPT ![o] = t] /\ UNCHANGED <<opRecords, failureReports>>
  BY <1>1, OperationOf DEF NoteError
<1>3. t.st = s.st /\ t.kind = s.kind /\ t.thrown = s.thrown
  BY <1>1 DEF OperationState
<1> HIDE DEF t
<1> QED
  BY <1>1, <1>2, <1>3, QuietBounds

LEMMA DegradedBounds ==
    ASSUME OperationInv, OperationBounds, NEW o \in Started, NEW e \in Thrown, Degraded(o, e)
    PROVE  OperationBounds'
<1> DEFINE s == operations[o]
           t == [s EXCEPT !.error = e, !.degraded = TRUE]
<1>1. o \in Operation /\ s \in OperationState
  BY OperationOf DEF Started
<1>2. operations' = [operations EXCEPT ![o] = t] /\ UNCHANGED <<opRecords, failureReports>>
  BY <1>1, OperationOf DEF Degraded
<1>3. t.st = s.st /\ t.kind = s.kind /\ t.thrown = s.thrown
  BY <1>1 DEF OperationState
<1> HIDE DEF t
<1> QED
  BY <1>1, <1>2, <1>3, QuietBounds

(* A live operation has lines only, and no more of them than it may emit. *)
LEMMA LinesBound ==
    ASSUME OperationInv, OperationBounds, NEW o \in Started, LogLine(o) PROVE OperationBounds'
<1>1. o \in Operation /\ operations[o].st = "running" /\ opRecords[o] \in Seq({"line", "summary"})
  BY OperationOf DEF Started, LogLine, MayEmit, Live
<1>2. /\ Cardinality({i \in DOMAIN opRecords[o] : opRecords[o][i] = "line"}) < MaxLines
      /\ opRecords' = [opRecords EXCEPT ![o] = Append(@, "line")] /\ UNCHANGED <<operations, failureReports>>
  BY DEF LogLine
<1>3. {i \in DOMAIN opRecords[o] : opRecords[o][i] = "line"} = 1..Len(opRecords[o])
  <2>1. \A i \in DOMAIN opRecords[o] : opRecords[o][i] = "line"
    BY <1>1, OperationOf DEF OperationSound, RecordsSound
  <2>2. DOMAIN opRecords[o] = 1..Len(opRecords[o])
    BY <1>1
  <2> QED
    BY <2>1, <2>2
<1>4. Len(opRecords[o]) \in Nat /\ Len(Append(opRecords[o], "line")) = Len(opRecords[o]) + 1
  BY <1>1, AppendProperties
<1>5. Cardinality(1..Len(opRecords[o])) = Len(opRecords[o])
  BY <1>4, FS_Interval
<1>6. Len(opRecords[o]) < MaxLines /\ MaxLines \in Nat
  BY <1>2, <1>3, <1>5, OperationAssumption
<1>7. /\ opRecords'[o] = Append(opRecords[o], "line") /\ operations'[o] = operations[o]
      /\ failureReports'[o] = failureReports[o]
      /\ \A q \in Operation \ {o} :
           operations'[q] = operations[q] /\ opRecords'[q] = opRecords[q] /\ failureReports'[q] = failureReports[q]
  BY <1>1, <1>2, OperationOf
<1>8. BoundsOf(o)'
  BY <1>1, <1>4, <1>6, <1>7 DEF OperationBounds, BoundsOf
<1> QED
  BY <1>1, <1>7, <1>8, BoundsOfOne

(* A summary comes last, and with it what is reported of the failure. *)
LEMMA SummaryBounds ==
    ASSUME OperationInv, OperationBounds, NEW o \in Operation, operations[o].st = "running", NEW state,
           state \in OperationState, NEW report \in Seq({"outcome", "exception"}), EmitSummary(o, state, report),
           Len(failureReports[o]) + Len(report) <= 2
    PROVE  OperationBounds'
<1> DEFINE t == [state EXCEPT !.st = "sealed",
                   !.outcome = IF state.degraded /\ @ = "succeeded" /\ ~state.explicit THEN "degraded" ELSE @]
<1>1. /\ operations' = [operations EXCEPT ![o] = t] /\ opRecords' = [opRecords EXCEPT ![o] = Append(@, "summary")]
      /\ failureReports' = [failureReports EXCEPT ![o] = @ \o report]
  BY DEF EmitSummary
<1>2. t.st = "sealed"
  BY DEF OperationState
<1> HIDE DEF t
<1>3. /\ operations'[o] = t /\ opRecords'[o] = Append(opRecords[o], "summary")
      /\ failureReports'[o] = failureReports[o] \o report
      /\ \A q \in Operation \ {o} :
           operations'[q] = operations[q] /\ opRecords'[q] = opRecords[q] /\ failureReports'[q] = failureReports[q]
  BY <1>1, OperationOf
<1>4. opRecords[o] \in Seq({"line", "summary"}) /\ failureReports[o] \in Seq({"outcome", "exception"})
  BY OperationOf
<1>5. Len(Append(opRecords[o], "summary")) = Len(opRecords[o]) + 1 /\ Len(opRecords[o]) \in Nat
  BY <1>4, AppendProperties
<1>6. Len(failureReports[o] \o report) = Len(failureReports[o]) + Len(report)
  BY <1>4, ConcatProperties
<1>7. Len(opRecords[o]) <= MaxLines /\ MaxLines \in Nat
  BY OperationAssumption DEF OperationBounds, BoundsOf
<1>8. BoundsOf(o)'
  BY <1>2, <1>3, <1>5, <1>6, <1>7 DEF BoundsOf
<1> QED
  BY <1>3, <1>8, BoundsOfOne

LEMMA NothingReportedYet ==
    ASSUME OperationInv, NEW o \in Started, Live(o), o \notin Requests
    PROVE  /\ o \in Operation /\ operations[o] \in OperationState /\ operations[o].st = "running"
           /\ Len(failureReports[o]) = 0
  BY OperationOf DEF Started, Live, Requests, OperationSound, ReportsSoundOf

LEMMA AtMostOneReport ==
    ASSUME NEW s, NEW truthy \in BOOLEAN
    PROVE  /\ OutcomeReported(s, truthy) \in Seq({"outcome", "exception"})
           /\ Len(OutcomeReported(s, truthy)) <= 1 /\ Len(OutcomeReported(s, truthy)) \in Nat
<1>1. CASE s.outcome = "failed" /\ ~truthy
  BY <1>1, ReportTypes DEF OutcomeReported
<1>2. CASE ~(s.outcome = "failed" /\ ~truthy)
  BY <1>2, ReportTypes DEF OutcomeReported
<1> QED
  BY <1>1, <1>2

LEMMA ReturnsBounds ==
    ASSUME OperationInv, OperationBounds, NEW o \in Started, OperationReturns(o) PROVE OperationBounds'
<1> DEFINE report == OutcomeReported(operations[o], FALSE)
<1>1. /\ o \in Operation /\ operations[o] \in OperationState /\ operations[o].st = "running"
      /\ Len(failureReports[o]) = 0
  BY NothingReportedYet DEF OperationReturns
<1>2. EmitSummary(o, operations[o], report)
  BY DEF OperationReturns
<1>3. report \in Seq({"outcome", "exception"}) /\ Len(report) <= 1 /\ Len(report) \in Nat
  <2>1. FALSE \in BOOLEAN
    OBVIOUS
  <2> QED
    BY <2>1, AtMostOneReport
<1> HIDE DEF report
<1> QED
  BY <1>1, <1>2, <1>3, SummaryBounds

LEMMA ThrowsBounds ==
    ASSUME OperationInv, OperationBounds, NEW o \in Started, NEW e \in Thrown, OperationThrows(o, e)
    PROVE  OperationBounds'
<1> DEFINE state == [operations[o] EXCEPT !.outcome = "failed", !.error = e, !.thrown = TRUE]
           first == OutcomeReported(state, e \notin FalsyErrors)
           report == Append(first, "exception")
<1>1. /\ o \in Operation /\ operations[o] \in OperationState /\ operations[o].st = "running"
      /\ Len(failureReports[o]) = 0
  BY NothingReportedYet DEF OperationThrows
<1>2. EmitSummary(o, state, report)
  BY DEF OperationThrows
<1>3. state \in OperationState
  BY <1>1 DEF OperationState, Statuses
<1> HIDE DEF state
<1>4. first \in Seq({"outcome", "exception"}) /\ Len(first) <= 1 /\ Len(first) \in Nat
  BY AtMostOneReport
<1> HIDE DEF first
<1>5. report \in Seq({"outcome", "exception"}) /\ Len(report) = Len(first) + 1
  BY <1>4, AppendProperties
<1> HIDE DEF report
<1> QED
  BY <1>1, <1>2, <1>3, <1>4, <1>5, SummaryBounds

LEMMA RequestBounds ==
    ASSUME OperationInv, OperationBounds, NEW o \in Started, NEW failing \in BOOLEAN, NEW aborted \in BOOLEAN,
           FinishRequest(o, failing, aborted)
    PROVE  OperationBounds'
<1> DEFINE s == operations[o]
           v == RequestOutcome(s, failing, aborted)
           state == [s EXCEPT !.outcome = v]
           report == IF state.outcome = "failed" /\ state.explicit /\ ~state.thrown THEN <<"outcome">> ELSE <<>>
<1>1. o \in Operation /\ s \in OperationState /\ s.st = "running" /\ s.kind = "request"
  BY OperationOf DEF Started, FinishRequest, MayFinish, Live, Requests
<1>2. v \in Statuses
  BY <1>1 DEF RequestOutcome, Statuses, OperationState
<1>3. EmitSummary(o, state, report)
  BY DEF FinishRequest
<1>4. state \in OperationState /\ state.thrown = s.thrown
  <2>1. \A x \in OperationState : \A y \in Statuses :
           [x EXCEPT !.outcome = y] \in OperationState /\ [x EXCEPT !.outcome = y].thrown = x.thrown
    BY DEF OperationState
  <2> HIDE DEF v
  <2> QED
    BY <1>1, <1>2, <2>1
<1> HIDE DEF state
<1>5. /\ report \in Seq({"outcome", "exception"}) /\ Len(report) \in Nat /\ Len(report) <= 1
      /\ s.thrown => Len(report) = 0
  <2>1. CASE state.outcome = "failed" /\ state.explicit /\ ~state.thrown
    BY <1>4, <2>1, ReportTypes
  <2>2. CASE ~(state.outcome = "failed" /\ state.explicit /\ ~state.thrown)
    BY <2>2, ReportTypes
  <2> QED
    BY <2>1, <2>2
<1> HIDE DEF report
<1>6. /\ Len(failureReports[o]) \in Nat
      /\ Len(failureReports[o]) <= IF s.thrown THEN 1 ELSE 0
  BY <1>1, OperationOf DEF OperationBounds, BoundsOf
<1>7. Len(failureReports[o]) + Len(report) <= 2
  BY <1>1, <1>5, <1>6
<1> QED
  BY <1>1, <1>3, <1>4, <1>5, <1>7, SummaryBounds

LEMMA RequestThrowsBounds ==
    ASSUME OperationInv, OperationBounds, NEW o \in Started, NEW e \in Thrown, RequestThrows(o, e)
    PROVE  OperationBounds'
<1> DEFINE s == operations[o]
           t == [s EXCEPT !.error = e, !.thrown = TRUE]
<1>1. o \in Operation /\ s \in OperationState /\ s.st = "running" /\ s.kind = "request" /\ ~s.thrown
  BY OperationOf DEF Started, RequestThrows, Live, Requests
<1>2. /\ operations' = [operations EXCEPT ![o] = t] /\ UNCHANGED opRecords
      /\ failureReports' = [failureReports EXCEPT ![o] = Append(@, "exception")]
  BY <1>1, OperationOf DEF RequestThrows
<1>3. t.st = "running" /\ t.thrown = TRUE
  BY <1>1 DEF OperationState
<1> HIDE DEF t
<1>4. /\ operations'[o] = t /\ failureReports'[o] = Append(failureReports[o], "exception") /\ opRecords'[o] = opRecords[o]
      /\ \A q \in Operation \ {o} :
           operations'[q] = operations[q] /\ opRecords'[q] = opRecords[q] /\ failureReports'[q] = failureReports[q]
  BY <1>1, <1>2, OperationOf
<1>5. Len(failureReports[o]) \in Nat /\ Len(failureReports[o]) <= 0
      /\ Len(Append(failureReports[o], "exception")) = Len(failureReports[o]) + 1
  <2>1. failureReports[o] \in Seq({"outcome", "exception"})
    BY <1>1, OperationOf
  <2>2. BoundsOf(o)
    BY <1>1 DEF OperationBounds
  <2>3. Len(failureReports[o]) <= 0
    BY <1>1, <2>2 DEF BoundsOf
  <2>4. "exception" \in {"outcome", "exception"}
    OBVIOUS
  <2> QED
    BY <2>1, <2>3, <2>4, AppendProperties
<1>6. BoundsOf(o)'
  BY <1>1, <1>3, <1>4, <1>5 DEF OperationBounds, BoundsOf
<1> QED
  BY <1>1, <1>4, <1>6, BoundsOfOne

LEMMA BoundsStay == OperationInv /\ OperationBounds /\ [OperationNext]_operationVars => OperationBounds'
<1> SUFFICES ASSUME OperationInv, OperationBounds, [OperationNext]_operationVars PROVE OperationBounds'
  OBVIOUS
<1>1. ASSUME NEW o \in Operation, NEW store \in Started \cup {NoOp},
             BeginRequest(o, store) \/ WithOperation(o, store) \/ Fork(o, store) \/ FromCarrier(o, store)
      PROVE  OperationBounds'
  BY <1>1, NewStateBounds DEF BeginRequest, WithOperation, Fork, FromCarrier
<1>2. ASSUME NEW o \in Started, NEW status \in Statuses, SetOutcome(o, status) PROVE OperationBounds'
  BY <1>2, OutcomeBounds
<1>3. ASSUME NEW o \in Started, NEW e \in Thrown, NoteError(o, e) \/ Degraded(o, e) PROVE OperationBounds'
  BY <1>3, NotedBounds, DegradedBounds
<1>4. ASSUME NEW o \in Started, LogLine(o) PROVE OperationBounds'
  BY <1>4, LinesBound
<1>5. ASSUME NEW o \in Started, OperationReturns(o) PROVE OperationBounds'
  BY <1>5, ReturnsBounds
<1>6. ASSUME NEW o \in Started, NEW e \in Thrown, OperationThrows(o, e) PROVE OperationBounds'
  BY <1>6, ThrowsBounds
<1>7. ASSUME NEW o \in Started, NEW e \in Thrown, RequestThrows(o, e) PROVE OperationBounds'
  BY <1>7, RequestThrowsBounds
<1>8. ASSUME NEW o \in Started, NEW failing \in BOOLEAN, NEW aborted \in BOOLEAN, FinishRequest(o, failing, aborted)
      PROVE  OperationBounds'
  BY <1>8, RequestBounds
<1>9. CASE UNCHANGED operationVars
  BY <1>9 DEF operationVars, OperationBounds, BoundsOf
<1> QED
  BY <1>1, <1>2, <1>3, <1>4, <1>5, <1>6, <1>7, <1>8, <1>9 DEF OperationNext

LEMMA BoundsInvariant == OperationSpec => []OperationBounds
  BY BoundsStart, BoundsStay, OperationInvariant, PTL DEF OperationSpec

LEMMA OperationTyped == OperationInv /\ OperationBounds => OperationTypeOK
<1> SUFFICES ASSUME OperationInv, OperationBounds, NEW o \in Operation
             PROVE  /\ operations[o].st \in {"none", "running", "sealed"}
                    /\ operations[o].outcome \in Statuses /\ operations[o].error \in Thrown \cup {NoOp}
                    /\ Len(opRecords[o]) <= MaxLines + 1 /\ Len(failureReports[o]) <= 2
  BY DEF OperationTypeOK
<1>1. operations[o] \in OperationState
  BY OperationOf
<1> QED
  BY <1>1, OperationAssumption DEF OperationState, OperationBounds, BoundsOf

-----------------------------------------------------------------------------
(***************************************************************************)
(* Start and stop over several copies.                                      *)
(***************************************************************************)
LifecycleSpec == LifecycleInit /\ [][LifecycleNext]_lifecycleVars

-----------------------------------------------------------------------------
SlotRecord == [server : MaybeHandle, loggerOnly : MaybeHandle, logging : MaybeHandle,
               sinks : MaybeHandle, sources : BOOLEAN]
TargetRecord == [server : MaybeHandle, logging : MaybeHandle]
HandleRecord ==
    [kind : {"none", "server", "logging"}, copy : Copy \cup {NotLoaded},
     listeners : SUBSET Listener, sink : {"none", "open", "closed"},
     logs : 0..MaxHeld, spans : 0..MaxHeld, shutdowns : 0..MaxShutdowns]
CallRecord == [of : Handle, n : 0..MaxShutdowns, sinks : MaybeHandle,
               at : {"sinks", "wipe", "finish", "providers"}]
LifecycleTypes ==
    /\ layout \in Layouts /\ host \in Copy \cup {NotLoaded}
    /\ home \in [Copy -> Copy \cup {NotLoaded}]
    /\ slots \in [Copy -> SlotRecord] /\ targets \in [Copy -> TargetRecord]
    /\ handles \in [Handle -> HandleRecord] /\ calls \in SUBSET CallRecord

Server(h) == handles[h].kind = "server"
Logging(h) == handles[h].kind = "logging"
Fresh(h) == handles[h].shutdowns = 0

(* A shutdown() of a handle that has yet to pass its first or second wait.   *)
InCall(h, ats) == \E d \in calls : d.of = h /\ d.at \in ats
ToWipe == {"sinks", "wipe"}
ToFinish == {"sinks", "wipe", "finish"}

(* What Orderly asks, without its count.                                     *)
Tidy ==
    /\ \A h \in Handle : handles[h].shutdowns <= 1
    /\ \A g, h \in StartedHandles : handles[g].kind = handles[h].kind

HomesSound ==
    \A c \in Copy : Loaded(c) =>
        host \in Copy /\ home[c] = IF layout[host] = layout[c] THEN host ELSE c

HandlesSound ==
    \A h \in Handle :
        /\ handles[h].kind # "none" => handles[h].copy \in Copy /\ Loaded(handles[h].copy)
        /\ handles[h].kind = "none" => Fresh(h) /\ handles[h].listeners = {}
        /\ Logging(h) /\ ~Fresh(h) => handles[h].listeners = {}
        /\ handles[h].sink = "closed" => handles[h].logs = 0
        /\ Server(h) /\ ~Fresh(h) /\ (\A d \in calls : d.of # h) => handles[h].spans = 0

(* What names a handle is of its home, and of its shutdown() only what that   *)
(* has yet to clear.                                                         *)
SlotsSound ==
    \A c \in Copy, h \in Handle :
        /\ slots[c].server = h => Server(h) /\ HomeOf(h) = c /\ (Fresh(h) \/ InCall(h, ToFinish))
        /\ slots[c].logging = h => Logging(h) /\ HomeOf(h) = c /\ Fresh(h)
        /\ slots[c].loggerOnly = h => Logging(h) /\ HomeOf(h) = c /\ Fresh(h)
        /\ slots[c].sinks = h =>
              handles[h].kind # "none" /\ HomeOf(h) = c /\ (Fresh(h) \/ InCall(h, ToWipe))
TargetsSound ==
    \A c \in Copy, h \in Handle :
        /\ targets[c].server = h => Server(h) /\ handles[h].copy = c /\ (Fresh(h) \/ InCall(h, ToFinish))
        /\ targets[c].logging = h => Logging(h) /\ handles[h].copy = c /\ Fresh(h)

ServersActive ==
    \A h \in Handle : Server(h) /\ (Fresh(h) \/ handles[h].listeners # {}) => slots[HomeOf(h)].server = h

CallsSound ==
    \A d \in calls :
        /\ handles[d.of].kind # "none" /\ d.n < handles[d.of].shutdowns
        /\ Logging(d.of) => d.at \in ToWipe
        /\ \A b \in calls : b.of = d.of /\ b.n = d.n => b = d

(* Of an orderly application. *)
OrderlySound ==
    /\ \A h \in Handle :
          /\ Logging(h) /\ Fresh(h) => slots[HomeOf(h)].logging = h /\ slots[HomeOf(h)].loggerOnly = h
          /\ Server(h) /\ Fresh(h) =>
                /\ slots[HomeOf(h)].sinks = h /\ slots[HomeOf(h)].sources
                /\ handles[h].sink = "open" /\ targets[handles[h].copy].server = h
          /\ Server(h) /\ ~Fresh(h) => handles[h].sink = "closed" \/ InCall(h, {"sinks"})
    /\ \A d \in calls :
          Server(d.of) => d.sinks = d.of /\ (d.at \in ToFinish => slots[HomeOf(d.of)].server = d.of)

LifecycleInv ==
    /\ LifecycleTypes /\ HomesSound /\ HandlesSound /\ SlotsSound /\ TargetsSound
    /\ ServersActive /\ CallsSound /\ (Tidy => OrderlySound)

-----------------------------------------------------------------------------
LEMMA HandleFacts == None \notin Handle /\ NotLoaded \notin Copy /\ 0 \in 0..MaxHeld /\ 0 \in 0..MaxShutdowns
  BY LifecycleAssumption DEF None, Handle

(* An orderly application starts handles of one kind.                        *)
LEMMA OrderlyIsTidy == ASSUME LifecycleTypes, Orderly PROVE Tidy
<1> DEFINE K == {handles[h].kind : h \in StartedHandles}
<1> SUFFICES ASSUME NEW g \in StartedHandles, NEW h \in StartedHandles, handles[g].kind # handles[h].kind
             PROVE  FALSE
  BY DEF Orderly, Tidy
<1>1. Cardinality(K) <= 1
  BY DEF Orderly
<1> DEFINE a == handles[g].kind
           b == handles[h].kind
<1>2. a \in K /\ b \in K /\ a # b
  OBVIOUS
<1>3. K \subseteq {"none", "server", "logging"}
  BY DEF LifecycleTypes, HandleRecord, StartedHandles
<1>4. IsFiniteSet({"none", "server", "logging"})
  <2>1. IsFiniteSet({"none"})
    BY FS_Singleton
  <2>2. IsFiniteSet({"none"} \cup {"server"})
    BY <2>1, FS_AddElement
  <2>3. IsFiniteSet(({"none"} \cup {"server"}) \cup {"logging"})
    BY <2>2, FS_AddElement
  <2> QED
    BY <2>3
<1> HIDE DEF K, a, b
<1>5. IsFiniteSet(K)
  BY <1>3, <1>4, FS_Subset
<1>6. IsFiniteSet(K \ {a}) /\ Cardinality(K \ {a}) = Cardinality(K) - 1
  BY <1>2, <1>5, FS_RemoveElement
<1>7. K \ {a} # {}
  BY <1>2
<1>8. Cardinality(K \ {a}) \in Nat /\ Cardinality(K) \in Nat /\ Cardinality(K \ {a}) # 0
  BY <1>5, <1>6, <1>7, FS_CardinalityType, FS_EmptySet
<1> QED
  BY <1>1, <1>6, <1>8

LEMMA LifecycleStarts == LifecycleInit => LifecycleInv
<1> SUFFICES ASSUME LifecycleInit PROVE LifecycleInv
  OBVIOUS
<1>1. LifecycleTypes
  BY HandleFacts DEF LifecycleTypes, LifecycleInit, SlotRecord, TargetRecord, HandleRecord, Empty, Targets, Unused, MaybeHandle
<1>2. HomesSound /\ HandlesSound /\ CallsSound /\ ServersActive
  BY HandleFacts DEF LifecycleInit, HomesSound, HandlesSound, CallsSound, ServersActive, Loaded, Unused, Server, Logging, Fresh
<1>3. SlotsSound /\ TargetsSound
  BY HandleFacts DEF LifecycleInit, SlotsSound, TargetsSound, Empty, Targets
<1>4. OrderlySound
  BY DEF LifecycleInit, OrderlySound, Unused, Server, Logging
<1> QED
  BY <1>1, <1>2, <1>3, <1>4 DEF LifecycleInv

-----------------------------------------------------------------------------
(* Steps, one lemma each.                                                    *)
LEMMA LoadSteps == ASSUME LifecycleInv, NEW c \in Copy, Load(c), UNCHANGED layout PROVE LifecycleInv'
<1>1. /\ home \in [Copy -> Copy \cup {NotLoaded}] /\ host \in Copy \cup {NotLoaded} /\ home[c] = NotLoaded
      /\ home'[c] = ResolveShared(c) /\ (\A b \in Copy \ {c} : home'[b] = home[b])
      /\ host' = (IF host = NotLoaded THEN c ELSE host)
      /\ slots' = slots /\ targets' = targets /\ handles' = handles /\ calls' = calls /\ layout' = layout
  BY DEF LifecycleTypes, LifecycleInv, Load, Loaded
<1>2. LifecycleTypes'
  BY <1>1 DEF Load, ResolveShared, LifecycleInv, LifecycleTypes
<1>3. HomesSound'
  BY <1>1, HandleFacts DEF LifecycleInv, HomesSound, Loaded, ResolveShared
<1>4. \A h \in Handle : handles[h].kind # "none" =>
          handles[h].copy \in Copy /\ handles[h].copy # c /\ Loaded(handles[h].copy)' /\ HomeOf(h)' = HomeOf(h)
  BY <1>1 DEF LifecycleInv, HandlesSound, Loaded, HomeOf
<1>5. HandlesSound'
  BY <1>1, <1>4 DEF LifecycleInv, HandlesSound, Server, Logging, Fresh
<1>6. SlotsSound'
  BY <1>1, <1>4 DEF LifecycleInv, SlotsSound, Server, Logging, Fresh, InCall
<1>7. TargetsSound'
  BY <1>1, <1>4 DEF LifecycleInv, TargetsSound, Server, Logging, Fresh, InCall
<1>8. ServersActive'
  BY <1>1, <1>4 DEF LifecycleInv, ServersActive, Server, Logging, Fresh
<1>9. CallsSound'
  BY <1>1 DEF LifecycleInv, CallsSound, Logging
<1>10. Tidy' => OrderlySound'
  <2>1. \A d \in calls : d.of \in Handle
    BY DEF LifecycleInv, LifecycleTypes, CallRecord
  <2> QED
    BY <1>1, <1>4, <2>1 DEF LifecycleInv, OrderlySound, Tidy, StartedHandles, Server, Logging, Fresh, InCall
<1> QED
  BY <1>2, <1>3, <1>5, <1>6, <1>7, <1>8, <1>9, <1>10 DEF LifecycleInv

(* An application that is orderly was so before.                             *)
LEMMA TidyBefore ==
    ASSUME LifecycleTypes, Tidy',
           \A g \in Handle : /\ handles[g].kind # "none" => handles'[g].kind = handles[g].kind
                             /\ handles[g].shutdowns <= handles'[g].shutdowns
                             /\ handles'[g].shutdowns \in Nat
    PROVE  Tidy
  BY LifecycleAssumption DEF LifecycleTypes, HandleRecord, StartedHandles, Tidy

LEMMA ConfiguredFields ==
    ASSUME NEW s \in SlotRecord, NEW h \in Handle
    PROVE  /\ ConfiguredBy(s, h) \in SlotRecord
           /\ ConfiguredBy(s, h).sinks = h /\ ConfiguredBy(s, h).sources = TRUE
           /\ ConfiguredBy(s, h).server = s.server /\ ConfiguredBy(s, h).logging = s.logging
           /\ ConfiguredBy(s, h).loggerOnly = s.loggerOnly
  BY DEF ConfiguredBy, SlotRecord, MaybeHandle

LEMMA InitServerSteps ==
    ASSUME LifecycleInv, NEW c \in Copy, NEW h \in Handle, NEW o \in Option, InitServer(c, h, o), UNCHANGED layout
    PROVE  LifecycleInv'
<1> DEFINE k == home[c]
<1>1. /\ slots' = [slots EXCEPT ![k] = [ConfiguredBy(@, h) EXCEPT !.server = h]]
      /\ targets' = [targets EXCEPT ![c].server = h]
      /\ handles' = [handles EXCEPT ![h] = NewHandle("server", c, o)]
      /\ host' = host /\ home' = home /\ calls' = calls /\ layout' = layout
      /\ k # NotLoaded /\ slots[k].server = None
  BY DEF InitServer, Loaded, MayStart, Slot
<1>2. /\ k \in Copy /\ slots \in [Copy -> SlotRecord] /\ targets \in [Copy -> TargetRecord]
      /\ handles \in [Handle -> HandleRecord]
  BY <1>1 DEF LifecycleInv, LifecycleTypes
<1>3. handles[h].kind = "none"
  BY DEF InitServer, NextHandle, StartedHandles
<1>4. NewHandle("server", c, o) \in HandleRecord
  BY HandleFacts, LifecycleAssumption DEF NewHandle, HandleRecord
<1>5. /\ handles' \in [Handle -> HandleRecord] /\ \A g \in Handle \ {h} : handles'[g] = handles[g]
      /\ handles'[h].kind = "server" /\ handles'[h].copy = c /\ handles'[h].listeners = o /\ handles'[h].sink = "open"
      /\ handles'[h].logs = 0 /\ handles'[h].spans = 0 /\ handles'[h].shutdowns = 0
  BY <1>1, <1>2, <1>4 DEF NewHandle
<1>6. /\ slots' \in [Copy -> SlotRecord] /\ \A b \in Copy \ {k} : slots'[b] = slots[b]
      /\ slots'[k].server = h /\ slots'[k].sinks = h /\ slots'[k].sources = TRUE
      /\ slots'[k].logging = slots[k].logging /\ slots'[k].loggerOnly = slots[k].loggerOnly
  <2> DEFINE s == ConfiguredBy(slots[k], h)
             r == [s EXCEPT !.server = h]
  <2>1. s \in SlotRecord /\ s.sinks = h /\ s.sources = TRUE
        /\ s.logging = slots[k].logging /\ s.loggerOnly = slots[k].loggerOnly
    BY <1>2, ConfiguredFields
  <2>2. slots' = [slots EXCEPT ![k] = r]
    BY <1>1
  <2> HIDE DEF s
  <2>3. r \in SlotRecord /\ r.server = h /\ r.sinks = s.sinks /\ r.sources = s.sources
        /\ r.logging = s.logging /\ r.loggerOnly = s.loggerOnly
    BY <2>1 DEF SlotRecord, MaybeHandle
  <2> QED
    BY <1>2, <2>1, <2>2, <2>3
<1>7. /\ targets' \in [Copy -> TargetRecord] /\ \A b \in Copy \ {c} : targets'[b] = targets[b]
      /\ targets'[c].server = h /\ targets'[c].logging = targets[c].logging
  BY <1>1, <1>2 DEF TargetRecord, MaybeHandle
<1> HIDE DEF k
<1>8. /\ Fresh(h)' /\ Server(h)' /\ HomeOf(h)' = k
      /\ \A g \in Handle \ {h} :
            /\ Server(g)' <=> Server(g)
            /\ Logging(g)' <=> Logging(g)
            /\ Fresh(g)' <=> Fresh(g)
            /\ HomeOf(g)' = HomeOf(g)
      /\ \A g \in Handle : \A ats : InCall(g, ats)' <=> InCall(g, ats)
  BY <1>1, <1>5 DEF Fresh, Server, Logging, HomeOf, InCall, k
<1>9. /\ \A b \in Copy : h \notin {slots[b].server, slots[b].logging, slots[b].loggerOnly, slots[b].sinks,
                                   targets[b].server, targets[b].logging}
      /\ \A d \in calls : d.of \in Handle \ {h}
  BY <1>3 DEF LifecycleInv, LifecycleTypes, SlotsSound, TargetsSound, CallsSound, CallRecord, Server, Logging
<1>10. LifecycleTypes'
  BY <1>1, <1>5, <1>6, <1>7 DEF LifecycleInv, LifecycleTypes
<1>11. HomesSound'
  BY <1>1 DEF LifecycleInv, HomesSound, Loaded
<1>12. HandlesSound'
  BY <1>1, <1>5, <1>8 DEF LifecycleInv, HandlesSound, Loaded, k
<1>13. SlotsSound'
  BY <1>5, <1>6, <1>8, <1>9 DEF LifecycleInv, SlotsSound
<1>14. TargetsSound'
  BY <1>5, <1>7, <1>8, <1>9 DEF LifecycleInv, TargetsSound
<1>15. ServersActive'
  BY <1>1, <1>5, <1>6, <1>8, HandleFacts DEF LifecycleInv, ServersActive, HandlesSound, HomesSound
<1>16. CallsSound'
  BY <1>1, <1>5, <1>8, <1>9 DEF LifecycleInv, CallsSound
<1>17. Tidy' => OrderlySound'
  <2> SUFFICES ASSUME Tidy' PROVE OrderlySound'
    OBVIOUS
  <2>1. OrderlySound
    BY <1>2, <1>3, <1>5, LifecycleAssumption, TidyBefore DEF LifecycleInv, HandlesSound, Fresh, HandleRecord
  <2>2. \A g \in Handle : ~Logging(g)'
    BY <1>5, <1>8 DEF Tidy, StartedHandles, Server, Logging
  <2>3. \A g \in Handle \ {h} : Server(g) => HomeOf(g) \in Copy /\ handles[g].copy \in Copy
    BY <1>1, <1>2 DEF LifecycleInv, HandlesSound, HomesSound, Server, Loaded, HomeOf
  <2>4. ASSUME NEW g \in Handle \ {h}, Server(g), Fresh(g)
        PROVE  HomeOf(g) # k /\ handles[g].copy # c
    BY <1>1, <2>4, HandleFacts DEF LifecycleInv, ServersActive, HomeOf, k
  <2>5. ASSUME NEW d \in calls, Server(d.of), d.at \in ToFinish PROVE HomeOf(d.of) # k
    BY <1>1, <1>9, <2>1, <2>5, HandleFacts DEF OrderlySound
  <2>6. \A g \in Handle \ {h} : Server(g)' /\ Fresh(g)' =>
          /\ slots'[HomeOf(g)'].sinks = g /\ slots'[HomeOf(g)'].sources
          /\ handles'[g].sink = "open" /\ targets'[handles'[g].copy].server = g
    BY <1>5, <1>6, <1>7, <1>8, <2>1, <2>3, <2>4 DEF OrderlySound
  <2>7. \A g \in Handle : Server(g)' /\ ~Fresh(g)' => handles'[g].sink = "closed" \/ InCall(g, {"sinks"})'
    BY <1>5, <1>8, <2>1 DEF OrderlySound
  <2>8. \A d \in calls : Server(d.of)' =>
          d.sinks = d.of /\ (d.at \in ToFinish => slots'[HomeOf(d.of)'].server = d.of)
    BY <1>6, <1>8, <1>9, <2>1, <2>3, <2>5 DEF OrderlySound
  <2> QED
    BY <1>1, <1>5, <1>6, <1>7, <1>8, <2>2, <2>6, <2>7, <2>8 DEF OrderlySound
<1> QED
  BY <1>10, <1>11, <1>12, <1>13, <1>14, <1>15, <1>16, <1>17 DEF LifecycleInv

LEMMA InitLoggingSteps ==
    ASSUME LifecycleInv, NEW c \in Copy, NEW h \in Handle, NEW o \in Option, InitLogging(c, h, o), UNCHANGED layout
    PROVE  LifecycleInv'
<1> DEFINE k == home[c]
<1>1. /\ slots' = [slots EXCEPT ![k] = [ConfiguredBy(@, h) EXCEPT !.logging = h, !.loggerOnly = h]]
      /\ targets' = [targets EXCEPT ![c].logging = h]
      /\ handles' = [handles EXCEPT ![h] = NewHandle("logging", c, o \ {"memory"})]
      /\ host' = host /\ home' = home /\ calls' = calls /\ layout' = layout
      /\ k # NotLoaded /\ slots[k].logging = None
  BY DEF InitLogging, Loaded, MayStart, Slot
<1>2. /\ k \in Copy /\ slots \in [Copy -> SlotRecord] /\ targets \in [Copy -> TargetRecord]
      /\ handles \in [Handle -> HandleRecord]
  BY <1>1 DEF LifecycleInv, LifecycleTypes
<1>3. handles[h].kind = "none"
  BY DEF InitLogging, NextHandle, StartedHandles
<1>4. NewHandle("logging", c, o \ {"memory"}) \in HandleRecord
  BY HandleFacts, LifecycleAssumption DEF NewHandle, HandleRecord
<1>5. /\ handles' \in [Handle -> HandleRecord] /\ \A g \in Handle \ {h} : handles'[g] = handles[g]
      /\ handles'[h].kind = "logging" /\ handles'[h].copy = c /\ handles'[h].sink = "open"
      /\ handles'[h].logs = 0 /\ handles'[h].spans = 0 /\ handles'[h].shutdowns = 0
  BY <1>1, <1>2, <1>4 DEF NewHandle
<1>6. /\ slots' \in [Copy -> SlotRecord] /\ \A b \in Copy \ {k} : slots'[b] = slots[b]
      /\ slots'[k].logging = h /\ slots'[k].loggerOnly = h /\ slots'[k].sinks = h
      /\ slots'[k].server = slots[k].server
  <2> DEFINE s == ConfiguredBy(slots[k], h)
             r == [s EXCEPT !.logging = h, !.loggerOnly = h]
  <2>1. s \in SlotRecord /\ s.sinks = h /\ s.server = slots[k].server
    BY <1>2, ConfiguredFields
  <2>2. slots' = [slots EXCEPT ![k] = r]
    BY <1>1
  <2> HIDE DEF s
  <2>3. r \in SlotRecord /\ r.logging = h /\ r.loggerOnly = h /\ r.sinks = s.sinks /\ r.server = s.server
    BY <2>1 DEF SlotRecord, MaybeHandle
  <2> QED
    BY <1>2, <2>1, <2>2, <2>3
<1>7. /\ targets' \in [Copy -> TargetRecord] /\ \A b \in Copy \ {c} : targets'[b] = targets[b]
      /\ targets'[c].logging = h /\ targets'[c].server = targets[c].server
  BY <1>1, <1>2 DEF TargetRecord, MaybeHandle
<1> HIDE DEF k
<1>8. /\ Fresh(h)' /\ Logging(h)' /\ HomeOf(h)' = k
      /\ \A g \in Handle \ {h} :
            /\ Server(g)' <=> Server(g)
            /\ Logging(g)' <=> Logging(g)
            /\ Fresh(g)' <=> Fresh(g)
            /\ HomeOf(g)' = HomeOf(g)
      /\ \A g \in Handle : \A ats : InCall(g, ats)' <=> InCall(g, ats)
  BY <1>1, <1>5 DEF Fresh, Server, Logging, HomeOf, InCall, k
<1>9. /\ \A b \in Copy : h \notin {slots[b].server, slots[b].logging, slots[b].loggerOnly, slots[b].sinks,
                                   targets[b].server, targets[b].logging}
      /\ \A d \in calls : d.of \in Handle \ {h}
      /\ ~Server(h)'
  BY <1>3, <1>5 DEF LifecycleInv, LifecycleTypes, SlotsSound, TargetsSound, CallsSound, CallRecord, Server, Logging
<1>10. LifecycleTypes'
  BY <1>1, <1>5, <1>6, <1>7 DEF LifecycleInv, LifecycleTypes
<1>11. HomesSound'
  BY <1>1 DEF LifecycleInv, HomesSound, Loaded
<1>12. HandlesSound'
  BY <1>1, <1>5, <1>8, <1>9 DEF LifecycleInv, HandlesSound, Loaded, k
<1>13. SlotsSound'
  BY <1>5, <1>6, <1>8, <1>9 DEF LifecycleInv, SlotsSound
<1>14. TargetsSound'
  BY <1>5, <1>7, <1>8, <1>9 DEF LifecycleInv, TargetsSound
<1>15. ServersActive'
  BY <1>1, <1>5, <1>6, <1>8, <1>9 DEF LifecycleInv, ServersActive, HandlesSound, HomesSound
<1>16. CallsSound'
  BY <1>1, <1>5, <1>8, <1>9 DEF LifecycleInv, CallsSound
<1>17. Tidy' => OrderlySound'
  <2> SUFFICES ASSUME Tidy' PROVE OrderlySound'
    OBVIOUS
  <2>1. OrderlySound
    BY <1>2, <1>3, <1>5, LifecycleAssumption, TidyBefore DEF LifecycleInv, HandlesSound, Fresh, HandleRecord
  <2>2. \A g \in Handle : ~Server(g)'
    BY <1>5, <1>8, <1>9 DEF Tidy, StartedHandles, Server, Logging
  <2>3. \A g \in Handle \ {h} : Logging(g) => HomeOf(g) \in Copy
    BY <1>1, <1>2 DEF LifecycleInv, HandlesSound, HomesSound, Logging, Loaded, HomeOf
  <2>4. \A g \in Handle \ {h} : Logging(g) /\ Fresh(g) => HomeOf(g) # k
    BY <1>1, <2>1, HandleFacts DEF OrderlySound
  <2> QED
    BY <1>1, <1>5, <1>6, <1>8, <1>9, <2>1, <2>2, <2>3, <2>4 DEF OrderlySound
<1> QED
  BY <1>10, <1>11, <1>12, <1>13, <1>14, <1>15, <1>16, <1>17 DEF LifecycleInv

(* Records are held and sent: nothing else of a handle changes, and what has  *)
(* gone stays gone.                                                          *)
LEMMA HeldSteps ==
    ASSUME LifecycleInv, UNCHANGED <<layout, host, home, slots, targets, calls>>,
           handles' \in [Handle -> HandleRecord],
           \A g \in Handle :
              /\ handles'[g].kind = handles[g].kind /\ handles'[g].copy = handles[g].copy
              /\ handles'[g].listeners = handles[g].listeners /\ handles'[g].sink = handles[g].sink
              /\ handles'[g].shutdowns = handles[g].shutdowns
              /\ handles[g].sink = "closed" => handles'[g].logs = handles[g].logs \/ handles'[g].logs = 0
              /\ Server(g) /\ ~Fresh(g) /\ (\A d \in calls : d.of # g) =>
                    handles'[g].spans = handles[g].spans \/ handles'[g].spans = 0
    PROVE  LifecycleInv'
<1>1. /\ \A g \in Handle :
            /\ Server(g)' <=> Server(g)
            /\ Logging(g)' <=> Logging(g)
            /\ Fresh(g)' <=> Fresh(g)
            /\ HomeOf(g)' = HomeOf(g)
      /\ \A g \in Handle : \A ats : InCall(g, ats)' <=> InCall(g, ats)
  BY DEF Fresh, Server, Logging, HomeOf, InCall
<1>2. \A d \in calls : d.of \in Handle
  BY DEF LifecycleInv, LifecycleTypes, CallRecord
<1>3. LifecycleTypes'
  BY DEF LifecycleInv, LifecycleTypes
<1>4. HomesSound'
  BY DEF LifecycleInv, HomesSound, Loaded
<1>5. HandlesSound'
  BY <1>1 DEF LifecycleInv, HandlesSound, Loaded
<1>6. SlotsSound' /\ TargetsSound'
  BY <1>1 DEF LifecycleInv, SlotsSound, TargetsSound
<1>7. ServersActive' /\ CallsSound'
  BY <1>1, <1>2 DEF LifecycleInv, ServersActive, CallsSound
<1>8. Tidy' => OrderlySound'
  <2>1. Tidy' => Tidy
    BY DEF Tidy, StartedHandles
  <2> QED
    BY <1>1, <1>2, <2>1 DEF LifecycleInv, OrderlySound
<1> QED
  BY <1>3, <1>4, <1>5, <1>6, <1>7, <1>8 DEF LifecycleInv

LEMMA WritesToHandle ==
    ASSUME LifecycleInv, NEW c \in Copy, Loaded(c), NEW h \in WritesTo(c)
    PROVE  h \in Handle /\ handles[h].sink = "open"
  BY DEF LifecycleInv, LifecycleTypes, Loaded, SlotRecord, MaybeHandle, WritesTo, Slot

(* One record more, where there is room. *)
LEMMA OneMoreLog ==
    ASSUME LifecycleInv, UNCHANGED <<layout, host, home, slots, targets, calls>>,
           NEW h \in Handle, handles[h].sink = "open", handles[h].logs < MaxHeld,
           handles' = [handles EXCEPT ![h].logs = @ + 1]
    PROVE  LifecycleInv'
<1>1. handles \in [Handle -> HandleRecord] /\ MaxHeld \in Nat
  BY LifecycleAssumption DEF LifecycleInv, LifecycleTypes
<1>2. handles[h] \in HandleRecord /\ handles[h].logs \in 0..MaxHeld /\ handles[h].logs + 1 \in 0..MaxHeld
  BY <1>1 DEF HandleRecord
<1> DEFINE r == [handles[h] EXCEPT !.logs = @ + 1]
<1>3. r \in HandleRecord
  BY <1>2 DEF HandleRecord
<1>4. /\ r.kind = handles[h].kind /\ r.copy = handles[h].copy /\ r.listeners = handles[h].listeners
      /\ r.sink = handles[h].sink /\ r.shutdowns = handles[h].shutdowns /\ r.spans = handles[h].spans
  BY <1>2 DEF HandleRecord
<1>5. handles' = [handles EXCEPT ![h] = r]
  OBVIOUS
<1> HIDE DEF r
<1>6. handles' \in [Handle -> HandleRecord] /\ handles'[h] = r /\ \A g \in Handle \ {h} : handles'[g] = handles[g]
  BY <1>1, <1>3, <1>5
<1> QED
  BY <1>4, <1>6, HeldSteps

LEMMA OneMoreSpan ==
    ASSUME LifecycleInv, UNCHANGED <<layout, host, home, slots, targets, calls>>,
           NEW h \in Handle, Fresh(h) \/ InCall(h, ToFinish), handles[h].spans < MaxHeld,
           handles' = [handles EXCEPT ![h].spans = @ + 1]
    PROVE  LifecycleInv'
<1>1. handles \in [Handle -> HandleRecord] /\ MaxHeld \in Nat
  BY LifecycleAssumption DEF LifecycleInv, LifecycleTypes
<1>2. handles[h] \in HandleRecord /\ handles[h].spans \in 0..MaxHeld /\ handles[h].spans + 1 \in 0..MaxHeld
  BY <1>1 DEF HandleRecord
<1> DEFINE r == [handles[h] EXCEPT !.spans = @ + 1]
<1>3. r \in HandleRecord
  BY <1>2 DEF HandleRecord
<1>4. /\ r.kind = handles[h].kind /\ r.copy = handles[h].copy /\ r.listeners = handles[h].listeners
      /\ r.sink = handles[h].sink /\ r.shutdowns = handles[h].shutdowns /\ r.logs = handles[h].logs
  BY <1>2 DEF HandleRecord
<1>5. handles' = [handles EXCEPT ![h] = r]
  OBVIOUS
<1> HIDE DEF r
<1>6. handles' \in [Handle -> HandleRecord] /\ handles'[h] = r /\ \A g \in Handle \ {h} : handles'[g] = handles[g]
  BY <1>1, <1>3, <1>5
<1>7. Fresh(h) \/ \E d \in calls : d.of = h
  BY DEF InCall
<1> QED
  BY <1>4, <1>6, <1>7, HeldSteps

LEMMA LogSteps == ASSUME LifecycleInv, NEW c \in Copy, Log(c), UNCHANGED layout PROVE LifecycleInv'
<1>1. Loaded(c) /\ UNCHANGED <<layout, host, home, slots, targets, calls>>
  BY DEF Log
<1>2. PICK h \in WritesTo(c) : handles[h].logs < MaxHeld /\ handles' = [handles EXCEPT ![h].logs = @ + 1]
  BY DEF Log, Room
<1> QED
  BY <1>1, <1>2, WritesToHandle, OneMoreLog

LEMMA CaptureSteps == ASSUME LifecycleInv, NEW c \in Copy, CaptureIn(c), UNCHANGED layout PROVE LifecycleInv'
<1> DEFINE r == Reporter(c)
           on == IF r = None THEN {} ELSE
                 IF handles[r].kind = "server" THEN {<<r, "spans">>}
                 ELSE {<<h, "logs">> : h \in WritesTo(c)}
<1>1. Loaded(c) /\ UNCHANGED <<layout, host, home, slots, targets, calls>>
  BY DEF CaptureIn
<1>2. PICK s \in on : handles[s[1]][s[2]] < MaxHeld /\ handles' = [handles EXCEPT ![s[1]][s[2]] = @ + 1]
  BY DEF CaptureIn, Room
<1>3. r # None /\ home[c] \in Copy
  BY <1>1, <1>2 DEF LifecycleInv, LifecycleTypes, Loaded
<1>4. slots[home[c]].server \in Handle \cup {None} /\ slots[home[c]].loggerOnly \in Handle \cup {None}
  BY <1>3 DEF LifecycleInv, LifecycleTypes, SlotRecord, MaybeHandle
<1>5. r \in Handle /\ (r = slots[home[c]].server \/ r = slots[home[c]].loggerOnly)
  BY <1>3, <1>4 DEF Reporter, Slot
<1>6. CASE handles[r].kind = "server"
  <2>1. s[1] = r /\ s[2] = "spans"
    BY <1>2, <1>3, <1>6
  <2>2. r = slots[home[c]].server
    BY <1>3, <1>5, <1>6 DEF LifecycleInv, SlotsSound, Server, Logging
  <2>3. Fresh(r) \/ InCall(r, ToFinish)
    BY <1>3, <1>5, <2>2 DEF LifecycleInv, SlotsSound
  <2>4. handles[r].spans < MaxHeld /\ handles' = [handles EXCEPT ![r].spans = @ + 1]
    BY <1>2, <2>1
  <2> HIDE DEF r
  <2> QED
    BY <1>1, <1>5, <2>3, <2>4, OneMoreSpan
<1>7. CASE handles[r].kind # "server"
  <2>1. PICK h \in WritesTo(c) : s = <<h, "logs">>
    BY <1>2, <1>3, <1>7
  <2>2. handles[h].logs < MaxHeld /\ handles' = [handles EXCEPT ![h].logs = @ + 1]
    BY <1>2, <2>1
  <2> QED
    BY <1>1, <2>2, WritesToHandle, OneMoreLog
<1> QED
  BY <1>6, <1>7

LEMMA AutoFlushSteps == ASSUME LifecycleInv, NEW h \in Handle, AutoFlush(h), UNCHANGED layout PROVE LifecycleInv'
<1> DEFINE c == handles[h].copy
           server == targets[c].server
           any == {server, targets[c].logging} \ {None}
           sinks == IF any = {} THEN {} ELSE {Slot(c).sinks} \ {None}
           r(g) == [handles[g] EXCEPT !.logs = IF g \in sinks THEN 0 ELSE @, !.spans = IF g = server THEN 0 ELSE @]
<1>1. handles' = [g \in Handle |-> r(g)] /\ UNCHANGED <<layout, host, home, slots, targets, calls>>
  BY DEF AutoFlush
<1>2. ASSUME NEW g \in Handle
      PROVE  /\ r(g) \in HandleRecord /\ r(g).kind = handles[g].kind /\ r(g).copy = handles[g].copy
             /\ r(g).listeners = handles[g].listeners /\ r(g).sink = handles[g].sink
             /\ r(g).shutdowns = handles[g].shutdowns
             /\ r(g).logs = handles[g].logs \/ r(g).logs = 0
             /\ r(g).spans = handles[g].spans \/ r(g).spans = 0
  <2> DEFINE m == IF g \in sinks THEN 0 ELSE handles[g].logs
             n == IF g = server THEN 0 ELSE handles[g].spans
  <2>1. handles[g] \in HandleRecord
    BY DEF LifecycleInv, LifecycleTypes
  <2>2. /\ m \in 0..MaxHeld /\ (m = handles[g].logs \/ m = 0)
        /\ n \in 0..MaxHeld /\ (n = handles[g].spans \/ n = 0)
    BY <2>1, HandleFacts DEF HandleRecord
  <2>3. r(g) = [handles[g] EXCEPT !.logs = m, !.spans = n]
    OBVIOUS
  <2> HIDE DEF m, n, r, sinks, server
  <2> QED
    BY <2>1, <2>2, <2>3 DEF HandleRecord
<1> HIDE DEF r
<1>3. handles' \in [Handle -> HandleRecord] /\ \A g \in Handle : handles'[g] = r(g)
  BY <1>1, <1>2
<1> QED
  BY <1>1, <1>2, <1>3, HeldSteps

LEMMA HomesOfHandles ==
    ASSUME LifecycleInv, NEW h \in Handle, handles[h].kind # "none"
    PROVE  handles[h].copy \in Copy /\ Loaded(handles[h].copy) /\ HomeOf(h) \in Copy
  BY DEF LifecycleInv, LifecycleTypes, HandlesSound, Loaded, HomeOf

LEMMA NewCall ==
    ASSUME LifecycleInv, NEW h \in Handle, handles[h].kind # "none"
    PROVE  /\ Call(h) \in CallRecord /\ Call(h).of = h /\ Call(h).n = handles[h].shutdowns
           /\ Call(h).sinks = slots[HomeOf(h)].sinks /\ Call(h).at = "sinks"
  BY HomesOfHandles DEF LifecycleInv, LifecycleTypes, SlotRecord, HandleRecord, Call, CallRecord, Slot, HomeOf

LEMMA ShutdownServerSteps ==
    ASSUME LifecycleInv, NEW h \in Handle, ShutdownServer(h), UNCHANGED layout PROVE LifecycleInv'
<1> DEFINE k == HomeOf(h)
           d == Call(h)
           r == [handles[h] EXCEPT !.shutdowns = @ + 1]
<1>1. /\ Server(h) /\ handles[h].shutdowns < MaxShutdowns
      /\ slots' = (IF slots[k].server = h THEN [slots EXCEPT ![k].sources = FALSE] ELSE slots)
      /\ handles' = [handles EXCEPT ![h] = r]
      /\ calls' = calls \cup {d}
      /\ host' = host /\ home' = home /\ targets' = targets /\ layout' = layout
  BY DEF ShutdownServer, StopsSources, Server
<1>2. /\ k \in Copy /\ slots \in [Copy -> SlotRecord]
      /\ handles \in [Handle -> HandleRecord] /\ calls \in SUBSET CallRecord
      /\ handles[h].shutdowns \in 0..MaxShutdowns
  BY <1>1, HomesOfHandles DEF LifecycleInv, LifecycleTypes, Server, HandleRecord
<1>3. /\ d \in CallRecord /\ d.of = h /\ d.n = handles[h].shutdowns /\ d.sinks = slots[k].sinks /\ d.at = "sinks"
  BY <1>1, NewCall DEF Server
<1>4. /\ r \in HandleRecord /\ r.kind = handles[h].kind /\ r.copy = handles[h].copy
      /\ r.listeners = handles[h].listeners /\ r.sink = handles[h].sink /\ r.logs = handles[h].logs
      /\ r.spans = handles[h].spans /\ r.shutdowns = handles[h].shutdowns + 1
  BY <1>1, <1>2, LifecycleAssumption DEF HandleRecord
<1> HIDE DEF d, r
<1>5. /\ handles' \in [Handle -> HandleRecord] /\ handles'[h] = r
      /\ \A g \in Handle \ {h} : handles'[g] = handles[g]
  BY <1>1, <1>2, <1>4
<1>6. /\ slots' \in [Copy -> SlotRecord] /\ \A b \in Copy \ {k} : slots'[b] = slots[b]
      /\ slots'[k].server = slots[k].server /\ slots'[k].logging = slots[k].logging
      /\ slots'[k].loggerOnly = slots[k].loggerOnly /\ slots'[k].sinks = slots[k].sinks
      /\ slots[k].server # h => slots'[k].sources = slots[k].sources
  BY <1>1, <1>2 DEF SlotRecord
<1>7. /\ \A g \in Handle :
            /\ Server(g)' <=> Server(g)
            /\ Logging(g)' <=> Logging(g)
            /\ HomeOf(g)' = HomeOf(g)
      /\ \A g \in Handle \ {h} :
            /\ Fresh(g)' <=> Fresh(g)
            /\ \A ats : InCall(g, ats)' <=> InCall(g, ats)
      /\ ~Fresh(h)' /\ InCall(h, {"sinks"})' /\ InCall(h, ToWipe)' /\ InCall(h, ToFinish)'
  BY <1>1, <1>2, <1>3, <1>4, <1>5 DEF Fresh, Server, Logging, HomeOf, InCall, ToWipe, ToFinish
<1>8. \A b \in calls : b.of \in Handle
  BY <1>2 DEF CallRecord
<1> HIDE DEF k
<1>9. LifecycleTypes'
  BY <1>1, <1>2, <1>3, <1>5, <1>6 DEF LifecycleInv, LifecycleTypes
<1>10. HomesSound'
  BY <1>1 DEF LifecycleInv, HomesSound, Loaded
<1>11. HandlesSound'
  BY <1>1, <1>3, <1>4, <1>5, <1>7 DEF LifecycleInv, HandlesSound, Loaded, Server, Logging
<1>12. SlotsSound'
  BY <1>1, <1>2, <1>4, <1>5, <1>6, <1>7 DEF LifecycleInv, SlotsSound, Server, Logging
<1>13. TargetsSound'
  BY <1>1, <1>4, <1>5, <1>7 DEF LifecycleInv, TargetsSound, Server, Logging
<1>14. ServersActive'
  BY HomesOfHandles, <1>1, <1>4, <1>5, <1>6, <1>7 DEF Server, LifecycleInv, ServersActive
<1>15. CallsSound'
  <2>1. \A b \in calls : b.of = h => b.n < d.n
    BY <1>3 DEF LifecycleInv, CallsSound
  <2>2. \A b \in calls : b.of = h => b.n \in 0..MaxShutdowns
    BY <1>2 DEF CallRecord
  <2> QED
    BY <1>1, <1>2, <1>3, <1>4, <1>5, <1>7, <1>8, <2>1, <2>2, LifecycleAssumption
    DEF LifecycleInv, CallsSound, Server, Logging
<1>16. Tidy' => OrderlySound'
  <2> SUFFICES ASSUME Tidy' PROVE OrderlySound'
    OBVIOUS
  <2>1. OrderlySound
    BY <1>2, <1>4, <1>5, LifecycleAssumption, TidyBefore DEF HandleRecord, LifecycleInv
  <2>2. Fresh(h) /\ slots[k].server = h
    BY <1>1, <1>2, <1>4, <1>5 DEF Tidy, Fresh, LifecycleInv, ServersActive, k
  <2>3. \A g \in Handle : ~Logging(g)'
    BY <1>1, <1>4, <1>5, <1>7 DEF Tidy, StartedHandles, Server, Logging
  <2>4. \A g \in Handle : Server(g) => HomeOf(g) \in Copy
    BY HomesOfHandles DEF Server
  <2>5. \A g \in Handle \ {h} : Server(g) /\ Fresh(g) => HomeOf(g) # k
    BY <2>2 DEF LifecycleInv, ServersActive
  <2>6. \A g \in Handle \ {h} : Server(g)' /\ Fresh(g)' =>
          /\ slots'[HomeOf(g)'].sinks = g /\ slots'[HomeOf(g)'].sources
          /\ handles'[g].sink = "open" /\ targets'[handles'[g].copy].server = g
    BY <1>1, <1>5, <1>6, <1>7, <2>1, <2>4, <2>5 DEF OrderlySound
  <2>7. \A g \in Handle : Server(g)' /\ ~Fresh(g)' => handles'[g].sink = "closed" \/ InCall(g, {"sinks"})'
    BY <1>5, <1>7, <2>1 DEF OrderlySound
  <2>8. d.sinks = h
    BY <1>1, <1>3, <2>1, <2>2 DEF OrderlySound, k
  <2>9. \A b \in calls' : Server(b.of)' =>
          b.sinks = b.of /\ (b.at \in ToFinish => slots'[HomeOf(b.of)'].server = b.of)
    <3>1. \A b \in calls : Server(b.of) => b.sinks = b.of /\ (b.at \in ToFinish => slots[HomeOf(b.of)].server = b.of)
      BY <2>1 DEF OrderlySound
    <3>2. \A b \in Copy : slots'[b].server = slots[b].server
      BY <1>6
    <3> QED
      BY <1>1, <1>3, <1>7, <1>8, <2>2, <2>4, <2>8, <3>1, <3>2 DEF k
  <2> QED
    BY <1>7, <2>3, <2>6, <2>7, <2>9 DEF OrderlySound
<1> QED
  BY <1>9, <1>10, <1>11, <1>12, <1>13, <1>14, <1>15, <1>16 DEF LifecycleInv

LEMMA ShutdownLoggingSteps ==
    ASSUME LifecycleInv, NEW h \in Handle, ShutdownLogging(h), UNCHANGED layout PROVE LifecycleInv'
<1> DEFINE k == HomeOf(h)
           c == handles[h].copy
           d == Call(h)
           patched == slots[k].sources /\ ~StopsSources(h, "logging")
           logging == IF Clears(h, "logging") THEN None ELSE slots[k].logging
           s == [slots[k] EXCEPT !.sources = patched, !.loggerOnly = None, !.logging = logging]
           r == [handles[h] EXCEPT !.shutdowns = @ + 1, !.listeners = {}]
<1>1. /\ Logging(h) /\ handles[h].shutdowns < MaxShutdowns
      /\ targets' = [targets EXCEPT ![c] = Targets]
      /\ calls' = calls \cup {d}
      /\ host' = host /\ home' = home /\ layout' = layout
  BY DEF ShutdownLogging, Logging
<1>2. /\ k \in Copy /\ c \in Copy /\ slots \in [Copy -> SlotRecord] /\ targets \in [Copy -> TargetRecord]
      /\ handles \in [Handle -> HandleRecord] /\ calls \in SUBSET CallRecord
      /\ handles[h].shutdowns \in 0..MaxShutdowns
  BY <1>1, HomesOfHandles DEF LifecycleInv, LifecycleTypes, Logging, HandleRecord
<1>3. slots' = [slots EXCEPT ![k] = s] /\ handles' = [handles EXCEPT ![h] = r]
  BY <1>2 DEF ShutdownLogging
<1>4. /\ d \in CallRecord /\ d.of = h /\ d.n = handles[h].shutdowns /\ d.at = "sinks"
  BY <1>1, NewCall DEF Logging
<1>5. /\ r \in HandleRecord /\ r.kind = handles[h].kind /\ r.copy = handles[h].copy
      /\ r.listeners = {} /\ r.sink = handles[h].sink /\ r.logs = handles[h].logs
      /\ r.spans = handles[h].spans /\ r.shutdowns = handles[h].shutdowns + 1
  <2>1. handles[h] \in HandleRecord /\ handles[h].shutdowns + 1 \in 0..MaxShutdowns
    BY <1>1, <1>2, LifecycleAssumption
  <2> QED
    BY <2>1 DEF HandleRecord
<1>6. /\ s \in SlotRecord /\ s.server = slots[k].server /\ s.sinks = slots[k].sinks
      /\ s.loggerOnly = None /\ s.logging = logging
  <2>1. slots[k] \in SlotRecord
    BY <1>2
  <2>2. patched \in BOOLEAN /\ logging \in MaybeHandle
    BY <2>1 DEF SlotRecord, MaybeHandle
  <2> HIDE DEF patched, logging, k
  <2>3. None \in MaybeHandle
    BY DEF MaybeHandle
  <2> QED
    BY <2>1, <2>2, <2>3 DEF SlotRecord
<1>7. logging # h /\ (logging = None \/ logging = slots[k].logging) /\ (slots[k].logging # h => logging = slots[k].logging)
  BY HandleFacts DEF Clears
<1>8. Targets \in TargetRecord /\ Targets.server = None /\ Targets.logging = None
  BY DEF Targets, TargetRecord, MaybeHandle
<1> HIDE DEF d, r, s, logging, patched
<1>9. /\ handles' \in [Handle -> HandleRecord] /\ handles'[h] = r
      /\ \A g \in Handle \ {h} : handles'[g] = handles[g]
  BY <1>2, <1>3, <1>5
<1>10. /\ slots' \in [Copy -> SlotRecord] /\ \A b \in Copy \ {k} : slots'[b] = slots[b]
       /\ slots'[k].server = slots[k].server /\ slots'[k].sinks = slots[k].sinks
       /\ slots'[k].loggerOnly = None /\ slots'[k].logging # h
       /\ slots'[k].logging = None \/ slots'[k].logging = slots[k].logging
       /\ slots[k].logging # h => slots'[k].logging = slots[k].logging
  BY <1>2, <1>3, <1>6, <1>7
<1>11. /\ targets' \in [Copy -> TargetRecord] /\ targets'[c] = Targets
       /\ \A b \in Copy \ {c} : targets'[b] = targets[b]
  BY <1>1, <1>2, <1>8
<1>12. /\ \A g \in Handle :
             /\ Server(g)' <=> Server(g)
             /\ Logging(g)' <=> Logging(g)
             /\ HomeOf(g)' = HomeOf(g)
       /\ \A g \in Handle \ {h} :
             /\ Fresh(g)' <=> Fresh(g)
             /\ \A ats : InCall(g, ats)' <=> InCall(g, ats)
       /\ ~Fresh(h)' /\ InCall(h, ToWipe)' /\ ~Server(h)
  BY <1>1, <1>2, <1>4, <1>5, <1>9 DEF Fresh, Server, Logging, HomeOf, InCall, ToWipe
<1>13. \A b \in calls : b.of \in Handle
  BY <1>2 DEF CallRecord
<1> HIDE DEF k
<1>14. LifecycleTypes'
  BY <1>1, <1>2, <1>4, <1>9, <1>10, <1>11 DEF LifecycleInv, LifecycleTypes
<1>15. HomesSound'
  BY <1>1 DEF LifecycleInv, HomesSound, Loaded
<1>16. HandlesSound'
  BY <1>1, <1>4, <1>5, <1>9, <1>12 DEF LifecycleInv, HandlesSound, Loaded, Server, Logging
<1>17. SlotsSound'
  <2>1. ASSUME NEW b \in Copy, NEW g \in Handle
        PROVE  /\ slots'[b].server = g => slots[b].server = g
               /\ slots'[b].sinks = g => slots[b].sinks = g
               /\ slots'[b].logging = g => g # h /\ slots[b].logging = g
               /\ slots'[b].loggerOnly = g => g # h /\ slots[b].loggerOnly = g
    BY <1>10, HandleFacts DEF LifecycleInv, SlotsSound, k
  <2> QED
    BY <1>1, <1>5, <1>9, <1>12, <2>1 DEF LifecycleInv, SlotsSound, Server, Logging
<1>18. TargetsSound'
  BY <1>1, <1>5, <1>8, <1>9, <1>11, <1>12, HandleFacts DEF LifecycleInv, TargetsSound, Server, Logging
<1>19. ServersActive'
  BY HomesOfHandles, <1>10, <1>12, <1>9 DEF Server, LifecycleInv, ServersActive
<1>20. CallsSound'
  <2>1. \A b \in calls : b.of = h => b.n < d.n
    BY <1>4 DEF LifecycleInv, CallsSound
  <2>2. \A b \in calls : b.of = h => b.n \in 0..MaxShutdowns
    BY <1>2 DEF CallRecord
  <2> QED
    BY <1>1, <1>2, <1>4, <1>5, <1>9, <1>12, <1>13, <2>1, <2>2, LifecycleAssumption
    DEF LifecycleInv, CallsSound, Server, Logging, ToWipe
<1>21. Tidy' => OrderlySound'
  <2> SUFFICES ASSUME Tidy' PROVE OrderlySound'
    OBVIOUS
  <2>1. OrderlySound
    BY <1>2, <1>5, <1>9, LifecycleAssumption, TidyBefore DEF HandleRecord, LifecycleInv
  <2>2. Fresh(h) /\ slots[k].logging = h
    BY <1>1, <1>2, <1>5, <1>9, <2>1 DEF Tidy, Fresh, OrderlySound, k
  <2>3. \A g \in Handle : ~Server(g)'
    BY <1>1, <1>5, <1>9, <1>12 DEF Tidy, StartedHandles, Server, Logging
  <2>4. \A g \in Handle : Logging(g) => HomeOf(g) \in Copy
    BY HomesOfHandles DEF Logging
  <2>5. \A g \in Handle \ {h} : Logging(g) /\ Fresh(g) => HomeOf(g) # k
    BY <2>1, <2>2 DEF OrderlySound
  <2>6. \A b \in calls' : b.of \in Handle
    BY <1>1, <1>4, <1>13
  <2> QED
    <3>1. \A g \in Handle : Logging(g)' /\ Fresh(g)' => slots'[HomeOf(g)'].logging = g /\ slots'[HomeOf(g)'].loggerOnly = g
      BY <1>10, <1>12, <2>1, <2>4, <2>5 DEF OrderlySound
    <3> QED
      BY <2>3, <2>6, <3>1 DEF OrderlySound
<1> QED
  BY <1>14, <1>15, <1>16, <1>17, <1>18, <1>19, <1>20, <1>21 DEF LifecycleInv

-----------------------------------------------------------------------------
(* A shutdown() goes on: its call is the one that moves.                     *)
LEMMA CallMoves ==
    ASSUME LifecycleInv, NEW d \in calls, NEW at \in {"wipe", "finish", "providers"}, Goes(d, at)
    PROVE  LET e == [d EXCEPT !.at = at] IN
           /\ e \in CallRecord /\ e.of = d.of /\ e.n = d.n /\ e.sinks = d.sinks /\ e.at = at
           /\ calls' = (calls \ {d}) \cup {e} /\ calls' \in SUBSET CallRecord /\ d.of \in Handle
  BY DEF Goes, CallRecord, LifecycleInv, LifecycleTypes

LEMMA CloseSinksSteps ==
    ASSUME LifecycleInv, NEW d \in calls, CloseSinks(d), UNCHANGED layout PROVE LifecycleInv'
<1> DEFINE e == [d EXCEPT !.at = "wipe"]
<1>1. /\ d.at = "sinks" /\ Goes(d, "wipe")
      /\ host' = host /\ home' = home /\ slots' = slots /\ targets' = targets /\ layout' = layout
      /\ d.sinks = None => handles' = handles
      /\ d.sinks # None => handles' = [handles EXCEPT ![d.sinks].sink = "closed", ![d.sinks].logs = 0]
  BY DEF CloseSinks
<1>2. /\ e.of = d.of /\ e.n = d.n /\ e.sinks = d.sinks /\ e.at = "wipe" /\ calls' = (calls \ {d}) \cup {e}
      /\ calls' \in SUBSET CallRecord /\ d.of \in Handle /\ d.sinks \in Handle \cup {None}
  BY <1>1, CallMoves DEF LifecycleInv, LifecycleTypes, CallRecord, MaybeHandle
<1> HIDE DEF e
<1>3. /\ handles' \in [Handle -> HandleRecord]
      /\ \A g \in Handle :
            /\ handles'[g].kind = handles[g].kind /\ handles'[g].copy = handles[g].copy
            /\ handles'[g].listeners = handles[g].listeners /\ handles'[g].spans = handles[g].spans
            /\ handles'[g].shutdowns = handles[g].shutdowns
            /\ g = d.sinks => handles'[g].sink = "closed" /\ handles'[g].logs = 0
            /\ g # d.sinks => handles'[g] = handles[g]
  <2>1. handles \in [Handle -> HandleRecord]
    BY DEF LifecycleInv, LifecycleTypes
  <2>2. CASE d.sinks = None
    BY <1>1, <2>1, <2>2, HandleFacts
  <2>3. CASE d.sinks # None
    <3> DEFINE s == d.sinks
               r == [handles[s] EXCEPT !.sink = "closed", !.logs = 0]
    <3>1. s \in Handle /\ handles[s] \in HandleRecord
      BY <1>2, <2>1, <2>3
    <3>2. handles' = [handles EXCEPT ![s] = r]
      BY <1>1, <2>1, <2>3, <3>1
    <3> HIDE DEF s
    <3>3. /\ r \in HandleRecord /\ r.kind = handles[s].kind /\ r.copy = handles[s].copy
          /\ r.listeners = handles[s].listeners /\ r.spans = handles[s].spans
          /\ r.shutdowns = handles[s].shutdowns /\ r.sink = "closed" /\ r.logs = 0
      BY <3>1, HandleFacts DEF HandleRecord
    <3> HIDE DEF r
    <3> QED
      BY <2>1, <3>1, <3>2, <3>3 DEF s
  <2> QED
    BY <2>2, <2>3
<1>4. /\ \A g \in Handle :
            /\ Server(g)' <=> Server(g)
            /\ Logging(g)' <=> Logging(g)
            /\ Fresh(g)' <=> Fresh(g)
            /\ HomeOf(g)' = HomeOf(g)
            /\ InCall(g, ToWipe) => InCall(g, ToWipe)'
            /\ InCall(g, ToFinish) => InCall(g, ToFinish)'
            /\ (\A b \in calls' : b.of # g) => (\A b \in calls : b.of # g)
  BY <1>1, <1>2, <1>3 DEF Fresh, Server, Logging, HomeOf, InCall, ToWipe, ToFinish
<1>5. \A b \in calls : b.of \in Handle
  BY DEF LifecycleInv, LifecycleTypes, CallRecord
<1>6. LifecycleTypes' /\ HomesSound'
  BY <1>1, <1>2, <1>3 DEF LifecycleInv, LifecycleTypes, HomesSound, Loaded
<1>7. HandlesSound'
  BY <1>1, <1>3, <1>4 DEF LifecycleInv, HandlesSound, Loaded
<1>8. SlotsSound' /\ TargetsSound'
  BY <1>1, <1>3, <1>4 DEF LifecycleInv, SlotsSound, TargetsSound
<1>9. ServersActive'
  BY <1>1, <1>3, <1>4 DEF LifecycleInv, ServersActive
<1>10. CallsSound'
  BY <1>2, <1>3, <1>4, <1>5 DEF LifecycleInv, CallsSound, ToWipe
<1>11. Tidy' => OrderlySound'
  <2> SUFFICES ASSUME Tidy' PROVE OrderlySound'
    OBVIOUS
  <2>1. OrderlySound /\ Tidy
    <3>1. Tidy
      BY <1>3 DEF Tidy, StartedHandles
    <3> QED
      BY <3>1 DEF LifecycleInv
  <2>2. ~Fresh(d.of) /\ d.of \in StartedHandles
    BY <1>2, LifecycleAssumption DEF LifecycleInv, LifecycleTypes, CallRecord, CallsSound, Fresh, StartedHandles
  <2>3. \A g \in Handle : Server(g) => Server(d.of) /\ d.sinks = d.of
    BY <2>1, <2>2 DEF Tidy, OrderlySound, StartedHandles, Server
  <2>4. \A g \in Handle : Logging(g)' /\ Fresh(g)' => slots'[HomeOf(g)'].logging = g /\ slots'[HomeOf(g)'].loggerOnly = g
    BY <1>1, <1>4, <2>1 DEF OrderlySound
  <2>5. \A g \in Handle : Server(g)' /\ Fresh(g)' =>
          /\ slots'[HomeOf(g)'].sinks = g /\ slots'[HomeOf(g)'].sources
          /\ handles'[g].sink = "open" /\ targets'[handles'[g].copy].server = g
    BY <1>1, <1>3, <1>4, <2>1, <2>2, <2>3 DEF OrderlySound
  <2>6. ASSUME NEW g \in Handle, Server(g)', ~Fresh(g)' PROVE handles'[g].sink = "closed" \/ InCall(g, {"sinks"})'
    BY <1>4, <2>1, <2>3, <2>6, <1>3, <1>2 DEF OrderlySound, InCall
  <2>7. \A b \in calls' : Server(b.of)' =>
          b.sinks = b.of /\ (b.at \in ToFinish => slots'[HomeOf(b.of)'].server = b.of)
    BY <1>1, <1>2, <1>4, <1>5, <2>1 DEF OrderlySound, ToFinish
  <2>8. \A b \in calls' : b.of \in Handle /\ HomeOf(b.of)' = HomeOf(b.of)
    BY <1>2, <1>4, <1>5
  <2> QED
    BY <2>4, <2>5, <2>6, <2>7 DEF OrderlySound
<1> QED
  BY <1>6, <1>7, <1>8, <1>9, <1>10, <1>11 DEF LifecycleInv

LEMMA WipeLoggerSteps ==
    ASSUME LifecycleInv, NEW d \in calls, WipeLogger(d), UNCHANGED layout PROVE LifecycleInv'
<1> DEFINE k == HomeOf(d.of)
           e == [d EXCEPT !.at = "finish"]
<1>1. /\ d.at = "wipe" /\ slots' = [slots EXCEPT ![k].sinks = None]
      /\ host' = host /\ home' = home /\ handles' = handles /\ targets' = targets /\ layout' = layout
      /\ Server(d.of) => Goes(d, "finish")
      /\ ~Server(d.of) => calls' = calls \ {d}
  BY DEF WipeLogger, Server
<1>2. /\ e.of = d.of /\ e.n = d.n /\ e.sinks = d.sinks /\ e.at = "finish" /\ d.of \in Handle
      /\ Server(d.of) => calls' = (calls \ {d}) \cup {e}
      /\ calls' \in SUBSET CallRecord
  BY <1>1, CallMoves DEF LifecycleInv, LifecycleTypes, CallRecord
<1> HIDE DEF e
<1>3. k \in Copy /\ handles[d.of].kind # "none" /\ ~Fresh(d.of)
  BY <1>2, HomesOfHandles, LifecycleAssumption DEF LifecycleInv, LifecycleTypes, CallRecord, CallsSound, Fresh
<1>4. /\ slots' \in [Copy -> SlotRecord] /\ \A b \in Copy \ {k} : slots'[b] = slots[b]
      /\ slots'[k].server = slots[k].server /\ slots'[k].logging = slots[k].logging
      /\ slots'[k].loggerOnly = slots[k].loggerOnly /\ slots'[k].sinks = None
      /\ slots'[k].sources = slots[k].sources
  BY <1>1, <1>3 DEF LifecycleInv, LifecycleTypes, SlotRecord, MaybeHandle
<1>5. /\ \A g \in Handle :
            /\ Server(g)' <=> Server(g)
            /\ Logging(g)' <=> Logging(g)
            /\ Fresh(g)' <=> Fresh(g)
            /\ HomeOf(g)' = HomeOf(g)
            /\ Server(g) /\ InCall(g, ToFinish) => InCall(g, ToFinish)'
            /\ InCall(g, {"sinks"}) => InCall(g, {"sinks"})'
            /\ g # d.of /\ InCall(g, ToWipe) => InCall(g, ToWipe)'
            /\ Server(g) /\ (\A b \in calls' : b.of # g) => (\A b \in calls : b.of # g)
  BY <1>1, <1>2 DEF Fresh, Server, Logging, HomeOf, InCall, ToFinish
<1>6. \A b \in calls : b.of \in Handle
  BY DEF LifecycleInv, LifecycleTypes, CallRecord
<1> HIDE DEF k
<1>7. LifecycleTypes' /\ HomesSound'
  BY <1>1, <1>2, <1>4 DEF LifecycleInv, LifecycleTypes, HomesSound, Loaded
<1>8. HandlesSound'
  BY <1>1, <1>5 DEF LifecycleInv, HandlesSound, Loaded
<1>9. SlotsSound'
  BY <1>3, <1>4, HandleFacts, <1>1, <1>5 DEF LifecycleInv, SlotsSound, k
<1>10. TargetsSound'
  BY <1>1, <1>5 DEF LifecycleInv, TargetsSound
<1>11. ServersActive'
  BY <1>4, HomesOfHandles, <1>1, <1>5 DEF Server, LifecycleInv, ServersActive
<1>12. CallsSound'
  BY <1>1, <1>2, <1>5, <1>6 DEF LifecycleInv, CallsSound, Server, Logging
<1>13. Tidy' => OrderlySound'
  <2> SUFFICES ASSUME Tidy' PROVE OrderlySound'
    OBVIOUS
  <2>1. OrderlySound /\ Tidy
    <3>1. Tidy
      BY <1>1 DEF Tidy, StartedHandles
    <3> QED
      BY <3>1 DEF LifecycleInv
  <2>2. \A g \in Handle : Server(g) \/ Logging(g) => HomeOf(g) \in Copy
    BY HomesOfHandles DEF Server, Logging
  <2>3. \A g \in Handle : Logging(g)' /\ Fresh(g)' => slots'[HomeOf(g)'].logging = g /\ slots'[HomeOf(g)'].loggerOnly = g
    BY <1>4, <1>5, <2>1, <2>2 DEF OrderlySound
  <2>4. ASSUME NEW g \in Handle, Server(g), Fresh(g) PROVE HomeOf(g) # k
    BY <1>2, <1>3, <2>1, <2>4, <1>1 DEF Tidy, StartedHandles, Server, OrderlySound, ToFinish, k,
       LifecycleInv, ServersActive
  <2>5. \A g \in Handle : Server(g)' /\ Fresh(g)' =>
          /\ slots'[HomeOf(g)'].sinks = g /\ slots'[HomeOf(g)'].sources
          /\ handles'[g].sink = "open" /\ targets'[handles'[g].copy].server = g
    BY <1>1, <1>4, <1>5, <2>1, <2>2, <2>4 DEF OrderlySound
  <2>6. \A g \in Handle : Server(g)' /\ ~Fresh(g)' => handles'[g].sink = "closed" \/ InCall(g, {"sinks"})'
    BY <1>1, <1>5, <2>1 DEF OrderlySound
  <2>7. \A b \in calls' : Server(b.of)' =>
          b.sinks = b.of /\ (b.at \in ToFinish => slots'[HomeOf(b.of)'].server = b.of)
    <3>1. \A b \in Copy : slots'[b].server = slots[b].server
      BY <1>4
    <3>2. \A b \in calls' : Server(b.of)' => b \in calls \/ (b = e /\ Server(d.of))
      BY <1>1, <1>2
    <3>3. d.at \in ToFinish
      BY <1>1 DEF ToFinish
    <3> QED
      BY <1>2, <1>5, <1>6, <2>1, <2>2, <3>1, <3>2, <3>3 DEF OrderlySound
  <2> QED
    BY <2>3, <2>5, <2>6, <2>7 DEF OrderlySound
<1> QED
  BY <1>7, <1>8, <1>9, <1>10, <1>11, <1>12, <1>13 DEF LifecycleInv

LEMMA FinishServerSteps ==
    ASSUME LifecycleInv, NEW d \in calls, FinishServer(d), UNCHANGED layout PROVE LifecycleInv'
<1> DEFINE k == HomeOf(d.of)
           c == handles[d.of].copy
           e == [d EXCEPT !.at = "providers"]
           r == [handles[d.of] EXCEPT !.listeners = {}]
<1>1. /\ d.at = "finish" /\ Goes(d, "providers")
      /\ slots' = (IF slots[k].server = d.of THEN [slots EXCEPT ![k].server = None] ELSE slots)
      /\ targets' = [targets EXCEPT ![c] = Targets]
      /\ handles' = [handles EXCEPT ![d.of] = r]
      /\ host' = host /\ home' = home /\ layout' = layout
  BY DEF FinishServer, Clears
<1>2. /\ e.of = d.of /\ e.n = d.n /\ e.sinks = d.sinks /\ e.at = "providers" /\ d.of \in Handle
      /\ calls' = (calls \ {d}) \cup {e} /\ calls' \in SUBSET CallRecord
  BY <1>1, CallMoves
<1>3. handles[d.of].kind # "none" /\ ~Fresh(d.of) /\ ~Logging(d.of)
  BY <1>1, <1>2, LifecycleAssumption
  DEF LifecycleInv, LifecycleTypes, CallRecord, CallsSound, Fresh, ToWipe
<1>4. k \in Copy /\ c \in Copy /\ Server(d.of)
  BY <1>2, <1>3, HomesOfHandles DEF LifecycleInv, LifecycleTypes, HandleRecord, Server, Logging
<1>5. /\ r \in HandleRecord /\ r.kind = handles[d.of].kind /\ r.copy = c /\ r.listeners = {}
      /\ r.sink = handles[d.of].sink /\ r.logs = handles[d.of].logs
      /\ r.spans = handles[d.of].spans /\ r.shutdowns = handles[d.of].shutdowns
  BY <1>2 DEF LifecycleInv, LifecycleTypes, HandleRecord
<1>6. Targets \in TargetRecord /\ Targets.server = None /\ Targets.logging = None
  BY DEF Targets, TargetRecord, MaybeHandle
<1> HIDE DEF e, r
<1>7. /\ handles' \in [Handle -> HandleRecord] /\ handles'[d.of] = r
      /\ \A g \in Handle \ {d.of} : handles'[g] = handles[g]
  BY <1>1, <1>2, <1>5 DEF LifecycleInv, LifecycleTypes
<1>8. /\ slots' \in [Copy -> SlotRecord] /\ \A b \in Copy \ {k} : slots'[b] = slots[b]
      /\ slots'[k].logging = slots[k].logging /\ slots'[k].loggerOnly = slots[k].loggerOnly
      /\ slots'[k].sinks = slots[k].sinks /\ slots'[k].sources = slots[k].sources
      /\ slots[k].server = d.of => slots'[k].server = None
      /\ slots[k].server # d.of => slots'[k].server = slots[k].server
  BY <1>1, <1>4 DEF LifecycleInv, LifecycleTypes, SlotRecord, MaybeHandle
<1>9. /\ targets' \in [Copy -> TargetRecord] /\ targets'[c] = Targets
      /\ \A b \in Copy \ {c} : targets'[b] = targets[b]
  BY <1>1, <1>4, <1>6 DEF LifecycleInv, LifecycleTypes
<1>10. /\ \A g \in Handle :
             /\ Server(g)' <=> Server(g)
             /\ Logging(g)' <=> Logging(g)
             /\ Fresh(g)' <=> Fresh(g)
             /\ HomeOf(g)' = HomeOf(g)
             /\ InCall(g, {"sinks"}) => InCall(g, {"sinks"})'
             /\ InCall(g, ToWipe) => InCall(g, ToWipe)'
             /\ g # d.of /\ InCall(g, ToFinish) => InCall(g, ToFinish)'
             /\ (\A b \in calls' : b.of # g) => (\A b \in calls : b.of # g)
  BY SMTT(40), <1>1, <1>2, <1>5, <1>7 DEF Fresh, Server, Logging, HomeOf, InCall, ToWipe
<1>11. \A b \in calls : b.of \in Handle
  BY DEF LifecycleInv, LifecycleTypes, CallRecord
<1> HIDE DEF k, c
<1>12. LifecycleTypes' /\ HomesSound'
  BY <1>1, <1>2, <1>7, <1>8, <1>9 DEF LifecycleInv, LifecycleTypes, HomesSound, Loaded
<1>13. HandlesSound'
  BY <1>1, <1>3, <1>5, <1>7, <1>10 DEF LifecycleInv, HandlesSound, Loaded, Logging, c
<1>14. SlotsSound'
  <2>1. ASSUME NEW b \in Copy, NEW g \in Handle
        PROVE  /\ slots'[b].server = g => slots[b].server = g /\ g # d.of
               /\ slots'[b].logging = slots[b].logging
               /\ slots'[b].loggerOnly = slots[b].loggerOnly /\ slots'[b].sinks = slots[b].sinks
    BY <1>8, HandleFacts DEF LifecycleInv, SlotsSound, k
  <2>2. \A g \in Handle : handles'[g].kind = handles[g].kind
    BY <1>5, <1>7
  <2> QED
    BY <1>10, <2>1, <2>2 DEF LifecycleInv, SlotsSound
<1>15. TargetsSound'
  <2>1. ASSUME NEW b \in Copy, NEW g \in Handle
        PROVE  /\ targets'[b].server = g => targets[b].server = g /\ g # d.of
               /\ targets'[b].logging = g => targets[b].logging = g
    BY <1>6, <1>9, HandleFacts DEF LifecycleInv, TargetsSound, c
  <2>2. \A g \in Handle : handles'[g].copy = handles[g].copy
    BY <1>5, <1>7 DEF c
  <2> QED
    BY <1>10, <2>1, <2>2 DEF LifecycleInv, TargetsSound
<1>16. ServersActive'
  <2>1. ASSUME NEW g \in Handle, Server(g), Fresh(g) \/ handles'[g].listeners # {}
        PROVE  slots'[HomeOf(g)].server = g
    BY <1>3, <1>5, <1>7, <2>1, HomesOfHandles, <1>8 DEF LifecycleInv, ServersActive, Server
  <2> QED
    BY <1>10, <2>1 DEF ServersActive
<1>17. CallsSound'
  BY <1>5, <1>7, <1>2, <1>3, <1>10, <1>11 DEF LifecycleInv, CallsSound
<1>18. Tidy' => OrderlySound'
  <2> SUFFICES ASSUME Tidy' PROVE OrderlySound'
    OBVIOUS
  <2>1. \A g \in Handle : /\ handles'[g].kind = handles[g].kind /\ handles'[g].shutdowns = handles[g].shutdowns
                          /\ handles'[g].copy = handles[g].copy /\ handles'[g].sink = handles[g].sink
    BY <1>5, <1>7 DEF c
  <2>2. OrderlySound /\ Tidy
    <3>1. Tidy
      BY <2>1 DEF Tidy, StartedHandles
    <3> QED
      BY <3>1 DEF LifecycleInv
  <2>3. slots[k].server = d.of
    BY <1>1, <1>4, <2>2 DEF OrderlySound, ToFinish, k
  <2>4. \A g \in Handle : ~Logging(g)
    BY <1>2, <1>4, <2>2 DEF Tidy, StartedHandles, Server, Logging
  <2>5. ASSUME NEW g \in Handle, Server(g), Fresh(g) PROVE HomeOf(g) # k /\ handles[g].copy # c
    BY <2>5, <1>3, <2>3 DEF LifecycleInv, ServersActive, HomeOf, k, c
  <2>6. \A g \in Handle : Server(g) => HomeOf(g) \in Copy /\ handles[g].copy \in Copy
    BY HomesOfHandles DEF Server
  <2>7. \A g \in Handle : Server(g)' /\ Fresh(g)' =>
          /\ slots'[HomeOf(g)'].sinks = g /\ slots'[HomeOf(g)'].sources
          /\ handles'[g].sink = "open" /\ targets'[handles'[g].copy].server = g
    BY <1>8, <1>9, <1>10, <2>1, <2>2, <2>5, <2>6 DEF OrderlySound
  <2>8. \A g \in Handle : Server(g)' /\ ~Fresh(g)' => handles'[g].sink = "closed" \/ InCall(g, {"sinks"})'
    BY <1>10, <2>1, <2>2 DEF OrderlySound
  <2>9. ASSUME NEW b \in calls', Server(b.of)'
        PROVE  b.sinks = b.of /\ (b.at \in ToFinish => slots'[HomeOf(b.of)'].server = b.of)
    <3>1. CASE b = e
      BY <1>2, <1>4, <2>2, <3>1 DEF OrderlySound, ToFinish
    <3>2. CASE b # e
      <4>1. b \in calls /\ b # d /\ b.of \in Handle /\ Server(b.of) /\ HomeOf(b.of)' = HomeOf(b.of)
        BY <1>2, <1>10, <1>11, <2>9, <3>2
      <4>2. b.of # d.of
        <5>1. b.n = 0 /\ d.n = 0
          <6>1. /\ b.n \in Nat /\ d.n \in Nat /\ b.n < handles[b.of].shutdowns /\ d.n < handles[d.of].shutdowns
                /\ handles[b.of].shutdowns \in Nat /\ handles[d.of].shutdowns \in Nat
            BY <1>2, <4>1, LifecycleAssumption
            DEF LifecycleInv, LifecycleTypes, CallRecord, HandleRecord, CallsSound
          <6>2. handles[b.of].shutdowns <= 1 /\ handles[d.of].shutdowns <= 1
            BY <1>2, <2>2, <4>1 DEF Tidy
          <6> QED
            BY <6>1, <6>2
        <5> QED
          BY <4>1, <5>1 DEF LifecycleInv, CallsSound
      <4>3. b.sinks = b.of /\ (b.at \in ToFinish => slots[HomeOf(b.of)].server = b.of)
        BY <2>2, <4>1 DEF OrderlySound
      <4> QED
        BY <1>8, <2>3, <2>6, <4>1, <4>2, <4>3
    <3> QED
      BY <3>1, <3>2
  <2> QED
    BY <1>10, <2>4, <2>7, <2>8, <2>9 DEF OrderlySound
<1> QED
  BY <1>12, <1>13, <1>14, <1>15, <1>16, <1>17, <1>18 DEF LifecycleInv

LEMMA CloseProvidersSteps ==
    ASSUME LifecycleInv, NEW d \in calls, CloseProviders(d), UNCHANGED layout PROVE LifecycleInv'
<1> DEFINE r == [handles[d.of] EXCEPT !.spans = 0]
<1>1. /\ d.at = "providers" /\ calls' = calls \ {d} /\ handles' = [handles EXCEPT ![d.of] = r]
      /\ host' = host /\ home' = home /\ slots' = slots /\ targets' = targets /\ layout' = layout
  BY DEF CloseProviders
<1>2. d.of \in Handle /\ handles[d.of] \in HandleRecord
  BY DEF LifecycleInv, LifecycleTypes, CallRecord
<1>3. /\ r \in HandleRecord /\ r.kind = handles[d.of].kind /\ r.copy = handles[d.of].copy
      /\ r.listeners = handles[d.of].listeners /\ r.sink = handles[d.of].sink /\ r.logs = handles[d.of].logs
      /\ r.spans = 0 /\ r.shutdowns = handles[d.of].shutdowns
  BY <1>2, HandleFacts DEF HandleRecord
<1> HIDE DEF r
<1>4. /\ handles' \in [Handle -> HandleRecord] /\ handles'[d.of].spans = 0
      /\ \A g \in Handle :
            /\ handles'[g].kind = handles[g].kind /\ handles'[g].copy = handles[g].copy
            /\ handles'[g].listeners = handles[g].listeners /\ handles'[g].sink = handles[g].sink
            /\ handles'[g].logs = handles[g].logs /\ handles'[g].shutdowns = handles[g].shutdowns
            /\ g # d.of => handles'[g].spans = handles[g].spans
  BY <1>1, <1>2, <1>3 DEF LifecycleInv, LifecycleTypes
<1>5. /\ \A g \in Handle :
            /\ Server(g)' <=> Server(g)
            /\ Logging(g)' <=> Logging(g)
            /\ Fresh(g)' <=> Fresh(g)
            /\ HomeOf(g)' = HomeOf(g)
            /\ InCall(g, {"sinks"}) => InCall(g, {"sinks"})'
            /\ InCall(g, ToWipe) => InCall(g, ToWipe)'
            /\ InCall(g, ToFinish) => InCall(g, ToFinish)'
            /\ g # d.of /\ (\A b \in calls' : b.of # g) => (\A b \in calls : b.of # g)
  BY <1>1, <1>4 DEF Fresh, Server, Logging, HomeOf, InCall, ToWipe, ToFinish
<1>6. \A b \in calls : b.of \in Handle
  BY DEF LifecycleInv, LifecycleTypes, CallRecord
<1>7. LifecycleTypes' /\ HomesSound'
  BY <1>1, <1>4 DEF LifecycleInv, LifecycleTypes, HomesSound, Loaded
<1>8. HandlesSound'
  BY <1>1, <1>4, <1>5 DEF LifecycleInv, HandlesSound, Loaded
<1>9. SlotsSound' /\ TargetsSound'
  BY <1>1, <1>4, <1>5 DEF LifecycleInv, SlotsSound, TargetsSound
<1>10. ServersActive' /\ CallsSound'
  BY <1>1, <1>4, <1>5, <1>6 DEF LifecycleInv, ServersActive, CallsSound
<1>11. Tidy' => OrderlySound'
  <2>1. Tidy' => Tidy
    BY <1>4 DEF Tidy, StartedHandles
  <2> QED
    BY <1>1, <1>4, <1>5, <1>6, <2>1 DEF LifecycleInv, OrderlySound
<1> QED
  BY <1>7, <1>8, <1>9, <1>10, <1>11 DEF LifecycleInv

LEMMA LifecycleInvSteps == LifecycleInv /\ [LifecycleNext]_lifecycleVars => LifecycleInv'
<1>1. ASSUME LifecycleInv, LifecycleNext PROVE LifecycleInv'
  <2>1. UNCHANGED layout /\ LifecycleSteps
    BY <1>1 DEF LifecycleNext
  <2> QED
    BY <1>1, <2>1, LoadSteps, InitServerSteps, InitLoggingSteps, LogSteps, CaptureSteps, AutoFlushSteps,
       ShutdownServerSteps, ShutdownLoggingSteps, CloseSinksSteps, WipeLoggerSteps, FinishServerSteps,
       CloseProvidersSteps DEF LifecycleSteps
<1>2. ASSUME LifecycleInv, UNCHANGED lifecycleVars PROVE LifecycleInv'
  <2>1. /\ \A g \in Handle : \A ats : InCall(g, ats)' <=> InCall(g, ats)
        /\ \A g \in Handle : HomeOf(g)' = HomeOf(g)
    BY <1>2 DEF lifecycleVars, InCall, HomeOf
  <2> QED
    BY SMTT(40), <1>2, <2>1
    DEF lifecycleVars, LifecycleInv, LifecycleTypes, HomesSound, HandlesSound, SlotsSound, TargetsSound,
        ServersActive, CallsSound, OrderlySound, Tidy, StartedHandles, Loaded, Server, Logging, Fresh, HomeOf
<1> QED
  BY <1>1, <1>2

(* The invariant of start and stop (lifecycle.ts). *)
THEOREM LifecycleInvariant == LifecycleSpec => []LifecycleInv
<1> QED
  BY LifecycleStarts, LifecycleInvSteps, PTL DEF LifecycleSpec

LEMMA LifecycleHolds ==
    LifecycleInv => ReachesStarted /\ RunningIsWired /\ ShutdownLeavesNothing
<1> SUFFICES ASSUME LifecycleInv PROVE ReachesStarted /\ RunningIsWired /\ ShutdownLeavesNothing
  OBVIOUS
<1>1. Orderly => Tidy /\ OrderlySound
  BY OrderlyIsTidy DEF LifecycleInv
<1>2. ASSUME NEW h \in Handle, Running(h), NEW c \in SharedWith(h)
      PROVE  home[c] = HomeOf(h) /\ HomeOf(h) \in Copy
  BY <1>2, HomesOfHandles DEF Running, SharedWith, LifecycleInv, HomesSound, HomeOf
<1>3. ReachesStarted
  <2>1. ASSUME NEW h \in Handle, Running(h), Server(h), NEW c \in SharedWith(h) PROVE Reporter(c) = h
    BY <1>2, <2>1, HandleFacts DEF LifecycleInv, ServersActive, Running, Fresh, Reporter, Slot
  <2>2. ASSUME Orderly, NEW h \in Handle, Running(h), NEW c \in SharedWith(h) PROVE Reporter(c) = h
    <3>1. CASE Server(h)
      BY <2>1, <2>2, <3>1
    <3>2. CASE ~Server(h)
      <4>1. Logging(h)
        BY <2>2, <3>2 DEF LifecycleInv, LifecycleTypes, HandleRecord, Running, Server, Logging
      <4>2. slots[HomeOf(h)].loggerOnly = h
        BY <1>1, <2>2, <4>1 DEF OrderlySound, Running, Fresh
      <4>3. slots[HomeOf(h)].server \notin Handle
        BY <1>1, <1>2, <2>2, <4>1 DEF LifecycleInv, SlotsSound, Tidy, StartedHandles, Server, Logging
      <4>4. slots[HomeOf(h)].server = None
        BY <1>2, <2>2, <4>3 DEF LifecycleInv, LifecycleTypes, SlotRecord, MaybeHandle
      <4> QED
        BY <1>2, <2>2, <4>2, <4>4 DEF Reporter, Slot
    <3> QED
      BY <3>1, <3>2
  <2>3. ASSUME Orderly, NEW h \in Handle, "crash" \in handles[h].listeners,
               NEW g \in Handle \ {h}, "crash" \in handles[g].listeners
        PROVE  HomeOf(g) # HomeOf(h)
    <3>1. handles[g].kind = handles[h].kind /\ handles[h].kind \in {"server", "logging"}
      BY <1>1, <2>3 DEF LifecycleInv, LifecycleTypes, HandleRecord, HandlesSound, Tidy, StartedHandles
    <3>2. CASE Server(h)
      BY <2>3, <3>1, <3>2 DEF LifecycleInv, ServersActive, Server
    <3>3. CASE Logging(h)
      BY <2>3, <3>1, <3>3, <1>1 DEF LifecycleInv, HandlesSound, Logging, OrderlySound
    <3> QED
      BY <3>1, <3>2, <3>3 DEF Server, Logging
  <2> QED
    BY <2>1, <2>2, <2>3 DEF ReachesStarted, Server
<1>4. RunningIsWired
  BY <1>1 DEF RunningIsWired, OrderlySound, Running, Server, Fresh
<1>5. ShutdownLeavesNothing
  <2> SUFFICES ASSUME NEW h \in Handle, Ended(h)
               PROVE  /\ handles[h].listeners = {}
                      /\ \A c \in Copy : h \notin {slots[c].server, slots[c].logging,
                                                   slots[c].loggerOnly, slots[c].sinks,
                                                   targets[c].server, targets[c].logging}
                      /\ Orderly /\ Server(h) => handles[h].logs = 0 /\ handles[h].spans = 0
    BY DEF ShutdownLeavesNothing, Server
  <2>1. ~Fresh(h) /\ (\A ats : ~InCall(h, ats)) /\ \A d \in calls : d.of # h
    BY LifecycleAssumption DEF Ended, Fresh, InCall
  <2>2. ASSUME NEW c \in Copy
        PROVE  h \notin {slots[c].server, slots[c].logging, slots[c].loggerOnly, slots[c].sinks,
                         targets[c].server, targets[c].logging}
    BY <2>1 DEF LifecycleInv, SlotsSound, TargetsSound
  <2>3. handles[h].listeners = {}
    <3>1. CASE Server(h)
      BY <3>1, HomesOfHandles, <2>2 DEF Server, LifecycleInv, ServersActive
    <3>2. CASE ~Server(h)
      BY <2>1, <3>2 DEF LifecycleInv, LifecycleTypes, HandleRecord, HandlesSound, Server, Logging
    <3> QED
      BY <3>1, <3>2
  <2>4. Orderly /\ Server(h) => handles[h].logs = 0 /\ handles[h].spans = 0
    BY <1>1, <2>1 DEF OrderlySound, LifecycleInv, HandlesSound
  <2> QED
    BY <2>2, <2>3, <2>4
<1> QED
  BY <1>3, <1>4, <1>5

-----------------------------------------------------------------------------
(***************************************************************************)
(* The parts share no state, so what holds of one holds in the instance.     *)
(***************************************************************************)
THEOREM SdkPartsRunAlone ==
    SdkSpec => /\ RejectionSpec /\ LlmSpec /\ CompatSpec /\ PatchesSpec
               /\ HandledSpec /\ NextErrorsSpec /\ OperationSpec /\ LifecycleSpec
               /\ RetentionSpec /\ PythonSpec
<1>1. SdkInit => /\ RejectionInit /\ LlmInit /\ CompatInit /\ PatchesInit
                 /\ HandledInit /\ NextErrorsInit /\ OperationInit /\ LifecycleInit
                 /\ RetentionInit /\ PyInit
  BY DEF SdkInit
<1>2. [SdkNext]_sdkVars => [RejectionNext]_rejectionVars
  BY DEF SdkNext, Rests, sdkVars
<1>3. [SdkNext]_sdkVars => [LlmNext]_llmVars
  BY DEF SdkNext, Rests, sdkVars
<1>4. [SdkNext]_sdkVars => [CompatNext]_compatVars
  BY DEF SdkNext, Rests, sdkVars
<1>5. [SdkNext]_sdkVars => [PatchesNext]_patchVars
  BY DEF SdkNext, Rests, sdkVars
<1>6. [SdkNext]_sdkVars => [HandledNext]_handledVars
  BY DEF SdkNext, Rests, sdkVars
<1>7. [SdkNext]_sdkVars => [NextErrorsNext]_nextVars
  BY DEF SdkNext, Rests, sdkVars
<1>8. [SdkNext]_sdkVars => [OperationNext]_operationVars
  BY DEF SdkNext, Rests, sdkVars
<1>9. [SdkNext]_sdkVars => [LifecycleNext]_lifecycleVars
  BY DEF SdkNext, Rests, sdkVars
<1>10. [SdkNext]_sdkVars => [RetentionNext]_retentionVars
  BY DEF SdkNext, Rests, sdkVars
<1>11. [SdkNext]_sdkVars => [PyNext]_pyVars
  BY DEF SdkNext, Rests, sdkVars
<1> QED
  BY <1>1, <1>2, <1>3, <1>4, <1>5, <1>6, <1>7, <1>8, <1>9, <1>10, <1>11, PTL
  DEF SdkSpec, RejectionSpec, LlmSpec, CompatSpec, PatchesSpec, HandledSpec, NextErrorsSpec, OperationSpec,
      LifecycleSpec, RetentionSpec, PythonSpec

(* The process crashes on an unhandled rejection when Node alone would crash  *)
(* it, and an occurrence is recorded once (unhandled-rejections.ts), for any  *)
(* copies, listeners and mode.                                               *)
THEOREM RejectionsStayAsNode == SdkSpec => []RejectionsAsNode
<1>1. RejectionInv => RejectionsAsNode
  BY RejectionHolds DEF RejectionsAsNode, Of
<1> QED
  BY <1>1, SdkPartsRunAlone, RejectionInvariant, PTL

(* The span of an LLM call ends once, what is rolled up is what it says, and  *)
(* the totals of an operation are those of its calls (llm.ts,                *)
(* llm-instrument.ts), for any calls, usages and streams.                    *)
THEOREM TokensStayCounted == SdkSpec => []TokensCountedOnce
<1>1. LlmInv => TokensCountedOnce
  BY LlmHolds
<1> QED
  BY <1>1, SdkPartsRunAlone, LlmInvariant, PTL

(* A warning names what some ingester of the deployment lacked, by a route    *)
(* only while no version is known, and by its schema only if one of the      *)
(* version needed has run, in whatever order the answers come in and         *)
(* whichever are lost (compat.ts), for any features, routes and versions.    *)
THEOREM WarningsStayProven == SdkSpec => []WarningsAreProven
<1>1. CompatInv => WarningsAreProven
  BY DEF CompatInv
<1> QED
  BY <1>1, SdkPartsRunAlone, CompatInvariant, PTL

(* No error line of a source that is on goes by unseen but for an ES module    *)
(* imported since the last scan, and neither a log line nor a boundary       *)
(* reports an error that some path has (caught-errors.ts, captured.ts), for  *)
(* any loggers, errors and limits.                                           *)
THEOREM LoggedErrorsStayReported == SdkSpec => []LoggedErrorsReported
<1>1. PatchesInv /\ ReportInv => LoggedErrorsReported
  BY DEF PatchesInv, ReportInv, LoggedErrorsReported, Of
<1> QED
  BY <1>1, SdkPartsRunAlone, PatchesInvariant, ReportInvariant, PTL

(* Every error the burst limit leaves out is counted by one record or tail,    *)
(* and no count waits longer than its token (handled.ts, caught-errors.ts),  *)
(* for any errors, burst, refill and number of kinds.                        *)
THEOREM HandledStaysCounted == SdkSpec => []HandledCounted
<1>1. HeldInv => HandledCounted
  BY HeldHolds DEF HandledCounted, Of
<1> QED
  BY <1>1, SdkPartsRunAlone, HeldInvariant, PTL

(* The errors of a Next.js app reach one report each, and the flush of every  *)
(* request is handed to Next once it can be (runtime-next), for any routes,  *)
(* wrappers, rules and errors.                                               *)
THEOREM NextErrorsStayHandled == SdkSpec => []NextErrorsHandled
<1>1. NextErrorsInv => NextErrorsHandled
  BY NextErrorsHold DEF NextErrorsHandled, Of
<1> QED
  BY <1>1, SdkPartsRunAlone, NextErrorsInvariant, PTL

(* An operation has one summary, after its lines, with the request and the   *)
(* outcome that belong to it, and its failure is reported once (logger.ts),  *)
(* for any operations, errors and number of lines.                           *)
THEOREM OperationsStaySummed == SdkSpec => []OperationsSummed
<1>1. OperationInv => OperationsSummed
  BY OperationHolds DEF OperationsSummed, Of
<1> QED
  BY <1>1, SdkPartsRunAlone, OperationInvariant, PTL

(* A start, a stop and a flush through any copy act on what the copies of one  *)
(* process share, and when the calls are over nothing of them is left        *)
(* (lifecycle.ts, register.ts), for any copies, listeners and options.       *)
THEOREM CopiesStayOne == SdkSpec => []CopiesActAsOne
<1>1. LifecycleInv => CopiesActAsOne
  BY LifecycleHolds DEF CopiesActAsOne, Of
<1> QED
  BY <1>1, SdkPartsRunAlone, LifecycleInvariant, PTL

(* Of every span that sampling left out, the Node SDK and the Python adapter    *)
(* know one place: it waits for its trace, is on its way out, was exported    *)
(* once or was dropped, whatever was evicted, swept or promoted and whichever *)
(* thread or process ended it; and an error is exported with what its trace   *)
(* kept, captured exceptions too, where traces are retained on error         *)
(* (trace-retention.ts, autter_tracing.py).                                 *)
THEOREM SpansStayKept ==
    ASSUME RetainErrors
    PROVE  SdkSpec => []SpansKept
<1>1. RetentionInv => SpansInOnePlace /\ ExceptionsExported
  BY RetentionHolds
<1>2. PyInv => PySpansInOnePlace /\ PyErrorsExported
  BY PythonHolds
<1>3. RetentionInv /\ PyInv => SpansKept
  BY <1>1, <1>2 DEF SpansKept, Of
<1> QED
  BY <1>3, SdkPartsRunAlone, RetentionInvariant, PythonInvariant, PTL

(* Whether or not traces are retained on error, no unsampled span is in two    *)
(* places or in none (trace-retention.ts).                                  *)
THEOREM SpansStayInOnePlace == SdkSpec => [](SpansInOnePlace /\ PySpansInOnePlace)
<1>1. RetentionInv /\ PyInv => SpansInOnePlace /\ PySpansInOnePlace
  BY RetentionHolds, PythonHolds
<1> QED
  BY <1>1, SdkPartsRunAlone, RetentionInvariant, PythonInvariant, PTL

(* The types of the parts, with the bounds of the limiter's kinds, of what an  *)
(* operation emits and reports, and of the retention buffers.                *)
THEOREM SdkTypesStay == SdkSpec => []SdkTypeOK
<1> DEFINE Sound == /\ RejectionInv /\ LlmInv /\ CompatInv /\ PatchesInv /\ LifecycleInv
                    /\ ReportInv /\ HeldInv /\ HandledRest /\ NextErrorsInv /\ PagesSound
                    /\ OperationInv /\ OperationBounds /\ RetentionInv /\ PyInv
<1>1. SdkSpec => []Sound
  BY SdkPartsRunAlone, RejectionInvariant, LlmInvariant, CompatInvariant, PatchesInvariant, LifecycleInvariant,
     ReportInvariant, HeldInvariant, HandledTypes, NextErrorsInvariant, PagesInvariant, OperationInvariant,
     BoundsInvariant, RetentionInvariant, PythonInvariant, PTL
<1>2. Sound => SdkTypeOK
  <2> SUFFICES ASSUME Sound PROVE SdkTypeOK
    OBVIOUS
  <2>1. HandledTypeOK /\ NextErrorsTypeOK /\ OperationTypeOK
    BY HandledTypesHold, NextErrorsTyped, OperationTyped
  <2>2. RetentionTypeOK /\ PyTypeOK
    BY RetentionHolds, PythonHolds
  <2>3. RejectionTypeOK /\ PatchesTypeOK
    BY DEF RejectionInv, PatchesInv
  <2>4. LifecycleTypeOK
    BY DEF LifecycleInv, LifecycleTypes, SlotRecord, TargetRecord, HandleRecord, CallRecord, LifecycleTypeOK
  <2>5. CompatTypeOK
    BY DEF CompatInv, CompatTypes, CompatState, Info, RouteTable, Asked, CompatTypeOK
  <2>6. LlmTypeOK
    BY DEF LlmInv, LlmTypes, Usage, CallStates, TotalsSound, LlmTypeOK
  <2> QED
    BY <2>1, <2>2, <2>3, <2>4, <2>5, <2>6 DEF SdkTypeOK, Of
<1> QED
  BY <1>1, <1>2, PTL
=============================================================================
