----------------------------- MODULE ClientsProofs -----------------------------
(***************************************************************************)
(* Proofs about the clients, each part on its own and then as a part of the    *)
(* instance: what a visitor may send through the relay and how calls are      *)
(* answered; what reports an error on the edge and what becomes of its       *)
(* records; when a page's events leave it, in batches of what size; what     *)
(* setup leaves of a project; what a build leaves of its maps.  For any       *)
(* visitors, requests, errors, bundles, projects, limits and budgets.         *)
(***************************************************************************)
EXTENDS MCClients, SequenceTheorems, SumLemmas, TLAPS

RelaySpec == RelayInit /\ [][RelayNext]_relayVars

(* Where a call stands, and what it was answered.                            *)
CallSound(c) ==
    /\ relay[c].st = "idle" => answers[c] = <<>> /\ ~relay[c].aborted
    /\ relay[c].st = "reading" /\ ~relay[c].aborted => answers[c] = <<>>
    /\ relay[c].st = "reading" /\ relay[c].aborted => answers[c] = <<413>> /\ handler = "node"
    /\ relay[c].st = "done" => \E status \in {202, 400, 405, 413, 429} : answers[c] = <<status>>
    /\ c \in forwarded <=> answers[c] = <<202>>

(* What a visitor's window has counted in this minute.                       *)
Spent(v) == IF FreshWindow(v) THEN 0 ELSE windows[v].count
PassedIsSpent ==
    \A v \in Visitor :
        admitted[v] <= PerIpLimit * clears + (IF Spent(v) <= PerIpLimit THEN Spent(v) ELSE PerIpLimit)

RelayInv ==
    /\ RelayTypeOK /\ PassedIsSpent /\ \A c \in RelayCall : CallSound(c)

-----------------------------------------------------------------------------
(* Right to left past the own hops, the first address is the last one before *)
(* them.                                                                     *)
LEMMA RightmostIs ==
    ASSUME NEW entries, NEW n \in DOMAIN entries, DOMAIN entries \subseteq Nat, NEW v \in Visitor, NEW otherwise,
           entries[n] = v, \A j \in DOMAIN entries : j > n => entries[j] = Hop
    PROVE  RightmostPublic(entries, otherwise) = v
<1> DEFINE public == {i \in DOMAIN entries : entries[i] # Hop}
           i == CHOOSE x \in public : \A j \in public : j <= x
<1>1. n \in public /\ \A j \in public : j <= n
  BY RelayAssumption
<1>2. i \in public /\ \A j \in public : j <= i
  <2> HIDE DEF public
  <2> QED
    BY <1>1
<1>3. i = n
  BY <1>1, <1>2
<1> QED
  BY <1>1, <1>3 DEF RightmostPublic

(* A claim is empty or one address. *)
LEMMA ClaimFacts ==
    ASSUME NEW claim \in Claims
    PROVE  claim \in Seq(Address) /\ Len(claim) \in {0, 1}
<1>1. CASE claim = <<>>
  BY <1>1, EmptySeq
<1>2. CASE claim # <<>>
  <2>1. PICK a \in Address : claim = <<a>>
    BY <1>2 DEF Claims
  <2> QED
    BY <2>1
<1> QED
  BY <1>1, <1>2

(* Of what a proxy wrote, the visitor is the last address before own hops,   *)
(* and the very last where hops are counted.                                 *)
LEMMA ProxiedFacts ==
    ASSUME NEW v \in Visitor, NEW entries \in Proxied(v)
    PROVE  /\ \A otherwise : RightmostPublic(entries, otherwise) = v
           /\ entries # <<>>
           /\ trust = "hops" => Last(entries) = v
<1>1. PICK claim \in Claims, hops \in {<<>>} \cup (IF trust = "hops" THEN {} ELSE {<<Hop>>}) :
        entries = claim \o <<v>> \o hops
  BY DEF Proxied
<1>2. claim \in Seq(Address) /\ Len(claim) \in {0, 1} /\ hops \in Seq(Address) /\ <<v>> \in Seq(Address)
  <2>1. v \in Address /\ Hop \in Address
    BY DEF Address
  <2>2. hops = <<>> \/ hops = <<Hop>>
    OBVIOUS
  <2>3. <<>> \in Seq(Address)
    BY EmptySeq
  <2>4. hops \in Seq(Address)
    <3>1. CASE hops = <<>>
      BY <2>3, <3>1, Zenon
    <3>2. CASE hops = <<Hop>>
      BY <2>1, <3>2
    <3> QED
      BY <2>2, <3>1, <3>2
  <2>5. <<v>> \in Seq(Address)
    BY <2>1
  <2> QED
    BY <2>4, <2>5, ClaimFacts
<1> DEFINE n == Len(claim) + 1
           first == claim \o <<v>>
<1>3. /\ first \in Seq(Address) /\ Len(first) = n /\ first[n] = v
  BY <1>2
<1> HIDE DEF first
<1>4. /\ entries \in Seq(Address) /\ Len(entries) = n + Len(hops)
      /\ entries[n] = v /\ n \in 1..Len(entries) /\ \A j \in n + 1..Len(entries) : entries[j] = hops[j - n]
  BY <1>1, <1>2, <1>3 DEF first
<1>5. Len(hops) \in {0, 1} /\ (Len(hops) = 1 => hops[1] = Hop) /\ (trust = "hops" => Len(hops) = 0)
  BY <1>1
<1>6. \A j \in DOMAIN entries : j > n => entries[j] = Hop
  <2> SUFFICES ASSUME NEW j \in 1..Len(entries), j > n PROVE entries[j] = Hop
    BY <1>4
  <2>1. Len(hops) = 1 /\ j = n + 1
    BY SMTT(40), <1>2, <1>4, <1>5
  <2> QED
    BY <1>4, <1>5, <2>1
<1>7. \A otherwise : RightmostPublic(entries, otherwise) = v
  BY <1>4, <1>6, RightmostIs
<1>8. trust = "hops" => Last(entries) = v
  BY <1>4, <1>5 DEF Last
<1> QED
  BY <1>4, <1>7, <1>8

(* The address a limit counts is the visitor's own, whatever he claims.      *)
LEMMA KeyIsVisitor ==
    ASSUME NEW v \in Visitor
    PROVE  /\ \A arrival \in Arrivals(v) : ClientKey(arrival.peer, arrival.entries) = v
           /\ \A entries \in Proxied(v) : FetchKey(entries) = v
  BY ProxiedFacts, RelayAssumption DEF FetchKey, ClientKey, Arrivals
(* The relay's invariant holds at the start. *)
LEMMA RelayStart == RelayInit => RelayInv
<1> SUFFICES ASSUME RelayInit PROVE RelayInv
  OBVIOUS
<1> USE RelayAssumption
<1>1. <<>> \in Seq({202, 400, 405, 413, 429}) /\ \A n : <<>> # <<n>>
  OBVIOUS
<1>2. RelayTypeOK
  BY <1>1 DEF RelayInit, RelayCallType, RelayTypeOK
<1>3. PassedIsSpent
  BY DEF RelayInit, Spent, FreshWindow, Address, PassedIsSpent
<1>4. \A c \in RelayCall : CallSound(c)
  BY <1>1 DEF RelayInit, CallSound
<1> QED
  BY <1>2, <1>3, <1>4 DEF RelayInv

(* The first answer of a call, and other calls' answers stay. *)
LEMMA AnswerFacts ==
    ASSUME RelayTypeOK, NEW c \in RelayCall, answers[c] = <<>>,
           NEW status \in {202, 400, 405, 413, 429}, Answer(c, status)
    PROVE  /\ answers' \in [RelayCall -> Seq({202, 400, 405, 413, 429})]
           /\ answers'[c] = <<status>>
           /\ \A d \in RelayCall \ {c} : answers'[d] = answers[d]
  BY DEF RelayTypeOK, Answer

(* A call that is answered for the first time stays sound, and done, or      *)
(* aborted.                                                                  *)
LEMMA CallsStaySound ==
    ASSUME RelayInv, NEW c \in RelayCall, CallSound(c)', UNCHANGED handler,
           \A d \in RelayCall \ {c} :
              /\ relay'[d] = relay[d] /\ answers'[d] = answers[d]
              /\ d \in forwarded' <=> d \in forwarded
    PROVE  \A d \in RelayCall : CallSound(d)'
  BY DEF RelayInv, CallSound

(* A call done with its answer. *)
LEMMA DoneFacts ==
    ASSUME RelayInv, NEW c \in RelayCall, answers[c] = <<>>,
           NEW status \in {202, 400, 405, 413, 429}, Done(c, status),
           \/ status = 202 /\ Forward(c)
           \/ status # 202 /\ UNCHANGED forwarded,
           UNCHANGED handler
    PROVE  /\ answers' \in [RelayCall -> Seq({202, 400, 405, 413, 429})]
           /\ relay' \in [RelayCall -> RelayCallType] /\ forwarded' \subseteq RelayCall
           /\ \A d \in RelayCall : CallSound(d)'
<1>1. /\ answers' \in [RelayCall -> Seq({202, 400, 405, 413, 429})]
      /\ answers'[c] = <<status>>
      /\ \A d \in RelayCall \ {c} : answers'[d] = answers[d]
  BY AnswerFacts DEF Done, RelayInv
<1>2. relay \in [RelayCall -> RelayCallType] /\ forwarded \subseteq RelayCall
  BY DEF RelayInv, RelayTypeOK
<1>3. /\ relay' \in [RelayCall -> RelayCallType]
      /\ relay'[c].st = "done" /\ ~relay'[c].aborted
      /\ \A d \in RelayCall \ {c} : relay'[d] = relay[d]
  BY <1>2 DEF Done, RelayCallType
<1>4. answers[c] # <<202>> /\ (<<status>> = <<202>> <=> status = 202)
  OBVIOUS
<1>5. c \notin forwarded
  BY <1>4 DEF RelayInv, CallSound
<1>6. /\ forwarded' \subseteq RelayCall /\ (c \in forwarded' <=> status = 202)
      /\ \A d \in RelayCall \ {c} : d \in forwarded' <=> d \in forwarded
  BY <1>2, <1>5 DEF Forward
<1>7. CallSound(c)'
  BY <1>1, <1>3, <1>4, <1>6 DEF CallSound
<1> QED
  BY <1>1, <1>3, <1>6, <1>7, CallsStaySound
Capped(n) == IF n <= PerIpLimit THEN n ELSE PerIpLimit

(* What the windows and counts are. *)
LEMMA WindowFacts ==
    ASSUME RelayInv
    PROVE  /\ minute \in Nat /\ clears \in Nat /\ admitted \in [Visitor -> Nat]
           /\ PerIpLimit * clears \in Nat
           /\ PerIpLimit * (clears + 1) = PerIpLimit * clears + PerIpLimit
           /\ Visitor \subseteq Address
           /\ windows \in [Address -> [start : Nat, count : Nat] \cup {NoWindow}]
           /\ \A v \in Visitor : Spent(v) \in Nat /\ admitted[v] <= PerIpLimit * clears + Capped(Spent(v))
<1> USE RelayAssumption
<1>1. /\ minute \in Nat /\ clears \in Nat /\ admitted \in [Visitor -> Nat]
      /\ windows \in [Address -> [start : Nat, count : Nat] \cup {NoWindow}]
  BY DEF RelayInv, RelayTypeOK
<1>2. Visitor \subseteq Address
  BY DEF Address
<1>3. \A v \in Visitor : Spent(v) \in Nat
  BY <1>1, <1>2 DEF Spent, FreshWindow
<1>4. PerIpLimit * clears \in Nat /\ PerIpLimit * (clears + 1) = PerIpLimit * clears + PerIpLimit
  BY <1>1
<1> QED
  BY <1>1, <1>2, <1>3, <1>4 DEF RelayInv, PassedIsSpent, Capped

(* allow() counts one request of a visitor, or clears the windows first.     *)
LEMMA AllowStep ==
    ASSUME RelayInv, NEW v \in Visitor, Allow(v), UNCHANGED minute,
           \/ admitted' = admitted
           \/ Allowed(v) /\ admitted' = [admitted EXCEPT ![v] = @ + 1]
    PROVE  /\ windows' \in [Address -> [start : Nat, count : Nat] \cup {NoWindow}]
           /\ clears' \in Nat /\ admitted' \in [Visitor -> Nat] /\ PassedIsSpent'
<1> USE RelayAssumption
<1> DEFINE opened == [windows EXCEPT ![v] = [start |-> minute, count |-> 1]]
           full == Cardinality({a \in Address : opened[a] # NoWindow}) > MaxWindows
           Entry == [start : Nat, count : Nat] \cup {NoWindow}
           budget == PerIpLimit * clears
<1>1. /\ minute \in Nat /\ clears \in Nat /\ admitted \in [Visitor -> Nat]
      /\ budget \in Nat /\ PerIpLimit * (clears + 1) = budget + PerIpLimit
      /\ Visitor \subseteq Address /\ windows \in [Address -> Entry]
      /\ \A u \in Visitor : Spent(u) \in Nat /\ admitted[u] <= budget + Capped(Spent(u))
  BY WindowFacts
<1>2. /\ admitted' \in [Visitor -> Nat]
      /\ \A u \in Visitor \ {v} : admitted'[u] = admitted[u]
      /\ admitted'[v] = admitted[v] \/ (admitted'[v] = admitted[v] + 1 /\ (FreshWindow(v) \/ Spent(v) + 1 <= PerIpLimit))
  BY <1>1 DEF Allowed, Spent
<1>3. \/ FreshWindow(v) /\ full /\ windows' = [a \in Address |-> NoWindow] /\ clears' = clears + 1
      \/ FreshWindow(v) /\ ~full /\ windows' = opened /\ clears' = clears
      \/ ~FreshWindow(v) /\ windows' = [windows EXCEPT ![v].count = @ + 1] /\ clears' = clears
  BY DEF Allow
<1> HIDE DEF full, budget
(* The windows are cleared: what was spent is covered by one more limit.     *)
<1>4. CASE FreshWindow(v) /\ full /\ windows' = [a \in Address |-> NoWindow] /\ clears' = clears + 1
  BY <1>1, <1>4, <1>2 DEF Spent, FreshWindow, Capped, PassedIsSpent
<1>5. CASE /\ clears' = clears /\ windows' \in [Address -> Entry]
           /\ \A u \in Visitor \ {v} : windows'[u] = windows[u]
           /\ windows'[v] # NoWindow /\ windows'[v].start = minute
           /\ windows'[v].count = Spent(v) + 1
  BY <1>5, <1>1, <1>2 DEF Spent, FreshWindow, Capped, PassedIsSpent, budget
<1>6. CASE FreshWindow(v) /\ ~full /\ windows' = opened /\ clears' = clears
  BY <1>1, <1>6, <1>5 DEF Spent
<1>7. CASE ~FreshWindow(v) /\ windows' = [windows EXCEPT ![v].count = @ + 1] /\ clears' = clears
  BY <1>1, <1>7, <1>5 DEF Spent, FreshWindow
<1> QED
  BY <1>3, <1>4, <1>6, <1>7
(* A call is a record of its four fields. *)
LEMMA RecordIs ==
    ASSUME NEW x \in RelayCallType
    PROVE  x = [st |-> x.st, got |-> x.got, aborted |-> x.aborted, body |-> x.body]
  BY DEF RelayCallType

(* A call that went past the limit of its body. *)
LEMMA AbortedCall ==
    ASSUME NEW x \in RelayCallType, NEW n \in Nat
    PROVE  [x EXCEPT !.got = n, !.aborted = TRUE]
             = [st |-> x.st, got |-> n, aborted |-> TRUE, body |-> x.body]
<1>1. PICK y : y = [x EXCEPT !.got = n, !.aborted = TRUE]
  OBVIOUS
<1>2. y \in RelayCallType
  BY <1>1 DEF RelayCallType
<1>3. y.st = x.st /\ y.got = n /\ y.aborted = TRUE /\ y.body = x.body
  BY <1>1 DEF RelayCallType
<1>4. y = [st |-> y.st, got |-> y.got, aborted |-> y.aborted, body |-> y.body]
  BY <1>2, RecordIs
<1> QED
  BY <1>1, <1>3, <1>4

(* The windows and counts of a step that leaves them alone. *)
LEMMA WindowsStay ==
    ASSUME RelayInv, UNCHANGED <<minute, windows, admitted, clears>>
    PROVE  PassedIsSpent'
  BY DEF RelayInv, PassedIsSpent, Spent, FreshWindow

(* A request of a visitor that is counted, whichever handler reads its body. *)
LEMMA CountedStep ==
    ASSUME RelayInv, NEW c \in RelayCall, NEW v \in Visitor, NEW parsed \in BOOLEAN,
           Counted(c, v, v, parsed), UNCHANGED <<minute, handler, trust>>
    PROVE  RelayInv'
<1> USE RelayAssumption
<1>1. relay[c].st = "idle" /\ answers[c] = <<>> /\ Allow(v) /\ RelayTypeOK
  BY ZenonT(60) DEF Counted, RelayInv, CallSound
<1>2. \/ admitted' = admitted
      \/ Allowed(v) /\ admitted' = [admitted EXCEPT ![v] = @ + 1]
  BY DEF Counted
<1>3. /\ windows' \in [Address -> [start : Nat, count : Nat] \cup {NoWindow}]
      /\ clears' \in Nat /\ admitted' \in [Visitor -> Nat] /\ PassedIsSpent'
  BY <1>1, <1>2, AllowStep
<1> DEFINE CallsSound ==
             /\ answers' \in [RelayCall -> Seq({202, 400, 405, 413, 429})]
             /\ relay' \in [RelayCall -> RelayCallType] /\ forwarded' \subseteq RelayCall
             /\ \A d \in RelayCall : CallSound(d)'
<1>4. CallsSound
  <2>1. CASE Done(c, 429) /\ UNCHANGED forwarded
    BY <1>1, <2>1, DoneFacts
  <2>2. ASSUME NEW body \in Bodies, HandleParsed(c, body)
        PROVE  CallsSound
    BY <2>2, <1>1, DoneFacts DEF HandleParsed
  <2>3. ASSUME NEW body \in Bodies, relay' = [relay EXCEPT ![c] = [@ EXCEPT !.st = "reading", !.body = body]],
               UNCHANGED <<answers, forwarded>>
        PROVE  CallsSound
    <3>1. relay \in [RelayCall -> RelayCallType] /\ ~relay[c].aborted
      BY <1>1 DEF RelayTypeOK, RelayInv, CallSound
    <3>2. relay'[c] = [relay[c] EXCEPT !.st = "reading", !.body = body]
      BY <2>3, <3>1
    <3>3. relay'[c] \in RelayCallType /\ relay'[c].st = "reading" /\ ~relay'[c].aborted
      <4>1. relay'[c] = [st |-> "reading", got |-> relay[c].got, aborted |-> relay[c].aborted, body |-> body]
        BY <3>1, <3>2, RecordIs
      <4>2. relay[c].got \in Nat /\ body \in {"ok", "invalid"}
        BY <3>1 DEF RelayCallType, Bodies
      <4> QED
        BY <3>1, <4>1, <4>2 DEF RelayCallType
    <3>4. relay' \in [RelayCall -> RelayCallType] /\ \A d \in RelayCall \ {c} : relay'[d] = relay[d]
      BY <2>3, <3>1, <3>3
    <3>5. answers[c] # <<202>>
      BY <1>1
    <3>6. CallSound(c)'
      BY <1>1, <2>3, <3>3, <3>5 DEF CallSound, RelayInv
    <3>7. \A d \in RelayCall : CallSound(d)'
      BY <2>3, <3>4, <3>6, CallsStaySound
    <3> QED
      BY <1>1, <2>3, <3>4, <3>7 DEF RelayTypeOK
  <2> QED
    BY <2>1, <2>2, <2>3 DEF Counted
<1>5. RelayTypeOK'
  BY <1>1, <1>3, <1>4 DEF RelayTypeOK
<1> QED
  BY <1>3, <1>4, <1>5 DEF RelayInv

(* A call is answered and over, and its window is as it was. *)
LEMMA DoneStep ==
    ASSUME RelayInv, NEW c \in RelayCall, answers[c] = <<>>,
           NEW status \in {202, 400, 405, 413, 429}, Done(c, status),
           \/ status = 202 /\ Forward(c)
           \/ status # 202 /\ UNCHANGED forwarded,
           UNCHANGED <<minute, handler, trust, windows, admitted, clears>>
    PROVE  RelayInv'
<1>1. /\ answers' \in [RelayCall -> Seq({202, 400, 405, 413, 429})]
      /\ relay' \in [RelayCall -> RelayCallType] /\ forwarded' \subseteq RelayCall
      /\ \A d \in RelayCall : CallSound(d)'
  BY DoneFacts
<1>2. RelayTypeOK'
  BY <1>1 DEF RelayInv, RelayTypeOK, Address
<1> QED
  BY <1>1, <1>2, WindowsStay DEF RelayInv

(* A call goes on without a new answer, or with the one that aborts it.      *)
LEMMA CallStep ==
    ASSUME RelayInv, NEW c \in RelayCall, NEW new \in RelayCallType,
           relay' = [relay EXCEPT ![c] = new],
           answers' \in [RelayCall -> Seq({202, 400, 405, 413, 429})],
           \A d \in RelayCall \ {c} : answers'[d] = answers[d],
           CallSound(c)',
           UNCHANGED <<minute, handler, trust, windows, forwarded, admitted, clears>>
    PROVE  RelayInv'
  BY CallsStaySound, WindowsStay DEF RelayInv, RelayTypeOK, Address

(* A chunk of a body, for either handler.                                    *)
LEMMA ChunkStep ==
    ASSUME RelayInv, NEW c \in RelayCall, BodyChunk(c) \/ FetchChunk(c)
    PROVE  RelayInv'
<1> USE RelayAssumption
<1> DEFINE got == relay[c].got + 1
<1>1. relay[c] \in RelayCallType /\ relay[c].st = "reading"
  BY DEF RelayInv, RelayTypeOK, BodyChunk, FetchChunk
<1>2. CASE /\ ~relay[c].aborted /\ relay' = [relay EXCEPT ![c] = [@ EXCEPT !.got = got]] /\ UNCHANGED answers
           /\ UNCHANGED <<minute, handler, trust, windows, forwarded, admitted, clears>>
  <2>1. [relay[c] EXCEPT !.got = got] \in RelayCallType
    BY <1>1 DEF RelayCallType
  <2>2. relay'[c] = [relay[c] EXCEPT !.got = got]
    BY <1>2 DEF RelayInv, RelayTypeOK
  <2>3. relay'[c].st = "reading" /\ ~relay'[c].aborted
    BY <1>1, <1>2, <2>2 DEF RelayCallType
  <2>4. CallSound(c)'
    BY <1>1, <1>2, <2>3 DEF RelayInv, CallSound
  <2>5. relay' = [relay EXCEPT ![c] = [relay[c] EXCEPT !.got = got]]
    BY <1>2
  <2>6. answers' \in [RelayCall -> Seq({202, 400, 405, 413, 429})]
    BY <1>2 DEF RelayInv, RelayTypeOK
  <2> QED
    BY <1>2, <2>1, <2>4, <2>5, <2>6, CallStep
<1>3. CASE /\ handler = "node" /\ ~relay[c].aborted /\ Answer(c, 413)
           /\ relay' = [relay EXCEPT ![c] = [@ EXCEPT !.got = got, !.aborted = TRUE]]
           /\ UNCHANGED <<minute, handler, trust, windows, forwarded, admitted, clears>>
  <2>1. [relay[c] EXCEPT !.got = got, !.aborted = TRUE] \in RelayCallType
    <3>1. [relay[c] EXCEPT !.got = got, !.aborted = TRUE]
            = [st |-> relay[c].st, got |-> got, aborted |-> TRUE, body |-> relay[c].body]
      <4>1. got \in Nat
        BY <1>1 DEF RelayCallType
      <4> HIDE DEF got
      <4> QED
        BY <1>1, <4>1, AbortedCall
    <3>2. got \in Nat /\ relay[c].body \in {"ok", "invalid"}
      BY <1>1 DEF RelayCallType
    <3> QED
      BY <1>1, <3>1, <3>2 DEF RelayCallType
  <2>2. relay'[c] = [relay[c] EXCEPT !.got = got, !.aborted = TRUE]
    BY <1>3 DEF RelayInv, RelayTypeOK
  <2>3. relay'[c].st = "reading" /\ relay'[c].aborted
    BY <1>1, <2>2 DEF RelayCallType
  <2>4. answers[c] = <<>>
    BY <1>1, <1>3 DEF RelayInv, CallSound
  <2>5. /\ answers' \in [RelayCall -> Seq({202, 400, 405, 413, 429})]
        /\ answers'[c] = <<413>>
        /\ \A d \in RelayCall \ {c} : answers'[d] = answers[d]
    BY <1>3, <2>4, AnswerFacts DEF RelayInv
  <2>6. <<>> # <<202>> /\ <<413>> # <<202>>
    OBVIOUS
  <2>7. CallSound(c)'
    BY <1>3, <2>3, <2>4, <2>5, <2>6 DEF RelayInv, CallSound
  <2>8. relay' = [relay EXCEPT ![c] = [relay[c] EXCEPT !.got = got, !.aborted = TRUE]]
    BY <1>3
  <2> QED
    BY ZenonT(60), <1>3, <2>1, <2>5, <2>7, <2>8, CallStep
<1>4. CASE /\ ~relay[c].aborted /\ Done(c, 413)
           /\ UNCHANGED <<minute, handler, trust, windows, forwarded, admitted, clears>>
  <2>1. answers[c] = <<>>
    BY <1>1, <1>4 DEF RelayInv, CallSound
  <2> QED
    BY <1>4, <2>1, DoneStep
<1> QED
  BY <1>1, <1>2, <1>3, <1>4 DEF RelayInv, CallSound, BodyChunk, FetchChunk
(* The stream of a body breaks off, before or after its call was aborted.    *)
LEMMA ReadErrorStep == ASSUME RelayInv, NEW c \in RelayCall, ReadError(c) PROVE RelayInv'
<1>1. relay[c] \in RelayCallType /\ relay[c].st = "reading"
  BY DEF RelayInv, RelayTypeOK, ReadError
<1>2. CASE relay[c].aborted
  <2>1. /\ relay' = [relay EXCEPT ![c] = [relay[c] EXCEPT !.st = "done"]] /\ UNCHANGED answers
        /\ UNCHANGED <<minute, handler, trust, windows, forwarded, admitted, clears>>
    BY <1>2 DEF ReadError
  <2>2. [relay[c] EXCEPT !.st = "done"] \in RelayCallType
    BY <1>1 DEF RelayCallType
  <2>3. relay'[c].st = "done"
    BY <1>1, <2>1 DEF RelayInv, RelayTypeOK, RelayCallType
  <2>4. answers[c] = <<413>> /\ answers' \in [RelayCall -> Seq({202, 400, 405, 413, 429})]
    BY <1>1, <1>2, <2>1 DEF RelayInv, RelayTypeOK, CallSound
  <2>5. CallSound(c)'
    BY <2>1, <2>4, <2>3 DEF RelayInv, CallSound
  <2> QED
    BY <2>1, <2>2, <2>4, <2>5, CallStep
<1>3. CASE ~relay[c].aborted
  <2>1. answers[c] = <<>>
    BY <1>1, <1>3 DEF RelayInv, CallSound
  <2> QED
    BY <1>3, <2>1, DoneStep DEF ReadError
<1> QED
  BY <1>2, <1>3

(* Every step keeps the relay's invariant. *)
LEMMA RelayStep == RelayInv /\ [RelayNext]_relayVars => RelayInv'
<1> SUFFICES ASSUME RelayInv, [RelayNext]_relayVars PROVE RelayInv'
  OBVIOUS
<1>1. ASSUME NEW c \in RelayCall, Refuses(c) PROVE RelayInv'
  BY <1>1, DoneStep DEF Refuses, RelayInv, CallSound
<1>2. ASSUME NEW c \in RelayCall, BodyChunk(c) \/ FetchChunk(c) PROVE RelayInv'
  BY <1>2, ChunkStep
<1>3. ASSUME NEW c \in RelayCall, BodyEnds(c) PROVE RelayInv'
  BY <1>3, DoneStep DEF BodyEnds, RelayInv, CallSound, HandleParsed
<1>4. ASSUME NEW c \in RelayCall, ReadError(c) PROVE RelayInv'
  BY <1>4, ReadErrorStep
<1>5. ASSUME NEW c \in RelayCall, NEW v \in Visitor, Receives(c, v) PROVE RelayInv'
  BY <1>5, KeyIsVisitor, CountedStep DEF Receives
<1>6. ASSUME NEW c \in RelayCall, NEW v \in Visitor, FetchReceives(c, v) PROVE RelayInv'
  BY <1>6, KeyIsVisitor, CountedStep DEF FetchReceives
<1>7. CASE MinutePasses
  BY <1>7, RelayAssumption DEF MinutePasses, RelayInv, RelayTypeOK, Address, Spent, FreshWindow,
     PassedIsSpent, CallSound
<1>8. CASE UNCHANGED relayVars
  BY <1>8, WindowsStay DEF relayVars, RelayInv, RelayTypeOK, Address, CallSound
<1> QED
  BY <1>1, <1>2, <1>3, <1>4, <1>5, <1>6, <1>7, <1>8 DEF RelayNext

(* Where calls stand, and what visitors spent of their limit (relay.ts), in  *)
(* every reachable state.                                                    *)
THEOREM RelayInvariant == RelaySpec => []RelayInv
<1>1. RelayInit => RelayInv
  BY RelayStart
<1>2. RelayInv /\ [RelayNext]_relayVars => RelayInv'
  BY RelayStep
<1> QED
  BY <1>1, <1>2, PTL DEF RelaySpec

(* What the invariant says of limits and answers. *)
LEMMA RelayHolds == RelayInv => VisitorLimited /\ AnsweredOnce
<1> SUFFICES ASSUME RelayInv PROVE VisitorLimited /\ AnsweredOnce
  OBVIOUS
<1>1. VisitorLimited
  BY RelayAssumption, WindowFacts DEF RelayInv, RelayTypeOK, Capped, VisitorLimited
<1>2. AnsweredOnce
  <2> SUFFICES ASSUME NEW c \in RelayCall
               PROVE  /\ Len(answers[c]) <= 1 /\ (relay[c].st = "done" => Len(answers[c]) = 1)
                      /\ c \in forwarded <=> 202 \in ToSet(answers[c])
    BY DEF AnsweredOnce
  <2>1. relay[c].st \in {"idle", "reading", "done"} /\ CallSound(c)
    BY DEF RelayInv, RelayTypeOK, RelayCallType
  <2>2. answers[c] = <<>> \/ \E status \in {202, 400, 405, 413, 429} : answers[c] = <<status>>
    BY <2>1 DEF CallSound
  <2>3. Len(answers[c]) <= 1 /\ (relay[c].st = "done" => Len(answers[c]) = 1)
    <3>1. Len(answers[c]) <= 1 /\ (answers[c] # <<>> => Len(answers[c]) = 1)
      <4>1. CASE answers[c] = <<>>
        BY <4>1
      <4>2. CASE answers[c] # <<>>
        <5>1. PICK status : answers[c] = <<status>>
          BY <2>2, <4>2
        <5>2. Len(answers[c]) = 1
          BY <5>1
        <5> QED
          BY <5>2
      <4> QED
        BY <4>1, <4>2
    <3>2. \A n : <<n>> # <<>>
      OBVIOUS
    <3>3. relay[c].st = "done" => answers[c] # <<>>
      BY <2>1, <3>2 DEF CallSound
    <3> QED
      BY <3>1, <3>3
  <2>4. answers[c] = <<202>> <=> 202 \in ToSet(answers[c])
    BY <2>2 DEF ToSet
  <2> QED
    BY <2>1, <2>3, <2>4 DEF CallSound
<1> QED
  BY <1>1, <1>2
-----------------------------------------------------------------------------
(* What reports an error on the edge (EdgeRuntime).                         *)

EdgeSpec == EdgeInit /\ [][EdgeNext]_edgeVars
How == {"log", "capture", "degraded"}

(* An error with a report was seen, and a log is only ever the first report. *)
ReportsInv ==
    /\ edgeReports \in [EdgeError -> Seq(How)]
    /\ \A e \in EdgeError : edgeReports[e] # <<>> => e \in seen
    /\ EdgeLogReportsFirstOnly

(* An error's reports stay, grow by a report that is no log, or begin with a *)
(* log.                                                                      *)
ReportMoves(e) ==
    \/ edgeReports'[e] = edgeReports[e] /\ (e \in seen => e \in seen')
    \/ \E how \in {"capture", "degraded"} : edgeReports'[e] = Append(edgeReports[e], how) /\ e \in seen'
    \/ e \notin seen /\ edgeReports'[e] = Append(edgeReports[e], "log") /\ e \in seen'

(* Such moves keep the invariant. *)
LEMMA ReportsMove ==
    ASSUME ReportsInv, edgeReports' = [e \in EdgeError |-> edgeReports'[e]], \A e \in EdgeError : ReportMoves(e)
    PROVE  ReportsInv'
<1>1. ASSUME NEW e \in EdgeError
      PROVE  /\ edgeReports'[e] \in Seq(How) /\ (edgeReports'[e] # <<>> => e \in seen')
             /\ \A i \in DOMAIN edgeReports'[e] : edgeReports'[e][i] = "log" => i = 1
  <2>1. /\ edgeReports[e] \in Seq(How) /\ (edgeReports[e] # <<>> => e \in seen)
        /\ \A i \in DOMAIN edgeReports[e] : edgeReports[e][i] = "log" => i = 1
    BY DEF ReportsInv, EdgeLogReportsFirstOnly
  <2>2. CASE edgeReports'[e] = edgeReports[e] /\ (e \in seen => e \in seen')
    BY <2>1, <2>2
  <2>3. ASSUME NEW how \in {"capture", "degraded"}, edgeReports'[e] = Append(edgeReports[e], how), e \in seen'
        PROVE  <1>1!2
    BY <2>1, <2>3, AppendProperties DEF How
  <2>4. CASE e \notin seen /\ edgeReports'[e] = Append(edgeReports[e], "log") /\ e \in seen'
    BY <2>1, <2>4 DEF How
  <2> QED
    BY <2>2, <2>3, <2>4 DEF ReportMoves
<1>2. edgeReports' \in [EdgeError -> Seq(How)]
  BY <1>1
<1> QED
  BY <1>1, <1>2 DEF ReportsInv, EdgeLogReportsFirstOnly
(* The errors logged in a tick, and then one that is thrown, if any.         *)
LEMMA LoggedMove ==
    ASSUME ReportsInv, NEW sent, sent \cap seen = {}, NEW e \in EdgeError
    PROVE  edgeReports' = ReportedLogs(sent) /\ seen' = seen \cup sent => ReportMoves(e)
  BY DEF ReportedLogs, ReportMoves

(* Every step moves the reports as it may. *)
LEMMA ReportSteps ==
    ASSUME ReportsInv, [EdgeNext]_edgeVars
    PROVE  ReportsInv'
<1> DEFINE Moves == edgeReports' = [e \in EdgeError |-> edgeReports'[e]] /\ \A e \in EdgeError : ReportMoves(e)
<1>1. edgeReports = [e \in EdgeError |-> edgeReports[e]] /\ edgeReports \in [EdgeError -> Seq(How)]
  BY DEF ReportsInv
<1>2. ASSUME edgeReports' = edgeReports, seen \subseteq seen' PROVE Moves
  BY <1>1, <1>2 DEF ReportMoves
<1>3. ASSUME NEW e \in EdgeError, NEW how \in {"capture", "degraded"}, Reported(e, how), seen' = seen \cup {e} PROVE Moves
  BY <1>1, <1>3 DEF Reported, ReportMoves
<1>4. ASSUME NEW e \in EdgeError, Reported(e, "log"), e \notin seen, seen' = seen \cup {e} PROVE Moves
  BY <1>1, <1>4 DEF Reported, ReportMoves
<1>5. ASSUME NEW sent, sent \cap seen = {}, edgeReports' = ReportedLogs(sent), seen' = seen \cup sent
      PROVE  Moves
  BY <1>5, LoggedMove DEF ReportedLogs
<1>6. ASSUME NEW sent, sent \cap seen = {}, NEW e \in EdgeError \ sent,
             edgeReports' = [ReportedLogs(sent) EXCEPT ![e] = Append(@, "capture")], seen' = seen \cup sent \cup {e}
      PROVE  Moves
  BY <1>6 DEF ReportedLogs, ReportMoves
<1> HIDE DEF Moves
<1>7. ASSUME NEW e \in EdgeError, LateTick(e) PROVE Moves
  BY <1>2, <1>4, <1>7 DEF LateTick, SentAlone
<1>8. ASSUME NEW e \in EdgeError, CapturesOutside(e) PROVE Moves
  BY <1>3, <1>8 DEF CapturesOutside
<1>9. ASSUME NEW e \in EdgeError, DegradesOutside(e) PROVE Moves
  BY <1>2, <1>3, <1>9 DEF DegradesOutside, SentAlone
<1>10. ASSUME NEW r \in EdgeRequest, NEW e \in EdgeError, CapturesInRequest(r, e) \/ DegradesInRequest(r, e) PROVE Moves
  BY <1>2, <1>3, <1>10 DEF CapturesInRequest, DegradesInRequest, Captured
<1>11. ASSUME NEW r \in EdgeRequest, TickEnds(r) PROVE Moves
  <2>1. PICK sent \in SUBSET Unreported(edge[r]) : edgeReports' = ReportedLogs(sent) /\ seen' = seen \cup sent
    BY <1>11 DEF TickEnds
  <2>2. sent \cap seen = {}
    BY DEF Unreported
  <2> QED
    BY <1>5, <2>1, <2>2
<1>12. ASSUME NEW r \in EdgeRequest, Finishes(r) PROVE Moves
  <2>1. PICK sent \in SUBSET Unreported(edge[r]) :
            \/ edgeReports' = ReportedLogs(sent) /\ seen' = seen \cup sent
            \/ \E e \in EdgeError \ (edge[r].captured \cup sent) :
                  /\ edgeReports' = [ReportedLogs(sent) EXCEPT ![e] = Append(@, "capture")]
                  /\ seen' = seen \cup sent \cup {e}
    BY <1>12 DEF Finishes
  <2>2. sent \cap seen = {}
    BY DEF Unreported
  <2> QED
    BY <1>5, <1>6, <2>1, <2>2
<1>13. ASSUME UNCHANGED <<edgeReports, seen>> PROVE Moves
  BY <1>13, <1>2
<1>14. Moves
  BY <1>7, <1>8, <1>9, <1>10, <1>11, <1>12, <1>13 DEF EdgeNext, PostSettles, LoopEnds, WaitOver, FlushCalled, Opens,
     Warns, LogsOutside, LogsInRequest, errorVars, edgeVars
<1> QED
  BY <1>14, ReportsMove DEF Moves
(* Nothing was reported at first. *)
LEMMA ReportsStart == EdgeInit => ReportsInv
<1> SUFFICES ASSUME EdgeInit PROVE ReportsInv
  OBVIOUS
<1>1. <<>> \in Seq(How) /\ DOMAIN <<>> = {}
  OBVIOUS
<1>2. edgeReports = [e \in EdgeError |-> <<>>]
  BY DEF EdgeInit
<1> QED
  BY <1>1, <1>2 DEF ReportsInv, EdgeLogReportsFirstOnly

(* On the edge an error is reported by its log only if nothing reported it   *)
(* before, whatever requests, ticks and captures interleave (index.ts).      *)
THEOREM EdgeLogsReportFirst == EdgeSpec => []EdgeLogReportsFirstOnly
<1>1. ReportsInv => EdgeLogReportsFirstOnly
  BY DEF ReportsInv
<1> QED
  BY <1>1, ReportsStart, ReportSteps, PTL DEF EdgeSpec

-----------------------------------------------------------------------------
(* What the edge exporter keeps (EdgeRuntime).                               *)

(* The elements of a sequence. *)
LEMMA InSequence ==
    ASSUME NEW S, NEW q \in Seq(S)
    PROVE  /\ Len(q) \in Nat /\ DOMAIN q = 1 .. Len(q) /\ ToSet(q) \subseteq S /\ IsFiniteSet(ToSet(q))
           /\ \A x : x \in ToSet(q) <=> \E i \in 1 .. Len(q) : q[i] = x
<1>1. Len(q) \in Nat /\ DOMAIN q = 1 .. Len(q) /\ \A i \in 1 .. Len(q) : q[i] \in S
  OBVIOUS
<1>2. \A x : x \in ToSet(q) <=> \E i \in 1 .. Len(q) : q[i] = x
  BY <1>1 DEF ToSet, Range
<1>3. IsFiniteSet(1 .. Len(q))
  BY <1>1, FS_Interval
<1>4. q \in Surjection(1 .. Len(q), ToSet(q))
  BY <1>1, <1>2 DEF Surjection
<1>5. IsFiniteSet(ToSet(q))
  BY <1>3, <1>4, FS_Surjection
<1> QED
  BY <1>1, <1>2, <1>5

(* What a record weighs, and the bytes of a queue as the sum of its records. *)
BytesIn == [x \in Record |-> Bytes(x)]
(* The bytes of a queue are that sum.                                        *)
LEMMA BytesTotal ==
    ASSUME NEW q \in Seq(Record)
    PROVE  BytesIn \in [Record -> Nat] /\ BytesOf(q) = SumAlong(q, BytesIn)
<1> DEFINE n == Len(q)
           w == [i \in 1 .. n |-> Bytes(q[i])]
<1>1. DOMAIN q = 1 .. n /\ \A i \in 1 .. n : q[i] \in Record
  OBVIOUS
<1>2. BytesIn \in [Record -> Nat]
  BY DEF BytesIn, Bytes
<1>3. BytesOf(q) = SetSum(w, 1 .. n)
  <2>1. BytesOf(q) = SetSum([i \in DOMAIN q |-> Bytes(q[i])], DOMAIN q)
    BY ZenonT(60) DEF BytesOf, FoldSeq, FoldFunction, FoldFunctionOnSet, MapThenFoldSet, SetSum, SetSums, SumStep, AnyOf
  <2> QED
    BY <1>1, <2>1
<1>4. w = [i \in 1 .. n |-> BytesIn[q[i]]]
  BY <1>1 DEF BytesIn
<1> HIDE DEF w
<1> QED
  BY <1>2, <1>3, <1>4 DEF SumAlong

(* Bytes of queues with one record more, one less, and of what is left. *)
LEMMA BytesMove ==
    ASSUME NEW q \in Seq(Record)
    PROVE  /\ BytesOf(q) \in Nat /\ BytesOf(<<>>) = 0
           /\ \A x \in Record : BytesOf(Append(q, x)) = BytesOf(q) + Bytes(x) /\ Bytes(x) \in Nat
           /\ \A k \in 1 .. Len(q) : BytesOf(RemoveAt(q, k)) <= BytesOf(q)
           /\ \A k \in 0 .. Len(q) : BytesOf(SubSeq(q, k + 1, Len(q))) <= BytesOf(q)
<1>1. BytesIn \in [Record -> Nat] /\ \A s \in Seq(Record) : BytesOf(s) = SumAlong(s, BytesIn)
  BY BytesTotal
<1>2. /\ SumAlong(q, BytesIn) \in Nat /\ SumAlong(<<>>, BytesIn) = 0
      /\ \A x \in Record : SumAlong(Append(q, x), BytesIn) = SumAlong(q, BytesIn) + BytesIn[x]
      /\ \A k \in 1 .. Len(q) : SumAlong(RemoveAt(q, k), BytesIn) <= SumAlong(q, BytesIn)
      /\ \A k \in 0 .. Len(q) : SumAlong(SubSeq(q, k + 1, Len(q)), BytesIn) <= SumAlong(q, BytesIn)
  BY <1>1, SumAlongMoves
<1>3. \A x \in Record : Bytes(x) \in Nat /\ BytesIn[x] = Bytes(x)
  BY DEF Bytes, BytesIn
<1>4. BytesOf(q) \in Nat /\ BytesOf(<<>>) = 0
  <2>1. <<>> \in Seq(Record)
    OBVIOUS
  <2> QED
    BY <1>1, <1>2, <2>1
<1>5. ASSUME NEW x \in Record PROVE BytesOf(Append(q, x)) = BytesOf(q) + Bytes(x)
  <2>1. Append(q, x) \in Seq(Record)
    OBVIOUS
  <2> QED
    BY <1>1, <1>2, <1>3, <2>1
<1>6. ASSUME NEW k \in 1 .. Len(q) PROVE BytesOf(RemoveAt(q, k)) <= BytesOf(q)
  BY RemoveAtFacts, <1>1, <1>2
<1>7. ASSUME NEW k \in 0 .. Len(q) PROVE BytesOf(SubSeq(q, k + 1, Len(q))) <= BytesOf(q)
  <2>1. SubSeq(q, k + 1, Len(q)) \in Seq(Record)
    OBVIOUS
  <2> QED
    BY <1>1, <1>2, <2>1
<1> QED
  BY <1>3, <1>4, <1>5, <1>6, <1>7

(* One queue has no more than another: no records of its own, no repeats, no *)
(* more bytes.                                                              *)
Lessens(r, q) ==
    /\ r \in Seq(Record) /\ ToSet(r) \subseteq ToSet(q) /\ Len(r) <= Len(q)
    /\ BytesOf(r) <= BytesOf(q) /\ (Injective(q) => Injective(r))

(* The eviction of the oldest plain record, where the queue is full.        *)
LEMMA EvictsOne ==
    ASSUME NEW q \in Seq(Record), NEW bytes
    PROVE  /\ Lessens(EvictOldest(q, bytes), q)
           /\ \/ Len(EvictOldest(q, bytes)) = Len(q) - 1
              \/ EvictOldest(q, bytes) = q /\ (~Full(q, bytes) \/ Plain(q) = {})
<1>1. Len(q) \in Nat /\ DOMAIN q = 1 .. Len(q) /\ \A x : x \in ToSet(q) <=> \E i \in 1 .. Len(q) : q[i] = x
  BY InSequence
<1>2. CASE Full(q, bytes) /\ Plain(q) # {}
  <2> DEFINE k == Min(Plain(q))
             r == RemoveAt(q, k)
  <2>1. Plain(q) \in SUBSET Nat /\ Plain(q) \in SUBSET (1 .. Len(q))
    BY <1>1 DEF Plain
  <2>2. k \in Plain(q)
    BY <1>2, <2>1, MinIsLeast
  <2>3. EvictOldest(q, bytes) = r
    BY <1>2 DEF EvictOldest
  <2>4. k \in 1 .. Len(q)
    BY <2>1, <2>2
  <2> HIDE DEF k
  <2>5. /\ r \in Seq(Record) /\ Len(r) = Len(q) - 1
        /\ \A j \in 1 .. Len(q) - 1 : r[j] = IF j < k THEN q[j] ELSE q[j + 1]
    BY <2>4, RemoveAtFacts
  <2>6. BytesOf(r) <= BytesOf(q)
    BY <2>4, BytesMove
  <2> HIDE DEF r
  <2>7. /\ DOMAIN r = 1 .. Len(q) - 1
        /\ \A x : x \in ToSet(r) <=> \E i \in 1 .. Len(q) - 1 : r[i] = x
    BY <2>5, InSequence
  <2>8. ToSet(r) \subseteq ToSet(q)
    BY <1>1, <2>5, <2>7
  <2>9. ASSUME Injective(q) PROVE Injective(r)
    <3>1. ASSUME NEW a \in 1 .. Len(q) - 1, NEW b \in 1 .. Len(q) - 1, r[a] = r[b] PROVE a = b
      <4>1. \A i, j \in 1 .. Len(q) : q[i] = q[j] => i = j
        BY <1>1, <2>9 DEF Injective
      <4>2. r[a] = (IF a < k THEN q[a] ELSE q[a + 1]) /\ r[b] = (IF b < k THEN q[b] ELSE q[b + 1])
        BY <2>5
      <4>3. a \in 1 .. Len(q) /\ b \in 1 .. Len(q) /\ a + 1 \in 1 .. Len(q) /\ b + 1 \in 1 .. Len(q)
        BY <1>1
      <4> DEFINE i == IF a < k THEN a ELSE a + 1
                 j == IF b < k THEN b ELSE b + 1
      <4>4. i \in 1 .. Len(q) /\ j \in 1 .. Len(q) /\ r[a] = q[i] /\ r[b] = q[j]
        BY <4>2, <4>3
      <4>5. i = j => a = b
        BY <2>4
      <4> HIDE DEF i, j
      <4> QED
        BY <3>1, <4>1, <4>4, <4>5
    <3> QED
      BY <2>7, <3>1 DEF Injective
  <2>10. Len(r) <= Len(q)
    BY <1>1, <2>5
  <2> QED
    BY <2>3, <2>5, <2>6, <2>8, <2>9, <2>10 DEF Lessens
<1>3. CASE ~(Full(q, bytes) /\ Plain(q) # {})
  <2>1. EvictOldest(q, bytes) = q
    BY <1>3 DEF EvictOldest
  <2>2. BytesOf(q) \in Nat
    BY BytesMove
  <2>3. Lessens(q, q)
    BY <1>1, <2>2 DEF Lessens
  <2>4. ~Full(q, bytes) \/ Plain(q) = {}
    BY <1>3
  <2> QED
    BY <2>1, <2>3, <2>4
<1> QED
  BY <1>2, <1>3

(* Lessened twice. *)
LEMMA LessensOn ==
    ASSUME NEW a, NEW b, NEW q \in Seq(Record), Lessens(a, b), Lessens(b, q)
    PROVE  Lessens(a, q)
  BY BytesMove DEF Lessens

(* The room a summary gets: evictions until it fits or none is left to evict.*)
LEMMA RoomIsMade ==
    ASSUME NEW q \in Seq(Record), NEW bytes
    PROVE  /\ Lessens(MakeRoom(q, bytes), q)
           /\ ~Full(MakeRoom(q, bytes), bytes) \/ Plain(MakeRoom(q, bytes)) = {}
<1> DEFINE n == Len(q)
           D == Seq(Record)
           entry == [p \in D \X (1 .. n) |-> EvictOldest(p[1], bytes)]
           base == EvictOldest(q, bytes)
           Runs(g) == g = [k \in 0 .. n |-> EvictOldest(IF k = 0 THEN q ELSE g[k - 1], bytes)]
           room == CHOOSE g : Runs(g)
<1>1. n \in Nat /\ base \in D
  BY EvictsOne DEF Lessens
<1>2. entry \in [D \X (1 .. n) -> D]
  <2>1. \A s \in D : EvictOldest(s, bytes) \in D
    BY EvictsOne DEF Lessens
  <2> HIDE DEF D, n
  <2> QED
    BY <2>1
<1>3. PICK h \in [0 .. n -> D] : Chained(h, entry, base, n)
  <2> HIDE DEF D, n, entry, base
  <2>1. CanFold(entry, base, n, D)
    BY <1>1, <1>2 DEF CanFold
  <2> QED
    BY <2>1, CanChain
<1>4. Runs(h)
  <2>1. ASSUME NEW k \in 0 .. n PROVE h[k] = EvictOldest(IF k = 0 THEN q ELSE h[k - 1], bytes)
    <3>1. CASE k = 0
      BY <1>3, <3>1 DEF Chained
    <3>2. CASE k # 0
      <4> HIDE DEF D, n, base
      <4>1. k \in 1 .. n /\ k - 1 \in 0 .. n
        BY <1>1, <3>2
      <4>2. h[k] = entry[<<h[k - 1], k>>] /\ h[k - 1] \in D
        <5> HIDE DEF entry
        <5> QED
          BY <1>3, <4>1 DEF Chained
      <4> QED
        BY <3>2, <4>1, <4>2
    <3> QED
      BY <3>1, <3>2
  <2>2. h = [k \in 0 .. n |-> h[k]]
    OBVIOUS
  <2> HIDE DEF n
  <2> QED
    BY <2>1, <2>2
<1>5. Runs(room)
  <2> HIDE DEF Runs
  <2> QED
    BY <1>4
<1>6. MakeRoom(q, bytes) = room[n]
  BY DEF MakeRoom
<1> HIDE DEF room, entry, base
<1>7. \A k \in 0 .. n : room[k] = EvictOldest(IF k = 0 THEN q ELSE room[k - 1], bytes)
  <2> HIDE DEF n
  <2> QED
    BY <1>5
<1> DEFINE Stuck(r) == ~Full(r, bytes) \/ Plain(r) = {}
           Good(k) == Lessens(room[k], q) /\ (Stuck(room[k]) \/ Len(room[k]) = n - k - 1)
           T == {k \in 0 .. n : Good(k)}
<1>8. Lessens(q, q)
  <2>1. BytesOf(q) \in Nat
    BY BytesMove
  <2> QED
    BY <1>1, <2>1 DEF Lessens
<1>9. ASSUME NEW k \in 0 .. n, NEW b, b = (IF k = 0 THEN q ELSE room[k - 1]), Lessens(b, q), Stuck(b) \/ Len(b) = n - k
      PROVE  Good(k)
  <2>1. room[k] = EvictOldest(b, bytes) /\ b \in Seq(Record)
    BY <1>7, <1>9 DEF Lessens
  <2>2. /\ Lessens(room[k], b)
        /\ Len(room[k]) = Len(b) - 1 \/ (room[k] = b /\ Stuck(b))
    BY <2>1, EvictsOne
  <2>3. Lessens(room[k], q)
    BY <1>9, <2>2, LessensOn
  <2>4. CASE room[k] = b /\ Stuck(b)
    BY <2>3, <2>4
  <2>5. CASE Len(room[k]) = Len(b) - 1 /\ ~Stuck(b)
    <3>1. Len(room[k]) = n - k - 1
      <4> HIDE DEF n, Stuck
      <4> QED
        BY <1>1, <1>9, <2>5
    <3> QED
      BY <2>3, <3>1
  <2>6. CASE Stuck(b) /\ Len(room[k]) = Len(b) - 1
    BY <2>6, <2>1, <2>3 DEF EvictOldest
  <2> QED
    BY <2>2, <2>4, <2>5, <2>6
<1>10. 0 \in T
  <2>1. 0 \in 0 .. n /\ (Stuck(q) \/ Len(q) = n - 0)
    BY <1>1
  <2> HIDE DEF Stuck, n, Good
  <2>2. Good(0)
    BY <1>8, <1>9, <2>1
  <2> QED
    BY <2>1, <2>2
<1>11. ASSUME NEW k \in 1 .. n, k - 1 \in T PROVE k \in T
  <2>1. k \in 0 .. n /\ k # 0 /\ Lessens(room[k - 1], q) /\ (Stuck(room[k - 1]) \/ Len(room[k - 1]) = n - k)
    <3>1. Good(k - 1) /\ k \in 0 .. n /\ k # 0 /\ n - (k - 1) - 1 = n - k
      <4> HIDE DEF Good, n
      <4> QED
        BY <1>1, <1>11
    <3> HIDE DEF Stuck, n
    <3> QED
      BY <3>1
  <2> HIDE DEF Stuck, n, Good
  <2>2. Good(k)
    BY <1>9, <2>1
  <2> QED
    BY <2>1, <2>2
<1>12. Good(n)
  <2> HIDE DEF Good, n
  <2> DEFINE U == T
  <2>1. n \in T
    <3> HIDE DEF T
    <3>1. \A k \in 0 .. n : k \in T
      BY <1>1, <1>10, <1>11, InductionTo
    <3> QED
      BY <1>1, <3>1
  <2> QED
    BY <2>1
<1>13. Len(room[n]) \in Nat
  <2>1. room[n] \in Seq(Record)
    BY <1>12 DEF Lessens
  <2> QED
    BY <2>1
<1>14. Stuck(room[n])
  <2>1. Len(room[n]) # n - n - 1
    <3> HIDE DEF n
    <3> QED
      BY <1>1, <1>13
  <2> QED
    BY <1>12, <2>1
<1> QED
  BY <1>6, <1>12, <1>14

(* One record enters the queue, or is dropped: the queue stays within its    *)
(* bounds, and a summary is left out only where no plain record is kept.     *)
QueueFits(q) == Len(q) <= MaxEdgeQueue /\ BytesOf(q) <= MaxEdgeBytes
(* What Enqueued returns. *)
LEMMA EnqueuedFits ==
    ASSUME NEW q \in Seq(Record), NEW x \in Record, QueueFits(q)
    PROVE  /\ Enqueued(q, x) \in Seq(Record) /\ QueueFits(Enqueued(q, x))
           /\ ToSet(Enqueued(q, x)) \subseteq ToSet(q) \cup {x} /\ Len(Enqueued(q, x)) <= Len(q) + 1
           /\ Injective(q) /\ x \notin ToSet(q) => Injective(Enqueued(q, x))
           /\ x.summary => x \in ToSet(Enqueued(q, x)) \/ Plain(Enqueued(q, x)) = {}
<1> DEFINE room == IF x.summary THEN MakeRoom(q, Bytes(x)) ELSE q
           r == Append(room, x)
<1>1. Enqueued(q, x) = IF Full(room, Bytes(x)) THEN room ELSE r
  BY DEF Enqueued
<1>2. Lessens(q, q)
  BY BytesMove DEF Lessens
<1>3. Lessens(room, q) /\ (x.summary => ~Full(room, Bytes(x)) \/ Plain(room) = {})
  BY <1>2, RoomIsMade
<1> HIDE DEF room
<1>4. room \in Seq(Record) /\ Len(room) \in Nat /\ Len(q) \in Nat /\ BytesOf(room) \in Nat /\ BytesOf(q) \in Nat
  BY <1>3, BytesMove DEF Lessens
<1>5. QueueFits(room) /\ Len(room) <= Len(q) + 1
  BY <1>3, EdgeAssumption, <1>4 DEF Lessens, QueueFits
<1>6. CASE Full(room, Bytes(x))
  BY <1>1, <1>6, <1>3, <1>4, <1>5 DEF Lessens
<1>7. CASE ~Full(room, Bytes(x))
  <2>1. Enqueued(q, x) = r
    BY <1>1, <1>7
  <2>2. /\ r \in Seq(Record) /\ Len(r) = Len(room) + 1
        /\ r[Len(room) + 1] = x /\ \A i \in 1 .. Len(room) : r[i] = room[i]
    BY <1>4, AppendProperties
  <2>3. BytesOf(r) = BytesOf(room) + Bytes(x) /\ Bytes(x) \in Nat
    BY <1>4, BytesMove
  <2> HIDE DEF r
  <2>4. QueueFits(r) /\ Len(r) <= Len(q) + 1
    BY <1>7, <1>3, EdgeAssumption, <1>4, <2>2, <2>3 DEF Full, Lessens, QueueFits
  <2>5. /\ DOMAIN r = 1 .. Len(room) + 1 /\ DOMAIN room = 1 .. Len(room)
        /\ \A y : y \in ToSet(r) <=> \E i \in 1 .. Len(room) + 1 : r[i] = y
        /\ \A y : y \in ToSet(room) <=> \E i \in 1 .. Len(room) : room[i] = y
    BY <1>4, <2>2, InSequence
  <2>6. \A i \in 1 .. Len(room) + 1 : i \in 1 .. Len(room) \/ i = Len(room) + 1
    BY <1>4
  <2>7. ToSet(r) \subseteq ToSet(room) \cup {x} /\ x \in ToSet(r)
    BY <1>4, <2>2, <2>5, <2>6
  <2>8. ASSUME Injective(q), x \notin ToSet(q) PROVE Injective(r)
    BY <1>3, <2>8, <2>5, <2>2, <2>6 DEF Lessens, Injective
  <2>9. ToSet(room) \subseteq ToSet(q)
    BY <1>3 DEF Lessens
  <2> QED
    BY <2>1, <2>2, <2>4, <2>7, <2>8, <2>9
<1> QED
  BY <1>6, <1>7

(* The records of a request enter the queue one after the other.             *)
Entering(f, q, s) == f[0] = q /\ \A k \in 1 .. Len(s) : f[k] = Enqueued(f[k - 1], s[k])
(* The fold of Enqueued over records is such a run.                          *)
LEMMA EnteringRuns ==
    ASSUME NEW q \in Seq(Record), NEW s \in Seq(Record), QueueFits(q)
    PROVE  \E f : Entering(f, q, s) /\ FoldLeft(Enqueued, q, s) = f[Len(s)]
                  /\ \A k \in 0 .. Len(s) : f[k] \in Seq(Record) /\ QueueFits(f[k])
<1> DEFINE n == Len(s)
           D == {r \in Seq(Record) : QueueFits(r)}
           entry == [p \in D \X (1 .. n) |-> Enqueued(p[1], s[p[2]])]
           Runs(g) == g = [t \in SUBSET (1 .. n) |->
                             IF t = {} THEN q ELSE Enqueued(g[t \ {Max(t)}], s[Max(t)])]
           iter == CHOOSE g : Runs(g)
<1>1. n \in Nat /\ DOMAIN s = 1 .. n /\ \A k \in 1 .. n : s[k] \in Record
  OBVIOUS
<1>2. q \in D
  OBVIOUS
<1>3. entry \in [D \X (1 .. n) -> D]
  <2>1. \A r \in D, k \in 1 .. n : Enqueued(r, s[k]) \in D
    BY <1>1, EnqueuedFits
  <2> HIDE DEF D, n
  <2> QED
    BY <2>1
<1>4. PICK g \in [SUBSET (1 .. n) -> D] : g = LeftStep(entry, q, n, g)
  <2>1. CanFold(entry, q, n, D)
    BY <1>1, <1>2, <1>3 DEF CanFold
  <2> HIDE DEF entry, n, D
  <2>2. PICK g : IsLeftFold(g, entry, q, n, D)
    BY <2>1, CanFoldLeft
  <2> QED
    BY <2>2 DEF IsLeftFold
<1>5. Runs(g)
  <2>1. ASSUME NEW t \in SUBSET (1 .. n)
        PROVE  g[t] = IF t = {} THEN q ELSE Enqueued(g[t \ {Max(t)}], s[Max(t)])
    <3>1. g[t] = IF t = {} THEN q ELSE entry[<<g[t \ {Max(t)}], Max(t)>>]
      <4> HIDE DEF entry
      <4> QED
        BY <1>4 DEF LeftStep
    <3>2. ASSUME t # {} PROVE entry[<<g[t \ {Max(t)}], Max(t)>>] = Enqueued(g[t \ {Max(t)}], s[Max(t)])
      <4>1. g[t \ {Max(t)}] \in D /\ Max(t) \in 1 .. n
        BY <1>1, <1>4, <3>2, LastOfLess
      <4> HIDE DEF D
      <4> QED
        BY <4>1
    <3> QED
      BY <3>1, <3>2
  <2>2. g = [t \in SUBSET (1 .. n) |-> g[t]]
    OBVIOUS
  <2> HIDE DEF n
  <2> QED
    BY <2>1, <2>2
<1>6. Runs(iter)
  <2> HIDE DEF Runs
  <2> QED
    BY <1>5
<1>7. FoldLeft(Enqueued, q, s) = iter[1 .. n]
  BY <1>1 DEF FoldLeft, MapThenFoldSet
<1> HIDE DEF iter, entry
<1> DEFINE f == [k \in 0 .. n |-> iter[1 .. k]]
<1>8. f[0] = q /\ \A k \in 1 .. n : f[k] = Enqueued(f[k - 1], s[k])
  <2>1. \A t \in SUBSET (1 .. n) : iter[t] = IF t = {} THEN q ELSE Enqueued(iter[t \ {Max(t)}], s[Max(t)])
    BY <1>6
  <2>2. f[0] = q
    <3>1. 1 .. 0 = {} /\ 0 \in 0 .. n
      BY <1>1
    <3> QED
      BY <2>1, <3>1
  <2>3. ASSUME NEW k \in 1 .. n PROVE f[k] = Enqueued(f[k - 1], s[k])
    <3>1. 1 .. k \in SUBSET (1 .. n) /\ 1 .. k # {} /\ Max(1 .. k) = k /\ (1 .. k) \ {k} = 1 .. (k - 1)
      BY <1>1, LastOfPrefix
    <3>2. iter[1 .. k] = Enqueued(iter[1 .. (k - 1)], s[k])
      BY <2>1, <3>1
    <3>3. k \in 0 .. n /\ k - 1 \in 0 .. n
      BY <1>1
    <3> QED
      BY <3>2, <3>3
  <2> HIDE DEF f
  <2> QED
    BY <2>2, <2>3
<1>9. \A k \in 0 .. n : f[k] \in D
  <2> DEFINE Typed == {k \in 0 .. n : f[k] \in D}
  <2>1. 0 \in Typed
    BY <1>1, <1>2, <1>8
  <2>2. ASSUME NEW k \in 1 .. n, k - 1 \in Typed PROVE k \in Typed
    <3> HIDE DEF f
    <3>1. f[k] = Enqueued(f[k - 1], s[k]) /\ f[k - 1] \in D /\ s[k] \in Record
      BY <1>1, <1>8, <2>2
    <3>2. f[k] \in D
      BY <3>1, EnqueuedFits
    <3>3. k \in 0 .. n
      BY <1>1
    <3> QED
      BY <3>2, <3>3
  <2> HIDE DEF Typed
  <2>3. \A k \in 0 .. n : k \in Typed
    BY <1>1, <2>1, <2>2, InductionTo
  <2> QED
    BY <2>3 DEF Typed
<1>10. f[n] = iter[1 .. n]
  BY <1>1
<1> HIDE DEF f
<1>11. Entering(f, q, s)
  BY <1>8 DEF Entering
<1> QED
  BY <1>7, <1>9, <1>10, <1>11

(* What the queue holds once they entered: records it had or the new ones,   *)
(* none twice; the last one, a summary, is left out only where nothing but   *)
(* summaries is kept.                                                        *)
LEMMA QueueAfter ==
    ASSUME NEW q \in Seq(Record), NEW s \in Seq(Record), QueueFits(q), Injective(q), Injective(s),
           ToSet(s) \cap ToSet(q) = {}, s # <<>>, s[Len(s)].summary
    PROVE  LET r == FoldLeft(Enqueued, q, s) IN
           /\ r \in Seq(Record) /\ QueueFits(r) /\ Injective(r)
           /\ ToSet(r) \subseteq ToSet(q) \cup ToSet(s) /\ Len(r) <= Len(q) + Len(s)
           /\ s[Len(s)] \in ToSet(r) \/ Plain(r) = {}
<1> DEFINE n == Len(s)
           HadBy(k) == ToSet(q) \cup {s[i] : i \in 1 .. k}
<1>1. PICK f : /\ Entering(f, q, s) /\ FoldLeft(Enqueued, q, s) = f[n]
               /\ \A k \in 0 .. n : f[k] \in Seq(Record) /\ QueueFits(f[k])
  BY EnteringRuns
<1>2. /\ n \in Nat \ {0} /\ (\A x : x \in ToSet(s) <=> \E i \in 1 .. n : s[i] = x)
      /\ (\A i, j \in 1 .. n : s[i] = s[j] => i = j) /\ (\A i \in 1 .. n : s[i] \in Record) /\ Len(q) \in Nat
  BY InSequence, EmptySeq DEF Injective
<1> DEFINE Good(k) == Injective(f[k]) /\ ToSet(f[k]) \subseteq HadBy(k) /\ Len(f[k]) <= Len(q) + k
           T == {k \in 0 .. n : Good(k)}
<1>3. 0 \in T
  <2>1. f[0] = q /\ 0 \in 0 .. n
    BY <1>1, <1>2 DEF Entering
  <2> HIDE DEF n
  <2> QED
    BY <1>2, <2>1
<1>4. ASSUME NEW k \in 1 .. n, k - 1 \in T PROVE k \in T
  <2> HIDE DEF n
  <2>1. k \in 0 .. n /\ k - 1 \in 0 .. n /\ Good(k - 1)
    BY <1>2, <1>4
  <2>2. f[k] = Enqueued(f[k - 1], s[k]) /\ f[k - 1] \in Seq(Record) /\ QueueFits(f[k - 1]) /\ s[k] \in Record
    BY <1>1, <1>2, <2>1 DEF Entering, n
  <2>3. s[k] \notin ToSet(f[k - 1])
    BY <1>2, <2>1
  <2>4. Injective(f[k]) /\ ToSet(f[k]) \subseteq ToSet(f[k - 1]) \cup {s[k]} /\ Len(f[k]) <= Len(f[k - 1]) + 1
    <3> DEFINE b == f[k - 1]
               x == s[k]
    <3>1. b \in Seq(Record) /\ QueueFits(b) /\ x \in Record /\ Injective(b) /\ x \notin ToSet(b) /\ f[k] = Enqueued(b, x)
      BY <2>1, <2>2, <2>3
    <3> HIDE DEF b, x
    <3>2. Injective(f[k]) /\ ToSet(f[k]) \subseteq ToSet(b) \cup {x} /\ Len(f[k]) <= Len(b) + 1
      BY <3>1, EnqueuedFits
    <3> QED
      BY <3>2 DEF b, x
  <2>5. HadBy(k) = HadBy(k - 1) \cup {s[k]}
    BY <1>2
  <2>6. Len(f[k]) <= Len(q) + k
    BY <1>1, <1>2, <2>1, <2>4
  <2> HIDE DEF HadBy
  <2> QED
    BY <2>1, <2>4, <2>5, <2>6
<1>5. Good(n)
  <2> HIDE DEF Good, n
  <2>1. n \in T
    <3> HIDE DEF T
    <3>1. \A k \in 0 .. n : k \in T
      BY <1>2, <1>3, <1>4, InductionTo
    <3> QED
      BY <1>2, <3>1
  <2> QED
    BY <2>1
<1>6. f[n] \in Seq(Record) /\ QueueFits(f[n])
  <2> HIDE DEF n
  <2> QED
    BY <1>1, <1>2
<1>7. s[n] \in ToSet(f[n]) \/ Plain(f[n]) = {}
  <2>1. /\ f[n] = Enqueued(f[n - 1], s[n]) /\ f[n - 1] \in Seq(Record) /\ QueueFits(f[n - 1])
        /\ s[n] \in Record /\ s[n].summary
    BY <1>2, <1>1 DEF Entering
  <2> HIDE DEF n
  <2> DEFINE b == f[n - 1]
             x == s[n]
  <2>2. b \in Seq(Record) /\ QueueFits(b) /\ x \in Record /\ x.summary /\ f[n] = Enqueued(b, x)
    BY <2>1
  <2> HIDE DEF b, x
  <2>3. x \in ToSet(f[n]) \/ Plain(f[n]) = {}
    BY <2>2, EnqueuedFits
  <2> QED
    BY <2>3 DEF x
<1>8. HadBy(n) = ToSet(q) \cup ToSet(s)
  BY <1>2
<1> HIDE DEF HadBy
<1> QED
  BY <1>1, <1>5, <1>6, <1>7, <1>8

(* What a request leaves: its plain records, and its summary last.           *)
LEMMA EmittedFacts ==
    ASSUME NEW r \in EdgeRequest, NEW runtime, runtime.plain \in Nat, runtime.to \in Destination
    PROVE  LET s == Emitted(r, runtime) IN
           /\ s \in Seq(Record) /\ Len(s) = runtime.plain + 1 /\ s # <<>> /\ Injective(s)
           /\ s[Len(s)].summary /\ s[Len(s)].of = r /\ \A x \in ToSet(s) : x.of = r
<1> DEFINE n == runtime.plain + 1
           s == Emitted(r, runtime)
<1>1. n \in Nat /\ n >= 1 /\ n \in 1 .. n
  OBVIOUS
<1>2. s = [i \in 1 .. n |-> [of |-> r, nr |-> i, summary |-> i = n, to |-> runtime.to]]
  BY DEF Emitted
<1> HIDE DEF n, s
<1>3. \A i \in 1 .. n : s[i] \in Record /\ s[i].of = r /\ s[i].nr = i /\ (s[i].summary <=> i = n)
  <2>1. ASSUME NEW i \in 1 .. n PROVE [of |-> r, nr |-> i, summary |-> i = n, to |-> runtime.to] \in Record
    BY <1>1 DEF Record
  <2> QED
    BY <1>2, <2>1
<1>4. s \in [1 .. n -> Record]
  BY <1>2, <1>3
<1>5. s \in Seq(Record) /\ Len(s) = n
  BY <1>1, <1>4
<1>6. s # <<>>
  BY <1>1, <1>5
<1>7. Injective(s)
  BY <1>3, <1>4 DEF Injective
<1>8. \A x \in ToSet(s) : x.of = r
  BY <1>3, <1>5, InSequence
<1> QED
  BY <1>1, <1>3, <1>5, <1>6, <1>7, <1>8 DEF n, s

(* The first k records of a queue, and what is left.                        *)
LEMMA QueueSplits ==
    ASSUME NEW q \in Seq(Record), NEW k \in 0 .. Len(q)
    PROVE  LET a == SubSeq(q, 1, k)
               b == SubSeq(q, k + 1, Len(q)) IN
           /\ a \in Seq(Record) /\ b \in Seq(Record) /\ Len(a) = k /\ Len(b) = Len(q) - k
           /\ \A x : x \in ToSet(q) <=> x \in ToSet(a) \/ x \in ToSet(b)
           /\ Injective(q) => Injective(a) /\ Injective(b) /\ ToSet(a) \cap ToSet(b) = {}
           /\ \A x : x \in ToSet(a) <=> \E i \in 1 .. k : q[i] = x
           /\ BytesOf(b) <= BytesOf(q)
<1> DEFINE n == Len(q)
           a == SubSeq(q, 1, k)
           b == SubSeq(q, k + 1, n)
<1>1. n \in Nat /\ DOMAIN q = 1 .. n /\ k \in Nat /\ k <= n /\ \A x : x \in ToSet(q) <=> \E i \in 1 .. n : q[i] = x
  BY InSequence
<1>2. a \in Seq(Record) /\ Len(a) = k /\ \A i \in 1 .. k : a[i] = q[i]
  OBVIOUS
<1>3. b \in Seq(Record) /\ Len(b) = n - k /\ \A i \in 1 .. n - k : b[i] = q[k + i]
  OBVIOUS
<1>4. BytesOf(b) <= BytesOf(q)
  BY BytesMove
<1> HIDE DEF a, b, n
<1>5. DOMAIN a = 1 .. k /\ \A x : x \in ToSet(a) <=> \E i \in 1 .. k : a[i] = x
  BY <1>2, InSequence
<1>6. DOMAIN b = 1 .. n - k /\ \A x : x \in ToSet(b) <=> \E i \in 1 .. n - k : b[i] = x
  BY <1>3, InSequence
<1>7. \A x : x \in ToSet(a) <=> \E i \in 1 .. k : q[i] = x
  BY <1>2, <1>5
<1>8. \A x : x \in ToSet(b) <=> \E j \in (k + 1) .. n : q[j] = x
  <2>1. ASSUME NEW x, x \in ToSet(b) PROVE \E j \in (k + 1) .. n : q[j] = x
    <3>1. PICK i \in 1 .. n - k : b[i] = x
      BY <1>6, <2>1
    <3>2. k + i \in (k + 1) .. n /\ q[k + i] = x
      BY <1>1, <1>3, <3>1
    <3> QED
      BY <3>2
  <2>2. ASSUME NEW j \in (k + 1) .. n PROVE q[j] \in ToSet(b)
    <3>1. j - k \in 1 .. n - k /\ k + (j - k) = j
      BY <1>1
    <3>2. b[j - k] = q[j]
      BY <1>3, <3>1
    <3> QED
      BY <1>6, <3>1, <3>2
  <2> QED
    BY <2>1, <2>2
<1>9. \A i \in 1 .. n : i \in 1 .. k \/ i \in (k + 1) .. n
  BY <1>1
<1>10. (\A i \in 1 .. k : i \in 1 .. n) /\ \A i \in (k + 1) .. n : i \in 1 .. n /\ i \notin 1 .. k
  BY <1>1
<1>11. \A x : x \in ToSet(q) <=> x \in ToSet(a) \/ x \in ToSet(b)
  BY <1>1, <1>7, <1>8, <1>9, <1>10
<1>12. ASSUME Injective(q) PROVE Injective(a) /\ Injective(b) /\ ToSet(a) \cap ToSet(b) = {}
  <2>1. \A i, j \in 1 .. n : q[i] = q[j] => i = j
    BY <1>1, <1>12 DEF Injective
  <2>2. Injective(a)
    BY <1>2, <1>5, <1>10, <2>1 DEF Injective
  <2>3. Injective(b)
    BY <1>1, <1>3, <2>1, <1>6 DEF Injective
  <2>4. ToSet(a) \cap ToSet(b) = {}
    BY <1>7, <1>8, <1>10, <2>1
  <2> QED
    BY <2>2, <2>3, <2>4
<1> QED
  BY <1>2, <1>3, <1>4, <1>7, <1>11, <1>12 DEF a, b, n

(* The records of a queue q, of batches b, one a call, and those delivered D, *)
(* and how many there are, each place counted for itself.                    *)
BatchOf == [c \in DeliverCall |-> delivery[c].batch]
BatchesOf(b) == UNION {ToSet(b[c]) : c \in DeliverCall}
KeptIn(q, b, D) == ToSet(q) \cup BatchesOf(b) \cup D
BatchLens(b) == [c \in DeliverCall |-> Len(b[c])]
CountIn(q, b, D) == Len(q) + SetSum(BatchLens(b), DeliverCall) + Cardinality(D)

(* The batches with another one for a call.                                  *)
Rebatched(b, c, batch) == [b EXCEPT ![c] = batch]

(* No record is in two places, nor twice in one.                             *)
Apart(q, b, D) ==
    /\ q \in Seq(Record) /\ b \in [DeliverCall -> Seq(Record)] /\ D \subseteq Record /\ IsFiniteSet(D)
    /\ Injective(q) /\ \A c \in DeliverCall : Injective(b[c])
    /\ ToSet(q) \cap D = {}
    /\ \A c \in DeliverCall : ToSet(b[c]) \cap ToSet(q) = {} /\ ToSet(b[c]) \cap D = {}
    /\ \A c, d \in DeliverCall : c # d => ToSet(b[c]) \cap ToSet(b[d]) = {}

(* The calls are finitely many, and so are the lengths of their batches.     *)
LEMMA CallsFinite ==
    /\ IsFiniteSet(DeliverCall)
    /\ \A b \in [DeliverCall -> Seq(Record)] :
          /\ BatchLens(b) \in [DeliverCall -> Nat] /\ BatchLens(b) \in [DeliverCall -> Int]
          /\ SetSum(BatchLens(b), DeliverCall) \in Nat
<1>1. IsFiniteSet(DeliverCall)
  BY EdgeAssumption, FS_Union DEF DeliverCall
<1>2. ASSUME NEW b \in [DeliverCall -> Seq(Record)]
      PROVE  /\ BatchLens(b) \in [DeliverCall -> Nat] /\ BatchLens(b) \in [DeliverCall -> Int]
             /\ SetSum(BatchLens(b), DeliverCall) \in Nat
  BY <1>1, SetSumNatural DEF BatchLens
<1> QED
  BY <1>1, <1>2

(* Kept apart, the records are as many as their places count.                *)
LEMMA ApartCounts ==
    ASSUME NEW q, NEW b, NEW D, Apart(q, b, D)
    PROVE  IsFiniteSet(KeptIn(q, b, D)) /\ Cardinality(KeptIn(q, b, D)) = CountIn(q, b, D)
<1> DEFINE S == DeliverCall
           w == BatchLens(b)
           A == SetSums(w, S)
           U(s) == UNION {ToSet(b[c]) : c \in s}
           T == {s \in SUBSET S : IsFiniteSet(U(s)) /\ Cardinality(U(s)) = A[s]}
<1>1. /\ q \in Seq(Record) /\ b \in [S -> Seq(Record)] /\ IsFiniteSet(D)
      /\ Injective(q) /\ (\A c \in S : Injective(b[c])) /\ ToSet(q) \cap D = {}
      /\ (\A c \in S : ToSet(b[c]) \cap ToSet(q) = {} /\ ToSet(b[c]) \cap D = {})
      /\ \A c, d \in S : c # d => ToSet(b[c]) \cap ToSet(b[d]) = {}
  BY DEF Apart
<1>2. IsFiniteSet(S) /\ w \in [S -> Int] /\ \A c \in S : w[c] = Len(b[c])
  BY <1>1, CallsFinite DEF BatchLens
<1>3. \A c \in S : IsFiniteSet(ToSet(b[c])) /\ Cardinality(ToSet(b[c])) = w[c]
  <2>1. ASSUME NEW c \in S PROVE IsFiniteSet(ToSet(b[c])) /\ Cardinality(ToSet(b[c])) = w[c]
    <3>1. b[c] \in Seq(Record) /\ Injective(b[c]) /\ w[c] = Len(b[c])
      BY <1>1, <1>2
    <3> HIDE DEF w
    <3> QED
      BY <3>1, InjectiveCount
  <2> QED
    BY <2>1
<1> HIDE DEF w
<1>4. A[{}] = 0 /\ \A s \in SUBSET S : s # {} => A[s] = w[AnyOf(s)] + A[s \ {AnyOf(s)}]
  <2> HIDE DEF S
  <2> QED
    BY <1>2, SetSumSteps
<1>5. {} \in T
  <2>1. U({}) = {}
    OBVIOUS
  <2> HIDE DEF A
  <2> QED
    BY <1>4, <2>1, FS_EmptySet
<1>6. ASSUME NEW s \in SUBSET S, s # {}, s \ {AnyOf(s)} \in T PROVE s \in T
  <2> DEFINE c == AnyOf(s)
             t == s \ {c}
             B == ToSet(b[c])
  <2>1. c \in S /\ c \in s
    BY <1>2, <1>6, AnyOfLess
  <2>2. U(s) = B \cup U(t)
    BY <2>1
  <2>3. B \cap U(t) = {}
    BY <1>1, <2>1
  <2>4. IsFiniteSet(U(t)) /\ Cardinality(U(t)) = A[t]
    BY <1>6
  <2>5. IsFiniteSet(B) /\ Cardinality(B) = w[c] /\ w[c] \in Int
    BY <1>2, <1>3, <2>1
  <2>6. A[s] = w[c] + A[t]
    BY <1>4, <1>6
  <2>7. Cardinality({}) = 0 /\ Cardinality(U(t)) \in Nat
    BY <2>4, FS_EmptySet, FS_CardinalityType
  <2> HIDE DEF U, B, t, c, A
  <2>8. IsFiniteSet(B \cup U(t)) /\ Cardinality(B \cup U(t)) = Cardinality(B) + Cardinality(U(t)) - Cardinality(B \cap U(t))
    BY <2>4, <2>5, FS_Union
  <2>9. Cardinality(B \cap U(t)) = 0
    BY <2>3, <2>7
  <2> DEFINE all == B \cup U(t)
             both == B \cap U(t)
  <2>10. IsFiniteSet(all) /\ Cardinality(all) = w[c] + A[t]
    <3>1. Cardinality(all) = Cardinality(B) + Cardinality(U(t)) - Cardinality(both) /\ Cardinality(both) = 0
      BY <2>8, <2>9
    <3>2. IsFiniteSet(all)
      BY <2>8
    <3> HIDE DEF all, both
    <3> QED
      BY <2>4, <2>5, <2>7, <3>1, <3>2
  <2>11. Cardinality(U(s)) = A[s] /\ IsFiniteSet(U(s))
    BY <2>2, <2>6, <2>10
  <2> QED
    BY <2>11
<1>7. S \in T
  <2> HIDE DEF T, S
  <2> QED
    BY <1>2, <1>5, <1>6, SubsetInduction
<1> DEFINE Q == ToSet(q)
           B == U(S)
<1>8. IsFiniteSet(B) /\ Cardinality(B) = SetSum(w, S)
  BY <1>7 DEF SetSum
<1>9. IsFiniteSet(Q) /\ Cardinality(Q) = Len(q) /\ Len(q) \in Nat
  BY <1>1, InjectiveCount
<1>10. Q \cap B = {} /\ (Q \cup B) \cap D = {}
  BY <1>1
<1>11. KeptIn(q, b, D) = Q \cup B \cup D
  BY DEF KeptIn, BatchesOf
<1>12. CountIn(q, b, D) = Len(q) + SetSum(w, S) + Cardinality(D)
  BY DEF CountIn, w
<1> HIDE DEF Q, B, S, U, T, A
<1>13. Cardinality(B) \in Nat /\ Cardinality(D) \in Nat /\ Cardinality({}) = 0
  BY <1>1, <1>8, FS_EmptySet, FS_CardinalityType
<1>14. IsFiniteSet(Q \cup B) /\ Cardinality(Q \cup B) = Cardinality(Q) + Cardinality(B)
  <2>1. IsFiniteSet(Q \cup B) /\ Cardinality(Q \cup B) = Cardinality(Q) + Cardinality(B) - Cardinality(Q \cap B)
    BY <1>8, <1>9, FS_Union
  <2>2. Cardinality(Q \cap B) = 0
    BY <1>10, <1>13
  <2> DEFINE both == Q \cap B
             all == Q \cup B
  <2>3. Cardinality(all) = Cardinality(Q) + Cardinality(B) - Cardinality(both) /\ Cardinality(both) = 0
    BY <2>1, <2>2
  <2>4. Cardinality(all) = Cardinality(Q) + Cardinality(B)
    <3> HIDE DEF both, all
    <3> QED
      BY <1>9, <1>13, <2>3
  <2> QED
    BY <2>1, <2>4
<1>15. IsFiniteSet(Q \cup B \cup D) /\ Cardinality(Q \cup B \cup D) = Cardinality(Q) + Cardinality(B) + Cardinality(D)
  <2> DEFINE V == Q \cup B
  <2>1. IsFiniteSet(V) /\ Cardinality(V) \in Nat /\ V \cap D = {}
    BY <1>10, <1>14, FS_CardinalityType
  <2>2. Cardinality(V) = Cardinality(Q) + Cardinality(B)
    BY <1>14
  <2> HIDE DEF V
  <2>3. IsFiniteSet(V \cup D) /\ Cardinality(V \cup D) = Cardinality(V) + Cardinality(D) - Cardinality(V \cap D)
    BY <1>1, <2>1, FS_Union
  <2>4. IsFiniteSet(V \cup D) /\ Cardinality(V \cup D) = Cardinality(Q) + Cardinality(B) + Cardinality(D)
    <3> DEFINE both == V \cap D
               all == V \cup D
    <3>1. Cardinality(both) = 0
      BY <1>13, <2>1
    <3>2. Cardinality(all) = Cardinality(V) + Cardinality(D) - Cardinality(both)
      BY <2>3
    <3>3. Cardinality(all) = Cardinality(Q) + Cardinality(B) + Cardinality(D)
      <4> HIDE DEF both, all
      <4> QED
        BY <1>9, <1>13, <2>1, <2>2, <3>1, <3>2
    <3> QED
      BY <2>3, <3>3
  <2> QED
    BY <2>4 DEF V
<1> QED
  BY <1>8, <1>9, <1>11, <1>12, <1>13, <1>15

(* A call without a batch takes the first k records of the queue: all stay   *)
(* apart, and none comes or goes.                                            *)
LEMMA BatchTaken ==
    ASSUME NEW q, NEW b, NEW D, Apart(q, b, D), NEW c \in DeliverCall, b[c] = <<>>, NEW k \in 0 .. Len(q)
    PROVE  /\ Apart(SubSeq(q, k + 1, Len(q)), Rebatched(b, c, SubSeq(q, 1, k)), D)
           /\ CountIn(SubSeq(q, k + 1, Len(q)), Rebatched(b, c, SubSeq(q, 1, k)), D) = CountIn(q, b, D)
           /\ KeptIn(SubSeq(q, k + 1, Len(q)), Rebatched(b, c, SubSeq(q, 1, k)), D) = KeptIn(q, b, D)
<1> DEFINE left == SubSeq(q, k + 1, Len(q))
           a == SubSeq(q, 1, k)
           taken == [b EXCEPT ![c] = a]
<1>1. /\ q \in Seq(Record) /\ b \in [DeliverCall -> Seq(Record)] /\ D \subseteq Record /\ IsFiniteSet(D)
      /\ Injective(q) /\ (\A d \in DeliverCall : Injective(b[d])) /\ ToSet(q) \cap D = {}
      /\ (\A d \in DeliverCall : ToSet(b[d]) \cap ToSet(q) = {} /\ ToSet(b[d]) \cap D = {})
      /\ \A d, e \in DeliverCall : d # e => ToSet(b[d]) \cap ToSet(b[e]) = {}
  BY DEF Apart
<1>2. /\ a \in Seq(Record) /\ left \in Seq(Record) /\ Len(a) = k /\ Len(left) = Len(q) - k
      /\ (\A x : x \in ToSet(q) <=> x \in ToSet(a) \/ x \in ToSet(left))
      /\ Injective(a) /\ Injective(left) /\ ToSet(a) \cap ToSet(left) = {}
  BY <1>1, QueueSplits
<1> HIDE DEF a, left
<1>3. taken \in [DeliverCall -> Seq(Record)] /\ taken[c] = a /\ \A d \in DeliverCall \ {c} : taken[d] = b[d]
  BY <1>1, <1>2
<1> HIDE DEF taken
<1>4. \A d \in DeliverCall : Injective(taken[d])
  BY <1>1, <1>2, <1>3
<1>5. ToSet(left) \cap D = {}
  BY <1>1, <1>2
<1>6. ASSUME NEW d \in DeliverCall PROVE ToSet(taken[d]) \cap ToSet(left) = {} /\ ToSet(taken[d]) \cap D = {}
  BY <1>1, <1>2, <1>3
<1>7. ASSUME NEW d \in DeliverCall, NEW e \in DeliverCall, d # e PROVE ToSet(taken[d]) \cap ToSet(taken[e]) = {}
  BY <1>1, <1>2, <1>3, <1>7
<1>8. Apart(left, taken, D)
  BY <1>1, <1>2, <1>3, <1>4, <1>5, <1>6, <1>7 DEF Apart
<1>9. KeptIn(left, taken, D) = KeptIn(q, b, D)
  <2>1. ToSet(b[c]) = {}
    BY DEF ToSet, Range
  <2>2. \A x : x \in BatchesOf(taken) <=> x \in BatchesOf(b) \/ x \in ToSet(a)
    BY <1>3, <2>1 DEF BatchesOf
  <2> QED
    BY <1>2, <2>2 DEF KeptIn
<1>10. CountIn(left, taken, D) = CountIn(q, b, D)
  <2> DEFINE v == BatchLens(taken)
             w == BatchLens(b)
  <2>1. /\ IsFiniteSet(DeliverCall) /\ v \in [DeliverCall -> Int] /\ w \in [DeliverCall -> Int]
        /\ SetSum(v, DeliverCall) \in Nat /\ SetSum(w, DeliverCall) \in Nat
    BY <1>1, <1>3, CallsFinite
  <2>2. v[c] = k /\ w[c] = 0 /\ \A d \in DeliverCall \ {c} : v[d] = w[d]
    <3>1. Len(<<>>) = 0
      OBVIOUS
    <3> QED
      BY <1>2, <1>3, <3>1 DEF BatchLens
  <2>3. CountIn(left, taken, D) = Len(left) + SetSum(v, DeliverCall) + Cardinality(D)
        /\ CountIn(q, b, D) = Len(q) + SetSum(w, DeliverCall) + Cardinality(D)
    BY DEF CountIn
  <2> HIDE DEF v, w
  <2>4. SetSum(v, DeliverCall) = SetSum(w, DeliverCall) + v[c] - w[c]
    BY <2>1, <2>2, SetSumUpdate
  <2>5. Len(q) \in Nat /\ k \in Nat /\ Cardinality(D) \in Nat
    BY <1>1, FS_CardinalityType
  <2> QED
    BY <1>2, <2>1, <2>2, <2>3, <2>4, <2>5
<1> QED
  BY <1>8, <1>9, <1>10 DEF left, taken, a, Rebatched

(* A batch leaves a call: it was delivered, or it is dropped.               *)
LEMMA BatchSettles ==
    ASSUME NEW q, NEW b, NEW D, Apart(q, b, D), NEW c \in DeliverCall
    PROVE  /\ Apart(q, Rebatched(b, c, <<>>), D \cup ToSet(b[c])) /\ Apart(q, Rebatched(b, c, <<>>), D)
           /\ CountIn(q, Rebatched(b, c, <<>>), D \cup ToSet(b[c])) = CountIn(q, b, D)
           /\ KeptIn(q, Rebatched(b, c, <<>>), D \cup ToSet(b[c])) = KeptIn(q, b, D)
           /\ CountIn(q, Rebatched(b, c, <<>>), D) = CountIn(q, b, D) - Len(b[c])
           /\ KeptIn(q, Rebatched(b, c, <<>>), D) \subseteq KeptIn(q, b, D)
           /\ CountIn(q, b, D) \in Nat /\ Len(b[c]) \in Nat
<1> DEFINE B == ToSet(b[c])
           done == D \cup B
           rest == [b EXCEPT ![c] = <<>>]
<1>1. /\ q \in Seq(Record) /\ b \in [DeliverCall -> Seq(Record)] /\ D \subseteq Record /\ IsFiniteSet(D)
      /\ Injective(q) /\ (\A d \in DeliverCall : Injective(b[d])) /\ ToSet(q) \cap D = {}
      /\ (\A d \in DeliverCall : ToSet(b[d]) \cap ToSet(q) = {} /\ ToSet(b[d]) \cap D = {})
      /\ \A d, e \in DeliverCall : d # e => ToSet(b[d]) \cap ToSet(b[e]) = {}
  BY DEF Apart
<1>2. /\ b[c] \in Seq(Record) /\ Len(b[c]) \in Nat /\ B \subseteq Record /\ IsFiniteSet(B)
      /\ Cardinality(B) = Len(b[c]) /\ B \cap D = {} /\ B \cap ToSet(q) = {}
  BY <1>1, InjectiveCount
<1>3. /\ <<>> \in Seq(Record) /\ Injective(<<>>) /\ ToSet(<<>>) = {} /\ Len(<<>>) = 0
  BY DEF Injective, ToSet, Range
<1>4. rest \in [DeliverCall -> Seq(Record)] /\ rest[c] = <<>> /\ \A d \in DeliverCall \ {c} : rest[d] = b[d]
  BY <1>1, <1>3
<1>5. done \subseteq Record /\ IsFiniteSet(done)
  BY <1>1, <1>2, FS_Union
<1> HIDE DEF rest
<1>6. /\ \A d \in DeliverCall : Injective(rest[d])
      /\ \A d \in DeliverCall : ToSet(rest[d]) \cap ToSet(q) = {} /\ ToSet(rest[d]) \cap done = {} /\ ToSet(rest[d]) \cap D = {}
  BY <1>3, <1>4, <1>1
<1>7. ASSUME NEW d \in DeliverCall, NEW e \in DeliverCall, d # e PROVE ToSet(rest[d]) \cap ToSet(rest[e]) = {}
  BY <1>1, <1>3, <1>4, <1>7
<1>8. ToSet(q) \cap done = {}
  BY <1>1, <1>2
<1> HIDE DEF done
<1>9. Apart(q, rest, done) /\ Apart(q, rest, D)
  BY <1>1, <1>4, <1>5, <1>6, <1>7, <1>8 DEF Apart
<1>10. \A x : x \in BatchesOf(b) <=> x \in BatchesOf(rest) \/ x \in B
  BY <1>3, <1>4 DEF BatchesOf
<1>11. KeptIn(q, rest, done) = KeptIn(q, b, D) /\ KeptIn(q, rest, D) \subseteq KeptIn(q, b, D)
  <2> HIDE DEF B
  <2> QED
    BY <1>10 DEF KeptIn, done
<1> DEFINE v == BatchLens(rest)
           w == BatchLens(b)
<1>12. /\ IsFiniteSet(DeliverCall) /\ v \in [DeliverCall -> Int] /\ w \in [DeliverCall -> Int]
       /\ SetSum(v, DeliverCall) \in Nat /\ SetSum(w, DeliverCall) \in Nat
  BY <1>1, <1>4, CallsFinite
<1>13. v[c] = 0 /\ w[c] = Len(b[c]) /\ \A d \in DeliverCall \ {c} : v[d] = w[d]
  BY <1>3, <1>4 DEF BatchLens
<1>14. /\ CountIn(q, rest, D) = Len(q) + SetSum(v, DeliverCall) + Cardinality(D)
       /\ CountIn(q, rest, done) = Len(q) + SetSum(v, DeliverCall) + Cardinality(done)
       /\ CountIn(q, b, D) = Len(q) + SetSum(w, DeliverCall) + Cardinality(D)
  BY DEF CountIn
<1> HIDE DEF v, w
<1>15. SetSum(v, DeliverCall) = SetSum(w, DeliverCall) + v[c] - w[c]
  BY <1>12, <1>13, SetSumUpdate
<1>16. Cardinality(D) \in Nat /\ Len(q) \in Nat /\ Cardinality(done) = Cardinality(D) + Len(b[c])
  <2>1. Cardinality(D) \in Nat /\ Cardinality({}) = 0 /\ Len(q) \in Nat
    BY <1>1, FS_CardinalityType, FS_EmptySet
  <2>2. Cardinality(D \cap B) = 0
    BY <1>2, <2>1
  <2>3. Cardinality(D \cup B) = Cardinality(D) + Cardinality(B) - Cardinality(D \cap B)
    BY <1>1, <1>2, FS_Union
  <2> DEFINE both == D \cap B
  <2>4. Cardinality(done) = Cardinality(D) + Cardinality(B) - Cardinality(both) /\ Cardinality(both) = 0
    BY <2>2, <2>3 DEF done
  <2> HIDE DEF both, B
  <2> QED
    BY <1>2, <2>1, <2>4
<1>17. /\ CountIn(q, rest, done) = CountIn(q, b, D) /\ CountIn(q, rest, D) = CountIn(q, b, D) - Len(b[c])
       /\ CountIn(q, b, D) \in Nat /\ CountIn(q, rest, D) \in Nat
  <2> DEFINE l == Len(b[c])
             n == Len(q)
             s == SetSum(w, DeliverCall)
             t == SetSum(v, DeliverCall)
  <2>1. t = s - l
    BY <1>2, <1>12, <1>13, <1>15
  <2>2. n \in Nat /\ s \in Nat /\ t \in Nat /\ l \in Nat /\ Cardinality(D) \in Nat /\ Cardinality(done) = Cardinality(D) + l
    BY <1>2, <1>12, <1>16
  <2>3. /\ CountIn(q, rest, D) = n + t + Cardinality(D)
        /\ CountIn(q, rest, done) = n + t + Cardinality(done)
        /\ CountIn(q, b, D) = n + s + Cardinality(D)
    BY <1>14
  <2> HIDE DEF l, n, s, t
  <2>4. /\ CountIn(q, rest, done) = CountIn(q, b, D) /\ CountIn(q, rest, D) = CountIn(q, b, D) - l
        /\ CountIn(q, b, D) \in Nat /\ CountIn(q, rest, D) \in Nat
    BY <2>1, <2>2, <2>3
  <2> QED
    BY <2>4 DEF l
<1> QED
  BY <1>2, <1>9, <1>11, <1>17 DEF rest, done, B, Rebatched

(* Another queue, of records it had and of new ones.                         *)
LEMMA QueueReplaced ==
    ASSUME NEW q, NEW b, NEW D, Apart(q, b, D), NEW r \in Seq(Record), NEW N, Injective(r),
           ToSet(r) \subseteq ToSet(q) \cup N, N \cap KeptIn(q, b, D) = {}
    PROVE  /\ Apart(r, b, D) /\ CountIn(r, b, D) = CountIn(q, b, D) - Len(q) + Len(r)
           /\ KeptIn(r, b, D) \subseteq KeptIn(q, b, D) \cup N
  BY CallsFinite, FS_CardinalityType DEF Apart, KeptIn, BatchesOf, CountIn

(* The loop's batch: the first k records, all to one destination.           *)
OneDestination(q) == \A i \in 1 .. Len(q) : q[i].to = q[1].to
Hands(c, q) ==
    \E k \in 0 .. Len(q) :
        /\ equeue' = SubSeq(q, k + 1, Len(q)) /\ ebytes' = BytesOf(equeue')
        /\ delivery' \in [DeliverCall -> CallType] /\ delivery'[c].batch = SubSeq(q, 1, k)
        /\ \A d \in DeliverCall \ {c} : delivery'[d] = delivery[d]
        /\ OneDestination(SubSeq(q, 1, k))
        /\ delivery'[c].st # "idle" /\ (delivery'[c].st # "posts" => delivery'[c].batch = <<>>)
        /\ delivery'[c].st = "waits" => delivery'[c].on \in DeliverCall

(* A loop of deliver() takes its batch: a step that hands over records.      *)
LEMMA TakingHands ==
    ASSUME delivery \in [DeliverCall -> CallType], NEW q \in Seq(Record), NEW c \in DeliverCall,
           NEW covers \in SUBSET Record, q # <<>>, TakeBatch(c, q, covers)
    PROVE  Hands(c, q)
<1> DEFINE m == Min({Len(q), EdgeBatch})
           sharing == {n \in 1 .. m : \A i \in 1 .. n : SameDestination(q[i], q[1])}
           take == Max(sharing)
           call == [IdleCall EXCEPT !.st = "posts", !.batch = SubSeq(q, 1, take), !.covers = covers]
<1>1. m \in 1 .. Len(q)
  <2>1. Len(q) \in Nat /\ Len(q) # 0 /\ EdgeBatch \in Nat \ {0}
    BY EdgeAssumption, EmptySeq
  <2>2. {Len(q), EdgeBatch} \in SUBSET Nat /\ {Len(q), EdgeBatch} # {}
    BY <2>1
  <2>3. m \in {Len(q), EdgeBatch} /\ \A x \in {Len(q), EdgeBatch} : m <= x
    <3> DEFINE S == {Len(q), EdgeBatch}
    <3> HIDE DEF S
    <3>1. Min(S) \in S /\ \A x \in S : Min(S) <= x
      BY <2>2, MinIsLeast DEF S
    <3> QED
      BY <3>1 DEF S
  <2> HIDE DEF m
  <2> QED
    BY <2>1, <2>3
<1> HIDE DEF m
<1>2. 1 \in sharing
  BY <1>1 DEF SameDestination
<1>3. take \in sharing
  <2>0. sharing \in SUBSET (1 .. m)
    OBVIOUS
  <2>1. sharing \in SUBSET (1 .. m) /\ sharing # {} /\ m \in Nat
    <3> HIDE DEF sharing
    <3> QED
      BY <1>1, <1>2, <2>0
  <2> HIDE DEF sharing
  <2> QED
    BY <2>1, LastOfLess
<1>4. take \in 1 .. Len(q) /\ \A i \in 1 .. take : q[i].to = q[1].to
  <2>1. take \in 1 .. m /\ \A i \in 1 .. take : SameDestination(q[i], q[1])
    BY <1>3
  <2> HIDE DEF take
  <2> QED
    BY <1>1, <2>1 DEF SameDestination
<1>5. /\ equeue' = SubSeq(q, take + 1, Len(q)) /\ ebytes' = BytesOf(SubSeq(q, take + 1, Len(q)))
      /\ delivery' = [delivery EXCEPT ![c] = call]
  BY DEF TakeBatch, m
<1> HIDE DEF take
<1>6. SubSeq(q, 1, take) \in Seq(Record) /\ Len(SubSeq(q, 1, take)) = take
      /\ \A i \in 1 .. take : SubSeq(q, 1, take)[i] = q[i]
  BY <1>4
<1>7. call \in CallType /\ call.st = "posts" /\ call.batch = SubSeq(q, 1, take)
  BY <1>6 DEF IdleCall, CallType
<1>8. OneDestination(SubSeq(q, 1, take))
  <2>1. 1 \in 1 .. take
    BY <1>4
  <2> QED
    BY <1>4, <1>6, <2>1 DEF OneDestination
<1>9. /\ delivery' \in [DeliverCall -> CallType] /\ delivery'[c] = call
      /\ \A d \in DeliverCall \ {c} : delivery'[d] = delivery[d]
  BY <1>5, <1>7
<1>10. take \in 0 .. Len(q)
  BY <1>4
<1> HIDE DEF call
<1> QED
  BY <1>5, <1>7, <1>8, <1>9, <1>10 DEF Hands

(* None taken. *)
LEMMA HandsNone ==
    ASSUME delivery \in [DeliverCall -> CallType], NEW q \in Seq(Record), NEW c \in DeliverCall,
           NEW call \in CallType, call.batch = <<>>, call.st \in {"waits", "returned", "ends"},
           call.st = "waits" => call.on \in DeliverCall,
           equeue' = q, ebytes' = BytesOf(q), delivery' = [delivery EXCEPT ![c] = call]
    PROVE  Hands(c, q)
<1>1. 0 \in 0 .. Len(q) /\ SubSeq(q, 0 + 1, Len(q)) = q /\ SubSeq(q, 1, 0) = <<>> /\ Len(<<>>) = 0
  OBVIOUS
<1>2. OneDestination(<<>>)
  BY DEF OneDestination
<1>3. delivery'[c] = call /\ delivery' \in [DeliverCall -> CallType] /\ \A d \in DeliverCall \ {c} : delivery'[d] = delivery[d]
  OBVIOUS
<1> QED
  BY <1>1, <1>2, <1>3 DEF Hands

(* deliver(), at once or after the flush it waited for.                      *)
LEMMA LoopHands ==
    ASSUME delivery \in [DeliverCall -> CallType], NEW q \in Seq(Record), NEW c \in DeliverCall,
           NEW covers \in SUBSET Record, StartLoop(c, q, covers), flushing \in DeliverCall \cup {None}
    PROVE  Hands(c, q) /\ flushing' \in DeliverCall \cup {None}
<1>1. CASE q # <<>> /\ TakeBatch(c, q, covers) /\ flushing' = c
  BY <1>1, TakingHands
<1>2. CASE /\ q = <<>> /\ equeue' = q /\ ebytes' = 0 /\ UNCHANGED flushing
           /\ delivery' = [delivery EXCEPT ![c] = [IdleCall EXCEPT !.st = "returned", !.covers = covers]]
  <2> DEFINE call == [IdleCall EXCEPT !.st = "returned", !.covers = covers]
  <2>1. call \in CallType /\ call.batch = <<>> /\ call.st = "returned"
    <3>1. <<>> \in Seq(Record)
      OBVIOUS
    <3> QED
      BY <3>1 DEF IdleCall, CallType
  <2>2. ebytes' = BytesOf(q)
    BY <1>2, BytesMove
  <2>3. delivery' = [delivery EXCEPT ![c] = call] /\ equeue' = q
    BY <1>2
  <2> HIDE DEF call
  <2>4. Hands(c, q)
    BY <2>1, <2>2, <2>3, HandsNone
  <2> QED
    BY <1>2, <2>4
<1> QED
  BY <1>1, <1>2 DEF StartLoop

(* deliver() as a whole.                                                     *)
LEMMA DeliverHands ==
    ASSUME delivery \in [DeliverCall -> CallType], NEW q \in Seq(Record), NEW c \in DeliverCall,
           Deliver(c, q), flushing \in DeliverCall \cup {None}
    PROVE  Hands(c, q) /\ flushing' \in DeliverCall \cup {None}
<1>0. ToSet(q) \in SUBSET Record
  BY InSequence
<1>1. CASE flushing = None /\ StartLoop(c, q, ToSet(q))
  BY <1>0, <1>1, LoopHands
<1>2. CASE /\ flushing # None /\ equeue' = q /\ ebytes' = BytesOf(q) /\ UNCHANGED flushing
           /\ delivery' = [delivery EXCEPT ![c] = [IdleCall EXCEPT !.st = "waits", !.on = flushing, !.covers = ToSet(q)]]
  <2> DEFINE call == [IdleCall EXCEPT !.st = "waits", !.on = flushing, !.covers = ToSet(q)]
  <2>1. call \in CallType /\ call.batch = <<>> /\ call.st = "waits" /\ call.on \in DeliverCall
    <3>1. <<>> \in Seq(Record)
      OBVIOUS
    <3> QED
      BY <1>0, <1>2, <3>1 DEF IdleCall, CallType
  <2>2. delivery' = [delivery EXCEPT ![c] = call] /\ equeue' = q /\ ebytes' = BytesOf(q)
    BY <1>2
  <2> HIDE DEF call
  <2>3. Hands(c, q)
    BY <2>1, <2>2, HandsNone
  <2> QED
    BY <1>2, <2>3
<1> QED
  BY <1>1, <1>2 DEF Deliver

(* What a call's state says of its batch, and that a request has a call of   *)
(* deliver() only once it is sealed.                                         *)
CallsInOrder ==
    /\ \A c \in DeliverCall :
          /\ delivery[c].st # "posts" => delivery[c].batch = <<>>
          /\ delivery[c].st = "waits" => delivery[c].on \in DeliverCall
          /\ OneDestination(delivery[c].batch)
    /\ \A r \in EdgeRequest : edge[r].st # "sealed" => delivery[r].st = "idle"

EdgeKept == KeptIn(equeue, BatchOf, delivered)
EdgeCount == CountIn(equeue, BatchOf, delivered)

(* All that is kept came from sealed requests, is kept apart, and makes up    *)
(* with what was dropped all that came.                                      *)
ExportTypes ==
    /\ equeue \in Seq(Record) /\ QueueFits(equeue) /\ ebytes = BytesOf(equeue) /\ edropped \in Nat
    /\ flushing \in DeliverCall \cup {None} /\ delivery \in [DeliverCall -> CallType] /\ delivered \subseteq Record
EdgeRuntimesOK == edge \in [EdgeRequest -> RequestType] /\ \A r \in EdgeRequest : edge[r].plain <= MaxPlain
EdgeInv ==
    /\ EdgeRuntimesOK /\ ExportTypes /\ CallsInOrder /\ Apart(equeue, BatchOf, delivered)
    /\ \A x \in EdgeKept : edge[x.of].st = "sealed"
    /\ EdgeCount + edropped = Came

(* The model's sums are those of the invariant.                              *)
LEMMA EdgeSums ==
    /\ Came = SetSum([r \in {r \in EdgeRequest : edge[r].st = "sealed" /\ edge[r].to # None} |-> edge[r].plain + 1],
                     {r \in EdgeRequest : edge[r].st = "sealed" /\ edge[r].to # None})
    /\ delivery \in [DeliverCall -> CallType] =>
         FoldFunction(LAMBDA call, sum : Len(call.batch) + sum, 0, delivery) = SetSum(BatchLens(BatchOf), DeliverCall)
<1>1. Came = SetSum([r \in {r \in EdgeRequest : edge[r].st = "sealed" /\ edge[r].to # None} |-> edge[r].plain + 1],
                    {r \in EdgeRequest : edge[r].st = "sealed" /\ edge[r].to # None})
  BY ZenonT(60) DEF Came, FoldSet, MapThenFoldSet, SetSum, SetSums, SumStep, AnyOf
<1>2. ASSUME delivery \in [DeliverCall -> CallType]
      PROVE  FoldFunction(LAMBDA call, sum : Len(call.batch) + sum, 0, delivery) = SetSum(BatchLens(BatchOf), DeliverCall)
  <2>1. FoldFunction(LAMBDA call, sum : Len(call.batch) + sum, 0, delivery)
          = SetSum([c \in DOMAIN delivery |-> Len(delivery[c].batch)], DOMAIN delivery)
    BY ZenonT(60) DEF FoldFunction, FoldFunctionOnSet, MapThenFoldSet, SetSum, SetSums, SumStep, AnyOf
  <2>2. DOMAIN delivery = DeliverCall
    BY <1>2
  <2>3. BatchLens(BatchOf) = [c \in DeliverCall |-> Len(delivery[c].batch)]
    BY DEF BatchLens, BatchOf
  <2> QED
    BY <2>1, <2>2, <2>3
<1> QED
  BY <1>1, <1>2

-----------------------------------------------------------------------------
(* The requests' own state: its type, and the records that came.             *)
RuntimeOK(runtime) == runtime \in RequestType /\ runtime.plain <= MaxPlain

(* The least of the cap and what a request has. *)
LEMMA CappedPlain ==
    ASSUME NEW n \in Nat
    PROVE  Min({MaxPlain, n}) \in Nat /\ Min({MaxPlain, n}) <= MaxPlain
<1> DEFINE S == {MaxPlain, n}
<1>1. MaxPlain \in Nat /\ S \in SUBSET Nat /\ S # {} /\ MaxPlain \in S
  BY EdgeAssumption
<1> HIDE DEF S
<1>2. Min(S) \in S /\ Min(S) <= MaxPlain /\ Min(S) \in Nat
  BY <1>1, MinIsLeast
<1> QED
  BY <1>2 DEF S

(* What logging, capturing, draining and sealing make of a request's runtime.*)
LEMMA RuntimesMove ==
    ASSUME NEW runtime, RuntimeOK(runtime)
    PROVE  /\ RuntimeOK(Recorded(runtime)) /\ Recorded(runtime).st = runtime.st /\ Recorded(runtime).to = runtime.to
           /\ \A e \in EdgeError : /\ RuntimeOK(Waiting(runtime, e)) /\ Waiting(runtime, e).st = runtime.st
                                   /\ Waiting(runtime, e).to = runtime.to
           /\ \A e \in EdgeError : LET more == [runtime EXCEPT !.captured = @ \cup {e}] IN
                 RuntimeOK(more) /\ more.st = runtime.st /\ more.to = runtime.to
           /\ \A sent \in SUBSET EdgeError, tails \in {0, 1} : IsFiniteSet(sent) =>
                 /\ RuntimeOK(DrainedOf(runtime, sent)) /\ DrainedOf(runtime, sent).st = runtime.st
                 /\ RuntimeOK(Settled(runtime, sent, tails)) /\ Settled(runtime, sent, tails).st = "sealed"
                 /\ Settled(runtime, sent, tails).to = runtime.to
<1>1. /\ runtime \in RequestType /\ runtime.plain \in Nat /\ runtime.plain <= MaxPlain /\ MaxPlain \in Nat
      /\ runtime.captured \in SUBSET EdgeError /\ runtime.pending \in Seq(EdgeError)
  BY EdgeAssumption DEF RuntimeOK, RequestType
<1>2. RuntimeOK(Recorded(runtime)) /\ Recorded(runtime).st = runtime.st /\ Recorded(runtime).to = runtime.to
  <2>1. CASE runtime.plain >= MaxPlain
    BY <2>1 DEF Recorded
  <2>2. CASE ~(runtime.plain >= MaxPlain)
    <3> DEFINE more == [runtime EXCEPT !.plain = @ + 1]
    <3>1. Recorded(runtime) = more
      BY <2>2 DEF Recorded
    <3>2. runtime.plain + 1 \in Nat /\ runtime.plain + 1 <= MaxPlain
      BY <1>1, <2>2
    <3>3. more \in RequestType /\ more.plain = runtime.plain + 1 /\ more.st = runtime.st /\ more.to = runtime.to
      BY <1>1, <3>2 DEF RequestType
    <3> QED
      BY <3>1, <3>2, <3>3 DEF RuntimeOK
  <2> QED
    BY <2>1, <2>2
<1>3. ASSUME NEW e \in EdgeError
      PROVE  RuntimeOK(Waiting(runtime, e)) /\ Waiting(runtime, e).st = runtime.st /\ Waiting(runtime, e).to = runtime.to
  <2> DEFINE more == [runtime EXCEPT !.pending = Append(@, e)]
  <2>1. Append(runtime.pending, e) \in Seq(EdgeError)
    BY <1>1
  <2>2. more \in RequestType /\ more.plain = runtime.plain /\ more.st = runtime.st /\ more.to = runtime.to
    BY <1>1, <2>1 DEF RequestType
  <2>3. Waiting(runtime, e) = runtime \/ Waiting(runtime, e) = more
    BY DEF Waiting
  <2> HIDE DEF more
  <2>4. RuntimeOK(more)
    BY <1>1, <2>2 DEF RuntimeOK
  <2> QED
    BY <2>2, <2>3, <2>4
<1>4. ASSUME NEW e \in EdgeError
      PROVE  LET more == [runtime EXCEPT !.captured = @ \cup {e}] IN
             RuntimeOK(more) /\ more.st = runtime.st /\ more.to = runtime.to
  <2> DEFINE more == [runtime EXCEPT !.captured = @ \cup {e}]
  <2>1. more \in RequestType /\ more.plain = runtime.plain /\ more.st = runtime.st /\ more.to = runtime.to
    BY <1>1 DEF RequestType
  <2> QED
    BY <1>1, <2>1 DEF RuntimeOK
<1>5. ASSUME NEW sent \in SUBSET EdgeError, NEW tails \in {0, 1}, IsFiniteSet(sent)
      PROVE  /\ RuntimeOK(DrainedOf(runtime, sent)) /\ DrainedOf(runtime, sent).st = runtime.st
             /\ RuntimeOK(Settled(runtime, sent, tails)) /\ Settled(runtime, sent, tails).st = "sealed"
             /\ Settled(runtime, sent, tails).to = runtime.to
  <2> DEFINE n == runtime.plain + Cardinality(sent)
             m == runtime.plain + Cardinality(sent) + tails
             drained == DrainedOf(runtime, sent)
             settled == Settled(runtime, sent, tails)
  <2>1. Cardinality(sent) \in Nat
    BY <1>5, FS_CardinalityType
  <2>2. n \in Nat /\ m \in Nat
    BY <1>1, <2>1
  <2>3. /\ Min({MaxPlain, n}) \in Nat /\ Min({MaxPlain, n}) <= MaxPlain
        /\ Min({MaxPlain, m}) \in Nat /\ Min({MaxPlain, m}) <= MaxPlain
    <3> HIDE DEF n, m
    <3> QED
      BY <2>2, CappedPlain
  <2>4. <<>> \in Seq(EdgeError) /\ runtime.captured \cup sent \in SUBSET EdgeError
    BY <1>1
  <2>5. drained \in RequestType /\ drained.plain = Min({MaxPlain, n}) /\ drained.st = runtime.st
    BY <1>1, <2>3, <2>4 DEF DrainedOf, RequestType
  <2>6. settled \in RequestType /\ settled.plain = Min({MaxPlain, m}) /\ settled.st = "sealed" /\ settled.to = runtime.to
    BY <1>1, <2>3, <2>4 DEF Settled, RequestType
  <2> QED
    BY <2>3, <2>5, <2>6 DEF RuntimeOK
<1> QED
  BY <1>2, <1>3, <1>4, <1>5

(* One request moves on, and stays unsealed.                                 *)
StaysUnsealed(r) ==
    /\ EdgeRuntimesOK' /\ edge[r].st # "sealed" /\ edge'[r].st # "sealed"
    /\ \A x \in EdgeRequest \ {r} : edge'[x] = edge[x]

(* A request that gets another unsealed runtime. *)
LEMMA MovesUnsealed ==
    ASSUME EdgeRuntimesOK, NEW r \in EdgeRequest, NEW runtime, RuntimeOK(runtime), runtime.st # "sealed",
           edge[r].st # "sealed", edge' = [edge EXCEPT ![r] = runtime]
    PROVE  StaysUnsealed(r)
  BY DEF EdgeRuntimesOK, RuntimeOK, StaysUnsealed

(* What a tick or the end of the handler may report is finite.               *)
LEMMA UnreportedFinite ==
    ASSUME NEW runtime, RuntimeOK(runtime), NEW sent \in SUBSET Unreported(runtime)
    PROVE  IsFiniteSet(sent) /\ sent \in SUBSET EdgeError
  BY InSequence, FS_Subset DEF RuntimeOK, RequestType, Unreported

(* Every step of a request but its last one keeps it unsealed.              *)
LEMMA RequestSteps ==
    ASSUME EdgeRuntimesOK, NEW r \in EdgeRequest,
           \/ Opens(r) \/ Warns(r) \/ TickEnds(r)
           \/ \E e \in EdgeError : LogsInRequest(r, e) \/ CapturesInRequest(r, e) \/ DegradesInRequest(r, e)
    PROVE  StaysUnsealed(r)
<1>1. RuntimeOK(edge[r])
  BY DEF EdgeRuntimesOK, RuntimeOK
<1>2. CASE Opens(r)
  <2>1. PICK to \in Destination \cup {None} : edge' = [edge EXCEPT ![r] = [@ EXCEPT !.st = "open", !.to = to]]
    BY <1>2 DEF Opens
  <2> DEFINE runtime == [edge[r] EXCEPT !.st = "open", !.to = to]
  <2>2. runtime \in RequestType /\ runtime.plain = edge[r].plain /\ runtime.st = "open"
    BY <1>1 DEF RuntimeOK, RequestType
  <2>3. edge' = [edge EXCEPT ![r] = runtime] /\ edge[r].st # "sealed"
    BY <1>2, <2>1 DEF Opens
  <2> HIDE DEF runtime
  <2>4. RuntimeOK(runtime) /\ runtime.st # "sealed"
    BY <1>1, <2>2 DEF RuntimeOK
  <2> QED
    BY <2>3, <2>4, MovesUnsealed
<1>3. CASE Warns(r)
  BY <1>3, <1>1, RuntimesMove, MovesUnsealed DEF Warns
<1>4. CASE TickEnds(r)
  <2>1. PICK sent \in SUBSET Unreported(edge[r]) : edge' = [edge EXCEPT ![r] = DrainedOf(edge[r], sent)]
    BY <1>4 DEF TickEnds
  <2>2. IsFiniteSet(sent) /\ sent \in SUBSET EdgeError /\ edge[r].st = "open"
    BY <1>1, <1>4, UnreportedFinite DEF TickEnds
  <2>3. RuntimeOK(DrainedOf(edge[r], sent)) /\ DrainedOf(edge[r], sent).st = edge[r].st
    BY <1>1, <2>2, RuntimesMove
  <2> QED
    BY <2>1, <2>2, <2>3, MovesUnsealed
<1>5. ASSUME NEW e \in EdgeError, LogsInRequest(r, e) PROVE StaysUnsealed(r)
  <2>1. PICK runtime \in {Waiting(Recorded(edge[r]), e), Waiting(edge[r], e)} : edge' = [edge EXCEPT ![r] = runtime]
    BY <1>5 DEF LogsInRequest
  <2>2. RuntimeOK(Recorded(edge[r])) /\ Recorded(edge[r]).st = edge[r].st
    BY <1>1, RuntimesMove
  <2>3. RuntimeOK(Waiting(Recorded(edge[r]), e)) /\ Waiting(Recorded(edge[r]), e).st = edge[r].st
    BY <2>2, RuntimesMove
  <2>4. RuntimeOK(Waiting(edge[r], e)) /\ Waiting(edge[r], e).st = edge[r].st
    BY <1>1, RuntimesMove
  <2>5. edge[r].st = "open"
    BY <1>5 DEF LogsInRequest
  <2>6. RuntimeOK(runtime) /\ runtime.st = "open"
    BY <2>1, <2>3, <2>4, <2>5
  <2> QED
    BY <2>1, <2>5, <2>6, MovesUnsealed
<1>6. ASSUME NEW e \in EdgeError, CapturesInRequest(r, e) PROVE StaysUnsealed(r)
  <2>1. edge[r].st = "open" /\ Captured(r, edge[r], e)
    BY <1>6 DEF CapturesInRequest
  <2>2. RuntimeOK(Recorded(edge[r])) /\ Recorded(edge[r]).st = edge[r].st
    BY <1>1, RuntimesMove
  <2> DEFINE more == [Recorded(edge[r]) EXCEPT !.captured = @ \cup {e}]
  <2>3. RuntimeOK(more) /\ more.st = edge[r].st
    BY <2>2, RuntimesMove
  <2>4. edge' = [edge EXCEPT ![r] = edge[r]] \/ edge' = [edge EXCEPT ![r] = more]
    BY <2>1 DEF Captured
  <2> HIDE DEF more
  <2>5. CASE edge' = [edge EXCEPT ![r] = edge[r]]
    BY <1>1, <2>1, <2>5, MovesUnsealed
  <2>6. CASE edge' = [edge EXCEPT ![r] = more]
    BY <2>1, <2>3, <2>6, MovesUnsealed
  <2> QED
    BY <2>4, <2>5, <2>6
<1>7. ASSUME NEW e \in EdgeError, DegradesInRequest(r, e) PROVE StaysUnsealed(r)
  <2> DEFINE more == [Recorded(edge[r]) EXCEPT !.captured = @ \cup {e}]
  <2>1. edge[r].st = "open" /\ edge' = [edge EXCEPT ![r] = more]
    BY <1>7 DEF DegradesInRequest
  <2>2. RuntimeOK(Recorded(edge[r])) /\ Recorded(edge[r]).st = edge[r].st
    BY <1>1, RuntimesMove
  <2>3. RuntimeOK(more) /\ more.st = edge[r].st
    BY <2>2, RuntimesMove
  <2> HIDE DEF more
  <2> QED
    BY <2>1, <2>3, MovesUnsealed
<1> QED
  BY <1>2, <1>3, <1>4, <1>5, <1>6, <1>7

(* The handler's end seals the request, with what it has.                    *)
LEMMA FinishSeals ==
    ASSUME EdgeRuntimesOK, NEW r \in EdgeRequest, Finishes(r)
    PROVE  /\ edge[r].st = "open"
           /\ \E runtime : /\ RuntimeOK(runtime) /\ runtime.st = "sealed" /\ runtime.to = edge[r].to
                           /\ edge' = [edge EXCEPT ![r] = runtime]
<1>1. RuntimeOK(edge[r]) /\ edge[r].st = "open"
  BY DEF EdgeRuntimesOK, RuntimeOK, Finishes
<1>2. PICK sent \in SUBSET Unreported(edge[r]), tails \in {0, 1} :
         \/ edge' = [edge EXCEPT ![r] = Settled(edge[r], sent, tails)]
         \/ \E e \in EdgeError : edge' = [edge EXCEPT ![r] =
                Settled([Recorded(edge[r]) EXCEPT !.captured = @ \cup {e}], sent, tails)]
  BY DEF Finishes
<1>3. IsFiniteSet(sent) /\ sent \in SUBSET EdgeError
  BY <1>1, UnreportedFinite
<1>4. CASE edge' = [edge EXCEPT ![r] = Settled(edge[r], sent, tails)]
  BY <1>1, <1>3, RuntimesMove, <1>4
<1>5. ASSUME NEW e \in EdgeError,
             edge' = [edge EXCEPT ![r] = Settled([Recorded(edge[r]) EXCEPT !.captured = @ \cup {e}], sent, tails)]
      PROVE  \E runtime : /\ RuntimeOK(runtime) /\ runtime.st = "sealed" /\ runtime.to = edge[r].to
                          /\ edge' = [edge EXCEPT ![r] = runtime]
  <2> DEFINE more == [Recorded(edge[r]) EXCEPT !.captured = @ \cup {e}]
             all == Settled(more, sent, tails)
  <2>1. RuntimeOK(Recorded(edge[r])) /\ Recorded(edge[r]).to = edge[r].to
    BY <1>1, RuntimesMove
  <2>2. RuntimeOK(more) /\ more.to = edge[r].to
    BY <2>1, RuntimesMove
  <2> HIDE DEF more
  <2>3. RuntimeOK(all) /\ all.st = "sealed" /\ all.to = edge[r].to
    BY <1>3, <2>2, RuntimesMove
  <2>4. edge' = [edge EXCEPT ![r] = all]
    BY <1>5 DEF more
  <2> HIDE DEF all
  <2> QED
    BY <2>3, <2>4
<1> QED
  BY <1>1, <1>2, <1>4, <1>5

(* The records that came: those of the sealed requests that had a key.       *)
Keyed(e) == {r \in EdgeRequest : e[r].st = "sealed" /\ e[r].to # None}
CameIn(e) == SetSum([r \in Keyed(e) |-> e[r].plain + 1], Keyed(e))
(* Came, in this state and in the next one. *)
LEMMA CameIs == Came = CameIn(edge) /\ Came' = CameIn(edge')
<1>1. Came = CameIn(edge)
  BY EdgeSums DEF CameIn, Keyed
<1>2. Came' = CameIn(edge')
  BY ZenonT(60) DEF Came, CameIn, Keyed, FoldSet, MapThenFoldSet, SetSum, SetSums, SumStep, AnyOf
<1> QED
  BY <1>1, <1>2

(* What came changes only when a request with a key is sealed, by its records *)
(* and its summary.                                                          *)
LEMMA CameMoves ==
    ASSUME NEW e \in [EdgeRequest -> RequestType]
    PROVE  /\ CameIn(e) \in Nat
           /\ \A d \in [EdgeRequest -> RequestType] :
                 (\A r \in EdgeRequest : IF e[r].st = "sealed" THEN d[r] = e[r] ELSE d[r].st # "sealed") =>
                    CameIn(d) = CameIn(e)
           /\ \A r \in EdgeRequest : \A runtime \in RequestType :
                 e[r].st # "sealed" /\ runtime.st = "sealed" =>
                    CameIn([e EXCEPT ![r] = runtime])
                      = CameIn(e) + (IF runtime.to = None THEN 0 ELSE runtime.plain + 1)
<1> DEFINE K == Keyed(e)
           w == [r \in K |-> e[r].plain + 1]
<1>1. \A d \in [EdgeRequest -> RequestType] : \A r \in EdgeRequest : d[r].plain \in Nat
  BY DEF RequestType
<1>2. \A d : Keyed(d) \in SUBSET EdgeRequest /\ IsFiniteSet(Keyed(d))
  BY EdgeAssumption, FS_Subset DEF Keyed
<1>3. w \in [K -> Nat] /\ w \in [K -> Int] /\ CameIn(e) = SetSum(w, K)
  BY <1>1 DEF Keyed, CameIn
<1>4. CameIn(e) \in Nat
  <2> HIDE DEF w, K
  <2>1. SetSum(w, K) \in Nat
    BY <1>2, <1>3, SetSumNatural DEF K
  <2> QED
    BY <1>3, <2>1
<1>5. ASSUME NEW d \in [EdgeRequest -> RequestType],
             \A r \in EdgeRequest : IF e[r].st = "sealed" THEN d[r] = e[r] ELSE d[r].st # "sealed"
      PROVE  CameIn(d) = CameIn(e)
  BY <1>5 DEF Keyed, CameIn
<1>6. ASSUME NEW r \in EdgeRequest, NEW runtime \in RequestType, e[r].st # "sealed", runtime.st = "sealed"
      PROVE  CameIn([e EXCEPT ![r] = runtime]) = CameIn(e) + (IF runtime.to = None THEN 0 ELSE runtime.plain + 1)
  <2> DEFINE d == [e EXCEPT ![r] = runtime]
  <2>1. d \in [EdgeRequest -> RequestType] /\ d[r] = runtime /\ \A x \in EdgeRequest \ {r} : d[x] = e[x]
    OBVIOUS
  <2> HIDE DEF d
  <2>2. CASE runtime.to = None
    BY <1>6, <2>1, <2>2, <1>4 DEF Keyed, CameIn, d
  <2>3. CASE runtime.to # None
    <3> DEFINE v == [x \in K \cup {r} |-> d[x].plain + 1]
    <3>1. Keyed(d) = K \cup {r} /\ r \notin K
      BY <1>6, <2>1, <2>3 DEF Keyed
    <3>2. CameIn(d) = SetSum(v, K \cup {r})
      BY <3>1 DEF CameIn
    <3>3. v \in [K \cup {r} -> Int] /\ v[r] = runtime.plain + 1 /\ \A x \in K : w[x] = v[x]
      <4>1. \A x \in K \cup {r} : x \in EdgeRequest
        BY DEF Keyed
      <4>2. \A x \in K : d[x] = e[x]
        BY <2>1, <3>1, <4>1
      <4> HIDE DEF K
      <4> QED
        BY <1>1, <2>1, <4>1, <4>2
    <3>4. IsFiniteSet(K)
      BY <1>2
    <3> HIDE DEF v, w, K
    <3>5. SetSum(v, K \cup {r}) = SetSum(w, K) + v[r]
      <4>1. /\ IsFiniteSet(K) /\ r \notin K /\ v \in [K \cup {r} -> Int] /\ w \in [K -> Int]
            /\ \A x \in K : w[x] = v[x]
        BY <1>3, <3>1, <3>3, <3>4
      <4> QED
        BY ZenonT(60), <4>1, SetSumAdd
    <3> QED
      BY <1>3, <2>3, <3>2, <3>3, <3>5 DEF d
  <2> QED
    BY <2>2, <2>3
<1> QED
  BY <1>4, <1>5, <1>6

-----------------------------------------------------------------------------
(* What is kept are records. *)
LEMMA KeptAreRecords ==
    ASSUME NEW q, NEW b, NEW D, Apart(q, b, D)
    PROVE  KeptIn(q, b, D) \subseteq Record /\ \A x \in KeptIn(q, b, D) : x.of \in EdgeRequest
<1>1. q \in Seq(Record) /\ b \in [DeliverCall -> Seq(Record)] /\ D \subseteq Record
  BY DEF Apart
<1>2. ToSet(q) \subseteq Record
  BY <1>1, InSequence
<1>3. ASSUME NEW c \in DeliverCall PROVE ToSet(b[c]) \subseteq Record
  <2>1. b[c] \in Seq(Record)
    BY <1>1
  <2> QED
    BY <2>1, InSequence
<1>4. KeptIn(q, b, D) \subseteq Record
  BY <1>1, <1>2, <1>3 DEF KeptIn, BatchesOf
<1> QED
  BY <1>4 DEF Record

(* A step of the requests that leaves the exporter alone.                    *)
LEMMA ExporterStill ==
    ASSUME EdgeInv, UNCHANGED exportVars, EdgeRuntimesOK',
           \A r \in EdgeRequest : IF edge[r].st = "sealed" THEN edge'[r] = edge[r] ELSE edge'[r].st # "sealed"
    PROVE  EdgeInv'
  BY KeptAreRecords, CameMoves, CameIs DEF exportVars, BatchOf, EdgeKept, EdgeCount, EdgeInv,
     ExportTypes, CallsInOrder, EdgeRuntimesOK

(* A step of deliver() on queue q, where call c has no batch, b are the       *)
(* others' batches, and D was delivered.                                     *)
LEMMA ExporterHands ==
    ASSUME ExportTypes, CallsInOrder, EdgeRuntimesOK', NEW c \in DeliverCall, NEW q, NEW b, NEW D,
           Apart(q, b, D), QueueFits(q), b = Rebatched(BatchOf, c, <<>>), Hands(c, q),
           flushing' \in DeliverCall \cup {None}, delivered' = D, edropped' \in Nat,
           CountIn(q, b, D) + edropped' = Came', \A x \in KeptIn(q, b, D) : edge'[x.of].st = "sealed",
           \A r \in EdgeRequest : edge'[r].st # "sealed" => edge[r].st # "sealed" /\ delivery'[r] = delivery[r]
    PROVE  EdgeInv'
<1>1. PICK k \in 0 .. Len(q) :
        /\ equeue' = SubSeq(q, k + 1, Len(q)) /\ ebytes' = BytesOf(equeue')
        /\ delivery' \in [DeliverCall -> CallType] /\ delivery'[c].batch = SubSeq(q, 1, k)
        /\ \A d \in DeliverCall \ {c} : delivery'[d] = delivery[d]
        /\ OneDestination(SubSeq(q, 1, k))
        /\ delivery'[c].st # "idle" /\ (delivery'[c].st # "posts" => delivery'[c].batch = <<>>)
        /\ delivery'[c].st = "waits" => delivery'[c].on \in DeliverCall
  BY DEF Hands
<1>2. q \in Seq(Record) /\ b[c] = <<>> /\ D \subseteq Record
  BY DEF Apart, BatchOf, Rebatched
<1> DEFINE left == SubSeq(q, k + 1, Len(q))
           taken == Rebatched(b, c, SubSeq(q, 1, k))
<1>3. Apart(left, taken, D) /\ CountIn(left, taken, D) = CountIn(q, b, D) /\ KeptIn(left, taken, D) = KeptIn(q, b, D)
  BY <1>2, BatchTaken
<1>4. BatchOf' = taken
  <2>1. BatchOf' = [d \in DeliverCall |-> delivery'[d].batch]
    BY DEF BatchOf
  <2>2. taken = [d \in DeliverCall |-> IF d = c THEN SubSeq(q, 1, k) ELSE delivery[d].batch]
    BY DEF BatchOf, Rebatched
  <2>3. \A d \in DeliverCall : delivery'[d].batch = IF d = c THEN SubSeq(q, 1, k) ELSE delivery[d].batch
    BY <1>1
  <2> HIDE DEF taken
  <2> QED
    BY <2>1, <2>2, <2>3
<1>5. equeue' = left /\ delivered' = D
  BY <1>1
<1> HIDE DEF taken
<1>6. left \in Seq(Record) /\ QueueFits(left)
  <2>1. left \in Seq(Record) /\ Len(left) = Len(q) - k /\ BytesOf(left) <= BytesOf(q)
    BY <1>2, QueueSplits
  <2>2. BytesOf(left) \in Nat /\ BytesOf(q) \in Nat /\ Len(q) \in Nat /\ MaxEdgeQueue \in Nat /\ MaxEdgeBytes \in Nat
    <3>1. left \in Seq(Record) /\ q \in Seq(Record)
      BY <1>2, <2>1
    <3> HIDE DEF left
    <3> QED
      BY <3>1, BytesMove, EdgeAssumption
  <2> HIDE DEF left
  <2> QED
    BY <2>1, <2>2 DEF QueueFits
<1> HIDE DEF left
<1>7. ExportTypes'
  BY <1>1, <1>2, <1>5, <1>6 DEF ExportTypes, QueueFits
<1>8. CallsInOrder'
  <2>1. ASSUME NEW d \in DeliverCall
        PROVE  /\ delivery'[d].st # "posts" => delivery'[d].batch = <<>>
               /\ delivery'[d].st = "waits" => delivery'[d].on \in DeliverCall
               /\ OneDestination(delivery'[d].batch)
    <3>1. CASE d = c
      BY <1>1, <3>1
    <3>2. CASE d # c
      BY <1>1, <3>2 DEF CallsInOrder
    <3> QED
      BY <3>1, <3>2
  <2>2. \A r \in EdgeRequest : edge'[r].st # "sealed" => delivery'[r].st = "idle"
    BY DEF CallsInOrder
  <2>3. \A d \in DeliverCall : OneDestination(delivery'[d].batch) <=> OneDestination(delivery[d].batch)'
    BY DEF OneDestination
  <2> QED
    BY <2>1, <2>2, <2>3 DEF CallsInOrder
<1>9. Apart(equeue', BatchOf', delivered') /\ EdgeKept' = KeptIn(q, b, D) /\ EdgeCount' = CountIn(q, b, D)
  BY <1>3, <1>4, <1>5 DEF EdgeKept, EdgeCount
<1>10. Apart(equeue, BatchOf, delivered)'
  BY <1>9
<1> QED
  BY <1>7, <1>8, <1>9, <1>10 DEF EdgeInv

(* The calls of the exporter keep what is queued, in a batch, delivered or   *)
(* counted as dropped.                                                       *)
LEMMA ExporterSteps ==
    ASSUME EdgeInv, NEW c \in DeliverCall,
           PostSettles(c) \/ LoopEnds(c) \/ WaitOver(c) \/ (c \in EdgeFlush /\ FlushCalled(c))
    PROVE  EdgeInv'
<1>0. /\ EdgeRuntimesOK /\ ExportTypes /\ CallsInOrder /\ Apart(equeue, BatchOf, delivered)
      /\ (\A x \in EdgeKept : edge[x.of].st = "sealed") /\ EdgeCount + edropped = Came
      /\ delivery \in [DeliverCall -> CallType] /\ equeue \in Seq(Record) /\ QueueFits(equeue) /\ ebytes = BytesOf(equeue)
      /\ flushing \in DeliverCall \cup {None} /\ edropped \in Nat
  BY DEF EdgeInv, ExportTypes
<1>1. edge' = edge /\ EdgeRuntimesOK' /\ Came' = Came
  <2>1. edge' = edge
    BY DEF PostSettles, LoopEnds, WaitOver, FlushCalled
  <2> QED
    BY <1>0, <2>1, CameIs DEF EdgeRuntimesOK
<1> DEFINE b == Rebatched(BatchOf, c, <<>>)
<1>2. ASSUME NEW D, Hands(c, equeue), flushing' \in DeliverCall \cup {None}, delivered' = D, edropped' \in Nat,
             Apart(equeue, b, D), CountIn(equeue, b, D) + edropped' = Came, KeptIn(equeue, b, D) \subseteq EdgeKept,
             delivery[c].st # "idle" \/ c \notin EdgeRequest
      PROVE  EdgeInv'
  BY <1>0, <1>1, <1>2, ExporterHands DEF CallsInOrder, DeliverCall, Hands
<1>3. ASSUME Hands(c, equeue), flushing' \in DeliverCall \cup {None}, UNCHANGED <<delivered, edropped>>,
             delivery[c].batch = <<>>, delivery[c].st # "idle" \/ c \notin EdgeRequest
      PROVE  EdgeInv'
  <2>1. b = BatchOf
    BY <1>3 DEF BatchOf, Rebatched
  <2>2. Apart(equeue, b, delivered) /\ CountIn(equeue, b, delivered) + edropped' = Came /\ KeptIn(equeue, b, delivered) = EdgeKept
    BY <1>0, <1>3, <2>1 DEF EdgeCount, EdgeKept
  <2> HIDE DEF b
  <2> QED
    BY <1>0, <1>2, <1>3, <2>2
<1>4. CASE c \in EdgeFlush /\ FlushCalled(c)
  BY <1>4, <1>0, DeliverHands, EdgeAssumption, <1>3 DEF FlushCalled, CallsInOrder
<1>5. CASE WaitOver(c)
  BY <1>5, <1>0, LoopHands, <1>3 DEF WaitOver, CallType, CallsInOrder
<1>6. CASE LoopEnds(c)
  <2> DEFINE call == [delivery[c] EXCEPT !.st = "returned"]
  <2>1. /\ delivery[c].st = "ends" /\ flushing' = None /\ delivery' = [delivery EXCEPT ![c] = call]
        /\ UNCHANGED <<equeue, ebytes, edropped, delivered>>
    BY <1>6 DEF LoopEnds
  <2>2. delivery[c].batch = <<>> /\ delivery[c] \in CallType
    BY <1>0, <2>1 DEF CallsInOrder
  <2>3. call \in CallType /\ call.batch = <<>> /\ call.st = "returned"
    BY <2>2 DEF CallType
  <2> HIDE DEF call
  <2>4. Hands(c, equeue)
    BY <1>0, <2>1, <2>3, HandsNone
  <2>5. flushing' \in DeliverCall \cup {None} /\ delivery[c].st # "idle" /\ UNCHANGED <<delivered, edropped>>
    BY <2>1
  <2> QED
    BY <1>3, <2>2, <2>4, <2>5
<1>7. CASE PostSettles(c)
  <2> DEFINE batch == delivery[c].batch
  <2>1. /\ delivery[c].st = "posts" /\ UNCHANGED flushing
        /\ \/ delivered' = delivered \cup ToSet(batch) /\ UNCHANGED edropped
           \/ edropped' = edropped + Len(batch) /\ UNCHANGED delivered
        /\ IF equeue # <<>> THEN TakeBatch(c, equeue, delivery[c].covers)
           ELSE /\ delivery' = [delivery EXCEPT ![c] = [@ EXCEPT !.st = "ends", !.batch = <<>>]]
                /\ UNCHANGED <<equeue, ebytes>>
    BY <1>7 DEF PostSettles
  <2>2. Hands(c, equeue)
    <3>1. CASE equeue # <<>>
      BY <1>0, <2>1, <3>1, TakingHands DEF CallType
    <3>2. CASE equeue = <<>>
      <4> DEFINE call == [delivery[c] EXCEPT !.st = "ends", !.batch = <<>>]
      <4>1. delivery[c] \in CallType /\ <<>> \in Seq(Record)
        BY <1>0
      <4>2. call \in CallType /\ call.batch = <<>> /\ call.st = "ends"
        BY <4>1 DEF CallType
      <4>3. delivery' = [delivery EXCEPT ![c] = call] /\ equeue' = equeue /\ ebytes' = BytesOf(equeue)
        BY <1>0, <2>1, <3>2
      <4> HIDE DEF call
      <4> QED
        BY <1>0, <4>2, <4>3, HandsNone
    <3> QED
      BY <3>1, <3>2
  <2>3. BatchOf[c] = batch
    BY DEF BatchOf
  <2> DEFINE done == delivered \cup ToSet(batch)
  <2>4. /\ Apart(equeue, b, done) /\ CountIn(equeue, b, done) = EdgeCount /\ KeptIn(equeue, b, done) = EdgeKept
        /\ Apart(equeue, b, delivered) /\ CountIn(equeue, b, delivered) = EdgeCount - Len(batch)
        /\ KeptIn(equeue, b, delivered) \subseteq EdgeKept
        /\ EdgeCount \in Nat /\ Len(batch) \in Nat
    <3>1. \A D : Apart(equeue, BatchOf, D) =>
            /\ Apart(equeue, b, D \cup ToSet(batch)) /\ Apart(equeue, b, D)
            /\ CountIn(equeue, b, D \cup ToSet(batch)) = CountIn(equeue, BatchOf, D)
            /\ KeptIn(equeue, b, D \cup ToSet(batch)) = KeptIn(equeue, BatchOf, D)
            /\ CountIn(equeue, b, D) = CountIn(equeue, BatchOf, D) - Len(batch)
            /\ KeptIn(equeue, b, D) \subseteq KeptIn(equeue, BatchOf, D)
            /\ CountIn(equeue, BatchOf, D) \in Nat /\ Len(batch) \in Nat
      BY <2>3, BatchSettles
    <3> HIDE DEF b, batch
    <3> QED
      BY <1>0, <3>1 DEF EdgeCount, EdgeKept
  <2>5. flushing' \in DeliverCall \cup {None} /\ delivery[c].st # "idle"
    BY <1>0, <2>1
  <2> HIDE DEF b, done, batch
  <2>6. CASE delivered' = done /\ edropped' = edropped
    BY <1>0, <2>4, <2>6, <1>2, <2>2, <2>5
  <2>7. CASE delivered' = delivered /\ edropped' = edropped + Len(batch)
    BY <1>0, <2>4, <2>7, <1>2, <2>2, <2>5
  <2> QED
    BY <2>1, <2>6, <2>7 DEF done, batch
<1> QED
  BY <1>4, <1>5, <1>6, <1>7

(* A request's end puts what it leaves into the queue: queue q is within its  *)
(* bounds, what does not enter is counted, and its summary is left out only  *)
(* where nothing but summaries is queued.                                    *)
Queued(r, q) ==
    /\ Apart(q, BatchOf, delivered) /\ QueueFits(q) /\ edropped' \in Nat
    /\ CountIn(q, BatchOf, delivered) + edropped' = Came'
    /\ \A x \in KeptIn(q, BatchOf, delivered) : edge'[x.of].st = "sealed"
    /\ edge[r].to = None \/ (\E x \in ToSet(q) : x.of = r /\ x.summary) \/ Plain(q) = {}
    /\ Deliver(r, q)
(* What Finishes does, with the queue the records entered. *)
LEMMA FinishQueues ==
    ASSUME EdgeInv, NEW r \in EdgeRequest, Finishes(r)
    PROVE  /\ \E q : Queued(r, q)
           /\ EdgeRuntimesOK' /\ edge[r].st = "open" /\ edge'[r].st = "sealed" /\ edge'[r].to = edge[r].to
           /\ (\A x \in EdgeRequest \ {r} : edge'[x] = edge[x]) /\ delivered' = delivered
<1>0. /\ EdgeRuntimesOK /\ ExportTypes /\ CallsInOrder /\ Apart(equeue, BatchOf, delivered)
      /\ (\A x \in EdgeKept : edge[x.of].st = "sealed") /\ EdgeCount + edropped = Came
      /\ equeue \in Seq(Record) /\ QueueFits(equeue) /\ edropped \in Nat
  BY DEF EdgeInv, ExportTypes
<1>1. edge[r].st = "open"
  BY <1>0, FinishSeals
<1>2. PICK runtime : /\ RuntimeOK(runtime) /\ runtime.st = "sealed" /\ runtime.to = edge[r].to
                     /\ edge' = [edge EXCEPT ![r] = runtime]
  BY <1>0, FinishSeals
<1>3. /\ edge'[r] = runtime /\ (\A x \in EdgeRequest \ {r} : edge'[x] = edge[x]) /\ EdgeRuntimesOK'
      /\ edge \in [EdgeRequest -> RequestType] /\ runtime \in RequestType
      /\ runtime.plain \in Nat /\ runtime.to \in Destination \cup {None}
  BY <1>0, <1>2 DEF EdgeRuntimesOK, RuntimeOK, RequestType
<1> DEFINE came == IF runtime.to = None THEN 0 ELSE runtime.plain + 1
           s == Emitted(r, runtime)
           queue == IF edge[r].to = None THEN equeue ELSE FoldLeft(Enqueued, equeue, s)
<1>4. edropped' = edropped + Len(equeue) + came - Len(queue) /\ Deliver(r, queue) /\ delivered' = delivered
  BY <1>2, <1>3 DEF Finishes
<1>5. Came' = Came + came
  BY <1>1, <1>2, <1>3, CameMoves, CameIs
<1>6. /\ EdgeKept \subseteq Record /\ \A x \in EdgeKept : x.of \in EdgeRequest /\ x.of # r /\ edge'[x.of].st = "sealed"
  BY <1>0, KeptAreRecords, <1>1, <1>3 DEF EdgeKept
<1>7. ASSUME NEW N, ToSet(queue) \subseteq ToSet(equeue) \cup N, N \cap EdgeKept = {}, \A x \in N : x.of = r,
             queue \in Seq(Record), Injective(queue), QueueFits(queue), Len(queue) <= Len(equeue) + came,
             edge[r].to = None \/ (\E x \in ToSet(queue) : x.of = r /\ x.summary) \/ Plain(queue) = {}
      PROVE  Queued(r, queue)
  <2> HIDE DEF queue
  <2>1. /\ Apart(queue, BatchOf, delivered) /\ CountIn(queue, BatchOf, delivered) = EdgeCount - Len(equeue) + Len(queue)
        /\ KeptIn(queue, BatchOf, delivered) \subseteq EdgeKept \cup N
    BY <1>0, <1>7, QueueReplaced DEF EdgeKept, EdgeCount
  <2>2. \A x \in KeptIn(queue, BatchOf, delivered) : edge'[x.of].st = "sealed"
    BY <1>2, <1>3, <1>6, <1>7, <2>1
  <2>3. Len(equeue) \in Nat /\ Len(queue) \in Nat /\ came \in Nat /\ EdgeCount \in Nat
    BY <1>0, ApartCounts, FS_CardinalityType, <1>7, <1>3 DEF EdgeKept, EdgeCount
  <2> HIDE DEF came
  <2>4. edropped' \in Nat
    BY <1>0, <1>4, <1>7, <2>3
  <2>5. CountIn(queue, BatchOf, delivered) + edropped' = Came'
    BY <1>0, <1>4, <1>5, <2>1, <2>3
  <2> QED
    BY <1>4, <1>7, <2>1, <2>2, <2>4, <2>5 DEF Queued
<1>8. CASE edge[r].to = None
  <2>1. queue = equeue /\ came = 0
    BY <1>2, <1>8
  <2>2. Injective(equeue) /\ Len(equeue) \in Nat
    BY <1>0 DEF Apart
  <2> HIDE DEF queue, came
  <2>3. ToSet(queue) \subseteq ToSet(equeue) \cup {} /\ {} \cap EdgeKept = {} /\ Len(queue) <= Len(equeue) + came
    BY <2>1, <2>2
  <2>4. Queued(r, queue)
    BY <1>0, <1>7, <1>8, <2>1, <2>2, <2>3
  <2> QED
    BY <1>1, <1>2, <1>3, <1>4, <2>4
<1>9. CASE edge[r].to # None
  <2>1. runtime.to \in Destination /\ came = runtime.plain + 1 /\ queue = FoldLeft(Enqueued, equeue, s)
    BY <1>2, <1>3, <1>9
  <2>2. /\ s \in Seq(Record) /\ Len(s) = came /\ s # <<>> /\ Injective(s)
        /\ s[Len(s)].summary /\ s[Len(s)].of = r /\ \A x \in ToSet(s) : x.of = r
    BY <1>3, <2>1, EmittedFacts
  <2> HIDE DEF s, queue, came
  <2>3. ToSet(s) \cap EdgeKept = {} /\ ToSet(s) \cap ToSet(equeue) = {}
    BY <1>6, <2>2 DEF EdgeKept, KeptIn
  <2>4. Injective(equeue)
    BY <1>0 DEF Apart
  <2>5. /\ queue \in Seq(Record) /\ QueueFits(queue) /\ Injective(queue)
        /\ ToSet(queue) \subseteq ToSet(equeue) \cup ToSet(s) /\ Len(queue) <= Len(equeue) + came
        /\ s[Len(s)] \in ToSet(queue) \/ Plain(queue) = {}
    BY <1>0, <2>1, <2>2, <2>3, <2>4, QueueAfter
  <2>6. Queued(r, queue)
    BY <1>7, <2>2, <2>3, <2>5
  <2> QED
    BY <1>1, <1>2, <1>3, <1>4, <2>6
<1> QED
  BY <1>8, <1>9

(* A request's end keeps the invariant.                                      *)
LEMMA FinishSteps ==
    ASSUME EdgeInv, NEW r \in EdgeRequest, Finishes(r)
    PROVE  EdgeInv'
<1>1. /\ EdgeRuntimesOK' /\ edge[r].st = "open" /\ edge'[r].st = "sealed" /\ delivered' = delivered
      /\ (\A x \in EdgeRequest \ {r} : edge'[x] = edge[x])
  BY FinishQueues
<1>2. PICK q : Queued(r, q)
  BY FinishQueues
<1>3. /\ ExportTypes /\ CallsInOrder /\ delivery \in [DeliverCall -> CallType] /\ r \in DeliverCall
      /\ flushing \in DeliverCall \cup {None} /\ q \in Seq(Record)
  BY <1>2 DEF EdgeInv, ExportTypes, DeliverCall, Queued, Apart
<1>4. delivery[r].st = "idle" /\ delivery[r].batch = <<>>
  BY <1>1, <1>3 DEF CallsInOrder
<1>5. Rebatched(BatchOf, r, <<>>) = BatchOf
  BY <1>3, <1>4 DEF Rebatched, BatchOf
<1>6. Hands(r, q) /\ flushing' \in DeliverCall \cup {None}
  BY <1>2, <1>3, DeliverHands DEF Queued
<1>7. \A x \in EdgeRequest : edge'[x].st # "sealed" => edge[x].st # "sealed" /\ delivery'[x] = delivery[x]
  BY <1>6, <1>1 DEF Hands, DeliverCall
<1> QED
  BY <1>1, <1>2, <1>3, <1>5, <1>6, <1>7, ExporterHands DEF Queued

(* Every step of the isolate keeps the invariant, which holds at the start.  *)
LEMMA EdgeSteps ==
    ASSUME EdgeInv, [EdgeNext]_edgeVars
    PROVE  EdgeInv'
<1>0. EdgeRuntimesOK
  BY DEF EdgeInv
<1>1. ASSUME NEW r \in EdgeRequest, StaysUnsealed(r), UNCHANGED exportVars PROVE EdgeInv'
  BY <1>1, ExporterStill DEF StaysUnsealed
<1>2. ASSUME UNCHANGED edge, UNCHANGED exportVars PROVE EdgeInv'
  BY <1>2, <1>0, ExporterStill DEF EdgeRuntimesOK
<1>3. CASE \E c \in DeliverCall : PostSettles(c) \/ LoopEnds(c) \/ WaitOver(c)
  BY <1>3, ExporterSteps
<1>4. CASE \E c \in EdgeFlush : FlushCalled(c)
  BY <1>4, ExporterSteps DEF DeliverCall
<1>5. ASSUME NEW r \in EdgeRequest, Finishes(r) PROVE EdgeInv'
  BY <1>5, FinishSteps
<1>6. ASSUME NEW r \in EdgeRequest, Opens(r) \/ Warns(r) \/ TickEnds(r) PROVE EdgeInv'
  BY <1>6, <1>0, RequestSteps, <1>1 DEF Opens, Warns, TickEnds
<1>7. ASSUME NEW r \in EdgeRequest, NEW e \in EdgeError,
             LogsInRequest(r, e) \/ CapturesInRequest(r, e) \/ DegradesInRequest(r, e)
      PROVE  EdgeInv'
  BY <1>7, <1>0, RequestSteps, <1>1 DEF LogsInRequest, CapturesInRequest, DegradesInRequest
<1>8. ASSUME NEW e \in EdgeError, LogsOutside(e) \/ LateTick(e) \/ CapturesOutside(e) \/ DegradesOutside(e)
      PROVE  EdgeInv'
  BY <1>8, <1>2 DEF LogsOutside, LateTick, CapturesOutside, DegradesOutside
<1>9. CASE UNCHANGED edgeVars
  BY <1>2, <1>9 DEF edgeVars, exportVars
<1> QED
  BY <1>3, <1>4, <1>5, <1>6, <1>7, <1>8, <1>9 DEF EdgeNext

(* It holds at the start: nothing is kept, and nothing came.                 *)
LEMMA EdgeStarts == EdgeInit => EdgeInv
<1> SUFFICES ASSUME EdgeInit PROVE EdgeInv
  OBVIOUS
<1>0. /\ edge = [r \in EdgeRequest |-> [st |-> "new", to |-> None, plain |-> 0, pending |-> <<>>, captured |-> {}]]
      /\ equeue = <<>> /\ ebytes = 0 /\ edropped = 0 /\ flushing = None
      /\ delivery = [c \in DeliverCall |-> IdleCall] /\ delivered = {}
  BY DEF EdgeInit
<1>1. <<>> \in Seq(EdgeError) /\ <<>> \in Seq(Record) /\ Len(<<>>) = 0 /\ MaxPlain \in Nat /\ MaxEdgeQueue \in Nat /\ MaxEdgeBytes \in Nat
  BY EdgeAssumption
<1>2. EdgeRuntimesOK
  BY <1>1, <1>0 DEF RequestType, EdgeRuntimesOK
<1>3. BytesOf(<<>>) = 0
  BY <1>1, BytesMove
<1>4. IdleCall \in CallType /\ IdleCall.batch = <<>> /\ IdleCall.st = "idle"
  BY <1>1 DEF IdleCall, CallType
<1>5. ExportTypes
  BY <1>0, <1>1, <1>3, <1>4 DEF ExportTypes, QueueFits
<1>6. CallsInOrder
  BY <1>0, <1>4 DEF OneDestination, CallsInOrder, DeliverCall
<1> DEFINE none == [c \in DeliverCall |-> <<>>]
<1>7. BatchOf = none
  BY <1>0, <1>4 DEF BatchOf
<1>8. Injective(<<>>) /\ ToSet(<<>>) = {}
  <2>1. DOMAIN <<>> = {}
    OBVIOUS
  <2> QED
    BY <2>1 DEF Injective, ToSet
<1>9. Apart(<<>>, none, {})
  <2>1. none \in [DeliverCall -> Seq(Record)] /\ \A c \in DeliverCall : none[c] = <<>>
    BY <1>1
  <2>2. IsFiniteSet({})
    BY FS_EmptySet
  <2> HIDE DEF none
  <2> QED
    BY <1>1, <1>8, <2>1, <2>2 DEF Apart
<1>10. KeptIn(<<>>, none, {}) = {}
  <2>1. \A c \in DeliverCall : ToSet(none[c]) = {}
    BY <1>8
  <2> HIDE DEF none
  <2> QED
    BY <1>8, <2>1 DEF KeptIn, BatchesOf
<1>11. CountIn(<<>>, none, {}) = 0
  BY FS_EmptySet, <1>9, ApartCounts, <1>10
<1>12. Came = 0
  <2>1. Keyed(edge) = {}
    BY <1>0 DEF Keyed
  <2>2. CameIn(edge) = SetSum([r \in {} |-> edge[r].plain + 1], {})
    BY <2>1 DEF CameIn
  <2> DEFINE w == [r \in {} |-> edge[r].plain + 1]
  <2>3. w \in [{} -> Int] /\ IsFiniteSet({})
    BY FS_EmptySet
  <2> HIDE DEF w
  <2>4. SetSum(w, {}) = 0
    BY <2>3, SetSumZero
  <2>5. SetSum([r \in {} |-> edge[r].plain + 1], {}) = 0
    BY <2>4 DEF w
  <2> QED
    BY <2>2, <2>5, CameIs
<1>13. Apart(equeue, BatchOf, delivered) /\ EdgeKept = {} /\ EdgeCount = 0
  BY <1>0, <1>7, <1>9, <1>10, <1>11 DEF EdgeKept, EdgeCount
<1> QED
  BY <1>0, <1>2, <1>5, <1>6, <1>12, <1>13 DEF EdgeInv

(* The invariant implies that the records are kept.                          *)
LEMMA EdgeHolds == EdgeInv => EdgeRecordsKept
<1> SUFFICES ASSUME EdgeInv PROVE EdgeRecordsKept
  OBVIOUS
<1>0. /\ delivery \in [DeliverCall -> CallType] /\ Apart(equeue, BatchOf, delivered) /\ EdgeCount + edropped = Came
      /\ CallsInOrder
  BY DEF EdgeInv, ExportTypes
<1>1. Len(equeue) + FoldFunction(LAMBDA call, sum : Len(call.batch) + sum, 0, delivery)
        + Cardinality(delivered) + edropped = Came
  BY <1>0, EdgeSums DEF EdgeCount, CountIn
<1>2. Cardinality(ToSet(equeue) \cup Batched \cup delivered) + edropped = Came
  <2>1. Batched = BatchesOf(BatchOf)
    BY DEF Batched, BatchesOf, BatchOf
  <2>2. EdgeKept = ToSet(equeue) \cup Batched \cup delivered
    BY <2>1 DEF EdgeKept, KeptIn
  <2>3. Cardinality(EdgeKept) = EdgeCount
    BY <1>0, ApartCounts DEF EdgeKept, EdgeCount
  <2> QED
    BY <1>0, <2>2, <2>3
<1>3. ASSUME NEW c \in DeliverCall PROVE Cardinality({x.to : x \in ToSet(delivery[c].batch)}) <= 1
  <2> DEFINE batch == delivery[c].batch
             all == {x.to : x \in ToSet(batch)}
  <2>1. batch \in Seq(Record) /\ OneDestination(batch)
    BY <1>0 DEF CallsInOrder, CallType
  <2>2. \A x \in ToSet(batch) : x.to = batch[1].to
    <3> HIDE DEF batch
    <3>1. \A x \in ToSet(batch) : \E i \in 1 .. Len(batch) : batch[i] = x
      BY <2>1, InSequence
    <3> QED
      BY <2>1, <3>1 DEF OneDestination
  <2>3. CASE all = {}
    BY <2>3, FS_EmptySet
  <2>4. CASE all # {}
    <3>1. all = {batch[1].to}
      BY <2>2, <2>4
    <3>2. Cardinality({batch[1].to}) = 1
      BY FS_Singleton
    <3> QED
      BY <3>1, <3>2
  <2> QED
    BY <2>3, <2>4
<1> QED
  BY <1>1, <1>2, <1>3 DEF EdgeRecordsKept

(* The records of finished requests are kept: the invariant, for any        *)
(* requests, calls, destinations, caps and budgets.                         *)
THEOREM EdgeInvariant == EdgeSpec => [](EdgeInv /\ EdgeRecordsKept)
<1> QED
  BY EdgeStarts, EdgeSteps, EdgeHolds, PTL DEF EdgeSpec

(* A summary is left out only where nothing but summaries is kept            *)
(* (index.ts:444-445), whatever the queue, the budgets and the flushes are.  *)
LEMMA EdgeSummariesStay == EdgeSpec => SummariesLeaveLast
<1>1. ASSUME EdgeInv, NEW r \in EdgeRequest, Finishes(r), edge'[r].to # None
      PROVE  SummaryKept(r)
  <2> DEFINE kept == ToSet(equeue') \cup ToSet(delivery'[r].batch)
  <2>1. PICK q : Queued(r, q)
    BY <1>1, FinishQueues
  <2>2. edge'[r].to = edge[r].to
    BY <1>1, FinishQueues
  <2>3. /\ delivery \in [DeliverCall -> CallType] /\ flushing \in DeliverCall \cup {None} /\ r \in DeliverCall
        /\ q \in Seq(Record)
    BY <1>1, <2>1 DEF EdgeInv, ExportTypes, DeliverCall, Queued, Apart
  <2>4. Hands(r, q)
    BY <2>1, <2>3, DeliverHands DEF Queued
  <2>5. PICK k \in 0 .. Len(q) : equeue' = SubSeq(q, k + 1, Len(q)) /\ delivery'[r].batch = SubSeq(q, 1, k)
    BY <2>4 DEF Hands
  <2>6. \A x : x \in ToSet(q) <=> x \in kept
    BY <2>3, <2>5, QueueSplits
  <2>7. Plain(q) = {} => \A x \in ToSet(q) : x.summary
    BY <2>3, InSequence DEF Plain
  <2> HIDE DEF kept
  <2>8. (\E x \in kept : x.of = r /\ x.summary) \/ (\A x \in kept : x.summary)
    BY <1>1, <2>1, <2>2, <2>6, <2>7 DEF Queued
  <2> QED
    BY <2>8 DEF SummaryKept, kept
<1>2. EdgeInv /\ [EdgeNext]_edgeVars => KeepsSummaries
  <2> SUFFICES ASSUME EdgeInv, [EdgeNext]_edgeVars, NEW r \in EdgeRequest,
                      edge[r].st = "open", edge'[r].st = "sealed", edge'[r].to # None
               PROVE  SummaryKept(r)
    BY DEF KeepsSummaries
  <2>0. EdgeRuntimesOK
    BY DEF EdgeInv
  <2>1. ~ UNCHANGED edge
    OBVIOUS
  <2>2. ASSUME NEW d \in EdgeRequest, StaysUnsealed(d) PROVE FALSE
    BY <2>2 DEF StaysUnsealed
  <2>3. ASSUME NEW d \in EdgeRequest, Finishes(d) PROVE d = r
    BY <2>3, FinishQueues
  <2>4. Finishes(r)
    <3>1. \/ \E d \in EdgeRequest : Finishes(d)
          \/ \E d \in EdgeRequest : \/ Opens(d) \/ Warns(d) \/ TickEnds(d)
                                    \/ \E e \in EdgeError : LogsInRequest(d, e) \/ CapturesInRequest(d, e) \/ DegradesInRequest(d, e)
          \/ UNCHANGED edge
      BY DEF EdgeNext, PostSettles, LoopEnds, WaitOver, FlushCalled, LogsOutside, LateTick, CapturesOutside,
             DegradesOutside, edgeVars
    <3> QED
      BY <2>0, <2>1, <2>2, <2>3, <3>1, RequestSteps
  <2> QED
    BY <1>1, <2>4
<1> QED
  BY <1>2, EdgeInvariant, PTL DEF EdgeSpec, SummariesLeaveLast

(* Only errors are seen or wait outside a request.                           *)
SeenAreErrors == seen \subseteq EdgeError /\ loggedLate \subseteq EdgeError
(* Every step keeps that. *)
LEMMA SeenSteps ==
    ASSUME EdgeInv, SeenAreErrors, [EdgeNext]_edgeVars
    PROVE  SeenAreErrors'
<1>1. ASSUME NEW r \in EdgeRequest, NEW sent \in SUBSET Unreported(edge[r]) PROVE sent \subseteq EdgeError
  <2>1. RuntimeOK(edge[r])
    BY DEF EdgeInv, EdgeRuntimesOK, RuntimeOK
  <2> QED
    BY <2>1, UnreportedFinite
<1>2. ASSUME NEW r \in EdgeRequest, Finishes(r) PROVE SeenAreErrors'
  <2>1. PICK sent \in SUBSET Unreported(edge[r]) :
            seen' = seen \cup sent \/ \E e \in EdgeError : seen' = seen \cup sent \cup {e}
    BY <1>2 DEF Finishes
  <2>2. sent \subseteq EdgeError /\ loggedLate' = loggedLate
    BY <1>1, <1>2 DEF Finishes
  <2> QED
    BY <2>1, <2>2 DEF SeenAreErrors
<1>3. ASSUME NEW r \in EdgeRequest, TickEnds(r) PROVE SeenAreErrors'
  <2>1. PICK sent \in SUBSET Unreported(edge[r]) : seen' = seen \cup sent
    BY <1>3 DEF TickEnds
  <2>2. sent \subseteq EdgeError /\ loggedLate' = loggedLate
    BY <1>1, <1>3 DEF TickEnds
  <2> QED
    BY <2>1, <2>2 DEF SeenAreErrors
<1>4. ASSUME NEW e \in EdgeError, LogsOutside(e) \/ LateTick(e) \/ CapturesOutside(e) \/ DegradesOutside(e)
      PROVE  SeenAreErrors'
  BY <1>4 DEF LogsOutside, LateTick, CapturesOutside, DegradesOutside, SeenAreErrors
<1>5. ASSUME NEW r \in EdgeRequest, NEW e \in EdgeError,
             LogsInRequest(r, e) \/ CapturesInRequest(r, e) \/ DegradesInRequest(r, e)
      PROVE  SeenAreErrors'
  BY <1>5 DEF LogsInRequest, CapturesInRequest, DegradesInRequest, Captured, errorVars, SeenAreErrors
<1>6. ASSUME UNCHANGED errorVars PROVE SeenAreErrors'
  BY <1>6 DEF errorVars, SeenAreErrors
<1>7. CASE UNCHANGED edgeVars
  BY <1>7 DEF edgeVars, SeenAreErrors
<1>8. ASSUME NEW r \in EdgeRequest, Opens(r) \/ Warns(r) PROVE UNCHANGED errorVars
  BY <1>8 DEF Opens, Warns
<1>9. ASSUME NEW c, PostSettles(c) \/ LoopEnds(c) \/ WaitOver(c) \/ FlushCalled(c) PROVE UNCHANGED errorVars
  BY <1>9 DEF PostSettles, LoopEnds, WaitOver, FlushCalled
<1> QED
  BY <1>2, <1>3, <1>4, <1>5, <1>6, <1>7, <1>8, <1>9 DEF EdgeNext

(* The isolate's state keeps its type and its bounds: the cap of a request's *)
(* plain records, the queue's length and its byte budget (index.ts).        *)
THEOREM EdgeTypesHold == EdgeSpec => []EdgeTypeOK
<1>1. EdgeInit => SeenAreErrors
  BY DEF EdgeInit, SeenAreErrors
<1>2. EdgeInv /\ SeenAreErrors /\ ReportsInv => EdgeTypeOK
  BY DEF EdgeInv, SeenAreErrors, ReportsInv, EdgeTypeOK, EdgeRuntimesOK, ExportTypes, QueueFits, How
<1>3. EdgeSpec => []SeenAreErrors
  BY <1>1, EdgeInvariant, SeenSteps, PTL DEF EdgeSpec
<1>4. EdgeSpec => []ReportsInv
  BY ReportsStart, ReportSteps, PTL DEF EdgeSpec
<1> QED
  BY <1>2, <1>3, <1>4, EdgeInvariant, PTL

-----------------------------------------------------------------------------
(* The page (BrowserSdk).                                                   *)

BrowserSpec == BrowserInit /\ [][BrowserNext]_browserVars

(* Events wait only with a timer that fires soon enough for each of them.    *)
TimerInv ==
    /\ pageTime \in Nat /\ \E S : events \in Seq(S)
    /\ events = <<>> <=> flushAt = Nothing
    /\ flushAt # Nothing => flushAt \in Nat /\ pageTime <= flushAt
    /\ \A i \in DOMAIN events :
          events[i].at \in Nat /\ events[i].at <= pageTime /\ flushAt <= events[i].at + FlushDelay

(* An error with a report is known as sent, and a log is only ever the first.*)
PageReportsInv ==
    /\ reports \in [PageError -> Seq({"event", "log"})]
    /\ \A e \in PageError : reports[e] # <<>> => e \in sentErrors
    /\ LogReportsFirstOnly

(* One more event in a queue. *)
LEMMA QueuedEvent ==
    ASSUME NEW S, NEW q \in Seq(S), NEW e
    PROVE  /\ Append(q, e) \in Seq(S \cup {e}) /\ Append(q, e) # <<>>
           /\ DOMAIN Append(q, e) = 1..Len(q) + 1 /\ DOMAIN q = 1..Len(q)
           /\ Append(q, e)[Len(q) + 1] = e /\ \A i \in 1..Len(q) : Append(q, e)[i] = q[i]
  BY AppendProperties

(* Events stay queued with a timer, whatever enqueue() does.                 *)
LEMMA EnqueueStep ==
    ASSUME TimerInv, NEW kind, NEW urgent, NEW n, Enqueue(kind, urgent, n), UNCHANGED pageTime
    PROVE  TimerInv'
<1> USE BrowserAssumption
<1> DEFINE event == [urgent |-> urgent, at |-> pageTime, crumbs |-> CrumbsFor(kind, n)]
           queued == Append(events, event)
<1>1. PICK S : events \in Seq(S)
  BY DEF TimerInv
<1>2. event.at = pageTime /\ pageTime \in Nat
  BY DEF TimerInv
<1>3. \/ UNCHANGED <<events, flushAt>>
      \/ events' = queued /\ flushAt' = Schedule(urgent)
      \/ events' = <<>> /\ flushAt' = Nothing
  BY DEF Enqueue, FlushEvents, queueVars
<1> HIDE DEF event
<1>4. /\ queued \in Seq(S \cup {event}) /\ queued # <<>>
      /\ DOMAIN queued = 1..Len(events) + 1 /\ DOMAIN events = 1..Len(events)
      /\ queued[Len(events) + 1] = event /\ \A i \in 1..Len(events) : queued[i] = events[i]
  BY <1>1, QueuedEvent
<1>5. Len(events) \in Nat
  BY <1>1
<1> HIDE DEF queued
<1>6. CASE UNCHANGED <<events, flushAt>>
  BY <1>6 DEF TimerInv
<1>7. CASE events' = queued /\ flushAt' = Schedule(urgent)
  BY <1>1, EmptySeq, <1>7, <1>2, <1>4, <1>5 DEF TimerInv, Schedule
<1>8. CASE events' = <<>> /\ flushAt' = Nothing
  BY <1>2, <1>8 DEF TimerInv
<1> QED
  BY <1>3, <1>6, <1>7, <1>8
(* Every step keeps a timer for what waits. *)
LEMMA TimerStep == ASSUME TimerInv, [BrowserNext]_browserVars PROVE TimerInv'
<1> USE BrowserAssumption
<1>1. ASSUME UNCHANGED <<pageTime, events, flushAt>> PROVE TimerInv'
  BY <1>1 DEF TimerInv
<1>2. ASSUME events' = <<>>, flushAt' = Nothing, UNCHANGED pageTime PROVE TimerInv'
  BY <1>2 DEF TimerInv
<1>3. ASSUME NEW e \in PageError, NEW how, Report(e, how), UNCHANGED pageTime PROVE TimerInv'
  BY <1>3, EnqueueStep DEF Report
<1>4. CASE PageTick
  BY <1>4 DEF PageTick, PageActs, TimerInv
<1>5. CASE FlushTimerFires \/ PageHides
  BY <1>2, <1>5 DEF FlushTimerFires, PageHides, FlushEvents
<1>6. CASE PageStep \/ ClearsCrumbs
  BY <1>1, <1>6 DEF PageStep, ClearsCrumbs, queueVars
<1>7. ASSUME NEW e \in PageError, ReportsError(e) \/ LogsError(e) \/ LogTimeoutFires(e) PROVE TimerInv'
  BY <1>1, <1>3, <1>7 DEF ReportsError, LogsError, LogTimeoutFires, queueVars
<1>8. ASSUME NEW kind, NEW urgent, Reports(kind, urgent) PROVE TimerInv'
  BY <1>8, EnqueueStep DEF Reports
<1>9. CASE ReportsTiming \/ FetchFails
  BY <1>9, EnqueueStep DEF ReportsTiming, FetchFails
<1>10. CASE UNCHANGED browserVars
  BY <1>1, <1>10 DEF browserVars
<1> QED
  BY <1>4, <1>5, <1>6, <1>7, <1>8, <1>9, <1>10 DEF BrowserNext, CapturesError, ErrorEventFires, RejectionEventFires,
     ReportsMessage, ReportsOutcome, ReportsViolation, ReportsUsage, XhrFails

(* One more report of an error. *)
LEMMA ReportStep ==
    ASSUME PageReportsInv, NEW e \in PageError, NEW how \in {"event", "log"}, how = "log" => e \notin sentErrors, Report(e, how)
    PROVE  PageReportsInv'
<1>1. /\ reports \in [PageError -> Seq({"event", "log"})]
      /\ reports' = [reports EXCEPT ![e] = Append(@, how)] /\ sentErrors' = sentErrors \cup {e}
  BY DEF PageReportsInv, Report
<1>2. reports'[e] = Append(reports[e], how) /\ \A x \in PageError \ {e} : reports'[x] = reports[x]
  BY <1>1
<1>3. /\ Append(reports[e], how) \in Seq({"event", "log"})
      /\ DOMAIN Append(reports[e], how) = 1..Len(reports[e]) + 1 /\ DOMAIN reports[e] = 1..Len(reports[e])
      /\ Append(reports[e], how)[Len(reports[e]) + 1] = how
      /\ \A i \in 1..Len(reports[e]) : Append(reports[e], how)[i] = reports[e][i]
  BY <1>1, AppendProperties
<1>4. how = "log" => reports[e] = <<>>
  BY DEF PageReportsInv
<1>5. ASSUME NEW i \in 1..Len(reports[e]) + 1, Append(reports[e], how)[i] = "log" PROVE i = 1
  <2>1. Len(reports[e]) \in Nat
    BY <1>1
  <2>2. CASE how = "log"
    <3>1. Len(reports[e]) = 0
      BY <1>4, <2>2
    <3> QED
      BY <3>1
  <2>3. CASE how # "log"
    <3>1. i \in 1..Len(reports[e])
      BY <1>3, <1>5, <2>1, <2>3
    <3> QED
      BY <1>3, <1>5, <3>1 DEF PageReportsInv, LogReportsFirstOnly
  <2> QED
    BY <2>2, <2>3
<1>6. LogReportsFirstOnly'
  BY <1>2, <1>3, <1>5 DEF LogReportsFirstOnly, PageReportsInv
<1>7. reports' \in [PageError -> Seq({"event", "log"})]
  BY <1>1, <1>3
<1>8. \A x \in PageError : reports'[x] # <<>> => x \in sentErrors'
  BY <1>1, <1>2 DEF PageReportsInv
<1> QED
  BY <1>6, <1>7, <1>8 DEF PageReportsInv

(* Every step reports by a log only what nothing reported. *)
LEMMA PageReportsStep == ASSUME PageReportsInv, [BrowserNext]_browserVars PROVE PageReportsInv'
<1>1. ASSUME UNCHANGED <<reports, sentErrors>> PROVE PageReportsInv'
  BY <1>1 DEF PageReportsInv, LogReportsFirstOnly
<1>2. ASSUME NEW e \in PageError, ReportsError(e) PROVE PageReportsInv'
  BY <1>2, ReportStep DEF ReportsError
<1>3. ASSUME NEW e \in PageError, LogTimeoutFires(e) PROVE PageReportsInv'
  BY <1>1, <1>3, ReportStep DEF LogTimeoutFires
<1> QED
  BY <1>1, <1>2, <1>3 DEF BrowserNext, CapturesError, ErrorEventFires, RejectionEventFires, ReportsMessage, ReportsOutcome,
     ReportsViolation, ReportsUsage, XhrFails, Reports, ReportsTiming, FetchFails, PageTick, FlushTimerFires, PageHides,
     PageStep, ClearsCrumbs, LogsError, browserVars

(* The breadcrumbs of the queued events, those attached so far, and those    *)
(* attached since the oldest queued event came.                              *)
CrumbSum(q) == SetSum([i \in DOMAIN q |-> q[i].crumbs], DOMAIN q)
Attached(f) == SetSum(f, 1..MaxPageTime)
Since(f, o) == [t \in 1..MaxPageTime |-> IF t >= o THEN f[t] ELSE 0]
OldestAt == IF events = <<>> THEN pageTime ELSE events[1].at
CrumbsCovered(q, f, forgotten, o) == CrumbSum(q) <= WindowCrumbs * forgotten + Attached(Since(f, o))

(* What is queued was attached since the oldest event came, or before the    *)
(* trail was forgotten; and what is attached within a window fits it.  A     *)
(* timeout of a log never waits for the instant of a flush.                  *)
BatchInv ==
    /\ BrowserTypeOK
    /\ logTimeouts # {} => flushAt # pageTime
    /\ Attached(crumbsSent) <= WindowCrumbs
    /\ CrumbsCovered(events, crumbsSent, crumbClears, OldestAt)

(* The folds of the model are sums over finite sets.                         *)
LEMMA FoldsAreSums ==
    /\ FoldFunction(+, 0, RecentCrumbs) = SetSum(RecentCrumbs, DOMAIN RecentCrumbs)
    /\ FoldSeq(LAMBDA event, sum : event.crumbs + sum, 0, events) = CrumbSum(events)
<1>1. FoldFunction(+, 0, RecentCrumbs) = SetSum(RecentCrumbs, DOMAIN RecentCrumbs)
  BY DEF FoldFunction, FoldFunctionOnSet, MapThenFoldSet, SetSum, SetSums, SumStep, AnyOf
<1>2. FoldSeq(LAMBDA event, sum : event.crumbs + sum, 0, events) = CrumbSum(events)
  BY DEF CrumbSum, FoldSeq, FoldFunction, FoldFunctionOnSet, MapThenFoldSet, SetSum, SetSums, SumStep, AnyOf
<1> QED
  BY <1>1, <1>2

(* The instants are finitely many. *)
LEMMA InstantsFinite == \A n \in Nat : IsFiniteSet(1..n)
  BY FS_Interval

(* The sum of a queue with one event more.                                  *)
LEMMA CrumbSumAppend ==
    ASSUME NEW q \in Seq(EventType), NEW e \in EventType
    PROVE  CrumbSum(Append(q, e)) = CrumbSum(q) + e.crumbs /\ CrumbSum(q) \in Nat
<1> DEFINE n == Len(q)
           r == Append(q, e)
           w == [i \in DOMAIN r |-> r[i].crumbs]
           v == [i \in DOMAIN q |-> q[i].crumbs]
<1>1. /\ n \in Nat /\ DOMAIN q = 1..n /\ DOMAIN r = 1..n + 1 /\ r[n + 1] = e
      /\ \A i \in 1..n : r[i] = q[i] /\ q[i] \in EventType
  BY AppendProperties
<1>2. DOMAIN r = (1..n) \cup {n + 1} /\ n + 1 \notin 1..n /\ n + 1 \in DOMAIN r
  BY <1>1
<1>3. \A x \in EventType : x.crumbs \in Nat
  BY DEF EventType
<1>4. v \in [1..n -> Nat] /\ v \in [1..n -> Int]
  BY <1>1, <1>3
<1>5. /\ w \in [(1..n) \cup {n + 1} -> Int] /\ w[n + 1] = e.crumbs /\ \A x \in 1..n : v[x] = w[x]
  <2>1. \A i \in DOMAIN r : r[i].crumbs \in Int
    <3> HIDE DEF n, r
    <3> QED
      BY <1>1, <1>2, <1>3
  <2> HIDE DEF n, r
  <2> QED
    BY <1>1, <1>2, <2>1
<1>6. IsFiniteSet(1..n)
  BY <1>1, InstantsFinite
<1>7. SetSum(w, (1..n) \cup {n + 1}) = SetSum(v, 1..n) + w[n + 1]
  <2> DEFINE I == 1..n
             c == n + 1
  <2>1. IsFiniteSet(I) /\ c \notin I /\ w \in [I \cup {c} -> Int] /\ v \in [I -> Int] /\ \A x \in I : v[x] = w[x]
    BY <1>2, <1>4, <1>5, <1>6
  <2> HIDE DEF n, r, w, v, I, c
  <2>2. SetSum(w, I \cup {c}) = SetSum(v, I) + w[c]
    BY <2>1, SetSumAdd
  <2> QED
    BY <2>2 DEF I, c
<1>8. SetSum(v, 1..n) \in Nat
  <2> HIDE DEF n, r, w, v
  <2> QED
    BY <1>4, <1>6, SetSumNatural
<1>9. CrumbSum(r) = SetSum(w, (1..n) \cup {n + 1}) /\ CrumbSum(q) = SetSum(v, 1..n)
  BY <1>1, <1>2 DEF CrumbSum
<1> QED
  BY <1>5, <1>7, <1>8, <1>9

(* Nothing is queued in an empty queue. *)
LEMMA CrumbSumOfNone == CrumbSum(<<>>) = 0
<1>1. DOMAIN <<>> = {} /\ IsFiniteSet({})
  BY FS_EmptySet
<1> DEFINE w == [i \in DOMAIN <<>> |-> <<>>[i].crumbs]
<1>2. w \in [{} -> Int]
  BY <1>1
<1> HIDE DEF w
<1>3. SetSum(w, {}) = 0
  BY <1>1, <1>2, SetSumZero
<1> QED
  BY <1>1, <1>3 DEF CrumbSum, w

(* The least of three, and what is not below zero. *)
LEMMA LeastOfThree ==
    ASSUME NEW a \in Int, NEW b \in Int, NEW c \in Int
    PROVE  /\ Min({a, b, c}) \in Int /\ Min({a, b, c}) <= a /\ Min({a, b, c}) <= b /\ Min({a, b, c}) <= c
  BY DEF Min

(* What is cut at zero. *)
LEMMA NotBelowZero ==
    ASSUME NEW a \in Int
    PROVE  Max({0, a}) = IF a > 0 THEN a ELSE 0
  BY DEF Max

(* What is attached and still recent is no more than what was attached.      *)
LEMMA RecentFacts ==
    ASSUME BrowserTypeOK
    PROVE  /\ RecentCrumbs \in [1..MaxPageTime -> Nat]
           /\ Attached(RecentCrumbs) \in Nat /\ Attached(RecentCrumbs) <= Attached(crumbsSent)
           /\ FoldFunction(+, 0, RecentCrumbs) = Attached(RecentCrumbs)
<1>1. crumbsSent \in [1..MaxPageTime -> Nat] /\ MaxPageTime \in Nat /\ IsFiniteSet(1..MaxPageTime)
  BY BrowserAssumption, InstantsFinite DEF BrowserTypeOK
<1>2. /\ RecentCrumbs \in [1..MaxPageTime -> Nat] /\ DOMAIN RecentCrumbs = 1..MaxPageTime
      /\ \A t \in 1..MaxPageTime : RecentCrumbs[t] <= crumbsSent[t]
  BY <1>1 DEF RecentCrumbs
<1>3. FoldFunction(+, 0, RecentCrumbs) = Attached(RecentCrumbs)
  BY <1>2, FoldsAreSums DEF Attached
<1>4. RecentCrumbs \in [1..MaxPageTime -> Int] /\ crumbsSent \in [1..MaxPageTime -> Int]
  BY <1>1, <1>2
<1>5. Attached(RecentCrumbs) \in Nat
  BY <1>1, <1>2, SetSumNatural DEF Attached
<1>6. Attached(RecentCrumbs) <= Attached(crumbsSent)
  BY <1>1, <1>2, <1>4, SetSumAtMost DEF Attached
<1> QED
  BY <1>2, <1>3, <1>5, <1>6

(* The breadcrumbs of an event fit what is left of the window.               *)
LEMMA CrumbsForFacts ==
    ASSUME BatchInv, NEW kind, NEW n \in Nat
    PROVE  /\ CrumbsFor(kind, n) \in Nat /\ Attached(RecentCrumbs) + CrumbsFor(kind, n) <= WindowCrumbs
           /\ kind \notin Failures \/ n = 0 => CrumbsFor(kind, n) = 0
<1> DEFINE a == Attached(RecentCrumbs)
           room == WindowCrumbs - a
<1>0. FoldFunction(+, 0, RecentCrumbs) = a
  BY RecentFacts DEF BatchInv
<1>1. a \in Nat /\ a <= WindowCrumbs
  <2>1. Attached(crumbsSent) <= WindowCrumbs /\ Attached(crumbsSent) \in Int
    BY BrowserAssumption, InstantsFinite, SetSumType DEF BatchInv, BrowserTypeOK, Attached
  <2>2. Attached(RecentCrumbs) \in Nat /\ Attached(RecentCrumbs) <= Attached(crumbsSent)
    BY RecentFacts DEF BatchInv
  <2>3. WindowCrumbs \in Nat
    BY BrowserAssumption
  <2> QED
    BY <2>1, <2>2, <2>3
<1> HIDE DEF a
<1>2. room \in Int /\ EventCrumbs \in Nat /\ WindowCrumbs \in Nat
  BY BrowserAssumption, <1>1
<1> HIDE DEF room
<1> DEFINE m == Min({n, EventCrumbs, room})
<1>3. m \in Int /\ m <= n /\ m <= EventCrumbs /\ m <= room
  <2>1. n \in Int /\ EventCrumbs \in Int /\ room \in Int
    BY <1>2
  <2> QED
    BY ONLY <2>1, LeastOfThree
<1>4. CrumbsFor(kind, n) = IF kind \notin Failures THEN 0 ELSE Max({0, m})
  BY <1>0 DEF CrumbsFor, room
<1> HIDE DEF m
<1>5. Max({0, m}) = IF m > 0 THEN m ELSE 0
  BY <1>3, NotBelowZero
<1> QED
  BY <1>1, <1>2, <1>3, <1>4, <1>5 DEF room, a

(* Attaching at an instant adds to the sum from any instant before it.       *)
LEMMA AttachedSince ==
    ASSUME NEW f \in [1..MaxPageTime -> Nat], NEW g \in [1..MaxPageTime -> Nat], NEW p \in 1..MaxPageTime,
           NEW k \in Nat, NEW o \in Int, o <= p, g[p] = f[p] + k,
           \A t \in 1..MaxPageTime : t >= o /\ t # p => g[t] = f[t]
    PROVE  Attached(Since(g, o)) = Attached(Since(f, o)) + k
<1> DEFINE w == Since(f, o)
           v == Since(g, o)
<1>1. MaxPageTime \in Nat /\ IsFiniteSet(1..MaxPageTime)
  BY BrowserAssumption, InstantsFinite
<1>2. w \in [1..MaxPageTime -> Nat] /\ v \in [1..MaxPageTime -> Nat]
  BY DEF Since
<1>3. v[p] = f[p] + k /\ w[p] = f[p] /\ \A t \in (1..MaxPageTime) \ {p} : v[t] = w[t]
  BY DEF Since
<1> HIDE DEF w, v
<1>4. w \in [1..MaxPageTime -> Int] /\ v \in [1..MaxPageTime -> Int]
  BY <1>2
<1>5. SetSum(v, 1..MaxPageTime) = SetSum(w, 1..MaxPageTime) + v[p] - w[p]
  <2> DEFINE I == 1..MaxPageTime
  <2>1. IsFiniteSet(I) /\ p \in I /\ w \in [I -> Int] /\ v \in [I -> Int] /\ \A t \in I \ {p} : v[t] = w[t]
    BY <1>1, <1>3, <1>4
  <2> HIDE DEF I
  <2>2. SetSum(v, I) = SetSum(w, I) + v[p] - w[p]
    BY ONLY <2>1, SetSumUpdate
  <2> QED
    BY <2>2 DEF I
<1>6. SetSum(w, 1..MaxPageTime) \in Int /\ f[p] \in Nat
  BY <1>1, <1>4, SetSumType
<1>7. SetSum(v, 1..MaxPageTime) = SetSum(w, 1..MaxPageTime) + k
  BY <1>3, <1>5, <1>6
<1> QED
  BY <1>7 DEF Attached, w, v

(* What was attached since an instant is a part of what was attached.        *)
LEMMA SinceFacts ==
    ASSUME NEW f \in [1..MaxPageTime -> Nat], NEW o \in Int
    PROVE  /\ Attached(f) \in Nat /\ Attached(Since(f, o)) \in Nat
           /\ Attached(Since(f, o)) <= Attached(f)
<1> DEFINE v == Since(f, o)
<1>1. MaxPageTime \in Nat /\ IsFiniteSet(1..MaxPageTime)
  BY BrowserAssumption, InstantsFinite
<1>2. v \in [1..MaxPageTime -> Nat] /\ \A t \in 1..MaxPageTime : v[t] <= f[t]
  BY DEF Since
<1> HIDE DEF v
<1>3. v \in [1..MaxPageTime -> Int] /\ f \in [1..MaxPageTime -> Int]
  BY <1>2
<1>4. SetSum(f, 1..MaxPageTime) \in Nat /\ SetSum(v, 1..MaxPageTime) \in Nat
  BY <1>1, <1>2, SetSumNatural
<1>5. SetSum(v, 1..MaxPageTime) <= SetSum(f, 1..MaxPageTime)
  BY <1>1, <1>2, <1>3, SetSumAtMost
<1> QED
  BY <1>4, <1>5 DEF Attached, v

(* The products of the window's budget and the times the trail was forgotten.*)
LEMMA WindowProducts ==
    ASSUME NEW a \in Nat, NEW b \in Nat PROVE a * b \in Nat /\ a * (b + 1) = a * b + a
OBVIOUS

(* An empty queue holds nothing. *)
LEMMA NoneBatched ==
    ASSUME NEW f \in [1..MaxPageTime -> Nat], NEW forgotten \in Nat, NEW o \in Int
    PROVE  CrumbsCovered(<<>>, f, forgotten, o)
<1>1. WindowCrumbs * forgotten \in Nat
  BY WindowProducts, BrowserAssumption
<1>2. Attached(Since(f, o)) \in Nat
  BY SinceFacts
<1> QED
  BY <1>1, <1>2, CrumbSumOfNone DEF CrumbsCovered

(* The oldest event came in the past, and while no timer is due, within the  *)
(* window.                                                                   *)
LEMMA OldestFacts ==
    ASSUME BatchInv, TimerInv
    PROVE  /\ OldestAt \in Nat /\ OldestAt <= pageTime /\ pageTime \in 1..MaxPageTime
           /\ flushAt # pageTime => pageTime - OldestAt < CrumbWindow
<1>1. /\ events \in Seq(EventType) /\ pageTime \in 1..MaxPageTime /\ pageTime \in Nat
      /\ FlushDelay \in Nat \ {0} /\ FlushDelay <= CrumbWindow /\ CrumbWindow \in Nat
  BY BrowserAssumption DEF BatchInv, BrowserTypeOK
<1>2. CASE events = <<>>
  <2>1. OldestAt = pageTime
    BY <1>2 DEF OldestAt
  <2> QED
    BY <1>1, <2>1
<1>3. CASE events # <<>>
  BY <1>1, <1>3, EmptySeq DEF OldestAt, TimerInv
<1> QED
  BY <1>2, <1>3

(* What enqueue() attaches: within the budget, and counted since the oldest  *)
(* event came.                                                               *)
LEMMA AttachedKeeps ==
    ASSUME BatchInv, TimerInv, flushAt # pageTime, NEW kind, NEW n \in Nat,
           crumbsSent' = IF kind \notin Failures \/ n = 0 THEN crumbsSent
                         ELSE [RecentCrumbs EXCEPT ![pageTime] = @ + CrumbsFor(kind, n)]
    PROVE  /\ crumbsSent' \in [1..MaxPageTime -> Nat] /\ Attached(crumbsSent') <= WindowCrumbs
           /\ Attached(Since(crumbsSent', OldestAt))
                 = Attached(Since(crumbsSent, OldestAt)) + CrumbsFor(kind, n)
<1> DEFINE k == CrumbsFor(kind, n)
           o == OldestAt
<1>1. /\ k \in Nat /\ Attached(RecentCrumbs) + k <= WindowCrumbs /\ (kind \notin Failures \/ n = 0 => k = 0)
  BY CrumbsForFacts
<1>2. crumbsSent \in [1..MaxPageTime -> Nat] /\ Attached(crumbsSent) <= WindowCrumbs
  BY DEF BatchInv, BrowserTypeOK
<1>3. o \in Nat /\ o <= pageTime /\ pageTime \in 1..MaxPageTime /\ pageTime - o < CrumbWindow
  BY OldestFacts
<1>4. RecentCrumbs \in [1..MaxPageTime -> Nat] /\ Attached(RecentCrumbs) \in Nat
  BY RecentFacts DEF BatchInv
<1>5. CASE kind \notin Failures \/ n = 0
  <2>1. crumbsSent' = crumbsSent /\ k = 0
    BY <1>1, <1>5
  <2>2. Attached(Since(crumbsSent, o)) \in Nat
    BY <1>2, <1>3, SinceFacts
  <2> HIDE DEF k, o
  <2>3. Attached(Since(crumbsSent', o)) = Attached(Since(crumbsSent, o)) + k
    BY <2>1, <2>2
  <2> QED
    BY <1>2, <2>1, <2>3 DEF k, o
<1>6. CASE ~(kind \notin Failures \/ n = 0)
  <2> DEFINE R == RecentCrumbs
             g == [R EXCEPT ![pageTime] = @ + k]
  <2>1. crumbsSent' = g
    BY <1>6
  <2>2. \A t \in 1..MaxPageTime : t >= o => R[t] = crumbsSent[t]
    BY <1>3, BrowserAssumption, <1>2 DEF RecentCrumbs
  <2> HIDE DEF R, k, o
  <2>3. R \in [1..MaxPageTime -> Nat] /\ Attached(R) \in Nat /\ Attached(R) + k <= WindowCrumbs
    BY <1>1, <1>4 DEF R
  <2>4. /\ g \in [1..MaxPageTime -> Nat] /\ g[pageTime] = R[pageTime] + k
        /\ \A t \in 1..MaxPageTime : t # pageTime => g[t] = R[t]
    BY <1>1, <1>3, <2>3
  <2> HIDE DEF g
  <2>5. g[pageTime] = crumbsSent[pageTime] + k /\ \A t \in 1..MaxPageTime : t >= o /\ t # pageTime => g[t] = crumbsSent[t]
    BY <1>3, <2>2, <2>4
  <2>6. Attached(Since(g, o)) = Attached(Since(crumbsSent, o)) + k
    <3>1. o \in Int
      BY <1>3
    <3> QED
      BY <1>1, <1>2, <1>3, <2>4, <2>5, <3>1, AttachedSince
  <2>7. Attached(g) = Attached(R) + k
    <3>1. Attached(Since(g, 1)) = Attached(Since(R, 1)) + k
      <4>1. 1 \in Int /\ 1 <= pageTime
        BY <1>3
      <4> QED
        BY <1>1, <1>3, <2>3, <2>4, <4>1, AttachedSince
    <3>2. Since(g, 1) = g /\ Since(R, 1) = R
      BY <2>3, <2>4 DEF Since
    <3> QED
      BY <3>1, <3>2
  <2> QED
    BY <2>1, <2>3, <2>4, <2>6, <2>7 DEF k, o
<1> QED
  BY <1>5, <1>6

(* What enqueue() leaves: a queue within its caps whose breadcrumbs fit.     *)
LEMMA EnqueueKeeps ==
    ASSUME BatchInv, TimerInv, flushAt # pageTime, NEW kind, NEW urgent \in BOOLEAN, NEW n \in Nat,
           Enqueue(kind, urgent, n), UNCHANGED <<pageTime, crumbClears>>
    PROVE  /\ events' \in Seq(EventType) /\ Len(events') < MaxQueued
           /\ flushAt' \in Nat \cup {Nothing} /\ flushAt' # pageTime'
           /\ pageSent' \in Nat /\ pageSent' + Len(events') <= MaxPageEvents
           /\ crumbsSent' \in [1..MaxPageTime -> Nat] /\ Attached(crumbsSent') <= WindowCrumbs
           /\ CrumbsCovered(events', crumbsSent', crumbClears', OldestAt')
<1> DEFINE k == CrumbsFor(kind, n)
           event == [urgent |-> urgent, at |-> pageTime, crumbs |-> k]
           queued == Append(events, event)
           o == OldestAt
<1>1. /\ events \in Seq(EventType) /\ Len(events) < MaxQueued /\ Len(events) \in Nat
      /\ flushAt \in Nat \cup {Nothing} /\ pageSent \in Nat /\ pageSent + Len(events) <= MaxPageEvents
      /\ crumbsSent \in [1..MaxPageTime -> Nat] /\ Attached(crumbsSent) <= WindowCrumbs
      /\ CrumbsCovered(events, crumbsSent, crumbClears, o) /\ crumbClears \in Nat
  BY DEF BatchInv, BrowserTypeOK
<1>2. k \in Nat
  BY CrumbsForFacts
<1>3. o \in Nat /\ o <= pageTime /\ pageTime \in 1..MaxPageTime /\ pageTime \in Nat
  BY OldestFacts
<1>4. FlushDelay \in Nat \ {0} /\ UrgentDelay \in Nat \ {0} /\ MaxQueued \in Nat \ {0} /\ MaxPageEvents \in Nat
  BY BrowserAssumption
<1>5. Nothing \notin Nat
  BY BrowserAssumption
<1>6. event \in EventType /\ event.crumbs = k /\ event.at = pageTime
  BY <1>2, <1>3 DEF EventType
<1>7. CASE UNCHANGED queueVars
  BY <1>7, <1>1 DEF queueVars, OldestAt
<1>8. CASE ~UNCHANGED queueVars
  <2>1. /\ pageSent + Len(events) < MaxPageEvents
        /\ crumbsSent' = IF kind \notin Failures \/ n = 0 THEN crumbsSent
                         ELSE [RecentCrumbs EXCEPT ![pageTime] = @ + k]
    BY <1>8 DEF Enqueue
  <2>2. /\ crumbsSent' \in [1..MaxPageTime -> Nat] /\ Attached(crumbsSent') <= WindowCrumbs
        /\ Attached(Since(crumbsSent', o)) = Attached(Since(crumbsSent, o)) + k
    BY <2>1, AttachedKeeps
  <2>3. Attached(Since(crumbsSent, o)) \in Nat /\ WindowCrumbs * crumbClears \in Nat
    BY <1>1, <1>3, SinceFacts, WindowProducts, BrowserAssumption
  <2>4. CrumbSum(events) <= WindowCrumbs * crumbClears + Attached(Since(crumbsSent, o))
    BY <1>1 DEF CrumbsCovered
  <2>5. CrumbSum(queued) = CrumbSum(events) + k /\ CrumbSum(events) \in Nat
    BY <1>1, <1>6, CrumbSumAppend
  <2>6. queued \in Seq(EventType) /\ Len(queued) = Len(events) + 1 /\ queued # <<>>
        /\ queued[1] = IF events = <<>> THEN event ELSE events[1]
    <3>1. /\ queued \in Seq(EventType) /\ Len(queued) = Len(events) + 1 /\ queued[Len(events) + 1] = event
          /\ \A i \in 1..Len(events) : queued[i] = events[i]
      BY <1>1, <1>6, AppendProperties
    <3>2. events # <<>> => Len(events) # 0
      BY <1>1, EmptySeq
    <3>3. queued # <<>>
      <4>1. Len(<<>>) = 0
        OBVIOUS
      <4> HIDE DEF queued
      <4> QED
        BY <1>1, <3>1, <4>1
    <3> HIDE DEF queued, event
    <3>4. CASE events = <<>>
      BY <3>4, <3>1, <3>3
    <3>5. CASE events # <<>>
      BY <1>1, <3>2, <3>5, <3>1, <3>3
    <3> QED
      BY <3>4, <3>5
  <2> HIDE DEF queued, event, k, o
  <2>7. CASE UNCHANGED <<events, flushAt, pageSent>>
    <3>1. OldestAt' = o /\ crumbClears' = crumbClears /\ pageTime' = pageTime
      BY <2>7 DEF OldestAt, o
    <3>2. CrumbSum(events) <= WindowCrumbs * crumbClears + Attached(Since(crumbsSent', o))
      BY <1>2, <2>2, <2>3, <2>4, <2>5
    <3>3. CrumbsCovered(events', crumbsSent', crumbClears', OldestAt')
      BY <2>7, <3>1, <3>2 DEF CrumbsCovered
    <3> QED
      BY <1>1, <2>2, <2>7, <3>1, <3>3
  <2>8. CASE Len(queued) < MaxQueued /\ events' = queued /\ flushAt' = Schedule(urgent) /\ UNCHANGED pageSent
    <3>1. OldestAt' = o /\ crumbClears' = crumbClears /\ pageTime' = pageTime
      BY <1>6, <2>6, <2>8 DEF OldestAt, o
    <3>2. CrumbSum(queued) <= WindowCrumbs * crumbClears + Attached(Since(crumbsSent', o))
      BY <1>2, <2>2, <2>3, <2>4, <2>5
    <3>3. CrumbsCovered(events', crumbsSent', crumbClears', OldestAt')
      BY <2>8, <3>1, <3>2 DEF CrumbsCovered
    <3>4. flushAt' \in Nat \cup {Nothing} /\ flushAt' # pageTime
      BY <1>1, <1>3, <1>4, <2>8 DEF Schedule
    <3>5. events' \in Seq(EventType) /\ Len(events') < MaxQueued
      BY <2>6, <2>8
    <3>6. pageSent' \in Nat /\ pageSent' + Len(events') <= MaxPageEvents
      BY <1>1, <1>4, <2>1, <2>6, <2>8
    <3> QED
      BY <2>2, <3>1, <3>3, <3>4, <3>5, <3>6
  <2>9. CASE Len(queued) >= MaxQueued /\ FlushEvents(queued)
    <3>1. events' = <<>> /\ flushAt' = Nothing /\ pageSent' = pageSent + Len(queued)
      BY <2>9 DEF FlushEvents
    <3>2. OldestAt' = pageTime' /\ crumbClears' = crumbClears /\ pageTime' = pageTime
      BY <3>1 DEF OldestAt
    <3>3. CrumbsCovered(<<>>, crumbsSent', crumbClears, pageTime)
      BY <1>1, <1>3, <2>2, NoneBatched
    <3>4. <<>> \in Seq(EventType) /\ Len(<<>>) = 0
      OBVIOUS
    <3> QED
      BY <1>1, <1>3, <1>4, <1>5, <2>1, <2>2, <2>6, <3>1, <3>2, <3>3, <3>4
  <2>10. \/ UNCHANGED <<events, flushAt, pageSent>>
         \/ Len(queued) < MaxQueued /\ events' = queued /\ flushAt' = Schedule(urgent) /\ UNCHANGED pageSent
         \/ Len(queued) >= MaxQueued /\ FlushEvents(queued)
    BY <1>8 DEF Enqueue, queued, event, k
  <2> QED
    BY <2>7, <2>8, <2>9, <2>10
<1> QED
  BY <1>7, <1>8

(* The trail keeps to its ring. *)
LEMMA AddCrumbFacts == ASSUME crumbs \in 0..MaxCrumbs PROVE AddCrumb \in 0..MaxCrumbs /\ AddCrumb \in Nat /\ crumbs \in Nat
  BY BrowserAssumption DEF AddCrumb

(* One more report is one more of its kind. *)
LEMMA ReportTyped ==
    ASSUME reports \in [PageError -> Seq({"event", "log"})], NEW e \in PageError, NEW how \in {"event", "log"}
    PROVE  [reports EXCEPT ![e] = Append(@, how)] \in [PageError -> Seq({"event", "log"})]
  BY AppendProperties

(* What the other variables of a page are worth.                            *)
PageTyped ==
    /\ pageTime \in 1..MaxPageTime /\ timings \in 0..MaxTimings
    /\ sentErrors \subseteq PageError /\ logTimeouts \subseteq PageError
    /\ reports \in [PageError -> Seq({"event", "log"})]
    /\ crumbs \in 0..MaxCrumbs /\ crumbClears \in 0..MaxClears

(* An event that is enqueued, whatever became an event.                     *)
LEMMA EnqueueBatches ==
    ASSUME BatchInv, TimerInv, flushAt # pageTime, NEW kind, NEW urgent \in BOOLEAN, NEW n \in Nat,
           Enqueue(kind, urgent, n), UNCHANGED <<pageTime, crumbClears>>, PageTyped'
    PROVE  BatchInv'
  BY EnqueueKeeps DEF BatchInv, BrowserTypeOK, PageTyped

(* With the queue as it was, or empty.                                      *)
LEMMA QueueStays ==
    ASSUME BatchInv, UNCHANGED queueVars, UNCHANGED <<pageTime, crumbClears>>, PageTyped',
           logTimeouts' = {} \/ flushAt # pageTime
    PROVE  BatchInv'
  BY DEF queueVars, OldestAt, BatchInv, BrowserTypeOK, PageTyped

(* The queue leaves as one batch. *)
LEMMA QueueLeaves ==
    ASSUME BatchInv, FlushEvents(events), UNCHANGED <<pageTime, crumbsSent, crumbClears>>, PageTyped'
    PROVE  BatchInv'
<1>1. /\ events' = <<>> /\ flushAt' = Nothing /\ pageSent' = pageSent + Len(events)
      /\ crumbsSent' = crumbsSent /\ crumbClears' = crumbClears /\ pageTime' = pageTime
  BY DEF FlushEvents
<1>2. /\ events \in Seq(EventType) /\ Len(events) \in Nat /\ pageSent \in Nat /\ pageSent + Len(events) <= MaxPageEvents
      /\ crumbsSent \in [1..MaxPageTime -> Nat] /\ Attached(crumbsSent) <= WindowCrumbs
      /\ crumbClears \in Nat /\ pageTime \in Nat
  BY DEF BatchInv, BrowserTypeOK
<1>3. OldestAt' = pageTime
  BY <1>1 DEF OldestAt
<1>4. CrumbsCovered(<<>>, crumbsSent, crumbClears, pageTime)
  BY <1>2, NoneBatched
<1>5. <<>> \in Seq(EventType) /\ Len(<<>>) = 0
  OBVIOUS
<1>6. Nothing \notin Nat /\ MaxQueued \in Nat \ {0}
  BY BrowserAssumption
<1> QED
  BY <1>1, <1>2, <1>3, <1>4, <1>5, <1>6 DEF BatchInv, BrowserTypeOK, PageTyped

(* Every step keeps the breadcrumbs of the queue within the window's budget. *)
LEMMA BatchStep == ASSUME BatchInv, TimerInv, [BrowserNext]_browserVars PROVE BatchInv'
<1>1. PageTyped /\ crumbs \in Nat /\ AddCrumb \in Nat /\ AddCrumb \in 0..MaxCrumbs
  BY AddCrumbFacts DEF BatchInv, BrowserTypeOK, PageTyped
<1>2. ASSUME NEW e \in PageError, NEW how \in {"event", "log"}, Report(e, how), flushAt # pageTime,
             logTimeouts' \subseteq logTimeouts, UNCHANGED <<pageTime, timings, crumbs, crumbClears>>
      PROVE  BatchInv'
  BY <1>2, <1>1, ReportTyped, EnqueueBatches DEF Report, PageTyped
<1>3. CASE PageTick
  <2>1. /\ pageTime < MaxPageTime /\ flushAt # pageTime /\ logTimeouts = {} /\ pageTime' = pageTime + 1
        /\ UNCHANGED <<events, flushAt, pageSent, timings, sentErrors, logTimeouts, reports, crumbs, crumbsSent, crumbClears>>
    BY <1>3 DEF PageTick, PageActs
  <2>2. pageTime' \in 1..MaxPageTime
    BY <1>1, <2>1, BrowserAssumption DEF PageTyped
  <2>3. /\ CrumbsCovered(events, crumbsSent, crumbClears, OldestAt) /\ crumbsSent \in [1..MaxPageTime -> Nat]
        /\ crumbClears \in Nat
    BY DEF BatchInv, BrowserTypeOK
  <2>4. CrumbsCovered(events', crumbsSent', crumbClears', OldestAt')
    BY <2>1, <2>2, <2>3, NoneBatched DEF OldestAt
  <2> QED
    BY <2>1, <2>2, <2>4 DEF BatchInv, BrowserTypeOK
<1>4. CASE FlushTimerFires \/ PageHides
  BY <1>1, <1>4, QueueLeaves DEF FlushTimerFires, PageHides, PageTyped
<1>5. CASE PageStep
  BY <1>1, <1>5, QueueStays DEF PageStep, PageActs, PageTyped
<1>6. ASSUME NEW e \in PageError, ReportsError(e) PROVE BatchInv'
  BY <1>2, <1>6 DEF ReportsError, PageActs
<1>7. ASSUME NEW e \in PageError, LogsError(e) PROVE BatchInv'
  BY <1>1, <1>7, QueueStays DEF LogsError, PageActs, PageTyped
<1>8. ASSUME NEW e \in PageError, LogTimeoutFires(e) PROVE BatchInv'
  BY <1>8, <1>1, QueueStays, <1>2 DEF LogTimeoutFires, BatchInv, PageTyped
<1>9. ASSUME NEW kind, NEW urgent \in BOOLEAN, Reports(kind, urgent) PROVE BatchInv'
  BY <1>1, <1>9, EnqueueBatches DEF Reports, PageActs, PageTyped
<1>10. CASE ReportsTiming
  <2>1. flushAt # pageTime /\ Enqueue("timing", FALSE, crumbs) /\ UNCHANGED <<pageTime, crumbClears>>
    BY <1>10 DEF ReportsTiming, PageActs
  <2>2. PageTyped'
    BY <1>10, <1>1, BrowserAssumption DEF ReportsTiming, PageTyped
  <2> QED
    BY <1>1, <2>1, <2>2, EnqueueBatches
<1>11. CASE FetchFails
  BY <1>1, <1>11, EnqueueBatches DEF FetchFails, PageActs, PageTyped
<1>12. CASE ClearsCrumbs
  <2> DEFINE z == [t \in DOMAIN crumbsSent |-> 0]
  <2>1. /\ crumbClears < MaxClears /\ crumbClears' = crumbClears + 1 /\ crumbs' = 0 /\ crumbsSent' = z
        /\ UNCHANGED <<pageTime, timings, sentErrors, logTimeouts, reports, events, flushAt, pageSent>>
    BY <1>12 DEF ClearsCrumbs
  <2>2. /\ crumbsSent \in [1..MaxPageTime -> Nat] /\ crumbClears \in 0..MaxClears /\ crumbClears \in Nat
        /\ Attached(crumbsSent) <= WindowCrumbs /\ OldestAt \in Nat
        /\ CrumbsCovered(events, crumbsSent, crumbClears, OldestAt) /\ events \in Seq(EventType)
    BY OldestFacts DEF BatchInv, BrowserTypeOK
  <2>3. /\ z \in [1..MaxPageTime -> Nat] /\ z \in [1..MaxPageTime -> Int] /\ \A t \in 1..MaxPageTime : z[t] = 0
    BY <2>2
  <2> HIDE DEF z
  <2>4. Attached(z) = 0
    BY InstantsFinite, BrowserAssumption, <2>3, SetSumZero DEF Attached
  <2>5. Attached(Since(crumbsSent, OldestAt)) <= Attached(crumbsSent) /\ Attached(crumbsSent) \in Nat
        /\ Attached(Since(crumbsSent, OldestAt)) \in Nat /\ Attached(Since(z, OldestAt)) \in Nat
    <3>1. OldestAt \in Int
      BY <2>2
    <3>2. Attached(Since(crumbsSent, OldestAt)) <= Attached(crumbsSent) /\ Attached(crumbsSent) \in Nat
          /\ Attached(Since(crumbsSent, OldestAt)) \in Nat
      BY <2>2, <3>1, SinceFacts
    <3>3. Attached(Since(z, OldestAt)) \in Nat
      BY <2>3, <3>1, SinceFacts
    <3> QED
      BY <3>2, <3>3
  <2>6. WindowCrumbs * crumbClears \in Nat /\ WindowCrumbs * (crumbClears + 1) = WindowCrumbs * crumbClears + WindowCrumbs
        /\ WindowCrumbs \in Nat
    BY <2>2, WindowProducts, BrowserAssumption
  <2>7. CrumbSum(events) <= WindowCrumbs * crumbClears + Attached(Since(crumbsSent, OldestAt))
    BY <2>2 DEF CrumbsCovered
  <2>8. CrumbSum(events) \in Int
    <3>1. CrumbSum(events) \in Nat
      <4>1. [urgent |-> TRUE, at |-> 0, crumbs |-> 0] \in EventType
        BY DEF EventType
      <4> QED
        BY <2>2, <4>1, CrumbSumAppend
    <3> QED
      BY <3>1
  <2>9. CrumbSum(events) <= WindowCrumbs * (crumbClears + 1) + Attached(Since(z, OldestAt))
    BY <2>2, <2>5, <2>6, <2>7, <2>8
  <2>10. OldestAt' = OldestAt
    BY <2>1 DEF OldestAt
  <2>11. CrumbsCovered(events', crumbsSent', crumbClears', OldestAt')
    BY <2>1, <2>9, <2>10 DEF CrumbsCovered
  <2>12. Attached(crumbsSent') <= WindowCrumbs /\ crumbsSent' \in [1..MaxPageTime -> Nat]
    BY <2>1, <2>3, <2>4, <2>6
  <2>13. crumbs' \in 0..MaxCrumbs /\ crumbClears' \in 0..MaxClears
    BY <2>1, <2>2, BrowserAssumption
  <2> QED
    BY <2>1, <2>11, <2>12, <2>13 DEF BatchInv, BrowserTypeOK
<1>13. CASE UNCHANGED browserVars
  BY <1>1, <1>13, QueueStays DEF browserVars, queueVars, PageTyped, BatchInv
<1> QED
  BY <1>3, <1>4, <1>5, <1>6, <1>7, <1>8, <1>9, <1>10, <1>11, <1>12, <1>13 DEF BrowserNext, CapturesError,
     ErrorEventFires, RejectionEventFires, ReportsMessage, ReportsOutcome, ReportsViolation, ReportsUsage, XhrFails

(* A page starts with an empty queue, or with the event of its session.      *)
LEMMA BatchStart == BrowserInit => BatchInv
<1> SUFFICES ASSUME BrowserInit PROVE BatchInv
  OBVIOUS
<1> DEFINE first == [urgent |-> FALSE, at |-> 1, crumbs |-> 0]
<1>1. /\ pageTime = 1 /\ pageSent = 0 /\ timings = 0 /\ sentErrors = {} /\ logTimeouts = {}
      /\ reports = [e \in PageError |-> <<>>] /\ crumbs = 0 /\ crumbClears = 0
      /\ crumbsSent = [t \in 1..MaxPageTime |-> 0]
      /\ (events = <<>> /\ flushAt = Nothing) \/ (events = <<first>> /\ flushAt = 1 + FlushDelay)
  BY DEF BrowserInit
<1>2. /\ FlushDelay \in Nat /\ MaxPageTime \in Nat \ {0} /\ MaxQueued \in Nat \ {0, 1} /\ MaxPageEvents \in Nat \ {0}
      /\ MaxTimings \in Nat /\ MaxCrumbs \in Nat /\ MaxClears \in Nat /\ WindowCrumbs \in Nat
  BY BrowserAssumption
<1>3. first \in EventType /\ first.crumbs = 0 /\ first.at = 1
  BY DEF EventType
<1> HIDE DEF first
<1>4. crumbsSent \in [1..MaxPageTime -> Nat] /\ crumbsSent \in [1..MaxPageTime -> Int]
      /\ \A t \in 1..MaxPageTime : crumbsSent[t] = 0
  BY <1>1
<1>5. Attached(crumbsSent) = 0
  BY <1>2, InstantsFinite, <1>4, SetSumZero DEF Attached
<1>6. /\ events \in Seq(EventType) /\ Len(events) \in 0..1 /\ CrumbSum(events) = 0 /\ OldestAt = 1
  <2>1. CASE events = <<>>
    BY <1>1, <2>1, CrumbSumOfNone DEF OldestAt
  <2>2. CASE events = <<first>>
    <3>1. <<>> \in Seq(EventType) /\ Append(<<>>, first) = <<first>>
      BY <1>3
    <3>2. CrumbSum(<<first>>) = CrumbSum(<<>>) + first.crumbs
      BY <1>3, <3>1, CrumbSumAppend
    <3>3. <<first>> \in Seq(EventType) /\ Len(<<first>>) = 1 /\ <<first>>[1] = first /\ <<first>> # <<>>
      BY <1>3
    <3> QED
      BY <1>3, <2>2, <3>2, <3>3, CrumbSumOfNone DEF OldestAt
  <2> QED
    BY <1>1, <2>1, <2>2
<1>7. CrumbsCovered(events, crumbsSent, crumbClears, OldestAt)
  BY <1>2, <1>4, SinceFacts, WindowProducts, <1>1, <1>6 DEF CrumbsCovered
<1>8. reports \in [PageError -> Seq({"event", "log"})]
  BY <1>1
<1>9. flushAt \in Nat \cup {Nothing}
  BY <1>1, <1>2
<1>10. Len(events) < MaxQueued /\ pageSent + Len(events) <= MaxPageEvents /\ pageSent \in Nat
  <2>1. pageSent = 0 /\ Len(events) \in 0..1 /\ MaxQueued >= 2 /\ MaxPageEvents >= 1 /\ MaxQueued \in Nat /\ MaxPageEvents \in Nat
    BY <1>1, <1>2, <1>6
  <2> QED
    BY ONLY <2>1
<1>11. pageTime \in 1..MaxPageTime /\ timings \in 0..MaxTimings /\ crumbs \in 0..MaxCrumbs /\ crumbClears \in 0..MaxClears
  BY <1>1, <1>2
<1> QED
  BY <1>1, <1>2, <1>4, <1>5, <1>6, <1>7, <1>8, <1>9, <1>10, <1>11 DEF BatchInv, BrowserTypeOK

(* The breadcrumbs of a batch fit a window, and one more for each time the   *)
(* trail was forgotten.                                                      *)
LEMMA BatchHolds == ASSUME BatchInv, TimerInv PROVE BatchCrumbsBounded
<1>1. /\ crumbsSent \in [1..MaxPageTime -> Nat] /\ crumbClears \in Nat /\ OldestAt \in Nat
      /\ Attached(crumbsSent) <= WindowCrumbs /\ events \in Seq(EventType)
      /\ CrumbSum(events) <= WindowCrumbs * crumbClears + Attached(Since(crumbsSent, OldestAt))
  BY OldestFacts DEF BatchInv, BrowserTypeOK, CrumbsCovered
<1>2. Attached(Since(crumbsSent, OldestAt)) <= Attached(crumbsSent) /\ Attached(crumbsSent) \in Nat
      /\ Attached(Since(crumbsSent, OldestAt)) \in Nat
  BY <1>1, SinceFacts
<1>3. WindowCrumbs * crumbClears \in Nat /\ WindowCrumbs * (crumbClears + 1) = WindowCrumbs * crumbClears + WindowCrumbs
      /\ WindowCrumbs \in Nat
  BY <1>1, WindowProducts, BrowserAssumption
<1>4. CrumbSum(events) \in Nat
  <2>1. [urgent |-> TRUE, at |-> 0, crumbs |-> 0] \in EventType
    BY DEF EventType
  <2> QED
    BY <1>1, <2>1, CrumbSumAppend
<1>5. CrumbSum(events) <= WindowCrumbs * (crumbClears + 1)
  BY <1>1, <1>2, <1>3, <1>4
<1> QED
  BY <1>5, FoldsAreSums DEF BatchCrumbsBounded

(* A page starts with a timer for what waits.                                *)
LEMMA TimerStart == BrowserInit => TimerInv
<1> SUFFICES ASSUME BrowserInit PROVE TimerInv
  OBVIOUS
<1> USE BrowserAssumption
<1>1. CASE events = <<>> /\ flushAt = Nothing
  BY <1>1 DEF BrowserInit, TimerInv
<1>2. CASE events = <<[urgent |-> FALSE, at |-> 1, crumbs |-> 0]>> /\ flushAt = 1 + FlushDelay
  <2> DEFINE e == [urgent |-> FALSE, at |-> 1, crumbs |-> 0]
  <2>1. e.at = 1
    OBVIOUS
  <2> HIDE DEF e
  <2>2. <<e>> \in Seq({e}) /\ <<e>> # <<>> /\ DOMAIN <<e>> = {1} /\ <<e>>[1] = e
    OBVIOUS
  <2>3. events = <<e>> /\ pageTime = 1
    BY <1>2 DEF e, BrowserInit
  <2> QED
    <3>1. flushAt \in Nat /\ flushAt # Nothing /\ pageTime \in Nat /\ pageTime <= flushAt
      BY <1>2, <2>3
    <3>2. (\E S : events \in Seq(S)) /\ events # <<>>
      BY <2>2, <2>3
    <3>3. \A i \in DOMAIN events :
            events[i].at \in Nat /\ events[i].at <= pageTime /\ flushAt <= events[i].at + FlushDelay
      BY <1>2, <2>1, <2>2, <2>3
    <3> QED
      BY <3>1, <3>2, <3>3 DEF TimerInv
<1> QED
  BY <1>1, <1>2 DEF BrowserInit

(* No event waits longer than the flush interval, and an error is reported   *)
(* by its log only if nothing reported it before, whatever a page does and   *)
(* however its timers are mixed (runtime-browser index.ts).                  *)
THEOREM PageReportsInTime == BrowserSpec => [](EventsLeaveInTime /\ LogReportsFirstOnly)
<1>1. BrowserInit => TimerInv /\ PageReportsInv
  <2> SUFFICES ASSUME BrowserInit PROVE TimerInv /\ PageReportsInv
    OBVIOUS
  <2> USE BrowserAssumption
  <2>1. TimerInv
    BY TimerStart
  <2>2. PageReportsInv
    BY DEF BrowserInit, PageReportsInv, LogReportsFirstOnly
  <2> QED
    BY <2>1, <2>2
<1>2. TimerInv /\ PageReportsInv /\ [BrowserNext]_browserVars => (TimerInv /\ PageReportsInv)'
  BY TimerStep, PageReportsStep
<1>3. TimerInv /\ PageReportsInv => EventsLeaveInTime /\ LogReportsFirstOnly
  <2> SUFFICES ASSUME TimerInv, PageReportsInv, NEW i \in DOMAIN events PROVE pageTime - events[i].at <= FlushDelay
    BY DEF EventsLeaveInTime, PageReportsInv
  <2>1. events # <<>>
    OBVIOUS
  <2> QED
    BY <2>1, BrowserAssumption DEF TimerInv
<1> QED
  BY <1>1, <1>2, <1>3, PTL DEF BrowserSpec

(* The breadcrumbs of a batch fit the budget of a window, one more for each  *)
(* time the trail is forgotten, because no batch outlives the window; and    *)
(* the queue, the trail and the counts of a page keep to their bounds        *)
(* (index.ts, breadcrumbs.ts:58-61), for any delays, caps and budgets.       *)
THEOREM PageBatchesFit == BrowserSpec => [](BatchCrumbsBounded /\ BrowserTypeOK)
<1>1. BrowserInit => TimerInv /\ BatchInv
  BY TimerStart, BatchStart
<1>2. TimerInv /\ BatchInv /\ [BrowserNext]_browserVars => (TimerInv /\ BatchInv)'
  BY TimerStep, BatchStep
<1>3. TimerInv /\ BatchInv => BatchCrumbsBounded /\ BrowserTypeOK
  BY BatchHolds DEF BatchInv
<1> QED
  BY <1>1, <1>2, <1>3, PTL DEF BrowserSpec

-----------------------------------------------------------------------------
(* The setup of a project (setup.ts).                                       *)

SetupSpec == SetupInit /\ [][SetupNext]_setupVars

(* What setup and a developer leave a project like.                          *)
SoundProject(p) ==
    /\ p \in ProjectType /\ p.plugins <= 1 /\ p.steps <= 1 /\ p.maps \in MapsOf(tool) \cup {"on"}
    /\ p.config = "inner" => p.plugins = 1 /\ tool = "next"
    /\ PluginTool(tool) \/ (p.config = "none" /\ p.plugins = 0)
    /\ PluginTool(tool) => p.steps = 0 /\ (p.config = "none" => p.maps = "default" /\ p.plugins = 0)
    /\ p.read \in ReadingsOf(tool)
ProjectSound == tool \in Tool /\ SoundProject(project)

(* What is still to write is what a run that starts now would write, and what *)
(* is left to do by hand is what it would leave.                             *)
RunSound ==
    /\ setup.st \in {"idle", "writing", "over"} /\ setup.exit \in 0 .. 2 /\ setup.dry \in BOOLEAN
    /\ setup.st \in {"writing", "over"} => setup.todo = Todo(project)
    /\ setup.st = "writing" => setup.files = IF setup.dry THEN <<>> ELSE Planned(project)
    /\ setup.st = "over" /\ ~setup.dry => Planned(project) = <<>>
    /\ setup.st = "over" /\ setup.exit = 0 => setup.todo = {}

SetupInv == ProjectSound /\ RunSound /\ setups \in 0 .. MaxSetups

(* A project starts as a developer left it, and setup has not run. *)
LEMMA SetupStart == SetupInit => SetupInv
<1> SUFFICES ASSUME SetupInit PROVE SetupInv
  OBVIOUS
<1>1. tool \in Tool /\ project \in ProjectType /\ setup = IdleSetup /\ setups = 0
  BY DEF SetupInit
<1>2. ProjectSound
  BY <1>1 DEF SetupInit, ProjectSound, SoundProject, PluginTool
<1>3. RunSound
  BY <1>1 DEF RunSound, IdleSetup
<1> QED
  BY <1>1, <1>2, <1>3, SetupAssumption DEF SetupInv

-----------------------------------------------------------------------------
(* Writing a file.                                                         *)

Written(p, file) == [f \in DOMAIN p |-> IF f \in DOMAIN file THEN file[f] ELSE p[f]]

(* The fields of a project. *)
LEMMA FactsOfProject == ASSUME NEW p \in ProjectType
    PROVE  /\ DOMAIN p = {"dep", "installed", "build", "steps", "named", "read", "config", "plugins", "maps", "release"}
           /\ p.named \in BOOLEAN /\ p.read \in {"value", "default", "unknown"}
           /\ p.dep \in {"none", "old", "new"} /\ p.installed \in {"none", "old", "new"} /\ p.build \in BOOLEAN
           /\ p.steps \in 0 .. 2 /\ p.plugins \in 0 .. 2 /\ p.release \in BOOLEAN
           /\ p.config \in {"none", "editable", "opaque", "imported", "inner"}
           /\ p.maps \in {"off", "offInScript", "default", "on", "inline"}
BY DEF ProjectType

(* What a written package.json changes. *)
LEMMA PackageWritten ==
    ASSUME NEW p \in ProjectType, NEW n \in 0 .. 2, NEW q, q = Written(p, [dep |-> "new", steps |-> n])
    PROVE  /\ q \in ProjectType /\ q.dep = "new" /\ q.steps = n /\ q.build = p.build /\ q.config = p.config
           /\ q.plugins = p.plugins /\ q.maps = p.maps /\ q.release = p.release /\ q.installed = p.installed
           /\ q.named = p.named /\ q.read = p.read
<1>1. DOMAIN [dep |-> "new", steps |-> n] = {"dep", "steps"}
  OBVIOUS
<1> QED
  BY <1>1, FactsOfProject, SMT DEF Written, ProjectType

(* What a config that setup creates changes. *)
LEMMA ConfigCreated ==
    ASSUME NEW p \in ProjectType, NEW q, q = Written(p, [config |-> "editable", plugins |-> 1])
    PROVE  /\ q \in ProjectType /\ q.config = "editable" /\ q.plugins = 1 /\ q.dep = p.dep /\ q.steps = p.steps
           /\ q.build = p.build /\ q.maps = p.maps /\ q.release = p.release /\ q.installed = p.installed
           /\ q.named = p.named /\ q.read = p.read
<1>1. DOMAIN [config |-> "editable", plugins |-> 1] = {"config", "plugins"}
  OBVIOUS
<1> QED
  BY <1>1, FactsOfProject, SMT DEF Written, ProjectType

(* What a config that setup edits changes. *)
LEMMA ConfigEdited ==
    ASSUME NEW p \in ProjectType, NEW n \in 0 .. 2, NEW q, q = Written(p, [plugins |-> n])
    PROVE  /\ q \in ProjectType /\ q.plugins = n /\ q.config = p.config /\ q.dep = p.dep /\ q.steps = p.steps
           /\ q.build = p.build /\ q.maps = p.maps /\ q.release = p.release /\ q.installed = p.installed
           /\ q.named = p.named /\ q.read = p.read
<1>1. DOMAIN [plugins |-> n] = {"plugins"}
  OBVIOUS
<1> QED
  BY <1>1, FactsOfProject, SMT DEF Written, ProjectType

(* What a script that emits maps changes. *)
LEMMA MapsWritten ==
    ASSUME NEW p \in ProjectType, NEW q, q = Written(p, [maps |-> "on"])
    PROVE  /\ q \in ProjectType /\ q.maps = "on" /\ q.config = p.config /\ q.plugins = p.plugins /\ q.dep = p.dep
           /\ q.steps = p.steps /\ q.build = p.build /\ q.release = p.release /\ q.installed = p.installed
           /\ q.named = p.named /\ q.read = p.read
<1>1. DOMAIN [maps |-> "on"] = {"maps"}
  OBVIOUS
<1> QED
  BY <1>1, FactsOfProject, SMT DEF Written, ProjectType

-----------------------------------------------------------------------------
(* The plan of what is left is the rest of the plan.                       *)

PackageFile(p) ==
    [dep |-> "new",
     steps |-> IF ~PluginTool(tool) /\ Integrates(p) /\ AddsScript(p) THEN p.steps + 1 ELSE p.steps]
ConfigRecord(p) ==
    IF PluginEdit(p) = "created" THEN [config |-> "editable", plugins |-> 1] ELSE [plugins |-> p.plugins + 1]
MapsRecord == [maps |-> "on"]
PlanFiles(p) == {PackageFile(p), ConfigRecord(p), MapsRecord}

(* Each file of the plan is written or not. *)
LEMMA PlanParts == ASSUME NEW p
    PROVE  /\ Package(p) = <<>> \/ Package(p) = <<PackageFile(p)>>
           /\ ConfigFile(p) = <<>> \/ ConfigFile(p) = <<ConfigRecord(p)>>
           /\ MapsFile(p) = <<>> \/ MapsFile(p) = <<MapsRecord>>
           /\ Package(p) \in Seq(PlanFiles(p)) /\ ConfigFile(p) \in Seq(PlanFiles(p))
           /\ MapsFile(p) \in Seq(PlanFiles(p))
<1>1. Package(p) = <<>> \/ Package(p) = <<PackageFile(p)>>
  BY DEF Package, PackageFile
<1>2. ConfigFile(p) = <<>> \/ ConfigFile(p) = <<ConfigRecord(p)>>
  BY DEF ConfigFile, ConfigRecord
<1>3. MapsFile(p) = <<>> \/ MapsFile(p) = <<MapsRecord>>
  BY DEF MapsFile, MapsRecord
<1>4. PackageFile(p) \in PlanFiles(p) /\ ConfigRecord(p) \in PlanFiles(p) /\ MapsRecord \in PlanFiles(p)
  BY DEF PlanFiles
<1>5. \A S : \A x \in S : <<x>> \in Seq(S) /\ <<>> \in Seq(S)
  OBVIOUS
<1>6. Package(p) \in Seq(PlanFiles(p))
  BY <1>1, <1>4, <1>5
<1>7. ConfigFile(p) \in Seq(PlanFiles(p))
  BY <1>2, <1>4, <1>5
<1>8. MapsFile(p) \in Seq(PlanFiles(p))
  BY <1>3, <1>4, <1>5
<1> QED
  BY <1>1, <1>2, <1>3, <1>6, <1>7, <1>8

(* The first of a list and the rest of it. *)
LEMMA FirstAndRest == ASSUME NEW S, NEW x \in S, NEW s \in Seq(S), NEW t \in Seq(S)
    PROVE  /\ Head(<<x>> \o s \o t) = x /\ Tail(<<x>> \o s \o t) = s \o t
           /\ Head(<<x>> \o s) = x /\ Tail(<<x>> \o s) = s
           /\ Head(<<x>>) = x /\ Tail(<<x>>) = <<>>
OBVIOUS

(* Nothing added to a list is the list. *)
LEMMA NothingFirst == ASSUME NEW S, NEW s \in Seq(S) PROVE <<>> \o s = s /\ s \o <<>> = s
OBVIOUS

(* With package.json written, the rest of the plan is the plan. *)
LEMMA PlanAfterPackage ==
    ASSUME tool \in Tool, NEW p, SoundProject(p), Package(p) # <<>>, NEW q, q = Written(p, Head(Planned(p)))
    PROVE  Planned(q) = Tail(Planned(p)) /\ SoundProject(q) /\ Todo(q) = Todo(p)
<1>1. p \in ProjectType
  BY DEF SoundProject
<1> DEFINE n == IF ~PluginTool(tool) /\ Integrates(p) /\ AddsScript(p) THEN p.steps + 1 ELSE p.steps
<1>2. Package(p) = <<[dep |-> "new", steps |-> n]>> /\ [dep |-> "new", steps |-> n] \in PlanFiles(p)
  BY PlanParts DEF PackageFile, PlanFiles
<1>3. Head(Planned(p)) = [dep |-> "new", steps |-> n] /\ Tail(Planned(p)) = ConfigFile(p) \o MapsFile(p)
  <2> DEFINE x == [dep |-> "new", steps |-> n]
  <2>1. ConfigFile(p) \in Seq(PlanFiles(p)) /\ MapsFile(p) \in Seq(PlanFiles(p)) /\ x \in PlanFiles(p)
    BY <1>2, PlanParts
  <2>2. Planned(p) = <<x>> \o ConfigFile(p) \o MapsFile(p)
    BY <1>2 DEF Planned
  <2>3. Head(Planned(p)) = x /\ Tail(Planned(p)) = ConfigFile(p) \o MapsFile(p)
    <3> HIDE DEF x
    <3> QED
      BY <2>1, <2>2, FirstAndRest
  <2> QED
    BY <2>3
<1>4. n \in 0 .. 2 /\ n <= 1
  BY <1>1, FactsOfProject DEF SoundProject, AddsScript, HasStep
<1>5. /\ q \in ProjectType /\ q.dep = "new" /\ q.steps = n /\ q.build = p.build /\ q.config = p.config
      /\ q.plugins = p.plugins /\ q.maps = p.maps /\ q.release = p.release /\ q.named = p.named /\ q.read = p.read
  <2> HIDE DEF n
  <2> QED
    BY <1>1, <1>3, <1>4, PackageWritten
<1>6. NothingToWire(q) = NothingToWire(p) /\ Integrates(q) = Integrates(p) /\ PluginEdit(q) = PluginEdit(p)
  BY <1>5 DEF NothingToWire, Integrates, PluginEdit, Uses
<1>7. Package(q) = <<>>
  BY <1>1, <1>5, <1>6, FactsOfProject DEF AddsScript, HasStep, OutputKnown, Package, DependencyChanges
<1>8. ConfigFile(q) = ConfigFile(p)
  BY <1>5, <1>6 DEF ConfigFile
<1>9. MapsFile(q) = MapsFile(p)
  BY <1>5, <1>6 DEF MapsFile, TurnsMapsOn, SettingRead
<1>10. Planned(q) = Tail(Planned(p))
  BY PlanParts, <1>3, <1>7, <1>8, <1>9, NothingFirst DEF Planned
<1>11. SoundProject(q)
  BY <1>1, <1>4, <1>5 DEF SoundProject
<1>12. PluginTool(tool) \/ (~HasStep(p) /\ ~AddsScript(p)) = (~HasStep(q) /\ ~AddsScript(q))
  BY <1>1, <1>5, FactsOfProject DEF AddsScript, HasStep, OutputKnown, Integrates, NothingToWire
<1>13. MapsLeft(q) = MapsLeft(p)
  BY <1>5 DEF MapsLeft, SettingRead
<1>14. Todo(q) = Todo(p)
  BY <1>5, <1>6, <1>12, <1>13 DEF Todo, PluginTool
<1> QED
  BY <1>10, <1>11, <1>14

(* With the config written, the rest of the plan is the plan. *)
LEMMA PlanAfterConfig ==
    ASSUME tool \in Tool, NEW p, SoundProject(p), Package(p) = <<>>, ConfigFile(p) # <<>>,
           NEW q, q = Written(p, Head(Planned(p)))
    PROVE  Planned(q) = Tail(Planned(p)) /\ SoundProject(q) /\ Todo(q) = Todo(p)
<1>1. p \in ProjectType
  BY DEF SoundProject
<1>2. ConfigFile(p) = <<ConfigRecord(p)>> /\ ConfigRecord(p) \in PlanFiles(p)
  BY PlanParts DEF PlanFiles
<1>3. Head(Planned(p)) = ConfigRecord(p) /\ Tail(Planned(p)) = MapsFile(p)
  BY <1>2, PlanParts, FirstAndRest, NothingFirst DEF Planned
<1>4. PluginTool(tool) /\ Integrates(p) /\ PluginEdit(p) \in {"created", "edited"}
  BY DEF ConfigFile
<1>5. p.plugins = 0 /\ p.config # "inner"
  BY <1>4, <1>1, FactsOfProject DEF PluginEdit, SoundProject, Uses
<1>6. /\ q \in ProjectType /\ q.plugins = 1 /\ q.dep = p.dep /\ q.steps = p.steps
      /\ q.build = p.build /\ q.maps = p.maps /\ q.release = p.release /\ q.named = p.named /\ q.read = p.read
      /\ q.config = IF p.config = "none" THEN "editable" ELSE p.config
  BY <1>3, <1>1, ConfigCreated, <1>5, ConfigEdited, <1>4 DEF ConfigRecord, PluginEdit
<1>7. NothingToWire(q) = NothingToWire(p) /\ Integrates(q) = Integrates(p) /\ q.config \notin {"none", "inner"}
      /\ PluginEdit(q) = "already"
  BY <1>1, <1>4, <1>5, <1>6, FactsOfProject DEF NothingToWire, Integrates, PluginEdit, Uses
<1>8. Package(q) = <<>>
  BY <1>6, <1>7, <1>4 DEF Package, DependencyChanges, AddsScript, HasStep
<1>9. ConfigFile(q) = <<>> /\ MapsFile(q) = MapsFile(p)
  BY <1>6, <1>7 DEF ConfigFile, MapsFile, TurnsMapsOn, SettingRead
<1>10. Planned(q) = Tail(Planned(p))
  BY <1>3, <1>8, <1>9, PlanParts, NothingFirst DEF Planned
<1>11. SoundProject(q)
  BY <1>1, <1>4, <1>6, <1>7 DEF SoundProject
<1>12. MapsLeft(q) = MapsLeft(p)
  BY <1>1, <1>4, <1>6, <1>7, FactsOfProject DEF MapsLeft, PluginTool, SoundProject, SettingRead
<1>13. Todo(q) = Todo(p)
  BY <1>4, <1>6, <1>7, <1>12 DEF Todo, PluginTool
<1> QED
  BY <1>10, <1>11, <1>13

(* With the maps turned on, nothing of the plan is left. *)
LEMMA PlanAfterMaps ==
    ASSUME tool \in Tool, NEW p, SoundProject(p), Package(p) = <<>>, ConfigFile(p) = <<>>, MapsFile(p) # <<>>,
           NEW q, q = Written(p, Head(Planned(p)))
    PROVE  Planned(q) = Tail(Planned(p)) /\ SoundProject(q) /\ Todo(q) = Todo(p)
<1>1. p \in ProjectType
  BY DEF SoundProject
<1>2. MapsFile(p) = <<MapsRecord>> /\ MapsRecord \in PlanFiles(p)
  BY PlanParts DEF PlanFiles
<1>3. Head(Planned(p)) = MapsRecord /\ Tail(Planned(p)) = <<>>
  BY <1>2, PlanParts, FirstAndRest, NothingFirst DEF Planned
<1>4. Integrates(p) /\ tool \in {"cra", "angular"} /\ p.maps \in {"off", "default"} /\ (tool = "cra" \/ p.read = "value")
  BY DEF MapsFile, TurnsMapsOn, SettingRead, SoundProject, ReadingsOf
<1>5. /\ q \in ProjectType /\ q.maps = "on" /\ q.config = p.config /\ q.plugins = p.plugins /\ q.dep = p.dep
      /\ q.steps = p.steps /\ q.build = p.build /\ q.release = p.release /\ q.named = p.named /\ q.read = p.read
  BY <1>1, <1>3, MapsWritten DEF MapsRecord
<1>6. NothingToWire(q) = NothingToWire(p) /\ Integrates(q) = Integrates(p) /\ PluginEdit(q) = PluginEdit(p)
  BY <1>5 DEF NothingToWire, Integrates, PluginEdit, Uses
<1>7. Package(q) = <<>>
  BY <1>5, <1>6 DEF Package, DependencyChanges, AddsScript, HasStep, OutputKnown
<1>8. ConfigFile(q) = <<>>
  BY <1>5, <1>6 DEF ConfigFile
<1>9. MapsFile(q) = <<>>
  BY <1>4, <1>5 DEF MapsFile, TurnsMapsOn, SettingRead
<1>10. Planned(q) = Tail(Planned(p))
  BY <1>3, <1>7, <1>8, <1>9, PlanParts, NothingFirst DEF Planned
<1>11. SoundProject(q)
  BY <1>1, <1>4, <1>5 DEF SoundProject, PluginTool
<1>12. MapsLeft(q) = MapsLeft(p)
  BY <1>4, <1>5 DEF MapsLeft, SettingRead
<1>13. Todo(q) = Todo(p)
  BY <1>5, <1>6, <1>12 DEF Todo, HasStep, AddsScript, OutputKnown
<1> QED
  BY <1>10, <1>11, <1>13

(* Whichever file is written first, the plan that is left is the rest. *)
LEMMA PlanOfTheRest ==
    ASSUME tool \in Tool, NEW p, SoundProject(p), Planned(p) # <<>>, NEW q, q = Written(p, Head(Planned(p)))
    PROVE  Planned(q) = Tail(Planned(p)) /\ SoundProject(q) /\ Todo(q) = Todo(p)
<1>1. Package(p) # <<>> \/ ConfigFile(p) # <<>> \/ MapsFile(p) # <<>>
  BY DEF Planned
<1> QED
  BY <1>1, PlanAfterPackage, PlanAfterConfig, PlanAfterMaps

-----------------------------------------------------------------------------
(* The steps.                                                              *)

(* The plan of a project depends on its tool only. *)
LEMMA SameTool == ASSUME tool' = tool
    PROVE  /\ Planned(project)' = Planned(project') /\ Todo(project)' = Todo(project')
           /\ SoundProject(project)' = SoundProject(project')
<1>1. Planned(project)' = Planned(project')
  BY DEF Planned, Package, ConfigFile, MapsFile, Integrates, NothingToWire, PluginEdit, TurnsMapsOn, AddsScript, OutputKnown
<1>2. Todo(project)' = Todo(project')
  BY DEF Todo, NothingToWire, PluginEdit, MapsLeft, AddsScript, OutputKnown
<1>3. SoundProject(project)' = SoundProject(project')
  BY DEF SoundProject
<1> QED
  BY <1>1, <1>2, <1>3

(* A run of setup starts with the plan of the project. *)
LEMMA RunSetupStep ==
    ASSUME SetupInv, NEW dry \in BOOLEAN, NEW install \in BOOLEAN, RunSetup(dry, install) PROVE SetupInv'
  BY SetupAssumption, SameTool DEF RunSetup, SetupInv, ProjectSound, RunSound

(* A file that is written leaves the rest of the plan. *)
LEMMA WriteFileStep == ASSUME SetupInv, WriteFile PROVE SetupInv'
<1>1. /\ setup.st = "writing" /\ setup.files = Planned(project) /\ ~setup.dry /\ Planned(project) # <<>>
      /\ setup.todo = Todo(project) /\ tool' = tool /\ setups' = setups
  BY DEF WriteFile, SetupInv, RunSound
<1>2. project' = Written(project, Head(Planned(project)))
  BY <1>1 DEF WriteFile, Written
<1>3. Planned(project') = Tail(Planned(project)) /\ SoundProject(project') /\ Todo(project') = Todo(project)
  BY <1>1, <1>2, PlanOfTheRest DEF SetupInv, ProjectSound
<1>4. /\ setup'.st = setup.st /\ setup'.files = Tail(setup.files) /\ setup'.todo = setup.todo
      /\ setup'.dry = setup.dry /\ setup'.exit = setup.exit
  BY DEF WriteFile
<1>5. ProjectSound'
  BY <1>1, <1>3, SameTool DEF SetupInv, ProjectSound
<1>6. RunSound'
  BY <1>1, <1>3, <1>4, SameTool DEF SetupInv, RunSound
<1> QED
  BY <1>1, <1>5, <1>6 DEF SetupInv

(* A killed run leaves a project that a run can finish. *)
LEMMA KilledStep == ASSUME SetupInv, Killed PROVE SetupInv'
  BY SameTool DEF Killed, SetupInv, ProjectSound, RunSound, IdleSetup

(* An install changes no file of the plan. *)
LEMMA InstallStep == ASSUME SetupInv, Install PROVE SetupInv'
<1>1. /\ setup.st = "writing" /\ setup.files = <<>> /\ tool' = tool /\ setups' = setups
      /\ setup.todo = Todo(project) /\ (~setup.dry => Planned(project) = <<>>)
  BY DEF Install, SetupInv, RunSound
<1>2. CASE project' = [project EXCEPT !.installed = project.dep] /\ setup' = [setup EXCEPT !.install = FALSE]
  <2>1. project \in ProjectType
    BY DEF SetupInv, ProjectSound, SoundProject
  <2>2. /\ project' \in ProjectType /\ project'.maps = project.maps /\ project'.config = project.config
        /\ project'.plugins = project.plugins /\ project'.dep = project.dep /\ project'.steps = project.steps
        /\ project'.build = project.build /\ project'.release = project.release
        /\ project'.named = project.named /\ project'.read = project.read
    BY <1>2, <2>1 DEF ProjectType
  <2>3. NothingToWire(project') = NothingToWire(project) /\ PluginEdit(project') = PluginEdit(project)
        /\ Integrates(project') = Integrates(project) /\ MapsLeft(project') = MapsLeft(project)
        /\ TurnsMapsOn(project') = TurnsMapsOn(project) /\ AddsScript(project') = AddsScript(project)
        /\ DependencyChanges(project') = DependencyChanges(project) /\ HasStep(project') = HasStep(project)
    BY <2>2 DEF NothingToWire, PluginEdit, Uses, Integrates, MapsLeft, TurnsMapsOn, AddsScript, HasStep,
                DependencyChanges, OutputKnown, SettingRead
  <2>4. Planned(project') = Planned(project)
    BY <2>2, <2>3 DEF Planned, Package, ConfigFile, MapsFile
  <2>5. Todo(project') = Todo(project)
    BY <2>2, <2>3 DEF Todo
  <2>6. SoundProject(project')
    BY <2>2 DEF SetupInv, ProjectSound, SoundProject
  <2>7. /\ setup'.st = setup.st /\ setup'.files = setup.files /\ setup'.todo = setup.todo
        /\ setup'.dry = setup.dry /\ setup'.exit = setup.exit
    BY <1>2
  <2>8. ProjectSound'
    BY <1>1, <2>6, SameTool DEF SetupInv, ProjectSound
  <2>9. RunSound'
    BY <1>1, <2>4, <2>5, <2>7, SameTool DEF SetupInv, RunSound
  <2> QED
    BY <1>1, <2>8, <2>9 DEF SetupInv
<1>3. CASE setup' = [setup EXCEPT !.st = "over", !.exit = 1] /\ project' = project
  BY <1>1, <1>3, SameTool DEF SetupInv, RunSound, ProjectSound
<1> QED
  BY <1>2, <1>3 DEF Install

(* A run ends with nothing left to write. *)
LEMMA FinishStep == ASSUME SetupInv, Finish PROVE SetupInv'
  BY SameTool DEF Finish, SetupInv, RunSound, ProjectSound

(* What a developer adds by hand is a project.                                *)
LEMMA ScriptByHand ==
    ASSUME NEW p \in ProjectType, NEW q, q = [p EXCEPT !.build = TRUE, !.steps = 1]
    PROVE  /\ q \in ProjectType /\ q.steps = 1 /\ q.maps = p.maps /\ q.read = p.read
           /\ q.config = p.config /\ q.plugins = p.plugins
<1> DEFINE r == [p EXCEPT !.build = TRUE]
<1>1. r \in ProjectType /\ r.maps = p.maps /\ r.read = p.read /\ r.config = p.config /\ r.plugins = p.plugins
  BY DEF ProjectType
<1>2. q = [r EXCEPT !.steps = 1]
  OBVIOUS
<1> HIDE DEF r
<1> QED
  BY <1>1, <1>2 DEF ProjectType

(* What is done by hand keeps the project sound. *)
LEMMA DoByHandStep ==
    ASSUME SetupInv, NEW a \in {"plugin", "script", "maps", "release"}, DoByHand(a) PROVE SetupInv'
<1>1. /\ tool' = tool /\ setups' = setups /\ a \in Todo(project) /\ setup'.st = "idle"
      /\ setup'.dry = setup.dry /\ setup'.exit = setup.exit /\ project \in ProjectType
  <2>1. /\ setup.st = "over" /\ a \in setup.todo /\ tool' = tool /\ setups' = setups
        /\ setup' = [setup EXCEPT !.st = "idle", !.todo = @ \ {a}]
    BY DEF DoByHand
  <2> QED
    BY <2>1 DEF SetupInv, RunSound, ProjectSound, SoundProject
<1>2. SoundProject(project)
  BY DEF SetupInv, ProjectSound
<1>3. SoundProject(project')
  <2>1. CASE a = "plugin"
    <3>1. PICK c \in {"editable", "opaque"} : PluginTool(tool) /\ project' = [project EXCEPT !.config = c, !.plugins = 1]
      BY <1>1, <2>1 DEF DoByHand, Todo, ConfigByHand
    <3>2. /\ project' \in ProjectType /\ project'.steps = project.steps /\ project'.maps = project.maps
          /\ project'.read = project.read /\ project'.config = c /\ project'.plugins = 1
      <4> DEFINE r == [project EXCEPT !.config = c]
      <4>1. /\ r \in ProjectType /\ r.steps = project.steps /\ r.maps = project.maps
            /\ r.read = project.read /\ r.config = c
        BY <1>1 DEF ProjectType
      <4>2. project' = [r EXCEPT !.plugins = 1]
        BY <3>1
      <4> HIDE DEF r
      <4> QED
        BY <4>1, <4>2 DEF ProjectType
    <3> QED
      BY <1>2, <3>1, <3>2 DEF SoundProject
  <2>2. CASE a = "script"
    <3>1. project' = [project EXCEPT !.build = TRUE, !.steps = 1] /\ ~PluginTool(tool)
      BY <1>1, <2>2 DEF DoByHand, Todo, PluginTool
    <3>2. /\ project' \in ProjectType /\ project'.steps = 1 /\ project'.maps = project.maps
          /\ project'.config = project.config /\ project'.plugins = project.plugins /\ project'.read = project.read
      BY <1>1, <3>1, ScriptByHand
    <3> QED
      BY <1>2, <3>1, <3>2 DEF SoundProject
  <2>3. CASE a = "maps"
    <3>1. PICK m \in {"value", project.read} : project' = [project EXCEPT !.maps = "on", !.read = m]
      BY <2>3 DEF DoByHand
    <3>2. m \in {"value", "default", "unknown"} /\ m \in ReadingsOf(tool)
      BY <1>1, <1>2, FactsOfProject DEF SoundProject, ReadingsOf
    <3>3. /\ project' \in ProjectType /\ project'.steps = project.steps /\ project'.maps = "on"
          /\ project'.read = m /\ project'.config = project.config /\ project'.plugins = project.plugins
      <4> DEFINE r == [project EXCEPT !.maps = "on"]
      <4>1. /\ r \in ProjectType /\ r.steps = project.steps /\ r.maps = "on"
            /\ r.config = project.config /\ r.plugins = project.plugins
        BY <1>1 DEF ProjectType
      <4>2. project' = [r EXCEPT !.read = m]
        BY <3>1
      <4> HIDE DEF r
      <4> QED
        BY <3>2, <4>1, <4>2 DEF ProjectType
    <3> QED
      BY <1>1, <1>2, <2>3, <3>2, <3>3 DEF Todo, PluginTool, MapsLeft, SoundProject
  <2>4. CASE a = "release"
    BY <1>1, <2>4, <1>2 DEF DoByHand, SoundProject, ProjectType
  <2> QED
    BY <2>1, <2>2, <2>3, <2>4
<1>4. ProjectSound'
  BY <1>1, <1>3, SameTool DEF SetupInv, ProjectSound
<1>5. RunSound'
  BY <1>1 DEF SetupInv, RunSound
<1> QED
  BY <1>1, <1>4, <1>5 DEF SetupInv

(* Every step of setup keeps the project sound. *)
LEMMA SetupStep == SetupInv /\ [SetupNext]_setupVars => SetupInv'
<1> SUFFICES ASSUME SetupInv, [SetupNext]_setupVars PROVE SetupInv'
  OBVIOUS
<1>1. CASE UNCHANGED setupVars
  BY <1>1, SameTool DEF setupVars, SetupInv, ProjectSound, RunSound
<1>2. CASE SetupNext
  BY <1>2, RunSetupStep, WriteFileStep, KilledStep, InstallStep, FinishStep, DoByHandStep DEF SetupNext
<1> QED
  BY <1>1, <1>2

(* While a run writes, what is left to write is the plan of the project as it *)
(* is, wherever earlier runs were killed (setup.ts).                         *)
THEOREM SetupInvariant == SetupSpec => []SetupInv
<1> QED
  BY SetupStart, SetupStep, PTL DEF SetupSpec

(* A sound project can be set up again, and applied means wired. *)
LEMMA SetupHolds == SetupInv => SafeToRerun /\ AppliedMeansWired /\ SetupTypeOK
<1> SUFFICES ASSUME SetupInv PROVE SafeToRerun /\ AppliedMeansWired /\ SetupTypeOK
  OBVIOUS
<1>1. project \in ProjectType /\ project.plugins <= 1 /\ project.steps <= 1 /\ tool \in Tool
  BY DEF SetupInv, ProjectSound, SoundProject
<1>2. SafeToRerun
  BY <1>1 DEF SafeToRerun, SetupInv, RunSound
<1>3. SetupTypeOK
  BY <1>1 DEF SetupTypeOK, SetupInv, RunSound
<1>4. ASSUME setup.st = "over", setup.exit = 0, ~setup.dry
      PROVE  /\ project.dep = "new"
             /\ IF PluginTool(tool)
                THEN /\ project.plugins = 1 /\ project.config # "inner"
                     /\ project.maps = "inline" => project.read # "value"
                ELSE (project.steps = 1 \/ project.named) /\ project.maps \in (IF tool = "cra" THEN {"default", "on"} ELSE {"on"})
  <2>1. Planned(project) = <<>> /\ Todo(project) = {}
    BY <1>4 DEF SetupInv, RunSound
  <2>2. Package(project) = <<>> /\ ConfigFile(project) = <<>> /\ MapsFile(project) = <<>>
    BY <2>1, PlanParts DEF Planned
  <2>3. tool # "unknown" /\ ~NothingToWire(project) /\ Integrates(project)
    BY <2>1 DEF Todo, NothingToWire, Integrates
  <2>4. ~DependencyChanges(project) /\ (PluginTool(tool) \/ ~AddsScript(project))
    BY <2>2, <2>3 DEF Package
  <2>5. ~MapsLeft(project) /\ ~(PluginTool(tool) /\ PluginEdit(project) = "manual")
        /\ ~(tool \in {"cra", "angular", "esbuild"} /\ ~HasStep(project) /\ ~AddsScript(project))
    BY <2>1 DEF Todo
  <2>6. CASE PluginTool(tool)
    <3>1. PluginEdit(project) \notin {"created", "edited", "manual"}
      BY <2>2, <2>3, <2>5, <2>6 DEF ConfigFile
    <3>2. project.config \notin {"none", "inner"} /\ Uses(project)
      BY <3>1 DEF PluginEdit, SetupInv, ProjectSound, SoundProject
    <3>3. project.plugins = 1
      BY <1>1, <3>2, FactsOfProject DEF Uses
    <3>4. project.maps = "inline" => project.read # "value"
      BY <2>5, <2>6, <3>2 DEF MapsLeft, SettingRead, PluginTool, SetupInv, ProjectSound, SoundProject, MapsOf
    <3> QED
      BY <2>4, <2>6, <3>2, <3>3, <3>4 DEF DependencyChanges
  <2>7. CASE ~PluginTool(tool)
    <3>1. tool \in {"cra", "angular", "esbuild"}
      BY <1>1, <2>3, <2>7, SetupAssumption DEF PluginTool
    <3>2. HasStep(project)
      BY <2>4, <2>5, <2>7, <3>1 DEF AddsScript
    <3>3. project.steps = 1 \/ project.named
      BY <1>1, <3>2, FactsOfProject DEF HasStep
    <3>4. ~TurnsMapsOn(project)
      BY <2>2, <2>3 DEF MapsFile
    <3>5. project.maps \in (IF tool = "cra" THEN {"default", "on"} ELSE {"on"})
      BY <2>5, <3>1, <3>4 DEF MapsLeft, TurnsMapsOn, SettingRead, ReadingsOf, SetupInv, ProjectSound, SoundProject, MapsOf
    <3> QED
      BY <2>4, <2>7, <3>3, <3>5 DEF DependencyChanges
  <2> QED
    BY <2>6, <2>7
<1>5. AppliedMeansWired
  BY <1>4 DEF AppliedMeansWired
<1> QED
  BY <1>2, <1>3, <1>5

-----------------------------------------------------------------------------
(* A build and its source maps (inject.ts, upload.ts, verify.ts).            *)

BuildSpec == SmbInit /\ [][SmbNext]_smbVars

CodeType == [snippet : {"none", "top", "end"}, id : Bundle \cup {NoId}, url : BOOLEAN]
MapType == [there : BOOLEAN, shift : {0, 1}, mark : BOOLEAN, id : Bundle \cup {NoId}]
ItemType == [state : {"none", "queued", "sent", "skipped", "uploaded", "failed", "stopped"},
             attempt : 0 .. MaxAttempts, id : Bundle \cup {NoId}, shift : {0, 1}]
RowType == [id : Bundle \cup {NoId, OldId}, shift : {0, 1}]

BuildTypes ==
    /\ shape \in [Bundle -> Shapes] /\ job \in Job /\ todo \subseteq Bundle /\ fatal \in BOOLEAN /\ crashes \in Nat
    /\ js \in [Bundle -> CodeType] /\ bundleMaps \in [Bundle -> MapType]
    /\ items \in [Bundle -> ItemType] /\ stored \in [Bundle -> RowType]

(* The mark says that a map was shifted, so that it is once; a bundle that   *)
(* has its snippet has the map of its own lines.                             *)
BundlesSound ==
    \A b \in Bundle :
        /\ js[b].id \in {NoId, b} /\ bundleMaps[b].id \in {NoId, b}
        /\ bundleMaps[b].mark = (bundleMaps[b].shift = 1)
        /\ ~OnTop(b) => bundleMaps[b].shift = 0
        /\ js[b].snippet # "none" => js[b].id = b /\ bundleMaps[b].shift = Lines(js[b])

WritingSound ==
    writing # NoWrite =>
        /\ step = "injecting" /\ writing.of \in todo
        /\ writing = [of |-> writing.of, code |-> NewCode(writing.of)]
        /\ bundleMaps[writing.of].shift = Lines(NewCode(writing.of))

(* What inject is done with has its snippet.                                 *)
InjectedSound ==
    /\ step = "injecting" => \A b \in Bundle \ todo : b \in WithMap /\ shape[b].valid => js[b].snippet # "none"
    /\ step = "checking" => \A b \in Bundle : b \in WithMap /\ shape[b].valid => js[b].snippet # "none"

(* The row of a bundle that has its snippet.                                 *)
OwnRow(b) == [id |-> b, shift |-> Lines(js[b])]

ItemsSound ==
    \A b \in Bundle :
        /\ items[b].state \in {"queued", "sent", "uploaded", "skipped"} =>
              js[b].snippet # "none" /\ items[b].id = b /\ items[b].shift = Lines(js[b])
        /\ HasIt(b) => stored[b] = OwnRow(b)
        /\ items[b].state = "queued" => items[b].attempt < MaxAttempts

RowsSound ==
    \A r \in Bundle :
        \/ stored[r] \in {NoRow, [id |-> OldId, shift |-> 1]}
        \/ js[r].snippet # "none" /\ stored[r] = OwnRow(r)

DeletedSound ==
    /\ step = "deleting" => \A b \in todo : HasIt(b)
    /\ (~job.own /\ ~job.effort) =>
          /\ step = "removing" => todo = {}
          /\ \A b \in Bundle : shape[b].mapped /\ b \notin WithMap => js[b].snippet # "none" /\ stored[b] = OwnRow(b)

CommentsSound ==
    /\ crashes = 0 => \A b \in Bundle : js[b].url => b \in WithMap \/ (step \in {"deleting", "removing"} /\ b \in todo)
    /\ job.plugin /\ job.own /\ step = "removing" => WithMap \subseteq todo
    /\ job.plugin /\ job.own /\ step = "done" => WithMap = {}
    /\ job.plugin /\ job.own /\ step = "done" /\ crashes = 0 => \A b \in Bundle : ~js[b].url

VerdictSound ==
    /\ verdict # "none" => step = "verified"
    /\ verdict = "ok" => \A b \in Bundle : js[b].snippet # "none" /\ stored[b] = OwnRow(b)

BuildInv ==
    /\ BuildTypes /\ BundlesSound /\ WritingSound /\ InjectedSound /\ ItemsSound
    /\ RowsSound /\ DeletedSound /\ CommentsSound /\ VerdictSound /\ Cardinality(Sending) <= Concurrency

(* The fields of a bundle's files and rows. *)
LEMMA BuildFacts ==
    ASSUME BuildTypes, NEW b \in Bundle
    PROVE  /\ js[b] \in CodeType /\ bundleMaps[b] \in MapType /\ items[b] \in ItemType /\ stored[b] \in RowType
           /\ shape[b] \in Shapes /\ b # NoId /\ b # OldId /\ Lines(js[b]) \in {0, 1}
BY UploadBounds DEF BuildTypes, Lines

(* The code that inject writes has its snippet and its debug id. *)
LEMMA NewCodeFacts ==
    ASSUME BuildTypes, BundlesSound, NEW b \in Bundle
    PROVE  /\ NewCode(b) \in CodeType /\ NewCode(b).id = b /\ NewCode(b).url = js[b].url
           /\ NewCode(b).snippet = (IF js[b].snippet # "none" THEN js[b].snippet
                                    ELSE IF OnTop(b) THEN "top" ELSE "end")
           /\ NewCode(b).snippet # "none"
<1>1. js[b] \in CodeType /\ IdFor(b) = b /\ js[b].snippet \in {"none", "top", "end"}
  BY BuildFacts DEF BundlesSound, IdFor, CodeType
<1>3. NewCode(b) = [js[b] EXCEPT !.snippet = IF js[b].snippet # "none" THEN js[b].snippet
                                             ELSE IF OnTop(b) THEN "top" ELSE "end", !.id = b]
  BY <1>1 DEF NewCode
<1> DEFINE s == IF js[b].snippet # "none" THEN js[b].snippet ELSE IF OnTop(b) THEN "top" ELSE "end"
<1>4. s \in {"none", "top", "end"} /\ s # "none" /\ NewCode(b) = [js[b] EXCEPT !.snippet = s, !.id = b]
  BY <1>1, <1>3
<1> HIDE DEF s
<1>5. NewCode(b) \in CodeType /\ NewCode(b).snippet = s /\ NewCode(b).id = b /\ NewCode(b).url = js[b].url
  <2> DEFINE c == [js[b] EXCEPT !.snippet = s]
             n == [c EXCEPT !.id = b]
  <2>1. c \in CodeType /\ c.snippet = s /\ c.url = js[b].url
    BY <1>1, <1>4 DEF CodeType
  <2> HIDE DEF c
  <2>2. n \in CodeType /\ n.snippet = c.snippet /\ n.url = c.url /\ n.id = b
    BY <2>1 DEF CodeType
  <2>3. NewCode(b) = n
    BY <1>4 DEF c
  <2> QED
    BY <2>1, <2>2, <2>3
<1> QED
  BY <1>4, <1>5 DEF s

(* The map that inject writes is shifted by the lines of the snippet. *)
LEMMA NewMapFacts ==
    ASSUME BuildTypes, BundlesSound, NEW b \in Bundle
    PROVE  /\ NewMap(b) \in MapType /\ NewMap(b).there = bundleMaps[b].there /\ NewMap(b).id = b
           /\ NewMap(b).mark = (NewMap(b).shift = 1) /\ (~OnTop(b) => NewMap(b).shift = 0)
           /\ NewMap(b).shift = Lines(NewCode(b))
           /\ js[b].snippet # "none" => NewMap(b).shift = bundleMaps[b].shift
<1> DEFINE m == bundleMaps[b]
           moves == js[b].snippet = "none" /\ OnTop(b) /\ ~m.mark
           t == IF moves THEN m.shift + 1 ELSE m.shift
           k == m.mark \/ moves
<1>1. m \in MapType /\ IdFor(b) = b /\ js[b] \in CodeType /\ m.shift \in {0, 1} /\ m.mark \in BOOLEAN
  BY BuildFacts DEF BundlesSound, IdFor, MapType
<1>2. /\ m.mark = (m.shift = 1) /\ (~OnTop(b) => m.shift = 0)
      /\ (js[b].snippet # "none" => m.shift = Lines(js[b]))
  BY DEF BundlesSound
<1>3. NewMap(b) = [m EXCEPT !.shift = t, !.mark = k, !.id = b]
  BY <1>1 DEF NewMap, AlreadyShifted
<1>4. t \in {0, 1} /\ k \in BOOLEAN /\ k = (t = 1) /\ (~OnTop(b) => t = 0) /\ (js[b].snippet # "none" => t = m.shift)
      /\ (js[b].snippet = "none" /\ OnTop(b) => t = 1)
  <2>1. CASE moves
    <3>1. m.shift = 0 /\ ~m.mark
      BY <1>1, <1>2, <2>1
    <3>2. t = 1 /\ k = TRUE
      BY <2>1, <3>1
    <3> QED
      BY <2>1, <3>2
  <2>2. CASE ~moves
    BY <1>1, <2>2, <1>2
  <2> QED
    BY <2>1, <2>2
<1>5. t = Lines(NewCode(b))
  BY NewCodeFacts, <1>2, <1>4 DEF Lines
<1> HIDE DEF t, k, m
<1>6. NewMap(b) \in MapType /\ NewMap(b).there = m.there /\ NewMap(b).shift = t /\ NewMap(b).mark = k
      /\ NewMap(b).id = b
  <2> DEFINE r1 == [m EXCEPT !.shift = t]
             r2 == [r1 EXCEPT !.mark = k]
             r3 == [r2 EXCEPT !.id = b]
  <2>1. r1 \in MapType /\ r1.there = m.there /\ r1.shift = t
    BY <1>1, <1>4 DEF MapType
  <2>2. NewMap(b) = r3
    BY <1>3
  <2> HIDE DEF r1
  <2>3. r2 \in MapType /\ r2.there = r1.there /\ r2.shift = r1.shift /\ r2.mark = k
    BY <1>4, <2>1 DEF MapType
  <2> HIDE DEF r2
  <2>4. r3 \in MapType /\ r3.there = r2.there /\ r3.shift = r2.shift /\ r3.mark = r2.mark /\ r3.id = b
    BY <2>3 DEF MapType
  <2> HIDE DEF r3
  <2> QED
    BY <2>1, <2>2, <2>3, <2>4
<1> QED
  BY <1>4, <1>5, <1>6 DEF m

(* What upload prepares for a bundle. *)
LEMMA PreparedFacts ==
    ASSUME BuildTypes, BundlesSound, NEW b \in Bundle
    PROVE  /\ Prepared(b) \in ItemType /\ Prepared(b).state \in {"none", "failed", "queued"}
           /\ Prepared(b).state = "queued" =>
                 /\ b \in WithMap /\ shape[b].valid /\ Prepared(b).attempt = 0
                 /\ js[b].snippet # "none" => Prepared(b).id = b /\ Prepared(b).shift = Lines(js[b])
<1>1. NoItem \in ItemType /\ [NoItem EXCEPT !.state = "failed"] \in ItemType
      /\ [NoItem EXCEPT !.state = "failed"].state = "failed" /\ NoItem.state = "none"
  BY UploadBounds DEF NoItem, ItemType
<1>2. CASE bundleMaps[b].there /\ shape[b].valid
  <2>1. js[b] \in CodeType /\ bundleMaps[b] \in MapType
    BY BuildFacts
  <2> DEFINE i == IF js[b].id # NoId THEN js[b].id ELSE bundleMaps[b].id
  <2>2. Prepared(b) = [state |-> "queued", attempt |-> 0, shift |-> bundleMaps[b].shift, id |-> i]
    BY <1>2 DEF Prepared
  <2>3. i \in Bundle \cup {NoId} /\ bundleMaps[b].shift \in {0, 1} /\ 0 \in 0 .. MaxAttempts
    BY <2>1, UploadBounds DEF CodeType, MapType
  <2>4. js[b].snippet # "none" => i = b /\ bundleMaps[b].shift = Lines(js[b])
    BY BuildFacts DEF BundlesSound
  <2> HIDE DEF i
  <2> QED
    BY <1>2, <2>2, <2>3, <2>4 DEF ItemType, WithMap
<1> QED
  BY <1>1, <1>2 DEF Prepared

-----------------------------------------------------------------------------
(* The steps.                                                              *)

(* A build starts with sound files and no upload. *)
LEMMA BuildStart == SmbInit => BuildInv
<1> SUFFICES ASSUME SmbInit PROVE BuildInv
  OBVIOUS
<1>1. /\ shape \in [Bundle -> Shapes] /\ job \in Job /\ step = "idle" /\ todo = {} /\ writing = NoWrite
      /\ \A b \in Bundle : /\ js[b].snippet = "none" /\ js[b].url = shape[b].mapped /\ js[b].id \in {NoId, b}
                           /\ js[b].url \in BOOLEAN
                           /\ bundleMaps[b] = [there |-> shape[b].mapped, shift |-> 0, mark |-> FALSE, id |-> NoId]
                           /\ items[b] = NoItem /\ js[b] = [snippet |-> "none", url |-> shape[b].mapped, id |-> js[b].id]
                           /\ stored[b] \in {NoRow, [id |-> OldId, shift |-> 1]}
      /\ fatal = FALSE /\ verdict = "none" /\ crashes = 0
  BY DEF SmbInit, Shapes
<1>2. js \in [Bundle -> CodeType]
  <2>1. js = [b \in Bundle |-> js[b]]
    BY DEF SmbInit
  <2>2. \A b \in Bundle : js[b] \in CodeType
    <3> TAKE b \in Bundle
    <3>1. js[b] = [snippet |-> "none", url |-> shape[b].mapped, id |-> js[b].id] /\ js[b].id \in Bundle \cup {NoId}
          /\ shape[b].mapped \in BOOLEAN
      BY <1>1
    <3> QED
      BY <3>1 DEF CodeType
  <2> QED
    BY <2>1, <2>2
<1>3. bundleMaps \in [Bundle -> MapType]
  BY <1>1 DEF SmbInit, MapType, Shapes
<1>4. items \in [Bundle -> ItemType]
  BY UploadBounds DEF SmbInit, NoItem, ItemType
<1>5. stored \in [Bundle -> RowType]
  BY DEF SmbInit, NoRow, RowType
<1>6. BuildTypes
  BY <1>1, <1>2, <1>3, <1>4, <1>5 DEF BuildTypes
<1> DEFINE Fresh(b) ==
          /\ js[b].snippet = "none" /\ js[b].id \in {NoId, b} /\ js[b].url = shape[b].mapped
          /\ bundleMaps[b].there = shape[b].mapped /\ bundleMaps[b].shift = 0 /\ bundleMaps[b].mark = FALSE
          /\ bundleMaps[b].id = NoId /\ items[b].state = "none"
<1>20. \A b \in Bundle : Fresh(b)
  <2> TAKE b \in Bundle
  <2>1. /\ bundleMaps[b].there = shape[b].mapped /\ bundleMaps[b].shift = 0 /\ bundleMaps[b].mark = FALSE
        /\ bundleMaps[b].id = NoId
    <3>1. bundleMaps[b] = [there |-> shape[b].mapped, shift |-> 0, mark |-> FALSE, id |-> NoId]
      BY <1>1
    <3> QED
      BY <3>1
  <2>2. items[b].state = "none"
    <3>1. items[b] = NoItem
      BY <1>1
    <3>2. NoItem.state = "none"
      BY DEF NoItem
    <3> QED
      BY <3>1, <3>2
  <2>3. js[b].snippet = "none" /\ js[b].id \in {NoId, b} /\ js[b].url = shape[b].mapped
    BY <1>1
  <2> QED
    BY <2>1, <2>2, <2>3
<1>7. BundlesSound
  <2> SUFFICES ASSUME NEW b \in Bundle
               PROVE  /\ js[b].id \in {NoId, b} /\ bundleMaps[b].id \in {NoId, b}
                      /\ bundleMaps[b].mark = (bundleMaps[b].shift = 1)
                      /\ ~OnTop(b) => bundleMaps[b].shift = 0
                      /\ js[b].snippet # "none" => js[b].id = b /\ bundleMaps[b].shift = Lines(js[b])
    BY DEF BundlesSound
  <2>1. Fresh(b)
    BY <1>20
  <2>2. (bundleMaps[b].shift = 1) = FALSE
    BY <2>1
  <2> QED
    BY <2>1, <2>2
<1>8. WritingSound /\ InjectedSound
  BY <1>1 DEF WritingSound, InjectedSound
<1>9. ItemsSound
  BY <1>20 DEF ItemsSound, HasIt
<1>10. RowsSound
  BY <1>1 DEF RowsSound
<1>11. DeletedSound
  BY <1>1, <1>20 DEF DeletedSound, WithMap
<1>12. CommentsSound
  BY <1>1, <1>20 DEF CommentsSound, WithMap
<1>13. VerdictSound
  BY <1>1 DEF VerdictSound
<1>14. Cardinality(Sending) <= Concurrency
  <2>1. Sending = {}
    BY <1>20 DEF Sending
  <2> QED
    BY <2>1, FS_EmptySet, UploadBounds
<1> QED
  BY <1>6, <1>7, <1>8, <1>9, <1>10, <1>11, <1>12, <1>13, <1>14 DEF BuildInv

(* What steps that leave the files alone do not change.                      *)
LEMMA FilesStay ==
    ASSUME shape' = shape, js' = js, bundleMaps' = bundleMaps
    PROVE  /\ BundlesSound' = BundlesSound /\ WithMap' = WithMap
           /\ \A b \in Bundle : OwnRow(b)' = OwnRow(b) /\ NewCode(b)' = NewCode(b) /\ Lines(js[b])' = Lines(js[b])
  BY DEF BundlesSound, OnTop, Lines, WithMap, OwnRow, NewCode, IdFor

(* With the files and the rows as they were, the uploads are sound. *)
LEMMA UploadsStay ==
    ASSUME shape' = shape, js' = js, bundleMaps' = bundleMaps, items' = items, stored' = stored
    PROVE  ItemsSound' = ItemsSound /\ RowsSound' = RowsSound /\ Sending' = Sending /\ \A b : HasIt(b)' = HasIt(b)
  BY DEF Sending, HasIt, RowsSound, OwnRow, Lines, ItemsSound

(* Steps that only move the run on.                                          *)
LEMMA StartRunStep == ASSUME BuildInv, StartRun PROVE BuildInv'
<1>1. /\ step = "idle" /\ step' = "injecting" /\ todo' = WithMap /\ items' = [b \in Bundle |-> NoItem]
      /\ fatal' = FALSE /\ shape' = shape /\ js' = js /\ bundleMaps' = bundleMaps /\ job' = job
      /\ writing' = writing /\ stored' = stored /\ verdict' = verdict /\ crashes' = crashes
  BY DEF StartRun
<1>2. NoItem \in ItemType /\ NoItem.state = "none"
  BY UploadBounds DEF NoItem, ItemType
<1>3. \A b \in Bundle : items'[b].state = "none"
  BY <1>1, <1>2
<1>4. BuildTypes'
  BY <1>1, <1>2 DEF BuildInv, BuildTypes, WithMap
<1>5. BundlesSound'
  BY <1>1, FilesStay DEF BuildInv
<1>6. writing = NoWrite
  BY <1>1 DEF BuildInv, WritingSound
<1>7. WritingSound'
  BY <1>1, <1>6 DEF WritingSound, NoWrite
<1>8. InjectedSound'
  BY <1>1, FilesStay DEF InjectedSound
<1>9. ItemsSound'
  BY <1>3 DEF ItemsSound, HasIt
<1>10. RowsSound'
  BY <1>1 DEF BuildInv, RowsSound, OwnRow, Lines
<1>11. DeletedSound'
  BY <1>1, FilesStay DEF BuildInv, DeletedSound
<1>12. CommentsSound'
  BY <1>1, FilesStay DEF BuildInv, CommentsSound
<1>13. VerdictSound'
  BY <1>1 DEF BuildInv, VerdictSound
<1>14. (Cardinality(Sending) <= Concurrency)'
  <2>1. Sending' = {}
    BY <1>3 DEF Sending
  <2> QED
    BY <2>1, FS_EmptySet, UploadBounds
<1> QED
  BY <1>4, <1>5, <1>7, <1>8, <1>9, <1>10, <1>11, <1>12, <1>13, <1>14 DEF BuildInv

(* A step that leaves files, uploads and rows alone: what has to hold of the  *)
(* place the run moves to.                                                   *)
LEMMA MoveStep ==
    ASSUME BuildInv, shape' = shape, js' = js, bundleMaps' = bundleMaps, items' = items, stored' = stored,
           job' = job, fatal' = fatal, verdict' = verdict, step # "verified",
           todo' \subseteq Bundle, crashes' \in Nat, crashes' = 0 => crashes = 0,
           writing' = NoWrite,
           step' # "injecting",
           step' = "checking" => \A b \in Bundle : b \in WithMap /\ shape[b].valid => js[b].snippet # "none",
           step' = "deleting" => \A b \in todo' : HasIt(b),
           step' = "removing" /\ ~job.own /\ ~job.effort => todo' = {},
           step \in {"deleting", "removing"} /\ crashes' = 0 => todo = {},
           job.plugin /\ job.own /\ step' = "removing" => WithMap \subseteq todo',
           job.plugin /\ job.own /\ step' = "done" => WithMap = {}
    PROVE  BuildInv'
  BY FilesStay, UploadsStay DEF BuildInv, BuildTypes, WritingSound, InjectedSound, NoWrite, DeletedSound,
     CommentsSound, VerdictSound

(* Inject ends with a snippet in every bundle that has a map. *)
LEMMA InjectEndsStep == ASSUME BuildInv, InjectEnds PROVE BuildInv'
  BY MoveStep DEF InjectEnds, BuildInv, WritingSound, InjectedSound, BuildTypes

(* Only inject is between its two writes. *)
LEMMA NotWriting == ASSUME BuildInv, step # "injecting" PROVE writing = NoWrite
BY DEF BuildInv, WritingSound

(* The uploads end. *)
LEMMA SendEndsStep == ASSUME BuildInv, SendEnds PROVE BuildInv'
  BY NotWriting, MoveStep DEF SendEnds, BuildInv, BuildTypes

(* An upload that fails ends the build, or the plugin goes on. *)
LEMMA ThrownStep == ASSUME BuildInv, Thrown PROVE BuildInv'
  BY NotWriting, MoveStep DEF Thrown, BuildInv, BuildTypes

(* Deleting the maps that were stored ends. *)
LEMMA DeleteEndsStep == ASSUME BuildInv, DeleteEnds PROVE BuildInv'
  BY NotWriting, MoveStep DEF DeleteEnds, BuildInv, BuildTypes

(* The plugin starts to remove the maps it asked for. *)
LEMMA CleanUpStep == ASSUME BuildInv, CleanUp PROVE BuildInv'
  BY NotWriting, MoveStep DEF CleanUp, BuildInv, BuildTypes, WithMap, CleansAll

(* The plugin has removed the maps it asked for. *)
LEMMA CleanUpEndsStep == ASSUME BuildInv, CleanUpEnds PROVE BuildInv'
  BY NotWriting, MoveStep DEF CleanUpEnds, BuildInv, BuildTypes, CommentsSound

(* A killed build leaves files that the next run accepts. *)
LEMMA DiesStep == ASSUME BuildInv, Dies PROVE BuildInv'
  BY MoveStep DEF Dies, BuildInv, BuildTypes

(* What verify found is on the ingester for each bundle's own id.            *)
LEMMA FoundRow ==
    ASSUME BuildInv, NEW b \in Bundle, OnIngester(b), js[b].snippet # "none"
    PROVE  stored[b] = OwnRow(b)
<1>1. PICK r \in Bundle : stored[r] # NoRow /\ stored[r].id = js[b].id
  BY DEF OnIngester
<1>2. js[b].id = b /\ b # OldId
  BY BuildFacts DEF BuildInv, BundlesSound
<1>3. stored[r] # [id |-> OldId, shift |-> 1]
  BY <1>1, <1>2
<1>4. stored[r] = OwnRow(r)
  BY <1>1, <1>3 DEF BuildInv, RowsSound
<1>5. r = b
  BY <1>1, <1>2, <1>4 DEF OwnRow
<1> QED
  BY <1>4, <1>5

(* Verify says `verified' of rows that match. *)
LEMMA VerifyStep == ASSUME BuildInv, Verify PROVE BuildInv'
<1>1. /\ step \in {"done", "failed"} /\ step' = "verified"
      /\ shape' = shape /\ js' = js /\ bundleMaps' = bundleMaps /\ job' = job /\ items' = items /\ todo' = todo
      /\ writing' = writing /\ fatal' = fatal /\ stored' = stored /\ crashes' = crashes
  BY DEF Verify
<1>2. verdict' = "ok" => \A b \in Bundle : js[b].snippet # "none" /\ OnIngester(b)
  BY DEF Verify, Sound
<1>3. BuildTypes'
  BY <1>1 DEF BuildInv, BuildTypes
<1>4. BundlesSound' /\ WithMap' = WithMap
  BY <1>1, FilesStay DEF BuildInv
<1>5. ItemsSound' /\ RowsSound' /\ Sending' = Sending
  BY <1>1, UploadsStay DEF BuildInv
<1>6. WritingSound' /\ InjectedSound'
  BY <1>1, NotWriting DEF WritingSound, InjectedSound, NoWrite
<1>7. DeletedSound'
  BY <1>1, FilesStay, <1>4 DEF BuildInv, DeletedSound
<1>8. CommentsSound'
  BY <1>1, <1>4 DEF BuildInv, CommentsSound
<1>9. VerdictSound'
  BY <1>1, FilesStay, <1>2, FoundRow DEF VerdictSound
<1>10. (Cardinality(Sending) <= Concurrency)'
  BY <1>5 DEF BuildInv
<1> QED
  BY <1>3, <1>4, <1>5, <1>6, <1>7, <1>8, <1>9, <1>10 DEF BuildInv

(* A step of the upload: files and todo stay.                                *)
LEMMA UploadStep ==
    ASSUME BuildInv, shape' = shape, js' = js, bundleMaps' = bundleMaps, job' = job, todo' = todo,
           writing' = writing, verdict' = verdict, crashes' = crashes,
           step \in {"checking", "sending"}, step' \in {"sending", "thrown"}, fatal' \in BOOLEAN,
           items' \in [Bundle -> ItemType], stored' \in [Bundle -> RowType], ItemsSound',
           \A b \in Bundle : stored'[b] = stored[b] \/ (js[b].snippet # "none" /\ stored'[b] = OwnRow(b)),
           (Cardinality(Sending) <= Concurrency)'
    PROVE  BuildInv'
<1>1. BuildTypes'
  BY DEF BuildInv, BuildTypes
<1>2. BundlesSound' /\ WithMap' = WithMap /\ \A b \in Bundle : OwnRow(b)' = OwnRow(b)
  BY FilesStay DEF BuildInv
<1>3. WritingSound' /\ InjectedSound'
  BY NotWriting DEF WritingSound, InjectedSound, NoWrite
<1>4. RowsSound'
  BY <1>2 DEF BuildInv, RowsSound
<1>5. DeletedSound'
  BY <1>2 DEF BuildInv, DeletedSound
<1>6. CommentsSound'
  BY <1>2 DEF BuildInv, CommentsSound
<1>7. VerdictSound'
  BY DEF BuildInv, VerdictSound
<1> QED
  BY <1>1, <1>2, <1>3, <1>4, <1>5, <1>6, <1>7 DEF BuildInv

(* Upload asks which maps the ingester has. *)
LEMMA CheckStep == ASSUME BuildInv, Check PROVE BuildInv'
<1>1. /\ step = "checking" /\ todo' = todo
      /\ shape' = shape /\ js' = js /\ bundleMaps' = bundleMaps /\ job' = job /\ writing' = writing
      /\ stored' = stored /\ verdict' = verdict /\ crashes' = crashes
  BY DEF Check
<1>2. \A b \in Bundle : OwnRow(b)' = OwnRow(b) /\ Lines(js[b])' = Lines(js[b])
  BY <1>1, FilesStay
<1>3. BuildTypes /\ BundlesSound /\ items \in [Bundle -> ItemType] /\ stored \in [Bundle -> RowType] /\ fatal \in BOOLEAN
  BY DEF BuildInv, BuildTypes
<1>4. ASSUME NEW answered \in BOOLEAN,
             items' = [b \in Bundle |->
                 IF answered /\ Present(b, Prepared(b)) THEN [Prepared(b) EXCEPT !.state = "skipped"]
                 ELSE Prepared(b)],
             step' = "sending", fatal' = fatal
      PROVE  BuildInv'
  <2>1. ASSUME NEW b \in Bundle
        PROVE  /\ items'[b] \in ItemType /\ items'[b].state # "sent"
               /\ items'[b].state \in {"queued", "sent", "uploaded", "skipped"} =>
                     js[b].snippet # "none" /\ items'[b].id = b /\ items'[b].shift = Lines(js[b])
               /\ items'[b].state \in {"uploaded", "skipped"} => stored[b] = OwnRow(b)
               /\ items'[b].state = "queued" => items'[b].attempt < MaxAttempts
    <3> DEFINE p == Prepared(b)
    <3>1. p \in ItemType /\ p.state \in {"none", "failed", "queued"}
      BY <1>3, PreparedFacts
    <3>2. p.state = "queued" => js[b].snippet # "none" /\ p.id = b /\ p.shift = Lines(js[b]) /\ p.attempt = 0
      BY <1>1, <1>3, PreparedFacts DEF BuildInv, InjectedSound
    <3>3. CASE answered /\ Present(b, p)
      <4>1. p.state = "queued" /\ stored[b] = [id |-> p.id, shift |-> p.shift]
        BY <3>3 DEF Present
      <4>2. items'[b] = [p EXCEPT !.state = "skipped"]
        BY <1>4, <3>3
      <4> HIDE DEF p
      <4>3. items'[b] \in ItemType /\ items'[b].state = "skipped" /\ items'[b].id = p.id /\ items'[b].shift = p.shift
        BY <3>1, <4>2 DEF ItemType
      <4> QED
        BY <3>2, <4>1, <4>3 DEF OwnRow
    <3>4. CASE ~(answered /\ Present(b, p))
      <4>1. items'[b] = p
        BY <1>4, <3>4
      <4> HIDE DEF p
      <4> QED
        BY <3>1, <3>2, <4>1, UploadBounds
    <3> QED
      BY <3>3, <3>4
  <2>2. items' \in [Bundle -> ItemType]
    BY <1>4, <2>1
  <2>3. ItemsSound'
    BY <1>1, <1>2, <2>1 DEF ItemsSound, HasIt
  <2>4. (Cardinality(Sending) <= Concurrency)'
    <3>1. Sending' = {}
      BY <2>1 DEF Sending
    <3> QED
      BY <3>1, FS_EmptySet, UploadBounds
  <2> QED
    BY <1>1, <1>3, <1>4, <2>2, <2>3, <2>4, UploadStep
<1>5. CASE fatal' = TRUE /\ step' = "thrown" /\ items' = items
  BY <1>1, <1>5, UploadsStay, <1>3, UploadStep DEF BuildInv
<1> QED
  BY <1>4, <1>5 DEF Check

(* An upload is sent. *)
LEMMA SendStep == ASSUME BuildInv, NEW b \in Bundle, Send(b) PROVE BuildInv'
<1>1. /\ step = "sending" /\ step' = step /\ todo' = todo /\ items[b].state = "queued"
      /\ Cardinality(Sending) < Concurrency
      /\ shape' = shape /\ js' = js /\ bundleMaps' = bundleMaps /\ job' = job /\ writing' = writing
      /\ fatal' = fatal /\ stored' = stored /\ verdict' = verdict /\ crashes' = crashes
  BY DEF Send
<1>2. \A c \in Bundle : OwnRow(c)' = OwnRow(c) /\ Lines(js[c])' = Lines(js[c])
  BY <1>1, FilesStay
<1>3. items \in [Bundle -> ItemType] /\ stored \in [Bundle -> RowType] /\ fatal \in BOOLEAN /\ items[b] \in ItemType
  BY DEF BuildInv, BuildTypes
<1> DEFINE i == [[items[b] EXCEPT !.state = "sent"] EXCEPT !.attempt = items[b].attempt + 1]
<1>4. items' = [items EXCEPT ![b] = i]
  BY <1>3 DEF Send
<1>5. i \in ItemType /\ i.state = "sent" /\ i.id = items[b].id /\ i.shift = items[b].shift
  <2>1. items[b].attempt + 1 \in 0 .. MaxAttempts
    BY <1>1, <1>3, UploadBounds DEF BuildInv, ItemsSound, ItemType
  <2> DEFINE j == [items[b] EXCEPT !.state = "sent"]
  <2>2. j \in ItemType /\ j.state = "sent" /\ j.id = items[b].id /\ j.shift = items[b].shift
    BY <1>3 DEF ItemType
  <2>3. i = [j EXCEPT !.attempt = items[b].attempt + 1]
    OBVIOUS
  <2> HIDE DEF i, j
  <2> QED
    BY <2>1, <2>2, <2>3 DEF ItemType
<1> HIDE DEF i
<1>6. items' \in [Bundle -> ItemType] /\ items'[b] = i /\ \A c \in Bundle \ {b} : items'[c] = items[c]
  BY <1>3, <1>4, <1>5
<1>7. ItemsSound'
  BY <1>1, <1>5, <1>6, <1>2 DEF BuildInv, ItemsSound, HasIt
<1>8. (Cardinality(Sending) <= Concurrency)'
  <2>1. Sending' = Sending \cup {b} /\ b \notin Sending
    BY <1>1, <1>5, <1>6 DEF Sending
  <2>2. IsFiniteSet(Sending)
    BY FS_Subset, UploadBounds DEF Sending
  <2>3. Cardinality(Sending') = Cardinality(Sending) + 1 /\ Cardinality(Sending) \in Nat
    BY <2>1, <2>2, FS_AddElement, FS_CardinalityType
  <2> QED
    BY <1>1, <2>3, UploadBounds
<1> QED
  BY <1>1, <1>3, <1>6, <1>7, <1>8, UploadStep

(* The ingester answers an upload. *)
LEMMA AnswerStep == ASSUME BuildInv, NEW b \in Bundle, IngesterAnswers(b) PROVE BuildInv'
<1>1. /\ step = "sending" /\ step' = step /\ todo' = todo /\ items[b].state = "sent"
      /\ shape' = shape /\ js' = js /\ bundleMaps' = bundleMaps /\ job' = job /\ writing' = writing
      /\ verdict' = verdict /\ crashes' = crashes
  BY DEF IngesterAnswers
<1>2. \A c \in Bundle : OwnRow(c)' = OwnRow(c) /\ Lines(js[c])' = Lines(js[c])
  BY <1>1, FilesStay
<1>3. items \in [Bundle -> ItemType] /\ stored \in [Bundle -> RowType] /\ fatal \in BOOLEAN /\ items[b] \in ItemType
  BY DEF BuildInv, BuildTypes
<1>4. js[b].snippet # "none" /\ items[b].id = b /\ items[b].shift = Lines(js[b]) /\ Row(b) = OwnRow(b)
  BY <1>1 DEF BuildInv, ItemsSound, Row, OwnRow
<1>5. OwnRow(b) \in RowType
  BY BuildFacts DEF BuildInv, OwnRow, RowType
<1>6. fatal' \in BOOLEAN
  BY <1>3 DEF IngesterAnswers
<1>7. PICK s \in {"uploaded", "failed", "queued", "stopped"} :
         /\ items' = [items EXCEPT ![b].state = s]
         /\ s = "uploaded" => stored' = [stored EXCEPT ![b] = OwnRow(b)]
         /\ s = "queued" => items[b].attempt < MaxAttempts
  BY <1>3, UploadBounds, <1>4 DEF Retry, ItemType, IngesterAnswers
<1>8. stored' = stored \/ stored' = [stored EXCEPT ![b] = OwnRow(b)]
  BY <1>4 DEF IngesterAnswers
<1>9. /\ stored' \in [Bundle -> RowType]
      /\ \A c \in Bundle : stored'[c] = stored[c] \/ (c = b /\ stored'[c] = OwnRow(b))
  BY <1>3, <1>5, <1>8
<1> DEFINE i == [items[b] EXCEPT !.state = s]
<1>10. i \in ItemType /\ i.state = s /\ i.id = items[b].id /\ i.shift = items[b].shift /\ i.attempt = items[b].attempt
  BY <1>3 DEF ItemType
<1>11. items' = [items EXCEPT ![b] = i]
  BY <1>7
<1> HIDE DEF i
<1>12. items' \in [Bundle -> ItemType] /\ items'[b] = i /\ \A c \in Bundle \ {b} : items'[c] = items[c]
  BY <1>3, <1>10, <1>11
<1>13. ItemsSound'
  <2>1. ASSUME NEW c \in Bundle
        PROVE  /\ items'[c].state \in {"queued", "sent", "uploaded", "skipped"} =>
                     js[c].snippet # "none" /\ items'[c].id = c /\ items'[c].shift = Lines(js[c])
               /\ items'[c].state \in {"uploaded", "skipped"} => stored'[c] = OwnRow(c)
               /\ items'[c].state = "queued" => items'[c].attempt < MaxAttempts
    BY <1>3, <1>4, <1>7, <1>10, <1>12, <1>9 DEF BuildInv, ItemsSound, HasIt
  <2> QED
    BY <1>1, <1>2, <2>1 DEF ItemsSound, HasIt
<1>14. (Cardinality(Sending) <= Concurrency)'
  BY FS_Subset, UploadBounds, <1>10, <1>12, FS_CardinalityType DEF Sending, BuildInv
<1> QED
  BY <1>1, <1>4, <1>6, <1>9, <1>12, <1>13, <1>14, UploadStep

(* A step that writes files: a snippet that is there stays, so do the rows.  *)
LEMMA FileStep ==
    ASSUME BuildInv, shape' = shape, job' = job, step' = step, items' = items, fatal' = fatal,
           stored' = stored, verdict' = verdict, crashes' = crashes, step # "verified", step # "checking",
           todo' \subseteq todo, js' \in [Bundle -> CodeType], bundleMaps' \in [Bundle -> MapType],
           \A b \in Bundle : js[b].snippet # "none" => js'[b].snippet = js[b].snippet,
           BundlesSound', WritingSound', InjectedSound', CommentsSound',
           \A b \in Bundle : shape[b].mapped /\ ~bundleMaps'[b].there /\ ~job.own /\ ~job.effort
                => ~bundleMaps[b].there \/ (js[b].snippet # "none" /\ stored[b] = OwnRow(b))
    PROVE  BuildInv'
<1>1. \A b \in Bundle : js[b].snippet # "none" =>
         js'[b].snippet # "none" /\ Lines(js'[b]) = Lines(js[b]) /\ OwnRow(b)' = OwnRow(b)
  BY DEF Lines, OwnRow
<1>2. BuildTypes'
  BY DEF BuildInv, BuildTypes
<1>3. \A b \in Bundle : HasIt(b)' = HasIt(b)
  BY DEF HasIt
<1>4. ItemsSound'
  BY <1>1, <1>3 DEF BuildInv, ItemsSound, HasIt
<1>5. RowsSound'
  BY <1>1 DEF BuildInv, RowsSound
<1>6. DeletedSound'
  BY <1>2, <1>3, <1>1 DEF BuildInv, DeletedSound, BuildTypes, WithMap
<1>7. VerdictSound'
  BY DEF BuildInv, VerdictSound
<1>8. Sending' = Sending
  BY DEF Sending
<1> QED
  BY <1>2, <1>4, <1>5, <1>6, <1>7, <1>8 DEF BuildInv

(* Inject writes the map first. *)
LEMMA InjectMapStep == ASSUME BuildInv, NEW b \in Bundle, InjectMap(b) PROVE BuildInv'
<1>1. /\ step = "injecting" /\ step' = step /\ b \in todo /\ writing = NoWrite
      /\ shape' = shape /\ js' = js /\ job' = job /\ items' = items /\ fatal' = fatal /\ stored' = stored
      /\ verdict' = verdict /\ crashes' = crashes
  BY DEF InjectMap
<1>2. js \in [Bundle -> CodeType] /\ bundleMaps \in [Bundle -> MapType] /\ todo \subseteq Bundle
  BY DEF BuildInv, BuildTypes
<1>3. CASE ~shape[b].valid /\ todo' = todo \ {b} /\ bundleMaps' = bundleMaps /\ writing' = writing
  BY <1>1, <1>3, FilesStay, <1>2, FileStep DEF BuildInv, WritingSound, NoWrite, InjectedSound, CommentsSound
<1>4. CASE /\ shape[b].valid /\ todo' = todo /\ bundleMaps' = [bundleMaps EXCEPT ![b] = NewMap(b)]
           /\ writing' = [of |-> b, code |-> NewCode(b)]
  <2> DEFINE m == NewMap(b)
  <2>1. /\ m \in MapType /\ m.there = bundleMaps[b].there /\ m.id = b
        /\ m.mark = (m.shift = 1) /\ (~OnTop(b) => m.shift = 0)
        /\ m.shift = Lines(NewCode(b)) /\ (js[b].snippet # "none" => m.shift = bundleMaps[b].shift)
    BY NewMapFacts DEF BuildInv
  <2> HIDE DEF m
  <2>2. bundleMaps' \in [Bundle -> MapType] /\ bundleMaps'[b] = m
        /\ \A c \in Bundle \ {b} : bundleMaps'[c] = bundleMaps[c]
    BY <1>2, <1>4, <2>1 DEF m
  <2>3. \A c \in Bundle : OnTop(c)' = OnTop(c) /\ Lines(js[c])' = Lines(js[c])
        /\ bundleMaps'[c].there = bundleMaps[c].there
    BY <1>1, <2>1, <2>2 DEF OnTop, Lines
  <2>4. BundlesSound'
    BY <2>1, <2>2, <1>1, <2>3 DEF BuildInv, BundlesSound
  <2>5. WithMap' = WithMap
    BY <2>3 DEF WithMap
  <2>6. WritingSound'
    BY <1>4, <1>1, <2>1, <2>2 DEF NewCode, IdFor, OnTop, Lines, WritingSound
  <2>7. InjectedSound'
    BY <1>1, <1>4, <2>5 DEF BuildInv, InjectedSound
  <2>8. CommentsSound'
    BY <1>1, <1>4, <2>5 DEF BuildInv, CommentsSound
  <2> QED
    BY <1>1, <1>2, <1>4, <2>2, <2>3, <2>4, <2>6, <2>7, <2>8, FileStep
<1> QED
  BY <1>3, <1>4 DEF InjectMap

(* Inject writes the code after its map. *)
LEMMA InjectCodeStep == ASSUME BuildInv, InjectCode PROVE BuildInv'
<1> DEFINE b == writing.of
           c == NewCode(b)
<1>1. /\ step = "injecting" /\ step' = step /\ b \in todo /\ writing.code = c /\ writing' = NoWrite
      /\ bundleMaps[b].shift = Lines(c) /\ todo' = todo \ {b} /\ bundleMaps' = bundleMaps
      /\ shape' = shape /\ job' = job /\ items' = items /\ fatal' = fatal /\ stored' = stored
      /\ verdict' = verdict /\ crashes' = crashes /\ js' = [js EXCEPT ![b] = c]
  <2>1. /\ step = "injecting" /\ writing.of \in todo /\ writing = [of |-> b, code |-> c] /\ bundleMaps[b].shift = Lines(c)
    BY DEF InjectCode, BuildInv, WritingSound
  <2>2. writing.code = c
    BY <2>1
  <2> QED
    BY <2>1, <2>2 DEF InjectCode
<1>2. js \in [Bundle -> CodeType] /\ bundleMaps \in [Bundle -> MapType] /\ b \in Bundle
  BY <1>1 DEF BuildInv, BuildTypes
<1>3. /\ c \in CodeType /\ c.id = b /\ c.url = js[b].url /\ c.snippet # "none"
      /\ js[b].snippet # "none" => c.snippet = js[b].snippet
  BY <1>2, NewCodeFacts DEF BuildInv
<1> HIDE DEF b, c
<1>4. js' \in [Bundle -> CodeType] /\ js'[b] = c /\ \A d \in Bundle \ {b} : js'[d] = js[d]
  BY <1>1, <1>2, <1>3
<1>5. BundlesSound'
  <2>1. ASSUME NEW d \in Bundle
        PROVE  /\ js'[d].id \in {NoId, d} /\ bundleMaps[d].id \in {NoId, d}
               /\ bundleMaps[d].mark = (bundleMaps[d].shift = 1)
               /\ ~OnTop(d) => bundleMaps[d].shift = 0
               /\ js'[d].snippet # "none" => js'[d].id = d /\ bundleMaps[d].shift = Lines(js'[d])
    <3>1. CASE d = b
      BY <1>1, <1>3, <1>4, <3>1 DEF BuildInv, BundlesSound
    <3>2. CASE d # b
      <4>1. js'[d] = js[d]
        BY <1>4, <3>2
      <4> QED
        BY <4>1 DEF BuildInv, BundlesSound
    <3> QED
      BY <3>1, <3>2
  <2>2. \A d \in Bundle : OnTop(d)' = OnTop(d)
    BY <1>1 DEF OnTop
  <2> QED
    BY <1>1, <2>1, <2>2 DEF BundlesSound
<1>6. WithMap' = WithMap /\ \A d \in Bundle : js'[d].url = js[d].url
  BY <1>1, <1>3, <1>4 DEF WithMap
<1>7. WritingSound'
  BY <1>1 DEF WritingSound, NoWrite
<1>8. InjectedSound'
  BY <1>3, <1>4, <1>1, <1>6 DEF BuildInv, InjectedSound
<1>9. CommentsSound'
  BY <1>1, <1>6 DEF BuildInv, CommentsSound
<1>10. \A d \in Bundle : js[d].snippet # "none" => js'[d].snippet = js[d].snippet
  BY <1>3, <1>4
<1> QED
  BY <1>1, <1>2, <1>4, <1>5, <1>7, <1>8, <1>9, <1>10, FileStep

(* A map is deleted, once it is stored or because the plugin made it. *)
LEMMA DeleteMapStep == ASSUME BuildInv, NEW b \in Bundle, DeleteMap(b) PROVE BuildInv'
<1>1. /\ step \in {"deleting", "removing"} /\ step' = step /\ b \in todo /\ todo' = todo /\ bundleMaps[b].there
      /\ bundleMaps' = [bundleMaps EXCEPT ![b].there = FALSE]
      /\ shape' = shape /\ js' = js /\ job' = job /\ items' = items /\ fatal' = fatal /\ stored' = stored
      /\ verdict' = verdict /\ crashes' = crashes /\ writing' = writing
  BY DEF DeleteMap
<1>2. js \in [Bundle -> CodeType] /\ bundleMaps \in [Bundle -> MapType] /\ bundleMaps[b] \in MapType
  BY DEF BuildInv, BuildTypes
<1> DEFINE m == [bundleMaps[b] EXCEPT !.there = FALSE]
<1>3. /\ m \in MapType /\ m.there = FALSE /\ m.shift = bundleMaps[b].shift /\ m.mark = bundleMaps[b].mark
      /\ m.id = bundleMaps[b].id
  BY <1>2 DEF MapType
<1>4. bundleMaps' = [bundleMaps EXCEPT ![b] = m]
  BY <1>1
<1> HIDE DEF m
<1>5. bundleMaps' \in [Bundle -> MapType] /\ bundleMaps'[b] = m
      /\ \A c \in Bundle \ {b} : bundleMaps'[c] = bundleMaps[c]
  BY <1>2, <1>3, <1>4
<1>6. BundlesSound'
  BY <1>3, <1>5, <1>1 DEF BuildInv, BundlesSound, OnTop, Lines
<1>7. WithMap' = WithMap \ {b}
  BY <1>3, <1>5 DEF WithMap
<1>8. WritingSound' /\ InjectedSound'
  BY <1>1, NotWriting DEF WritingSound, InjectedSound, NoWrite
<1>9. CommentsSound'
  BY <1>1, <1>7 DEF BuildInv, CommentsSound
<1>10. \A c \in Bundle : shape[c].mapped /\ ~bundleMaps'[c].there /\ ~job.own /\ ~job.effort
         => ~bundleMaps[c].there \/ (js[c].snippet # "none" /\ stored[c] = OwnRow(c))
  BY <1>1, <1>5 DEF BuildInv, DeletedSound, ItemsSound, HasIt
<1> QED
  BY <1>1, <1>2, <1>5, <1>6, <1>8, <1>9, <1>10, FileStep

(* A comment without its map is removed. *)
LEMMA StripUrlStep == ASSUME BuildInv, NEW b \in Bundle, StripUrl(b) PROVE BuildInv'
<1>1. /\ step \in {"deleting", "removing"} /\ step' = step /\ b \in todo /\ todo' = todo \ {b}
      /\ ~bundleMaps[b].there /\ js' = [js EXCEPT ![b].url = FALSE]
      /\ shape' = shape /\ bundleMaps' = bundleMaps /\ job' = job /\ items' = items /\ fatal' = fatal
      /\ stored' = stored /\ verdict' = verdict /\ crashes' = crashes /\ writing' = writing
  BY DEF StripUrl
<1>2. js \in [Bundle -> CodeType] /\ bundleMaps \in [Bundle -> MapType] /\ js[b] \in CodeType
  BY DEF BuildInv, BuildTypes
<1> DEFINE c == [js[b] EXCEPT !.url = FALSE]
<1>3. c \in CodeType /\ c.url = FALSE /\ c.snippet = js[b].snippet /\ c.id = js[b].id
  BY <1>2 DEF CodeType
<1>4. js' = [js EXCEPT ![b] = c]
  BY <1>1
<1> HIDE DEF c
<1>5. js' \in [Bundle -> CodeType] /\ js'[b] = c /\ \A d \in Bundle \ {b} : js'[d] = js[d]
  BY <1>2, <1>3, <1>4
<1>6. \A d \in Bundle : js'[d].snippet = js[d].snippet /\ js'[d].id = js[d].id /\ Lines(js'[d]) = Lines(js[d])
                        /\ (js'[d].url => d # b /\ js[d].url)
  BY <1>3, <1>5 DEF Lines
<1>7. BundlesSound'
  BY <1>1, <1>6 DEF OnTop, BuildInv, BundlesSound
<1>8. WithMap' = WithMap /\ b \notin WithMap
  BY <1>1 DEF WithMap
<1>9. WritingSound' /\ InjectedSound'
  BY <1>1, NotWriting DEF WritingSound, InjectedSound, NoWrite
<1>10. CommentsSound'
  BY <1>1, <1>6, <1>8 DEF BuildInv, CommentsSound
<1> QED
  BY <1>1, <1>2, <1>5, <1>6, <1>7, <1>9, <1>10, FileStep

(* Every step of a build keeps its files and rows sound. *)
LEMMA BuildStep == BuildInv /\ [SmbNext]_smbVars => BuildInv'
<1> SUFFICES ASSUME BuildInv, [SmbNext]_smbVars PROVE BuildInv'
  OBVIOUS
<1>1. CASE UNCHANGED smbVars
  <2>1. /\ shape' = shape /\ js' = js /\ bundleMaps' = bundleMaps /\ job' = job /\ step' = step /\ todo' = todo
        /\ writing' = writing /\ items' = items /\ fatal' = fatal /\ stored' = stored /\ verdict' = verdict
        /\ crashes' = crashes
    BY <1>1 DEF smbVars
  <2>2. BundlesSound' /\ WithMap' = WithMap /\ ItemsSound' /\ RowsSound' /\ Sending' = Sending
        /\ \A b \in Bundle : OwnRow(b)' = OwnRow(b) /\ NewCode(b)' = NewCode(b)
    BY <2>1, FilesStay, UploadsStay DEF BuildInv
  <2>3. BuildTypes' /\ VerdictSound' /\ CommentsSound' /\ InjectedSound'
    BY <2>1, <2>2 DEF BuildInv, BuildTypes, VerdictSound, CommentsSound, InjectedSound
  <2>4. DeletedSound'
    BY <2>1, <2>2 DEF BuildInv, DeletedSound, HasIt
  <2>5. WritingSound'
    BY <2>1 DEF BuildInv, WritingSound, NoWrite, NewCode, IdFor, OnTop, Lines
  <2> QED
    BY <2>2, <2>3, <2>4, <2>5 DEF BuildInv
<1>2. CASE SmbNext
  BY <1>2, StartRunStep, InjectCodeStep, InjectEndsStep, CheckStep, SendEndsStep, ThrownStep, DeleteEndsStep,
     CleanUpStep, CleanUpEndsStep, VerifyStep, DiesStep, InjectMapStep, SendStep, AnswerStep, DeleteMapStep,
     StripUrlStep DEF SmbNext
<1> QED
  BY <1>1, <1>2

(* Wherever a build is killed and how often it is run, the marks in the maps  *)
(* and what is stored fit the bundles on disk (inject.ts, upload.ts,         *)
(* plugin.ts, verify.ts).                                                    *)
THEOREM BuildInvariant == BuildSpec => []BuildInv
<1> QED
  BY BuildStart, BuildStep, PTL DEF BuildSpec

(* What sound files and rows mean for a stored frame. *)
LEMMA BuildHolds ==
    BuildInv => StoredMapsMatch /\ DeletedOnceStored /\ NoneOfItsOwnLeft /\ VerifiedResolves /\ SmbTypeOK
<1> SUFFICES ASSUME BuildInv
             PROVE  StoredMapsMatch /\ DeletedOnceStored /\ NoneOfItsOwnLeft /\ VerifiedResolves /\ SmbTypeOK
  OBVIOUS
<1>1. StoredMapsMatch
  <2>1. ASSUME NEW b \in Bundle, NEW r \in Bundle, stored[r] # NoRow, stored[r].id = js[b].id, js[b].snippet # "none"
        PROVE  stored[r].shift = Lines(js[b])
    <3>1. js[b].id = b /\ b # OldId
      BY <2>1, BuildFacts DEF BuildInv, BundlesSound
    <3>2. stored[r] = OwnRow(r)
      BY <2>1, <3>1 DEF BuildInv, RowsSound
    <3> QED
      BY <2>1, <3>1, <3>2 DEF OwnRow
  <2> QED
    BY <2>1 DEF StoredMapsMatch
<1>2. DeletedOnceStored
  <2>1. ASSUME ~job.own, ~job.effort, NEW b \in Bundle, shape[b].mapped, ~bundleMaps[b].there
        PROVE  stored[b] # NoRow /\ stored[b].id = IdFor(b)
    <3>1. stored[b] = OwnRow(b) /\ IdFor(b) = b /\ b # NoId
      BY <2>1, BuildFacts DEF BuildInv, DeletedSound, WithMap, BundlesSound, IdFor
    <3> QED
      BY <3>1 DEF OwnRow, NoRow
  <2> QED
    BY <2>1 DEF DeletedOnceStored
<1>3. NoneOfItsOwnLeft
  BY DEF BuildInv, CommentsSound, NoneOfItsOwnLeft, WithMap
<1>4. VerifiedResolves
  BY DEF BuildInv, VerdictSound, BundlesSound, OwnRow, VerifiedResolves
<1>5. SmbTypeOK
  BY BuildFacts DEF BuildInv, CodeType, MapType, ItemType, SmbTypeOK, BuildTypes
<1> QED
  BY <1>1, <1>2, <1>3, <1>4, <1>5

-----------------------------------------------------------------------------
(* The elements left at some places, one by one. *)
LeavesAt(f, q, I, D) ==
    /\ f \in [0 .. Len(q) -> Seq(D)] /\ f[0] = <<>> /\ LeftAt(q, I) = f[Len(q)]
    /\ \A k \in 1 .. Len(q) : f[k] = IF k \in I THEN Append(f[k - 1], q[k]) ELSE f[k - 1]

(* The recursion behind LeftAt has a solution. *)
LEMMA LeftAtSteps ==
    ASSUME NEW D, NEW q \in Seq(D), NEW I
    PROVE  \E f : LeavesAt(f, q, I, D)
<1> DEFINE n == Len(q)
           B == Seq(D)
           entry == [x \in B \X (1 .. n) |-> IF x[2] \in I THEN Append(x[1], q[x[2]]) ELSE x[1]]
           Is(f) == f = [k \in 0 .. n |-> IF k = 0 THEN <<>> ELSE IF k \in I THEN Append(f[k - 1], q[k]) ELSE f[k - 1]]
<1>1. n \in Nat /\ <<>> \in B /\ \A k \in 1 .. n : q[k] \in D
  OBVIOUS
<1>2. entry \in [B \X (1 .. n) -> B]
  BY <1>1, AppendProperties
<1>3. \A s \in B, k \in 1 .. n : entry[<<s, k>>] = IF k \in I THEN Append(s, q[k]) ELSE s
  OBVIOUS
<1> HIDE DEF entry, B, n
<1>4. PICK f \in [0 .. n -> B] : Chained(f, entry, <<>>, n)
  <2>1. CanFold(entry, <<>>, n, B)
    BY <1>1, <1>2 DEF CanFold
  <2> QED
    BY <2>1, CanChain
<1>5. f[0] = <<>> /\ \A k \in 1 .. n : f[k] = IF k \in I THEN Append(f[k - 1], q[k]) ELSE f[k - 1]
  <2>1. \A k \in 1 .. n : k - 1 \in 0 .. n
    BY <1>1
  <2> QED
    BY <1>3, <1>4, <2>1 DEF Chained
<1>6. Is(f)
  <2>1. \A k \in 0 .. n : k = 0 \/ k \in 1 .. n
    BY <1>1
  <2> QED
    BY <1>4, <1>5, <2>1
<1>7. ASSUME NEW g, Is(g) PROVE g[n] = f[n]
  <2> DEFINE S == {k \in 0 .. n : g[k] = f[k]}
  <2>1. g[0] = <<>> /\ \A k \in 1 .. n : g[k] = IF k \in I THEN Append(g[k - 1], q[k]) ELSE g[k - 1]
    <3>1. 0 \in 0 .. n /\ \A k \in 1 .. n : k \in 0 .. n /\ k # 0
      BY <1>1
    <3> QED
      BY <1>7, <3>1
  <2>2. 0 \in S
    BY <1>1, <1>5, <2>1
  <2>3. \A k \in 1 .. n : k - 1 \in S => k \in S
    BY <1>1, <1>5, <2>1
  <2> HIDE DEF S
  <2>4. \A k \in 0 .. n : k \in S
    BY <1>1, <2>2, <2>3, InductionTo
  <2> QED
    BY <1>1, <2>4 DEF S
<1>8. LeftAt(q, I) = f[n]
  <2>1. LeftAt(q, I) = (CHOOSE g : Is(g))[n]
    BY DEF LeftAt, n
  <2>2. Is(CHOOSE g : Is(g))
    BY <1>6
  <2> HIDE DEF Is
  <2> QED
    BY <1>7, <2>1, <2>2
<1> QED
  BY <1>4, <1>5, <1>8 DEF n, B, LeavesAt

KeysOnce(q) == \A i, j \in 1 .. Len(q) : q[i].key = q[j].key => i = j

(* What is left are the elements at these places; keys that were unique stay. *)
LEMMA LeftAtFacts ==
    ASSUME NEW D, NEW q \in Seq(D), NEW I
    PROVE  /\ LeftAt(q, I) \in Seq(D)
           /\ Range(LeftAt(q, I)) = {q[i] : i \in {j \in 1 .. Len(q) : j \in I}}
           /\ KeysOnce(q) => KeysOnce(LeftAt(q, I))
<1> DEFINE n == Len(q)
           Places(k) == {j \in 1 .. k : j \in I}
           Good(s, k) == /\ \A i \in 1 .. Len(s) : \E j \in Places(k) : s[i] = q[j]
                         /\ \A j \in Places(k) : \E i \in 1 .. Len(s) : s[i] = q[j]
                         /\ KeysOnce(q) => KeysOnce(s)
<1>1. PICK f : LeavesAt(f, q, I, D)
  BY LeftAtSteps
<1> DEFINE S == {k \in 0 .. n : Good(f[k], k)}
<1>0. /\ f \in [0 .. n -> Seq(D)] /\ f[0] = <<>> /\ LeftAt(q, I) = f[n]
      /\ \A k \in 1 .. n : f[k] = IF k \in I THEN Append(f[k - 1], q[k]) ELSE f[k - 1]
  BY <1>1 DEF LeavesAt
<1>2. n \in Nat /\ \A k \in 1 .. n : q[k] \in D
  OBVIOUS
<1>3. 0 \in S
  BY <1>0, <1>2 DEF KeysOnce
<1>4. ASSUME NEW k \in 1 .. n, k - 1 \in S PROVE k \in S
  <2> DEFINE s == f[k - 1]
             r == f[k]
  <2>1. s \in Seq(D) /\ Good(s, k - 1) /\ k \in 0 .. n /\ k - 1 \in Nat
    <3>1. k - 1 \in 0 .. n /\ k \in 0 .. n /\ k - 1 \in Nat
      BY <1>2
    <3> HIDE DEF Good
    <3> QED
      BY <1>0, <1>4, <3>1
  <2>2. CASE k \notin I
    <3>1. r = s /\ Places(k) = Places(k - 1)
      BY <1>0, <1>2, <2>2
    <3> QED
      BY <2>1, <3>1
  <2>3. CASE k \in I
    <3>0. Places(k) = Places(k - 1) \cup {k}
      BY <1>2, <2>3
    <3>1. r = Append(s, q[k]) /\ Places(k) = Places(k - 1) \cup {k}
      BY <1>0, <2>3, <3>0
    <3>2. Len(r) = Len(s) + 1 /\ r[Len(r)] = q[k] /\ Len(s) \in Nat /\ \A i \in 1 .. Len(s) : r[i] = s[i]
      BY <1>2, <2>1, <3>1
    <3> HIDE DEF s, r
    <3>3. \A i \in 1 .. Len(r) : \E j \in Places(k) : r[i] = q[j]
      BY <3>2, <2>1, <3>1
    <3>4. \A j \in Places(k) : \E i \in 1 .. Len(r) : r[i] = q[j]
      <4>1. \A j \in Places(k - 1) : \E i \in 1 .. Len(s) : s[i] = q[j]
        BY <2>1
      <4>2. Len(r) \in 1 .. Len(r) /\ \A i \in 1 .. Len(s) : i \in 1 .. Len(r)
        BY <3>2
      <4> HIDE DEF Places
      <4> QED
        BY <3>1, <3>2, <4>1, <4>2
    <3>5. ASSUME KeysOnce(q) PROVE KeysOnce(r)
      <4>1. ASSUME NEW i \in 1 .. Len(s) PROVE s[i].key # q[k].key
        <5>1. PICK j \in Places(k - 1) : s[i] = q[j]
          BY <2>1
        <5>2. j \in 1 .. n /\ j # k
          BY <2>1, <1>2
        <5> QED
          BY <3>5, <5>1, <5>2 DEF KeysOnce
      <4>2. KeysOnce(s)
        BY <2>1, <3>5
      <4>3. \A i \in 1 .. Len(r) : i \in 1 .. Len(s) \/ i = Len(r)
        BY <3>2
      <4> HIDE DEF n
      <4> QED
        BY <3>2, <4>1, <4>2, <4>3 DEF KeysOnce
    <3> HIDE DEF Places
    <3>6. Good(r, k)
      BY <3>3, <3>4, <3>5
    <3> QED
      BY <2>1, <3>6 DEF r
  <2> QED
    BY <2>2, <2>3
<1> HIDE DEF S
<1>5. \A k \in 0 .. n : k \in S
  <2> HIDE DEF n
  <2> QED
    BY <1>2, <1>3, <1>4, InductionTo
<1>6. Good(f[n], n) /\ f[n] \in Seq(D)
  <2>1. n \in 0 .. n
    BY <1>2
  <2>2. n \in S
    BY <1>5, <2>1
  <2> HIDE DEF Good
  <2> QED
    BY <1>0, <2>1, <2>2 DEF S
<1>7. Range(f[n]) = {q[j] : j \in Places(n)}
  <2>1. \A x : x \in Range(f[n]) <=> \E i \in 1 .. Len(f[n]) : f[n][i] = x
    BY <1>6 DEF Range
  <2> HIDE DEF Places
  <2> QED
    BY <1>6, <2>1
<1> QED
  BY <1>0, <1>6, <1>7

(* Two lists left at different places weigh no more than the list they are   *)
(* left of, and are no longer.                                               *)
LEMMA LeftAtShares ==
    ASSUME NEW D, NEW w \in [D -> Nat], NEW q \in Seq(D), NEW I, NEW J, I \cap J = {}
    PROVE  /\ SumAlong(LeftAt(q, I), w) + SumAlong(LeftAt(q, J), w) <= SumAlong(q, w)
           /\ Len(LeftAt(q, I)) + Len(LeftAt(q, J)) <= Len(q)
<1> DEFINE n == Len(q)
           W(s) == SumAlong(s, w)
<1>1. PICK f : LeavesAt(f, q, I, D)
  BY LeftAtSteps
<1>2. PICK g : LeavesAt(g, q, J, D)
  BY LeftAtSteps
<1>3. PICK p : IsSums(p, q, w) /\ p[n] = W(q)
  <2>1. w \in [D -> Int]
    OBVIOUS
  <2> QED
    BY <2>1, SumAlongTotal DEF Total
<1>4. /\ \A s \in Seq(D) : W(s) \in Nat /\ \A x \in D : W(Append(s, x)) = W(s) + w[x]
      /\ W(<<>>) = 0
  BY SumAlongMoves
<1> HIDE DEF W
<1>0. /\ f \in [0 .. n -> Seq(D)] /\ f[0] = <<>> /\ LeftAt(q, I) = f[n]
      /\ \A k \in 1 .. n : f[k] = IF k \in I THEN Append(f[k - 1], q[k]) ELSE f[k - 1]
  BY <1>1 DEF LeavesAt
<1>10. /\ g \in [0 .. n -> Seq(D)] /\ g[0] = <<>> /\ LeftAt(q, J) = g[n]
       /\ \A k \in 1 .. n : g[k] = IF k \in J THEN Append(g[k - 1], q[k]) ELSE g[k - 1]
  BY <1>2 DEF LeavesAt
<1>5. n \in Nat /\ \A k \in 1 .. n : q[k] \in D /\ w[q[k]] \in Nat
  OBVIOUS
<1> DEFINE Fair(k) == /\ W(f[k]) + W(g[k]) <= p[k]
                      /\ Len(f[k]) + Len(g[k]) <= k
           S == {k \in 0 .. n : Fair(k)}
<1>6. 0 \in S
  BY <1>0, <1>10, <1>3, <1>4, <1>5 DEF IsSums
<1>7. ASSUME NEW k \in 1 .. n, k - 1 \in S PROVE k \in S
  <2> DEFINE a == f[k - 1]
             b == g[k - 1]
             x == q[k]
  <2>1. /\ k \in 0 .. n /\ k - 1 \in 0 .. n /\ a \in Seq(D) /\ b \in Seq(D) /\ x \in D /\ w[x] \in Nat
        /\ f[k] \in {a, Append(a, x)} /\ g[k] \in {b, Append(b, x)} /\ (f[k] = a \/ g[k] = b)
    <3>1. /\ k \in 0 .. n /\ k - 1 \in 0 .. n /\ x \in D /\ w[x] \in Nat
      BY <1>5
    <3>2. a \in Seq(D) /\ b \in Seq(D)
      BY <1>0, <1>10, <3>1
    <3>3. f[k] = IF k \in I THEN Append(a, x) ELSE a
      BY <1>0
    <3>4. g[k] = IF k \in J THEN Append(b, x) ELSE b
      BY <1>10
    <3> HIDE DEF a, b, x
    <3> QED
      BY <3>1, <3>2, <3>3, <3>4
  <2>2. p[k] = p[k - 1] + w[x] /\ p[k - 1] \in Int
    BY <1>3, <2>1 DEF IsSums
  <2>3. W(a) + W(b) <= p[k - 1] /\ Len(a) + Len(b) <= k - 1
    BY <1>7
  <2>4. /\ W(a) \in Nat /\ W(b) \in Nat /\ W(Append(a, x)) = W(a) + w[x] /\ W(Append(b, x)) = W(b) + w[x]
        /\ Len(a) \in Nat /\ Len(b) \in Nat /\ Len(Append(a, x)) = Len(a) + 1 /\ Len(Append(b, x)) = Len(b) + 1
    <3> HIDE DEF a, b, x, n
    <3>1. a \in Seq(D) /\ b \in Seq(D) /\ x \in D
      BY <2>1
    <3>2. W(a) \in Nat /\ W(b) \in Nat /\ W(Append(a, x)) = W(a) + w[x] /\ W(Append(b, x)) = W(b) + w[x]
      BY <1>4, <3>1
    <3>3. ASSUME NEW s \in Seq(D) PROVE Len(s) \in Nat /\ Len(Append(s, x)) = Len(s) + 1
      BY <3>1, AppendProperties, LenProperties
    <3> QED
      BY <3>1, <3>2, <3>3
  <2> DEFINE fk == f[k]
             gk == g[k]
  <2>5. fk \in {a, Append(a, x)} /\ gk \in {b, Append(b, x)} /\ (fk = a \/ gk = b) /\ w[x] \in Nat
    BY <2>1
  <2> HIDE DEF a, b, x, fk, gk
  <2>6. /\ W(fk) + W(gk) \in {W(a) + W(b), W(a) + W(b) + w[x]}
        /\ Len(fk) + Len(gk) \in {Len(a) + Len(b), Len(a) + Len(b) + 1}
    <3>1. CASE fk = a /\ gk = b
      BY <3>1
    <3>2. CASE fk = Append(a, x) /\ gk = b
      BY <2>4, <2>5, <3>2
    <3>3. CASE fk = a /\ gk = Append(b, x)
      BY <2>4, <2>5, <3>3
    <3> QED
      BY <2>5, <3>1, <3>2, <3>3
  <2>7. k \in Nat
    BY <1>5
  <2> HIDE DEF W
  <2>8. Fair(k)
    <3>1. W(fk) + W(gk) <= p[k]
      <4> DEFINE u == W(fk) + W(gk)
                 v == W(a) + W(b)
                 z == w[x]
                 old == p[k - 1]
      <4>1. u \in {v, v + z} /\ v <= old /\ p[k] = old + z /\ z \in Nat /\ old \in Int /\ v \in Nat
        <5>1. u \in {v, v + z}
          BY <2>6
        <5>2. v <= old
          BY <2>3
        <5>3. p[k] = old + z /\ old \in Int
          BY <2>2
        <5>4. z \in Nat
          BY <2>5
        <5>5. v \in Nat
          BY <2>4
        <5> QED
          BY <5>1, <5>2, <5>3, <5>4, <5>5
      <4> HIDE DEF u, v, z, old
      <4>2. u <= p[k]
        BY <4>1
      <4> QED
        BY <4>2 DEF u
    <3>2. Len(fk) + Len(gk) <= k
      BY <2>3, <2>4, <2>6, <2>7
    <3> QED
      BY <3>1, <3>2 DEF fk, gk
  <2> HIDE DEF Fair
  <2> QED
    BY <2>1, <2>8
<1> HIDE DEF S
<1>8. \A k \in 0 .. n : k \in S
  <2> HIDE DEF n
  <2> QED
    BY <1>5, <1>6, <1>7, InductionTo
<1>9. Fair(n)
  <2>1. n \in 0 .. n
    BY <1>5
  <2>2. n \in S
    BY <1>8, <2>1
  <2> HIDE DEF Fair
  <2> QED
    BY <2>2 DEF S
<1> QED
  BY <1>0, <1>10, <1>3, <1>9 DEF W

-----------------------------------------------------------------------------
MapEntry == [key : MapKey, parse : Nat, version : Nat, weight : Nat, expires : Nat]
MapContent == [parse : Nat, version : Nat, weight : Nat, expires : Nat]
WeightIn(D) == [e \in D |-> e.weight]
Weighs(D) == \A e \in D : e.weight \in Nat

(* The weight of a list is a sum along it. *)
LEMMA WeightAlong ==
    ASSUME NEW D, Weighs(D), NEW q \in Seq(D)
    PROVE  WeightIn(D) \in [D -> Nat] /\ Weight(q) = SumAlong(q, WeightIn(D))
<1> DEFINE n == Len(q)
           w == [i \in 1 .. n |-> q[i].weight]
<1>1. DOMAIN q = 1 .. n /\ \A i \in 1 .. n : q[i] \in D
  OBVIOUS
<1>2. WeightIn(D) \in [D -> Nat]
  BY DEF WeightIn, Weighs
<1>3. Weight(q) = SetSum(w, 1 .. n)
  <2>1. Weight(q) = SetSum([i \in DOMAIN q |-> q[i].weight], DOMAIN q)
    BY ZenonT(60) DEF Weight, FoldSeq, FoldFunction, FoldFunctionOnSet, MapThenFoldSet, SetSum, SetSums, SumStep, AnyOf
  <2> QED
    BY <1>1, <2>1
<1>4. w = [i \in 1 .. n |-> WeightIn(D)[q[i]]]
  BY <1>1 DEF WeightIn
<1> HIDE DEF w
<1> QED
  BY <1>2, <1>3, <1>4 DEF SumAlong

(* How the weight of a list moves, and what one element has of it.           *)
LEMMA WeightMoves ==
    ASSUME NEW D, Weighs(D), NEW q \in Seq(D)
    PROVE  /\ Weight(q) \in Nat /\ Weight(<<>>) = 0
           /\ \A x \in D : Weight(Append(q, x)) = Weight(q) + x.weight /\ Weight(<<x>>) = x.weight
           /\ \A x \in Range(q) : x.weight <= Weight(q)
           /\ \A k \in 0 .. Len(q) : Weight(SubSeq(q, k + 1, Len(q))) <= Weight(q)
<1> DEFINE w == WeightIn(D)
<1>1. w \in [D -> Nat] /\ \A s \in Seq(D) : Weight(s) = SumAlong(s, w)
  BY WeightAlong
<1>2. \A x \in D : w[x] = x.weight
  BY DEF WeightIn
<1> HIDE DEF w
<1>3. ASSUME NEW s \in Seq(D)
      PROVE  /\ Weight(s) \in Nat /\ Weight(<<>>) = 0
             /\ \A x \in D : Weight(Append(s, x)) = Weight(s) + x.weight
             /\ \A k \in 0 .. Len(s) : Weight(SubSeq(s, k + 1, Len(s))) <= Weight(s)
  <2>1. /\ SumAlong(s, w) \in Nat /\ SumAlong(<<>>, w) = 0
        /\ \A x \in D : SumAlong(Append(s, x), w) = SumAlong(s, w) + w[x]
        /\ \A k \in 0 .. Len(s) : SumAlong(SubSeq(s, k + 1, Len(s)), w) <= SumAlong(s, w)
    BY <1>1, SumAlongMoves
  <2>2. <<>> \in Seq(D) /\ \A x \in D : Append(s, x) \in Seq(D)
    OBVIOUS
  <2>3. \A k \in 0 .. Len(s) : SubSeq(s, k + 1, Len(s)) \in Seq(D)
    OBVIOUS
  <2> QED
    BY <1>1, <1>2, <2>1, <2>2, <2>3
<1>4. ASSUME NEW x \in D PROVE Weight(<<x>>) = x.weight
  <2>1. <<>> \in Seq(D) /\ Append(<<>>, x) = <<x>> /\ x.weight \in Nat
    BY DEF Weighs
  <2>2. Weight(Append(<<>>, x)) = Weight(<<>>) + x.weight /\ Weight(<<>>) = 0
    BY <1>3, <2>1
  <2>3. Weight(<<x>>) = 0 + x.weight
    BY <2>1, <2>2
  <2> QED
    BY <2>1, <2>3
<1>5. ASSUME NEW x \in Range(q) PROVE x.weight <= Weight(q)
  <2>1. PICK i \in 1 .. Len(q) : x = q[i]
    BY DEF Range
  <2>2. w \in [D -> Int] /\ x \in D
    BY <1>1, <2>1
  <2>3. Total(q, w, SumAlong(q, w))
    BY <2>2, SumAlongTotal
  <2>4. w[q[i]] <= SumAlong(q, w)
    BY <1>1, <2>3, TotalOfNaturals
  <2> QED
    BY <1>1, <1>2, <2>1, <2>2, <2>4
<1> QED
  BY <1>3, <1>4, <1>5

(* Lists left at different places, alone and after each other.               *)
LEMMA LeftWeighs ==
    ASSUME NEW D, Weighs(D), NEW q \in Seq(D), NEW I, NEW J, I \cap J = {}
    PROVE  /\ LeftAt(q, I) \in Seq(D) /\ LeftAt(q, J) \in Seq(D)
           /\ Weight(LeftAt(q, I)) <= Weight(q) /\ Len(LeftAt(q, I)) <= Len(q)
           /\ Weight(LeftAt(q, I)) + Weight(LeftAt(q, J)) <= Weight(q)
           /\ Len(LeftAt(q, I)) + Len(LeftAt(q, J)) <= Len(q)
           /\ Weight(LeftAt(q, I) \o LeftAt(q, J)) <= Weight(q)
<1> DEFINE a == LeftAt(q, I)
           b == LeftAt(q, J)
           w == WeightIn(D)
<1>1. w \in [D -> Nat] /\ \A s \in Seq(D) : Weight(s) = SumAlong(s, w) /\ Weight(s) \in Nat
  BY WeightAlong, WeightMoves
<1> HIDE DEF w
<1>2. a \in Seq(D) /\ b \in Seq(D) /\ a \o b \in Seq(D) /\ Len(a) \in Nat /\ Len(b) \in Nat
  <2>1. a \in Seq(D) /\ b \in Seq(D)
    BY LeftAtFacts
  <2> HIDE DEF a, b
  <2> QED
    BY <2>1
<1>3. SumAlong(a, w) + SumAlong(b, w) <= SumAlong(q, w) /\ Len(a) + Len(b) <= Len(q)
  BY <1>1, LeftAtShares
<1> HIDE DEF a, b
<1>4. SumAlong(a \o b, w) = SumAlong(a, w) + SumAlong(b, w)
  <2>1. w \in [D -> Int]
    BY <1>1
  <2>2. ASSUME NEW s \in Seq(D) PROVE Total(s, w, SumAlong(s, w))
    BY <2>1, SumAlongTotal
  <2>3. Total(a \o b, w, SumAlong(a, w) + SumAlong(b, w))
    BY <1>2, <2>1, <2>2, TotalConcat
  <2>4. Total(a \o b, w, SumAlong(a \o b, w))
    BY <1>2, <2>2
  <2> DEFINE c == a \o b
             m == SumAlong(c, w)
             n == SumAlong(a, w) + SumAlong(b, w)
  <2>5. c \in Seq(D) /\ Total(c, w, m) /\ Total(c, w, n)
    BY <1>2, <2>3, <2>4
  <2> HIDE DEF c, m, n
  <2>6. m = n
    BY <2>1, <2>5, TotalUnique
  <2> QED
    BY <2>6 DEF c, m, n
<1>5. Weight(a) + Weight(b) <= Weight(q) /\ Weight(a \o b) <= Weight(q) /\ Weight(a) <= Weight(q)
  <2>1. Weight(a) + Weight(b) <= Weight(q) /\ Weight(a \o b) = Weight(a) + Weight(b)
    BY <1>1, <1>2, <1>3, <1>4
  <2>2. Weight(a) \in Nat /\ Weight(b) \in Nat /\ Weight(q) \in Nat
    BY <1>1, <1>2
  <2> QED
    BY <2>1, <2>2
<1>6. Len(a) <= Len(q)
  BY <1>2, <1>3
<1> QED
  BY <1>2, <1>3, <1>5, <1>6 DEF a, b

(* The elements of a list are of its type. *)
LEMMA RangeIn == ASSUME NEW D, NEW q \in Seq(D) PROVE Range(q) \subseteq D
  BY DEF Range

-----------------------------------------------------------------------------
(* The first of some numbers up to n, where n - 1 and n are among them. *)
LEMMA FirstEnough ==
    ASSUME NEW n \in Nat, NEW S, n \in S, n > 0 => n - 1 \in S
    PROVE  LET m == CHOOSE i \in 0 .. n : i \in S /\ \A j \in 0 .. i - 1 : ~(j \in S)
           IN  m \in 0 .. n /\ m \in S /\ (n > 0 => m < n)
<1> DEFINE First(i) == i \in S /\ \A j \in 0 .. i - 1 : ~(j \in S)
           m == CHOOSE i \in 0 .. n : First(i)
           T == {i \in 0 .. n : i \in S}
<1>1. T \in SUBSET Nat /\ T # {}
  OBVIOUS
<1>2. PICK k \in T : \A i \in T : k <= i
  <2> HIDE DEF T
  <2> QED
    BY <1>1, LeastNatural
<1>3. k \in 0 .. n /\ First(k)
  BY <1>2
<1>4. m \in 0 .. n /\ First(m)
  <2> HIDE DEF First
  <2> QED
    BY <1>3
<1>5. n > 0 => m < n
  <2> HIDE DEF m
  <2> QED
    BY <1>4
<1> QED
  BY <1>4, <1>5

(* What an eviction leaves is a last part, with the newest element, that fits *)
(* or is this element alone.                                                  *)
EvictedMapsOf(q) == Evicted(q, Fits)
EvictedSourcesOf(q) == Evicted(q, SourcesFit)
(* An eviction keeps the newest, and stops as soon as the rest fits. *)
LEMMA EvictedFacts ==
    ASSUME NEW D, NEW q \in Seq(D)
    PROVE  /\ EvictedMapsOf(q) \in 0 .. Len(q) /\ (Len(q) > 0 => EvictedMapsOf(q) < Len(q))
           /\ \/ EvictedMapsOf(q) + 1 >= Len(q)
              \/ Fits(SubSeq(q, EvictedMapsOf(q) + 1, Len(q)))
           /\ EvictedSourcesOf(q) \in 0 .. Len(q) /\ (Len(q) > 0 => EvictedSourcesOf(q) < Len(q))
           /\ \/ EvictedSourcesOf(q) + 1 >= Len(q)
              \/ SourcesFit(SubSeq(q, EvictedSourcesOf(q) + 1, Len(q)))
<1> DEFINE n == Len(q)
           S == {i \in 0 .. n : i + 1 >= n \/ Fits(SubSeq(q, i + 1, n))}
           T == {i \in 0 .. n : i + 1 >= n \/ SourcesFit(SubSeq(q, i + 1, n))}
           m == CHOOSE i \in 0 .. n : i \in S /\ \A j \in 0 .. i - 1 : ~(j \in S)
           k == CHOOSE i \in 0 .. n : i \in T /\ \A j \in 0 .. i - 1 : ~(j \in T)
<1>1. n \in Nat /\ n \in S /\ (n > 0 => n - 1 \in S) /\ n \in T /\ (n > 0 => n - 1 \in T)
  OBVIOUS
<1>2. EvictedMapsOf(q) = m
  <2>1. \A i \in 0 .. n : (i \in S /\ \A j \in 0 .. i - 1 : ~(j \in S))
           <=> /\ i + 1 >= n \/ Fits(SubSeq(q, i + 1, n))
               /\ \A j \in 0 .. i - 1 : ~(j + 1 >= n \/ Fits(SubSeq(q, j + 1, n)))
    <3>1. \A i \in 0 .. n : \A j \in 0 .. i - 1 : j \in 0 .. n
      BY <1>1
    <3> QED
      BY <3>1
  <2> QED
    BY <2>1 DEF EvictedMapsOf, Evicted
<1>3. EvictedSourcesOf(q) = k
  <2>1. \A i \in 0 .. n : (i \in T /\ \A j \in 0 .. i - 1 : ~(j \in T))
           <=> /\ i + 1 >= n \/ SourcesFit(SubSeq(q, i + 1, n))
               /\ \A j \in 0 .. i - 1 : ~(j + 1 >= n \/ SourcesFit(SubSeq(q, j + 1, n)))
    <3>1. \A i \in 0 .. n : \A j \in 0 .. i - 1 : j \in 0 .. n
      BY <1>1
    <3> QED
      BY <3>1
  <2> QED
    BY <2>1 DEF EvictedSourcesOf, Evicted
<1> HIDE DEF S, T, n
<1>4. m \in 0 .. n /\ m \in S /\ (n > 0 => m < n)
  BY <1>1, FirstEnough
<1>5. k \in 0 .. n /\ k \in T /\ (n > 0 => k < n)
  BY <1>1, FirstEnough
<1> HIDE DEF m, k
<1> QED
  BY <1>2, <1>3, <1>4, <1>5 DEF S, T, n

(* The last part of a list: what is in it, and its newest element. *)
LEMMA CutFacts ==
    ASSUME NEW D, NEW q \in Seq(D), NEW n \in 0 .. Len(q), n < Len(q)
    PROVE  /\ SubSeq(q, n + 1, Len(q)) \in Seq(D)
           /\ Range(SubSeq(q, n + 1, Len(q))) \subseteq Range(q)
           /\ Range(q) \subseteq Range(SubSeq(q, n + 1, Len(q))) \cup Range(SubSeq(q, 1, n))
           /\ KeysOnce(q) => KeysOnce(SubSeq(q, n + 1, Len(q)))
           /\ q[Len(q)] \in Range(SubSeq(q, n + 1, Len(q))) /\ q[Len(q)] \in D
           /\ n + 1 >= Len(q) => SubSeq(q, n + 1, Len(q)) = <<q[Len(q)]>>
<1> DEFINE r == SubSeq(q, n + 1, Len(q))
           a == SubSeq(q, 1, n)
           len == Len(q)
<1>1. /\ r \in Seq(D) /\ Len(r) = len - n /\ \A i \in 1 .. len - n : r[i] = q[n + i]
      /\ a \in Seq(D) /\ Len(a) = n /\ \A i \in 1 .. n : a[i] = q[i]
      /\ len \in Nat /\ n \in Nat /\ q[len] \in D
  OBVIOUS
<1>2. /\ \A x : x \in Range(r) <=> \E i \in 1 .. len - n : r[i] = x
      /\ \A x : x \in Range(a) <=> \E i \in 1 .. n : a[i] = x
      /\ \A x : x \in Range(q) <=> \E i \in 1 .. len : q[i] = x
  <2> HIDE DEF r, a
  <2>1. Range(r) = {r[i] : i \in 1 .. len - n} /\ Range(a) = {a[i] : i \in 1 .. n} /\ Range(q) = {q[i] : i \in 1 .. len}
    <3>1. DOMAIN r = 1 .. len - n /\ DOMAIN a = 1 .. n /\ DOMAIN q = 1 .. len
      BY <1>1
    <3> QED
      BY <3>1 DEF Range
  <2> QED
    BY <2>1
<1>3. n + 1 >= len => r = <<q[len]>>
  <2>1. ASSUME n + 1 >= len PROVE r = <<q[len]>>
    <3>1. len - n = 1 /\ 1 \in 1 .. len - n /\ n + 1 = len
      BY <1>1, <2>1
    <3>2. r[1] = q[len] /\ Len(r) = 1 /\ r \in Seq(D)
      BY <1>1, <3>1
    <3> HIDE DEF r
    <3> QED
      BY <3>2
  <2> QED
    BY <2>1
<1> HIDE DEF r, a, len
<1>4. \A i \in 1 .. len - n : n + i \in 1 .. len
  BY <1>1
<1>5. Range(r) \subseteq Range(q)
  <2>1. \A i \in 1 .. len - n : r[i] = q[n + i] /\ n + i \in 1 .. len
    BY <1>1, <1>4
  <2> QED
    BY <1>2, <2>1
<1>6. Range(q) \subseteq Range(r) \cup Range(a)
  <2>1. ASSUME NEW i \in 1 .. len PROVE q[i] \in Range(r) \cup Range(a)
    <3>1. CASE i <= n
      <4>1. i \in 1 .. n
        BY <3>1
      <4> QED
        BY <1>1, <1>2, <4>1
    <3>2. CASE i > n
      <4>1. i - n \in 1 .. len - n /\ n + (i - n) = i
        BY <1>1, <3>2
      <4> QED
        <5>1. r[i - n] = q[i]
          BY <1>1, <4>1
        <5> QED
          BY <1>2, <4>1, <5>1
    <3> QED
      BY <1>1, <3>1, <3>2
  <2> QED
    BY <1>2, <2>1
<1>7. KeysOnce(q) => KeysOnce(r)
  <2>1. ASSUME KeysOnce(q), NEW i \in 1 .. len - n, NEW j \in 1 .. len - n, r[i].key = r[j].key PROVE i = j
    <3>1. n + i \in 1 .. len /\ n + j \in 1 .. len /\ q[n + i].key = q[n + j].key
      BY <1>1, <1>4, <2>1
    <3>2. n + i = n + j
      BY <2>1, <3>1 DEF KeysOnce, len
    <3> QED
      BY <1>1, <3>2
  <2>2. Len(r) = len - n
    BY <1>1
  <2> QED
    BY <2>1, <2>2 DEF KeysOnce
<1>8. q[len] \in Range(r)
  <2>1. len - n \in 1 .. len - n /\ n + (len - n) = len
    BY <1>1 DEF len
  <2> QED
    BY <1>1, <1>2, <2>1
<1> QED
  BY <1>1, <1>3, <1>5, <1>6, <1>7, <1>8 DEF r, a, len

-----------------------------------------------------------------------------
(* Two stores that belong together: entries of different keys, contents of   *)
(* parses so far, in the version of the entry of the same parse.              *)
Belong(maps, held, p) ==
    /\ maps \in Seq(MapEntry) /\ held \in Seq(MapContent) /\ KeysOnce(maps)
    /\ \A e \in Range(maps) : e.parse <= p
    /\ \A c \in Range(held) : c.parse > 0 /\ c.parse <= p
    /\ \A c \in Range(held) : \A e \in Range(maps) : c.parse = e.parse => c.version = e.version
(* Every content has its entry, but those of a parse that has none yet.       *)
OwnedBut(maps, held, x) ==
    \A c \in Range(held) : c.parse = x \/ \E e \in Range(maps) : e.parse = c.parse

(* Entries and contents have a weight. *)
LEMMA EntriesWeigh == Weighs(MapEntry) /\ Weighs(MapContent)
  BY DEF Weighs, MapEntry, MapContent

(* Entries leave with their contents. *)
LEMMA TakenOut ==
    ASSUME NEW maps, NEW held, NEW p, NEW x, Belong(maps, held, p), OwnedBut(maps, held, x),
           NEW rest \in Seq(MapEntry), NEW gone, KeysOnce(rest),
           Range(rest) \subseteq Range(maps), Range(maps) \subseteq Range(rest) \cup gone
    PROVE  /\ Belong(rest, DropContents(held, gone), p) /\ OwnedBut(rest, DropContents(held, gone), x)
           /\ Range(DropContents(held, gone)) \subseteq Range(held)
           /\ Weight(DropContents(held, gone)) <= Weight(held)
<1> DEFINE I == {i \in DOMAIN held : \A e \in gone : held[i].parse # e.parse}
           d == LeftAt(held, I)
<1>1. d = DropContents(held, gone)
  BY DEF DropContents
<1>2. held \in Seq(MapContent) /\ DOMAIN held = 1 .. Len(held)
  BY DEF Belong
<1>3. d \in Seq(MapContent) /\ Weight(d) <= Weight(held)
  <2>1. I \cap {} = {}
    OBVIOUS
  <2> HIDE DEF I
  <2> QED
    BY <1>2, <2>1, EntriesWeigh, LeftWeighs
<1>4. Range(d) = {held[i] : i \in {j \in 1 .. Len(held) : j \in I}}
  <2> HIDE DEF I
  <2> QED
    BY <1>2, LeftAtFacts
<1>5. \A c \in Range(d) : c \in Range(held) /\ \A e \in gone : c.parse # e.parse
  BY <1>2, <1>4 DEF Range
<1> HIDE DEF d
<1>6. Belong(rest, d, p)
  BY <1>3, <1>5 DEF Belong
<1>7. OwnedBut(rest, d, x)
  BY <1>5 DEF OwnedBut
<1> QED
  BY <1>1, <1>3, <1>5, <1>6, <1>7

PairOf(maps, held) == [maps |-> maps, sources |-> held]

(* A key's entry is removed with its contents. *)
LEMMA RemoveMapKeeps ==
    ASSUME NEW maps, NEW held, NEW p, NEW x, NEW k, Belong(maps, held, p), OwnedBut(maps, held, x),
           NEW r, r = RemoveMap(PairOf(maps, held), k)
    PROVE  /\ r = PairOf(r.maps, r.sources)
           /\ Belong(r.maps, r.sources, p) /\ OwnedBut(r.maps, r.sources, x)
           /\ Range(r.sources) \subseteq Range(held) /\ Weight(r.sources) <= Weight(held)
           /\ Range(r.maps) = {e \in Range(maps) : e.key # k}
           /\ Weight(r.maps) <= Weight(maps) /\ Len(r.maps) <= Len(maps)
<1> DEFINE I == {i \in DOMAIN maps : maps[i].key # k}
           rest == LeftAt(maps, I)
           gone == {e \in Range(maps) : e.key = k}
<1>1. r = [maps |-> rest, sources |-> DropContents(held, gone)]
  BY DEF RemoveMap, PairOf
<1>2. maps \in Seq(MapEntry) /\ DOMAIN maps = 1 .. Len(maps) /\ KeysOnce(maps)
  BY DEF Belong
<1>3. rest \in Seq(MapEntry) /\ Weight(rest) <= Weight(maps) /\ Len(rest) <= Len(maps)
  <2>1. I \cap {} = {}
    OBVIOUS
  <2> HIDE DEF I
  <2> QED
    BY <1>2, <2>1, EntriesWeigh, LeftWeighs
<1>4. Range(rest) = {maps[i] : i \in {j \in 1 .. Len(maps) : j \in I}} /\ KeysOnce(rest)
  <2> HIDE DEF I
  <2> QED
    BY <1>2, LeftAtFacts
<1>5. Range(rest) = {e \in Range(maps) : e.key # k}
  <2> HIDE DEF rest
  <2> QED
    BY <1>2, <1>4 DEF Range
<1>6. Range(rest) \subseteq Range(maps) /\ Range(maps) \subseteq Range(rest) \cup gone
  BY <1>5
<1> HIDE DEF rest, gone
<1>7. /\ Belong(rest, DropContents(held, gone), p) /\ OwnedBut(rest, DropContents(held, gone), x)
      /\ Range(DropContents(held, gone)) \subseteq Range(held)
      /\ Weight(DropContents(held, gone)) <= Weight(held)
  BY <1>3, <1>4, <1>6, TakenOut
<1>8. r.maps = rest /\ r.sources = DropContents(held, gone) /\ r = PairOf(r.maps, r.sources)
  BY <1>1 DEF PairOf
<1> QED
  BY <1>3, <1>5, <1>7, <1>8

(* An eviction keeps the newest entry and goes on until the others fit.       *)
LEMMA EvictKeeps ==
    ASSUME NEW maps, NEW held, NEW p, NEW x, Belong(maps, held, p), OwnedBut(maps, held, x),
           Len(maps) > 0, maps[Len(maps)].weight <= MaxMapBytes,
           NEW r, r = Evict(PairOf(maps, held))
    PROVE  /\ Belong(r.maps, r.sources, p) /\ OwnedBut(r.maps, r.sources, x) /\ Fits(r.maps)
           /\ Range(r.sources) \subseteq Range(held) /\ Weight(r.sources) <= Weight(held)
           /\ maps[Len(maps)] \in Range(r.maps)
<1> DEFINE n == EvictedMapsOf(maps)
           rest == SubSeq(maps, n + 1, Len(maps))
           gone == Range(SubSeq(maps, 1, n))
<1>1. r = [maps |-> rest, sources |-> DropContents(held, gone)]
  BY DEF Evict, PairOf, EvictedMapsOf
<1>2. maps \in Seq(MapEntry) /\ KeysOnce(maps)
  BY DEF Belong
<1>3. n \in 0 .. Len(maps) /\ n < Len(maps) /\ (n + 1 >= Len(maps) \/ Fits(rest))
  BY <1>2, EvictedFacts
<1> HIDE DEF n
<1>4. /\ rest \in Seq(MapEntry) /\ Range(rest) \subseteq Range(maps)
      /\ Range(maps) \subseteq Range(rest) \cup gone /\ KeysOnce(rest)
      /\ maps[Len(maps)] \in Range(rest) /\ maps[Len(maps)] \in MapEntry
      /\ n + 1 >= Len(maps) => rest = <<maps[Len(maps)]>>
  BY <1>2, <1>3, CutFacts
<1> HIDE DEF rest, gone
<1>5. Fits(rest)
  <2>1. ASSUME rest = <<maps[Len(maps)]>> PROVE Fits(rest)
    BY <1>2, <1>4, <2>1, EntriesWeigh, WeightMoves, MapBudgets DEF Fits
  <2> QED
    BY <1>3, <1>4, <2>1
<1>6. /\ Belong(rest, DropContents(held, gone), p) /\ OwnedBut(rest, DropContents(held, gone), x)
      /\ Range(DropContents(held, gone)) \subseteq Range(held)
      /\ Weight(DropContents(held, gone)) <= Weight(held)
  BY <1>4, TakenOut
<1>7. r.maps = rest /\ r.sources = DropContents(held, gone)
  BY <1>1
<1> QED
  BY <1>4, <1>5, <1>6, <1>7

(* Storing an entry keeps both stores sound and in their budgets; the contents *)
(* of a parse that had no entry yet are owned by its entry from then on.       *)
StoresSound(maps, held, p) ==
    Belong(maps, held, p) /\ OwnedBut(maps, held, 0) /\ Fits(maps) /\ SourcesFit(held)
(* store() keeps both stores sound and in their budgets. *)
LEMMA StoreKeeps ==
    ASSUME NEW maps, NEW held, NEW p, NEW entry \in MapEntry, Belong(maps, held, p), Fits(maps), SourcesFit(held),
           OwnedBut(maps, held, entry.parse), entry.parse <= p,
           entry.weight > MaxMapBytes => entry.parse = 0,
           \A c \in Range(held) : c.parse = entry.parse => c.version = entry.version,
           NEW r, r = Store(PairOf(maps, held), entry)
    PROVE  StoresSound(r.maps, r.sources, p) /\ Range(r.sources) \subseteq Range(held)
<1>1. CASE entry.weight > MaxMapBytes
  BY <1>1 DEF Store, PairOf, StoresSound
<1>2. CASE ~(entry.weight > MaxMapBytes)
  <2> DEFINE rest == RemoveMap(PairOf(maps, held), entry.key)
             m == rest.maps
             h == rest.sources
             q == Append(m, entry)
  <2>1. /\ rest = PairOf(m, h)
        /\ Belong(m, h, p) /\ OwnedBut(m, h, entry.parse)
        /\ Range(h) \subseteq Range(held) /\ Weight(h) <= Weight(held)
        /\ Range(m) = {e \in Range(maps) : e.key # entry.key}
    <3> HIDE DEF rest
    <3> QED
      BY RemoveMapKeeps DEF rest
  <2>2. r = Evict([rest EXCEPT !.maps = Append(@, entry)])
    BY <1>2 DEF Store
  <2>3. [rest EXCEPT !.maps = Append(@, entry)] = PairOf(q, h)
    <3>1. ASSUME NEW a, NEW b PROVE [PairOf(a, b) EXCEPT !.maps = Append(@, entry)] = PairOf(Append(a, entry), b)
      BY DEF PairOf
    <3> DEFINE m1 == m
               h1 == h
    <3>2. rest = PairOf(m1, h1)
      BY <2>1
    <3> HIDE DEF m1, h1, rest
    <3>3. [rest EXCEPT !.maps = Append(@, entry)] = PairOf(Append(m1, entry), h1)
      BY <3>1, <3>2
    <3> QED
      BY <3>3 DEF m1, h1
  <2> HIDE DEF m, h, rest
  <2>4. /\ m \in Seq(MapEntry) /\ KeysOnce(m) /\ Len(q) = Len(m) + 1 /\ Len(m) \in Nat /\ q \in Seq(MapEntry)
        /\ q[Len(q)] = entry /\ \A i \in 1 .. Len(m) : q[i] = m[i] /\ m[i] \in Range(m)
    BY <2>1 DEF Belong, Range
  <2>5. Range(q) = Range(m) \cup {entry}
    <3>1. DOMAIN q = 1 .. Len(m) + 1 /\ DOMAIN m = 1 .. Len(m)
      BY <2>4
    <3> HIDE DEF q
    <3> QED
      BY <2>4, <3>1 DEF Range
  <2>6. KeysOnce(q)
    <3>1. \A i \in 1 .. Len(m) : m[i].key # entry.key
      BY <2>1, <2>4
    <3>2. \A i \in 1 .. Len(q) : i \in 1 .. Len(m) \/ i = Len(q)
      BY <2>4
    <3> HIDE DEF q
    <3> QED
      BY <2>4, <3>1, <3>2 DEF KeysOnce
  <2> HIDE DEF q
  <2>7. Belong(q, h, p) /\ OwnedBut(q, h, 0)
    BY <2>1, <2>4, <2>5, <2>6 DEF Belong, OwnedBut
  <2>8. Len(q) > 0 /\ q[Len(q)].weight <= MaxMapBytes
    BY MapBudgets, <1>2, <2>4 DEF MapEntry
  <2>9. /\ Belong(r.maps, r.sources, p) /\ OwnedBut(r.maps, r.sources, 0) /\ Fits(r.maps)
        /\ Range(r.sources) \subseteq Range(h) /\ Weight(r.sources) <= Weight(h)
    BY <2>2, <2>3, <2>7, <2>8, EvictKeeps
  <2>10. SourcesFit(r.sources)
    BY <2>1, <2>9, EntriesWeigh, WeightMoves, MapBudgets DEF Belong, SourcesFit
  <2> QED
    BY <2>1, <2>9, <2>10 DEF StoresSound
<1> QED
  BY <1>1, <1>2

(* A content is stored in its budget or left out. *)
LEMMA StoreContentKeeps ==
    ASSUME NEW held \in Seq(MapContent), NEW c \in MapContent, SourcesFit(held)
    PROVE  /\ StoreContent(held, c) \in Seq(MapContent) /\ SourcesFit(StoreContent(held, c))
           /\ Range(StoreContent(held, c)) \subseteq Range(held) \cup {c}
<1>1. CASE 2 * c.weight > MaxSourceBytes
  BY <1>1 DEF StoreContent
<1>2. CASE ~(2 * c.weight > MaxSourceBytes)
  <2> DEFINE q == Append(held, c)
             n == EvictedSourcesOf(q)
             r == SubSeq(q, n + 1, Len(q))
  <2>1. q \in Seq(MapContent) /\ Len(q) > 0 /\ q[Len(q)] = c /\ Range(q) = Range(held) \cup {c}
    <3>1. /\ q \in Seq(MapContent) /\ Len(q) = Len(held) + 1 /\ Len(held) \in Nat /\ q[Len(q)] = c
          /\ \A i \in 1 .. Len(held) : q[i] = held[i]
          /\ DOMAIN q = 1 .. Len(held) + 1 /\ DOMAIN held = 1 .. Len(held)
      OBVIOUS
    <3> HIDE DEF q
    <3> QED
      BY <3>1 DEF Range
  <2> HIDE DEF q
  <2>2. n \in 0 .. Len(q) /\ n < Len(q) /\ (n + 1 >= Len(q) \/ SourcesFit(r))
    BY <2>1, EvictedFacts
  <2>3. StoreContent(held, c) = r
    <3>1. StoreContent(held, c) = SubSeq(q, 1 + n, Len(q))
      BY <1>2 DEF StoreContent, EvictedSourcesOf, q
    <3>2. 1 + n = n + 1
      BY <2>2
    <3> QED
      BY <3>1, <3>2
  <2> HIDE DEF n
  <2>4. r \in Seq(MapContent) /\ Range(r) \subseteq Range(q) /\ (n + 1 >= Len(q) => r = <<c>>)
    BY <2>1, <2>2, CutFacts
  <2> HIDE DEF r
  <2>5. SourcesFit(r)
    <3>1. ASSUME r = <<c>> PROVE SourcesFit(r)
      <4>1. Weight(r) = c.weight
        BY <3>1, EntriesWeigh, WeightMoves
      <4>2. c.weight \in Nat /\ MaxSourceBytes \in Nat
        BY MapBudgets DEF MapContent
      <4> QED
        BY <1>2, <4>1, <4>2 DEF SourcesFit
    <3> QED
      BY <2>2, <2>4, <3>1
  <2> QED
    BY <2>1, <2>3, <2>4, <2>5
<1> QED
  BY <1>1, <1>2

-----------------------------------------------------------------------------
StackState == {IdleStack} \cup [at : {"waits"}, key : MapKey] \cup [at : {"holds"}, map : Loaded]

(* A stack waits for a load that runs; the contents it may be given are of    *)
(* the upload its map was read from.                                          *)
StackSound(st, f, held, p) ==
    /\ st.at = "waits" => f[st.key] > 0
    /\ st.at = "holds" =>
          /\ st.map.parse <= p
          /\ \A c \in Range(held) : c.parse = st.map.parse => c.version = st.map.version

CacheTypes ==
    /\ fetching \in [MapKey -> {0, 1}] /\ parses \in Nat
    /\ uploaded \in [MapKey -> 0 .. MaxUploads] /\ mapTime \in 0 .. MaxMapTime
    /\ stacks \in [MapStack -> StackState]
StacksSound == \A s \in MapStack : StackSound(stacks[s], fetching, sources, parses)
CacheInv ==
    CacheTypes /\ StacksSound /\ StoresSound(cached, sources, parses) /\ ContentsOfOwnUpload
CacheSpec == SmcInit /\ [][SmcNext]_smcVars

(* The invariant says what the runs check of the cache. *)
LEMMA CacheSays ==
    ASSUME CacheInv PROVE SmcTypeOK /\ CacheBudgets /\ OneLoadPerMap /\ ContentsOfOwnUpload
<1>1. cached \in Seq(MapEntry) /\ KeysOnce(cached) /\ fetching \in [MapKey -> Nat]
  BY DEF CacheInv, StoresSound, Belong, CacheTypes
<1>2. SmcTypeOK
  <2>1. \A i, j \in DOMAIN cached : cached[i].key = cached[j].key => i = j
    BY <1>1 DEF KeysOnce
  <2> QED
    BY <1>1, <2>1 DEF CacheInv, CacheTypes, SmcTypeOK
<1>3. CacheBudgets
  BY DEF CacheInv, StoresSound, Belong, CacheBudgets, Fits, SourcesFit, OwnedBut
<1>4. OneLoadPerMap
  BY DEF OneLoadPerMap, CacheInv, CacheTypes, StacksSound, StackSound
<1> QED
  BY <1>2, <1>3, <1>4 DEF CacheInv

(* A load settles: its key is not fetched any more, and the stacks that waited *)
(* for it hold what it loaded.                                                *)
LEMMA SettleKeeps ==
    ASSUME CacheInv, NEW k \in MapKey, fetching[k] > 0, NEW loaded, Settle(k, loaded), NEW p, parses <= p, p \in Nat,
           NEW held, \A c \in Range(held) : c \in Range(sources) \/ c.parse > parses,
           loaded # NoMap => /\ loaded \in Loaded /\ loaded.parse <= p
                             /\ \A c \in Range(held) : c.parse = loaded.parse => c.version = loaded.version
    PROVE  /\ fetching' \in [MapKey -> {0, 1}] /\ stacks' \in [MapStack -> StackState]
           /\ \A s \in MapStack : StackSound(stacks'[s], fetching', held, p)
<1>1. /\ fetching \in [MapKey -> {0, 1}] /\ parses \in Nat /\ stacks \in [MapStack -> StackState]
      /\ \A s \in MapStack : StackSound(stacks[s], fetching, sources, parses)
  BY DEF CacheInv, CacheTypes, StacksSound
<1>2. fetching' = [fetching EXCEPT ![k] = 0]
  <2>1. fetching[k] = 1
    BY <1>1
  <2> QED
    BY <1>1, <2>1 DEF Settle
<1>3. ASSUME NEW s \in MapStack
      PROVE  stacks'[s] \in StackState /\ StackSound(stacks'[s], fetching', held, p)
  <2> DEFINE st == stacks[s]
  <2>1. st \in StackState /\ StackSound(st, fetching, sources, parses)
    BY <1>1
  <2>2. stacks'[s] = IF st # [at |-> "waits", key |-> k] THEN st
                     ELSE IF loaded = NoMap THEN IdleStack ELSE [at |-> "holds", map |-> loaded]
    BY DEF Settle
  <2> HIDE DEF st
  <2>3. CASE stacks'[s] = st /\ st # [at |-> "waits", key |-> k]
    <3>1. st.at = "waits" => fetching'[st.key] > 0
      BY <2>1, <2>3, <1>1, <1>2 DEF StackState, IdleStack, StackSound
    <3>2. st.at = "holds" => /\ st.map.parse <= p
                             /\ \A c \in Range(held) : c.parse = st.map.parse => c.version = st.map.version
      BY <2>1, <1>1 DEF StackState, IdleStack, StackSound, Loaded
    <3> QED
      BY <2>1, <2>3, <3>1, <3>2 DEF StackSound
  <2>4. CASE stacks'[s] = IdleStack
    BY <2>4 DEF StackState, StackSound, IdleStack
  <2>5. CASE loaded # NoMap /\ stacks'[s] = [at |-> "holds", map |-> loaded]
    <3> DEFINE new == [at |-> "holds", map |-> loaded]
    <3>1. new.at = "holds" /\ new.map = loaded /\ new \in StackState
      BY <2>5 DEF StackState
    <3> HIDE DEF new
    <3>2. StackSound(new, fetching', held, p)
      BY <2>5, <3>1 DEF StackSound
    <3> QED
      BY <2>5, <3>1, <3>2 DEF new
  <2> QED
    BY <2>2, <2>3, <2>4, <2>5
<1>4. stacks' = [s \in MapStack |-> stacks'[s]]
  BY DEF Settle
<1>5. fetching' \in [MapKey -> {0, 1}]
  BY <1>1, <1>2
<1>6. stacks' \in [MapStack -> StackState]
  BY <1>3, <1>4
<1> QED
  BY <1>3, <1>5, <1>6

(* A failed or empty load leaves a remembered miss. *)
LEMMA LoadMissKeeps ==
    ASSUME CacheInv, NEW k \in MapKey, LoadMiss(k)
    PROVE  CacheInv'
<1>1. PICK ttl \in {ErrorTTL} \cup (IF uploaded[k] = 0 THEN {MissingTTL} ELSE {}) :
         SetStores(Store(Stores, MissEntry(k, ttl)))
  BY DEF LoadMiss
<1> DEFINE entry == MissEntry(k, ttl)
           r == Store(PairOf(cached, sources), entry)
<1>2. cached' = r.maps /\ sources' = r.sources
  BY <1>1 DEF SetStores, Stores, PairOf
<1>3. entry \in MapEntry /\ entry.parse = 0 /\ entry.weight = 0
  BY MapBudgets DEF CacheInv, CacheTypes, MissEntry, MapEntry
<1> HIDE DEF entry
<1>4. Belong(cached, sources, parses) /\ OwnedBut(cached, sources, 0) /\ Fits(cached) /\ SourcesFit(sources)
      /\ parses \in Nat /\ \A c \in Range(sources) : c.parse > 0
  BY DEF CacheInv, StoresSound, CacheTypes, Belong
<1>5. StoresSound(r.maps, r.sources, parses) /\ Range(r.sources) \subseteq Range(sources)
  <2>1. entry.parse <= parses /\ \A c \in Range(sources) : c.parse = entry.parse => c.version = entry.version
    BY <1>3, <1>4
  <2> HIDE DEF r
  <2> QED
    BY <1>3, <1>4, <2>1, StoreKeeps DEF r
<1> HIDE DEF r
<1>6. /\ fetching' \in [MapKey -> {0, 1}] /\ stacks' \in [MapStack -> StackState]
      /\ \A s \in MapStack : StackSound(stacks'[s], fetching', sources', parses)
  BY <1>4, <1>2, <1>5, SettleKeeps DEF LoadMiss
<1>7. UNCHANGED <<parses, uploaded, shown, mapTime>>
  BY DEF LoadMiss
<1> QED
  BY <1>2, <1>5, <1>6, <1>7 DEF CacheInv, CacheTypes, StacksSound, ContentsOfOwnUpload

(* A parsed map is stored after its contents. *)
LEMMA LoadFoundKeeps ==
    ASSUME CacheInv, NEW k \in MapKey, LoadFound(k)
    PROVE  CacheInv'
<1> DEFINE v == uploaded[k]
           content == [parse |-> ContentParse, version |-> v, weight |-> SourceBytes[v], expires |-> mapTime + FoundTTL]
           held == IF SourceBytes[v] = 0 THEN sources ELSE StoreContent(sources, content)
           entry == [key |-> k, parse |-> ContentParse, version |-> v,
                     weight |-> MapBytes[v], expires |-> mapTime + FoundTTL]
           loaded == [key |-> k, parse |-> ContentParse, version |-> v]
           p == parses + 1
           r == Store(PairOf(cached, held), entry)
<1>1. cached' = r.maps /\ sources' = r.sources /\ parses' = p /\ Settle(k, loaded) /\ fetching[k] > 0
      /\ UNCHANGED <<uploaded, shown, mapTime>>
  BY DEF LoadFound, SetStores, PairOf
<1>2. /\ v \in 1 .. MaxUploads /\ SourceBytes[v] \in Nat /\ MapBytes[v] \in Nat /\ mapTime + FoundTTL \in Nat
      /\ 2 * MapBytes[v] <= MaxMapBytes /\ parses \in Nat /\ MaxMapBytes \in Nat /\ v \in Nat
  BY MapBudgets DEF CacheInv, CacheTypes, LoadFound, Cacheable
<1>3. /\ content \in MapContent /\ entry \in MapEntry /\ loaded \in Loaded /\ p \in Nat /\ p > parses
      /\ content.parse = p /\ content.version = v /\ entry.parse = p /\ entry.version = v /\ ~(entry.weight > MaxMapBytes)
      /\ loaded.parse = p /\ loaded.version = v
  BY <1>2 DEF MapContent, MapEntry, Loaded, ContentParse
<1>4. Belong(cached, sources, parses) /\ OwnedBut(cached, sources, 0) /\ Fits(cached) /\ SourcesFit(sources)
      /\ sources \in Seq(MapContent) /\ \A e \in Range(cached) : e.parse \in Nat
  BY RangeIn DEF CacheInv, StoresSound, Belong, MapEntry
<1> HIDE DEF content, entry, loaded, p, v
<1>5. held \in Seq(MapContent) /\ SourcesFit(held) /\ Range(held) \subseteq Range(sources) \cup {content}
  BY <1>3, <1>4, StoreContentKeeps
<1> HIDE DEF held
<1>6. \A c \in Range(held) : c = content \/ (c \in Range(sources) /\ c.parse > 0 /\ c.parse <= parses /\ c.parse \in Nat)
  <2>1. \A c \in Range(sources) : c.parse \in Nat
    BY <1>4, RangeIn DEF MapContent
  <2> QED
    BY <1>4, <1>5, <2>1 DEF Belong
<1>7. Belong(cached, held, p) /\ OwnedBut(cached, held, p)
  BY <1>2, <1>3, <1>6, <1>4, <1>5 DEF Belong, OwnedBut
<1>8. \A c \in Range(held) : c.parse = p => c.version = v
  BY <1>2, <1>3, <1>6
<1>9. StoresSound(r.maps, r.sources, p) /\ Range(r.sources) \subseteq Range(held)
  <2>1. entry.parse <= p /\ OwnedBut(cached, held, entry.parse)
    BY <1>3, <1>7
  <2>2. \A c \in Range(held) : c.parse = entry.parse => c.version = entry.version
    BY <1>3, <1>8
  <2> HIDE DEF r
  <2> QED
    BY <1>3, <1>4, <1>5, <1>7, <2>1, <2>2, StoreKeeps DEF r
<1> HIDE DEF r
<1>10. /\ fetching' \in [MapKey -> {0, 1}] /\ stacks' \in [MapStack -> StackState]
       /\ \A s \in MapStack : StackSound(stacks'[s], fetching', sources', p)
  <2>1. \A c \in Range(sources') : c \in Range(sources) \/ c.parse > parses
    BY <1>1, <1>3, <1>6, <1>9
  <2>2. parses <= p /\ loaded.parse <= p
    BY <1>2, <1>3
  <2>3. \A c \in Range(sources') : c.parse = loaded.parse => c.version = loaded.version
    BY <1>1, <1>3, <1>8, <1>9
  <2> QED
    BY <1>1, <1>3, <2>1, <2>2, <2>3, SettleKeeps
<1> QED
  BY <1>1, <1>3, <1>9, <1>10 DEF CacheInv, CacheTypes, StacksSound, ContentsOfOwnUpload

(* A map too big to keep serves the stacks that wait. *)
LEMMA LoadBypassedKeeps ==
    ASSUME CacheInv, NEW k \in MapKey, LoadBypassed(k)
    PROVE  CacheInv'
<1> DEFINE loaded == [key |-> k, parse |-> 0, version |-> uploaded[k]]
<1>1. /\ fetching[k] > 0 /\ Settle(k, loaded)
      /\ UNCHANGED <<cached, sources, parses, uploaded, shown, mapTime>>
  BY DEF LoadBypassed
<1>2. parses \in Nat /\ uploaded[k] \in Nat /\ \A c \in Range(sources) : c.parse > 0
  BY DEF CacheInv, CacheTypes, StoresSound, Belong
<1>3. loaded \in Loaded /\ loaded.parse = 0
  BY <1>2 DEF Loaded
<1> HIDE DEF loaded
<1>4. /\ fetching' \in [MapKey -> {0, 1}] /\ stacks' \in [MapStack -> StackState]
      /\ \A s \in MapStack : StackSound(stacks'[s], fetching', sources, parses)
  BY <1>2, <1>3, <1>1, SettleKeeps
<1> QED
  BY <1>1, <1>4 DEF CacheInv, CacheTypes, StacksSound, ContentsOfOwnUpload

(* An entry that answers becomes the most recent one. *)
LEMMA GetHitKeeps ==
    ASSUME CacheInv, NEW s \in MapStack, NEW k \in MapKey, GetHit(s, k)
    PROVE  CacheInv'
<1> DEFINE e == EntryOf(cached, k)
           I == {i \in DOMAIN cached : cached[i].key # k}
           J == {i \in DOMAIN cached : cached[i].key = k}
           a == LeftAt(cached, I)
           b == LeftAt(cached, J)
           m == MapOf(e)
           st == IF m = NoMap THEN IdleStack ELSE [at |-> "holds", map |-> m]
<1>1. /\ cached' = Append(a, e) /\ stacks' = [stacks EXCEPT ![s] = st]
      /\ UNCHANGED <<fetching, sources, parses, uploaded, shown, mapTime>>
  BY DEF GetHit
<1>2. /\ cached \in Seq(MapEntry) /\ DOMAIN cached = 1 .. Len(cached) /\ KeysOnce(cached) /\ Fits(cached)
      /\ Belong(cached, sources, parses) /\ OwnedBut(cached, sources, 0) /\ SourcesFit(sources)
  BY DEF CacheInv, StoresSound, Belong
<1>3. e \in Range(cached) /\ e.key = k
  BY DEF GetHit, Live, Cached, EntryOf
<1>4. e \in MapEntry
  BY <1>2, <1>3, RangeIn
<1> HIDE DEF e
<1>5. /\ a \in Seq(MapEntry) /\ b \in Seq(MapEntry)
      /\ Weight(a) + Weight(b) <= Weight(cached) /\ Len(a) + Len(b) <= Len(cached)
  <2>1. I \cap J = {}
    OBVIOUS
  <2> HIDE DEF I, J
  <2> QED
    BY <1>2, <2>1, EntriesWeigh, LeftWeighs
<1>6. /\ Range(a) = {cached[i] : i \in {j \in 1 .. Len(cached) : j \in I}} /\ KeysOnce(a)
      /\ Range(b) = {cached[i] : i \in {j \in 1 .. Len(cached) : j \in J}}
  <2> HIDE DEF I, J
  <2> QED
    BY <1>2, LeftAtFacts
<1>7. Range(a) = {x \in Range(cached) : x.key # k} /\ Range(b) = {x \in Range(cached) : x.key = k}
  <2> HIDE DEF a, b
  <2> QED
    BY <1>2, <1>6 DEF Range
<1>8. \A x \in Range(cached) : x.key = k => x = e
  BY <1>2, <1>3 DEF Range, KeysOnce
<1> HIDE DEF a, b
<1> DEFINE q == Append(a, e)
<1>9. /\ q \in Seq(MapEntry) /\ Len(q) = Len(a) + 1 /\ Len(a) \in Nat /\ q[Len(q)] = e
      /\ \A i \in 1 .. Len(a) : q[i] = a[i] /\ a[i] \in Range(a)
      /\ DOMAIN q = 1 .. Len(a) + 1 /\ DOMAIN a = 1 .. Len(a)
  BY <1>4, <1>5 DEF Range
<1>10. Weight(q) = Weight(a) + e.weight
  BY <1>4, <1>5, EntriesWeigh, WeightMoves
<1> HIDE DEF q
<1>11. Range(q) = Range(cached)
  <2>1. Range(q) = Range(a) \cup {e}
    BY <1>9 DEF Range
  <2> QED
    BY <1>3, <1>7, <1>8, <2>1
<1>12. KeysOnce(q)
  <2>1. \A i \in 1 .. Len(a) : a[i].key # k
    BY <1>7, <1>9
  <2>2. \A i \in 1 .. Len(q) : i \in 1 .. Len(a) \/ i = Len(q)
    BY <1>9
  <2> QED
    BY <1>3, <1>6, <1>9, <2>1, <2>2 DEF KeysOnce
<1>13. Fits(q)
  <2>1. e \in Range(b)
    BY <1>3, <1>7
  <2>2. e.weight <= Weight(b) /\ Weight(a) \in Nat /\ Weight(b) \in Nat /\ Weight(cached) \in Nat /\ e.weight \in Nat
    BY <1>2, <1>4, <1>5, <2>1, EntriesWeigh, WeightMoves DEF MapEntry
  <2>3. Len(b) >= 1
    <3>1. PICK i \in DOMAIN b : b[i] = e
      BY <2>1 DEF Range
    <3>2. i \in 1 .. Len(b) /\ Len(b) \in Nat
      BY <1>5, <3>1
    <3> QED
      BY <3>2
  <2>4. MaxMapBytes \in Nat /\ MaxMaps \in Nat /\ Len(cached) \in Nat /\ Len(b) \in Nat
    BY <1>2, <1>5, MapBudgets
  <2>5. Weight(q) <= MaxMapBytes
    BY <1>2, <1>5, <1>10, <2>2, <2>4 DEF Fits
  <2>6. Len(q) <= MaxMaps
    BY <1>2, <1>5, <1>9, <2>3, <2>4 DEF Fits
  <2> QED
    BY <2>5, <2>6 DEF Fits
<1>14. StoresSound(q, sources, parses)
  BY <1>2, <1>9, <1>11, <1>12, <1>13 DEF StoresSound, Belong, OwnedBut
<1>15. st \in StackState /\ StackSound(st, fetching, sources, parses)
  <2>1. CASE m = NoMap
    <3>1. st = IdleStack
      BY <2>1
    <3> HIDE DEF st
    <3> QED
      BY <3>1 DEF StackState, StackSound, IdleStack
  <2>2. CASE m # NoMap
    <3>1. m = [key |-> e.key, parse |-> e.parse, version |-> e.version]
      BY <2>2 DEF MapOf
    <3>2. m \in Loaded /\ m.parse = e.parse /\ m.version = e.version
      BY <1>4, <3>1 DEF Loaded, MapEntry
    <3>3. st.at = "holds" /\ st.map = m /\ st \in StackState
      BY <2>2, <3>2 DEF StackState
    <3> HIDE DEF st, m
    <3> QED
      BY <1>2, <1>3, <3>2, <3>3 DEF StackSound, Belong
  <2> QED
    BY <2>1, <2>2
<1> HIDE DEF st
<1>16. stacks' \in [MapStack -> StackState] /\ \A x \in MapStack : StackSound(stacks'[x], fetching, sources, parses)
  BY <1>1, <1>15 DEF CacheInv, CacheTypes, StacksSound
<1> QED
  BY <1>1, <1>14, <1>16 DEF CacheInv, CacheTypes, StacksSound, ContentsOfOwnUpload, q

(* A miss removes the expired entry and waits for the one load. *)
LEMMA GetMissKeeps ==
    ASSUME CacheInv, NEW s \in MapStack, NEW k \in MapKey, GetMiss(s, k)
    PROVE  CacheInv'
<1> DEFINE r == RemoveMap(PairOf(cached, sources), k)
           st == [at |-> "waits", key |-> k]
<1>1. /\ cached' = r.maps /\ sources' = r.sources
      /\ fetching' = (IF fetching[k] = 0 THEN [fetching EXCEPT ![k] = @ + 1] ELSE fetching)
      /\ stacks' = [stacks EXCEPT ![s] = st] /\ UNCHANGED <<parses, uploaded, shown, mapTime>>
  BY DEF GetMiss, SetStores, Stores, PairOf, StartsFetch
<1>2. /\ Belong(cached, sources, parses) /\ OwnedBut(cached, sources, 0) /\ Fits(cached) /\ SourcesFit(sources)
      /\ fetching \in [MapKey -> {0, 1}] /\ stacks \in [MapStack -> StackState]
      /\ \A x \in MapStack : StackSound(stacks[x], fetching, sources, parses)
  BY DEF CacheInv, StoresSound, CacheTypes, StacksSound
<1>3. /\ Belong(r.maps, r.sources, parses) /\ OwnedBut(r.maps, r.sources, 0)
      /\ Range(r.sources) \subseteq Range(sources) /\ Weight(r.sources) <= Weight(sources)
      /\ Weight(r.maps) <= Weight(cached) /\ Len(r.maps) <= Len(cached)
  <2> HIDE DEF r
  <2> QED
    BY <1>2, RemoveMapKeeps DEF r
<1> HIDE DEF r
<1>4. StoresSound(r.maps, r.sources, parses)
  BY <1>2, <1>3, EntriesWeigh, WeightMoves, MapBudgets DEF Belong, Fits, SourcesFit, StoresSound
<1>5. fetching' \in [MapKey -> {0, 1}] /\ fetching'[k] > 0 /\ \A j \in MapKey : fetching'[j] >= fetching[j]
  BY <1>1, <1>2
<1>6. st \in StackState /\ StackSound(st, fetching', sources', parses)
  BY <1>5 DEF StackState, StackSound
<1> HIDE DEF st
<1>7. ASSUME NEW x \in MapStack PROVE StackSound(stacks'[x], fetching', sources', parses)
  <2>1. CASE x = s
    BY <1>1, <1>2, <1>6, <2>1
  <2>2. CASE x # s
    <3> DEFINE u == stacks[x]
    <3>1. stacks'[x] = u /\ u \in StackState /\ StackSound(u, fetching, sources, parses)
      BY <1>1, <1>2, <2>2
    <3> HIDE DEF u
    <3>2. u.at = "waits" => fetching'[u.key] >= fetching[u.key] /\ fetching'[u.key] \in Nat /\ fetching[u.key] \in Nat
      BY <3>1, <1>2, <1>5 DEF StackState, IdleStack
    <3>3. StackSound(u, fetching', sources', parses)
      BY <1>1, <1>3, <3>1, <3>2 DEF StackSound
    <3> QED
      BY <3>1, <3>3
  <2> QED
    BY <2>1, <2>2
<1>8. stacks' \in [MapStack -> StackState]
  BY <1>1, <1>2, <1>6
<1> QED
  BY <1>1, <1>4, <1>5, <1>7, <1>8 DEF CacheInv, CacheTypes, StacksSound, ContentsOfOwnUpload

(* A stack is shown the contents of its own parse. *)
LEMMA ReadContentKeeps ==
    ASSUME CacheInv, NEW s \in MapStack, ReadContent(s)
    PROVE  CacheInv'
<1> DEFINE m == stacks[s].map
           found == ContentOf(m)
           live == {c \in found : c.expires > mapTime}
           I == {i \in DOMAIN sources : sources[i] \notin found}
           J == {i \in DOMAIN sources : sources[i] \in live}
           a == LeftAt(sources, I)
           b == LeftAt(sources, J)
<1>1. /\ stacks[s].at = "holds" /\ stacks' = [stacks EXCEPT ![s] = IdleStack] /\ sources' = a \o b
      /\ shown' = shown \cup {[of |-> m.version, got |-> c.version] : c \in live}
      /\ UNCHANGED <<cached, fetching, parses, uploaded, mapTime>>
  BY DEF ReadContent
<1>2. /\ Belong(cached, sources, parses) /\ OwnedBut(cached, sources, 0) /\ Fits(cached) /\ SourcesFit(sources)
      /\ fetching \in [MapKey -> {0, 1}] /\ stacks \in [MapStack -> StackState]
      /\ \A x \in MapStack : StackSound(stacks[x], fetching, sources, parses)
      /\ sources \in Seq(MapContent) /\ DOMAIN sources = 1 .. Len(sources)
  BY DEF CacheInv, StoresSound, CacheTypes, StacksSound, Belong
<1>3. \A c \in live : c \in Range(sources) /\ c.version = m.version
  BY <1>1, <1>2 DEF ContentOf, StackSound
<1>4. a \in Seq(MapContent) /\ b \in Seq(MapContent) /\ Weight(a \o b) <= Weight(sources)
  <2>1. I \cap J = {}
    OBVIOUS
  <2> HIDE DEF I, J
  <2> QED
    BY <1>2, <2>1, EntriesWeigh, LeftWeighs
<1>5. /\ Range(a) = {sources[i] : i \in {j \in 1 .. Len(sources) : j \in I}}
      /\ Range(b) = {sources[i] : i \in {j \in 1 .. Len(sources) : j \in J}}
  <2> HIDE DEF I, J
  <2> QED
    BY <1>2, LeftAtFacts
<1>6. Range(a) \subseteq Range(sources) /\ Range(b) \subseteq Range(sources)
  <2> HIDE DEF a, b, I, J
  <2> QED
    BY <1>2, <1>5 DEF Range
<1> HIDE DEF a, b, live
<1>7. sources' \in Seq(MapContent) /\ Range(sources') \subseteq Range(sources) /\ Weight(sources') <= Weight(sources)
  <2>1. Range(a \o b) \subseteq Range(a) \cup Range(b)
    BY <1>4 DEF Range
  <2> QED
    BY <1>1, <1>4, <1>6, <2>1
<1>8. StoresSound(cached, sources', parses)
  BY <1>2, <1>7, EntriesWeigh, WeightMoves, MapBudgets DEF SourcesFit, Belong, OwnedBut, StoresSound
<1>9. ContentsOfOwnUpload'
  BY <1>1, <1>3 DEF CacheInv, ContentsOfOwnUpload
<1>10. ASSUME NEW x \in MapStack PROVE StackSound(stacks'[x], fetching, sources', parses)
  BY <1>1, <1>2, <1>7 DEF StackSound, IdleStack
<1>11. stacks' \in [MapStack -> StackState]
  BY <1>1, <1>2 DEF StackState
<1> QED
  BY <1>1, <1>8, <1>9, <1>10, <1>11 DEF CacheInv, CacheTypes, StacksSound

(* Every step of the cache keeps its invariant. *)
LEMMA CacheSteps == CacheInv /\ [SmcNext]_smcVars => CacheInv'
<1> SUFFICES ASSUME CacheInv, [SmcNext]_smcVars PROVE CacheInv'
  OBVIOUS
<1>1. ASSUME NEW k \in MapKey, Upload(k) PROVE CacheInv'
  BY <1>1, MapBudgets DEF Upload, CacheInv, CacheTypes, StacksSound, ContentsOfOwnUpload
<1>2. CASE MapTick
  BY <1>2, MapBudgets DEF MapTick, CacheInv, CacheTypes, StacksSound, ContentsOfOwnUpload
<1>3. CASE UNCHANGED smcVars
  BY <1>3 DEF smcVars, CacheInv, CacheTypes, StacksSound, ContentsOfOwnUpload
<1> QED
  BY <1>1, <1>2, <1>3, LoadMissKeeps, LoadFoundKeeps, LoadBypassedKeeps, GetHitKeeps, GetMissKeeps, ReadContentKeeps
     DEF SmcNext

(* It holds of an empty cache. *)
LEMMA CacheStarts == SmcInit => CacheInv
<1> SUFFICES ASSUME SmcInit PROVE CacheInv
  OBVIOUS
<1>1. Weight(<<>>) = 0 /\ <<>> \in Seq(MapEntry) /\ <<>> \in Seq(MapContent) /\ Range(<<>>) = {} /\ Len(<<>>) = 0
  <2>1. Weight(<<>>) = 0
    <3>1. <<>> \in Seq(MapEntry)
      OBVIOUS
    <3> QED
      BY <3>1, EntriesWeigh, WeightMoves
  <2> QED
    BY <2>1 DEF Range
<1>2. StoresSound(<<>>, <<>>, 0)
  BY <1>1, MapBudgets DEF StoresSound, Belong, OwnedBut, Fits, SourcesFit, KeysOnce
<1>3. CacheTypes /\ StacksSound
  BY MapBudgets DEF SmcInit, CacheTypes, StacksSound, StackState, StackSound, IdleStack
<1> QED
  BY <1>2, <1>3 DEF SmcInit, CacheInv, ContentsOfOwnUpload

(* The invariant of the source map cache. *)
THEOREM CacheInvariant == CacheSpec => []CacheInv
<1> QED
  BY CacheStarts, CacheSteps, PTL DEF CacheSpec

-----------------------------------------------------------------------------
FrameSpec == FrameInit /\ [][FrameNext]_frameVars

(* Mappings and functions stay within the bounds of the instance. *)
THEOREM FramesStayBounded == FrameSpec => []FrameTypeOK
<1> DEFINE Inv == text \in Seq([line : FrameLines, values : GroupValues]) /\ IsFiniteSet(functions) /\ FrameTypeOK
<1>1. FrameInit => Inv
  BY FS_EmptySet, FrameBounds DEF FrameInit, FrameTypeOK
<1>2. Inv /\ [FrameNext]_frameVars => Inv'
  <2> SUFFICES ASSUME Inv, [FrameNext]_frameVars PROVE Inv'
    OBVIOUS
  <2>1. ASSUME NEW l \in FrameLines, NEW v \in GroupValues, WritesGroup(l, v) PROVE Inv'
    <3> DEFINE g == [line |-> l, values |-> v]
    <3>1. g \in [line : FrameLines, values : GroupValues] /\ text' = Append(text, g) /\ functions' = functions
      BY <2>1 DEF WritesGroup
    <3>2. Len(text) < MaxGroups /\ MaxGroups \in Nat
      BY <2>1, FrameBounds DEF WritesGroup
    <3> HIDE DEF g
    <3> QED
      BY <3>1, <3>2 DEF FrameTypeOK
  <2>2. ASSUME NEW a \in At, NEW b \in At, NEW d \in Described, HasFunction(a, b, d) PROVE Inv'
    <3> DEFINE f == [start |-> a, end |-> b, described |-> d]
    <3>1. functions' = functions \cup {f} /\ text' = text /\ Cardinality(functions) < MaxFunctions
      BY <2>2 DEF HasFunction
    <3>2. IsFiniteSet(functions') /\ Cardinality(functions') <= Cardinality(functions) + 1 /\ Cardinality(functions) \in Nat
      <4> HIDE DEF f
      <4>1. IsFiniteSet(functions)
        OBVIOUS
      <4>2. /\ IsFiniteSet(functions \cup {f}) /\ Cardinality(functions) \in Nat
            /\ Cardinality(functions \cup {f}) = Cardinality(functions)
               \/ Cardinality(functions \cup {f}) = Cardinality(functions) + 1
        BY <4>1, FS_AddElement, FS_CardinalityType
      <4> QED
        BY <3>1, <4>2
    <3>3. Cardinality(functions') \in Nat /\ MaxFunctions \in Nat
      BY <3>2, FS_CardinalityType, FrameBounds
    <3> HIDE DEF f
    <3> QED
      BY <3>1, <3>2, <3>3 DEF FrameTypeOK
  <2>3. CASE WritesField
    BY <2>3 DEF WritesField, FrameTypeOK
  <2>4. CASE UNCHANGED frameVars
    BY <2>4 DEF frameVars, FrameTypeOK
  <2> QED
    BY <2>1, <2>2, <2>3, <2>4 DEF FrameNext
<1> QED
  BY <1>1, <1>2, PTL DEF FrameSpec

-----------------------------------------------------------------------------
(* The parts run beside each other, so what holds of one holds in the        *)
(* instance.                                                                 *)
THEOREM PartsRunAlone ==
    ClientsSpec => /\ RelaySpec /\ EdgeSpec /\ BrowserSpec /\ BuildSpec /\ SetupSpec
                   /\ CacheSpec /\ FrameSpec
<1>1. ClientsInit => /\ RelayInit /\ EdgeInit /\ BrowserInit /\ SmbInit /\ SetupInit
                     /\ SmcInit /\ FrameInit
  BY DEF ClientsInit
<1>2. [ClientsNext]_clientsVars =>
        /\ [RelayNext]_relayVars /\ [EdgeNext]_edgeVars /\ [BrowserNext]_browserVars
        /\ [SmbNext]_smbVars /\ [SetupNext]_setupVars /\ [SmcNext]_smcVars /\ [FrameNext]_frameVars
  BY DEF ClientsNext, Rests, clientsVars
<1> QED
  BY <1>1, <1>2, PTL DEF ClientsSpec, RelaySpec, EdgeSpec, BrowserSpec, BuildSpec, SetupSpec, CacheSpec, FrameSpec

(* A visitor is held to the relay's limit whatever address headers he makes   *)
(* up, and every call has one answer, as the run checks them (relay.ts), for *)
(* any visitors, calls, limits, body sizes and window bounds.                *)
THEOREM RelayStaysLimited == ClientsSpec => []RelayLimits
<1>1. RelayInv => RelayLimits
  BY RelayHolds DEF RelayLimits, Of
<1> QED
  BY <1>1, PartsRunAlone, RelayInvariant, PTL

(* Each record of a finished request is queued, in one batch, delivered or   *)
(* counted as dropped, however many loops of deliver() drain the queue, and  *)
(* a logged error is reported once, as the run checks them (index.ts), for   *)
(* any requests, errors, flushes, destinations, caps and budgets.            *)
THEOREM EdgeStaysWhole == ClientsSpec => []EdgeReportsOnce
<1>1. EdgeRecordsKept /\ EdgeLogReportsFirstOnly => EdgeReportsOnce
  BY DEF EdgeReportsOnce, Of
<1> QED
  BY <1>1, PartsRunAlone, EdgeInvariant, EdgeLogsReportFirst, PTL

(* A summary that finds the queue full is left out only where nothing but    *)
(* summaries is kept, as the run checks it (index.ts:444-445).               *)
THEOREM SummariesStayLast == ClientsSpec => SummariesLeaveLast
  BY PartsRunAlone, EdgeSummariesStay, PTL

(* A page's events leave it soon after they were queued, their breadcrumbs   *)
(* fit the budget of a beacon, and an error that was logged before it was    *)
(* thrown is reported once, as the run checks them (runtime-browser          *)
(* index.ts, breadcrumbs.ts), for any errors, delays, caps and budgets.      *)
THEOREM PagesReportInTime == ClientsSpec => []PageEventsLeave
<1>1. EventsLeaveInTime /\ LogReportsFirstOnly /\ BatchCrumbsBounded => PageEventsLeave
  BY DEF PageEventsLeave, Of
<1> QED
  BY <1>1, PartsRunAlone, PageReportsInTime, PageBatchesFit, PTL

(* A build, killed or repeated as it may be, stores maps that fit the        *)
(* bundles it leaves, deletes only maps that are stored, and says `verified' *)
(* only if a frame would resolve, as the run checks them (inject.ts,         *)
(* upload.ts, verify.ts), for any bundles, jobs, retries, uploads at a time  *)
(* and kills.                                                                *)
THEOREM BuildsKeepMaps == ClientsSpec => []BuildKeepsMaps
<1>1. BuildInv => BuildKeepsMaps
  BY BuildHolds DEF BuildKeepsMaps, Of
<1> QED
  BY <1>1, PartsRunAlone, BuildInvariant, PTL

(* Setup can be run again after any unfinished run, and when it says that    *)
(* everything is applied the next build uploads its maps, as far as setup    *)
(* can read them (AppliedMeansWired), for any tool, project, reading of its  *)
(* settings and number of runs.                                              *)
THEOREM SetupStaysWired == ClientsSpec => []SetupWires
<1>1. SetupInv => SetupWires
  BY SetupHolds DEF SetupWires, Of
<1> QED
  BY <1>1, PartsRunAlone, SetupInvariant, PTL

(* The ingester's cache keeps both stores in their budgets, holds contents   *)
(* only for maps that are cached, loads a map once for all who wait, and     *)
(* shows a stack source lines of no other upload than its own                *)
(* (symbolicate.ts), for any keys, stacks, weights, budgets and times.       *)
THEOREM CacheStaysWhole ==
    ClientsSpec => [](CacheBudgets /\ OneLoadPerMap /\ ContentsOfOwnUpload)
<1>1. CacheInv => CacheBudgets /\ OneLoadPerMap /\ ContentsOfOwnUpload
  BY CacheSays
<1> QED
  BY <1>1, PartsRunAlone, CacheInvariant, PTL

(* The types of the parts, with the bounds of their queues, rings and        *)
(* windows, as the run checks them, for any values of their constants.       *)
THEOREM ClientsTypesHold == ClientsSpec => []ClientsTypeOK
<1>1. /\ RelayInv => RelayTypeOK
      /\ BuildInv => SmbTypeOK
      /\ SetupInv => SetupTypeOK
      /\ CacheInv => SmcTypeOK
  BY BuildHolds, SetupHolds, CacheSays DEF RelayInv
<1>2. (/\ BrowserTypeOK /\ RelayTypeOK /\ EdgeTypeOK /\ SmcTypeOK
       /\ FrameTypeOK /\ SmbTypeOK /\ SetupTypeOK) => ClientsTypeOK
  BY DEF ClientsTypeOK, Of
<1> QED
  BY <1>1, <1>2, PartsRunAlone, PageBatchesFit, RelayInvariant, EdgeTypesHold, CacheInvariant, FramesStayBounded,
     BuildInvariant, SetupInvariant, PTL
=============================================================================
