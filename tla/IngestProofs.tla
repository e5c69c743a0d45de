----------------------------- MODULE IngestProofs -----------------------------
(***************************************************************************)
(* Proofs about the ingester: key lookups, requests, the rate limiter, SDK     *)
(* sightings, the schema bootstrap, request counts, suppression rules and the  *)
(* recordings of a trace, each on its own and then as parts of the instance,   *)
(* for any keys, requests, replicas, rules and bounds.                         *)
(***************************************************************************)
EXTENDS MCIngest, SinkForwarderProofs

(* When an outcome of k was true for the last time, it was not before t.     *)
TrueSince(k, outcome, t) ==
    /\ outcome = "ok" => validUntil[k] >= t
    /\ outcome = "unknown_key" => invalidUntil[k] >= t

(* What a lookup under way holds is not older than one validator request,    *)
(* and an answer on its way to it was true since it asked.                   *)
Timely(x) ==
    x.st \in {"asking", "answered"} => x.key \in Key /\ x.askedAt <= now /\ now <= x.askedAt + Timeout
Truthful(x) ==
    x.st = "answered" => x.answer \in Outcome /\ TrueSince(x.key, x.answer, x.askedAt)

LookupsTimely == \A l \in Lookup : Timely(look[l])
LookupsTrue == \A l \in Lookup : Truthful(look[l])

EntriesTrue ==
    \A k \in Key : entry[k] # None =>
        /\ entry[k].expiresAt <= now + TTL
        /\ TrueSince(k, entry[k].result, entry[k].expiresAt - (TTL + Timeout))

PlatformNow ==
    \A k \in Key : IF k \in valid THEN validUntil[k] = now ELSE invalidUntil[k] = now

KeysInv ==
    /\ KeysTypeOK /\ CacheBounded
    /\ LookupsTimely /\ LookupsTrue /\ EntriesTrue /\ PlatformNow

(* The lookup invariant holds at the start. *)
LEMMA KeysStart == KeysInit => KeysInv
  BY KeysConstants DEF KeysInit, KeysInv, Timely, Truthful, KeysTypeOK, CacheBounded, LookupsTimely, LookupsTrue,
     EntriesTrue, PlatformNow, TrueSince, Idle, LookupType, EntryType, Outcome, IsInjective, ToSet

(* What a lookup that stays as it is, in a cache that stays as it is, needs. *)
LEMMA KeysTickStep == ASSUME KeysInv, KeysTick PROVE KeysInv'
<1> USE KeysConstants
<1>1. now \in Nat /\ now' = now + 1 /\ UNCHANGED <<look, valid, changes, order, entry>>
  BY DEF KeysInv, KeysTypeOK, KeysTick, cache
<1>2. validUntil \in [Key -> Nat] /\ invalidUntil \in [Key -> Nat] /\ valid \subseteq Key
  BY DEF KeysInv, KeysTypeOK
<1>3. /\ validUntil' \in [Key -> Nat] /\ invalidUntil' \in [Key -> Nat]
      /\ PlatformNow'
  BY <1>1, <1>2 DEF KeysTick, PlatformNow
<1>4. \A k \in Key : validUntil'[k] >= validUntil[k] /\ invalidUntil'[k] >= invalidUntil[k]
  BY <1>1, <1>2 DEF KeysTick, KeysInv, PlatformNow
<1>5. KeysTypeOK' /\ CacheBounded'
  BY <1>1, <1>3 DEF KeysInv, KeysTypeOK, CacheBounded
<1>6. LookupsTimely'
  BY <1>1 DEF KeysInv, LookupsTimely, Timely, KeysTick, KeysTypeOK, LookupType
<1>7. LookupsTrue' /\ EntriesTrue'
  <2>1. \A k \in Key : \A o \in Outcome : \A t \in Int : TrueSince(k, o, t) => TrueSince(k, o, t)'
    BY <1>2, <1>3, <1>4 DEF TrueSince
  <2>2. LookupsTrue'
    BY <2>1, <1>1 DEF KeysInv, LookupsTrue, LookupsTimely, Truthful, Timely, KeysTypeOK, LookupType
  <2>3. EntriesTrue'
    BY <2>1, <1>1 DEF KeysInv, EntriesTrue, KeysTypeOK, EntryType
  <2> QED
    BY <2>2, <2>3
<1> QED
  BY <1>3, <1>5, <1>6, <1>7 DEF KeysInv

(* The platform creates or revokes a key. *)
LEMMA ChangeKeyStep == ASSUME KeysInv, NEW k \in Key, ChangeKey(k) PROVE KeysInv'
<1> USE KeysConstants
<1>1. /\ UNCHANGED <<now, look, order, entry>> /\ changes' = changes + 1
      /\ valid' = IF k \in valid THEN valid \ {k} ELSE valid \cup {k}
      /\ validUntil' = [validUntil EXCEPT ![k] = now]
      /\ invalidUntil' = [invalidUntil EXCEPT ![k] = now]
  BY DEF ChangeKey, cache
<1>2. now \in Nat /\ validUntil \in [Key -> Nat] /\ invalidUntil \in [Key -> Nat] /\ valid \subseteq Key
  BY DEF KeysInv, KeysTypeOK
<1>3. KeysTypeOK' /\ CacheBounded' /\ PlatformNow'
  BY <1>1, <1>2 DEF KeysInv, KeysTypeOK, CacheBounded, PlatformNow
<1>4. LookupsTimely'
  BY <1>1 DEF KeysInv, LookupsTimely, Timely
(* A time in the past stays one: what changes is set to now. *)
<1>5. \A j \in Key : \A o \in Outcome : \A t \in Int :
         t <= now /\ TrueSince(j, o, t) => TrueSince(j, o, t)'
  BY <1>1, <1>2 DEF TrueSince
<1>6. LookupsTrue'
  BY <1>1, <1>5 DEF KeysInv, LookupsTrue, LookupsTimely, Truthful, Timely, KeysTypeOK, LookupType
<1>7. EntriesTrue'
  BY <1>1, <1>5 DEF KeysInv, EntriesTrue, KeysTypeOK, EntryType
<1> QED
  BY <1>3, <1>4, <1>6, <1>7 DEF KeysInv

(* A lookup goes on while clock, cache and platform stay.                    *)
LEMMA LookupMoves ==
    ASSUME KeysInv, NEW l \in Lookup, NEW x \in LookupType, Timely(x), Truthful(x),
           look' = [look EXCEPT ![l] = x],
           UNCHANGED <<now, valid, validUntil, invalidUntil, changes, order, entry>>
    PROVE  KeysInv'
<1> USE DEF KeysInv
<1>1. KeysTypeOK' /\ CacheBounded' /\ PlatformNow' /\ EntriesTrue'
  BY DEF KeysTypeOK, CacheBounded, PlatformNow, EntriesTrue, TrueSince
<1>2. \A j \in Lookup : look'[j] = IF j = l THEN x ELSE look[j]
  BY DEF KeysTypeOK
<1>3. LookupsTimely'
  BY <1>2 DEF LookupsTimely, Timely
<1>4. LookupsTrue'
  BY <1>2 DEF LookupsTrue, Truthful, TrueSince
<1> QED
  BY <1>1, <1>3, <1>4

(* A lookup reads the cache, asks, is answered, or falls back. *)
LEMMA LookupSteps ==
    ASSUME KeysInv, NEW l \in Lookup, NEW k \in Key, HitCache(l, k) \/ Ask(l, k) \/ Answer(l) \/ FallBack(l)
    PROVE  KeysInv'
<1> USE KeysConstants
<1>1. UNCHANGED <<now, valid, validUntil, invalidUntil, changes, order, entry>>
  BY DEF HitCache, Ask, Answer, FallBack, cache, platform
<1>2. look[l] \in LookupType /\ entry[k] \in EntryType \cup {None} /\ now \in Nat
  BY DEF KeysInv, KeysTypeOK
<1>3. CASE HitCache(l, k)
  <2> DEFINE x == [look[l] EXCEPT !.st = "done", !.key = k, !.result = entry[k].result, !.via = "cache"]
  <2>1. x \in LookupType /\ x.st = "done" /\ look' = [look EXCEPT ![l] = x]
    BY <1>2, <1>3 DEF HitCache, Fresh, LookupType, EntryType
  <2>2. Timely(x) /\ Truthful(x)
    BY <2>1 DEF Timely, Truthful
  <2> QED
    BY <1>1, <2>1, <2>2, LookupMoves
<1>4. CASE Ask(l, k)
  <2> DEFINE x == [look[l] EXCEPT !.st = "asking", !.key = k, !.cached = entry[k], !.askedAt = now]
  <2>1. x \in LookupType /\ x.st = "asking" /\ x.key = k /\ x.askedAt = now /\ look' = [look EXCEPT ![l] = x]
    BY <1>2, <1>4 DEF Ask, LookupType
  <2>2. Timely(x) /\ Truthful(x)
    BY <2>1, <1>2 DEF Timely, Truthful
  <2> QED
    BY <1>1, <2>1, <2>2, LookupMoves
<1>5. CASE Answer(l)
  <2>1. PICK v \in Verdicts(look[l].key) : look' = [look EXCEPT ![l] = [@ EXCEPT !.st = "answered", !.answer = v]]
    BY <1>5 DEF Answer
  <2> DEFINE x == [look[l] EXCEPT !.st = "answered", !.answer = v]
  <2>2. v \in Outcome /\ (v = "ok" => look[l].key \in valid) /\ (v = "unknown_key" => look[l].key \notin valid)
    BY DEF Verdicts, Outcome
  <2>3. Timely(look[l]) /\ look[l].st = "asking"
    BY <1>5 DEF KeysInv, LookupsTimely, Answer
  <2>4. x \in LookupType /\ x.st = "answered" /\ x.answer = v /\ x.key = look[l].key /\ x.askedAt = look[l].askedAt
        /\ look' = [look EXCEPT ![l] = x]
    BY <1>2, <2>1, <2>2 DEF LookupType
  <2>5. Timely(x)
    BY <2>3, <2>4 DEF Timely
  <2>6. Truthful(x)
    BY <2>2, <2>3, <2>4 DEF Truthful, Timely, TrueSince, KeysInv, PlatformNow
  <2> QED
    BY <1>1, <2>4, <2>5, <2>6, LookupMoves
<1>6. CASE FallBack(l)
  <2> DEFINE c == look[l].cached
             x == [look[l] EXCEPT !.st = "done", !.result = IF c # None THEN c.result ELSE "key_unverified",
                                  !.via = "fallback", !.askedAt = 0, !.answer = None]
  <2>1. x \in LookupType /\ x.st = "done" /\ look' = [look EXCEPT ![l] = x]
    BY <1>2, <1>6 DEF FallBack, Done, LookupType, EntryType, Outcome
  <2>2. Timely(x) /\ Truthful(x)
    BY <2>1 DEF Timely, Truthful
  <2> QED
    BY <1>1, <2>1, <2>2, LookupMoves
<1> QED
  BY <1>3, <1>4, <1>5, <1>6

(* The order of the cached keys with k at its old place, or at the end.      *)
LEMMA PlacedKey ==
    ASSUME NEW s \in Seq(Key), IsInjective(s), NEW k \in Key,
           NEW p, p = IF Contains(s, k) THEN s ELSE Append(s, k)
    PROVE  p \in Seq(Key) /\ IsInjective(p) /\ ToSet(p) = ToSet(s) \cup {k} /\ p # <<>> /\ Len(p) <= Len(s) + 1
<1>1. CASE Contains(s, k)
  BY <1>1 DEF Contains, ToSet
<1>2. CASE ~Contains(s, k)
  <2>1. p \in Seq(Key) /\ Len(p) = Len(s) + 1 /\ p[Len(p)] = k /\ \A i \in 1..Len(s) : p[i] = s[i] /\ s[i] # k
    BY <1>2 DEF Contains
  <2>2. IsInjective(p)
    BY <2>1 DEF IsInjective
  <2>3. ToSet(p) = ToSet(s) \cup {k}
    BY <2>1 DEF ToSet
  <2> QED
    BY <2>1, <2>2, <2>3
<1> QED
  BY <1>1, <1>2

(* The oldest key leaves. *)
LEMMA OldestLeaves ==
    ASSUME NEW s \in Seq(Key), IsInjective(s), s # <<>>
    PROVE  /\ Tail(s) \in Seq(Key) /\ IsInjective(Tail(s)) /\ Len(Tail(s)) = Len(s) - 1
           /\ Head(s) \in Key /\ ToSet(Tail(s)) = ToSet(s) \ {Head(s)}
<1>1. Len(s) \in Nat \ {0} /\ Head(s) = s[1] /\ Head(s) \in Key
  OBVIOUS
<1>2. /\ Tail(s) \in Seq(Key) /\ Len(Tail(s)) = Len(s) - 1 /\ DOMAIN Tail(s) = 1..Len(s) - 1
      /\ \A i \in 1..Len(s) - 1 : Tail(s)[i] = s[i + 1]
  OBVIOUS
<1>3. IsInjective(Tail(s))
  BY <1>1, <1>2 DEF IsInjective
<1>4. ToSet(Tail(s)) \subseteq ToSet(s) \ {Head(s)}
  BY <1>1, <1>2 DEF IsInjective, ToSet
<1>5. ASSUME NEW i \in 1..Len(s), s[i] # s[1] PROVE s[i] \in ToSet(Tail(s))
  <2>1. i - 1 \in 1..Len(s) - 1 /\ Tail(s)[i - 1] = s[i]
    BY <1>1, <1>2, <1>5
  <2> QED
    BY <1>2, <2>1 DEF ToSet
<1>6. ToSet(s) \ {Head(s)} \subseteq ToSet(Tail(s))
  BY <1>1, <1>5 DEF ToSet
<1> QED
  BY <1>1, <1>2, <1>3, <1>4, <1>6

(* A lookup stores its answer, and the cache loses its oldest key when      *)
(* full.                                                                    *)
LEMMA ResumeStep == ASSUME KeysInv, NEW l \in Lookup, Resume(l) PROVE KeysInv'
<1> USE KeysConstants
<1> DEFINE k == look[l].key
           placed == IF Contains(order, k) THEN order ELSE Append(order, k)
           full == TooMany(placed)
           row == [result |-> look[l].answer, expiresAt |-> now + TTL]
           with == [entry EXCEPT ![k] = row]
           x == [look[l] EXCEPT !.st = "done", !.result = look[l].answer, !.via = "validator",
                                !.askedAt = 0, !.answer = None]
<1>1. /\ look[l] \in LookupType /\ Timely(look[l]) /\ Truthful(look[l]) /\ look[l].st = "answered"
      /\ now \in Nat /\ order \in Seq(Key) /\ entry \in [Key -> EntryType \cup {None}]
      /\ IsInjective(order) /\ Len(order) <= MaxCached
      /\ {j \in Key : entry[j] # None} = ToSet(order)
  BY DEF Resume, KeysInv, KeysTypeOK, LookupsTimely, LookupsTrue, CacheBounded
<1>2. k \in Key /\ look[l].askedAt \in Nat /\ now <= look[l].askedAt + Timeout /\ look[l].answer \in Outcome
  BY <1>1 DEF Timely, Truthful, LookupType
<1>3. row \in EntryType /\ row # None
  BY <1>1, <1>2 DEF EntryType
<1>4. placed \in Seq(Key) /\ IsInjective(placed) /\ ToSet(placed) = ToSet(order) \cup {k}
      /\ placed # <<>> /\ Len(placed) <= Len(order) + 1
  BY <1>1, <1>2, PlacedKey
<1>5. /\ order' = IF full THEN Tail(placed) ELSE placed
      /\ entry' = IF full THEN [with EXCEPT ![Head(placed)] = None] ELSE with
      /\ look' = [look EXCEPT ![l] = x]
      /\ UNCHANGED <<now, valid, validUntil, invalidUntil, changes>>
  BY DEF Resume, Done, platform
<1> HIDE DEF placed, row
<1>6. with \in [Key -> EntryType \cup {None}] /\ \A j \in Key : with[j] = IF j = k THEN row ELSE entry[j]
  BY <1>1, <1>2, <1>3
<1> HIDE DEF with
<1>7. {j \in Key : with[j] # None} = ToSet(placed)
  BY <1>1, <1>2, <1>3, <1>4, <1>6
(* The cache. *)
<1>8. /\ order' \in Seq(Key) /\ entry' \in [Key -> EntryType \cup {None}] /\ CacheBounded'
      /\ \A j \in Key : entry'[j] # None => entry'[j] = with[j]
  <2>1. CASE ~full
    BY <1>1, <1>4, <1>5, <1>6, <1>7, <2>1 DEF CacheBounded, TooMany
  <2>2. CASE full
    <3>1. /\ Tail(placed) \in Seq(Key) /\ IsInjective(Tail(placed)) /\ Len(Tail(placed)) = Len(placed) - 1
          /\ Head(placed) \in Key /\ ToSet(Tail(placed)) = ToSet(placed) \ {Head(placed)}
      BY <1>4, OldestLeaves
    <3>2. /\ order' = Tail(placed) /\ entry' \in [Key -> EntryType \cup {None}]
          /\ \A j \in Key : entry'[j] = IF j = Head(placed) THEN None ELSE with[j]
      BY <1>5, <1>6, <2>2, <3>1
    <3>3. {j \in Key : entry'[j] # None} = ToSet(order')
      BY <1>7, <3>1, <3>2
    <3> QED
      BY <1>1, <1>4, <3>1, <3>2, <3>3 DEF CacheBounded
  <2> QED
    BY <2>1, <2>2
(* What is stored was true when the validator said it. *)
<1>9. EntriesTrue'
  <2>1. now + TTL - (TTL + Timeout) <= look[l].askedAt
    BY <1>1, <1>2
  <2>2. TrueSince(k, look[l].answer, now + TTL - (TTL + Timeout))
    BY <1>1, <1>2, <2>1 DEF Truthful, TrueSince, KeysInv, KeysTypeOK
  <2>3. \A j \in Key : with[j] # None =>
           with[j].expiresAt <= now + TTL /\ TrueSince(j, with[j].result, with[j].expiresAt - (TTL + Timeout))
    BY <1>1, <1>6, <2>2 DEF row, KeysInv, EntriesTrue
  <2> QED
    BY <1>5, <1>8, <2>3 DEF EntriesTrue, TrueSince
(* The lookup that is answered. *)
<1>10. x \in LookupType /\ x.st = "done"
  BY <1>1, <1>2 DEF LookupType
<1>11. Timely(x)' /\ Truthful(x)'
  BY <1>10 DEF Timely, Truthful
<1>12. \A j \in Lookup : look'[j] = IF j = l THEN x ELSE look[j]
  BY <1>5 DEF KeysInv, KeysTypeOK
<1>13. LookupsTimely' /\ LookupsTrue'
  <2>1. \A j \in Lookup : Timely(look[j]) /\ Truthful(look[j])
    BY DEF KeysInv, LookupsTimely, LookupsTrue
  <2> QED
    BY <1>5, <1>10, <1>12, <2>1 DEF LookupsTimely, LookupsTrue, Timely, Truthful, TrueSince
<1>14. KeysTypeOK' /\ PlatformNow'
  BY <1>5, <1>8, <1>10 DEF KeysInv, KeysTypeOK, PlatformNow
<1> QED
  BY <1>8, <1>9, <1>13, <1>14 DEF KeysInv

(* Every step keeps the lookup invariant. *)
LEMMA KeysStep == KeysInv /\ [KeysNext]_keysVars => KeysInv'
<1> SUFFICES ASSUME KeysInv, [KeysNext]_keysVars PROVE KeysInv'
  OBVIOUS
<1>1. CASE KeysTick
  BY <1>1, KeysTickStep
<1>2. ASSUME NEW k \in Key, ChangeKey(k) PROVE KeysInv'
  BY <1>2, ChangeKeyStep
<1>3. ASSUME NEW l \in Lookup, Answer(l) \/ FallBack(l) PROVE KeysInv'
  <2>1. look[l].st \in {"asking", "answered"}
    BY <1>3 DEF Answer, FallBack
  <2>2. look[l].key \in Key
    BY <2>1 DEF KeysInv, LookupsTimely, Timely
  <2> QED
    BY <1>3, <2>2, LookupSteps
<1>4. ASSUME NEW l \in Lookup, NEW k \in Key, HitCache(l, k) \/ Ask(l, k) PROVE KeysInv'
  BY <1>4, LookupSteps
<1>5. ASSUME NEW l \in Lookup, Resume(l) PROVE KeysInv'
  BY <1>5, ResumeStep
<1>6. CASE UNCHANGED keysVars
  BY <1>6 DEF keysVars, KeysInv, KeysTypeOK, CacheBounded, LookupsTimely, Timely, LookupsTrue, Truthful,
     EntriesTrue, PlatformNow, TrueSince
<1> QED
  BY <1>1, <1>2, <1>3, <1>4, <1>5, <1>6 DEF KeysNext

(* Cache entries and answers under way (auth.ts) stay as recent as their    *)
(* TTL, and the cache bounded, in every reachable state.                    *)
THEOREM KeysInvariant == KeysSpec => []KeysInv
  BY KeysStart, KeysStep, PTL DEF KeysSpec

(* A lookup is told what was true within the last TTL and request timeout.   *)
LEMMA AnswerIsRecent ==
    ASSUME KeysInv, [KeysNext]_keysVars, NEW l \in Lookup,
           look'[l].st = "done", look[l].st # "done", look'[l].via # "fallback"
    PROVE  /\ look'[l].result = "ok" => now - validUntil[look'[l].key] < TTL + Timeout
           /\ look'[l].result = "unknown_key" => now - invalidUntil[look'[l].key] < TTL + Timeout
<1> USE KeysConstants
<1>1. /\ look \in [Lookup -> LookupType] /\ now \in Nat
      /\ validUntil \in [Key -> Nat] /\ invalidUntil \in [Key -> Nat]
      /\ look[l] \in LookupType /\ Timely(look[l]) /\ Truthful(look[l])
  BY DEF KeysInv, KeysTypeOK, LookupsTimely, LookupsTrue
<1>2. (\E k \in Key : HitCache(l, k)) \/ Resume(l)
  <2>1. ASSUME NEW j \in Lookup, NEW k \in Key, HitCache(j, k) PROVE HitCache(l, k)
    BY <1>1, <2>1 DEF HitCache
  <2>2. ASSUME NEW j \in Lookup, Resume(j) PROVE Resume(l)
    <3>1. \A i \in Lookup \ {j} : look'[i] = look[i]
      BY <1>1, <2>2 DEF Resume, Done
    <3> QED
      BY <2>2, <3>1
  <2>3. ASSUME NEW j \in Lookup, NEW k \in Key, Ask(j, k) PROVE FALSE
    <3>1. look[j] \in LookupType /\ look'[j] = [look[j] EXCEPT !.st = "asking", !.key = k,
                                                     !.cached = entry[k], !.askedAt = now]
      BY <1>1, <2>3 DEF Ask
    <3>2. look'[j].st = "asking" /\ \A i \in Lookup \ {j} : look'[i] = look[i]
      BY <1>1, <2>3, <3>1 DEF Ask, LookupType
    <3> QED
      BY <3>2
  <2>4. ASSUME NEW j \in Lookup, FallBack(j) PROVE FALSE
    BY <1>1, <2>4 DEF FallBack, Done, LookupType
  <2>5. ASSUME NEW j \in Lookup, Answer(j) PROVE FALSE
    BY <1>1, <2>5 DEF Answer, LookupType
  <2>6. ASSUME look' = look PROVE FALSE
    BY <2>6
  <2> QED
    BY <2>1, <2>2, <2>3, <2>4, <2>5, <2>6 DEF KeysNext, KeysTick, ChangeKey, keysVars
<1>3. ASSUME NEW k \in Key, HitCache(l, k)
      PROVE  \E e \in EntryType : /\ look'[l].key = k /\ look'[l].result = e.result
                                  /\ e.expiresAt > now /\ TrueSince(k, e.result, e.expiresAt - (TTL + Timeout))
  <2>1. entry[k] \in EntryType /\ entry[k] # None /\ entry[k].expiresAt > now
    BY <1>3 DEF HitCache, Fresh, KeysInv, KeysTypeOK
  <2>2. look'[l].key = k /\ look'[l].result = entry[k].result
    BY <1>1, <1>3 DEF HitCache, LookupType
  <2> QED
    BY <2>1, <2>2 DEF KeysInv, EntriesTrue
<1>4. ASSUME Resume(l)
      PROVE  /\ look'[l].key = look[l].key /\ look'[l].result = look[l].answer /\ look[l].key \in Key
             /\ look[l].askedAt \in Nat
             /\ now <= look[l].askedAt + Timeout /\ TrueSince(look[l].key, look[l].answer, look[l].askedAt)
  BY <1>1, <1>4 DEF Resume, Done, LookupType, Timely, Truthful
<1>5. CASE \E k \in Key : HitCache(l, k)
  BY <1>1, <1>3, <1>5 DEF TrueSince, EntryType
<1>6. CASE Resume(l)
  BY <1>1, <1>4, <1>6 DEF TrueSince
<1> QED
  BY <1>2, <1>5, <1>6

(* What AnswersAreRecent says, for any keys, lookups, lifetimes and platform *)
(* (auth.ts:19-23).                                                          *)
THEOREM AnswersStayRecent == KeysSpec => AnswersAreRecent
<1> DEFINE Recent ==
      \A l \in Lookup :
          look'[l].st = "done" /\ look[l].st # "done" /\ look'[l].via # "fallback" =>
             /\ look'[l].result = "ok" => now - validUntil[look'[l].key] < TTL + Timeout
             /\ look'[l].result = "unknown_key" => now - invalidUntil[look'[l].key] < TTL + Timeout
<1>1. KeysInv /\ [KeysNext]_keysVars => [Recent]_keysVars
  BY AnswerIsRecent
<1> QED
  BY <1>1, KeysInvariant, PTL DEF KeysSpec, AnswersAreRecent

-----------------------------------------------------------------------------
(* Requests (IngestServer).                                                 *)

ServerSpec == ServerInit /\ [][ServerNext]_serverVars

Table == {"occurrences", "spans", "logs", "latency", "points", "profiles", "events", "maps"}
Reason == {"missing_key", "unknown_key", "not_allowed", "rate_limited", "invalid_payload",
           "unsupported_media_type", "unrouted", "storage_unavailable"}
RequestType ==
    [st : {"idle", "resolving", "counting", "reading", "promoting", "writing", "failed", "done"},
     payload : Payload \cup {NoTrace}, key : IngestKey \cup {NoKey},
     left : SUBSET Table, kept : BOOLEAN]

RequestsTyped ==
    /\ requests \in [Request -> RequestType]
    /\ answers \in [Request -> Seq(Nat)] /\ counted \in [Request -> Seq(Reason)]
    /\ sinkQueue \subseteq Payload
    /\ \A r \in Request : requests[r].st # "idle" => requests[r].payload \in Payload

Unanswered(r) == answers[r] = <<>> /\ counted[r] = <<>>
Refused(r) == Len(answers[r]) = 1 /\ answers[r] # <<200>>

(* The key may call the route of the request. *)
Admitted(r) == /\ requests[r].key # NoKey /\ Route(r) # "unknown"
               /\ MayCall(ScopeOf[requests[r].key], Surface(Route(r)))

(* Another occurrence of the trace is stored. *)
Hidden(p) == \E q \in Payload \ {p} : ErrorTrace[q] = ErrorTrace[p] /\ Occurrence(q) \in tables

(* What is not left to insert is stored, but for occurrences promotion left out. *)
Inserted(r) ==
    /\ \A t \in Rows(r) \ requests[r].left :
          <<t, requests[r].payload>> \in tables \/ (t = "occurrences" /\ ~requests[r].kept)
    /\ ~requests[r].kept => Hidden(requests[r].payload)

Accepted(r) ==
    /\ answers[r] = <<200>> /\ counted[r] = <<>> /\ Admitted(r) /\ Inserted(r)
    /\ requests[r].left = {}
    /\ Sinks(Route(r)) /\ requests[r].kept => requests[r].payload \in sinkQueue

RequestSound(r) ==
    CASE requests[r].st \in {"idle", "resolving"} -> Unanswered(r) /\ requests[r].kept
      [] requests[r].st = "counting" -> Refused(r) /\ counted[r] = <<>>
      [] requests[r].st = "reading" -> Unanswered(r) /\ requests[r].kept /\ Admitted(r)
      [] requests[r].st = "promoting" ->
            Unanswered(r) /\ requests[r].kept /\ Admitted(r) /\ requests[r].left = Rows(r)
      [] requests[r].st = "writing" -> Unanswered(r) /\ Admitted(r) /\ Inserted(r)
      [] requests[r].st = "failed" -> Refused(r) /\ Len(counted[r]) = 1
      [] OTHER -> Accepted(r) \/ (Refused(r) /\ Len(counted[r]) = 1)

QueueStored ==
    \A p \in sinkQueue : \A i \in DOMAIN TablesOf(RouteOf[p]) : <<TablesOf(RouteOf[p])[i], p>> \in tables

ServerInv == RequestsTyped /\ QueueStored /\ \A r \in Request : RequestSound(r)

(* Tables and handlers, by route.                                           *)
LEMMA RowsAreTables == \A r \in Request : Rows(r) \subseteq Table
  BY DEF Rows, TablesOf, Handler, TracesHandler, LogsHandler, MetricsHandler, BrowserHandler,
     ProfilesHandler, PlatformHandler, SourceMapsHandler, NoHandler, Table

(* The two surfaces that are routes. *)
LEMMA SurfaceOfRoute ==
    ASSUME NEW route
    PROVE  /\ Surface(route) = "browser" => route = "browser"
           /\ Surface(route) = "sourcemaps" => route = "sourcemaps"
  BY DEF Surface, Handler, TracesHandler, LogsHandler, MetricsHandler, BrowserHandler,
     ProfilesHandler, PlatformHandler, SourceMapsHandler, NoHandler

(* The request invariant holds at the start. *)
LEMMA ServerStart == ServerInit => ServerInv
  BY DEF ServerInit, ServerInv, RequestsTyped, QueueStored, RequestSound, Unanswered, IdleRequest, RequestType

(* What is known of a request stays known while others go on: rows are only  *)
(* added, and so are payloads handed to the sink.                            *)
LEMMA OtherRequestsKeep ==
    ASSUME NEW r \in Request, RequestSound(r), tables \subseteq tables', sinkQueue \subseteq sinkQueue',
           requests'[r] = requests[r], answers'[r] = answers[r], counted'[r] = counted[r]
    PROVE  RequestSound(r)'
<1>1. Route(r)' = Route(r) /\ Rows(r)' = Rows(r)
  BY DEF Route, Rows
<1>2. Inserted(r) => Inserted(r)'
  BY <1>1 DEF Inserted, Hidden
<1>3. Accepted(r) => Accepted(r)'
  BY <1>1, <1>2 DEF Accepted, Admitted
<1> QED
  BY <1>1, <1>2, <1>3 DEF RequestSound, Unanswered, Refused, Admitted

(* A step of one request, with rows and payloads only added. *)
LEMMA OneRequestMoves ==
    ASSUME ServerInv, NEW r \in Request, RequestsTyped', QueueStored', RequestSound(r)',
           tables \subseteq tables', sinkQueue \subseteq sinkQueue',
           \A j \in Request \ {r} : /\ requests'[j] = requests[j] /\ answers'[j] = answers[j]
                                   /\ counted'[j] = counted[j]
    PROVE  ServerInv'
  BY OtherRequestsKeep DEF ServerInv

(* One request, its answers and its counts change.                          *)
LEMMA RequestMoves ==
    ASSUME ServerInv, NEW r \in Request, NEW q \in RequestType, q.st # "idle" => q.payload \in Payload,
           requests' = [requests EXCEPT ![r] = q],
           NEW a \in Seq(Nat), answers' = [answers EXCEPT ![r] = a],
           NEW c \in Seq(Reason), counted' = [counted EXCEPT ![r] = c],
           tables \subseteq tables', sinkQueue \subseteq sinkQueue', sinkQueue' \subseteq Payload,
           QueueStored', requests'[r] = q /\ answers'[r] = a /\ counted'[r] = c => RequestSound(r)'
    PROVE  ServerInv'
<1>1. /\ requests \in [Request -> RequestType] /\ answers \in [Request -> Seq(Nat)]
      /\ counted \in [Request -> Seq(Reason)]
      /\ \A j \in Request : requests[j].st # "idle" => requests[j].payload \in Payload
  BY DEF ServerInv, RequestsTyped
<1>2. /\ requests' \in [Request -> RequestType] /\ requests'[r] = q
      /\ \A j \in Request \ {r} : requests'[j] = requests[j]
  BY <1>1, Zenon
<1>3. /\ answers' \in [Request -> Seq(Nat)] /\ answers'[r] = a
      /\ \A j \in Request \ {r} : answers'[j] = answers[j]
  BY <1>1, Zenon
<1>4. /\ counted' \in [Request -> Seq(Reason)] /\ counted'[r] = c
      /\ \A j \in Request \ {r} : counted'[j] = counted[j]
  BY <1>1, Zenon
<1>5. \A j \in Request : requests'[j].st # "idle" => requests'[j].payload \in Payload
  BY <1>1, <1>2
<1>6. RequestsTyped'
  BY <1>2, <1>3, <1>4, <1>5, Zenon DEF RequestsTyped
<1> QED
  BY <1>2, <1>3, <1>4, <1>6, OneRequestMoves

(* The same with its answers and counts as they were.                        *)
LEMMA RequestGoesOn ==
    ASSUME ServerInv, NEW r \in Request, NEW q \in RequestType, q.st # "idle" => q.payload \in Payload,
           requests' = [requests EXCEPT ![r] = q], UNCHANGED <<answers, counted>>,
           tables \subseteq tables', sinkQueue \subseteq sinkQueue', sinkQueue' \subseteq Payload,
           QueueStored',
           requests'[r] = q /\ answers'[r] = answers[r] /\ counted'[r] = counted[r] => RequestSound(r)'
    PROVE  ServerInv'
<1>1. answers \in [Request -> Seq(Nat)] /\ counted \in [Request -> Seq(Reason)]
  BY DEF ServerInv, RequestsTyped
<1>2. answers' = [answers EXCEPT ![r] = answers[r]] /\ counted' = [counted EXCEPT ![r] = counted[r]]
  BY <1>1
<1>3. answers[r] \in Seq(Nat) /\ counted[r] \in Seq(Reason)
  BY <1>1
<1> QED
  BY <1>2, <1>3, RequestMoves

(* A refusal, counted with it or after it.                                   *)
LEMMA RefusalStep ==
    ASSUME ServerInv, NEW r \in Request, requests[r].st \in {"resolving", "reading"},
           NEW status \in Nat \ {200}, NEW reason \in Reason,
           Refuse(r, status, reason) \/ RefuseUnrouted(r, status), UNCHANGED <<tables, sinkQueue>>
    PROVE  ServerInv'
<1>1. /\ requests \in [Request -> RequestType] /\ requests[r] \in RequestType
      /\ answers \in [Request -> Seq(Nat)] /\ counted \in [Request -> Seq(Reason)]
      /\ answers[r] = <<>> /\ counted[r] = <<>> /\ requests[r].payload \in Payload
      /\ sinkQueue \subseteq Payload /\ QueueStored'
  BY DEF ServerInv, RequestsTyped, RequestSound, Unanswered, QueueStored
<1>2. answers' = [answers EXCEPT ![r] = <<status>>] /\ <<status>> \in Seq(Nat)
  BY <1>1 DEF Refuse, RefuseUnrouted
<1> DEFINE a == <<status>>
<1>3. CASE Refuse(r, status, reason)
  <2> DEFINE q == [requests[r] EXCEPT !.st = "done"]
             c == <<reason>>
  <2>1. q \in RequestType /\ q.st = "done" /\ q.payload = requests[r].payload
    BY <1>1 DEF RequestType
  <2>2. requests' = [requests EXCEPT ![r] = q] /\ counted' = [counted EXCEPT ![r] = <<reason>>]
        /\ <<reason>> \in Seq(Reason)
    BY <1>1, <1>3 DEF Refuse
  <2>3. ASSUME requests'[r] = q, answers'[r] = a, counted'[r] = c PROVE RequestSound(r)'
    BY <2>1, <2>3 DEF RequestSound, Refused
  <2>4. a \in Seq(Nat) /\ c \in Seq(Reason) /\ answers' = [answers EXCEPT ![r] = a]
        /\ counted' = [counted EXCEPT ![r] = c]
    BY <1>2, <2>2
  <2> HIDE DEF q, a, c
  <2> QED
    BY ZenonT(60), <1>1, <2>1, <2>2, <2>3, <2>4, RequestMoves
<1>4. CASE RefuseUnrouted(r, status)
  <2> DEFINE q == [requests[r] EXCEPT !.st = "counting"]
             c == <<>>
  <2>1. q \in RequestType /\ q.st = "counting" /\ q.payload = requests[r].payload
    BY <1>1 DEF RequestType
  <2>2. requests' = [requests EXCEPT ![r] = q] /\ counted' = [counted EXCEPT ![r] = <<>>]
    BY <1>1, <1>4 DEF RefuseUnrouted
  <2>3. ASSUME requests'[r] = q, answers'[r] = a, counted'[r] = c PROVE RequestSound(r)'
    BY <2>1, <2>3 DEF RequestSound, Refused
  <2>4. a \in Seq(Nat) /\ c \in Seq(Reason) /\ answers' = [answers EXCEPT ![r] = a]
        /\ counted' = [counted EXCEPT ![r] = c]
    BY <1>2, <2>2
  <2> HIDE DEF q, a, c
  <2> QED
    BY ZenonT(60), <1>1, <2>1, <2>2, <2>3, <2>4, RequestMoves
<1> QED
  BY <1>3, <1>4

(* A request arrives. *)
LEMMA ArriveStep ==
    ASSUME ServerInv, NEW r \in Request, NEW p \in Payload, NEW k \in IngestKey \cup {NoKey}, Arrive(r, p, k)
    PROVE  ServerInv'
<1> DEFINE q == [IdleRequest EXCEPT !.st = "resolving", !.payload = p, !.key = k]
<1>1. q \in RequestType /\ q.st = "resolving" /\ q.payload = p /\ q.kept
  BY DEF IdleRequest, RequestType
<1>2. requests' = [requests EXCEPT ![r] = q] /\ UNCHANGED <<answers, counted, tables, sinkQueue>>
  BY DEF Arrive
<1>3. requests[r].st = "idle" /\ answers[r] = <<>> /\ counted[r] = <<>> /\ QueueStored' /\ sinkQueue \subseteq Payload
  BY <1>2 DEF Arrive, ServerInv, RequestSound, Unanswered, QueueStored, RequestsTyped
<1>4. ASSUME requests'[r] = q, answers'[r] = <<>>, counted'[r] = <<>> PROVE RequestSound(r)'
  BY <1>1, <1>4 DEF RequestSound, Unanswered
<1> HIDE DEF q
<1> QED
  BY <1>1, <1>2, <1>3, <1>4, RequestGoesOn

(* The refusal of an unrouted request is counted after it was answered. *)
LEMMA UnroutedCountedStep == ASSUME ServerInv, NEW r \in Request, UnroutedCounted(r) PROVE ServerInv'
<1> DEFINE q == [requests[r] EXCEPT !.st = "done"]
<1>1. /\ requests[r] \in RequestType /\ requests[r].st = "counting" /\ requests[r].payload \in Payload
      /\ answers \in [Request -> Seq(Nat)] /\ Refused(r) /\ counted[r] = <<>>
      /\ requests \in [Request -> RequestType] /\ counted \in [Request -> Seq(Reason)]
  BY DEF UnroutedCounted, ServerInv, RequestsTyped, RequestSound
<1>2. q \in RequestType /\ q.st = "done" /\ q.payload = requests[r].payload
  BY <1>1 DEF RequestType
<1>3. /\ requests' = [requests EXCEPT ![r] = q] /\ counted' = [counted EXCEPT ![r] = <<"unrouted">>]
      /\ UNCHANGED <<answers, tables, sinkQueue>>
  BY <1>1 DEF UnroutedCounted
<1>6. answers' = [answers EXCEPT ![r] = answers[r]] /\ answers[r] \in Seq(Nat)
  BY <1>1, <1>3
<1>7. <<"unrouted">> \in Seq(Reason)
  <2>1. "unrouted" \in Reason
    BY DEF Reason
  <2> QED
    BY <2>1
<1>4. QueueStored' /\ sinkQueue \subseteq Payload
  BY <1>3 DEF ServerInv, QueueStored, RequestsTyped
<1>5. ASSUME requests'[r] = q, answers'[r] = answers[r], counted'[r] = <<"unrouted">> PROVE RequestSound(r)'
  BY <1>1, <1>2, <1>5 DEF RequestSound, Refused
<1> HIDE DEF q
<1> QED
  BY <1>1, <1>2, <1>3, <1>4, <1>5, <1>6, <1>7, RequestMoves

(* A request is let in, or refused by its key or limit. *)
LEMMA AuthenticateStep == ASSUME ServerInv, NEW r \in Request, Authenticate(r) PROVE ServerInv'
<1> DEFINE k == requests[r].key
           q == [requests[r] EXCEPT !.st = "reading"]
<1>1. /\ requests[r] \in RequestType /\ requests[r].st = "resolving" /\ requests[r].payload \in Payload
      /\ Unanswered(r) /\ requests[r].kept /\ Route(r) # "unknown"
      /\ UNCHANGED <<tables, sinkQueue>> /\ QueueStored' /\ sinkQueue \subseteq Payload
  BY DEF Authenticate, ServerInv, RequestsTyped, RequestSound, QueueStored
<1>2. \/ \E status \in Nat \ {200}, reason \in Reason : Refuse(r, status, reason)
      \/ /\ k # NoKey /\ MayCall(ScopeOf[k], Surface(Route(r)))
         /\ requests' = [requests EXCEPT ![r].st = "reading"] /\ UNCHANGED <<answers, counted>>
  <2>1. 401 \in Nat \ {200} /\ 403 \in Nat \ {200} /\ 429 \in Nat \ {200}
    OBVIOUS
  <2>2. {"missing_key", "unknown_key", "not_allowed", "rate_limited"} \subseteq Reason
    BY DEF Reason
  <2>3. (IF k = NoKey THEN "missing_key" ELSE "unknown_key") \in Reason
    BY <2>2
  <2>4. CASE Refuse(r, 401, IF k = NoKey THEN "missing_key" ELSE "unknown_key")
    BY <2>1, <2>3, <2>4
  <2>5. CASE Refuse(r, 403, "not_allowed")
    BY <2>1, <2>5 DEF Reason
  <2>6. CASE Refuse(r, 429, "rate_limited")
    BY <2>1, <2>6 DEF Reason
  <2> QED
    BY <2>4, <2>5, <2>6 DEF Authenticate
<1>3. CASE \E status \in Nat \ {200}, reason \in Reason : Refuse(r, status, reason)
  BY <1>1, <1>3, RefusalStep
<1>4. CASE /\ k # NoKey /\ MayCall(ScopeOf[k], Surface(Route(r)))
           /\ requests' = [requests EXCEPT ![r].st = "reading"] /\ UNCHANGED <<answers, counted>>
  <2>1. q \in RequestType /\ q.st = "reading" /\ q.payload = requests[r].payload /\ q.key = k /\ q.kept
    BY <1>1 DEF RequestType
  <2>2. requests' = [requests EXCEPT ![r] = q]
    BY <1>4
  <2>3. ASSUME requests'[r] = q, answers'[r] = answers[r], counted'[r] = counted[r] PROVE RequestSound(r)'
    BY <1>1, <1>4, <2>1, <2>3 DEF RequestSound, Unanswered, Admitted, Route
  <2> HIDE DEF q
  <2> QED
    BY <1>1, <1>4, <2>1, <2>2, <2>3, RequestGoesOn
<1> QED
  BY <1>2, <1>3, <1>4

(* A request has no route, or its handler throws. *)
LEMMA UnroutedStep == ASSUME ServerInv, NEW r \in Request, Unrouted(r) \/ HandlerThrows(r) PROVE ServerInv'
<1>1. requests[r].st \in {"resolving", "reading"} /\ UNCHANGED <<tables, sinkQueue>>
  BY DEF Unrouted, HandlerThrows
<1>2. \E status \in Nat \ {200} : RefuseUnrouted(r, status)
  BY DEF Unrouted, HandlerThrows
<1>3. "unrouted" \in Reason
  BY DEF Reason
<1> QED
  BY <1>1, <1>2, <1>3, RefusalStep

(* The body is read and parsed, or refused. *)
LEMMA ReadBodyStep == ASSUME ServerInv, NEW r \in Request, ReadBody(r) PROVE ServerInv'
<1> DEFINE st == IF Route(r) = "logs" THEN "promoting" ELSE "writing"
           q == [requests[r] EXCEPT !.st = st, !.left = Rows(r)]
<1>1. /\ requests[r] \in RequestType /\ requests[r].st = "reading" /\ requests[r].payload \in Payload
      /\ Unanswered(r) /\ requests[r].kept /\ Admitted(r)
      /\ UNCHANGED <<tables, sinkQueue>> /\ QueueStored' /\ sinkQueue \subseteq Payload
  BY DEF ReadBody, ServerInv, RequestsTyped, RequestSound, QueueStored
<1>2. \/ \E status \in Nat \ {200}, reason \in Reason : Refuse(r, status, reason) \/ RefuseUnrouted(r, status)
      \/ requests' = [requests EXCEPT ![r].st = st, ![r].left = Rows(r)] /\ UNCHANGED <<answers, counted>>
  <2>1. "invalid_payload" \in Reason /\ "unsupported_media_type" \in Reason
    BY DEF Reason
  <2>2. 400 \in Nat \ {200} /\ 415 \in Nat \ {200} /\ 413 \in Nat \ {200}
    OBVIOUS
  <2>3. CASE \E refusal \in {<<400, "invalid_payload">>, <<415, "unsupported_media_type">>} :
               Refuse(r, refusal[1], refusal[2])
    BY <2>1, <2>2, <2>3
  <2>4. CASE RefuseUnrouted(r, 413)
    BY <2>1, <2>2, <2>4
  <2> QED
    BY <2>3, <2>4 DEF ReadBody
<1>3. CASE \E status \in Nat \ {200}, reason \in Reason : Refuse(r, status, reason) \/ RefuseUnrouted(r, status)
  BY <1>1, <1>3, RefusalStep
<1>4. CASE requests' = [requests EXCEPT ![r].st = st, ![r].left = Rows(r)] /\ UNCHANGED <<answers, counted>>
  <2>1. /\ q \in RequestType /\ q.st = st /\ q.payload = requests[r].payload
        /\ q.key = requests[r].key /\ q.kept /\ q.left = Rows(r)
    BY <1>1, RowsAreTables DEF RequestType
  <2>2. requests' = [requests EXCEPT ![r] = q]
    BY <1>4
  <2>3. ASSUME requests'[r] = q, answers'[r] = answers[r], counted'[r] = counted[r] PROVE RequestSound(r)'
    <3>1. Unanswered(r)' /\ Admitted(r)' /\ requests'[r].left = Rows(r)' /\ requests'[r].kept
      BY <1>1, <2>1, <2>3 DEF Unanswered, Admitted, Route, Rows
    <3>2. Inserted(r)'
      BY <3>1 DEF Inserted
    <3> QED
      BY <2>1, <2>3, <3>1, <3>2 DEF RequestSound
  <2> HIDE DEF q, st
  <2> QED
    BY <1>1, <1>4, <2>1, <2>2, <2>3, RequestGoesOn
<1> QED
  BY <1>2, <1>3, <1>4

(* The occurrences of a batch are dropped when the trace was seen. *)
LEMMA PromoteStep == ASSUME ServerInv, NEW r \in Request, Promote(r) PROVE ServerInv'
<1>1. PICK found \in BOOLEAN :
         /\ found => TraceSeen(requests[r].payload)
         /\ requests' = [requests EXCEPT ![r].st = "writing", ![r].kept = ~found,
                            ![r].left = IF found THEN @ \ {"occurrences"} ELSE @]
  BY DEF Promote
<1> DEFINE left == IF found THEN requests[r].left \ {"occurrences"} ELSE requests[r].left
           q == [requests[r] EXCEPT !.st = "writing", !.kept = ~found, !.left = left]
<1>2. /\ requests[r] \in RequestType /\ requests[r].st = "promoting" /\ requests[r].payload \in Payload
      /\ Unanswered(r) /\ Admitted(r) /\ requests[r].left = Rows(r)
      /\ UNCHANGED <<tables, sinkQueue, answers, counted>> /\ QueueStored' /\ sinkQueue \subseteq Payload
  BY DEF Promote, ServerInv, RequestsTyped, RequestSound, QueueStored
<1>3. /\ q \in RequestType /\ q.st = "writing" /\ q.payload = requests[r].payload
      /\ q.key = requests[r].key /\ q.kept = ~found /\ q.left = left
  BY <1>2 DEF RequestType
<1>4. requests' = [requests EXCEPT ![r] = q]
  BY <1>1
<1>5. ASSUME requests'[r] = q, answers'[r] = answers[r], counted'[r] = counted[r] PROVE RequestSound(r)'
  <2>1. Unanswered(r)' /\ Admitted(r)'
    BY <1>2, <1>3, <1>5 DEF Unanswered, Admitted, Route
  <2>2. Rows(r)' = Rows(r) /\ requests'[r].payload = requests[r].payload
    BY <1>3, <1>5 DEF Rows, Route
  <2>3. found => Hidden(requests[r].payload)'
    BY <1>1, <1>2, <2>2 DEF TraceSeen, OwnIds, Hidden, Occurrence
  <2>4. Inserted(r)'
    <3>1. requests'[r].left = left /\ requests'[r].kept = ~found
      BY <1>3, <1>5
    <3>2. CASE found
      BY <1>2, <2>2, <2>3, <3>1, <3>2 DEF Inserted
    <3>3. CASE ~found
      BY <1>2, <2>2, <3>1, <3>3 DEF Inserted
    <3> QED
      BY <3>2, <3>3
  <2> QED
    BY <1>3, <1>5, <2>1, <2>4 DEF RequestSound
<1> HIDE DEF q
<1> QED
  BY <1>2, <1>3, <1>4, <1>5, RequestGoesOn

(* An insert ends, well or not, while others of the request are under way.   *)
LEMMA InsertDoneStep ==
    ASSUME ServerInv, NEW r \in Request, NEW t \in requests[r].left, InsertDone(r, t)
    PROVE  ServerInv'
<1> DEFINE q == [requests[r] EXCEPT !.left = @ \ {t}]
<1>1. /\ requests[r] \in RequestType /\ requests[r].st \in {"writing", "failed"}
      /\ requests[r].payload \in Payload /\ RequestSound(r) /\ sinkQueue \subseteq Payload
      /\ UNCHANGED <<sinkQueue, answers, counted>> /\ tables' = tables \cup {<<t, requests[r].payload>>}
  BY DEF InsertDone, ServerInv, RequestsTyped
<1>2. /\ q \in RequestType /\ q.st = requests[r].st /\ q.payload = requests[r].payload
      /\ q.key = requests[r].key /\ q.kept = requests[r].kept /\ q.left = requests[r].left \ {t}
  BY <1>1 DEF RequestType
<1>3. requests' = [requests EXCEPT ![r] = q]
  BY DEF InsertDone
<1>4. QueueStored'
  BY <1>1 DEF ServerInv, QueueStored
<1>5. ASSUME requests'[r] = q, answers'[r] = answers[r], counted'[r] = counted[r] PROVE RequestSound(r)'
  <2>1. Rows(r)' = Rows(r) /\ Route(r)' = Route(r)
    BY <1>2, <1>5 DEF Rows, Route
  <2>2. CASE requests[r].st = "failed"
    BY <1>1, <1>2, <1>5, <2>2 DEF RequestSound, Refused
  <2>3. CASE requests[r].st = "writing"
    <3>1. Unanswered(r) /\ Admitted(r) /\ Inserted(r)
      BY <1>1, <2>3 DEF RequestSound
    <3>2. Unanswered(r)' /\ Admitted(r)'
      BY <1>2, <1>5, <2>1, <3>1 DEF Unanswered, Admitted
    <3>3. Inserted(r)'
      BY <1>1, <1>2, <1>5, <2>1, <3>1 DEF Inserted, Hidden
    <3> QED
      BY <1>2, <1>5, <2>3, <3>2, <3>3 DEF RequestSound
  <2> QED
    BY <1>1, <2>2, <2>3
<1> HIDE DEF q
<1> QED
  BY <1>1, <1>2, <1>3, <1>4, <1>5, RequestGoesOn

(* An insert fails: the request is answered 503. *)
LEMMA InsertFailsStep ==
    ASSUME ServerInv, NEW r \in Request, NEW t \in requests[r].left, InsertFails(r, t)
    PROVE  ServerInv'
<1> DEFINE left == IF Route(r) = "metrics" THEN {} ELSE requests[r].left \ {t}
           q == [requests[r] EXCEPT !.st = "failed", !.left = left]
           a == <<503>>
           c == <<"storage_unavailable">>
<1>1. /\ requests[r] \in RequestType /\ requests[r].payload \in Payload /\ requests[r].st = "writing"
      /\ answers \in [Request -> Seq(Nat)] /\ counted \in [Request -> Seq(Reason)]
      /\ answers[r] = <<>> /\ counted[r] = <<>>
      /\ UNCHANGED <<tables, sinkQueue>> /\ QueueStored' /\ sinkQueue \subseteq Payload
  BY DEF InsertFails, Undecided, ServerInv, RequestsTyped, RequestSound, Unanswered, QueueStored
<1>2. q \in RequestType /\ q.st = "failed" /\ q.payload = requests[r].payload
  BY <1>1 DEF RequestType
<1>3. requests' = [requests EXCEPT ![r] = q]
  BY DEF InsertFails
<1>4. answers' = [answers EXCEPT ![r] = a] /\ a \in Seq(Nat) /\ Len(a) = 1 /\ a # <<200>>
  BY <1>1 DEF InsertFails
<1>5. counted' = [counted EXCEPT ![r] = c] /\ c \in Seq(Reason) /\ Len(c) = 1
  BY <1>1 DEF InsertFails, Reason
<1>6. ASSUME requests'[r] = q, answers'[r] = a, counted'[r] = c PROVE RequestSound(r)'
  BY <1>2, <1>4, <1>5, <1>6 DEF RequestSound, Refused
<1> HIDE DEF q, a, c
<1> QED
  BY <1>1, <1>2, <1>3, <1>4, <1>5, <1>6, RequestMoves

(* A later insert of a request already answered fails. *)
LEMMA InsertLostStep ==
    ASSUME ServerInv, NEW r \in Request, NEW t \in requests[r].left, InsertLost(r, t)
    PROVE  ServerInv'
<1> DEFINE q == [requests[r] EXCEPT !.left = @ \ {t}]
<1>1. /\ requests[r] \in RequestType /\ requests[r].st = "failed" /\ requests[r].payload \in Payload
      /\ Refused(r) /\ Len(counted[r]) = 1 /\ UNCHANGED <<tables, sinkQueue, answers, counted>>
      /\ QueueStored' /\ sinkQueue \subseteq Payload
  BY DEF InsertLost, ServerInv, RequestsTyped, RequestSound, QueueStored
<1>2. q \in RequestType /\ q.st = "failed" /\ q.payload = requests[r].payload
  BY <1>1 DEF RequestType
<1>3. requests' = [requests EXCEPT ![r] = q]
  BY DEF InsertLost
<1>4. ASSUME requests'[r] = q, answers'[r] = answers[r], counted'[r] = counted[r] PROVE RequestSound(r)'
  BY <1>1, <1>2, <1>4 DEF RequestSound, Refused
<1> HIDE DEF q
<1> QED
  BY <1>1, <1>2, <1>3, <1>4, RequestGoesOn

(* All inserts are done: the request is answered 200 and goes to the sink. *)
LEMMA AcceptStep == ASSUME ServerInv, NEW r \in Request, Accept(r) PROVE ServerInv'
<1> DEFINE q == [requests[r] EXCEPT !.st = "done"]
           a == <<200>>
           c == <<>>
<1>1. /\ requests[r] \in RequestType /\ requests[r].st = "writing" /\ requests[r].payload \in Payload
      /\ requests[r].left = {} /\ answers \in [Request -> Seq(Nat)] /\ counted \in [Request -> Seq(Reason)]
      /\ answers[r] = <<>> /\ counted[r] = <<>> /\ Admitted(r) /\ Inserted(r)
      /\ sinkQueue \subseteq Payload /\ UNCHANGED tables
      /\ sinkQueue' = IF Sinks(Route(r)) /\ requests[r].kept THEN sinkQueue \cup {requests[r].payload} ELSE sinkQueue
  BY DEF Accept, AllStored, ServerInv, RequestsTyped, RequestSound, Unanswered
<1>2. /\ q \in RequestType /\ q.st = "done" /\ q.payload = requests[r].payload
      /\ q.key = requests[r].key /\ q.kept = requests[r].kept /\ q.left = {}
  BY <1>1 DEF RequestType
<1>3. requests' = [requests EXCEPT ![r] = q] /\ counted' = [counted EXCEPT ![r] = c]
  BY <1>1 DEF Accept
<1>4. answers' = [answers EXCEPT ![r] = a] /\ a \in Seq(Nat) /\ c \in Seq(Reason)
  BY <1>1 DEF Accept
<1>5. QueueStored'
  <2>1. requests[r].kept => \A i \in DOMAIN TablesOf(Route(r)) : <<TablesOf(Route(r))[i], requests[r].payload>> \in tables
    BY <1>1 DEF Inserted, Rows
  <2> QED
    BY <1>1, <2>1 DEF QueueStored, ServerInv, Route
<1>6. ASSUME requests'[r] = q, answers'[r] = a, counted'[r] = c PROVE RequestSound(r)'
  <2>1. Rows(r)' = Rows(r) /\ Route(r)' = Route(r)
    BY <1>2, <1>6 DEF Rows, Route
  <2>2. Admitted(r)' /\ Inserted(r)'
    BY <1>1, <1>2, <1>6, <2>1 DEF Admitted, Inserted, Hidden
  <2>3. Sinks(Route(r)) /\ requests[r].kept => requests[r].payload \in sinkQueue'
    BY <1>1
  <2>4. Accepted(r)'
    BY <1>2, <1>6, <2>1, <2>2, <2>3 DEF Accepted
  <2> QED
    BY <1>2, <1>6, <2>4 DEF RequestSound
<1> HIDE DEF q, a, c
<1> QED
  BY <1>1, <1>2, <1>3, <1>4, <1>5, <1>6, RequestMoves

(* Every step keeps the request invariant. *)
LEMMA ServerStep == ServerInv /\ [ServerNext]_serverVars => ServerInv'
<1> SUFFICES ASSUME ServerInv, [ServerNext]_serverVars PROVE ServerInv'
  OBVIOUS
<1>1. ASSUME NEW r \in Request, NEW p \in Payload, NEW k \in IngestKey \cup {NoKey}, Arrive(r, p, k) PROVE ServerInv'
  BY <1>1, ArriveStep
<1>2. ASSUME NEW r \in Request, Unrouted(r) \/ HandlerThrows(r) PROVE ServerInv'
  BY <1>2, UnroutedStep
<1>3. ASSUME NEW r \in Request, UnroutedCounted(r) PROVE ServerInv'
  BY <1>3, UnroutedCountedStep
<1>4. ASSUME NEW r \in Request, Authenticate(r) PROVE ServerInv'
  BY <1>4, AuthenticateStep
<1>5. ASSUME NEW r \in Request, ReadBody(r) PROVE ServerInv'
  BY <1>5, ReadBodyStep
<1>6. ASSUME NEW r \in Request, Promote(r) PROVE ServerInv'
  BY <1>6, PromoteStep
<1>7. ASSUME NEW r \in Request, Accept(r) PROVE ServerInv'
  BY <1>7, AcceptStep
<1>8. ASSUME NEW r \in Request, NEW t \in requests[r].left, InsertDone(r, t) \/ InsertFails(r, t) \/ InsertLost(r, t)
      PROVE  ServerInv'
  BY <1>8, InsertDoneStep, InsertFailsStep, InsertLostStep
<1>9. CASE NextMinute \/ UNCHANGED serverVars
  <2>1. UNCHANGED <<requests, tables, sinkQueue, answers, counted>>
    BY <1>9 DEF NextMinute, serverVars
  <2> QED
    BY <2>1, OtherRequestsKeep DEF ServerInv, RequestsTyped, QueueStored
<1> QED
  BY <1>1, <1>2, <1>3, <1>4, <1>5, <1>6, <1>7, <1>8, <1>9 DEF ServerNext

(* Requests, their answers, rows and counts (server.ts) stay sound in every *)
(* reachable state.                                                         *)
THEOREM ServerInvariant == ServerSpec => []ServerInv
  BY ServerStart, ServerStep, PTL DEF ServerSpec

(* A request answered 200 is done and was accepted. *)
LEMMA AnsweredIsAccepted ==
    ASSUME ServerInv, NEW r \in Request, answers[r] = << 200 >>
    PROVE  Accepted(r)
<1>1. requests[r].st \in {"idle", "resolving", "counting", "reading", "promoting", "writing", "failed", "done"}
      /\ RequestSound(r)
  BY DEF ServerInv, RequestsTyped, RequestType
<1>2. ~Unanswered(r) /\ ~Refused(r)
  <2>1. << 200 >> # <<>>
    OBVIOUS
  <2> QED
    BY <2>1 DEF Unanswered, Refused
<1> QED
  BY <1>1, <1>2 DEF RequestSound

(* The request invariant implies what the runs check of requests. *)
LEMMA RequestsAreAccounted ==
    ServerInv => RefusalsCounted /\ SinkSeesStoredOnly /\ AcceptedReachesSink /\ StoredByScope
<1> SUFFICES ASSUME ServerInv PROVE RefusalsCounted /\ SinkSeesStoredOnly /\ AcceptedReachesSink /\ StoredByScope
  OBVIOUS
<1>1. RefusalsCounted
  <2> SUFFICES ASSUME NEW r \in Request, requests[r].st \in {"done", "failed"}
               PROVE  Len(answers[r]) = 1 /\ (counted[r] # <<>> <=> answers[r] # << 200 >>)
    BY DEF RefusalsCounted
  <2>1. RequestSound(r)
    BY DEF ServerInv
  <2>2. Accepted(r) \/ (Refused(r) /\ Len(counted[r]) = 1)
    BY <2>1 DEF RequestSound
  <2>3. Len(<< 200 >>) = 1 /\ Len(<<>>) = 0
    OBVIOUS
  <2>4. CASE Accepted(r)
    BY <2>3, <2>4 DEF Accepted
  <2>5. CASE Refused(r) /\ Len(counted[r]) = 1
    BY <2>3, <2>5 DEF Refused
  <2> QED
    BY <2>2, <2>4, <2>5
<1>2. SinkSeesStoredOnly
  <2>1. ASSUME NEW r \in Request, answers[r] = << 200 >>, NEW t \in Rows(r)
        PROVE  <<t, requests[r].payload>> \in tables \/ (t = "occurrences" /\ ~requests[r].kept)
    BY <2>1, AnsweredIsAccepted DEF Accepted, Inserted
  <2> QED
    BY <2>1 DEF ServerInv, QueueStored, SinkSeesStoredOnly
<1>3. AcceptedReachesSink
  BY AnsweredIsAccepted DEF Accepted, Inserted, Hidden, AcceptedReachesSink
<1>4. StoredByScope
  <2> SUFFICES ASSUME NEW r \in Request, answers[r] = << 200 >>
               PROVE  /\ requests[r].key # NoKey
                      /\ \/ ScopeOf[requests[r].key] = "server"
                         \/ ScopeOf[requests[r].key] = "client" /\ Route(r) = "browser"
                         \/ ScopeOf[requests[r].key] = "upload" /\ Route(r) = "sourcemaps"
    BY DEF StoredByScope
  <2>1. requests[r].key # NoKey /\ MayCall(ScopeOf[requests[r].key], Surface(Route(r)))
    BY AnsweredIsAccepted DEF Accepted, Admitted
  <2> QED
    BY <2>1, SurfaceOfRoute DEF MayCall
<1> QED
  BY <1>1, <1>2, <1>3, <1>4

-----------------------------------------------------------------------------
(* The rate limiter.  What a key passed in this minute is what its window    *)
(* counts, plus one limit for each time the windows were cleared.            *)

WindowsTyped ==
    /\ minute \in Nat /\ cleared \in Nat /\ allowed \in [IngestKey -> Nat]
    /\ DOMAIN windows \subseteq IngestKey /\ IsFiniteSet(DOMAIN windows)
    /\ Cardinality(DOMAIN windows) <= MaxLimited
    /\ windows \in [DOMAIN windows -> [start : Nat, count : Nat]]
    /\ \A k \in DOMAIN windows : windows[k].start <= minute

Spent(k) == IF k \in DOMAIN windows /\ windows[k].start = minute THEN windows[k].count ELSE 0
PassedIsSpent ==
    \A k \in IngestKey :
        allowed[k] <= MinuteLimit * cleared + (IF Spent(k) <= MinuteLimit THEN Spent(k) ELSE MinuteLimit)

LimiterInv == WindowsTyped /\ PassedIsSpent

(* The limiter invariant holds at the start. *)
LEMMA LimiterStart == ServerInit => LimiterInv
<1> SUFFICES ASSUME ServerInit PROVE LimiterInv
  OBVIOUS
<1>1. DOMAIN windows = {} /\ IsFiniteSet(DOMAIN windows) /\ Cardinality(DOMAIN windows) = 0
  BY FS_EmptySet DEF ServerInit
<1>2. WindowsTyped
  BY <1>1, ServerAssumption DEF ServerInit, WindowsTyped
<1>3. PassedIsSpent
  BY <1>1, ServerAssumption DEF ServerInit, PassedIsSpent, Spent
<1> QED
  BY <1>2, <1>3 DEF LimiterInv

(* The window of a key after one more request of it.                         *)
LEMMA WindowsOfKey ==
    ASSUME WindowsTyped, NEW k \in IngestKey
    PROVE  LET after == Windows(k) IN
           /\ DOMAIN after = DOMAIN windows \cup {k}
           /\ after \in [DOMAIN after -> [start : Nat, count : Nat]]
           /\ after[k].start = minute /\ after[k].count = Spent(k) + 1
           /\ \A j \in DOMAIN windows \ {k} : after[j] = windows[j]
<1> DEFINE entry_ == IF k \in DOMAIN windows THEN WindowAt(k) ELSE [start |-> minute, count |-> 1]
<1>1. entry_ \in [start : Nat, count : Nat] /\ entry_.start = minute /\ entry_.count = Spent(k) + 1
  BY DEF WindowsTyped, WindowAt, Spent
<1>2. Windows(k) = [other \in DOMAIN windows \cup {k} |-> IF other = k THEN entry_ ELSE windows[other]]
  BY DEF Windows
<1> HIDE DEF entry_
<1> QED
  BY <1>1, <1>2 DEF WindowsTyped

(* allow() counts one request of a key, or clears the windows first. *)
LEMMA LimitedStep ==
    ASSUME LimiterInv, NEW k \in IngestKey, Limited(k), UNCHANGED minute,
           \/ allowed' = allowed
           \/ LimitPasses(k) /\ allowed' = [allowed EXCEPT ![k] = @ + 1]
    PROVE  LimiterInv'
<1> USE ServerAssumption
<1> DEFINE after == Windows(k)
           full == Cardinality(DOMAIN after) > MaxLimited /\ k \notin DOMAIN windows
           budget == MinuteLimit * cleared
           Capped(n) == IF n <= MinuteLimit THEN n ELSE MinuteLimit
<1>1. /\ minute \in Nat /\ cleared \in Nat /\ allowed \in [IngestKey -> Nat]
      /\ DOMAIN windows \subseteq IngestKey /\ IsFiniteSet(DOMAIN windows)
      /\ Cardinality(DOMAIN windows) <= MaxLimited
      /\ windows \in [DOMAIN windows -> [start : Nat, count : Nat]]
      /\ \A j \in DOMAIN windows : windows[j].start <= minute
  BY DEF LimiterInv, WindowsTyped
<1>2. /\ DOMAIN after = DOMAIN windows \cup {k}
      /\ after \in [DOMAIN after -> [start : Nat, count : Nat]]
      /\ after[k].start = minute /\ after[k].count = Spent(k) + 1
      /\ \A j \in DOMAIN windows \ {k} : after[j] = windows[j]
  BY WindowsOfKey DEF LimiterInv
<1>3. /\ windows' = IF full THEN [other \in {} |-> after[other]] ELSE after
      /\ cleared' = IF full THEN cleared + 1 ELSE cleared
  BY DEF Limited
<1>4. \A j \in IngestKey : Spent(j) \in Nat /\ allowed[j] <= budget + Capped(Spent(j))
  BY <1>1 DEF Spent, LimiterInv, PassedIsSpent
<1>5. budget \in Nat /\ MinuteLimit * (cleared + 1) = budget + MinuteLimit /\ MinuteLimit \in Nat \ {0}
  BY <1>1
<1>6. /\ allowed' \in [IngestKey -> Nat]
      /\ \A j \in IngestKey \ {k} : allowed'[j] = allowed[j]
      /\ allowed'[k] = allowed[k] \/ (allowed'[k] = allowed[k] + 1 /\ (Spent(k) = 0 \/ Spent(k) + 1 <= MinuteLimit))
  BY <1>1, <1>2, <1>4 DEF LimitPasses
<1> HIDE DEF after, budget
(* The Map is cleared: what was spent is covered by one more limit.          *)
<1>7. CASE full
  <2>1. DOMAIN windows' = {} /\ cleared' = cleared + 1
    BY <1>3, <1>7
  <2>2. WindowsTyped'
    <3>1. Cardinality({}) = 0 /\ IsFiniteSet({})
      BY FS_EmptySet
    <3> QED
      BY <1>1, <1>3, <1>6, <1>7, <2>1, <3>1 DEF WindowsTyped
  <2>3. k \notin DOMAIN windows /\ Spent(k) = 0
    BY <1>7 DEF Spent
  <2>4. \A j \in IngestKey : allowed'[j] <= budget + MinuteLimit
    BY <1>1, <1>4, <1>5, <1>6, <2>3
  <2>5. \A j \in IngestKey : Spent(j)' = 0
    BY <2>1 DEF Spent
  <2> QED
    BY <1>5, <2>1, <2>2, <2>4, <2>5 DEF LimiterInv, PassedIsSpent
<1>8. CASE ~full
  <2>1. windows' = after /\ cleared' = cleared
    BY <1>3, <1>8
  <2>2. IsFiniteSet(DOMAIN after) /\ Cardinality(DOMAIN after) <= MaxLimited
    <3>1. CASE k \in DOMAIN windows
      <4>1. DOMAIN after = DOMAIN windows
        BY <1>2, <3>1
      <4> QED
        BY <1>1, <4>1
    <3>2. CASE k \notin DOMAIN windows
      BY <1>1, <1>2, <1>8, <3>2, FS_AddElement, FS_CardinalityType
    <3> QED
      BY <3>1, <3>2
  <2>3. WindowsTyped'
    BY <1>1, <1>2, <1>6, <2>1, <2>2 DEF WindowsTyped
  <2>4. \A j \in IngestKey : Spent(j)' = IF j = k THEN Spent(k) + 1 ELSE Spent(j)
    BY <1>2, <2>1 DEF Spent
  <2>5. \A j \in IngestKey : allowed'[j] <= budget + Capped(Spent(j)')
    BY <1>1, <1>4, <1>5, <1>6, <2>4
  <2> QED
    BY <2>1, <2>3, <2>5 DEF LimiterInv, PassedIsSpent, budget
<1> QED
  BY <1>7, <1>8

(* A minute passes. *)
LEMMA NextMinuteStep == ASSUME LimiterInv, NextMinute PROVE LimiterInv'
<1> USE ServerAssumption
<1>1. /\ minute \in Nat /\ minute' = minute + 1 /\ cleared' = 0 /\ windows' = windows
      /\ allowed' = [k \in IngestKey |-> 0]
  BY DEF NextMinute, LimiterInv, WindowsTyped
<1>2. WindowsTyped'
  BY <1>1 DEF LimiterInv, WindowsTyped
<1>3. \A k \in IngestKey : allowed'[k] = 0 /\ Spent(k)' = 0
  BY <1>1 DEF Spent, LimiterInv, WindowsTyped
<1> QED
  BY <1>1, <1>2, <1>3 DEF LimiterInv, PassedIsSpent

(* Every step keeps the limiter invariant. *)
LEMMA LimiterStep == ServerInv /\ LimiterInv /\ [ServerNext]_serverVars => LimiterInv'
<1> SUFFICES ASSUME ServerInv, LimiterInv, [ServerNext]_serverVars PROVE LimiterInv'
  OBVIOUS
<1>1. ASSUME UNCHANGED <<minute, windows, allowed, cleared>> PROVE LimiterInv'
  BY <1>1 DEF LimiterInv, WindowsTyped, PassedIsSpent, Spent
<1>2. ASSUME NEW r \in Request, Authenticate(r) PROVE LimiterInv'
  <2>1. CASE UNCHANGED <<windows, allowed, cleared>>
    BY <1>1, <1>2, <2>1 DEF Authenticate
  <2>2. CASE ~UNCHANGED <<windows, allowed, cleared>>
    <3> DEFINE k == requests[r].key
    <3>1. /\ k # NoKey /\ Limited(k) /\ UNCHANGED minute
          /\ \/ allowed' = allowed
             \/ LimitPasses(k) /\ allowed' = [allowed EXCEPT ![k] = @ + 1]
      BY <1>2, <2>2 DEF Authenticate
    <3>2. k \in IngestKey
      BY <3>1 DEF ServerInv, RequestsTyped, RequestType
    <3> HIDE DEF k
    <3> QED
      BY <3>1, <3>2, LimitedStep
  <2> QED
    BY <2>1, <2>2
<1>3. CASE NextMinute
  BY <1>3, NextMinuteStep
<1> QED
  BY ZenonT(60), <1>1, <1>2, <1>3 DEF ServerNext, Arrive, Unrouted, UnroutedCounted, ReadBody, HandlerThrows, Promote, Accept,
     InsertDone, InsertFails, InsertLost, serverVars

(* What the windows of the limiter count is what they let through, in every *)
(* reachable state.                                                         *)
THEOREM LimiterInvariant == ServerSpec => [](ServerInv /\ LimiterInv)
<1>1. ServerInit => ServerInv /\ LimiterInv
  BY ServerStart, LimiterStart
<1>2. ServerInv /\ LimiterInv /\ [ServerNext]_serverVars => (ServerInv /\ LimiterInv)'
  BY ServerStep, LimiterStep
<1> QED
  BY <1>1, <1>2, PTL DEF ServerSpec

(* The limiter invariant implies the bound per minute. *)
LEMMA LimitHolds == LimiterInv => MinuteLimitHolds
<1> SUFFICES ASSUME LimiterInv, NEW k \in IngestKey PROVE allowed[k] <= MinuteLimit * (cleared + 1)
  BY DEF MinuteLimitHolds
<1>1. MinuteLimit \in Nat /\ cleared \in Nat /\ allowed[k] \in Nat /\ Spent(k) \in Int
  BY ServerAssumption DEF LimiterInv, WindowsTyped, Spent
<1>2. MinuteLimit * (cleared + 1) = MinuteLimit * cleared + MinuteLimit /\ MinuteLimit * cleared \in Nat
  BY <1>1
<1> QED
  BY <1>1, <1>2 DEF LimiterInv, PassedIsSpent


-----------------------------------------------------------------------------
(* Sightings of SDKs (SdkSightings).                                         *)

SightingSpec == SightingInit /\ [][SightingNext]_sightingVars

(* A sender taken for recorded is in the table or in a write under way.      *)
Attested(k) ==
    \/ table[k] >= lastWritten[k]
    \/ \E w \in writes : k \in w.keys /\ w.seenAt >= lastWritten[k]

SightingInv ==
    /\ lastWritten \in [SightingKey -> Int] /\ table \in [SightingKey -> Int]
    /\ \A w \in writes : w.seenAt \in Nat
    /\ sightClock \in Nat /\ sightClock >= InfoInterval
    /\ lastInfoReport \in Nat /\ infoTable \in Int /\ infoWrites \subseteq Nat
    /\ \A k \in Remembered : Attested(k)
    (* The report the interval runs from is stored, under way, or was due.   *)
    /\ \/ lastInfoReport <= infoTable \/ lastInfoReport \in infoWrites
       \/ sightClock + InfoRetry - lastInfoReport >= InfoInterval

(* The sightings invariant holds at the start. *)
LEMMA SightingStart == SightingInit => SightingInv
  BY SightingAssumption DEF SightingInit, SightingInv, Remembered, Attested, Never

(* observe() remembers what it hands to a write. *)
LEMMA ObserveStep ==
    ASSUME SightingInv, NEW resources, Observe(resources), UNCHANGED table
    PROVE  /\ lastWritten' \in [SightingKey -> Int] /\ \A w \in writes' : w.seenAt \in Nat
           /\ \A k \in Remembered' : Attested(k)'
<1> DEFINE keys == {k \in Sightings(resources) : Due(k)}
           old == IF Cardinality(Remembered) + Cardinality(keys) > MaxKeys
                  THEN [k \in SightingKey |-> Never] ELSE lastWritten
           w == [keys |-> keys, seenAt |-> sightClock]
<1>1. /\ lastWritten' = [k \in SightingKey |-> IF k \in keys THEN sightClock ELSE old[k]]
      /\ writes' = writes \cup {w}
  BY DEF Observe
<1>2. \A k \in SightingKey : old[k] \in {Never, lastWritten[k]}
  BY DEF SightingInv
<1>3. w.keys = keys /\ w.seenAt = sightClock
  OBVIOUS
<1> HIDE DEF keys, old, w
<1>4. lastWritten' \in [SightingKey -> Int] /\ \A x \in writes' : x.seenAt \in Nat
  BY <1>1, <1>2, <1>3 DEF SightingInv, Never
<1>5. ASSUME NEW k \in Remembered' PROVE Attested(k)'
  <2>1. k \in SightingKey /\ lastWritten'[k] # Never
    BY DEF Remembered
  <2>2. CASE k \in keys
    <3>1. lastWritten'[k] = sightClock /\ w \in writes' /\ k \in w.keys /\ w.seenAt >= lastWritten'[k]
      BY <1>1, <1>3, <2>1, <2>2 DEF SightingInv
    <3> QED
      BY <3>1 DEF Attested
  <2>3. CASE k \notin keys
    <3>1. lastWritten'[k] = lastWritten[k] /\ k \in Remembered
      BY <1>1, <1>2, <2>1, <2>3 DEF Remembered
    <3> QED
      BY <1>1, <3>1 DEF SightingInv, Attested
  <2> QED
    BY <2>2, <2>3
<1> QED
  BY <1>4, <1>5

(* Every step keeps the sightings invariant. *)
LEMMA SightingStep == SightingInv /\ [SightingNext]_sightingVars => SightingInv'
<1> SUFFICES ASSUME SightingInv, [SightingNext]_sightingVars PROVE SightingInv'
  OBVIOUS
<1> USE SightingAssumption
<1>1. CASE SightTick
  BY <1>1 DEF SightTick, SightingInv, Remembered, Attested
<1>2. ASSUME NEW resources \in SUBSET Resource, RecordsSdks(resources) PROVE SightingInv'
  <2>1. UNCHANGED <<sightClock, table, infoTable>> /\ ReportsInfo
    BY <1>2 DEF RecordsSdks
  <2>2. /\ lastWritten' \in [SightingKey -> Int] /\ \A w \in writes' : w.seenAt \in Nat
        /\ \A k \in Remembered' : Attested(k)'
    <3>1. CASE Observe(resources)
      BY <2>1, <3>1, ObserveStep
    <3>2. CASE UNCHANGED <<lastWritten, writes>>
      BY <2>1, <3>2 DEF SightingInv, Remembered, Attested
    <3> QED
      BY <1>2, <3>1, <3>2 DEF RecordsSdks
  <2>3. /\ lastInfoReport' \in Nat /\ infoWrites' \subseteq Nat
        /\ \/ lastInfoReport' <= infoTable \/ lastInfoReport' \in infoWrites'
           \/ sightClock + InfoRetry - lastInfoReport' >= InfoInterval
    <3>1. CASE UNCHANGED <<lastInfoReport, infoWrites>>
      BY <2>1, <3>1 DEF SightingInv
    <3>2. CASE lastInfoReport' = sightClock /\ infoWrites' = infoWrites \cup {sightClock}
      BY <3>2 DEF SightingInv
    <3> QED
      BY <2>1, <3>1, <3>2 DEF ReportsInfo
  <2> QED
    BY <2>1, <2>2, <2>3 DEF SightingInv
<1>3. ASSUME NEW w \in writes, WriteStored(w) PROVE SightingInv'
  <2>1. /\ UNCHANGED <<sightClock, lastWritten, lastInfoReport, infoWrites, infoTable>> /\ writes' = writes \ {w}
        /\ table' \in [SightingKey -> Int] /\ Remembered' = Remembered
        /\ \A k \in SightingKey : table'[k] >= table[k] /\ (k \in w.keys => table'[k] >= w.seenAt)
    BY <1>3 DEF WriteStored, SightingInv, Remembered
  <2>2. ASSUME NEW k \in Remembered PROVE Attested(k)'
    BY <2>1 DEF SightingInv, Attested, Remembered
  <2> QED
    BY <2>1, <2>2 DEF SightingInv
<1>4. ASSUME NEW w \in writes, WriteFails(w) PROVE SightingInv'
  <2>1. /\ UNCHANGED <<sightClock, table, lastInfoReport, infoWrites, infoTable>> /\ writes' = writes \ {w}
        /\ lastWritten' = [k \in SightingKey |-> IF k \in w.keys THEN Never ELSE lastWritten[k]]
    BY <1>4 DEF WriteFails, Forget
  <2>2. lastWritten' \in [SightingKey -> Int] /\ Never \in Int
    BY <2>1 DEF SightingInv, Never
  <2>3. ASSUME NEW k \in Remembered' PROVE Attested(k)'
    <3>1. k \in Remembered /\ k \notin w.keys /\ lastWritten'[k] = lastWritten[k]
      BY <2>1 DEF Remembered
    <3> QED
      BY <2>1, <3>1 DEF SightingInv, Attested
  <2> QED
    BY <2>1, <2>2, <2>3 DEF SightingInv
<1>5. ASSUME NEW t \in infoWrites, InfoStored(t) PROVE SightingInv'
  BY <1>5 DEF InfoStored, SightingInv, Remembered, Attested
<1>6. ASSUME NEW t \in infoWrites, InfoFails(t) PROVE SightingInv'
  BY <1>6 DEF InfoFails, RetryFrom, SightingInv, Remembered, Attested
<1>7. CASE UNCHANGED sightingVars
  BY <1>7 DEF sightingVars, SightingInv, Remembered, Attested
<1> QED
  BY <1>1, <1>2, <1>3, <1>4, <1>5, <1>6, <1>7 DEF SightingNext

(* What lastWritten remembers is stored or on its way (sdk-versions.ts), in *)
(* every reachable state.                                                   *)
THEOREM SightingInvariant == SightingSpec => []SightingInv
  BY SightingStart, SightingStep, PTL DEF SightingSpec

(* The sightings invariant implies what the runs check. *)
LEMMA SightingsHold == SightingInv => SightingsAreStored
  BY SightingAssumption DEF SightingInv, SightingsAreStored, Attested, Remembered, Never

-----------------------------------------------------------------------------
(* Schema bootstrap (SchemaBootstrap).                                       *)

SchemaSpec == SchemaInit /\ [][SchemaNext]_schemaVars

ReplicaType ==
    [v : Version, at : {"idle", "create", "select", "migrate", "ready", "rejected"},
     k : Nat, m : Nat, read : SUBSET Nat, attempt : Nat, state : {"pending", "ready", "failed"}]
CallType == {[st |-> "idle"]} \cup [st : {"waits", "inserts", "failed"}, on : Replica]

(* The tables of the baseline that stand before its statement k. *)
CreatedUpTo(v, k) == \A i \in 1..Len(Baseline(v)) : i < k => Baseline(v)[i] \in db

(* What is known of the database at each place of a bootstrap: the tables    *)
(* created, the migrations passed, and the statements of this one.           *)
Standing(r) ==
    LET x == replica[r] IN
    /\ x.at = "create" => x.k \in 1..Len(Baseline(x.v)) /\ CreatedUpTo(x.v, x.k)
    /\ x.at \in {"select", "migrate"} => "runtime_logs" \in db
    /\ x.at = "migrate" =>
          /\ x.m \in 1..Known(x.v) + 1 /\ x.read \subseteq applied
          /\ \A i \in 1..Known(x.v) : i < x.m => i \in applied
          /\ x.k \in Nat \ {0} /\ (x.k > 1 => x.m \in ToRun(x.v, x.read))
          /\ x.m <= Known(x.v) => \A i \in 1..Len(Migrations[x.m]) : i < x.k => Migrations[x.m][i] \in db
    /\ x.at = "ready" => ShapeOf(x.v) \subseteq db /\ 1..Known(x.v) \subseteq applied

SchemaInv ==
    /\ replica \in [Replica -> ReplicaType] /\ call \in [Call -> CallType]
    /\ applied \subseteq 1..3 /\ RecordedInEffect /\ BootstrapCanSucceed
    /\ \A r \in Replica : Standing(r)
    /\ \A c \in Call : call[c].st = "inserts" => replica[call[c].on].at = "ready"

(* The migrations and who knows them. *)
LEMMA MigrationFacts ==
    /\ Len(Migrations) = 3 /\ Len(Migrations[1]) = 1 /\ Len(Migrations[2]) = 2 /\ Len(Migrations[3]) = 1
    /\ Migrations[1][1] = "request_id" /\ Migrations[3][1] = "error_code"
    /\ Migrations[2][1] = "request_1m" /\ Migrations[2][2] = "request_1m_mv"
    /\ Known("old") = 0 /\ Known("new") = 3
  BY DEF Migrations, Known

(* The objects a migration makes. *)
LEMMA MigrationRange ==
    ASSUME NEW m \in 1..3
    PROVE  Range(Migrations[m]) = {Migrations[m][i] : i \in 1..Len(Migrations[m])}
<1>1. DOMAIN Migrations[m] = 1..Len(Migrations[m])
  BY DEF Migrations
<1> QED
  BY <1>1 DEF Range

(* The statements before the migrations need nothing. *)
LEMMA BaselineFacts ==
    ASSUME NEW v \in Version
    PROVE  /\ Len(Baseline(v)) \in 1..2 /\ Baseline(v)[1] = "runtime_logs"
           /\ \A i \in 1..Len(Baseline(v)) : Needs(Baseline(v)[i]) = {}
           /\ Known(v) \in {0, 3} /\ (Known(v) = 3 <=> v = "new")
  BY MigrationFacts DEF Baseline, Needs, Version

(* The schema invariant holds at the start. *)
LEMMA SchemaStart == SchemaInit => SchemaInv
  BY DEF SchemaInit, SchemaInv, FreshReplica, ReplicaType, CallType, RecordedInEffect, BootstrapCanSucceed, Standing

(* Tables and ids are only added: a replica that stays where it is stands.   *)
LEMMA OthersStand ==
    ASSUME NEW r \in Replica, Standing(r), db \subseteq db', applied \subseteq applied', replica'[r] = replica[r]
    PROVE  Standing(r)'
  BY DEF Standing, CreatedUpTo

(* One replica moves; the calls that go on to insert are those it is ready for. *)
LEMMA ReplicaMoves ==
    ASSUME SchemaInv, NEW r \in Replica, NEW x \in ReplicaType, replica' = [replica EXCEPT ![r] = x],
           db \subseteq db', applied \subseteq applied', applied' \subseteq applied \cup 1..3, RecordedInEffect', BootstrapCanSucceed',
           call' \in [Call -> CallType],
           \A c \in Call : call'[c].st = "inserts" =>
              \/ call'[c].on = r /\ x.at = "ready"
              \/ call'[c] = call[c] /\ call[c].on # r,
           replica'[r] = x => Standing(r)'
    PROVE  SchemaInv'
<1>1. /\ replica' \in [Replica -> ReplicaType] /\ replica'[r] = x
      /\ \A j \in Replica \ {r} : replica'[j] = replica[j]
  BY DEF SchemaInv
<1>2. \A j \in Replica : Standing(j)'
  BY <1>1, OthersStand DEF SchemaInv
<1>3. ASSUME NEW c \in Call, call'[c].st = "inserts" PROVE replica'[call'[c].on].at = "ready"
  <2>1. CASE call'[c].on = r /\ x.at = "ready"
    BY <1>1, <2>1
  <2>2. CASE call'[c] = call[c] /\ call[c].on # r
    <3>1. call[c].on \in Replica /\ replica[call[c].on].at = "ready"
      BY <1>3, <2>2 DEF SchemaInv, CallType
    <3> QED
      BY <1>1, <2>2, <3>1
  <2> QED
    BY <1>3, <2>1, <2>2
<1> QED
  BY <1>1, <1>2, <1>3 DEF SchemaInv

(* A call that inserts does so on a replica that is ready, not on one that runs. *)
LEMMA RunningServesNone ==
    ASSUME SchemaInv, NEW r \in Replica, replica[r].at # "ready", NEW c \in Call, call[c].st = "inserts"
    PROVE  call[c].on # r
  BY DEF SchemaInv

(* A call starts a bootstrap, joins one, or finds it done. *)
LEMMA EnsureStep == ASSUME SchemaInv, NEW r \in Replica, NEW c \in Call, Ensure(c, r) PROVE SchemaInv'
<1>1. /\ replica[r] \in ReplicaType /\ replica \in [Replica -> ReplicaType] /\ call \in [Call -> CallType]
      /\ UNCHANGED <<db, applied, refused>> /\ Standing(r) /\ RecordedInEffect' /\ refused = {} /\ outlived = {}
  BY DEF Ensure, SchemaInv, RecordedInEffect, BootstrapCanSucceed
<1>2. ASSUME NEW at \in {"create", "select", "migrate", "ready"}, call' = Joins(c, r, at)
      PROVE  /\ call' \in [Call -> CallType] /\ \A d \in Call \ {c} : call'[d] = call[d]
             /\ call'[c].on = r /\ (call'[c].st = "inserts" => at = "ready")
  <2> DEFINE joined == [st |-> Then_(at), on |-> r]
  <2>1. joined \in CallType /\ joined.on = r /\ (joined.st = "inserts" => at = "ready")
    BY DEF CallType, Then_
  <2>2. call' = [call EXCEPT ![c] = joined]
    BY <1>2 DEF Joins
  <2> HIDE DEF joined
  <2> QED
    BY <1>1, <2>1, <2>2
<1>3. CASE Memo(r)
  <2>1. /\ call' = Joins(c, r, replica[r].at) /\ UNCHANGED <<replica, outlived>>
        /\ replica[r].at \in {"create", "select", "migrate", "ready"}
    BY <1>1, <1>3 DEF Ensure, Memo, ReplicaType
  <2>2. BootstrapCanSucceed'
    BY <1>1, <2>1 DEF BootstrapCanSucceed
  <2>3. \A d \in Call : call'[d].st = "inserts" => replica'[call'[d].on].at = "ready"
    BY <1>2, <2>1 DEF SchemaInv
  <2>4. \A q \in Replica : Standing(q)'
    BY <1>1, <2>1 DEF SchemaInv, Standing, CreatedUpTo
  <2> QED
    BY <1>1, <1>2, <2>1, <2>2, <2>3, <2>4 DEF SchemaInv
<1>4. CASE ~Memo(r)
  <2> DEFINE x == [replica[r] EXCEPT !.at = "create", !.k = 1, !.attempt = @ + 1]
  <2>1. /\ replica' = [replica EXCEPT ![r] = x] /\ call' = Joins(c, r, "create") /\ UNCHANGED outlived
        /\ replica[r].at # "ready"
    BY <1>4 DEF Ensure, Memo
  <2>2. x \in ReplicaType /\ x.at = "create" /\ x.k = 1 /\ x.v \in Version
    <3>1. replica[r].attempt + 1 \in Nat /\ 1 \in Nat
      BY <1>1 DEF ReplicaType
    <3> QED
      BY <1>1, <3>1 DEF ReplicaType
  <2>3. BootstrapCanSucceed'
    BY <1>1, <2>1 DEF BootstrapCanSucceed
  <2>4. \A d \in Call : call'[d].st = "inserts" => call'[d] = call[d] /\ call[d].on # r
    BY <1>2, <2>1, RunningServesNone
  <2>5. ASSUME replica'[r] = x PROVE Standing(r)'
    BY <2>2, <2>5, BaselineFacts DEF Standing, CreatedUpTo
  <2> HIDE DEF x
  <2> QED
    BY ZenonT(60), <1>1, <1>2, <2>1, <2>2, <2>3, <2>4, <2>5, ReplicaMoves
<1> QED
  BY <1>3, <1>4

(* An attempt that settles does so for those who wait for it. *)
LEMMA ConvergedCalls ==
    ASSUME SchemaInv, NEW r \in Replica, NEW at \in {"ready", "rejected"}, Converged(r, at), replica[r].at # "ready"
    PROVE  /\ call' \in [Call -> CallType]
           /\ \A c \in Call : call'[c].st = "inserts" =>
                 \/ call'[c].on = r /\ at = "ready"
                 \/ call'[c] = call[c] /\ call[c].on # r
<1>1. call \in [Call -> CallType] /\ DOMAIN call' = Call
  BY DEF SchemaInv, Converged
<1>2. ASSUME NEW c \in Call, call[c].st = "waits", call[c].on = r
      PROVE  call'[c] \in CallType /\ call'[c].on = r /\ (call'[c].st = "inserts" => at = "ready")
  <2>1. call'[c] = [call[c] EXCEPT !.st = Then_(at)]
    BY <1>2 DEF Converged
  <2>2. call[c] \in [st : {"waits", "inserts", "failed"}, on : Replica]
    BY <1>1, <1>2 DEF CallType
  <2> QED
    BY <1>2, <2>1, <2>2 DEF CallType, Then_
<1>3. ASSUME NEW c \in Call, ~(call[c].st = "waits" /\ call[c].on = r) PROVE call'[c] = call[c]
  BY <1>3 DEF Converged
<1>4. call' \in [Call -> CallType]
  <2>1. call' = [c \in Call |-> call'[c]]
    BY DEF Converged
  <2>2. \A c \in Call : call'[c] \in CallType
    BY <1>1, <1>2, <1>3
  <2> QED
    BY <2>1, <2>2
<1> QED
  BY <1>2, <1>3, <1>4, RunningServesNone

(* A failed query, whatever it had done. *)
LEMMA FailsStep == ASSUME SchemaInv, NEW r \in Replica, Fails(r) PROVE SchemaInv'
<1> DEFINE x == [replica[r] EXCEPT !.at = "rejected", !.state = "failed"]
<1>1. /\ replica[r] \in ReplicaType /\ replica[r].at # "ready" /\ Converged(r, "rejected")
      /\ replica' = [replica EXCEPT ![r] = x] /\ UNCHANGED <<db, applied, outlived, refused>>
  BY DEF Fails, Running, Rejects, SchemaInv
<1>2. x \in ReplicaType /\ x.at = "rejected"
  BY <1>1 DEF ReplicaType
<1>3. RecordedInEffect' /\ BootstrapCanSucceed'
  BY <1>1 DEF SchemaInv, RecordedInEffect, BootstrapCanSucceed
<1>4. ASSUME replica'[r] = x PROVE Standing(r)'
  BY <1>2, <1>4 DEF Standing
<1>5. /\ call' \in [Call -> CallType]
      /\ \A c \in Call : call'[c].st = "inserts" => call'[c] = call[c] /\ call[c].on # r
  BY <1>1, ConvergedCalls
<1> HIDE DEF x
<1> QED
  BY <1>1, <1>2, <1>3, <1>4, <1>5, ReplicaMoves

(* A replica goes on while calls and history stay.                           *)
LEMMA ReplicaGoesOn ==
    ASSUME SchemaInv, NEW r \in Replica, NEW x \in ReplicaType, replica' = [replica EXCEPT ![r] = x],
           replica[r].at # "ready", db \subseteq db',
           applied \subseteq applied', applied' \subseteq applied \cup 1..3, RecordedInEffect',
           UNCHANGED <<call, outlived, refused>>,
           replica'[r] = x => Standing(r)'
    PROVE  SchemaInv'
<1>1. BootstrapCanSucceed' /\ call' \in [Call -> CallType]
  BY DEF SchemaInv, BootstrapCanSucceed
<1>2. \A c \in Call : call'[c].st = "inserts" => call'[c] = call[c] /\ call[c].on # r
  BY RunningServesNone
<1> QED
  BY <1>1, <1>2, ReplicaMoves

(* A statement of the baseline runs. *)
LEMMA CreateStep == ASSUME SchemaInv, NEW r \in Replica, Create(r) PROVE SchemaInv'
<1> DEFINE v == replica[r].v
           o == Baseline(v)[replica[r].k]
           done == replica[r].k = Len(Baseline(v))
           x == [replica[r] EXCEPT !.k = IF done THEN 1 ELSE @ + 1, !.at = IF done THEN "select" ELSE @]
<1>1. /\ replica[r] \in ReplicaType /\ replica[r].at = "create" /\ v \in Version
      /\ replica[r].k \in 1..Len(Baseline(v)) /\ CreatedUpTo(v, replica[r].k)
      /\ UNCHANGED <<applied, outlived>>
  BY DEF Create, SchemaInv, ReplicaType, Standing
<1>2. Needs(o) = {}
  BY <1>1, BaselineFacts
<1>3. /\ db' = db \cup Created(o, v) /\ UNCHANGED <<refused, call>> /\ replica' = [replica EXCEPT ![r] = x]
  BY <1>2 DEF Create, Executes
<1>4. o \in db' /\ db \subseteq db'
  BY <1>3 DEF Created
<1>5. /\ x \in ReplicaType /\ x.v = v /\ x.k = (IF done THEN 1 ELSE replica[r].k + 1)
      /\ x.at = IF done THEN "select" ELSE "create"
  <2>1. replica[r].k + 1 \in Nat /\ 1 \in Nat
    BY <1>1 DEF ReplicaType
  <2>2. CASE done
    BY <1>1, <2>1, <2>2 DEF ReplicaType
  <2>3. CASE ~done
    BY <1>1, <2>1, <2>3 DEF ReplicaType
  <2> QED
    BY <2>2, <2>3
<1>6. RecordedInEffect'
  BY <1>1, <1>4 DEF SchemaInv, RecordedInEffect
<1>7. ASSUME replica'[r] = x PROVE Standing(r)'
  <2>1. \A i \in 1..Len(Baseline(v)) : i < replica[r].k + 1 => Baseline(v)[i] \in db'
    BY <1>1, <1>4, BaselineFacts DEF CreatedUpTo
  <2>2. CASE done
    BY <1>1, <1>5, <1>7, <2>1, <2>2, BaselineFacts DEF Standing
  <2>3. CASE ~done
    BY <1>1, <1>5, <1>7, <2>1, <2>3, BaselineFacts DEF Standing, CreatedUpTo
  <2> QED
    BY <2>2, <2>3
<1> HIDE DEF x
<1> QED
  BY <1>1, <1>3, <1>4, <1>5, <1>6, <1>7, ReplicaGoesOn

(* The applied ids are read. *)
LEMMA SelectStep == ASSUME SchemaInv, NEW r \in Replica, Select(r) PROVE SchemaInv'
<1> DEFINE x == [replica[r] EXCEPT !.at = "migrate", !.read = applied, !.m = 1, !.k = 1]
<1>1. /\ replica[r] \in ReplicaType /\ replica[r].at = "select" /\ "runtime_logs" \in db
      /\ replica' = [replica EXCEPT ![r] = x] /\ UNCHANGED <<db, applied, call, outlived, refused>>
  BY DEF Select, SchemaInv, Standing
<1>2. RecordedInEffect' /\ applied \subseteq Nat
  BY <1>1 DEF SchemaInv, RecordedInEffect
<1>3. /\ x \in ReplicaType /\ x.v = replica[r].v /\ x.v \in Version /\ x.at = "migrate"
      /\ x.read = applied /\ x.m = 1 /\ x.k = 1
  <2>1. 1 \in Nat
    OBVIOUS
  <2> QED
    BY <1>1, <1>2, <2>1 DEF ReplicaType
<1>4. ASSUME replica'[r] = x PROVE Standing(r)'
  BY <1>1, <1>3, <1>4, BaselineFacts, MigrationFacts DEF Standing
<1> HIDE DEF x
<1> QED
  BY <1>1, <1>2, <1>3, <1>4, ReplicaGoesOn

(* A migration read as applied is passed by. *)
LEMMA SkipStep == ASSUME SchemaInv, NEW r \in Replica, Skip(r) PROVE SchemaInv'
<1> DEFINE x == [replica[r] EXCEPT !.m = @ + 1]
<1>1. /\ replica[r] \in ReplicaType /\ replica[r].at = "migrate" /\ Standing(r)
      /\ replica[r].m <= Known(replica[r].v) /\ replica[r].m \notin ToRun(replica[r].v, replica[r].read)
      /\ replica' = [replica EXCEPT ![r] = x] /\ UNCHANGED <<db, applied, call, outlived, refused>>
  BY DEF Skip, SchemaInv
<1>2. RecordedInEffect'
  BY <1>1 DEF SchemaInv, RecordedInEffect
<1>3. /\ x \in ReplicaType /\ x.v = replica[r].v /\ x.v \in Version /\ x.at = "migrate"
      /\ x.read = replica[r].read /\ x.m = replica[r].m + 1 /\ x.k = replica[r].k
  <2>1. replica[r].m + 1 \in Nat
    BY <1>1 DEF ReplicaType
  <2> QED
    BY <1>1, <2>1 DEF ReplicaType
<1>4. replica[r].k = 1 /\ replica[r].m \in replica[r].read
  BY <1>1, <1>3, BaselineFacts DEF Standing, ToRun
<1>5. ASSUME replica'[r] = x PROVE Standing(r)'
  <2>1. Known(x.v) \in {0, 3}
    BY <1>3, BaselineFacts
  <2> QED
    BY <1>1, <1>3, <1>4, <1>5, <2>1, MigrationFacts DEF Standing
<1> HIDE DEF x
<1> QED
  BY <1>1, <1>2, <1>3, <1>5, ReplicaGoesOn

(* A migration finds what it needs: the table of the baseline, the columns   *)
(* of the migrations before it, and what its own statements made.            *)
LEMMA NeedsAreMet ==
    ASSUME SchemaInv, NEW r \in Replica, replica[r].at = "migrate",
           replica[r].m \in ToRun(replica[r].v, replica[r].read), ~Ran(r)
    PROVE  /\ replica[r].m \in 1..3 /\ replica[r].k \in 1..Len(Migrations[replica[r].m])
           /\ Needs(Migrations[replica[r].m][replica[r].k]) \subseteq db
<1> DEFINE m == replica[r].m
           k == replica[r].k
<1>1. Known(replica[r].v) = 3 /\ m \in 1..3
  BY BaselineFacts DEF SchemaInv, ReplicaType, ToRun
<1>2. k \in 1..Len(Migrations[m])
  BY <1>1, MigrationFacts DEF Ran, SchemaInv, Standing
<1>3. "runtime_logs" \in db /\ \A i \in 1..Len(Migrations[m]) : i < k => Migrations[m][i] \in db
  BY <1>1 DEF SchemaInv, Standing
<1>4. m > 1 => "request_id" \in db
  <2>1. m > 1 => 1 \in applied
    BY <1>1 DEF SchemaInv, Standing
  <2>2. "request_id" \in Range(Migrations[1])
    BY MigrationFacts, MigrationRange
  <2> QED
    BY <2>1, <2>2 DEF SchemaInv, RecordedInEffect
<1> HIDE DEF m, k
<1>5. ASSUME NEW o, o \in {"request_id", "error_code"} PROVE Needs(o) \subseteq db
  BY <1>3, <1>5 DEF Needs
<1>6. Needs("request_1m") \subseteq db
  BY DEF Needs
<1>7. ASSUME m = 2, k = 2 PROVE Needs(Migrations[m][k]) \subseteq db
  <2>1. "request_1m" \in db
    BY <1>2, <1>3, <1>7, MigrationFacts
  <2>2. Needs("request_1m_mv") \subseteq db
    BY <1>3, <1>4, <1>7, <2>1 DEF Needs
  <2>3. Migrations[m][k] = "request_1m_mv"
    BY <1>7, MigrationFacts
  <2> QED
    BY <2>2, <2>3
<1>8. Needs(Migrations[m][k]) \subseteq db
  <2>1. CASE m = 1
    <3>1. k = 1
      BY <1>2, <2>1, MigrationFacts
    <3> QED
      BY <1>5, <2>1, <3>1, MigrationFacts
  <2>2. CASE m = 3
    <3>1. k = 1
      BY <1>2, <2>2, MigrationFacts
    <3> QED
      BY <1>5, <2>2, <3>1, MigrationFacts
  <2>3. CASE m = 2
    <3>1. k = 1 \/ k = 2
      BY <1>2, <2>3, MigrationFacts
    <3>2. CASE k = 1
      <4>1. Migrations[m][k] = "request_1m"
        BY <2>3, <3>2, MigrationFacts
      <4> QED
        BY <1>6, <4>1
    <3> QED
      BY <1>7, <2>3, <3>1, <3>2
  <2> QED
    BY <1>1, <2>1, <2>2, <2>3
<1> QED
  BY <1>1, <1>2, <1>8 DEF m, k

(* A statement of a migration runs. *)
LEMMA StatementStep == ASSUME SchemaInv, NEW r \in Replica, Statement(r) PROVE SchemaInv'
<1> DEFINE o == Migrations[replica[r].m][replica[r].k]
           x == [replica[r] EXCEPT !.k = @ + 1]
<1>1. /\ replica[r] \in ReplicaType /\ replica[r].at = "migrate" /\ Standing(r)
      /\ replica[r].m \in ToRun(replica[r].v, replica[r].read) /\ ~Ran(r)
      /\ UNCHANGED <<applied, outlived>>
  BY DEF Statement, SchemaInv
<1>2. /\ replica[r].m \in 1..3 /\ replica[r].k \in 1..Len(Migrations[replica[r].m]) /\ Needs(o) \subseteq db
  BY <1>1, NeedsAreMet
<1>3. db' = db \cup {o} /\ UNCHANGED <<refused, call>> /\ replica' = [replica EXCEPT ![r] = x]
  BY <1>2 DEF Statement, Executes
<1>4. RecordedInEffect'
  BY <1>1, <1>3 DEF SchemaInv, RecordedInEffect
<1>5. /\ x \in ReplicaType /\ x.v = replica[r].v /\ x.at = "migrate"
      /\ x.read = replica[r].read /\ x.m = replica[r].m /\ x.k = replica[r].k + 1
  <2>1. replica[r].k + 1 \in Nat
    BY <1>1 DEF ReplicaType
  <2> QED
    BY <1>1, <2>1 DEF ReplicaType
<1>6. ASSUME replica'[r] = x PROVE Standing(r)'
  <2>1. \A i \in 1..Len(Migrations[x.m]) : i < x.k => Migrations[x.m][i] \in db'
    BY <1>1, <1>2, <1>3, <1>5, MigrationFacts DEF Standing, ToRun
  <2>2. x.k \in Nat \ {0} /\ "runtime_logs" \in db'
    BY <1>1, <1>2, <1>3, <1>5 DEF Standing
  <2> QED
    BY <1>1, <1>3, <1>5, <1>6, <2>1, <2>2 DEF Standing
<1> HIDE DEF x, o
<1> QED
  BY <1>1, <1>3, <1>4, <1>5, <1>6, ReplicaGoesOn

(* A migration is recorded as applied. *)
LEMMA RecordStep == ASSUME SchemaInv, NEW r \in Replica, Record(r) PROVE SchemaInv'
<1> DEFINE m == replica[r].m
           x == [replica[r] EXCEPT !.m = @ + 1, !.k = 1]
<1>1. /\ replica[r] \in ReplicaType /\ replica[r].at = "migrate" /\ Standing(r)
      /\ m \in ToRun(replica[r].v, replica[r].read) /\ Ran(r)
      /\ applied' = applied \cup {m} /\ replica' = [replica EXCEPT ![r] = x]
      /\ UNCHANGED <<db, call, outlived, refused>>
  BY DEF Record, SchemaInv
<1>2. Known(replica[r].v) = 3 /\ m \in 1..3
  BY <1>1, BaselineFacts DEF ReplicaType, ToRun
<1>3. RecordedInEffect'
  <2>1. \A i \in 1..Len(Migrations[m]) : Migrations[m][i] \in db
    BY <1>1, <1>2, MigrationFacts DEF Standing, Ran
  <2>2. Range(Migrations[m]) = {Migrations[m][i] : i \in 1..Len(Migrations[m])}
    BY <1>2, MigrationRange
  <2>3. Range(Migrations[m]) \subseteq db
    BY <2>1, <2>2
  <2> QED
    BY <1>1, <2>3 DEF SchemaInv, RecordedInEffect
<1>4. /\ x \in ReplicaType /\ x.v = replica[r].v /\ x.at = "migrate"
      /\ x.read = replica[r].read /\ x.m = m + 1 /\ x.k = 1
  <2>1. m + 1 \in Nat /\ 1 \in Nat
    BY <1>2
  <2> QED
    BY <1>1, <2>1 DEF ReplicaType
<1>5. ASSUME replica'[r] = x PROVE Standing(r)'
  BY <1>1, <1>2, <1>4, <1>5, MigrationFacts DEF Standing
<1> HIDE DEF x
<1> QED
  BY <1>1, <1>2, <1>3, <1>4, <1>5, ReplicaGoesOn

(* What inserts need is there once every migration is applied.               *)
LEMMA ShapeStands ==
    ASSUME NEW v \in Version, "runtime_logs" \in db, RecordedInEffect, 1..Known(v) \subseteq applied
    PROVE  ShapeOf(v) \subseteq db
  BY DEF ShapeOf, RecordedInEffect

(* The bootstrap is done: calls waiting for it insert. *)
LEMMA ReadyStep == ASSUME SchemaInv, NEW r \in Replica, Ready(r) PROVE SchemaInv'
<1> DEFINE x == [replica[r] EXCEPT !.at = "ready", !.state = "ready"]
<1>1. /\ replica[r] \in ReplicaType /\ replica[r].at = "migrate" /\ Standing(r)
      /\ replica[r].m > Known(replica[r].v) /\ Converged(r, "ready")
      /\ replica' = [replica EXCEPT ![r] = x] /\ UNCHANGED <<db, applied, outlived, refused>>
  BY DEF Ready, SchemaInv
<1>2. x \in ReplicaType /\ x.v = replica[r].v /\ x.v \in Version /\ x.at = "ready"
  BY <1>1 DEF ReplicaType
<1>3. RecordedInEffect' /\ RecordedInEffect /\ BootstrapCanSucceed'
  BY <1>1 DEF SchemaInv, RecordedInEffect, BootstrapCanSucceed
<1>4. 1..Known(x.v) \subseteq applied /\ "runtime_logs" \in db
  <2>1. Known(x.v) \in {0, 3}
    BY <1>2, BaselineFacts
  <2> QED
    BY <1>1, <1>2, <2>1 DEF Standing, ReplicaType
<1>5. ASSUME replica'[r] = x PROVE Standing(r)'
  BY <1>1, <1>2, <1>3, <1>4, <1>5, ShapeStands DEF Standing
<1>6. /\ call' \in [Call -> CallType]
      /\ \A c \in Call : call'[c].st = "inserts" =>
            (call'[c].on = r /\ x.at = "ready") \/ (call'[c] = call[c] /\ call[c].on # r)
  BY <1>1, <1>2, ConvergedCalls
<1> HIDE DEF x
<1> QED
  BY <1>1, <1>2, <1>3, <1>5, <1>6, ReplicaMoves

(* A call inserts. *)
LEMMA InsertStep == ASSUME SchemaInv, NEW c \in Call, Insert(c) PROVE SchemaInv'
<1>1. call[c].st = "inserts" /\ call[c].on \in Replica /\ replica[call[c].on].at = "ready"
  BY DEF Insert, SchemaInv, CallType
<1>2. ShapeOf(replica[call[c].on].v) \subseteq db
  BY <1>1 DEF SchemaInv, Standing
<1>3. /\ UNCHANGED <<db, applied, replica, outlived, refused>>
      /\ call' = [call EXCEPT ![c] = [st |-> "idle"]]
  BY <1>2 DEF Insert
<1>4. call' \in [Call -> CallType] /\ \A d \in Call : call'[d].st = "inserts" => call'[d] = call[d]
  BY <1>3 DEF SchemaInv, CallType
<1> QED
  BY <1>3, <1>4 DEF SchemaInv, RecordedInEffect, BootstrapCanSucceed, Standing, CreatedUpTo

(* A replica restarts, in either version. *)
LEMMA RestartStep == ASSUME SchemaInv, NEW r \in Replica, NEW v \in Version, Restart(r, v) PROVE SchemaInv'
<1> DEFINE x == FreshReplica(v)
<1>1. replica' = [replica EXCEPT ![r] = x] /\ UNCHANGED <<db, applied, outlived, refused>>
  BY DEF Restart
<1>2. x \in ReplicaType /\ x.at = "idle"
  BY DEF FreshReplica, ReplicaType
<1>3. RecordedInEffect' /\ BootstrapCanSucceed'
  BY <1>1 DEF SchemaInv, RecordedInEffect, BootstrapCanSucceed
<1>4. ASSUME NEW c \in Call
      PROVE  call'[c] \in CallType /\ (call'[c].st = "inserts" => call'[c] = call[c] /\ call[c].on # r)
  BY DEF Restart, SchemaInv, CallType
<1>5. call' \in [Call -> CallType]
  <2>1. call' = [c \in Call |-> call'[c]]
    BY DEF Restart
  <2> QED
    BY <1>4, <2>1
<1>6. ASSUME replica'[r] = x PROVE Standing(r)'
  BY <1>2, <1>6 DEF Standing
<1> HIDE DEF x
<1> QED
  BY <1>1, <1>2, <1>3, <1>4, <1>5, <1>6, ReplicaMoves

(* Every step keeps the schema invariant. *)
LEMMA SchemaStep == SchemaInv /\ [SchemaNext]_schemaVars => SchemaInv'
<1> SUFFICES ASSUME SchemaInv, [SchemaNext]_schemaVars PROVE SchemaInv'
  OBVIOUS
<1>1. ASSUME NEW r \in Replica,
             Create(r) \/ Select(r) \/ Skip(r) \/ Statement(r) \/ Record(r) \/ Ready(r) \/ Fails(r)
      PROVE  SchemaInv'
  BY <1>1, CreateStep, SelectStep, SkipStep, StatementStep, RecordStep, ReadyStep, FailsStep
<1>2. ASSUME NEW r \in Replica, NEW c \in Call, Ensure(c, r) PROVE SchemaInv'
  BY <1>2, EnsureStep
<1>3. ASSUME NEW r \in Replica, NEW v \in Version, Restart(r, v) PROVE SchemaInv'
  BY <1>3, RestartStep
<1>4. ASSUME NEW c \in Call, Insert(c) PROVE SchemaInv'
  BY <1>4, InsertStep
<1>5. CASE UNCHANGED schemaVars
  BY <1>5 DEF schemaVars, SchemaInv, RecordedInEffect, BootstrapCanSucceed, Standing, CreatedUpTo
<1> QED
  BY <1>1, <1>2, <1>3, <1>4, <1>5 DEF SchemaNext

(* Recorded migrations are in effect and a ready replica has its tables     *)
(* (migrations.ts), in every reachable state.                       *)
THEOREM SchemaInvariant == SchemaSpec => []SchemaInv
  BY SchemaStart, SchemaStep, PTL DEF SchemaSpec

(* The schema invariant implies what the runs check. *)
LEMMA SchemaHolds == SchemaInv => ReadyMeansShape /\ RecordedInEffect /\ BootstrapCanSucceed
  BY DEF SchemaInv, Standing, ReadyMeansShape

-----------------------------------------------------------------------------
(* Requests: what has left the process of r, and what is due for it.         *)
CountsSpec == CountsInit /\ [][CountsNext]_countsVars

GoneOf(r) == ItemsOf(r) \cap (over \ waiting)
One(b) == IF b THEN 1 ELSE 0

RequestDue(r) ==
    CASE facts[r].way = "spans" -> One(GoneOf(r) # {})
      [] facts[r].way \in {"routed", "retained"} -> One(point[r] = "gone")
      [] facts[r].way = "edge" -> One(<<r, "summary">> \in GoneOf(r))
      [] OTHER -> 0

ErrorsGone(r) == Cardinality(ErrorsOf(GoneOf(r), r))

ErrorDue(r) ==
    CASE facts[r].way \in {"spans", "kept"} -> One(GoneOf(r) # {} /\ Failed(r))
      [] facts[r].way \in {"routed", "retained"} ->
            IF facts[r].status >= 500 THEN One(point[r] = "gone") ELSE One(GoneOf(r) # {} /\ facts[r].thrown # {})
      [] facts[r].way = "edge" -> One(<<r, "summary">> \in GoneOf(r) /\ Failed(r))
      [] OTHER -> ErrorsGone(r)

(* What a request is, its items in flight, its point, and that an unsplit    *)
(* request left whole.                                                       *)
FactsFit(r) ==
    /\ facts[r] \in FactsOf[r] /\ requestCount[r] \in Nat /\ errorCount[r] \in Nat /\ lost[r] \in Nat
    /\ facts[r].way = "kept" => Failed(r)
PointFits(r) ==
    /\ point[r] \in {"none", "waiting", "gone"}
    /\ point[r] # "none" => Wired(facts[r].way) /\ <<r, "http">> \in over
    /\ Wired(facts[r].way) /\ <<r, "http">> \in over => point[r] # "none"
LeftWhole(r) == r \notin split /\ ~Logs(facts[r].way) => GoneOf(r) \in {{}, ItemsOf(r)}

(* Counts are what is due, or less when something was lost.                  *)
CountsDue(r) ==
    ~SeenTwice(r) =>
        /\ requestCount[r] <= RequestDue(r) /\ errorCount[r] <= ErrorDue(r)
        /\ lost[r] = 0 => requestCount[r] = RequestDue(r) /\ (facts[r].way # "traced" => errorCount[r] = ErrorDue(r))

RequestInv(r) == FactsFit(r) /\ PointFits(r) /\ LeftWhole(r) /\ CountsDue(r)

(* An error is counted of a trace with an occurrence, in one request unless  *)
(* the store was not asked, and none is left out of a trace without.         *)
InTrace(r, t) == r \in WebRequest /\ facts[r].way = "traced" /\ TraceOf[r] = t
AloneIn(r, t) ==
    errorCount[r] <= 1 /\ (errorCount[r] = 1 => \A q : InTrace(q, t) /\ q # r => errorCount[q] = 0)
TracesFit ==
    \A t, r : InTrace(r, t) =>
        /\ t \notin errorTraces => errorCount[r] = 0
        /\ t \notin missed => AloneIn(r, t)
        /\ lost[r] = 0 /\ ErrorsOf(GoneOf(r), r) # {} => t \in errorTraces

ItemsFit == waiting \subseteq over /\ \A i \in over : i[1] \in WebRequest /\ i \in ItemsOf(i[1])
CountsShape ==
    /\ DOMAIN requestCount = WebRequest /\ DOMAIN errorCount = WebRequest /\ DOMAIN lost = WebRequest
    /\ DOMAIN point = WebRequest

CountsInv == CountsShape /\ ItemsFit /\ TracesFit /\ \A r \in WebRequest : RequestInv(r)

(* What the assumption says of one request.                                  *)
LEMMA FactsTyped ==
    ASSUME NEW r \in WebRequest, NEW f \in FactsOf[r]
    PROVE  /\ f.way \in Way /\ f.status \in Nat /\ f.thrown \in SUBSET SpansOf(r) /\ f.caught \in BOOLEAN
<1>1. f \in [way : Way, status : Status, thrown : SUBSET SpansOf(r), caught : BOOLEAN]
  BY CountsAssumption
<1>2. f.status \in 100..599
  BY <1>1, CountsAssumption
<1> QED
  BY <1>1, <1>2

(* Nothing is counted at the start, and nothing due.                         *)
LEMMA CountsStart == CountsInit => CountsInv
<1> SUFFICES ASSUME CountsInit PROVE CountsInv
  OBVIOUS
<1>1. CountsShape /\ ItemsFit
  BY DEF CountsInit, CountsShape, ItemsFit
<1>2. ASSUME NEW r \in WebRequest PROVE RequestInv(r)
  <2>1. facts[r] \in FactsOf[r] /\ (facts[r].way = "kept" => Failed(r))
    BY DEF CountsInit, Failed
  <2>2. /\ GoneOf(r) = {} /\ point[r] = "none"  /\ requestCount[r] = 0
        /\ errorCount[r] = 0 /\ lost[r] = 0 /\ <<r, "http">> \notin over
    BY DEF CountsInit, GoneOf
  <2>3. FactsFit(r) /\ PointFits(r) /\ LeftWhole(r)
    BY <2>1, <2>2 DEF FactsFit, PointFits, LeftWhole
  <2>4. RequestDue(r) = 0 /\ ErrorDue(r) = 0
    <3>1. ErrorsOf(GoneOf(r), r) = {}
      BY <2>2 DEF ErrorsOf
    <3> QED
      BY <2>2, <3>1, FS_EmptySet DEF RequestDue, ErrorDue, ErrorsGone, One
  <2>5. CountsDue(r)
    BY <2>2, <2>4 DEF CountsDue
  <2> QED
    BY <2>3, <2>5 DEF RequestInv
<1>3. TracesFit
  BY DEF CountsInit, TracesFit, InTrace, AloneIn, ErrorsOf, GoneOf
<1> QED
  BY <1>1, <1>2, <1>3 DEF CountsInv

-----------------------------------------------------------------------------
(* The outermost span of an item in closed form: the chain of a span ends at *)
(* its own request, since a call to another is not stepped through.          *)
RootOf(items, i) ==
    LET next == IF <<i[1], "http">> \in items THEN {<<i[1], "http">>} ELSE {<<i[1], "next">>}
    IN  CASE i[2] = "http" -> {i}
          [] i[2] = "next" -> next
          [] OTHER -> IF <<i[1], "next">> \in items THEN next ELSE {}

SpanItem(i) == i[1] \in WebRequest /\ i[2] \in SpanNames /\ i = <<i[1], i[2]>>

(* The step of the walk, and that the closed form solves it.                 *)
Climbs(items, up, i) ==
    LET above == IF StepsUp(items, i) THEN up[Parent(i)] ELSE {}
    IN  IF above # {} THEN above ELSE IF Server(i) THEN {i} ELSE {}

(* The walk's recursion has one solution, the closed form.                   *)
LEMMA OutermostIs ==
    ASSUME NEW items, \A i \in items : SpanItem(i)
    PROVE  \A i \in items : Outermost(items)[i] = RootOf(items, i)
<1> DEFINE t == [i \in items |-> RootOf(items, i)]
           up == Outermost(items)
<1>0. ASSUME NEW i \in items PROVE SpanItem(i) /\ i[2] \in SpanNames /\ i = <<i[1], i[2]>>
  BY <1>0 DEF SpanItem
<1>1. ASSUME NEW i \in items
      PROVE  /\ i[2] = "http" => ~StepsUp(items, i) /\ Server(i)
             /\ i[2] = "next" => /\ Server(i) /\ Parent(i) = <<i[1], "http">>
                                 /\ (StepsUp(items, i) <=> <<i[1], "http">> \in items)
             /\ i[2] \notin {"http", "next"} =>
                   /\ ~Server(i) /\ Parent(i) = <<i[1], "next">>
                   /\ (StepsUp(items, i) <=> <<i[1], "next">> \in items)
  BY <1>0 DEF StepsUp, Parent, RemoteCall, Server, SpanNames
<1>2. ASSUME NEW g, \A i \in items : g[i] = Climbs(items, g, i), NEW i \in items
      PROVE  g[i] = RootOf(items, i)
  <2>1. ASSUME NEW j \in items, j[2] = "http" PROVE g[j] = {j}
    BY <1>1, <1>2, <2>1 DEF Climbs
  <2>2. ASSUME NEW j \in items, j[2] = "next"
        PROVE  g[j] = IF <<j[1], "http">> \in items THEN {<<j[1], "http">>} ELSE {<<j[1], "next">>}
    <3>1. j = <<j[1], "next">>
      BY <1>0, <2>2
    <3>2. CASE <<j[1], "http">> \in items
      <4>1. <<j[1], "http">>[2] = "http"
        OBVIOUS
      <4>2. g[<<j[1], "http">>] = {<<j[1], "http">>}
        BY <2>1, <3>2, <4>1
      <4> QED
        BY <1>1, <1>2, <2>2, <3>2, <4>2 DEF Climbs
    <3>3. CASE <<j[1], "http">> \notin items
      BY <1>1, <1>2, <2>2, <3>1, <3>3 DEF Climbs
    <3> QED
      BY <3>2, <3>3
  <2>3. CASE i[2] \in {"http", "next"}
    BY <2>1, <2>2, <2>3 DEF RootOf
  <2>4. CASE i[2] \notin {"http", "next"} /\ <<i[1], "next">> \in items
    <3>1. <<i[1], "next">>[2] = "next" /\ <<i[1], "next">>[1] = i[1]
      OBVIOUS
    <3>2. g[<<i[1], "next">>] = IF <<i[1], "http">> \in items THEN {<<i[1], "http">>} ELSE {<<i[1], "next">>}
      BY <2>2, <2>4, <3>1
    <3>3. g[i] = g[<<i[1], "next">>]
      BY <1>1, <1>2, <2>4, <3>2 DEF Climbs
    <3> QED
      BY <2>4, <3>2, <3>3 DEF RootOf
  <2>5. CASE i[2] \notin {"http", "next"} /\ <<i[1], "next">> \notin items
    BY <1>1, <1>2, <2>5 DEF Climbs, RootOf
  <2> QED
    BY <2>3, <2>4, <2>5
<1>3. ASSUME NEW i \in items PROVE t[i] = Climbs(items, t, i)
  <2>1. CASE i[2] = "http"
    BY <1>1, <2>1 DEF Climbs, RootOf
  <2>2. CASE i[2] = "next"
    <3>1. i = <<i[1], "next">>
      BY <1>0, <2>2
    <3>2. <<i[1], "http">> \in items => t[<<i[1], "http">>] = {<<i[1], "http">>}
      BY DEF RootOf
    <3>3. t[i] = IF <<i[1], "http">> \in items THEN {<<i[1], "http">>} ELSE {<<i[1], "next">>}
      BY <2>2 DEF RootOf
    <3> HIDE DEF t
    <3> QED
      BY <1>1, <2>2, <3>1, <3>2, <3>3 DEF Climbs
  <2>3. CASE i[2] \notin {"http", "next"}
    <3>1. <<i[1], "next">> \in items =>
             t[<<i[1], "next">>] = IF <<i[1], "http">> \in items THEN {<<i[1], "http">>} ELSE {<<i[1], "next">>}
      BY DEF RootOf
    <3>2. t[i] = IF <<i[1], "next">> \in items
                 THEN IF <<i[1], "http">> \in items THEN {<<i[1], "http">>} ELSE {<<i[1], "next">>}
                 ELSE {}
      BY <2>3 DEF RootOf
    <3> HIDE DEF t
    <3> QED
      BY <1>1, <2>3, <3>1, <3>2 DEF Climbs
  <2> QED
    BY <2>1, <2>2, <2>3
<1> DEFINE Solves(g) == g = [i \in items |-> Climbs(items, g, i)]
<1>4. up = CHOOSE g : Solves(g)
  BY DEF Outermost, Climbs
<1>5. \E g : Solves(g)
  <2>1. t = [i \in items |-> Climbs(items, t, i)]
    <3>1. t = [i \in items |-> t[i]]
      OBVIOUS
    <3> HIDE DEF t
    <3> QED
      BY <1>3, <3>1
  <2> HIDE DEF t
  <2> QED
    BY <2>1
<1>6. up = [i \in items |-> Climbs(items, up, i)]
  <2> HIDE DEF up
  <2>1. Solves(up)
    <3> HIDE DEF Solves
    <3> QED
      BY <1>4, <1>5
  <2> QED
    BY <2>1
<1> HIDE DEF up, t, Solves
<1>7. \A i \in items : up[i] = Climbs(items, up, i)
  BY <1>6
<1>8. \A i \in items : up[i] = RootOf(items, i)
  BY <1>2, <1>7
<1> QED
  BY <1>8 DEF up

-----------------------------------------------------------------------------
(* A batch of spans: items of requests that record none, each with its type. *)
SpanBatch(items) ==
    \A i \in items : SpanItem(i) /\ i \in ItemsOf(i[1]) /\ ~Logs(facts[i[1]].way) /\ FactsFit(i[1])
Roots(items, r) == {i \in items : i[1] = r /\ Outermost(items)[i] = {i}}
Outside(items, r) ==
    {members \in CountsFailure(items) : \A m \in members : m[1] = r /\ Outermost(items)[m] = {}}

(* The items of one request are few.                                         *)
LEMMA FewItems ==
    ASSUME NEW r, NEW few, \A i \in few : i[2] \in SpanNames /\ i = <<r, i[2]>>
    PROVE  IsFiniteSet(few)
<1> DEFINE all == {<<r, "http">>, <<r, "next">>, <<r, "work">>, <<r, "call">>}
<1>1. IsFiniteSet(all)
  <2>1. IsFiniteSet({}) /\ IsFiniteSet({<<r, "http">>})
    BY FS_EmptySet, FS_Singleton
  <2>2. IsFiniteSet({<<r, "http">>} \cup {<<r, "next">>})
    BY <2>1, FS_AddElement
  <2>3. IsFiniteSet(({<<r, "http">>} \cup {<<r, "next">>}) \cup {<<r, "work">>})
    BY <2>2, FS_AddElement
  <2>4. IsFiniteSet((({<<r, "http">>} \cup {<<r, "next">>}) \cup {<<r, "work">>}) \cup {<<r, "call">>})
    BY <2>3, FS_AddElement
  <2>5. all = (({<<r, "http">>} \cup {<<r, "next">>}) \cup {<<r, "work">>}) \cup {<<r, "call">>}
    OBVIOUS
  <2> QED
    BY <2>4, <2>5
<1>2. few \subseteq all
  BY DEF SpanNames
<1> QED
  BY <1>1, <1>2, FS_Subset

(* An occurrence has a span, and its spans are of the batch and of one trace. *)
LEMMA FailureMembers ==
    ASSUME NEW items, NEW members \in CountsFailure(items)
    PROVE  /\ members # {} /\ members \subseteq items
           /\ \E r \in WebRequest :
                 /\ \A m \in members : m[1] = r
                 /\ (\E m \in members : m[2] \in facts[r].thrown) \/ (\E m \in members : SpanFailed(m))
<1>1. PICK r \in WebRequest :
        members \in (IF Recorded(items, r) = {} THEN {} ELSE {Recorded(items, r)}) \cup StatusOnly(items, r)
  BY DEF CountsFailure, FailureOccurrences
<1>2. CASE members = Recorded(items, r) /\ members # {}
  BY <1>2 DEF Recorded
<1>3. CASE members \in StatusOnly(items, r)
  <2>1. PICK j \in items : j[1] = r /\ SpanFailed(j) /\ members = {j}
    BY <1>3 DEF StatusOnly
  <2> QED
    BY <2>1
<1> QED
  BY <1>1, <1>2, <1>3

(* The counts of a batch as sums over the requests it holds the outermost     *)
(* span of.                                                                  *)
LEMMA TraceCountsAreSums ==
    ASSUME NEW items, NEW r
    PROVE  /\ TraceRequests(items, r) = SetSum([i \in Roots(items, r) |-> TraceAdds(items, i).requests], Roots(items, r))
           /\ TraceErrors(items, r) = SetSum([i \in Roots(items, r) |-> TraceAdds(items, i).errors], Roots(items, r))
                                      + Cardinality(Outside(items, r))
<1> DEFINE R == {i \in items : i[1] = r /\ Outermost(items)[i] = {i}}
<1>1. R = Roots(items, r)
  BY DEF Roots
<1>2. TraceRequests(items, r) = MapThenSumSet(LAMBDA i : TraceAdds(items, i).requests, R)
  BY DEF TraceRequests
<1>3. TraceErrors(items, r) = MapThenSumSet(LAMBDA i : TraceAdds(items, i).errors, R) + Cardinality(Outside(items, r))
  BY DEF TraceErrors, Outside
<1> HIDE DEF R
<1>4. MapThenSumSet(LAMBDA i : TraceAdds(items, i).requests, R) = SetSum([i \in R |-> TraceAdds(items, i).requests], R)
  BY ZenonT(60) DEF MapThenSumSet, MapThenFoldSet, SetSum, SetSums, SumStep, AnyOf
<1>5. MapThenSumSet(LAMBDA i : TraceAdds(items, i).errors, R) = SetSum([i \in R |-> TraceAdds(items, i).errors], R)
  BY ZenonT(60) DEF MapThenSumSet, MapThenFoldSet, SetSum, SetSums, SumStep, AnyOf
<1> QED
  BY <1>1, <1>2, <1>3, <1>4, <1>5

(* A request with no span in the batch gets nothing of it.                   *)
LEMMA AbsentAddsNone ==
    ASSUME NEW items, NEW r, \A i \in items : i[1] # r
    PROVE  TraceRequests(items, r) = 0 /\ TraceErrors(items, r) = 0
<1>1. Roots(items, r) = {}
  BY DEF Roots
<1>2. Outside(items, r) = {}
  BY FailureMembers DEF Outside
<1>3. /\ TraceRequests(items, r) = SetSum([i \in Roots(items, r) |-> TraceAdds(items, i).requests], Roots(items, r))
      /\ TraceErrors(items, r) = SetSum([i \in Roots(items, r) |-> TraceAdds(items, i).errors], Roots(items, r))
                                 + Cardinality(Outside(items, r))
  BY TraceCountsAreSums
<1>4. \A w \in [{} -> Int] : SetSum(w, {}) = 0
  BY FS_EmptySet, SetSumZero
<1> DEFINE v == [i \in Roots(items, r) |-> TraceAdds(items, i).requests]
           w == [i \in Roots(items, r) |-> TraceAdds(items, i).errors]
<1>5. v \in [{} -> Int] /\ w \in [{} -> Int]
  BY <1>1
<1>6. SetSum(v, {}) = 0 /\ SetSum(w, {}) = 0
  <2> HIDE DEF v, w
  <2> QED
    BY <1>4, <1>5
<1>7. TraceRequests(items, r) = SetSum(v, {}) /\ TraceErrors(items, r) = SetSum(w, {}) + Cardinality({})
  BY <1>1, <1>2, <1>3
<1> HIDE DEF v, w
<1> QED
  BY <1>6, <1>7, FS_EmptySet

(* What one request adds is 0 or 1 of each.                                  *)
LEMMA AddsTyped ==
    ASSUME NEW items, NEW i PROVE TraceAdds(items, i).requests \in {0, 1} /\ TraceAdds(items, i).errors \in {0, 1}
<1>1. CountedBy(i) \in {"spans", "metrics", "none"}
  BY DEF CountedBy
<1> QED
  BY <1>1 DEF TraceAdds

(* The counts of a batch are numbers.                                        *)
LEMMA TraceCountsTyped ==
    ASSUME NEW items, SpanBatch(items), NEW r
    PROVE  TraceRequests(items, r) \in Nat /\ TraceErrors(items, r) \in Nat
<1> DEFINE R == Roots(items, r)
           O == Outside(items, r)
           all == {i \in items : i[1] = r}
           v == [i \in R |-> TraceAdds(items, i).requests]
           w == [i \in R |-> TraceAdds(items, i).errors]
<1>1. /\ TraceRequests(items, r) = SetSum(v, R)
      /\ TraceErrors(items, r) = SetSum(w, R) + Cardinality(O)
  BY TraceCountsAreSums
<1>2. IsFiniteSet(all)
  BY FewItems DEF SpanBatch, SpanItem
<1>3. IsFiniteSet(R)
  <2>1. R \subseteq all
    BY DEF Roots
  <2> QED
    BY <1>2, <2>1, FS_Subset
<1>4. Cardinality(O) \in Nat
  <2>1. O \subseteq SUBSET all
    BY FailureMembers DEF Outside
  <2>2. IsFiniteSet(SUBSET all)
    BY <1>2, FS_SUBSET
  <2> QED
    BY <2>1, <2>2, FS_Subset, FS_CardinalityType
<1>5. v \in [R -> Nat] /\ w \in [R -> Nat]
  BY AddsTyped
<1> HIDE DEF v, w, R, O
<1>6. SetSum(v, R) \in Nat /\ SetSum(w, R) \in Nat
  BY <1>3, <1>5, SetSumNatural
<1> QED
  BY <1>1, <1>4, <1>6

(* A request whose spans are all in the batch adds itself once, if spans     *)
(* count it, and one error if it failed, if no histogram point did.          *)
LEMMA WholeAddsOnce ==
    ASSUME NEW items, SpanBatch(items), NEW r \in WebRequest, ItemsOf(r) \subseteq items, FactsFit(r),
           ~Logs(facts[r].way), facts[r].way # "unrouted"
    PROVE  /\ TraceRequests(items, r) = One(facts[r].way = "spans")
           /\ TraceErrors(items, r) =
                 IF facts[r].way \in {"routed", "retained"} THEN One(facts[r].thrown # {} /\ facts[r].status < 500)
                 ELSE One(Failed(r))
<1> DEFINE h == <<r, "http">>
           root == Outermost(items)
<1>1. /\ facts[r].way \in Way /\ facts[r].status \in Nat /\ facts[r].thrown \in SUBSET SpansOf(r)
      /\ h \in items /\ \A n \in SpansOf(r) : <<r, n>> \in items
  <2>1. ItemsOf(r) = {<<r, n>> : n \in SpansOf(r)} /\ "http" \in SpansOf(r)
    BY DEF ItemsOf, SpansOf, SpanNames
  <2>2. facts[r].way \in Way /\ facts[r].status \in Nat /\ facts[r].thrown \in SUBSET SpansOf(r)
    BY FactsTyped DEF FactsFit
  <2> QED
    BY <2>1, <2>2
<1>2. <<r, "next">> \in items
  BY <1>1 DEF SpansOf, SpanNames
<1>3. ASSUME NEW i \in items PROVE SpanItem(i) /\ root[i] = RootOf(items, i)
  BY OutermostIs, <1>3 DEF SpanBatch
<1>4. ASSUME NEW i \in items, i[1] = r PROVE root[i] = {h}
  <2>1. SpanItem(i) /\ root[i] = RootOf(items, i)
    BY <1>3
  <2> QED
    BY <1>1, <1>2, <1>4, <2>1 DEF RootOf, SpanItem
<1>5. ASSUME NEW i \in items, root[i] = {h} PROVE i[1] = r
  <2>1. SpanItem(i) /\ root[i] = RootOf(items, i)
    BY <1>3
  <2>2. \A x \in RootOf(items, i) : x[1] = i[1]
    BY <2>1 DEF RootOf, SpanItem
  <2>3. h \in root[i] /\ h[1] = r
    BY <1>5
  <2> QED
    BY <2>1, <2>2, <2>3
<1> HIDE DEF root
<1>6. {i \in items : i[1] = r /\ root[i] = {i}} = {h}
  <2>1. ASSUME NEW i \in items, i[1] = r, root[i] = {i} PROVE i = h
    BY <1>4, <2>1
  <2>2. root[h] = {h} /\ h[1] = r
    BY <1>1, <1>4
  <2> QED
    BY <1>1, <2>1, <2>2
<1> DEFINE error == \E members \in CountsFailure(items) : \E m \in members : root[m] = {h}
           failed == error \/ \E j \in items : Server(j) /\ root[j] = {h} /\ SpanFailed(j)
           any == facts[r].thrown # {} \/ facts[r].status >= 500
<1>7. error <=> any
  <2>1. ASSUME error PROVE any
    <3>0. PICK members \in CountsFailure(items) : \E m \in members : root[m] = {h}
      BY <2>1
    <3>1. PICK m \in members : root[m] = {h}
      BY <3>0
    <3>2. members \subseteq items
      BY FailureMembers
    <3>3. m[1] = r
      BY <1>5, <3>1, <3>2
    <3>4. PICK q \in WebRequest :
             /\ \A x \in members : x[1] = q
             /\ (\E x \in members : x[2] \in facts[q].thrown) \/ (\E x \in members : SpanFailed(x))
      BY FailureMembers
    <3>5. q = r
      BY <3>1, <3>3, <3>4
    <3> QED
      BY <3>4, <3>5 DEF SpanFailed
  <2>2. ASSUME any PROVE error
    <3>1. CASE facts[r].thrown # {}
      <4>1. PICK n \in facts[r].thrown : n \in SpansOf(r)
        BY <1>1, <3>1
      <4>2. <<r, n>> \in items /\ <<r, n>>[1] = r /\ <<r, n>>[2] = n
        BY <1>1, <4>1
      <4>3. <<r, n>> \in Recorded(items, r)
        BY <4>1, <4>2 DEF Recorded
      <4>4. Recorded(items, r) \in CountsFailure(items)
        BY <4>3 DEF CountsFailure, FailureOccurrences
      <4> QED
        BY <1>4, <4>2, <4>3, <4>4
    <3>2. CASE facts[r].thrown = {} /\ facts[r].status >= 500
      <4>1. Recorded(items, r) = {}
        BY <3>2 DEF Recorded
      <4>2. SpanFailed(h) /\ h[1] = r
        BY <3>2 DEF SpanFailed, Server
      <4>3. {h} \in StatusOnly(items, r)
        BY <1>1, <4>1, <4>2 DEF StatusOnly
      <4>4. {h} \in CountsFailure(items)
        BY <4>3 DEF CountsFailure, FailureOccurrences
      <4>5. root[h] = {h}
        BY <1>1, <1>4, <4>2
      <4> QED
        BY <4>4, <4>5
    <3> QED
      BY <2>2, <3>1, <3>2
  <2> QED
    BY <2>1, <2>2
<1>8. failed <=> any
  <2>1. ASSUME NEW j \in items, root[j] = {h}, SpanFailed(j) PROVE any
    <3>1. j[1] = r
      BY <1>5, <2>1
    <3> QED
      BY <2>1, <3>1 DEF SpanFailed
  <2> QED
    BY <1>7, <2>1
<1>9. TraceAdds(items, h) =
        CASE CountedBy(h) = "spans" -> [requests |-> 1, errors |-> One(failed)]
          [] CountedBy(h) = "metrics" -> [requests |-> 0, errors |-> One(error /\ ~MetricCounted(h))]
          [] CountedBy(h) = "none" -> [requests |-> 0, errors |-> One(failed)]
  BY DEF TraceAdds, One, root
<1> HIDE DEF error, failed
<1>10. CountedBy(h) = CASE facts[r].way \in {"routed", "retained"} -> "metrics"
                        [] facts[r].way = "kept" -> "none"
                        [] OTHER -> "spans"
  BY DEF CountedBy
<1>11. /\ TraceAdds(items, h).requests = One(facts[r].way = "spans")
       /\ TraceAdds(items, h).errors =
             IF facts[r].way \in {"routed", "retained"} THEN One(facts[r].thrown # {} /\ facts[r].status < 500)
             ELSE One(Failed(r))
  <2>1. CASE facts[r].way \in {"routed", "retained"}
    <3>1. MetricCounted(h) <=> facts[r].status >= 500
      BY DEF MetricCounted
    <3>2. TraceAdds(items, h) = [requests |-> 0, errors |-> One(error /\ ~MetricCounted(h))]
      BY <1>9, <1>10, <2>1
    <3>3. (error /\ ~MetricCounted(h)) <=> (facts[r].thrown # {} /\ facts[r].status < 500)
      BY <1>1, <1>7, <3>1
    <3> QED
      BY <2>1, <3>2, <3>3 DEF One
  <2>2. CASE facts[r].way = "kept"
    <3>1. TraceAdds(items, h) = [requests |-> 0, errors |-> One(failed)]
      BY <1>9, <1>10, <2>2
    <3> QED
      BY <1>8, <2>2, <3>1 DEF One, Failed
  <2>3. CASE facts[r].way = "spans"
    <3>1. TraceAdds(items, h) = [requests |-> 1, errors |-> One(failed)]
      BY <1>9, <1>10, <2>3
    <3> QED
      BY <1>8, <2>3, <3>1 DEF One, Failed
  <2> QED
    BY <1>1, <2>1, <2>2, <2>3 DEF Way, Logs
<1> DEFINE R == Roots(items, r)
           O == Outside(items, r)
           v == [i \in R |-> TraceAdds(items, i).requests]
           w == [i \in R |-> TraceAdds(items, i).errors]
<1>12. /\ TraceRequests(items, r) = SetSum(v, R)
       /\ TraceErrors(items, r) = SetSum(w, R) + Cardinality(O)
  BY TraceCountsAreSums
<1>13. Cardinality(O) = 0
  <2>1. ASSUME NEW members \in CountsFailure(items), \A m \in members : m[1] = r /\ root[m] = {} PROVE FALSE
    <3>1. members # {} /\ members \subseteq items
      BY FailureMembers
    <3>2. PICK m \in members : m[1] = r /\ root[m] = {} /\ m \in items
      BY <2>1, <3>1
    <3>3. root[m] = {h}
      BY <1>4, <3>2
    <3> QED
      BY <3>2, <3>3
  <2>2. O = {}
    BY <2>1 DEF Outside, root
  <2> QED
    BY <2>2, FS_EmptySet
<1>14. R = {h}
  BY <1>6 DEF Roots, root
<1>15. v \in [R -> Int] /\ w \in [R -> Int] /\ v[h] = TraceAdds(items, h).requests /\ w[h] = TraceAdds(items, h).errors
  BY <1>14, AddsTyped
<1> HIDE DEF v, w, R, O
<1>16. SetSum(v, R) = v[h] /\ SetSum(w, R) = w[h]
  <2>1. IsFiniteSet(R) /\ R \in SUBSET R /\ h \in R /\ R \ {h} = {}
    BY <1>14, FS_Singleton
  <2>2. ASSUME NEW u \in [R -> Int] PROVE SetSum(u, R) = u[h]
    <3>1. SetSums(u, R)[R] = u[h] + SetSums(u, R)[R \ {h}]
      <4>1. \A s \in SUBSET R : \A x \in s : SetSums(u, R)[s] = u[x] + SetSums(u, R)[s \ {x}]
        BY <2>1, SetSumAny
      <4> QED
        BY <2>1, <4>1
    <3>2. SetSums(u, R)[{}] = 0
      BY <2>1, SetSumSteps
    <3>3. u[h] \in Int
      BY <2>1, <2>2
    <3>4. SetSums(u, R)[R] = u[h] + 0
      <4>1. SetSums(u, R)[R \ {h}] = 0
        BY <2>1, <3>2
      <4> QED
        BY <3>1, <4>1
    <3>5. SetSum(u, R) = SetSums(u, R)[R]
      BY DEF SetSum
    <3> QED
      BY <3>3, <3>4, <3>5
  <2> QED
    BY <1>15, <2>2
<1>17. TraceAdds(items, h).requests \in Int /\ TraceAdds(items, h).errors \in Int
  BY AddsTyped
<1> QED
  BY <1>11, <1>12, <1>13, <1>15, <1>16, <1>17

-----------------------------------------------------------------------------
(* A request that ends an item has sent none, so what is due stays.          *)
LEMMA EndsStep == ASSUME CountsInv, NEW i \in Items, Ends(i) PROVE CountsInv'
<1>1. /\ i[1] \in WebRequest /\ i \in ItemsOf(i[1]) /\ i \notin over
      /\ over' = over \cup {i} /\ waiting' = waiting \cup {i} /\ waiting \subseteq over
      /\ UNCHANGED <<served, facts, errorTraces, missed, requestCount, errorCount, lost, split>>
  BY DEF Ends, Items, CountsInv, ItemsFit
<1>2. point' = IF i[2] = "http" /\ Wired(facts[i[1]].way) THEN [point EXCEPT ![i[1]] = "waiting"] ELSE point
  BY DEF Ends
<1>3. over' \ waiting' = over \ waiting
  BY <1>1
<1>4. ASSUME NEW r PROVE /\ ItemsOf(r)' = ItemsOf(r) /\ GoneOf(r)' = GoneOf(r) /\ (Failed(r)' <=> Failed(r))
                         /\ (SeenTwice(r)' <=> SeenTwice(r)) /\ ErrorsGone(r)' = ErrorsGone(r)
  <2>1. ItemsOf(r)' = ItemsOf(r)
    BY <1>1 DEF ItemsOf
  <2> QED
    BY <1>1, <1>3, <2>1 DEF GoneOf, Failed, SeenTwice, ErrorsGone, ErrorsOf
<1>5. CountsShape'
  BY <1>1, <1>2 DEF CountsInv, CountsShape
<1>6. ItemsFit'
  BY <1>1, <1>4 DEF CountsInv, ItemsFit
<1>7. ASSUME NEW r \in WebRequest PROVE RequestInv(r)'
  <2>1. FactsFit(r) /\ PointFits(r) /\ LeftWhole(r) /\ CountsDue(r)
    BY DEF CountsInv, RequestInv
  <2>2. FactsFit(r)' /\ LeftWhole(r)'
    BY <1>1, <1>4, <2>1 DEF FactsFit, LeftWhole
  <2>3. i = <<i[1], i[2]>>
    BY DEF Items
  <2>4. point[r]' = IF r = i[1] /\ i[2] = "http" /\ Wired(facts[r].way) THEN "waiting" ELSE point[r]
    BY <1>2 DEF CountsInv, CountsShape
  <2>5. PointFits(r)'
    BY <1>1, <2>1, <2>3, <2>4 DEF PointFits
  <2>6. (point[r]' = "gone") <=> (point[r] = "gone")
    BY <1>1, <2>1, <2>3, <2>4 DEF PointFits
  <2>7. RequestDue(r)' = RequestDue(r) /\ ErrorDue(r)' = ErrorDue(r)
    BY ZenonT(60), <1>1, <1>4, <2>6 DEF RequestDue, ErrorDue
  <2>8. CountsDue(r)'
    BY <1>1, <1>4, <2>1, <2>7 DEF CountsDue
  <2> QED
    BY <2>2, <2>5, <2>8 DEF RequestInv
<1>8. TracesFit'
  BY <1>1, <1>4 DEF CountsInv, TracesFit, InTrace, AloneIn, ErrorsOf
<1> QED
  BY <1>5, <1>6, <1>7, <1>8 DEF CountsInv

(* A point that arrives counts its request, which it alone was to count.     *)
LEMMA ExportPointStep == ASSUME CountsInv, NEW r \in WebRequest, ExportPoint(r) PROVE CountsInv'
<1>1. /\ point[r] = "waiting" /\ point' = [point EXCEPT ![r] = "gone"]
      /\ UNCHANGED <<served, facts, over, waiting, errorTraces, missed, split>>
  BY DEF ExportPoint
<1>2. \/ /\ requestCount' = [requestCount EXCEPT ![r] = @ + 1]
         /\ errorCount' = [errorCount EXCEPT ![r] = @ + IF facts[r].status >= 500 THEN 1 ELSE 0]
         /\ lost' = lost
      \/ /\ lost' = [q \in WebRequest |-> IF q \in {r} THEN lost[q] + 1 ELSE lost[q]]
         /\ UNCHANGED <<requestCount, errorCount>>
  BY DEF ExportPoint, Points, Loses
<1>3. ASSUME NEW q PROVE /\ ItemsOf(q)' = ItemsOf(q) /\ GoneOf(q)' = GoneOf(q) /\ (Failed(q)' <=> Failed(q))
            /\ ErrorsGone(q)' = ErrorsGone(q)
                         /\ (SeenTwice(q)' <=> SeenTwice(q)) /\ ErrorsGone(q)' = ErrorsGone(q)
  <2>1. ItemsOf(q)' = ItemsOf(q)
    BY <1>1 DEF ItemsOf
  <2> QED
    BY <1>1, <2>1 DEF GoneOf, Failed, SeenTwice, ErrorsGone, ErrorsOf
<1>4. CountsShape'
  BY <1>1, <1>2 DEF CountsInv, CountsShape
<1>5. ItemsFit'
  BY <1>1, <1>3 DEF CountsInv, ItemsFit
<1>6. ASSUME NEW q \in WebRequest PROVE RequestInv(q)'
  <2>1. FactsFit(q) /\ PointFits(q) /\ LeftWhole(q) /\ CountsDue(q)
    BY DEF CountsInv, RequestInv
  <2>2. LeftWhole(q)'
    BY <1>1, <1>3, <2>1 DEF LeftWhole
  <2>3. CASE q # r
    <3>1. point'[q] = point[q]
      BY <1>1, <2>3 DEF CountsInv, CountsShape
    <3>2. requestCount'[q] = requestCount[q] /\ errorCount'[q] = errorCount[q] /\ lost'[q] = lost[q]
      BY <1>2, <2>3 DEF CountsInv, CountsShape
    <3>3. FactsFit(q)' /\ PointFits(q)'
      BY <1>1, <1>3, <2>1, <3>1, <3>2 DEF FactsFit, PointFits
    <3>4. RequestDue(q)' = RequestDue(q) /\ ErrorDue(q)' = ErrorDue(q)
      <4>1. facts' = facts /\ (point'[q] = "gone" <=> point[q] = "gone") /\ GoneOf(q)' = GoneOf(q) /\ (Failed(q)' <=> Failed(q))
            /\ ErrorsGone(q)' = ErrorsGone(q)
        BY <1>1, <1>3, <3>1
      <4> QED
        BY ZenonT(60), <4>1 DEF RequestDue, ErrorDue
    <3>5. CountsDue(q)'
      BY <1>1, <1>3, <2>1, <3>2, <3>4 DEF CountsDue
    <3> QED
      BY <2>2, <3>3, <3>5 DEF RequestInv
  <2>4. CASE q = r
    <3>1. point'[q] = "gone" /\ point[q] = "waiting" /\ Wired(facts[q].way) /\ <<q, "http">> \in over
      BY <1>1, <2>1, <2>4 DEF CountsInv, CountsShape, PointFits
    <3>2. /\ requestCount[q] \in Nat /\ errorCount[q] \in Nat /\ lost[q] \in Nat /\ facts[q] \in FactsOf[q]
      BY <2>1 DEF FactsFit
    <3>3. /\ \/ /\ requestCount'[q] = requestCount[q] + 1
                /\ errorCount'[q] = errorCount[q] + (IF facts[q].status >= 500 THEN 1 ELSE 0) /\ lost'[q] = lost[q]
             \/ lost'[q] = lost[q] + 1 /\ requestCount'[q] = requestCount[q] /\ errorCount'[q] = errorCount[q]
      BY <1>2, <2>4 DEF CountsInv, CountsShape
    <3>4. FactsFit(q)' /\ PointFits(q)'
      <4>1. FactsFit(q)'
        BY <1>1, <1>3, <2>1, <3>2, <3>3 DEF FactsFit
      <4>2. PointFits(q)'
        BY <1>1, <3>1 DEF PointFits
      <4> QED
        BY <4>1, <4>2
    <3>5. ASSUME ~SeenTwice(q)
          PROVE  /\ RequestDue(q) = 0 /\ RequestDue(q)' = 1 /\ ErrorDue(q) \in Nat
                 /\ ErrorDue(q)' = ErrorDue(q) + (IF facts[q].status >= 500 THEN 1 ELSE 0)
      <4>1. facts[q].way \in {"routed", "retained"}
        BY <3>1, <3>5 DEF Wired, SeenTwice
      <4> QED
        BY <1>1, <1>3, <3>1, <4>1 DEF RequestDue, ErrorDue, One
    <3>6. CountsDue(q)'
      <4>1. SUFFICES ASSUME ~SeenTwice(q)
                     PROVE  /\ requestCount'[q] <= RequestDue(q)' /\ errorCount'[q] <= ErrorDue(q)'
                            /\ lost'[q] = 0 => requestCount'[q] = RequestDue(q)' /\ errorCount'[q] = ErrorDue(q)'
        BY <1>3 DEF CountsDue
      <4>2. /\ requestCount[q] <= RequestDue(q) /\ errorCount[q] <= ErrorDue(q)
            /\ lost[q] = 0 => requestCount[q] = RequestDue(q) /\ errorCount[q] = ErrorDue(q)
        BY <2>1, <3>1, <4>1 DEF CountsDue, Wired
      <4>3. /\ RequestDue(q) = 0 /\ RequestDue(q)' = 1 /\ ErrorDue(q) \in Nat
            /\ ErrorDue(q)' = ErrorDue(q) + (IF facts[q].status >= 500 THEN 1 ELSE 0)
        BY <3>5, <4>1
      <4> QED
        BY <3>2, <3>3, <4>2, <4>3
    <3> QED
      BY <2>2, <3>4, <3>6 DEF RequestInv
  <2> QED
    BY <2>3, <2>4
<1>7. TracesFit'
  <2>1. Wired(facts[r].way)
    BY <1>1 DEF CountsInv, RequestInv, PointFits
  <2>2. ASSUME NEW q, NEW t, InTrace(q, t) PROVE errorCount'[q] = errorCount[q] /\ lost'[q] = lost[q]
    BY <1>2, <2>1, <2>2 DEF InTrace, Wired, CountsInv, CountsShape
  <2>3. \A q, t : InTrace(q, t)' <=> InTrace(q, t)
    BY <1>1 DEF InTrace
  <2> QED
    BY <1>1, <1>3, <2>2, <2>3 DEF CountsInv, TracesFit, AloneIn, ErrorsOf
<1> QED
  BY <1>4, <1>5, <1>6, <1>7 DEF CountsInv

(* The batch of a process: items that wait, and those of them that are spans. *)
BatchOf(p) == {i \in waiting : served[i[1]] = p}
LogsOf(p) == {i \in BatchOf(p) : Logs(facts[i[1]].way)}
SpansLeaving(p) == BatchOf(p) \ LogsOf(p)

(* What an export does to one request: it is counted from the spans and the  *)
(* records, or the batch is lost to it if it is in it.                       *)
Adds(p, r, promoted) ==
    /\ requestCount'[r] = requestCount[r] + TraceRequests(SpansLeaving(p), r) + LogRequests(LogsOf(p), r)
    /\ errorCount'[r] = errorCount[r] + TraceErrors(SpansLeaving(p), r) + LogErrors(LogsOf(p), promoted, r)
    /\ lost'[r] = lost[r]
Counted(p, r) == \E first \in Candidates(LogsOf(p)) : \E unseen : Adds(p, r, Promoted(first, unseen))
MissedBy(p, r) ==
    /\ requestCount'[r] = requestCount[r] /\ errorCount'[r] = errorCount[r]
    /\ lost'[r] = IF \E i \in BatchOf(p) : i[1] = r THEN lost[r] + 1 ELSE lost[r]
AllCounted(p, first, unseen) ==
    /\ errorTraces' = errorTraces \cup TracesStored(SpansLeaving(p), Promoted(first, unseen))
    /\ missed' = missed \cup (unseen \cap errorTraces)
    /\ \A r \in WebRequest : Adds(p, r, Promoted(first, unseen))

(* An export: the batch is counted, or lost.                                 *)
LEMMA ExportFacts ==
    ASSUME CountsInv, NEW p, Export(p)
    PROVE  /\ UNCHANGED <<served, facts, over, point>> /\ waiting' = waiting \ BatchOf(p)
           /\ split' = split \cup {q \in {i[1] : i \in BatchOf(p)} : ~(ItemsOf(q) \subseteq BatchOf(p))}
           /\ \/ \E first \in Candidates(LogsOf(p)) : \E unseen : AllCounted(p, first, unseen)
              \/ /\ UNCHANGED <<requestCount, errorCount, errorTraces, missed>>
                 /\ \A r \in WebRequest : MissedBy(p, r)
<1>1. /\ UNCHANGED <<served, facts, over, point>> /\ waiting' = waiting \ BatchOf(p)
      /\ split' = split \cup {q \in {i[1] : i \in BatchOf(p)} : ~(ItemsOf(q) \subseteq BatchOf(p))}
  BY DEF Export, BatchOf
<1>2. \/ \E first \in Candidates(LogsOf(p)) : \E unseen :
            /\ requestCount' = [q \in WebRequest |->
                    requestCount[q] + TraceRequests(SpansLeaving(p), q) + LogRequests(LogsOf(p), q)]
            /\ errorCount' = [q \in WebRequest |->
                    errorCount[q] + TraceErrors(SpansLeaving(p), q) + LogErrors(LogsOf(p), Promoted(first, unseen), q)]
            /\ errorTraces' = errorTraces \cup TracesStored(SpansLeaving(p), Promoted(first, unseen))
            /\ missed' = missed \cup (unseen \cap errorTraces)
            /\ UNCHANGED lost
      \/ /\ Loses({i[1] : i \in BatchOf(p)})
         /\ UNCHANGED <<requestCount, errorCount, errorTraces, missed>>
  BY DEF Export, BatchOf, LogsOf, SpansLeaving
<1>3. ASSUME NEW first, NEW unseen,
             /\ requestCount' = [q \in WebRequest |->
                    requestCount[q] + TraceRequests(SpansLeaving(p), q) + LogRequests(LogsOf(p), q)]
             /\ errorCount' = [q \in WebRequest |->
                    errorCount[q] + TraceErrors(SpansLeaving(p), q) + LogErrors(LogsOf(p), Promoted(first, unseen), q)]
             /\ errorTraces' = errorTraces \cup TracesStored(SpansLeaving(p), Promoted(first, unseen))
             /\ missed' = missed \cup (unseen \cap errorTraces)
             /\ UNCHANGED lost
      PROVE  AllCounted(p, first, unseen)
  BY <1>3 DEF AllCounted, Adds
<1>4. ASSUME Loses({i[1] : i \in BatchOf(p)}), UNCHANGED <<requestCount, errorCount, errorTraces, missed>>
      PROVE  \A r \in WebRequest : MissedBy(p, r)
  BY <1>4 DEF Loses, MissedBy
<1> QED
  BY <1>1, <1>2, <1>3, <1>4

(* An export, seen from one request.                                         *)
LEMMA ExportOf ==
    ASSUME CountsInv, NEW p, Export(p), NEW r \in WebRequest
    PROVE  /\ UNCHANGED <<served, facts, over, point>> /\ waiting' = waiting \ BatchOf(p)
           /\ r \in split' <=> r \in split \/ ((\E i \in BatchOf(p) : i[1] = r) /\ ~(ItemsOf(r) \subseteq BatchOf(p)))
           /\ Counted(p, r) \/ MissedBy(p, r)
  BY ExportFacts DEF Counted, AllCounted

(* What has ended is an item.                                                *)
LEMMA ItemsTyped == CountsInv => over \subseteq Items
<1> SUFFICES ASSUME CountsInv, NEW i \in over PROVE i \in Items
  OBVIOUS
<1>1. i[1] \in WebRequest /\ i \in ItemsOf(i[1]) /\ facts[i[1]] \in FactsOf[i[1]]
  BY DEF CountsInv, ItemsFit, RequestInv, FactsFit
<1> QED
  BY <1>1, FactsTyped DEF ItemsOf, Items, SpansOf

(* Errors of a request are few.                                              *)
LEMMA FewErrors ==
    ASSUME NEW items, NEW r, \A i \in items : i \in Items
    PROVE  IsFiniteSet(ErrorsOf(items, r)) /\ Cardinality(ErrorsOf(items, r)) \in Nat
<1>1. \A i \in ErrorsOf(items, r) : i[2] \in SpanNames /\ i = <<r, i[2]>>
  BY DEF ErrorsOf, Items
<1> QED
  BY <1>1, FewItems, FS_CardinalityType

(* What is promoted of a request is at most its errors in the batch, and all *)
(* of them where they name no trace.                                         *)
LEMMA PromotedAre ==
    ASSUME NEW logs, NEW first \in Candidates(logs), NEW unseen, NEW r, \A i \in logs : i \in Items
    PROVE  /\ ErrorsOf(Promoted(first, unseen), r) \subseteq ErrorsOf(logs, r)
           /\ Cardinality(ErrorsOf(Promoted(first, unseen), r)) \in Nat
           /\ Cardinality(ErrorsOf(Promoted(first, unseen), r)) <= Cardinality(ErrorsOf(logs, r))
           /\ facts[r].way # "traced" => ErrorsOf(Promoted(first, unseen), r) = ErrorsOf(logs, r)
<1>1. ErrorsOf(Promoted(first, unseen), r) \subseteq ErrorsOf(logs, r)
  BY DEF ErrorsOf, Promoted, Candidates
<1>2. IsFiniteSet(ErrorsOf(logs, r)) /\ \A i \in Promoted(first, unseen) : i \in Items
  BY FewErrors DEF Promoted, Candidates
<1>3. facts[r].way # "traced" => ErrorsOf(logs, r) \subseteq ErrorsOf(Promoted(first, unseen), r)
  BY DEF ErrorsOf, Promoted, Candidates, SameTrace, Traced
<1> QED
  BY <1>1, <1>2, <1>3, FewErrors, FS_Subset

(* What a batch holds, and what of a request has left after it.              *)
LEMMA BatchFacts ==
    ASSUME CountsInv, NEW p, NEW r \in WebRequest, UNCHANGED <<served, facts, over, point>>,
           waiting' = waiting \ BatchOf(p)
    PROVE  /\ SpanBatch(SpansLeaving(p)) /\ ItemsOf(r)' = ItemsOf(r) /\ (Failed(r)' <=> Failed(r))
           /\ GoneOf(r)' = GoneOf(r) \cup (ItemsOf(r) \cap BatchOf(p))
           /\ GoneOf(r) \cap BatchOf(p) = {} /\ BatchOf(p) \subseteq over
           /\ \A i \in BatchOf(p) : i[1] = r => i \in ItemsOf(r)
           /\ Logs(facts[r].way) => \A i \in SpansLeaving(p) : i[1] # r
           /\ ~Logs(facts[r].way) => /\ \A i \in LogsOf(p) : i[1] # r
                                     /\ \A i \in BatchOf(p) : i[1] = r => i \in SpansLeaving(p)
           /\ Logs(facts[r].way) => \A i \in BatchOf(p) : i[1] = r => i \in LogsOf(p)
<1>1. \A i \in BatchOf(p) : i \in waiting /\ i \in over /\ i[1] \in WebRequest /\ i \in ItemsOf(i[1])
  BY DEF CountsInv, ItemsFit, BatchOf
<1>2. SpanBatch(SpansLeaving(p))
  <2>1. ASSUME NEW i \in SpansLeaving(p)
        PROVE  SpanItem(i) /\ i \in ItemsOf(i[1]) /\ ~Logs(facts[i[1]].way) /\ FactsFit(i[1])
    <3>1. i \in BatchOf(p) /\ ~Logs(facts[i[1]].way) /\ i[1] \in WebRequest /\ i \in ItemsOf(i[1])
      BY <1>1, <2>1 DEF SpansLeaving, LogsOf
    <3>2. FactsFit(i[1])
      BY <3>1 DEF CountsInv, RequestInv
    <3>3. SpanItem(i)
      BY <3>1 DEF ItemsOf, SpanItem, SpansOf
    <3> QED
      BY <3>1, <3>2, <3>3
  <2> QED
    BY <2>1 DEF SpanBatch
<1>3. ItemsOf(r)' = ItemsOf(r) /\ (Failed(r)' <=> Failed(r))
  BY DEF ItemsOf, Failed
<1>4. GoneOf(r)' = GoneOf(r) \cup (ItemsOf(r) \cap BatchOf(p)) /\ GoneOf(r) \cap BatchOf(p) = {}
  BY <1>1, <1>3 DEF GoneOf
<1> QED
  BY <1>1, <1>2, <1>3, <1>4 DEF SpansLeaving, LogsOf

(* A request without a record in the batch gets nothing from its records.    *)
LEMMA NoRecords ==
    ASSUME NEW logs, NEW first \in Candidates(logs), NEW unseen, NEW r, \A i \in logs : i[1] # r
    PROVE  LogRequests(logs, r) = 0 /\ LogErrors(logs, Promoted(first, unseen), r) = 0
<1>1. <<r, "summary">> \notin logs
  OBVIOUS
<1>2. ErrorsOf(Promoted(first, unseen), r) = {}
  BY DEF ErrorsOf, Promoted, Candidates
<1> QED
  BY <1>1, <1>2, FS_EmptySet DEF LogRequests, LogErrors, ErrorsOfRecords

(* A request with nothing in the batch keeps its counts.                     *)
LEMMA AbsentStep ==
    ASSUME CountsInv, NEW p, Export(p), NEW r \in WebRequest, \A i \in BatchOf(p) : i[1] # r
    PROVE  RequestInv(r)'
<1>1. /\ UNCHANGED <<served, facts, over, point>> /\ waiting' = waiting \ BatchOf(p)
      /\ r \in split' <=> r \in split /\ (Counted(p, r) \/ MissedBy(p, r))
  BY ExportOf
<1>2. FactsFit(r) /\ PointFits(r) /\ LeftWhole(r) /\ CountsDue(r)
  BY DEF CountsInv, RequestInv
<1>3. /\ ItemsOf(r)' = ItemsOf(r) /\ (Failed(r)' <=> Failed(r)) /\ GoneOf(r)' = GoneOf(r) \cup (ItemsOf(r) \cap BatchOf(p))
  BY <1>1, BatchFacts
<1>4. GoneOf(r)' = GoneOf(r)
  <2>1. \A i \in ItemsOf(r) : i[1] = r
    BY DEF ItemsOf
  <2> QED
    BY <1>3, <2>1
<1>5. requestCount'[r] = requestCount[r] /\ errorCount'[r] = errorCount[r] /\ lost'[r] = lost[r]
  <2>1. CASE MissedBy(p, r)
    BY <2>1 DEF MissedBy
  <2>2. CASE Counted(p, r)
    <3>1. TraceRequests(SpansLeaving(p), r) = 0 /\ TraceErrors(SpansLeaving(p), r) = 0
      <4>1. \A i \in SpansLeaving(p) : i[1] # r
        BY DEF SpansLeaving
      <4> QED
        BY <4>1, AbsentAddsNone
    <3>2. \A i \in LogsOf(p) : i[1] # r
      BY DEF LogsOf
    <3> QED
      BY <1>2, <2>2, <3>1, <3>2, NoRecords DEF Counted, Adds, FactsFit
  <2> QED
    BY <2>1, <2>2, ExportOf
<1>6. r \in split' <=> r \in split
  BY ExportOf
<1>7. SeenTwice(r)' <=> SeenTwice(r)
  BY <1>1, <1>6 DEF SeenTwice
<1>8. FactsFit(r)' /\ PointFits(r)' /\ LeftWhole(r)'
  BY <1>1, <1>2, <1>3, <1>4, <1>5, <1>6 DEF FactsFit, PointFits, LeftWhole
<1>9. RequestDue(r)' = RequestDue(r) /\ ErrorDue(r)' = ErrorDue(r)
  <2>1. facts' = facts /\ point' = point
    BY <1>1
  <2> QED
    BY <1>3, <1>4, <2>1 DEF RequestDue, ErrorDue, ErrorsGone, ErrorsOf
<1>10. CountsDue(r)'
  BY <1>1, <1>2, <1>5, <1>7, <1>9 DEF CountsDue
<1> QED
  BY <1>8, <1>10 DEF RequestInv

(* A request of spans is counted as a whole when it leaves as a whole.       *)
LEMMA SpansLeaveStep ==
    ASSUME CountsInv, NEW p, Export(p), NEW r \in WebRequest, \E i \in BatchOf(p) : i[1] = r, ~Logs(facts[r].way)
    PROVE  RequestInv(r)'
<1> DEFINE spans == SpansLeaving(p)
<1>1. /\ UNCHANGED <<served, facts, over, point>> /\ waiting' = waiting \ BatchOf(p)
      /\ r \in split' <=> r \in split \/ ~(ItemsOf(r) \subseteq BatchOf(p))
      /\ Counted(p, r) \/ MissedBy(p, r)
  BY ExportOf
<1>2. FactsFit(r) /\ PointFits(r) /\ LeftWhole(r) /\ CountsDue(r)
  BY DEF CountsInv, RequestInv
<1>3. /\ ItemsOf(r)' = ItemsOf(r) /\ (Failed(r)' <=> Failed(r)) /\ GoneOf(r)' = GoneOf(r) \cup (ItemsOf(r) \cap BatchOf(p))
      /\ GoneOf(r) \cap BatchOf(p) = {} /\ SpanBatch(spans) /\ (\A i \in LogsOf(p) : i[1] # r)
      /\ \A i \in BatchOf(p) : i[1] = r => i \in spans /\ i \in ItemsOf(r)
  BY <1>1, BatchFacts
<1>4. ASSUME NEW first \in Candidates(LogsOf(p)), NEW unseen
      PROVE  LogRequests(LogsOf(p), r) = 0 /\ LogErrors(LogsOf(p), Promoted(first, unseen), r) = 0
  BY <1>3, NoRecords
<1>5. TraceRequests(spans, r) \in Nat /\ TraceErrors(spans, r) \in Nat
  BY <1>3, TraceCountsTyped
<1> HIDE DEF spans
<1>6. /\ requestCount[r] \in Nat /\ errorCount[r] \in Nat /\ lost[r] \in Nat
      /\ requestCount'[r] \in Nat /\ errorCount'[r] \in Nat /\ lost'[r] \in Nat
      /\ \/ /\ requestCount'[r] = requestCount[r] + TraceRequests(spans, r) /\ lost'[r] = lost[r]
            /\ errorCount'[r] = errorCount[r] + TraceErrors(spans, r)
         \/ lost'[r] = lost[r] + 1 /\ requestCount'[r] = requestCount[r] /\ errorCount'[r] = errorCount[r]
  <2>1. requestCount[r] \in Nat /\ errorCount[r] \in Nat /\ lost[r] \in Nat
    BY <1>2 DEF FactsFit
  <2>2. CASE MissedBy(p, r)
    BY <2>1, <2>2 DEF MissedBy
  <2>3. CASE Counted(p, r)
    BY <1>4, <1>5, <2>1, <2>3 DEF Counted, Adds, spans
  <2> QED
    BY <1>1, <2>2, <2>3
<1>7. FactsFit(r)' /\ PointFits(r)'
  <2>1. FactsFit(r)'
    BY <1>1, <1>2, <1>3, <1>6 DEF FactsFit
  <2>2. PointFits(r)'
    BY <1>1, <1>2 DEF PointFits
  <2> QED
    BY <2>1, <2>2
<1>8. ItemsOf(r) \subseteq BatchOf(p) => GoneOf(r) = {} /\ GoneOf(r)' = ItemsOf(r) /\ ItemsOf(r) \subseteq spans
  <2>1. \A i \in ItemsOf(r) : i[1] = r
    BY DEF ItemsOf
  <2> QED
    BY <1>3, <2>1 DEF GoneOf
<1>9. LeftWhole(r)'
  BY <1>1, <1>3, <1>8 DEF LeftWhole
<1>10. CountsDue(r)'
  <2>1. SUFFICES ASSUME ~SeenTwice(r)'
                 PROVE  /\ requestCount'[r] <= RequestDue(r)' /\ errorCount'[r] <= ErrorDue(r)'
                        /\ lost'[r] = 0 => requestCount'[r] = RequestDue(r)' /\ errorCount'[r] = ErrorDue(r)'
    BY DEF CountsDue
  <2>2. facts' = facts /\ point' = point
    BY <1>1
  <2>3. /\ facts[r].way # "unrouted" /\ r \notin split' /\ ~SeenTwice(r) /\ ItemsOf(r) \subseteq BatchOf(p)
    BY <1>1, <2>1, <2>2 DEF SeenTwice
  <2>4. /\ requestCount[r] <= RequestDue(r) /\ errorCount[r] <= ErrorDue(r)
        /\ lost[r] = 0 => requestCount[r] = RequestDue(r) /\ errorCount[r] = ErrorDue(r)
    BY <1>2, <2>3 DEF CountsDue, Logs
  <2>5. /\ TraceRequests(spans, r) = One(facts[r].way = "spans")
        /\ TraceErrors(spans, r) =
              IF facts[r].way \in {"routed", "retained"} THEN One(facts[r].thrown # {} /\ facts[r].status < 500)
              ELSE One(Failed(r))
    BY <1>2, <1>3, <1>8, <2>3, WholeAddsOnce
  <2>6. facts[r].way \in {"spans", "routed", "retained", "kept"} /\ facts[r].status \in Nat
    <3>1. facts[r].way \in Way /\ facts[r].status \in Nat
      BY <1>2, FactsTyped DEF FactsFit
    <3> QED
      BY <2>3, <3>1 DEF Way, Logs
  <2>7. GoneOf(r) = {} /\ GoneOf(r)' # {}
    BY <1>3, <1>8, <2>3
  <2>8. /\ RequestDue(r) \in Nat /\ ErrorDue(r) \in Nat
        /\ RequestDue(r)' = RequestDue(r) + One(facts[r].way = "spans")
    BY <2>2, <2>6, <2>7 DEF RequestDue, ErrorDue, One
  <2>9. ErrorDue(r)' = ErrorDue(r) + TraceErrors(spans, r)
    <3>1. CASE facts[r].way \in {"spans", "kept"}
      BY <1>3, <2>2, <2>5, <2>7, <3>1 DEF ErrorDue, One
    <3>2. CASE facts[r].way \in {"routed", "retained"}
      BY <1>3, <2>2, <2>5, <2>6, <2>7, <3>2 DEF ErrorDue, One
    <3> QED
      BY <2>6, <3>1, <3>2
  <2>10. One(facts[r].way = "spans") \in Nat
    BY DEF One
  <2> QED
    BY <1>5, <1>6, <2>4, <2>5, <2>8, <2>9, <2>10
<1> QED
  BY <1>7, <1>9, <1>10 DEF RequestInv

(* Records count a request by its summary, and one error per trace.          *)
LEMMA LogsLeaveStep ==
    ASSUME CountsInv, NEW p, Export(p), NEW r \in WebRequest, \E i \in BatchOf(p) : i[1] = r, Logs(facts[r].way)
    PROVE  RequestInv(r)'
<1> DEFINE logs == LogsOf(p)
<1>1. /\ UNCHANGED <<served, facts, over, point>> /\ waiting' = waiting \ BatchOf(p)
      /\ Counted(p, r) \/ MissedBy(p, r)
  BY ExportOf
<1>2. FactsFit(r) /\ PointFits(r) /\ LeftWhole(r) /\ CountsDue(r)
  BY DEF CountsInv, RequestInv
<1>3. /\ ItemsOf(r)' = ItemsOf(r) /\ (Failed(r)' <=> Failed(r)) /\ GoneOf(r)' = GoneOf(r) \cup (ItemsOf(r) \cap BatchOf(p))
      /\ GoneOf(r) \cap BatchOf(p) = {} /\ (\A i \in SpansLeaving(p) : i[1] # r)
      /\ (\A i \in BatchOf(p) : i[1] = r => i \in ItemsOf(r) /\ i \in logs) /\ logs \subseteq BatchOf(p)
  BY <1>1, BatchFacts DEF LogsOf
<1>4. \A i \in ItemsOf(r) : i[1] = r
  BY DEF ItemsOf
<1>5. GoneOf(r)' = GoneOf(r) \cup {i \in logs : i[1] = r} /\ \A i \in logs : i \notin GoneOf(r)
  BY <1>3, <1>4
<1>6. (\A i \in logs : i \in Items) /\ \A i \in GoneOf(r) : i \in Items
  BY <1>3, ItemsTyped, BatchFacts, <1>1 DEF GoneOf
<1> HIDE DEF logs
<1>7. TraceRequests(SpansLeaving(p), r) = 0 /\ TraceErrors(SpansLeaving(p), r) = 0
  BY <1>3, AbsentAddsNone
<1>8. facts[r].way \in {"edge", "logged", "traced"} /\ facts' = facts /\ point' = point /\ ~SeenTwice(r) /\ ~SeenTwice(r)'
  BY <1>1 DEF Logs, SeenTwice
<1>9. requestCount[r] \in Nat /\ errorCount[r] \in Nat /\ lost[r] \in Nat
  BY <1>2 DEF FactsFit
<1>10. /\ requestCount[r] <= RequestDue(r) /\ errorCount[r] <= ErrorDue(r)
       /\ lost[r] = 0 => requestCount[r] = RequestDue(r) /\ (facts[r].way # "traced" => errorCount[r] = ErrorDue(r))
  BY <1>2, <1>8 DEF CountsDue
<1> DEFINE new == Cardinality(ErrorsOf(logs, r))
           marked == LogRequests(logs, r)
<1>11. /\ RequestDue(r) \in Nat /\ RequestDue(r)' = RequestDue(r) + marked
       /\ ErrorDue(r) \in Nat /\ new \in Nat
       /\ ErrorDue(r)' = ErrorDue(r) + IF facts[r].way = "edge" THEN (IF marked = 1 /\ Failed(r) THEN 1 ELSE 0) ELSE new
  <2>1. Cardinality(ErrorsOf(GoneOf(r)', r)) = Cardinality(ErrorsOf(GoneOf(r), r)) + new
    <3>1. ErrorsOf(GoneOf(r)', r) = ErrorsOf(GoneOf(r), r) \cup ErrorsOf(logs, r)
      BY <1>5 DEF ErrorsOf
    <3>2. ErrorsOf(GoneOf(r), r) \cap ErrorsOf(logs, r) = {}
      BY <1>5 DEF ErrorsOf
    <3>3. /\ IsFiniteSet(ErrorsOf(GoneOf(r), r)) /\ Cardinality(ErrorsOf(GoneOf(r), r)) \in Nat
          /\ IsFiniteSet(ErrorsOf(logs, r)) /\ new \in Nat
      BY <1>6, FewErrors
    <3>4. Cardinality(ErrorsOf(GoneOf(r), r) \cup ErrorsOf(logs, r)) =
             Cardinality(ErrorsOf(GoneOf(r), r)) + new - Cardinality(ErrorsOf(GoneOf(r), r) \cap ErrorsOf(logs, r))
      BY <3>3, FS_Union
    <3>5. Cardinality(ErrorsOf(GoneOf(r), r) \cap ErrorsOf(logs, r)) = 0
      BY <3>2, FS_EmptySet
    <3> QED
      BY <3>1, <3>3, <3>4, <3>5
  <2>2. Cardinality(ErrorsOf(GoneOf(r), r)) \in Nat /\ new \in Nat
    BY <1>6, FewErrors
  <2>3. RequestDue(r) \in Nat /\ RequestDue(r)' = RequestDue(r) + marked
    BY <1>5, <1>8 DEF RequestDue, One, LogRequests
  <2>4. CASE facts[r].way = "edge"
    BY <1>3, <1>5, <1>8, <2>2, <2>3, <2>4 DEF ErrorDue, One, LogRequests
  <2>5. CASE facts[r].way # "edge"
    <3>1. ErrorDue(r) = Cardinality(ErrorsOf(GoneOf(r), r)) /\ ErrorDue(r)' = Cardinality(ErrorsOf(GoneOf(r)', r))
      BY <1>8, <2>5 DEF ErrorDue, ErrorsGone, ErrorsOf
    <3> QED
      BY <2>1, <2>2, <2>3, <2>5, <3>1
  <2> QED
    BY <2>4, <2>5
<1>12. marked \in {0, 1}
  BY DEF LogRequests
<1> HIDE DEF new, marked
<1>13. \/ /\ requestCount'[r] = requestCount[r] /\ errorCount'[r] = errorCount[r] /\ lost'[r] = lost[r] + 1
       \/ /\ requestCount'[r] = requestCount[r] + marked /\ lost'[r] = lost[r]
          /\ IF facts[r].way = "edge" THEN errorCount'[r] = errorCount[r] + (IF marked = 1 /\ Failed(r) THEN 1 ELSE 0)
             ELSE \E n \in Nat : /\ errorCount'[r] = errorCount[r] + n /\ n <= new
                                 /\ facts[r].way # "traced" => n = new
  <2>1. CASE MissedBy(p, r)
    BY <2>1 DEF MissedBy
  <2>2. CASE Counted(p, r)
    <3>0. PICK first \in Candidates(logs) : \E unseen : Adds(p, r, Promoted(first, unseen))
      BY <2>2 DEF Counted, logs
    <3>1. PICK unseen : Adds(p, r, Promoted(first, unseen))
      BY <3>0
    <3> DEFINE n == Cardinality(ErrorsOf(Promoted(first, unseen), r))
    <3>2. n \in Nat /\ n <= new /\ (facts[r].way # "traced" => n = new)
      BY <1>6, PromotedAre DEF new
    <3>3. facts[r].way # "edge" => marked = 0
      BY DEF marked, LogRequests
    <3>4. LogErrors(logs, Promoted(first, unseen), r) =
             IF facts[r].way = "edge" THEN (IF marked = 1 /\ Failed(r) THEN 1 ELSE 0) ELSE n
      BY <3>2, <3>3 DEF LogErrors, ErrorsOfRecords, marked
    <3> HIDE DEF n
    <3>5. /\ requestCount'[r] = requestCount[r] + marked /\ lost'[r] = lost[r]
          /\ errorCount'[r] = errorCount[r] + LogErrors(logs, Promoted(first, unseen), r)
      BY <1>7, <1>9, <1>12, <3>1, <3>2, <3>4 DEF Adds, logs, marked
    <3> QED
      BY <3>2, <3>4, <3>5
  <2> QED
    BY <1>1, <2>1, <2>2
<1>14. FactsFit(r)'
  BY <1>1, <1>2, <1>3, <1>9, <1>12, <1>13 DEF FactsFit
<1>15. PointFits(r)' /\ LeftWhole(r)'
  BY <1>1, <1>2, <1>8 DEF PointFits, LeftWhole, Logs
<1>16. CountsDue(r)'
  BY <1>8, <1>9, <1>10, <1>11, <1>12, <1>13 DEF CountsDue
<1> QED
  BY <1>14, <1>15, <1>16 DEF RequestInv

(* What a batch of records adds to a trace: nothing where an occurrence was  *)
(* seen, else what one record adds, and the trace has an occurrence then.    *)
LEMMA TracesStep == ASSUME CountsInv, NEW p, Export(p) PROVE TracesFit'
<1> DEFINE logs == LogsOf(p)
<1>1. /\ UNCHANGED <<served, facts, over, point>> /\ waiting' = waiting \ BatchOf(p)
      /\ \/ \E first \in Candidates(logs) : \E unseen : AllCounted(p, first, unseen)
         \/ /\ UNCHANGED <<requestCount, errorCount, errorTraces, missed>>
            /\ \A r \in WebRequest : MissedBy(p, r)
  BY ExportFacts
<1>2. SUFFICES ASSUME NEW t, NEW r, InTrace(r, t)
               PROVE  /\ t \notin errorTraces' => errorCount'[r] = 0
                      /\ t \notin missed' => AloneIn(r, t)'
                      /\ lost'[r] = 0 /\ ErrorsOf(GoneOf(r)', r) # {} => t \in errorTraces'
  BY <1>1 DEF TracesFit, InTrace, ErrorsOf
<1>3. ASSUME NEW q, InTrace(q, t)
      PROVE  /\ q \in WebRequest /\ Logs(facts[q].way) /\ facts[q].way = "traced"
             /\ GoneOf(q)' = GoneOf(q) \cup (ItemsOf(q) \cap BatchOf(p))
             /\ (\A i \in SpansLeaving(p) : i[1] # q) /\ \A i \in BatchOf(p) : i[1] = q => i \in logs
             /\ errorCount[q] \in Nat /\ lost[q] \in Nat /\ \A i \in logs : i \in Items
  <2>1. q \in WebRequest /\ Logs(facts[q].way) /\ facts[q].way = "traced"
    BY <1>3 DEF InTrace, Logs
  <2> QED
    BY <1>1, <2>1, BatchFacts, ItemsTyped DEF CountsInv, RequestInv, FactsFit, LogsOf
<1>4. /\ t \notin errorTraces => errorCount[r] = 0
      /\ t \notin missed => AloneIn(r, t)
      /\ lost[r] = 0 /\ ErrorsOf(GoneOf(r), r) # {} => t \in errorTraces
  BY <1>2 DEF CountsInv, TracesFit
<1>5. ErrorsOf(GoneOf(r)', r) \subseteq ErrorsOf(GoneOf(r), r) \cup ErrorsOf(logs, r)
  BY <1>2, <1>3 DEF ErrorsOf
<1>6. \A q : InTrace(q, t)' <=> InTrace(q, t)
  BY <1>1 DEF InTrace
<1>7. CASE UNCHANGED <<requestCount, errorCount, errorTraces, missed>> /\ \A q \in WebRequest : MissedBy(p, q)
  <2>1. lost'[r] = 0 => lost[r] = 0 /\ ErrorsOf(logs, r) = {}
    BY <1>2, <1>3, <1>7 DEF MissedBy, ErrorsOf, LogsOf
  <2>2. AloneIn(r, t)' <=> AloneIn(r, t)
    BY <1>6, <1>7 DEF AloneIn
  <2> QED
    BY <1>4, <1>5, <1>7, <2>1, <2>2
<1>8. ASSUME NEW first \in Candidates(logs), NEW unseen, AllCounted(p, first, unseen)
      PROVE  /\ t \notin errorTraces' => errorCount'[r] = 0
             /\ t \notin missed' => AloneIn(r, t)'
             /\ lost'[r] = 0 /\ ErrorsOf(GoneOf(r)', r) # {} => t \in errorTraces'
  <2> DEFINE promoted == Promoted(first, unseen)
  <2>1. ASSUME NEW q, InTrace(q, t)
        PROVE  /\ errorCount'[q] = errorCount[q] + Cardinality(ErrorsOf(promoted, q)) /\ lost'[q] = lost[q]
               /\ IsFiniteSet(ErrorsOf(promoted, q)) /\ errorCount[q] \in Nat
    <3>1. TraceErrors(SpansLeaving(p), q) = 0
      BY <1>3, <2>1, AbsentAddsNone
    <3>2. IsFiniteSet(ErrorsOf(promoted, q)) /\ Cardinality(ErrorsOf(promoted, q)) \in Nat
      BY <1>3, <2>1, FewErrors DEF Promoted, Candidates
    <3>3. LogErrors(logs, promoted, q) = Cardinality(ErrorsOf(promoted, q))
      BY <1>3, <2>1, <3>2 DEF LogErrors, ErrorsOfRecords, LogRequests
    <3>4. /\ errorCount'[q] = errorCount[q] + TraceErrors(SpansLeaving(p), q) + LogErrors(logs, promoted, q)
          /\ lost'[q] = lost[q]
      BY <1>3, <1>8, <2>1 DEF AllCounted, Adds
    <3> QED
      BY <1>3, <2>1, <3>1, <3>2, <3>3, <3>4
  <2>2. errorTraces' = errorTraces \cup TracesStored(SpansLeaving(p), promoted) /\ missed' = missed \cup (unseen \cap errorTraces)
    BY <1>8 DEF AllCounted
  <2>3. ASSUME NEW q, InTrace(q, t), NEW i \in ErrorsOf(promoted, q)
        PROVE  i \in first /\ i[1] = q /\ Traced(i) /\ TraceOf[i[1]] = t /\ t \notin errorTraces \ unseen /\ t \in errorTraces'
    <3>1. i \in promoted /\ i \in first /\ i[1] = q /\ Traced(i) /\ TraceOf[i[1]] = t /\ t \notin errorTraces \ unseen
      BY <2>3 DEF ErrorsOf, Promoted, Traced, InTrace
    <3>2. t \in TracesStored(SpansLeaving(p), promoted)
      BY <3>1 DEF TracesStored
    <3> QED
      BY <2>2, <3>1, <3>2
  <2>4. ASSUME NEW q, InTrace(q, t), NEW u, InTrace(u, t),
               NEW i \in ErrorsOf(promoted, q), NEW j \in ErrorsOf(promoted, u)
        PROVE  i = j
    <3>1. SameTrace(i, j) /\ i \in first /\ j \in first
      BY <2>3, <2>4 DEF SameTrace
    <3> QED
      BY <3>1 DEF Candidates
  <2>5. ErrorsOf(logs, r) # {} => t \in errorTraces'
    <3>1. SUFFICES ASSUME NEW i \in ErrorsOf(logs, r), t \notin errorTraces PROVE t \in errorTraces'
      BY <2>2
    <3>2. Traced(i) /\ TraceOf[i[1]] = t /\ i \in logs /\ i[2] # "summary"
      BY <1>2 DEF ErrorsOf, Traced, InTrace
    <3>3. PICK j \in first : Traced(j) /\ TraceOf[j[1]] = t
      BY <3>2 DEF Candidates, SameTrace
    <3>4. j \in promoted
      BY <3>1, <3>3 DEF Promoted
    <3> QED
      BY <2>2, <3>3, <3>4 DEF TracesStored
  <2> HIDE DEF promoted
  <2>6. t \notin errorTraces' => errorCount'[r] = 0
    BY <1>2, <1>4, <2>1, <2>2, <2>3, FS_EmptySet
  <2>7. ASSUME t \notin missed' PROVE AloneIn(r, t)'
    <3>1. AloneIn(r, t)
      BY <1>4, <2>2, <2>7
    <3>2. CASE t \in errorTraces
      <4>1. ASSUME NEW q, InTrace(q, t) PROVE errorCount'[q] = errorCount[q]
        <5>1. ErrorsOf(promoted, q) = {}
          BY <2>2, <2>3, <2>7, <3>2, <4>1
        <5> QED
          BY <2>1, <4>1, <5>1, FS_EmptySet
      <4> QED
        BY <1>2, <1>6, <3>1, <4>1 DEF AloneIn
    <3>3. CASE t \notin errorTraces
      <4>1. ASSUME NEW q, InTrace(q, t) PROVE errorCount'[q] = Cardinality(ErrorsOf(promoted, q))
        <5>1. errorCount[q] = 0
          BY <3>3, <4>1 DEF CountsInv, TracesFit
        <5>2. Cardinality(ErrorsOf(promoted, q)) \in Nat
          BY <2>1, <4>1, FS_CardinalityType
        <5> QED
          BY <2>1, <4>1, <5>1, <5>2
      <4>2. CASE ErrorsOf(promoted, r) = {}
        BY <1>2, <4>1, <4>2, FS_EmptySet DEF AloneIn
      <4>3. ASSUME NEW i \in ErrorsOf(promoted, r) PROVE AloneIn(r, t)'
        <5>1. ErrorsOf(promoted, r) = {i}
          BY <1>2, <2>4, <4>3
        <5>2. ASSUME NEW q, InTrace(q, t), q # r PROVE errorCount'[q] = 0
          <6>1. ErrorsOf(promoted, q) = {}
            BY <1>2, <2>3, <2>4, <4>3, <5>2
          <6> QED
            BY <4>1, <5>2, <6>1, FS_EmptySet
        <5>3. errorCount'[r] = 1
          BY <1>2, <4>1, <5>1, FS_Singleton
        <5> QED
          BY <1>6, <5>2, <5>3 DEF AloneIn
      <4> QED
        BY <4>2, <4>3
    <3> QED
      BY <3>2, <3>3
  <2>8. lost'[r] = 0 /\ ErrorsOf(GoneOf(r)', r) # {} => t \in errorTraces'
    BY <1>2, <1>4, <1>5, <2>1, <2>2, <2>5
  <2> QED
    BY <2>6, <2>7, <2>8
<1> QED
  BY <1>1, <1>7, <1>8

(* Every step keeps the counts due.                                          *)
LEMMA CountsStep == CountsInv /\ [CountsNext]_countsVars => CountsInv'
<1> SUFFICES ASSUME CountsInv, [CountsNext]_countsVars PROVE CountsInv'
  OBVIOUS
<1>1. ASSUME NEW i \in Items, Ends(i) PROVE CountsInv'
  BY <1>1, EndsStep
<1>2. ASSUME NEW r \in WebRequest, ExportPoint(r) PROVE CountsInv'
  BY <1>2, ExportPointStep
<1>3. ASSUME NEW p \in Process, Export(p) PROVE CountsInv'
  <2>1. CountsShape'
    BY <1>3 DEF Export, Loses, CountsInv, CountsShape
  <2>2. ItemsFit'
    <3>1. waiting' \subseteq waiting /\ over' = over /\ facts' = facts
      BY <1>3 DEF Export
    <3>2. \A r : ItemsOf(r)' = ItemsOf(r)
      BY <3>1 DEF ItemsOf
    <3> QED
      BY <3>1, <3>2 DEF CountsInv, ItemsFit
  <2>3. ASSUME NEW r \in WebRequest PROVE RequestInv(r)'
    BY <1>3, AbsentStep, SpansLeaveStep, LogsLeaveStep
  <2>4. TracesFit'
    BY <1>3, TracesStep
  <2> QED
    BY <2>1, <2>2, <2>3, <2>4 DEF CountsInv
<1>4. CASE UNCHANGED countsVars
  <2>1. ASSUME NEW r PROVE /\ ItemsOf(r)' = ItemsOf(r) /\ GoneOf(r)' = GoneOf(r) /\ (Failed(r)' <=> Failed(r))
                           /\ (SeenTwice(r)' <=> SeenTwice(r)) /\ ErrorsGone(r)' = ErrorsGone(r)
    BY <1>4 DEF countsVars, ItemsOf, GoneOf, Failed, SeenTwice, ErrorsGone, ErrorsOf
  <2>2. ASSUME NEW r \in WebRequest PROVE RequestInv(r)'
    <3>1. RequestInv(r)
      BY DEF CountsInv
    <3>2. RequestDue(r)' = RequestDue(r) /\ ErrorDue(r)' = ErrorDue(r)
      <4>1. facts' = facts /\ point' = point
        BY <1>4 DEF countsVars
      <4>2. GoneOf(r)' = GoneOf(r) /\ (Failed(r)' <=> Failed(r)) /\ ErrorsGone(r)' = ErrorsGone(r)
        BY <2>1
      <4> QED
        BY <4>1, <4>2 DEF RequestDue, ErrorDue
    <3> QED
      BY <1>4, <2>1, <3>1, <3>2 DEF countsVars, RequestInv, FactsFit, PointFits, LeftWhole, CountsDue
  <2>3. TracesFit'
    BY <1>4, <2>1 DEF countsVars, CountsInv, TracesFit, InTrace, AloneIn, ErrorsOf
  <2> QED
    BY <1>4, <2>1, <2>2, <2>3 DEF countsVars, CountsInv, CountsShape, ItemsFit
<1> QED
  BY <1>1, <1>2, <1>3, <1>4 DEF CountsNext

(* In every state what is counted of a request is what has left it is due.   *)
THEOREM CountsInvariant == CountsSpec => []CountsInv
  BY CountsStart, CountsStep, PTL DEF CountsSpec

(* What is due is one request and one error at most, and one of each once    *)
(* everything that counts them has left.                                     *)
LEMMA CountedAsDue == CountsInv => RequestCountedOnce /\ FailureCountedOnce /\ LoggedErrorsPromoted /\ CountsTypeOK
<1> SUFFICES ASSUME CountsInv PROVE RequestCountedOnce /\ FailureCountedOnce /\ LoggedErrorsPromoted /\ CountsTypeOK
  OBVIOUS
<1>1. ASSUME NEW r \in WebRequest
      PROVE  /\ facts[r].way \in Way /\ facts[r].status \in Nat /\ facts[r].thrown \subseteq SpansOf(r)
             /\ requestCount[r] \in Nat /\ errorCount[r] \in Nat /\ lost[r] \in Nat
             /\ PointFits(r) /\ CountsDue(r) /\ (facts[r].way = "kept" => Failed(r))
  <2>1. FactsFit(r) /\ PointFits(r) /\ CountsDue(r)
    BY DEF CountsInv, RequestInv
  <2>2. facts[r].way \in Way /\ facts[r].status \in Nat /\ facts[r].thrown \in SUBSET SpansOf(r)
    BY <2>1, FactsTyped DEF FactsFit
  <2> QED
    BY <2>1, <2>2 DEF FactsFit
<1>2. ASSUME NEW r \in WebRequest
      PROVE  /\ RequestDue(r) \in {0, 1} /\ (facts[r].way \notin {"logged", "traced"} /\ ~SeenTwice(r) => ErrorDue(r) \in {0, 1})
             /\ ~Failed(r) /\ ~SeenTwice(r) => ErrorDue(r) = 0
  <2>1. ~Failed(r) /\ ~SeenTwice(r) => ErrorDue(r) = 0
    <3>1. ASSUME ~Failed(r) PROVE facts[r].thrown = {} /\ ~(facts[r].status >= 500)
      BY <3>1 DEF Failed
    <3>2. facts[r].thrown = {} /\ Logs(facts[r].way) => ErrorsGone(r) = 0
      <4>1. facts[r].thrown = {} /\ Logs(facts[r].way) => ErrorsOf(GoneOf(r), r) = {}
        BY DEF GoneOf, ItemsOf, ErrorsOf
      <4> QED
        BY <4>1, FS_EmptySet DEF ErrorsGone
    <3>3. facts[r].way # "unrouted" => facts[r].way \in {"spans", "routed", "retained", "kept", "edge", "logged", "traced"}
      BY <1>1 DEF Way
    <3>4. ~SeenTwice(r) => facts[r].way # "unrouted"
      BY DEF SeenTwice
    <3> QED
      BY <3>1, <3>2, <3>3, <3>4 DEF ErrorDue, One, Logs
  <2> QED
    BY <1>1, <2>1 DEF RequestDue, ErrorDue, One, Way, SeenTwice
<1>3. ASSUME NEW r \in WebRequest, Settled(r)
      PROVE  /\ GoneOf(r) = ItemsOf(r) /\ ItemsOf(r) # {} /\ point[r] \in {"none", "gone"}
             /\ Wired(facts[r].way) => point[r] = "gone"
             /\ Logs(facts[r].way) => <<r, "summary">> \in GoneOf(r)
  <2>1. GoneOf(r) = ItemsOf(r)
    BY <1>3 DEF Settled, GoneOf
  <2>2. point[r] \in {"none", "gone"}
    BY <1>1, <1>3 DEF Settled, PointFits
  <2>3. ~Logs(facts[r].way) => <<r, "http">> \in ItemsOf(r)
    BY DEF ItemsOf, SpansOf, SpanNames
  <2>4. Logs(facts[r].way) => <<r, "summary">> \in ItemsOf(r)
    BY DEF ItemsOf
  <2>5. Wired(facts[r].way) => point[r] = "gone"
    <3>1. Wired(facts[r].way) => ~Logs(facts[r].way)
      BY DEF Wired, Logs
    <3>2. ItemsOf(r) \subseteq over
      BY <1>3 DEF Settled
    <3> QED
      BY <1>1, <2>2, <2>3, <3>1, <3>2 DEF PointFits
  <2> QED
    BY <2>1, <2>2, <2>3, <2>4, <2>5
<1>4. RequestCountedOnce
  <2>1. SUFFICES ASSUME NEW r \in WebRequest, ~SeenTwice(r)
                 PROVE  /\ requestCount[r] <= 1
                        /\ Settled(r) /\ lost[r] = 0 =>
                              requestCount[r] = IF facts[r].way \in {"kept", "logged", "traced"} THEN 0 ELSE 1
    BY DEF RequestCountedOnce
  <2>2. requestCount[r] <= RequestDue(r) /\ (lost[r] = 0 => requestCount[r] = RequestDue(r))
    BY <1>1, <2>1 DEF CountsDue
  <2>3. requestCount[r] <= 1
    BY <1>1, <1>2, <2>2
  <2>4. Settled(r) => RequestDue(r) = IF facts[r].way \in {"kept", "logged", "traced"} THEN 0 ELSE 1
    <3>1. facts[r].way \in {"spans", "routed", "retained", "kept", "edge", "logged", "traced"}
      BY <1>1, <2>1 DEF Way, SeenTwice
    <3> QED
      BY <1>3, <3>1 DEF RequestDue, One, Wired, Logs
  <2> QED
    BY <2>2, <2>3, <2>4
<1>5. FailureCountedOnce
  <2>1. SUFFICES ASSUME NEW r \in WebRequest, ~SeenTwice(r)
                 PROVE  /\ ~Failed(r) => errorCount[r] = 0
                        /\ facts[r].way \notin {"logged", "traced"} =>
                              /\ errorCount[r] <= 1
                              /\ Settled(r) /\ lost[r] = 0 /\ Failed(r) => errorCount[r] = 1
    BY DEF FailureCountedOnce
  <2>2. errorCount[r] <= ErrorDue(r) /\ (lost[r] = 0 /\ facts[r].way # "traced" => errorCount[r] = ErrorDue(r))
    BY <1>1, <2>1 DEF CountsDue
  <2>3. (facts[r].way \notin {"logged", "traced"} => errorCount[r] <= 1) /\ (~Failed(r) => errorCount[r] = 0)
    BY <1>1, <1>2, <2>1, <2>2
  <2>4. Settled(r) /\ Failed(r) /\ facts[r].way \notin {"logged", "traced"} => ErrorDue(r) = 1
    <3>1. facts[r].way \in {"spans", "routed", "retained", "kept", "edge", "logged", "traced"}
      BY <1>1, <2>1 DEF Way, SeenTwice
    <3>2. Failed(r) => facts[r].thrown # {} \/ facts[r].status >= 500
      BY DEF Failed
    <3> QED
      BY <1>3, <3>1, <3>2 DEF ErrorDue, One, Wired, Logs
  <2> QED
    BY <2>2, <2>3, <2>4
<1>6. LoggedErrorsPromoted
  <2>1. ASSUME NEW r \in WebRequest, facts[r].way \in {"logged", "traced"}
        PROVE  /\ ~SeenTwice(r) /\ ErrorDue(r) = Cardinality(ErrorsOf(GoneOf(r), r))
               /\ Settled(r) => GoneOf(r) = ItemsOf(r)
    BY <1>3, <2>1 DEF SeenTwice, Logs, ErrorDue, ErrorsGone
  <2>2. ASSUME NEW r \in WebRequest, facts[r].way = "logged"
        PROVE  /\ errorCount[r] <= Cardinality(ErrorsOf(ItemsOf(r), r))
               /\ Settled(r) /\ lost[r] = 0 => errorCount[r] = Cardinality(ErrorsOf(ItemsOf(r), r))
    <3>1. errorCount[r] <= ErrorDue(r) /\ (lost[r] = 0 => errorCount[r] = ErrorDue(r))
      BY <1>1, <2>1, <2>2 DEF CountsDue
    <3>2. ErrorsOf(GoneOf(r), r) \subseteq ErrorsOf(ItemsOf(r), r)
      BY DEF GoneOf, ErrorsOf
    <3>3. \A i \in ItemsOf(r) : i \in Items
      BY <1>1, <2>2 DEF ItemsOf, Items, SpansOf, Logs
    <3>4. /\ Cardinality(ErrorsOf(GoneOf(r), r)) <= Cardinality(ErrorsOf(ItemsOf(r), r))
          /\ Cardinality(ErrorsOf(GoneOf(r), r)) \in Nat /\ Cardinality(ErrorsOf(ItemsOf(r), r)) \in Nat
      BY <3>2, <3>3, FewErrors, FS_Subset, FS_CardinalityType
    <3> QED
      BY <1>1, <2>1, <2>2, <3>1, <3>4
  <2>3. ASSUME NEW r \in WebRequest, facts[r].way = "traced"
        PROVE  /\ TraceOf[r] \notin missed =>
                     /\ errorCount[r] <= 1
                     /\ errorCount[r] = 1 =>
                           \A q \in WebRequest \ {r} :
                              facts[q].way = "traced" /\ TraceOf[q] = TraceOf[r] => errorCount[q] = 0
               /\ Settled(r) /\ lost[r] = 0 /\ facts[r].thrown # {} => TraceOf[r] \in errorTraces
    <3>1. InTrace(r, TraceOf[r])
      BY <2>3 DEF InTrace
    <3>2. facts[r].thrown # {} => ErrorsOf(ItemsOf(r), r) # {}
      <4>1. ASSUME NEW n \in facts[r].thrown PROVE <<r, n>> \in ErrorsOf(ItemsOf(r), r)
        <5>1. n \notin {"caught", "summary"}
          BY <1>1 DEF SpansOf, SpanNames
        <5>2. <<r, n>> \in ItemsOf(r)
          BY <2>3 DEF ItemsOf, Logs
        <5> QED
          BY <5>1, <5>2 DEF ErrorsOf
      <4> QED
        BY <4>1
    <3> QED
      BY <2>1, <2>3, <3>1, <3>2 DEF CountsInv, TracesFit, AloneIn, InTrace
  <2> QED
    BY <2>2, <2>3 DEF LoggedErrorsPromoted
<1>7. CountsTypeOK
  BY <1>1, ItemsTyped DEF CountsInv, ItemsFit, CountsTypeOK
<1> QED
  BY <1>4, <1>5, <1>6, <1>7

-----------------------------------------------------------------------------
(* Glob patterns: what the matcher makes of a pattern and a value.           *)

(* One character of the pattern more: a star opens a piece, any other        *)
(* character goes to the last one.                                           *)
Longer(pieces, c) ==
    IF c = Star THEN Append(pieces, <<>>) ELSE [pieces EXCEPT ![Len(pieces)] = Append(@, c)]
SplitUp(f, pattern) ==
    f[0] = <<(<<>>)>> /\ \A k \in 1 .. Len(pattern) : f[k] = Longer(f[k - 1], pattern[k])
PiecesOver(Ch) == {s \in Seq(Seq(Ch)) : Len(s) # 0}

(* A character more leaves the closed pieces alone.                          *)
LEMMA LongerIs ==
    ASSUME NEW Ch, NEW s \in PiecesOver(Ch), NEW c \in Ch
    PROVE  /\ Longer(s, c) \in PiecesOver(Ch)
           /\ Len(s) \in Nat \ {0} /\ s[Len(s)] \in Seq(Ch)
           /\ c = Star => /\ Len(Longer(s, c)) = Len(s) + 1 /\ Longer(s, c)[Len(s) + 1] = <<>>
                          /\ \A i \in 1 .. Len(s) : Longer(s, c)[i] = s[i]
           /\ c # Star => /\ Len(Longer(s, c)) = Len(s) /\ Longer(s, c)[Len(s)] = Append(s[Len(s)], c)
                          /\ \A i \in 1 .. Len(s) - 1 : Longer(s, c)[i] = s[i]
<1>1. s \in Seq(Seq(Ch)) /\ Len(s) \in Nat \ {0}
  BY DEF PiecesOver
<1>2. \A i \in 1 .. Len(s) : s[i] \in Seq(Ch)
  BY <1>1
<1>3. s[Len(s)] \in Seq(Ch)
  BY <1>1, <1>2
<1>4. CASE c = Star
  <2>1. <<>> \in Seq(Ch)
    OBVIOUS
  <2> DEFINE r == Append(s, <<>>)
  <2>2. r \in Seq(Seq(Ch)) /\ Len(r) = Len(s) + 1 /\ r[Len(s) + 1] = <<>> /\ \A i \in 1 .. Len(s) : r[i] = s[i]
    BY <1>1, <2>1
  <2>3. Longer(s, c) = r
    BY <1>4 DEF Longer
  <2> HIDE DEF r
  <2> QED
    BY <1>1, <1>3, <1>4, <2>2, <2>3 DEF PiecesOver
<1>5. CASE c # Star
  <2> DEFINE e == Append(s[Len(s)], c)
             r == [s EXCEPT ![Len(s)] = e]
  <2>1. e \in Seq(Ch)
    BY <1>3
  <2>2. r \in Seq(Seq(Ch)) /\ Len(r) = Len(s) /\ r[Len(s)] = e /\ \A i \in 1 .. Len(s) - 1 : r[i] = s[i]
    <3> HIDE DEF e
    <3> QED
      BY <1>1, <2>1
  <2>3. Longer(s, c) = r
    BY <1>5 DEF Longer
  <2> HIDE DEF r
  <2> QED
    BY <1>1, <1>3, <1>5, <2>2, <2>3 DEF PiecesOver
<1> QED
  BY <1>4, <1>5

(* The pieces of a pattern are those of its prefixes, one character after    *)
(* the other.                                                                *)
LEMMA PiecesGrow ==
    ASSUME NEW Ch, NEW pattern \in Seq(Ch)
    PROVE  \E f \in [0 .. Len(pattern) -> PiecesOver(Ch)] : SplitUp(f, pattern) /\ Pieces(pattern) = f[Len(pattern)]
<1> DEFINE n == Len(pattern)
           D == PiecesOver(Ch)
           none == <<(<<>>)>>
           step == [p \in D \X (1 .. n) |-> Longer(p[1], pattern[p[2]])]
           Runs(g) == g = [s \in SUBSET (1 .. n) |->
                             IF s = {} THEN none ELSE Longer(g[s \ {Max(s)}], pattern[Max(s)])]
           iter == CHOOSE g : Runs(g)
<1>1. n \in Nat /\ DOMAIN pattern = 1 .. n /\ \A k \in 1 .. n : pattern[k] \in Ch
  OBVIOUS
<1>2. none \in D
  <2>1. <<>> \in Seq(Ch)
    OBVIOUS
  <2>2. none \in Seq(Seq(Ch)) /\ Len(none) = 1
    BY <2>1
  <2>3. Len(none) # 0
    BY <2>2
  <2> HIDE DEF none
  <2> QED
    BY <2>2, <2>3 DEF PiecesOver
<1>3. step \in [D \X (1 .. n) -> D]
  <2> HIDE DEF D
  <2>1. \A s \in D, k \in 1 .. n : Longer(s, pattern[k]) \in D
    BY <1>1, LongerIs DEF D
  <2> QED
    BY <2>1
<1>4. PICK g \in [SUBSET (1 .. n) -> D] : g = LeftStep(step, none, n, g)
  <2>1. CanFold(step, none, n, D)
    BY <1>1, <1>2, <1>3 DEF CanFold
  <2> HIDE DEF step, n, none, D
  <2>2. PICK g : IsLeftFold(g, step, none, n, D)
    BY <2>1, CanFoldLeft
  <2> QED
    BY <2>2 DEF IsLeftFold
<1>5. Runs(g)
  <2>1. ASSUME NEW s \in SUBSET (1 .. n)
        PROVE  g[s] = IF s = {} THEN none ELSE Longer(g[s \ {Max(s)}], pattern[Max(s)])
    <3>1. g[s] = IF s = {} THEN none ELSE step[<<g[s \ {Max(s)}], Max(s)>>]
      <4> HIDE DEF step, none
      <4> QED
        BY <1>4 DEF LeftStep
    <3>2. ASSUME s # {} PROVE step[<<g[s \ {Max(s)}], Max(s)>>] = Longer(g[s \ {Max(s)}], pattern[Max(s)])
      <4>1. g[s \ {Max(s)}] \in D /\ Max(s) \in 1 .. n
        BY <1>1, <1>4, <3>2, LastOfLess
      <4> HIDE DEF D
      <4> QED
        BY <4>1
    <3> HIDE DEF none
    <3> QED
      BY <3>1, <3>2
  <2>2. g = [s \in SUBSET (1 .. n) |-> g[s]]
    OBVIOUS
  <2> HIDE DEF none
  <2> QED
    BY <2>1, <2>2
<1>6. Runs(iter)
  <2> HIDE DEF Runs
  <2> QED
    BY <1>5
<1>7. Pieces(pattern) = iter[1 .. n]
  BY <1>1 DEF Pieces, FoldLeft, MapThenFoldSet, Longer
<1> HIDE DEF iter, step, D, none
<1> DEFINE f == [k \in 0 .. n |-> iter[1 .. k]]
<1>8. f[0] = none /\ \A k \in 1 .. n : f[k] = Longer(f[k - 1], pattern[k])
  <2>1. \A s \in SUBSET (1 .. n) : iter[s] = IF s = {} THEN none ELSE Longer(iter[s \ {Max(s)}], pattern[Max(s)])
    BY <1>6
  <2>2. f[0] = none
    <3>1. 1 .. 0 = {} /\ 0 \in 0 .. n
      BY <1>1
    <3> QED
      BY <2>1, <3>1
  <2>3. ASSUME NEW k \in 1 .. n PROVE f[k] = Longer(f[k - 1], pattern[k])
    <3>1. 1 .. k \in SUBSET (1 .. n) /\ 1 .. k # {} /\ Max(1 .. k) = k /\ (1 .. k) \ {k} = 1 .. (k - 1)
      BY <1>1, LastOfPrefix
    <3>2. iter[1 .. k] = Longer(iter[1 .. (k - 1)], pattern[k])
      BY <2>1, <3>1
    <3>3. k \in 0 .. n /\ k - 1 \in 0 .. n
      BY <1>1
    <3> QED
      BY <3>2, <3>3
  <2> HIDE DEF f
  <2> QED
    BY <2>2, <2>3
<1>9. \A k \in 0 .. n : f[k] \in D
  <2> DEFINE Typed == {k \in 0 .. n : f[k] \in D}
  <2>1. 0 \in Typed
    BY <1>1, <1>2, <1>8
  <2>2. ASSUME NEW k \in 1 .. n, k - 1 \in Typed PROVE k \in Typed
    <3> HIDE DEF f
    <3>1. f[k] = Longer(f[k - 1], pattern[k]) /\ f[k - 1] \in D /\ pattern[k] \in Ch
      BY <1>1, <1>8, <2>2
    <3>2. f[k] \in D
      BY <3>1, LongerIs DEF D
    <3>3. k \in 0 .. n
      BY <1>1
    <3> QED
      BY <3>2, <3>3
  <2> HIDE DEF Typed
  <2>3. \A k \in 0 .. n : k \in Typed
    BY <1>1, <2>1, <2>2, InductionTo
  <2> QED
    BY <2>3 DEF Typed
<1>10. f \in [0 .. n -> D] /\ f[n] = iter[1 .. n]
  BY <1>1, <1>9
<1>11. SplitUp(f, pattern)
  <2> HIDE DEF f
  <2> QED
    BY <1>8 DEF SplitUp, none
<1> QED
  BY <1>7, <1>10, <1>11 DEF D

(* Closed pieces are pieces of the whole pattern.                            *)
LEMMA PiecesClose ==
    ASSUME NEW Ch, NEW pattern \in Seq(Ch), NEW f \in [0 .. Len(pattern) -> PiecesOver(Ch)], SplitUp(f, pattern)
    PROVE  \A k \in 0 .. Len(pattern) : /\ Len(f[k]) <= Len(f[Len(pattern)])
                                        /\ \A i \in 1 .. Len(f[k]) - 1 : f[Len(pattern)][i] = f[k][i]
<1> DEFINE n == Len(pattern)
           Stays(j, k) == Len(f[j]) <= Len(f[k]) /\ \A i \in 1 .. Len(f[j]) - 1 : f[k][i] = f[j][i]
           S == {k \in 0 .. n : \A j \in 0 .. k : Stays(j, k)}
<1>1. n \in Nat /\ \A k \in 1 .. n : pattern[k] \in Ch /\ k - 1 \in 0 .. n /\ k \in 0 .. n
  OBVIOUS
<1>2. ASSUME NEW k \in 0 .. n PROVE Stays(k, k)
  <2>1. f[k] \in PiecesOver(Ch)
    OBVIOUS
  <2>2. Len(f[k]) \in Nat
    BY <2>1 DEF PiecesOver
  <2> QED
    BY <2>2
<1>3. 0 \in S
  <2>1. \A j \in 0 .. 0 : j = 0
    OBVIOUS
  <2>2. 0 \in 0 .. n
    BY <1>1
  <2> HIDE DEF Stays
  <2> QED
    BY <1>2, <2>1, <2>2
<1>4. ASSUME NEW k \in 1 .. n, k - 1 \in S PROVE k \in S
  <2>1. f[k - 1] \in PiecesOver(Ch) /\ pattern[k] \in Ch /\ f[k] = Longer(f[k - 1], pattern[k])
    BY <1>1 DEF SplitUp
  <2>2. /\ Len(f[k - 1]) \in Nat \ {0} /\ Len(f[k]) \in {Len(f[k - 1]), Len(f[k - 1]) + 1}
        /\ \A i \in 1 .. Len(f[k - 1]) - 1 : f[k][i] = f[k - 1][i]
    <3> DEFINE s == f[k - 1]
               c == pattern[k]
    <3>0. s \in PiecesOver(Ch) /\ c \in Ch /\ f[k] = Longer(s, c)
      BY <2>1
    <3> HIDE DEF s, c
    <3>1. Len(s) \in Nat \ {0}
      BY <3>0, LongerIs
    <3>2. CASE c = Star
      <4>1. Len(Longer(s, c)) = Len(s) + 1 /\ \A i \in 1 .. Len(s) : Longer(s, c)[i] = s[i]
        BY <3>0, <3>2, LongerIs
      <4> QED
        BY <3>0, <3>1, <4>1 DEF s
    <3>3. CASE c # Star
      <4>1. Len(Longer(s, c)) = Len(s) /\ \A i \in 1 .. Len(s) - 1 : Longer(s, c)[i] = s[i]
        BY <3>0, <3>3, LongerIs
      <4> QED
        BY <3>0, <3>1, <4>1 DEF s
    <3> QED
      BY <3>2, <3>3
  <2>3. ASSUME NEW j \in 0 .. (k - 1) PROVE Stays(j, k)
    <3>1. Stays(j, k - 1)
      BY <1>4
    <3>2. Len(f[j]) \in Nat
      <4>1. j \in 0 .. n
        BY <1>1
      <4>2. f[j] \in PiecesOver(Ch)
        BY <4>1
      <4> QED
        BY <4>2 DEF PiecesOver
    <3> QED
      BY <2>2, <3>1, <3>2
  <2>4. \A j \in 0 .. k : j \in 0 .. (k - 1) \/ j = k
    BY <1>1
  <2>5. k \in 0 .. n
    BY <1>1
  <2> HIDE DEF Stays
  <2> QED
    BY <1>2, <2>3, <2>4, <2>5
<1> HIDE DEF S
<1>5. \A k \in 0 .. n : k \in S
  BY <1>1, <1>3, <1>4, InductionTo
<1>6. n \in S /\ \A k \in 0 .. n : k \in 0 .. n
  BY <1>1, <1>5
<1> QED
  BY <1>6 DEF S

-----------------------------------------------------------------------------
(* Where the text goes on after a piece, when the pieces before it end at v. *)
PlacesOf(piece, text, v) == {p \in v .. Len(text) : StartsAt(piece, text, p)}
Leftmost(places) == CHOOSE p \in places : \A q \in places : p <= q
GoesOn(pieces, text, v, i) ==
    IF i = 1 THEN IF StartsAt(pieces[1], text, 0) THEN Len(pieces[1]) ELSE -1
    ELSE IF v = -1 \/ PlacesOf(pieces[i], text, v) = {} THEN -1
         ELSE Leftmost(PlacesOf(pieces[i], text, v)) + Len(pieces[i])
Continues(h, pieces, text) ==
    \A i \in 1 .. Len(pieces) : h[i] = GoesOn(pieces, text, h[i - 1], i)

(* Where the pattern may end after one more character.                       *)
MayEnd(ends, c, text) ==
    IF c = Star THEN {t \in 0 .. Len(text) : \E u \in ends : u <= t}
    ELSE {t \in 1 .. Len(text) : t - 1 \in ends /\ text[t] = c}
EndsRun(e, pattern, text) ==
    e[0] = {0} /\ \A k \in 1 .. Len(pattern) : e[k] = MayEnd(e[k - 1], pattern[k], text)

(* The first of the places, if any.                                          *)
LEMMA FirstPlace ==
    ASSUME NEW piece, NEW text, NEW v \in Nat, PlacesOf(piece, text, v) # {}
    PROVE  /\ Leftmost(PlacesOf(piece, text, v)) \in PlacesOf(piece, text, v)
           /\ \A q \in PlacesOf(piece, text, v) : Leftmost(PlacesOf(piece, text, v)) <= q
<1> DEFINE S == PlacesOf(piece, text, v)
<1>1. S \in SUBSET Nat /\ S # {}
  BY DEF PlacesOf
<1> HIDE DEF S
<1>2. PICK p \in S : \A q \in S : p <= q
  BY <1>1, LeastNatural
<1>3. Leftmost(S) \in S /\ \A q \in S : Leftmost(S) <= q
  BY <1>2 DEF Leftmost
<1> QED
  BY <1>3 DEF S

(* The text goes on within the text.                                         *)
LEMMA GoesOnWithin ==
    ASSUME NEW Ch, NEW pieces \in PiecesOver(Ch), NEW text \in Seq(Ch), NEW v \in -1 .. Len(text),
           NEW i \in 1 .. Len(pieces)
    PROVE  GoesOn(pieces, text, v, i) \in -1 .. Len(text)
<1>1. Len(text) \in Nat /\ pieces \in Seq(Seq(Ch))
  BY DEF PiecesOver
<1>2. pieces[i] \in Seq(Ch)
  BY <1>1
<1>3. Len(pieces[i]) \in Nat
  BY <1>2
<1>4. CASE i = 1
  BY <1>1, <1>3, <1>4 DEF GoesOn, StartsAt
<1>5. CASE i # 1 /\ v # -1 /\ PlacesOf(pieces[i], text, v) # {}
  <2>1. v \in Nat
    BY <1>1, <1>5
  <2> DEFINE p == Leftmost(PlacesOf(pieces[i], text, v))
  <2>2. p \in PlacesOf(pieces[i], text, v)
    BY <1>5, <2>1, FirstPlace
  <2> HIDE DEF p
  <2>3. p \in Nat /\ p + Len(pieces[i]) <= Len(text)
    BY <2>1, <2>2 DEF PlacesOf, StartsAt
  <2>4. GoesOn(pieces, text, v, i) = p + Len(pieces[i])
    BY <1>5 DEF GoesOn, p
  <2> QED
    BY <1>1, <1>3, <2>3, <2>4
<1>6. CASE i # 1 /\ (v = -1 \/ PlacesOf(pieces[i], text, v) = {})
  <2>1. GoesOn(pieces, text, v, i) = -1
    BY <1>6 DEF GoesOn
  <2> QED
    BY <1>1, <2>1
<1> QED
  BY <1>4, <1>5, <1>6

(* What the matcher answers, from where the text goes on after each piece.   *)
MatchedBy(h, pattern, text) ==
    IF Len(Pieces(pattern)) = 1 THEN pattern = text
    ELSE /\ h[Len(Pieces(pattern)) - 1] # -1
         /\ EndsAfter(Last(Pieces(pattern)), text, h[Len(Pieces(pattern)) - 1])

(* The recursion of the matcher has a solution, and the matcher goes by it.  *)
LEMMA MatcherRuns ==
    ASSUME NEW Ch, NEW pattern \in Seq(Ch), NEW text \in Seq(Ch), Pieces(pattern) \in PiecesOver(Ch)
    PROVE  \E h \in [0 .. Len(Pieces(pattern)) -> -1 .. Len(text)] :
              Continues(h, Pieces(pattern), text) /\ (GlobMatch(pattern, text) <=> MatchedBy(h, pattern, text))
<1> DEFINE P == Pieces(pattern)
           M == Len(P)
           D == -1 .. Len(text)
           step == [p \in D \X (1 .. M) |-> GoesOn(P, text, p[1], p[2])]
           Runs(g) == g = [i \in 1 .. M |-> GoesOn(P, text, g[i - 1], i)]
           next == CHOOSE g : Runs(g)
<1>1. M \in Nat \ {0} /\ Len(text) \in Nat /\ -1 \in D
  BY DEF PiecesOver
<1>2. step \in [D \X (1 .. M) -> D]
  <2>1. \A v \in D, i \in 1 .. M : GoesOn(P, text, v, i) \in D
    BY GoesOnWithin
  <2> HIDE DEF D, M, P
  <2> QED
    BY <2>1
<1>3. PICK h \in [0 .. M -> D] : Chained(h, step, -1, M)
  <2> HIDE DEF D, M, P, step
  <2>1. CanFold(step, -1, M, D)
    BY <1>1, <1>2 DEF CanFold
  <2> QED
    BY <2>1, CanChain
<1>4. \A i \in 1 .. M : h[i] = GoesOn(P, text, h[i - 1], i)
  <2>1. ASSUME NEW i \in 1 .. M PROVE h[i] = GoesOn(P, text, h[i - 1], i)
    <3> HIDE DEF D, M, P
    <3>1. i - 1 \in 0 .. M
      BY <1>1
    <3>2. h[i - 1] \in D
      BY <3>1
    <3>3. h[i] = step[<<h[i - 1], i>>]
      BY <1>3 DEF Chained
    <3>4. step[<<h[i - 1], i>>] = GoesOn(P, text, h[i - 1], i)
      BY <3>2
    <3> QED
      BY <3>3, <3>4
  <2> QED
    BY <2>1
<1> HIDE DEF step
<1>5. Runs([i \in 1 .. M |-> h[i]])
  <2> DEFINE g == [i \in 1 .. M |-> h[i]]
  <2>1. ASSUME NEW i \in 1 .. M PROVE g[i] = GoesOn(P, text, g[i - 1], i)
    <3>1. CASE i = 1
      <4>1. GoesOn(P, text, g[i - 1], i) = GoesOn(P, text, h[i - 1], i)
        BY <3>1 DEF GoesOn
      <4> QED
        BY <1>4, <4>1
    <3>2. CASE i # 1
      <4>1. i - 1 \in 1 .. M
        BY <1>1, <3>2
      <4>2. g[i - 1] = h[i - 1]
        BY <4>1
      <4> QED
        BY <1>4, <4>2
    <3> QED
      BY <3>1, <3>2
  <2> HIDE DEF M, P
  <2> QED
    BY <2>1
<1>6. Runs(next)
  <2> HIDE DEF Runs
  <2> QED
    BY <1>5
<1>7. GlobMatch(pattern, text) <=>
        IF M = 1 THEN pattern = text ELSE next[M - 1] # -1 /\ EndsAfter(Last(P), text, next[M - 1])
  BY DEF GlobMatch, GoesOn, PlacesOf, Leftmost
<1> HIDE DEF next
<1> DEFINE w == [i \in 0 .. M |-> IF i = 0 THEN -1 ELSE next[i]]
<1>8. \A i \in 1 .. M : next[i] = GoesOn(P, text, next[i - 1], i)
  <2> HIDE DEF M, P
  <2> QED
    BY <1>6
<1>9. ASSUME NEW i \in 1 .. M PROVE w[i] = GoesOn(P, text, w[i - 1], i)
  <2>1. i \in 0 .. M /\ i - 1 \in 0 .. M /\ w[i] = next[i]
    BY <1>1
  <2>2. CASE i = 1
    <3>1. GoesOn(P, text, next[i - 1], i) = GoesOn(P, text, w[i - 1], i)
      BY <2>2 DEF GoesOn
    <3> QED
      BY <1>8, <2>1, <3>1
  <2>3. CASE i # 1
    <3>1. w[i - 1] = next[i - 1]
      BY <2>1, <2>3
    <3> QED
      BY <1>8, <2>1, <3>1
  <2> QED
    BY <2>2, <2>3
<1>10. \A i \in 0 .. M : w[i] \in D
  <2> DEFINE S == {i \in 0 .. M : w[i] \in D}
  <2>1. 0 \in S
    BY <1>1
  <2>2. ASSUME NEW i \in 1 .. M, i - 1 \in S PROVE i \in S
    <3>1. w[i - 1] \in D /\ i \in 0 .. M
      BY <1>1, <2>2
    <3> HIDE DEF w
    <3>2. GoesOn(P, text, w[i - 1], i) \in D
      BY <3>1, GoesOnWithin
    <3> QED
      BY <1>9, <3>1, <3>2
  <2> HIDE DEF S
  <2>3. \A i \in 0 .. M : i \in S
    BY <1>1, <2>1, <2>2, InductionTo
  <2> QED
    BY <2>3 DEF S
<1>11. w \in [0 .. M -> D]
  BY <1>10
<1>12. M # 1 => w[M - 1] = next[M - 1]
  <2> HIDE DEF M
  <2> QED
    BY <1>1
<1> HIDE DEF w
<1>13. Continues(w, P, text)
  BY <1>9 DEF Continues
<1>14. GlobMatch(pattern, text) <=> MatchedBy(w, pattern, text)
  BY <1>7, <1>12 DEF MatchedBy
<1> QED
  BY <1>11, <1>13, <1>14

(* What the glob means, character by character.                              *)
LEMMA MeaningRuns ==
    ASSUME NEW Ch, NEW pattern \in Seq(Ch), NEW text \in Seq(Ch)
    PROVE  \E e \in [0 .. Len(pattern) -> SUBSET (0 .. Len(text))] :
              EndsRun(e, pattern, text) /\ (Means(pattern, text) <=> Len(text) \in e[Len(pattern)])
<1> DEFINE n == Len(pattern)
           D == SUBSET (0 .. Len(text))
           step == [p \in D \X (1 .. n) |-> MayEnd(p[1], pattern[p[2]], text)]
           Runs(g) == g = [p \in 0 .. n |->
                CASE p = 0 -> {0}
                  [] p > 0 /\ pattern[p] = Star -> {t \in 0 .. Len(text) : \E u \in g[p - 1] : u <= t}
                  [] OTHER -> {t \in 1 .. Len(text) : t - 1 \in g[p - 1] /\ text[t] = pattern[p]}]
           ends == CHOOSE g : Runs(g)
<1>1. n \in Nat /\ Len(text) \in Nat /\ {0} \in D
  OBVIOUS
<1>2. step \in [D \X (1 .. n) -> D]
  <2>1. \A s \in D, i \in 1 .. n : MayEnd(s, pattern[i], text) \in D
    BY <1>1 DEF MayEnd
  <2> HIDE DEF D, n
  <2> QED
    BY <2>1
<1>3. PICK e \in [0 .. n -> D] : Chained(e, step, {0}, n)
  <2> HIDE DEF D, n, step
  <2>1. CanFold(step, {0}, n, D)
    BY <1>1, <1>2 DEF CanFold
  <2> QED
    BY <2>1, CanChain
<1>4. e[0] = {0} /\ \A i \in 1 .. n : e[i] = MayEnd(e[i - 1], pattern[i], text)
  <2>1. ASSUME NEW i \in 1 .. n PROVE e[i] = MayEnd(e[i - 1], pattern[i], text)
    <3> HIDE DEF D, n
    <3>1. i - 1 \in 0 .. n
      BY <1>1
    <3>2. e[i - 1] \in D
      BY <3>1
    <3>3. e[i] = step[<<e[i - 1], i>>]
      BY <1>3 DEF Chained
    <3>4. step[<<e[i - 1], i>>] = MayEnd(e[i - 1], pattern[i], text)
      BY <3>2
    <3> QED
      BY <3>3, <3>4
  <2> QED
    BY <1>3, <2>1 DEF Chained
<1> HIDE DEF step
<1>5. Runs(e)
  <2>1. ASSUME NEW p \in 0 .. n
        PROVE  e[p] = CASE p = 0 -> {0}
                  [] p > 0 /\ pattern[p] = Star -> {t \in 0 .. Len(text) : \E u \in e[p - 1] : u <= t}
                  [] OTHER -> {t \in 1 .. Len(text) : t - 1 \in e[p - 1] /\ text[t] = pattern[p]}
    <3>1. CASE p = 0
      BY <1>4, <3>1
    <3>2. CASE p # 0 /\ pattern[p] = Star
      <4>1. p \in 1 .. n /\ p > 0
        BY <1>1, <3>2
      <4> QED
        BY <1>4, <3>2, <4>1 DEF MayEnd
    <3>3. CASE p # 0 /\ pattern[p] # Star
      <4>1. p \in 1 .. n
        BY <1>1, <3>3
      <4> QED
        BY <1>4, <3>3, <4>1 DEF MayEnd
    <3> QED
      BY <3>1, <3>2, <3>3
  <2>2. e = [p \in 0 .. n |-> e[p]]
    BY <1>3
  <2> QED
    BY <2>1, <2>2
<1>6. Runs(ends)
  <2> HIDE DEF Runs
  <2> QED
    BY <1>5
<1>7. Means(pattern, text) <=> Len(text) \in ends[n]
  BY DEF Means
<1> HIDE DEF ends
<1>8. ends[0] = {0} /\ \A i \in 1 .. n : ends[i] = MayEnd(ends[i - 1], pattern[i], text)
  <2>1. ends[0] = {0}
    BY <1>1, <1>6
  <2>2. ASSUME NEW i \in 1 .. n PROVE ends[i] = MayEnd(ends[i - 1], pattern[i], text)
    <3>1. i \in 0 .. n /\ i # 0 /\ i > 0
      BY <1>1
    <3> QED
      BY <1>6, <3>1 DEF MayEnd
  <2> QED
    BY <2>1, <2>2
<1>9. DOMAIN ends = 0 .. n /\ ends = [p \in 0 .. n |-> ends[p]]
  BY <1>6
<1>10. \A i \in 0 .. n : ends[i] \in D
  <2>1. ASSUME NEW i \in 0 .. n PROVE ends[i] \in D
    <3>1. CASE i = 0
      BY <1>1, <1>8, <3>1
    <3>2. CASE i # 0
      <4>1. i \in 1 .. n
        BY <1>1, <3>2
      <4>2. ends[i] = MayEnd(ends[i - 1], pattern[i], text)
        BY <1>8, <4>1
      <4>3. \A s, c : MayEnd(s, c, text) \in D
        BY <1>1 DEF MayEnd
      <4> HIDE DEF D
      <4> QED
        BY <4>2, <4>3
    <3> QED
      BY <3>1, <3>2
  <2> QED
    BY <2>1
<1>11. ends \in [0 .. n -> D]
  <2> HIDE DEF n, D
  <2> QED
    BY <1>9, <1>10
<1>12. EndsRun(ends, pattern, text)
  BY <1>8 DEF EndsRun
<1> QED
  BY <1>7, <1>11, <1>12

-----------------------------------------------------------------------------
(* The places where a prefix of the pattern may end: where its last piece    *)
(* ends, at or after the place the matcher goes on from.                     *)
Sound(h, e, pieces, pattern, text, k) ==
    LET m == Len(pieces)   piece == pieces[Len(pieces)] IN
    IF m = 1
    THEN /\ Len(piece) = k /\ \A i \in 1 .. k : piece[i] = pattern[i] /\ pattern[i] # Star
         /\ \A t \in 0 .. Len(text) : t \in e <=> (t = k /\ StartsAt(piece, text, 0))
    ELSE \A t \in 0 .. Len(text) :
            t \in e <=> (h[m - 1] # -1 /\ t - Len(piece) >= h[m - 1] /\ StartsAt(piece, text, t - Len(piece)))

(* A piece of one character more starts where it did, if the character is    *)
(* the next one.                                                             *)
LEMMA StartsLonger ==
    ASSUME NEW Ch, NEW piece \in Seq(Ch), NEW text \in Seq(Ch), NEW c \in Ch, NEW at \in Nat
    PROVE  StartsAt(Append(piece, c), text, at) <=>
              /\ StartsAt(piece, text, at) /\ at + Len(piece) + 1 <= Len(text)
              /\ text[at + Len(piece) + 1] = c
<1> DEFINE r == Append(piece, c)
           n == Len(piece)
<1>1. /\ n \in Nat /\ Len(text) \in Nat /\ Len(r) = n + 1 /\ r[n + 1] = c
      /\ \A i \in 1 .. n : r[i] = piece[i]
  OBVIOUS
<1> HIDE DEF r
<1>2. StartsAt(r, text, at) <=> at + (n + 1) <= Len(text) /\ \A i \in 1 .. n + 1 : text[at + i] = r[i]
  BY <1>1 DEF StartsAt
<1>3. (\A i \in 1 .. n + 1 : text[at + i] = r[i]) <=>
        (\A i \in 1 .. n : text[at + i] = piece[i]) /\ text[at + (n + 1)] = c
  <2>1. \A i \in 1 .. n + 1 : i \in 1 .. n \/ i = n + 1
    BY <1>1
  <2>2. n + 1 \in 1 .. n + 1 /\ \A i \in 1 .. n : i \in 1 .. n + 1
    BY <1>1
  <2> QED
    BY <1>1, <2>1, <2>2
<1>4. at + (n + 1) = at + n + 1
  BY <1>1
<1> QED
  BY <1>1, <1>2, <1>3, <1>4 DEF StartsAt, r

(* A piece of no character is everywhere in the text.                        *)
LEMMA EmptyStarts ==
    ASSUME NEW Ch, NEW text \in Seq(Ch), NEW t \in 0 .. Len(text)
    PROVE  StartsAt(<<>>, text, t) /\ Len(<<>>) = 0 /\ t - 0 = t
  BY DEF StartsAt

(* A star: the text goes on at the first place of the piece it closes.       *)
LEMMA StarIsSound ==
    ASSUME NEW Ch, NEW pattern \in Seq(Ch), NEW text \in Seq(Ch), NEW s \in PiecesOver(Ch), NEW k \in 1 .. Len(pattern),
           NEW M \in Nat, NEW h \in [0 .. M -> -1 .. Len(text)], Len(s) < M,
           NEW P, P[Len(s)] = s[Len(s)], h[Len(s)] = GoesOn(P, text, h[Len(s) - 1], Len(s)),
           NEW e \in SUBSET (0 .. Len(text)), Sound(h, e, s, pattern, text, k - 1), pattern[k] = Star
    PROVE  Sound(h, MayEnd(e, Star, text), Longer(s, Star), pattern, text, k)
<1> DEFINE m == Len(s)
           L == s[m]
           T == Len(text)
           r == Longer(s, Star)
<1>1. m \in Nat \ {0} /\ L \in Seq(Ch) /\ Len(r) = m + 1 /\ r[m + 1] = <<>>
  <2>1. pattern[k] \in Ch
    OBVIOUS
  <2> QED
    BY <2>1, LongerIs
<1>2. T \in Nat /\ Len(L) \in Nat /\ k \in Nat \ {0} /\ (m + 1) - 1 = m
  <2>1. T \in Nat /\ k \in Nat \ {0}
    OBVIOUS
  <2> HIDE DEF m, L, r
  <2> QED
    BY <1>1, <2>1
<1>3. h[m] \in -1 .. T /\ h[m - 1] \in -1 .. T
  <2>1. m \in 0 .. M /\ m - 1 \in 0 .. M
    BY SMTT(40), <1>1
  <2> QED
    BY <2>1
<1> HIDE DEF r
<1>4. ASSUME NEW t \in 0 .. T PROVE (\E u \in e : u <= t) <=> (h[m] # -1 /\ t >= h[m])
  <2>1. CASE m = 1
    <3>1. h[m] = IF StartsAt(L, text, 0) THEN Len(L) ELSE -1
      BY <2>1 DEF GoesOn
    <3>2. Len(L) = k - 1 /\ \A u \in 0 .. T : u \in e <=> (u = k - 1 /\ StartsAt(L, text, 0))
      BY <2>1 DEF Sound
    <3>3. StartsAt(L, text, 0) => Len(L) <= T
      BY <1>2 DEF StartsAt
    <3> HIDE DEF L
    <3> QED
      BY <1>2, <3>1, <3>2, <3>3
  <2>2. CASE m # 1
    <3> DEFINE v == h[m - 1]
               S == PlacesOf(L, text, v)
    <3>1. h[m] = IF v = -1 \/ S = {} THEN -1 ELSE Leftmost(S) + Len(L)
      BY <2>2 DEF GoesOn
    <3>2. \A u \in 0 .. T : u \in e <=> (v # -1 /\ u - Len(L) >= v /\ StartsAt(L, text, u - Len(L)))
      BY <2>2 DEF Sound
    <3>3. CASE v = -1
      BY <1>2, <3>1, <3>2, <3>3
    <3>4. CASE v # -1
      <4>1. v \in Nat
        BY SMTT(40), <1>2, <1>3, <3>4
      <4>2. ASSUME NEW u \in e PROVE u - Len(L) \in S
        <5>1. u \in 0 .. T /\ u - Len(L) >= v /\ StartsAt(L, text, u - Len(L))
          BY <3>2, <4>2
        <5> HIDE DEF L, v
        <5> QED
          BY SMTT(40), <1>2, <4>1, <5>1 DEF PlacesOf
      <4>3. ASSUME NEW p \in S PROVE p + Len(L) \in e
        <5>1. p \in v .. T /\ StartsAt(L, text, p)
          BY <4>3 DEF PlacesOf
        <5>2. p + Len(L) <= T
          BY <5>1 DEF StartsAt
        <5> HIDE DEF L, v
        <5>3. p + Len(L) \in 0 .. T /\ (p + Len(L)) - Len(L) = p /\ p >= v
          BY <1>2, <4>1, <5>1, <5>2
        <5> QED
          BY <3>2, <3>4, <5>1, <5>3
      <4>4. CASE S = {}
        <5>1. e = {}
          BY <4>2, <4>4
        <5> QED
          BY <3>1, <4>4, <5>1
      <4>5. CASE S # {}
        <5> DEFINE p == Leftmost(S)
        <5>1. p \in S /\ \A q \in S : p <= q
          BY <4>1, <4>5, FirstPlace
        <5>2. p \in Nat
          <6> HIDE DEF p
          <6> QED
            BY SMTT(40), <4>1, <5>1 DEF PlacesOf
        <5>3. h[m] = p + Len(L)
          BY <3>1, <3>4, <4>5
        <5>4. p + Len(L) \in e
          BY <4>3, <5>1
        <5> HIDE DEF p
        <5>5. ASSUME NEW u \in e PROVE p + Len(L) <= u
          <6>1. p <= u - Len(L) /\ u \in 0 .. T
            BY <4>2, <5>1, <5>5
          <6> QED
            BY SMTT(40), <1>2, <5>2, <6>1
        <5>6. h[m] # -1
          BY SMTT(40), <1>2, <5>2, <5>3
        <5>7. (\E u \in e : u <= t) => t >= h[m]
          <6>1. ASSUME NEW u \in e, u <= t PROVE t >= h[m]
            BY <1>2, <5>2, <5>3, <5>5, <6>1
          <6> QED
            BY <6>1
        <5>8. t >= h[m] => \E u \in e : u <= t
          BY <1>2, <5>2, <5>3, <5>4
        <5> QED
          BY <5>6, <5>7, <5>8
      <4> QED
        BY <4>4, <4>5
    <3> QED
      BY <3>3, <3>4
  <2> QED
    BY <2>1, <2>2
<1>5. ASSUME NEW t \in 0 .. T
      PROVE  t \in MayEnd(e, Star, text) <=>
                (h[m] # -1 /\ t - Len(<<>>) >= h[m] /\ StartsAt(<<>>, text, t - Len(<<>>)))
  <2>1. t \in MayEnd(e, Star, text) <=> \E u \in e : u <= t
    BY DEF MayEnd
  <2>2. StartsAt(<<>>, text, t) /\ t - Len(<<>>) = t
    BY EmptyStarts
  <2> QED
    BY <1>4, <2>1, <2>2
<1>6. m + 1 # 1
  BY <1>1
<1> QED
  BY <1>1, <1>2, <1>5, <1>6 DEF Sound, r

(* A letter: the piece ends one character later, if it is the one there.     *)
LEMMA LetterIsSound ==
    ASSUME NEW Ch, NEW pattern \in Seq(Ch), NEW text \in Seq(Ch), NEW s \in PiecesOver(Ch), NEW k \in 1 .. Len(pattern),
           NEW M \in Nat, NEW h \in [0 .. M -> -1 .. Len(text)], Len(s) <= M,
           NEW e \in SUBSET (0 .. Len(text)), Sound(h, e, s, pattern, text, k - 1), pattern[k] # Star
    PROVE  Sound(h, MayEnd(e, pattern[k], text), Longer(s, pattern[k]), pattern, text, k)
<1> DEFINE m == Len(s)
           L == s[m]
           T == Len(text)
           c == pattern[k]
           r == Longer(s, c)
           N == Append(L, c)
<1>0. c \in Ch
  OBVIOUS
<1>a. c # Star
  OBVIOUS
<1>1. m \in Nat \ {0} /\ L \in Seq(Ch) /\ Len(r) = m /\ r[m] = N
  <2> HIDE DEF c
  <2> QED
    BY <1>0, <1>a, LongerIs
<1>2. /\ T \in Nat /\ Len(L) \in Nat /\ k \in Nat \ {0} /\ Len(N) = Len(L) + 1
      /\ N[Len(L) + 1] = c /\ \A i \in 1 .. Len(L) : N[i] = L[i]
  <2>1. T \in Nat /\ k \in Nat \ {0}
    OBVIOUS
  <2>2. Len(L) \in Nat /\ Len(N) = Len(L) + 1 /\ N[Len(L) + 1] = c /\ \A i \in 1 .. Len(L) : N[i] = L[i]
    <3> HIDE DEF c, L, r
    <3> QED
      BY <1>0, <1>1
  <2> QED
    BY <2>1, <2>2
<1>3. \A at \in Nat : StartsAt(N, text, at) <=>
            StartsAt(L, text, at) /\ at + Len(L) + 1 <= T /\ text[at + Len(L) + 1] = c
  <2>1. L \in Seq(Ch)
    BY <1>1
  <2> HIDE DEF c, L, r
  <2> QED
    BY <1>0, <2>1, StartsLonger
<1> HIDE DEF r
<1>4. ASSUME NEW t \in 0 .. T
      PROVE  t \in MayEnd(e, c, text) <=> t # 0 /\ t - 1 \in e /\ text[t] = c
  BY <1>2 DEF MayEnd
<1>5. CASE m = 1
  <2>1. Len(L) = k - 1 /\ \A i \in 1 .. k - 1 : L[i] = pattern[i] /\ pattern[i] # Star
    BY <1>5 DEF Sound
  <2>2. \A u \in 0 .. T : u \in e <=> (u = k - 1 /\ StartsAt(L, text, 0))
    BY <1>5 DEF Sound
  <2>3. Len(N) = k
    BY <1>2, <2>1
  <2>4. \A i \in 1 .. k : N[i] = pattern[i] /\ pattern[i] # Star
    <3>1. ASSUME NEW i \in 1 .. k PROVE N[i] = pattern[i] /\ pattern[i] # Star
      <4>1. CASE i = k
        <5>1. Len(L) + 1 = k
          BY <1>2, <2>1
        <5> HIDE DEF N
        <5> QED
          BY <1>2, <4>1, <5>1
      <4>2. CASE i # k
        <5>1. i \in 1 .. k - 1 /\ i \in 1 .. Len(L)
          BY <1>2, <2>1, <4>2
        <5> HIDE DEF N
        <5> QED
          BY <1>2, <2>1, <5>1
      <4> QED
        BY <4>1, <4>2
    <3> QED
      BY <3>1
  <2>5. StartsAt(N, text, 0) <=> StartsAt(L, text, 0) /\ k <= T /\ text[k] = c
    <3>1. 0 \in Nat /\ 0 + Len(L) + 1 = k
      BY <1>2, <2>1
    <3> HIDE DEF N, L
    <3> QED
      BY <1>3, <3>1
  <2>6. ASSUME NEW t \in 0 .. T PROVE t \in MayEnd(e, c, text) <=> (t = k /\ StartsAt(N, text, 0))
    <3> HIDE DEF N, L, c
    <3>1. t # 0 => t - 1 \in 0 .. T
      BY <1>2
    <3>2. t # 0 => (t - 1 = k - 1 <=> t = k)
      BY <1>2
    <3>3. t = k => t # 0 /\ k <= T
      BY <1>2
    <3> QED
      BY <1>4, <2>2, <2>5, <3>1, <3>2, <3>3
  <2> HIDE DEF N, L
  <2> QED
    BY <1>1, <1>5, <2>3, <2>4, <2>6 DEF Sound, r, c
<1>6. CASE m # 1
  <2> DEFINE v == h[m - 1]
  <2>1. \A u \in 0 .. T : u \in e <=> (v # -1 /\ u - Len(L) >= v /\ StartsAt(L, text, u - Len(L)))
    BY <1>6 DEF Sound
  <2>2. v \in -1 .. T
    <3>1. m - 1 \in 0 .. M
      BY <1>1
    <3> QED
      BY <3>1
  <2>3. ASSUME NEW t \in 0 .. T
        PROVE  t \in MayEnd(e, c, text) <=> (v # -1 /\ t - Len(N) >= v /\ StartsAt(N, text, t - Len(N)))
    <3> HIDE DEF N, L, c, v
    <3>1. CASE v = -1
      <4>1. t # 0 => t - 1 \in 0 .. T
        BY <1>2
      <4> QED
        BY <1>4, <2>1, <3>1, <4>1
    <3>2. CASE v # -1 /\ t = 0
      <4>1. ~(t - Len(N) >= v)
        BY <1>2, <2>2, <3>2
      <4> QED
        BY <1>4, <3>2, <4>1
    <3>3. CASE v # -1 /\ t # 0
      <4> DEFINE at == t - Len(N)
      <4>1. /\ t - 1 \in 0 .. T /\ (t - 1) - Len(L) = at /\ at \in Int
            /\ at >= v => at \in Nat
        <5>1. t \in Int /\ t - 1 \in 0 .. T
          BY <1>2, <3>3
        <5>2. Len(N) \in Nat /\ (t - 1) - Len(L) = at
          BY <1>2, <5>1
        <5>3. at \in Int
          BY <5>1, <5>2
        <5>4. v \in Nat
          BY <1>2, <2>2, <3>3
        <5> HIDE DEF at
        <5>5. at >= v => at \in Nat
          BY <5>3, <5>4
        <5> QED
          BY <5>1, <5>2, <5>3, <5>5
      <4>2. at + Len(L) + 1 = t /\ t <= T
        BY <1>2, <3>3
      <4> HIDE DEF at
      <4>3. t \in MayEnd(e, c, text) <=> at >= v /\ StartsAt(L, text, at) /\ text[t] = c
        BY <1>4, <2>1, <3>3, <4>1
      <4>4. at >= v => (StartsAt(N, text, at) <=> StartsAt(L, text, at) /\ text[t] = c)
        BY <1>3, <4>1, <4>2
      <4> QED
        BY <3>3, <4>3, <4>4 DEF at
    <3> QED
      BY <3>1, <3>2, <3>3
  <2> HIDE DEF N, L
  <2> QED
    BY <1>1, <1>6, <2>3 DEF Sound, r, c
<1> QED
  BY <1>5, <1>6

(* The matcher, which never goes back, finds every match there is and no     *)
(* other, for any pattern and text.                                          *)
THEOREM GlobsAreExact ==
    ASSUME NEW Ch, NEW pattern \in Seq(Ch), NEW text \in Seq(Ch)
    PROVE  GlobMatch(pattern, text) <=> Means(pattern, text)
<1> DEFINE n == Len(pattern)
           T == Len(text)
           P == Pieces(pattern)
           M == Len(P)
<1>0. n \in Nat /\ T \in Nat /\ \A k \in 1 .. n : pattern[k] \in Ch /\ k - 1 \in 0 .. n /\ k \in 0 .. n
  OBVIOUS
<1>1. PICK f \in [0 .. n -> PiecesOver(Ch)] : SplitUp(f, pattern) /\ P = f[n]
  BY PiecesGrow
<1>2. P \in PiecesOver(Ch) /\ M \in Nat \ {0} /\ P \in Seq(Seq(Ch))
  <2>1. P \in PiecesOver(Ch)
    BY <1>0, <1>1
  <2> HIDE DEF P
  <2> QED
    BY <2>1 DEF PiecesOver
<1>3. PICK h \in [0 .. M -> -1 .. T] :
         Continues(h, P, text) /\ (GlobMatch(pattern, text) <=> MatchedBy(h, pattern, text))
  BY <1>2, MatcherRuns
<1>4. PICK e \in [0 .. n -> SUBSET (0 .. T)] :
         EndsRun(e, pattern, text) /\ (Means(pattern, text) <=> T \in e[n])
  BY MeaningRuns
<1>5. \A k \in 0 .. n : Len(f[k]) <= M /\ \A i \in 1 .. Len(f[k]) - 1 : P[i] = f[k][i]
  <2>1. \A k \in 0 .. n : Len(f[k]) <= Len(f[n]) /\ \A i \in 1 .. Len(f[k]) - 1 : f[n][i] = f[k][i]
    BY ZenonT(60), <1>1, PiecesClose
  <2> HIDE DEF P, n
  <2> QED
    BY <1>1, <2>1
<1> HIDE DEF P
<1> DEFINE S == {k \in 0 .. n : Sound(h, e[k], f[k], pattern, text, k)}
<1>6. 0 \in S
  <2>1. f[0] = <<(<<>>)>> /\ e[0] = {0} /\ 0 \in 0 .. n
    BY <1>0, <1>1, <1>4 DEF SplitUp, EndsRun
  <2>2. Len(f[0]) = 1 /\ f[0][1] = <<>> /\ Len(<<>>) = 0
    BY <2>1
  <2>3. \A t \in 0 .. T : t \in e[0] <=> (t = 0 /\ StartsAt(<<>>, text, 0))
    <3>1. 0 \in 0 .. Len(text)
      BY <1>0
    <3> QED
      BY <2>1, <3>1, EmptyStarts
  <2>4. Sound(h, e[0], f[0], pattern, text, 0)
    BY <2>2, <2>3 DEF Sound
  <2> QED
    BY <2>1, <2>4
<1>7. ASSUME NEW k \in 1 .. n, k - 1 \in S PROVE k \in S
  <2> DEFINE s == f[k - 1]
             d == e[k - 1]
             m == Len(s)
  <2>1. /\ s \in PiecesOver(Ch) /\ d \in SUBSET (0 .. T) /\ k \in 0 .. n
        /\ f[k] = Longer(s, pattern[k]) /\ e[k] = MayEnd(d, pattern[k], text)
        /\ Sound(h, d, s, pattern, text, k - 1)
    BY <1>0, <1>1, <1>4, <1>7 DEF SplitUp, EndsRun
  <2>2. Len(s) <= M /\ Len(f[k]) <= M
    BY <1>0, <1>5
  <2> HIDE DEF s, d
  <2>3. CASE pattern[k] = Star
    <3>1. m \in Nat \ {0} /\ Len(f[k]) = m + 1 /\ f[k][m] = s[m]
      <4>1. /\ Len(Longer(s, Star)) = Len(s) + 1 /\ Len(s) \in Nat \ {0}
            /\ \A i \in 1 .. Len(s) : Longer(s, Star)[i] = s[i]
        <5>1. Star \in Ch
          BY <1>0, <2>3
        <5> QED
          BY <2>1, <5>1, LongerIs
      <4> QED
        BY SMTT(40), <2>1, <2>3, <4>1
    <3>2. m \in 1 .. M /\ m < M /\ P[m] = s[m]
      <4>1. m \in 1 .. Len(f[k]) - 1
        BY <3>1
      <4> QED
        BY <1>2, <1>5, <2>1, <2>2, <3>1, <4>1
    <3>3. h[m] = GoesOn(P, text, h[m - 1], m)
      BY <1>3, <3>2 DEF Continues
    <3>4. Sound(h, MayEnd(d, Star, text), Longer(s, Star), pattern, text, k)
      BY <1>2, <1>3, <2>1, <2>3, <3>2, <3>3, StarIsSound
    <3> QED
      BY <2>1, <2>3, <3>4
  <2>4. CASE pattern[k] # Star
    <3>1. Sound(h, MayEnd(d, pattern[k], text), Longer(s, pattern[k]), pattern, text, k)
      BY <1>2, <1>3, <2>1, <2>2, <2>4, LetterIsSound
    <3> QED
      BY <2>1, <3>1
  <2> QED
    BY <2>3, <2>4
<1> HIDE DEF S
<1>8. \A k \in 0 .. n : k \in S
  BY <1>0, <1>6, <1>7, InductionTo
<1>9. Sound(h, e[n], P, pattern, text, n)
  <2>1. n \in S
    BY <1>0, <1>8
  <2> QED
    BY <1>1, <2>1 DEF S
<1>10. MatchedBy(h, pattern, text) <=> T \in e[n]
  <2> DEFINE L == P[M]
  <2>1. L \in Seq(Ch) /\ Last(P) = L /\ Len(L) \in Nat /\ T \in 0 .. T
    <3>1. L \in Seq(Ch) /\ Last(P) = L /\ T \in 0 .. T
      BY <1>0, <1>2 DEF Last
    <3> HIDE DEF L
    <3> QED
      BY <3>1
  <2>2. CASE M = 1
    <3>1. Len(L) = n /\ \A i \in 1 .. n : L[i] = pattern[i]
      BY <1>9, <2>2 DEF Sound
    <3>2. T \in e[n] <=> (T = n /\ StartsAt(L, text, 0))
      BY <1>9, <2>1, <2>2 DEF Sound
    <3>3. StartsAt(L, text, 0) <=> n <= T /\ \A i \in 1 .. n : text[0 + i] = L[i]
      BY <1>0, <3>1 DEF StartsAt
    <3>4. T = n /\ StartsAt(L, text, 0) <=> T = n /\ \A i \in 1 .. n : text[i] = pattern[i]
      <4>1. \A i \in 1 .. n : 0 + i = i
        OBVIOUS
      <4> HIDE DEF L
      <4> QED
        BY <1>0, <3>1, <3>3, <4>1
    <3>5. pattern = text <=> T = n /\ \A i \in 1 .. n : text[i] = pattern[i]
      OBVIOUS
    <3>6. MatchedBy(h, pattern, text) <=> pattern = text
      BY <2>2 DEF MatchedBy, P
    <3> QED
      BY <3>2, <3>4, <3>5, <3>6
  <2>3. CASE M # 1
    <3>1. T \in e[n] <=> (h[M - 1] # -1 /\ T - Len(L) >= h[M - 1] /\ StartsAt(L, text, T - Len(L)))
      BY <1>9, <2>1, <2>3 DEF Sound
    <3>2. MatchedBy(h, pattern, text) <=> h[M - 1] # -1 /\ EndsAfter(Last(P), text, h[M - 1])
      BY <2>3 DEF MatchedBy, P
    <3> HIDE DEF L
    <3> QED
      BY <2>1, <3>1, <3>2 DEF EndsAfter
  <2> QED
    BY <2>2, <2>3
<1> QED
  BY <1>3, <1>4, <1>10
-----------------------------------------------------------------------------
(* Suppression rules (SuppressionRules).                                     *)

SuppressionSpec == SuppressionInit /\ [][SuppressionNext]_suppressionVars

(* What the rules the resolver holds leave of the batch.                     *)
KeptByRules == {o \in Occ : Keeps(o)}

(* What the attempts that committed suppressed, added up.                    *)
Suppressed(q) == FoldLeft(LAMBDA n, s : n + Cardinality(Occ \ s), 0, q)
RunsUp(f, q) ==
    f[0] = 0 /\ \A k \in 1..Len(q) : f[k] = f[k - 1] + Cardinality(Occ \ q[k])

(* The fold is the last of the running sums.                                 *)
LEMMA SuppressedRuns ==
    ASSUME NEW q \in Seq(SUBSET Occ)
    PROVE  \E f \in [0..Len(q) -> Nat] : RunsUp(f, q) /\ Suppressed(q) = f[Len(q)]
<1> DEFINE n == Len(q)
           c(k) == Cardinality(Occ \ q[k])
           step == [p \in Nat \X (1..n) |-> p[1] + c(p[2])]
           Runs(g) == g = [s \in SUBSET (1..n) |-> IF s = {} THEN 0 ELSE g[s \ {Max(s)}] + c(Max(s))]
           iter == CHOOSE g : Runs(g)
<1>1. n \in Nat /\ DOMAIN q = 1..n /\ \A k \in 1..n : q[k] \in SUBSET Occ
  OBVIOUS
<1>2. \A k \in 1..n : c(k) \in Nat
  <2>1. ASSUME NEW k \in 1..n PROVE c(k) \in Nat
    <3>1. IsFiniteSet(Occ \ q[k])
      BY SuppressionAssumption, FS_Subset
    <3> QED
      BY <3>1, FS_CardinalityType
  <2> QED
    BY <2>1
<1>3. step \in [Nat \X (1..n) -> Nat]
  <2> HIDE DEF c
  <2> QED
    BY <1>2
<1>4. PICK g \in [SUBSET (1..n) -> Nat] : g = LeftStep(step, 0, n, g)
  <2>1. CanFold(step, 0, n, Nat)
    BY <1>1, <1>3 DEF CanFold
  <2> HIDE DEF step, n
  <2>2. PICK g : IsLeftFold(g, step, 0, n, Nat)
    BY <2>1, CanFoldLeft
  <2> QED
    BY <2>2 DEF IsLeftFold
<1>5. Runs(g)
  <2>1. ASSUME NEW s \in SUBSET (1..n)
        PROVE  g[s] = IF s = {} THEN 0 ELSE g[s \ {Max(s)}] + c(Max(s))
    <3>1. g[s] = IF s = {} THEN 0 ELSE step[<<g[s \ {Max(s)}], Max(s)>>]
      <4> HIDE DEF step
      <4> QED
        BY <1>4 DEF LeftStep
    <3>2. ASSUME s # {} PROVE step[<<g[s \ {Max(s)}], Max(s)>>] = g[s \ {Max(s)}] + c(Max(s))
      <4>1. g[s \ {Max(s)}] \in Nat /\ Max(s) \in 1..n
        BY <1>1, <1>4, <3>2, LastOfLess
      <4> HIDE DEF c
      <4> QED
        BY <4>1
    <3> QED
      BY <3>1, <3>2
  <2>2. g = [s \in SUBSET (1..n) |-> g[s]]
    OBVIOUS
  <2> HIDE DEF c
  <2> QED
    BY <2>1, <2>2
<1>6. Runs(iter)
  <2> HIDE DEF Runs
  <2> QED
    BY <1>5
<1>7. Suppressed(q) = iter[1..n]
  BY <1>1 DEF Suppressed, FoldLeft, MapThenFoldSet
<1> HIDE DEF iter, step
<1> DEFINE f == [k \in 0..n |-> iter[1..k]]
<1>8. f[0] = 0 /\ \A k \in 1..n : f[k] = f[k - 1] + c(k)
  <2>1. \A s \in SUBSET (1..n) : iter[s] = IF s = {} THEN 0 ELSE iter[s \ {Max(s)}] + c(Max(s))
    <3> HIDE DEF c
    <3> QED
      BY <1>6
  <2>2. f[0] = 0
    <3>1. 1..0 = {} /\ 0 \in 0..n
      BY <1>1
    <3> QED
      BY <2>1, <3>1
  <2>3. ASSUME NEW k \in 1..n PROVE f[k] = f[k - 1] + c(k)
    <3>1. 1..k \in SUBSET (1..n) /\ 1..k # {} /\ Max(1..k) = k /\ (1..k) \ {k} = 1..(k - 1)
      BY <1>1, LastOfPrefix
    <3>2. iter[1..k] = iter[1..(k - 1)] + c(k)
      <4> HIDE DEF c
      <4> QED
        BY <2>1, <3>1
    <3>3. k \in 0..n /\ k - 1 \in 0..n
      BY <1>1
    <3> HIDE DEF c
    <3> QED
      BY <3>2, <3>3
  <2> HIDE DEF c, f
  <2> QED
    BY <2>2, <2>3
<1>9. \A k \in 0..n : f[k] \in Nat
  <2> DEFINE Typed == {k \in 0..n : f[k] \in Nat}
  <2>1. 0 \in Typed
    BY <1>1, <1>8
  <2>2. ASSUME NEW k \in 1..n, k - 1 \in Typed PROVE k \in Typed
    <3> HIDE DEF c, f
    <3> QED
      BY <1>1, <1>2, <1>8, <2>2
  <2> HIDE DEF Typed
  <2>3. \A k \in 0..n : k \in Typed
    BY <1>1, <2>1, <2>2, InductionTo
  <2> QED
    BY <2>3 DEF Typed
<1>10. f \in [0..n -> Nat] /\ f[n] = iter[1..n]
  BY <1>1, <1>9
<1>11. RunsUp(f, q)
  <2> HIDE DEF f
  <2> QED
    BY <1>8 DEF RunsUp
<1> QED
  BY <1>7, <1>10, <1>11

(* One attempt more adds what it suppressed.                                 *)
LEMMA SuppressedSteps ==
    /\ Suppressed(<<>>) = 0
    /\ \A q \in Seq(SUBSET Occ), e \in SUBSET Occ :
          Suppressed(q) \in Nat /\ Suppressed(Append(q, e)) = Suppressed(q) + Cardinality(Occ \ e)
<1>1. Suppressed(<<>>) = 0
  <2>1. <<>> \in Seq(SUBSET Occ) /\ Len(<<>>) = 0
    OBVIOUS
  <2> QED
    BY <2>1, SuppressedRuns DEF RunsUp
<1>2. ASSUME NEW q \in Seq(SUBSET Occ), NEW e \in SUBSET Occ
      PROVE  Suppressed(q) \in Nat /\ Suppressed(Append(q, e)) = Suppressed(q) + Cardinality(Occ \ e)
  <2> DEFINE n == Len(q)
             r == Append(q, e)
  <2>1. n \in Nat /\ r \in Seq(SUBSET Occ) /\ Len(r) = n + 1 /\ r[n + 1] = e /\ \A k \in 1..n : r[k] = q[k]
    OBVIOUS
  <2>2. PICK f \in [0..n -> Nat] : RunsUp(f, q) /\ Suppressed(q) = f[n]
    BY SuppressedRuns
  <2> HIDE DEF r
  <2>3. PICK h \in [0..Len(r) -> Nat] : RunsUp(h, r) /\ Suppressed(r) = h[Len(r)]
    BY <2>1, SuppressedRuns
  <2> DEFINE Same == {k \in 0..n : h[k] = f[k]}
  <2>4. \A k \in 0..n : h[k] = f[k]
    <3>1. 0 \in Same
      BY <2>1, <2>2, <2>3 DEF RunsUp
    <3>2. ASSUME NEW k \in 1..n, k - 1 \in Same PROVE k \in Same
      <4>0. k \in 1..Len(q) /\ k \in 1..Len(r)
        BY <2>1
      <4>1. f[k] = f[k - 1] + Cardinality(Occ \ q[k]) /\ h[k] = h[k - 1] + Cardinality(Occ \ r[k]) /\ r[k] = q[k]
        BY <2>1, <2>2, <2>3, <4>0 DEF RunsUp
      <4> QED
        BY <3>2, <4>1
    <3> HIDE DEF Same
    <3>3. \A k \in 0..n : k \in Same
      BY <2>1, <3>1, <3>2, InductionTo
    <3> QED
      BY <3>3 DEF Same
  <2>5. h[n + 1] = h[n] + Cardinality(Occ \ e)
    <3>1. n + 1 \in 1..Len(r) /\ (n + 1) - 1 = n
      BY <2>1
    <3> QED
      BY <2>1, <2>3, <3>1 DEF RunsUp
  <2>6. n \in 0..n
    BY <2>1
  <2> QED
    BY <2>1, <2>2, <2>3, <2>4, <2>5, <2>6 DEF r
<1> QED
  BY <1>1, <1>2

RulesInv ==
    /\ raw \in Seq(RawRule) /\ attempts \in 0..MaxRequests /\ kept \subseteq Occ
    /\ attempt \in {"none", "planned"}
    /\ stored \in Seq(SUBSET Occ) /\ Len(stored) + (IF attempt = "planned" THEN 1 ELSE 0) <= attempts
    (* As long as the rules are the same, every attempt keeps what they leave. *)
    /\ sameRules => /\ attempt = "planned" => kept = KeptByRules
                    /\ \A i \in DOMAIN stored : stored[i] = KeptByRules
    /\ suppressedCount = Suppressed(stored)
    /\ glob \in [pattern : Seq(Letter \cup {Star}), value : Seq(Letter)]

(* The rules' invariant holds at the start.                                  *)
LEMMA RulesStart == SuppressionInit => RulesInv
<1> SUFFICES ASSUME SuppressionInit PROVE RulesInv
  OBVIOUS
<1>1. raw \in Seq(RawRule)
  <2>1. PICK n \in 0..MaxRules : raw \in [1..n -> RawRule]
    BY DEF SuppressionInit
  <2> QED
    BY <2>1, SuppressionAssumption
<1>2. MaxRequests \in Nat
  BY SuppressionAssumption
<1>3. glob \in [pattern : Seq(Letter \cup {Star}), value : Seq(Letter)]
  BY DEF SuppressionInit
<1> QED
  BY <1>1, <1>2, <1>3, SuppressedSteps DEF SuppressionInit, RulesInv

(* Every step keeps the rules' invariant.                                    *)
LEMMA RulesStep == RulesInv /\ [SuppressionNext]_suppressionVars => RulesInv'
<1> SUFFICES ASSUME RulesInv, [SuppressionNext]_suppressionVars PROVE RulesInv'
  OBVIOUS
<1>0. raw' = raw => KeptByRules' = KeptByRules
  BY DEF KeptByRules, Keeps, Applied, RuleMatches, Sampled
<1>g. UNCHANGED glob => glob' \in [pattern : Seq(Letter \cup {Star}), value : Seq(Letter)]
  BY DEF RulesInv
<1>1. CASE Plans
  <2>1. attempts' = attempts + 1 /\ attempts' \in 0..MaxRequests /\ kept' = KeptByRules
    BY <1>1, SuppressionAssumption DEF Plans, RulesInv, KeptByRules
  <2>2. KeptByRules \subseteq Occ
    BY DEF KeptByRules
  <2> QED
    BY <1>0, <1>g, <1>1, <2>1, <2>2 DEF Plans, RulesInv
<1>2. CASE Commits
  <2>1. /\ stored \in Seq(SUBSET Occ) /\ kept \in SUBSET Occ /\ stored' = Append(stored, kept) /\ attempt' = "none"
        /\ suppressedCount' = suppressedCount + Cardinality(Occ \ kept)
        /\ UNCHANGED <<raw, attempts, kept, sameRules, glob>>
    BY <1>2 DEF Commits, RulesInv
  <2>2. suppressedCount' = Suppressed(stored')
    BY <2>1, SuppressedSteps DEF RulesInv
  <2>3. stored' \in Seq(SUBSET Occ) /\ Len(stored') = Len(stored) + 1 /\ Len(stored) \in Nat
    BY <2>1
  <2>4. sameRules => \A i \in DOMAIN stored' : stored'[i] = KeptByRules
    <3>1. sameRules => kept = KeptByRules
      BY <1>2 DEF Commits, RulesInv
    <3>2. ASSUME NEW i \in DOMAIN stored', sameRules PROVE stored'[i] = KeptByRules
      <4>1. i \in 1..Len(stored) + 1 /\ stored'[i] = IF i = Len(stored) + 1 THEN kept ELSE stored[i]
        BY <2>1, <2>3
      <4> QED
        BY <3>1, <3>2, <4>1 DEF RulesInv
    <3> QED
      BY <3>2
  <2>5. Len(stored') <= attempts
    BY <1>2, <2>3, SuppressionAssumption DEF Commits, RulesInv
  <2>6. raw' \in Seq(RawRule) /\ attempts' \in 0..MaxRequests /\ kept' \subseteq Occ
    BY <2>1 DEF RulesInv
  <2> QED
    BY <1>0, <1>g, <2>1, <2>2, <2>3, <2>4, <2>5, <2>6 DEF RulesInv
<1>3. CASE RollsBack
  <2>1. /\ UNCHANGED <<raw, attempts, kept, stored, suppressedCount, sameRules, glob>>
        /\ attempt' = "none" /\ attempt = "planned"
    BY <1>3 DEF RollsBack
  <2>2. Len(stored) \in Nat /\ Len(stored) + 1 <= attempts /\ attempts \in 0..MaxRequests
    BY <2>1 DEF RulesInv
  <2>3. Len(stored) + 0 <= attempts
    BY <2>2, SuppressionAssumption
  <2> QED
    BY <1>0, <1>g, <2>1, <2>3 DEF RulesInv
<1>4. ASSUME NEW rule \in RawRule, RulesChange(rule) PROVE RulesInv'
  BY <1>4 DEF RulesChange, RulesInv
<1>5. ASSUME NEW c \in Letter \cup {Star}, NEW inPattern \in BOOLEAN, Grows(c, inPattern) PROVE RulesInv'
  <2>1. UNCHANGED <<raw, attempt, attempts, kept, stored, suppressedCount, sameRules>>
    BY <1>5 DEF Grows
  <2>2. glob' \in [pattern : Seq(Letter \cup {Star}), value : Seq(Letter)]
    <3>1. CASE inPattern
      <4>1. glob' = [glob EXCEPT !.pattern = Append(@, c)]
        BY <1>5, <3>1 DEF Grows
      <4>2. Append(glob.pattern, c) \in Seq(Letter \cup {Star})
        BY DEF RulesInv
      <4> QED
        BY <4>1, <4>2 DEF RulesInv
    <3>2. CASE ~inPattern
      <4>1. glob' = [glob EXCEPT !.value = Append(@, c)] /\ c # Star
        BY <1>5, <3>2 DEF Grows
      <4>2. Append(glob.value, c) \in Seq(Letter)
        BY <4>1 DEF RulesInv
      <4> QED
        BY <4>1, <4>2 DEF RulesInv
    <3> QED
      BY <3>1, <3>2
  <2> QED
    BY <1>0, <2>1, <2>2 DEF RulesInv
<1>6. CASE UNCHANGED suppressionVars
  BY <1>0, <1>g, <1>6 DEF suppressionVars, RulesInv
<1> QED
  BY <1>1, <1>2, <1>3, <1>4, <1>5, <1>6 DEF SuppressionNext

(* In every state what the attempts kept is what the rules leave.            *)
THEOREM RulesInvariant == SuppressionSpec => []RulesInv
  BY RulesStart, RulesStep, PTL DEF SuppressionSpec

(* What the rules leave is the same each time, holds the fatal occurrences   *)
(* if no rule drops, and everything if all are broken; a glob matches what   *)
(* it means.                                                                 *)
LEMMA RulesHold == RulesInv => RetriesKeepTheSame /\ SuppressionTypeOK /\ GlobIsExact
<1> SUFFICES ASSUME RulesInv PROVE RetriesKeepTheSame /\ SuppressionTypeOK /\ GlobIsExact
  OBVIOUS
<1>1. ASSUME NEW o PROVE Applied(o) \in SUBSET Nat /\ (Applied(o) # {} => Min(Applied(o)) \in Applied(o))
  <2>1. Applied(o) \in SUBSET Nat
    BY DEF Applied, RulesInv
  <2> QED
    BY <2>1, MinIsLeast
<1>2. ASSUME \A k \in DOMAIN raw : raw[k].action # "drop" PROVE Fatal \subseteq KeptByRules
  <2>1. ASSUME NEW o \in Fatal PROVE Keeps(o) /\ o \in Occ
    <3>1. CASE Applied(o) = {}
      BY <3>1, SuppressionAssumption DEF Keeps
    <3>2. CASE Applied(o) # {}
      <4>1. Min(Applied(o)) \in DOMAIN raw /\ ValidRule(raw[Min(Applied(o))])
        BY <1>1, <3>2 DEF Applied
      <4>2. raw[Min(Applied(o))].action = "sample"
        BY <1>2, <4>1 DEF ValidRule
      <4> QED
        BY <4>2, SuppressionAssumption DEF Keeps, Sampled
    <3> QED
      BY <3>1, <3>2
  <2> QED
    BY <2>1 DEF KeptByRules
<1>3. ASSUME \A k \in DOMAIN raw : Broken(raw[k]) PROVE KeptByRules = Occ
  BY <1>3 DEF Broken, ValidRule, KeptByRules, Keeps, Applied
<1>4. suppressedCount = FoldLeft(LAMBDA n, s : n + Cardinality(Occ \ s), 0, stored)
  BY DEF RulesInv, Suppressed
<1>5. sameRules => \A i \in DOMAIN stored : stored[i] = KeptByRules
  BY DEF RulesInv
<1>6. RetriesKeepTheSame
  BY <1>2, <1>3, <1>4, <1>5 DEF RetriesKeepTheSame
<1>7. SuppressionTypeOK
  <2>1. ToSet(raw) \subseteq RawRule
    BY DEF RulesInv, ToSet, Range
  <2>2. Len(stored) <= attempts
    BY SuppressionAssumption DEF RulesInv
  <2> QED
    BY <2>1, <2>2 DEF RulesInv, SuppressionTypeOK
<1>8. GlobIsExact
  <2>1. glob.pattern \in Seq(Letter \cup {Star}) /\ glob.value \in Seq(Letter \cup {Star})
    BY DEF RulesInv
  <2> QED
    BY <2>1, GlobsAreExact DEF GlobIsExact
<1> QED
  BY <1>6, <1>7, <1>8
-----------------------------------------------------------------------------
(* The types of the parts.                                                   *)

(* Requests are answered and counted twice at most, and the limiter keeps no *)
(* more windows than it may.                                                 *)
LEMMA ServerTyped == ServerInv /\ LimiterInv => ServerTypeOK
<1> SUFFICES ASSUME ServerInv, LimiterInv PROVE ServerTypeOK
  OBVIOUS
<1>1. ASSUME NEW r \in Request
      PROVE  /\ requests[r].st \in {"idle", "resolving", "counting", "reading", "promoting", "writing", "failed", "done"}
             /\ Len(answers[r]) <= 2 /\ Len(counted[r]) <= 2
  <2>1. requests[r].st \in {"idle", "resolving", "counting", "reading", "promoting", "writing", "failed", "done"}
        /\ RequestSound(r)
    BY DEF ServerInv, RequestsTyped, RequestType
  <2>2. Len(<<>>) = 0 /\ Len(<< 200 >>) = 1
    OBVIOUS
  <2>3. Unanswered(r) \/ (Refused(r) /\ counted[r] = <<>>) \/ (Refused(r) /\ Len(counted[r]) = 1) \/ Accepted(r)
    BY <2>1 DEF RequestSound
  <2>4. CASE Unanswered(r)
    BY <2>1, <2>2, <2>4 DEF Unanswered
  <2>5. CASE Refused(r) /\ (counted[r] = <<>> \/ Len(counted[r]) = 1)
    <3>1. Len(answers[r]) = 1
      BY <2>5 DEF Refused
    <3>2. Len(counted[r]) = 0 \/ Len(counted[r]) = 1
      BY <2>2, <2>5
    <3>3. Len(answers[r]) <= 2
      BY <3>1
    <3>4. Len(counted[r]) <= 2
      <4>1. CASE Len(counted[r]) = 0
        BY <4>1
      <4>2. CASE Len(counted[r]) = 1
        BY <4>2
      <4> QED
        BY <3>2, <4>1, <4>2
    <3> QED
      BY <2>1, <3>3, <3>4
  <2>6. CASE Accepted(r)
    BY <2>1, <2>2, <2>6 DEF Accepted
  <2> QED
    BY <2>3, <2>4, <2>5, <2>6
<1>2. sinkQueue \subseteq Payload /\ Cardinality(DOMAIN windows) <= MaxLimited
  BY DEF ServerInv, RequestsTyped, LimiterInv, WindowsTyped
<1> QED
  BY <1>1, <1>2 DEF ServerTypeOK

-----------------------------------------------------------------------------
(* The recordings of a trace (TraceDedupe).                                  *)

(* An innermost span, where errors are thrown.                               *)
Leaf(s) == s \notin Range(ParentOf)

(* The ancestors of a span: its parent and the parent's.                     *)
LEMMA AncestorsUp ==
    \A s \in Span : /\ Ancestors(s) \subseteq Span
                    /\ ParentOf[s] = NoSpan => Ancestors(s) = {}
                    /\ ParentOf[s] # NoSpan => Ancestors(s) = {ParentOf[s]} \cup Ancestors(ParentOf[s])
<1> DEFINE N == Cardinality(Span)
           D == [Span -> SUBSET Span]
           Up(g) == [s \in Span |-> IF ParentOf[s] = NoSpan THEN {} ELSE {ParentOf[s]} \cup g[ParentOf[s]]]
           base == [s \in Span |-> {}]
           step == [p \in D \X (1 .. N) |-> Up(p[1])]
           Runs(h) == h = [n \in 0 .. N |->
                              [s \in Span |-> IF n = 0 \/ ParentOf[s] = NoSpan THEN {}
                                              ELSE {ParentOf[s]} \cup h[n - 1][ParentOf[s]]]]
           f == CHOOSE h : Runs(h)
<1>1. N \in Nat /\ base \in D /\ \A s \in Span : ParentOf[s] # NoSpan => ParentOf[s] \in Span
  BY TraceAssumption, FS_CardinalityType
<1>2. step \in [D \X (1 .. N) -> D]
  <2>1. \A g \in D : Up(g) \in D
    BY <1>1
  <2> HIDE DEF Up, D, N
  <2> QED
    BY <2>1
<1>3. PICK h \in [0 .. N -> D] : Chained(h, step, base, N)
  <2> HIDE DEF D, N, step, base
  <2>1. CanFold(step, base, N, D)
    BY <1>1, <1>2 DEF CanFold
  <2> QED
    BY <2>1, CanChain
<1>4. Runs(h)
  <2>1. ASSUME NEW n \in 0 .. N
        PROVE  h[n] = [s \in Span |-> IF n = 0 \/ ParentOf[s] = NoSpan THEN {}
                                      ELSE {ParentOf[s]} \cup h[n - 1][ParentOf[s]]]
    <3>1. CASE n = 0
      BY <1>3, <3>1 DEF Chained
    <3>2. CASE n # 0
      <4> HIDE DEF D, N, Up
      <4>1. n \in 1 .. N /\ n - 1 \in 0 .. N
        BY <1>1, <3>2
      <4>2. h[n] = Up(h[n - 1])
        BY <1>3, <4>1 DEF Chained
      <4> QED
        BY <3>2, <4>2 DEF Up
    <3> QED
      BY <3>1, <3>2
  <2>2. h = [n \in 0 .. N |-> h[n]]
    OBVIOUS
  <2> HIDE DEF N
  <2> QED
    BY <2>1, <2>2
<1>5. Runs(f)
  <2> HIDE DEF Runs
  <2> QED
    BY <1>4
<1>6. \A s \in Span : Ancestors(s) = f[N][s]
  BY DEF Ancestors, SpanTree
<1> HIDE DEF f
<1>7. /\ \A s \in Span : f[0][s] = {}
      /\ \A n \in 0 .. N : \A s \in Span : ParentOf[s] = NoSpan => f[n][s] = {}
      /\ \A n \in 1 .. N : \A s \in Span : ParentOf[s] # NoSpan => f[n][s] = {ParentOf[s]} \cup f[n - 1][ParentOf[s]]
  <2>1. \A n \in 0 .. N : f[n] = [s \in Span |-> IF n = 0 \/ ParentOf[s] = NoSpan THEN {}
                                                 ELSE {ParentOf[s]} \cup f[n - 1][ParentOf[s]]]
    <3> HIDE DEF N
    <3> QED
      BY <1>5
  <2>2. 0 \in 0 .. N /\ \A n \in 1 .. N : n \in 0 .. N /\ n # 0
    BY <1>1
  <2> HIDE DEF N, D, Up, base, step, Runs
  <2>3. \A n \in 0 .. N : \A s \in Span :
           f[n][s] = IF n = 0 \/ ParentOf[s] = NoSpan THEN {} ELSE {ParentOf[s]} \cup f[n - 1][ParentOf[s]]
    BY <2>1
  <2>4. \A s \in Span : f[0][s] = {}
    BY <2>2, <2>3
  <2>5. \A n \in 0 .. N : \A s \in Span : ParentOf[s] = NoSpan => f[n][s] = {}
    BY <2>3
  <2>6. \A n \in 1 .. N : \A s \in Span : ParentOf[s] # NoSpan => f[n][s] = {ParentOf[s]} \cup f[n - 1][ParentOf[s]]
    BY <2>2, <2>3
  <2> QED
    BY <2>4, <2>5, <2>6
<1> HIDE DEF N, D, Up, base, step, Runs
<1>8. PICK rank \in [Span -> 0 .. N] : \A s \in Span : ParentOf[s] # NoSpan => rank[ParentOf[s]] < rank[s]
  BY TraceAssumption DEF N
<1>9. \A s \in Span : rank[s] \in Nat /\ rank[s] <= N
  BY <1>1, <1>8
<1> DEFINE Same(n) == \A s \in Span : rank[s] <= n => f[n][s] = f[n + 1][s]
           T == {n \in 0 .. N : n < N => Same(n)}
           U == {n \in 0 .. N : \A s \in Span : f[n][s] \subseteq Span}
<1>10. 0 \in T /\ 0 \in U
  <2>1. ASSUME NEW s \in Span, rank[s] <= 0 PROVE ParentOf[s] = NoSpan
    BY <1>1, <1>8, <1>9, <2>1
  <2>2. 0 < N => 0 + 1 \in 0 .. N
    BY <1>1
  <2>3. 0 < N => Same(0)
    BY <1>7, <2>1, <2>2
  <2>4. 0 \in 0 .. N /\ \A s \in Span : f[0][s] \subseteq Span
    BY <1>1, <1>7
  <2> HIDE DEF Same
  <2> QED
    BY <2>3, <2>4
<1>11. ASSUME NEW n \in 1 .. N, n - 1 \in T, n - 1 \in U PROVE n \in T /\ n \in U
  <2>0. n \in 0 .. N /\ n \in Nat
    BY <1>1
  <2>1. ASSUME NEW s \in Span, rank[s] <= n, n < N PROVE f[n][s] = f[n + 1][s]
    <3>0. n + 1 \in 1 .. N /\ n + 1 \in 0 .. N /\ n + 1 - 1 = n /\ n - 1 < N /\ n - 1 + 1 = n
      BY <1>1, <2>1
    <3>1. CASE ParentOf[s] = NoSpan
      BY <1>7, <2>0, <3>0, <3>1
    <3>2. CASE ParentOf[s] # NoSpan
      <4> DEFINE p == ParentOf[s]
      <4>1. p \in Span /\ rank[p] <= n - 1
        BY <1>1, <1>8, <1>9, <2>0, <2>1, <3>2
      <4>2. f[n - 1][p] = f[n][p]
        BY <1>11, <3>0, <4>1
      <4>3. f[n][s] = {p} \cup f[n - 1][p] /\ f[n + 1][s] = {p} \cup f[n][p]
        BY <1>7, <3>0, <3>2
      <4> QED
        BY <4>2, <4>3
    <3> QED
      BY <3>1, <3>2
  <2>2. ASSUME NEW s \in Span PROVE f[n][s] \subseteq Span
    BY <1>7, <2>0, <1>1, <1>11
  <2> QED
    BY <2>0, <2>1, <2>2
<1>12. \A n \in 0 .. N : n \in T /\ n \in U
  <2> DEFINE V == {n \in 0 .. N : n \in T /\ n \in U}
  <2>1. 0 \in V /\ \A n \in 1 .. N : n - 1 \in V => n \in V
    <3>1. 0 \in 0 .. N /\ \A n \in 1 .. N : n \in 0 .. N
      BY <1>1
    <3> HIDE DEF T, U
    <3> QED
      BY <3>1, <1>10, <1>11
  <2> HIDE DEF V
  <2>2. \A n \in 0 .. N : n \in V
    BY <1>1, <2>1, InductionTo
  <2> QED
    BY <2>2 DEF V
<1>13. N \in 0 .. N
  BY <1>1
<1>14. ASSUME NEW s \in Span, ParentOf[s] # NoSpan
       PROVE  f[N][s] = {ParentOf[s]} \cup f[N][ParentOf[s]]
  <2> DEFINE p == ParentOf[s]
  <2>1. p \in Span /\ rank[p] <= N - 1 /\ N - 1 \in 0 .. N /\ N \in 1 .. N /\ N - 1 + 1 = N /\ N - 1 < N
    BY <1>1, <1>8, <1>9, <1>14
  <2>2. f[N - 1][p] = f[N][p]
    BY <1>12, <2>1
  <2> QED
    BY <1>7, <1>14, <2>1, <2>2
<1>15. \A s \in Span : f[N][s] \subseteq Span
  BY <1>12, <1>13
<1> HIDE DEF T, U
<1> QED
  BY <1>1, <1>6, <1>7, <1>13, <1>14, <1>15

(* What holds of the ancestors of a span, given ranks that fall on the way.  *)
Lineage(rank, c) ==
    \A a \in Ancestors(c) :
        /\ rank[a] < rank[c] /\ ~Leaf(a) /\ Ancestors(a) \subseteq Ancestors(c)
        /\ \A b \in Ancestors(c) : a = b \/ a \in Ancestors(b) \/ b \in Ancestors(a)

(* The ancestors of a span are a chain; each is less deep, and none a leaf.  *)
LEMMA AncestorsChain ==
    /\ \A c \in Span : c \notin Ancestors(c) /\ Depth(c) \in Nat
    /\ \A c \in Span : \A a \in Ancestors(c) :
          /\ a \in Span /\ ~Leaf(a) /\ Ancestors(a) \subseteq Ancestors(c) /\ Depth(a) < Depth(c)
          /\ \A b \in Ancestors(c) : a = b \/ a \in Ancestors(b) \/ b \in Ancestors(a)
<1> DEFINE N == Cardinality(Span)
<1>1. N \in Nat /\ \A s \in Span : ParentOf[s] # NoSpan => ParentOf[s] \in Span /\ ~Leaf(ParentOf[s])
  BY TraceAssumption, FS_CardinalityType DEF Leaf, Range
<1> HIDE DEF N
<1>2. PICK rank \in [Span -> 0 .. N] : \A s \in Span : ParentOf[s] # NoSpan => rank[ParentOf[s]] < rank[s]
  BY TraceAssumption DEF N
<1>3. \A s \in Span : rank[s] \in Nat /\ rank[s] <= N
  BY <1>1, <1>2
<1> DEFINE T == {n \in 0 .. N : \A c \in Span : rank[c] <= n => Lineage(rank, c)}
<1>4. ASSUME NEW c \in Span, ParentOf[c] # NoSpan => Lineage(rank, ParentOf[c]) PROVE Lineage(rank, c)
  <2>1. CASE ParentOf[c] = NoSpan
    BY <2>1, AncestorsUp DEF Lineage
  <2>2. CASE ParentOf[c] # NoSpan
    <3> DEFINE p == ParentOf[c]
    <3>1. p \in Span /\ ~Leaf(p) /\ rank[p] < rank[c] /\ Ancestors(c) = {p} \cup Ancestors(p) /\ Ancestors(p) \subseteq Span
      BY <1>1, <1>2, <2>2, AncestorsUp
    <3>2. Lineage(rank, p)
      BY <1>4, <2>2
    <3> HIDE DEF p
    <3>3. ASSUME NEW a \in Ancestors(p)
          PROVE  rank[a] < rank[c] /\ ~Leaf(a) /\ Ancestors(a) \subseteq Ancestors(c)
      BY <3>1, <3>2, <1>3 DEF Lineage
    <3> QED
      BY <3>1, <3>2, <3>3 DEF Lineage
  <2> QED
    BY <2>1, <2>2
<1>5. 0 \in T
  BY <1>1, <1>2, <1>3, <1>4
<1>6. ASSUME NEW n \in 1 .. N, n - 1 \in T PROVE n \in T
  BY <1>1, <1>2, <1>3, <1>6, <1>4
<1>7. \A c \in Span : Lineage(rank, c)
  <2>1. \A n \in 0 .. N : n \in T
    <3> HIDE DEF T
    <3> QED
      BY <1>1, <1>5, <1>6, InductionTo
  <2>2. N \in 0 .. N
    BY <1>1
  <2> QED
    BY <1>3, <2>1, <2>2
<1>8. \A c \in Span : Ancestors(c) \in SUBSET Span /\ IsFiniteSet(Ancestors(c)) /\ Depth(c) \in Nat
  BY AncestorsUp, TraceAssumption, FS_Subset, FS_CardinalityType DEF Depth
<1>9. \A c \in Span : c \notin Ancestors(c)
  BY <1>3, <1>7 DEF Lineage
<1>10. ASSUME NEW c \in Span, NEW a \in Ancestors(c) PROVE Depth(a) < Depth(c)
  BY <1>7, <1>8, <1>9, <1>10, FS_Subset DEF Lineage, Depth
<1> QED
  BY <1>7, <1>8, <1>9, <1>10 DEF Lineage

TdSpec == TdInit /\ [][TdNext]_tdVars

SignalType ==
    [span : Span, at : Nat, kind : {"exception", "status"}, stack : {"code", NoSpan},
     sdk : BOOLEAN, handled : BOOLEAN, throw : 0 .. thrown]
FlyingType == [throw : 0 .. thrown, span : Span, stack : {"code", NoSpan}]

(* What is recorded, and what flies, was thrown.                             *)
SignalsTyped == signals \in Seq(SignalType)
FlyingTyped == flying = NoThrow \/ flying \in FlyingType
TdInv == thrown \in 0 .. MaxThrows /\ traceAt \in 0 .. MaxTraceTicks /\ SignalsTyped /\ FlyingTyped

(* The recordings are typed at the start. *)
LEMMA TdStart == TdInit => TdInv
  BY TraceAssumption DEF TdInit, TdInv, SignalsTyped, FlyingTyped

(* One recording more, at either end of the batch. *)
LEMMA ListedTyped ==
    ASSUME SignalsTyped, thrown \in Nat, thrown' \in Nat, thrown <= thrown', NEW x \in SignalType', signals' = Listed(x)
    PROVE  SignalsTyped'
<1>1. SignalType \subseteq SignalType'
  BY DEF SignalType
<1>2. signals \in Seq(SignalType')
  BY <1>1 DEF SignalsTyped
<1> HIDE DEF SignalType
<1>3. <<x>> \o signals \in Seq(SignalType') /\ Append(signals, x) \in Seq(SignalType')
  BY <1>2
<1> QED
  BY <1>3 DEF Listed, SignalsTyped

(* The elements of a finite set in some order. *)
LEMMA SeqOfSet == ASSUME NEW S, IsFiniteSet(S) PROVE SetToSeq(S) \in Seq(S)
<1> DEFINE n == Cardinality(S)
<1>1. n \in Nat /\ ExistsBijection(1 .. n, S)
  BY FS_CardinalityType
<1>2. PICK f \in [1 .. n -> S] : IsInjective(f)
  BY <1>1 DEF ExistsBijection, Bijection, Injection, IsInjective
<1>3. SetToSeq(S) \in [1 .. n -> S]
  BY <1>2 DEF SetToSeq
<1> QED
  BY <1>1, <1>3

(* Every step keeps the types of the recordings. *)
LEMMA TdStep == TdInv /\ [TdNext]_tdVars => TdInv'
<1> SUFFICES ASSUME TdInv, [TdNext]_tdVars PROVE TdInv'
  OBVIOUS
<1> USE TraceAssumption
<1>0. thrown \in Nat /\ traceAt \in Nat
  BY DEF TdInv
<1>1. ASSUME NEW s \in Span, Throw(s) PROVE TdInv'
  <2>1. thrown' = thrown + 1 /\ thrown' \in 0 .. MaxThrows /\ thrown <= thrown' /\ UNCHANGED traceAt
    BY <1>1, <1>0 DEF Throw, TdInv
  <2>2. PICK handled \in BOOLEAN :
           /\ signals' = Listed(Signal(s, "exception", "code", handled, thrown + 1))
           /\ flying' = IF handled THEN NoThrow ELSE [throw |-> thrown + 1, span |-> s, stack |-> "code"]
    BY <1>1 DEF Throw
  <2>3. Signal(s, "exception", "code", handled, thrown + 1) \in SignalType'
    BY <1>0, <2>1 DEF Signal, SignalType
  <2>4. SignalsTyped'
    BY <1>0, <2>1, <2>2, <2>3, ListedTyped DEF TdInv
  <2>5. FlyingTyped'
    BY <1>0, <2>1, <2>2 DEF FlyingTyped, FlyingType, NoThrow
  <2> QED
    BY <2>1, <2>4, <2>5 DEF TdInv
<1>2. CASE Propagate
  <2>1. UNCHANGED <<thrown, traceAt>> /\ flying # NoThrow /\ ParentOf[flying.span] # NoSpan /\ flying \in FlyingType
    BY <1>2 DEF Propagate, TdInv, FlyingTyped
  <2> DEFINE up == ParentOf[flying.span]
  <2>2. up \in Span /\ flying.throw \in 0 .. thrown /\ flying.stack \in {"code", NoSpan}
    BY <2>1 DEF FlyingType
  <2>3. PICK stack \in {flying.stack, NoSpan} :
           /\ signals' = Listed(Signal(up, "exception", stack, FALSE, flying.throw))
           /\ flying' = [flying EXCEPT !.span = up]
    BY <1>2 DEF Propagate
  <2>4. Signal(up, "exception", stack, FALSE, flying.throw) \in SignalType'
    BY <1>0, <2>1, <2>2 DEF Signal, SignalType
  <2>5. SignalsTyped'
    <3> DEFINE x == Signal(up, "exception", stack, FALSE, flying.throw)
    <3>1. x \in SignalType' /\ signals' = Listed(x) /\ SignalsTyped /\ thrown' = thrown
      BY <2>1, <2>3, <2>4 DEF TdInv
    <3> HIDE DEF up, x
    <3> QED
      BY <1>0, <3>1, ListedTyped
  <2>6. FlyingTyped'
    BY <2>1, <2>2, <2>3 DEF FlyingTyped, FlyingType
  <2> QED
    BY <2>1, <2>5, <2>6 DEF TdInv
<1>3. CASE Catch
  BY <1>3 DEF Catch, TdInv, SignalsTyped, SignalType, FlyingTyped
<1>4. CASE TraceTick
  BY <1>0, <1>4 DEF TraceTick, TdInv, SignalsTyped, SignalType, FlyingTyped, FlyingType
<1>5. CASE ExportBatch
  <2>1. UNCHANGED <<flying, thrown, traceAt>>
    BY <1>5 DEF ExportBatch
  <2>2. PICK failed \in SUBSET Span :
           signals' = signals \o SetToSeq({Signal(s, "status", NoSpan, FALSE, 0) : s \in failed})
    BY <1>5 DEF ExportBatch
  <2> DEFINE S == {Signal(s, "status", NoSpan, FALSE, 0) : s \in failed}
             f == [s \in failed |-> Signal(s, "status", NoSpan, FALSE, 0)]
  <2>3. S \subseteq SignalType
    <3>1. ASSUME NEW s \in failed PROVE Signal(s, "status", NoSpan, FALSE, 0) \in SignalType
      BY <1>0 DEF Signal, SignalType
    <3> QED
      BY <3>1
  <2>4. IsFiniteSet(failed)
    BY FS_Subset
  <2>5. f \in Surjection(failed, S)
    BY DEF Surjection
  <2> HIDE DEF S, f
  <2>6. IsFiniteSet(S)
    BY <2>4, <2>5, FS_Surjection
  <2>7. SetToSeq(S) \in Seq(S)
    BY <2>6, SeqOfSet
  <2>8. SetToSeq(S) \in Seq(SignalType)
    BY <2>3, <2>7
  <2>9. signals' \in Seq(SignalType)
    <3> HIDE DEF SignalType
    <3> QED
      BY <2>2, <2>8 DEF TdInv, SignalsTyped, S
  <2>10. SignalsTyped' /\ FlyingTyped'
    BY <2>1, <2>9 DEF TdInv, SignalsTyped, SignalType, FlyingTyped, FlyingType
  <2> QED
    BY <2>1, <2>10 DEF TdInv
<1>6. CASE UNCHANGED tdVars
  BY <1>6 DEF tdVars, TdInv, SignalsTyped, SignalType, FlyingTyped, FlyingType
<1> QED
  BY <1>1, <1>2, <1>3, <1>4, <1>5, <1>6 DEF TdNext

(* Recordings of a trace are of errors that were thrown, on its spans, in    *)
(* every reachable state.                                                    *)
THEOREM TdInvariant == TdSpec => []TdInv
  BY TdStart, TdStep, PTL DEF TdSpec

(* The typed recordings have the types the runs check. *)
LEMMA TdTyped == TdInv => TdTypeOK
<1> SUFFICES ASSUME TdInv PROVE TdTypeOK
  OBVIOUS
<1>1. flying.span \in Span \cup {NoSpan}
  BY DEF TdInv, FlyingTyped, FlyingType, NoThrow
<1>2. ASSUME NEW x \in Range(signals) PROVE x.span \in Span /\ x.throw \in 0 .. thrown
  <2>1. PICK i \in DOMAIN signals : x = signals[i]
    BY DEF Range
  <2>2. x \in SignalType
    <3> HIDE DEF SignalType
    <3> QED
      BY <2>1 DEF TdInv, SignalsTyped
  <2> QED
    BY <2>2 DEF SignalType
<1> QED
  BY <1>1, <1>2 DEF TdInv, TdTypeOK


(* A strict order of a set, and its elements in that order: each has as many *)
(* before it as its place says.                                              *)
StrictOrder(S, B) ==
    /\ \A i \in S : <<i, i>> \notin B
    /\ \A i, j, k \in S : <<i, j>> \in B /\ <<j, k>> \in B => <<i, k>> \in B
    /\ \A i, j \in S : i = j \/ <<i, j>> \in B \/ <<j, i>> \in B
Earlier(S, B, i) == {j \in S : <<j, i>> \in B}
Sorts(q, S, B) ==
    /\ q = [k \in 1 .. Cardinality(S) |-> q[k]]
    /\ \A k \in 1 .. Cardinality(S) :
          (\E i \in S : Cardinality(Earlier(S, B, i)) = k - 1) =>
              q[k] \in S /\ Cardinality(Earlier(S, B, q[k])) = k - 1

LEMMA SortedBy ==
    ASSUME NEW S, IsFiniteSet(S), NEW B, StrictOrder(S, B), NEW q, Sorts(q, S, B)
    PROVE  /\ q \in Seq(S) /\ Len(q) = Cardinality(S) /\ Cardinality(S) \in Nat
           /\ \A i \in S : \E k \in 1 .. Cardinality(S) : q[k] = i
           /\ \A k, l \in 1 .. Cardinality(S) : k < l => <<q[k], q[l]>> \in B
<1> DEFINE N == Cardinality(S)
           place == [i \in S |-> Cardinality(Earlier(S, B, i))]
           f == [i \in S |-> place[i] + 1]
<1>1. N \in Nat
  BY FS_CardinalityType
<1>2. \A i \in S : IsFiniteSet(Earlier(S, B, i)) /\ Cardinality(Earlier(S, B, i)) \in 0 .. N - 1
  <2>1. ASSUME NEW i \in S PROVE IsFiniteSet(Earlier(S, B, i)) /\ Cardinality(Earlier(S, B, i)) \in 0 .. N - 1
    <3>1. Earlier(S, B, i) \in SUBSET S /\ Earlier(S, B, i) # S
      BY DEF StrictOrder, Earlier
    <3>2. IsFiniteSet(Earlier(S, B, i)) /\ Cardinality(Earlier(S, B, i)) <= N /\ Cardinality(Earlier(S, B, i)) # N
      BY <3>1, FS_Subset
    <3>3. Cardinality(Earlier(S, B, i)) \in Nat
      BY <3>2, FS_CardinalityType
    <3> HIDE DEF N
    <3> QED
      BY <1>1, <3>2, <3>3
  <2> QED
    BY <2>1
<1>3. \A i \in S : place[i] = Cardinality(Earlier(S, B, i)) /\ place[i] \in 0 .. N - 1
  <2> HIDE DEF N
  <2> QED
    BY <1>2
<1> HIDE DEF N, place
<1>4. ASSUME NEW i \in S, NEW j \in S, <<i, j>> \in B PROVE place[i] < place[j]
  <2>1. Earlier(S, B, i) \in SUBSET Earlier(S, B, j) /\ Earlier(S, B, i) # Earlier(S, B, j)
    BY <1>4 DEF StrictOrder, Earlier
  <2>2. /\ Cardinality(Earlier(S, B, i)) <= Cardinality(Earlier(S, B, j))
        /\ Cardinality(Earlier(S, B, i)) # Cardinality(Earlier(S, B, j))
    BY <1>2, <2>1, FS_Subset
  <2> QED
    BY <1>1, <1>3, <2>2
<1>5. \A i, j \in S : place[i] = place[j] => i = j
  <2> SUFFICES ASSUME NEW i \in S, NEW j \in S, place[i] = place[j] PROVE i = j
    OBVIOUS
  <2>1. place[i] \in Int /\ ~(place[i] < place[j]) /\ ~(place[j] < place[i])
    BY <1>1, <1>3
  <2>2. <<i, j>> \notin B /\ <<j, i>> \notin B
    BY <1>4, <2>1
  <2> QED
    BY <2>2 DEF StrictOrder
<1>6. \A k \in 1 .. N : \E i \in S : place[i] = k - 1
  <2>1. f \in [S -> 1 .. N] /\ \A i, j \in S : f[i] = f[j] => i = j
    BY <1>1, <1>3, <1>5
  <2>2. IsFiniteSet(1 .. N) /\ Cardinality(1 .. N) = N
    BY <1>1, FS_Interval
  <2>3. \A i \in S : f[i] = place[i] + 1
    OBVIOUS
  <2> HIDE DEF f
  <2>4. f \in Injection(S, 1 .. N)
    BY <2>1 DEF Injection, IsInjective
  <2>5. f \in Surjection(S, 1 .. N)
    BY <2>2, <2>4, FS_Injection DEF N
  <2>6. ASSUME NEW k \in 1 .. N PROVE \E i \in S : place[i] = k - 1
    <3>1. PICK i \in S : f[i] = k
      BY <2>5 DEF Surjection
    <3> QED
      BY <1>1, <1>3, <2>3, <3>1
  <2> QED
    BY <2>6
<1>7. /\ q = [k \in 1 .. N |-> q[k]]
      /\ \A k \in 1 .. N : (\E i \in S : Cardinality(Earlier(S, B, i)) = k - 1) =>
             q[k] \in S /\ Cardinality(Earlier(S, B, q[k])) = k - 1
  BY DEF N, Sorts
<1>8. \A k \in 1 .. N : q[k] \in S /\ place[q[k]] = k - 1
  BY <1>3, <1>6, <1>7
<1>9. q \in Seq(S) /\ Len(q) = N
  <2>1. q \in [1 .. N -> S]
    BY <1>7, <1>8
  <2> QED
    BY <1>1, <2>1
<1>10. ASSUME NEW i \in S PROVE \E k \in 1 .. N : q[k] = i
  <2>1. PICK k \in 1 .. N : k - 1 = place[i]
    BY <1>1, <1>3
  <2>2. q[k] \in S /\ place[q[k]] = k - 1
    BY <1>8
  <2> QED
    BY <1>5, <2>1, <2>2
<1>11. ASSUME NEW k \in 1 .. N, NEW l \in 1 .. N, k < l PROVE <<q[k], q[l]>> \in B
  <2>1. q[k] \in S /\ q[l] \in S /\ place[q[k]] = k - 1 /\ place[q[l]] = l - 1
    BY <1>8
  <2>2. ~(place[q[l]] < place[q[k]]) /\ q[k] # q[l]
    BY <1>1, <1>11, <2>1
  <2> QED
    BY <1>4, <2>1, <2>2 DEF StrictOrder
<1> QED
  BY <1>1, <1>9, <1>10, <1>11 DEF N

(* The recordings of the batch. *)
Noted == {signals[i] : i \in Recordings}

(* One error is recorded once on a span, from the leaf that threw it outward *)
(* and within the longest way; of two errors the later is recorded later.    *)
OnceEach == \A i, j \in Recordings :
    signals[i].throw = signals[j].throw /\ signals[i].span = signals[j].span => i = j
WaysUp == \A x, y \in Noted :
    x.throw = y.throw /\ Leaf(x.span) =>
        /\ y.span = x.span \/ y.span \in Ancestors(x.span)
        /\ x.at <= y.at /\ y.at <= x.at + LongestWay
OneByOne == \A x, y \in Noted : x.throw < y.throw => x.at <= y.at

(* Each error was recorded where it was thrown; the one that flies is the    *)
(* last, at or above its recordings.                                         *)
FromLeaves == \A k \in 1 .. thrown : \E x \in Noted : x.throw = k /\ Leaf(x.span)
InTime == \A x \in Noted : x.throw \in 1 .. thrown /\ x.at <= traceAt
Flies ==
    flying # NoThrow =>
        /\ flying.throw = thrown /\ thrown # 0
        /\ \A x \in Noted : x.throw = thrown =>
              /\ x.span = flying.span \/ flying.span \in Ancestors(x.span)
              /\ traceAt <= x.at + LongestWay
WaysInv == OnceEach /\ WaysUp /\ OneByOne /\ FromLeaves /\ InTime /\ Flies

(* The recordings are typed. *)
LEMMA NotedTyped ==
    ASSUME TdInv
    PROVE  /\ Noted \subseteq SignalType /\ \A x \in Noted : x.kind = "exception"
           /\ \A i \in DOMAIN signals : signals[i] \in SignalType
           /\ Recordings \subseteq Nat /\ IsFiniteSet(Recordings)
<1>1. \A i \in DOMAIN signals : signals[i] \in SignalType
  <2> HIDE DEF SignalType
  <2> QED
    BY DEF TdInv, SignalsTyped
<1>2. Len(signals) \in Nat /\ DOMAIN signals = 1 .. Len(signals)
  <2> HIDE DEF SignalType
  <2> QED
    BY DEF TdInv, SignalsTyped
<1>3. Recordings \in SUBSET (1 .. Len(signals))
  BY <1>2 DEF Recordings
<1>4. IsFiniteSet(1 .. Len(signals))
  BY <1>2, FS_Interval
<1> QED
  BY <1>1, <1>2, <1>3, <1>4, FS_Subset DEF Noted, Recordings

(* One recording more, at either end of the batch. *)
LEMMA ListedNoted ==
    ASSUME TdInv, NEW x, x.kind = "exception", signals' = Listed(x), OnceEach,
           \A y \in Noted : ~(y.throw = x.throw /\ y.span = x.span)
    PROVE  Noted' = Noted \cup {x} /\ OnceEach'
<1> DEFINE n == Len(signals)
<1>1. n \in Nat /\ DOMAIN signals = 1 .. n
  <2> HIDE DEF SignalType
  <2> QED
    BY DEF TdInv, SignalsTyped
<1>2. PICK p \in 1 .. n + 1, d \in {0, 1} :
         /\ DOMAIN signals' = 1 .. n + 1 /\ signals'[p] = x
         /\ \A i \in 1 .. n : i + d \in 1 .. n + 1 /\ i + d # p /\ signals'[i + d] = signals[i]
         /\ \A i \in 1 .. n + 1 : i # p => i - d \in 1 .. n
  <2>1. signals \in Seq(SignalType)
    BY DEF TdInv, SignalsTyped
  <2> HIDE DEF SignalType
  <2>2. CASE newest
    BY <2>2, <1>1, <2>1 DEF Listed
  <2>3. CASE ~newest
    BY <2>3, <1>1, <2>1 DEF Listed
  <2> QED
    BY <2>2, <2>3
<1>3. \A i \in Recordings : i + d \in Recordings' /\ i + d # p /\ signals'[i + d] = signals[i]
  BY <1>1, <1>2 DEF Recordings
<1>4. p \in Recordings' /\ \A i \in Recordings' :
        i # p => i - d \in Recordings /\ signals'[i] = signals[i - d]
  BY <1>1, <1>2 DEF Recordings
<1>5. Noted' = Noted \cup {x}
  <2>1. \A y \in Noted' : y \in Noted \cup {x}
    BY <1>2, <1>4 DEF Noted
  <2>2. \A i \in Recordings : signals[i] \in Noted'
    BY <1>3 DEF Noted
  <2>3. x \in Noted'
    BY <1>2, <1>4 DEF Noted
  <2>4. Noted = {signals[i] : i \in Recordings}
    BY DEF Noted
  <2> QED
    BY <2>1, <2>2, <2>3, <2>4
<1>6. OnceEach'
  <2> SUFFICES ASSUME NEW i \in Recordings', NEW j \in Recordings',
                      signals'[i].throw = signals'[j].throw, signals'[i].span = signals'[j].span
               PROVE  i = j
    BY DEF OnceEach
  <2>1. i \in Int /\ j \in Int
    BY <1>1, <1>2 DEF Recordings
  <2>2. CASE i # p /\ j # p
    <3>1. i - d = j - d
      BY <1>4, <2>2 DEF OnceEach
    <3> QED
      BY <1>2, <2>1, <3>1
  <2>3. CASE i = p /\ j # p
    BY <1>2, <1>4, <2>3 DEF Noted
  <2>4. CASE i # p /\ j = p
    BY <1>2, <1>4, <2>4 DEF Noted
  <2> QED
    BY <2>2, <2>3, <2>4
<1> QED
  BY <1>5, <1>6

(* The ways start out. *)
LEMMA WaysStart == TdInit => WaysInv
<1> SUFFICES ASSUME TdInit PROVE WaysInv
  OBVIOUS
<1>1. Recordings = {} /\ Noted = {} /\ thrown = 0 /\ flying = NoThrow
  BY DEF TdInit, Recordings, Noted
<1> QED
  BY <1>1 DEF WaysInv, OnceEach, WaysUp, OneByOne, FromLeaves, InTime, Flies

(* The next recording keeps the ways. *)
LEMMA OneMore ==
    ASSUME TdInv, TdInv', WaysInv, NEW x, x \in SignalType', x.kind = "exception", signals' = Listed(x),
           x.at = traceAt, \A y \in Noted : y.throw <= x.throw,
           \A y \in Noted : y.throw = x.throw =>
              x.span \in Ancestors(y.span) /\ y.span # x.span /\ x.at <= y.at + LongestWay,
           Leaf(x.span) => \A y \in Noted : y.throw # x.throw
    PROVE  Noted' = Noted \cup {x} /\ OnceEach' /\ WaysUp' /\ OneByOne'
<1>1. Noted' = Noted \cup {x} /\ OnceEach'
  BY ListedNoted DEF WaysInv
<1>2. x.throw \in Nat /\ x.at \in Nat /\ \A y \in Noted : y.throw \in Nat /\ y.at \in Nat
  BY TraceAssumption, NotedTyped DEF TdInv, SignalType
<1>3. \A y \in Noted : y.at <= x.at
  BY <1>2 DEF WaysInv, InTime
<1>4. LongestWay \in Nat
  BY RetriesAssumption
<1> HIDE DEF SignalType
<1>5. WaysUp'
  <2> SUFFICES ASSUME NEW y \in Noted \cup {x}, NEW z \in Noted \cup {x}, y.throw = z.throw, Leaf(y.span)
               PROVE  /\ z.span = y.span \/ z.span \in Ancestors(y.span)
                      /\ y.at <= z.at /\ z.at <= y.at + LongestWay
    BY <1>1 DEF WaysUp, Ancestors, SpanTree
  <2>1. CASE y \in Noted /\ z \in Noted
    BY <2>1 DEF WaysInv, WaysUp
  <2>2. CASE y \in Noted /\ z = x
    BY <1>2, <1>3, <2>2
  <2>3. CASE y = x
    BY <1>2, <1>4, <2>3
  <2> QED
    BY <2>1, <2>2, <2>3
<1>6. OneByOne'
  <2> SUFFICES ASSUME NEW y \in Noted \cup {x}, NEW z \in Noted \cup {x}, y.throw < z.throw
               PROVE  y.at <= z.at
    BY <1>1 DEF OneByOne
  <2>1. CASE y \in Noted /\ z \in Noted
    BY <2>1 DEF WaysInv, OneByOne
  <2>2. CASE y \in Noted /\ z = x
    BY <1>3, <2>2
  <2>3. CASE y = x
    BY <1>2, <2>3
  <2> QED
    BY <2>1, <2>2, <2>3
<1> QED
  BY <1>1, <1>5, <1>6

(* Every step keeps the ways. *)
LEMMA WaysThrow == ASSUME TdInv, TdInv', WaysInv, NEW s \in Span, Throw(s) PROVE WaysInv'
<1>1. /\ Leaf(s) /\ flying = NoThrow /\ thrown' = thrown + 1 /\ traceAt' = traceAt
      /\ thrown \in Nat /\ traceAt \in Nat /\ LongestWay \in Nat
  BY TraceAssumption, RetriesAssumption DEF Throw, Leaf, TdInv
<1>2. PICK handled \in BOOLEAN :
         /\ signals' = Listed(Signal(s, "exception", "code", handled, thrown + 1))
         /\ flying' = IF handled THEN NoThrow ELSE [throw |-> thrown + 1, span |-> s, stack |-> "code"]
  BY DEF Throw
<1> DEFINE x == Signal(s, "exception", "code", handled, thrown + 1)
<1>3. /\ x.kind = "exception" /\ x.at = traceAt /\ x.throw = thrown + 1 /\ x.span = s
      /\ x \in SignalType'
  BY <1>1 DEF Signal, SignalType
<1>4. \A y \in Noted : y.throw \in 1 .. thrown
  BY DEF WaysInv, InTime
<1>5. \A y \in Noted : y.throw <= x.throw /\ y.throw # x.throw
  BY <1>1, <1>3, <1>4
<1>6. signals' = Listed(x)
  BY <1>2
<1> HIDE DEF x, SignalType
<1>7. Noted' = Noted \cup {x} /\ OnceEach' /\ WaysUp' /\ OneByOne'
  BY <1>3, <1>5, <1>6, OneMore
<1>8. FromLeaves'
  <2> SUFFICES ASSUME NEW k \in 1 .. thrown + 1 PROVE \E y \in Noted \cup {x} : y.throw = k /\ Leaf(y.span)
    BY <1>1, <1>7 DEF FromLeaves
  <2>1. CASE k = thrown + 1
    BY <1>1, <1>3, <2>1
  <2>2. CASE k \in 1 .. thrown
    BY <2>2 DEF WaysInv, FromLeaves
  <2> QED
    BY <1>1, <2>1, <2>2
<1>9. InTime'
  BY <1>1, <1>3, <1>7 DEF WaysInv, InTime
<1>10. Flies'
  BY <1>2, <1>3, <1>5, <1>1, <1>7 DEF Flies
<1> QED
  BY <1>7, <1>8, <1>9, <1>10 DEF WaysInv

LEMMA WaysPropagate == ASSUME TdInv, TdInv', WaysInv, Propagate PROVE WaysInv'
<1>1. /\ UNCHANGED <<thrown, traceAt>> /\ flying # NoThrow /\ ParentOf[flying.span] # NoSpan /\ flying \in FlyingType
      /\ thrown \in Nat /\ traceAt \in Nat /\ LongestWay \in Nat
  BY TraceAssumption, RetriesAssumption DEF Propagate, TdInv, FlyingTyped
<1> DEFINE at == flying.span
           up == ParentOf[at]
<1>2. at \in Span /\ up \in Span /\ flying.stack \in {"code", NoSpan} /\ ~Leaf(up)
  BY <1>1, TraceAssumption DEF FlyingType, Leaf, Range
<1>3. flying.throw = thrown /\ thrown # 0
  BY <1>1 DEF WaysInv, Flies
<1>4. PICK stack \in {flying.stack, NoSpan} :
         /\ signals' = Listed(Signal(up, "exception", stack, FALSE, flying.throw))
         /\ flying' = [flying EXCEPT !.span = up]
  BY DEF Propagate
<1> DEFINE x == Signal(up, "exception", stack, FALSE, flying.throw)
<1>5. /\ x.kind = "exception" /\ x.at = traceAt /\ x.throw = thrown /\ x.span = up
      /\ x \in SignalType'
  BY <1>1, <1>2, <1>3 DEF Signal, SignalType
<1>6. up \in Ancestors(at) /\ \A c \in Span : at \in Ancestors(c) => up \in Ancestors(c) /\ c # up
  <2>1. up \in Ancestors(at)
    BY <1>1, <1>2, AncestorsUp
  <2> HIDE DEF up, at
  <2>2. ASSUME NEW c \in Span, at \in Ancestors(c) PROVE up \in Ancestors(c) /\ c # up
    BY <2>2, AncestorsChain, <2>1
  <2> QED
    BY <2>1, <2>2
<1>7. at # up
  <2> HIDE DEF up, at
  <2> QED
    BY <1>2, <1>6, AncestorsChain
<1>8. /\ flying'.throw = thrown /\ flying'.span = up /\ signals' = Listed(x)
      /\ \A y \in Noted : y.throw = thrown => (y.span = at \/ at \in Ancestors(y.span)) /\ traceAt <= y.at + LongestWay
      /\ \A y \in Noted : y.throw \in 1 .. thrown /\ y.span \in Span
  BY <1>1, <1>3, <1>4, NotedTyped DEF FlyingType, SignalType, WaysInv, Flies, InTime
<1> HIDE DEF at, up, x, SignalType
<1>9. \A y \in Noted : y.throw <= x.throw /\ (y.throw = x.throw =>
         up \in Ancestors(y.span) /\ y.span # up /\ x.at <= y.at + LongestWay)
  BY <1>1, <1>5, <1>6, <1>7, <1>8
<1>10. Noted' = Noted \cup {x} /\ OnceEach' /\ WaysUp' /\ OneByOne'
  BY <1>2, <1>5, <1>8, <1>9, OneMore
<1>11. FromLeaves'
  BY <1>1, <1>10 DEF WaysInv, FromLeaves
<1>12. InTime'
  BY <1>1, <1>3, <1>5, <1>10 DEF WaysInv, InTime
<1>13. Flies'
  <2>1. \A y \in Noted' : y.throw = thrown => (y.span = up \/ up \in Ancestors(y.span)) /\ traceAt <= y.at + LongestWay
    BY <1>1, <1>5, <1>8, <1>9, <1>10
  <2> QED
    BY <1>1, <1>3, <1>8, <2>1 DEF Flies, Ancestors, SpanTree
<1> QED
  BY <1>10, <1>11, <1>12, <1>13 DEF WaysInv

LEMMA WaysTick == ASSUME TdInv, WaysInv, TraceTick PROVE WaysInv'
<1>1. /\ UNCHANGED <<signals, flying, thrown>> /\ traceAt' = traceAt + 1 /\ thrown \in Nat /\ traceAt \in Nat
      /\ LongestWay \in Nat /\ \A x \in Range(signals) : x.throw = flying.throw => traceAt + 1 - x.at <= LongestWay
  BY TraceAssumption, RetriesAssumption DEF TraceTick, TdInv
<1>2. UNCHANGED <<Recordings, Noted>>
  BY <1>1 DEF Recordings, Noted
<1>3. \A x \in Noted : x \in Range(signals) /\ x.at \in Nat
  BY NotedTyped DEF Noted, Range, Recordings, SignalType
<1>4. OnceEach' /\ WaysUp' /\ OneByOne' /\ FromLeaves'
  BY <1>1, <1>2 DEF WaysInv, OnceEach, WaysUp, OneByOne, FromLeaves, Ancestors, SpanTree
<1>5. InTime'
  BY <1>1, <1>3, <1>2 DEF WaysInv, InTime
<1>6. Flies'
  BY <1>1, <1>3, <1>2 DEF WaysInv, Flies, Ancestors, SpanTree
<1> QED
  BY <1>4, <1>5, <1>6 DEF WaysInv

(* What is left alone stays as it was. *)
LEMMA WaysSame ==
    ASSUME WaysInv, UNCHANGED <<thrown, traceAt>>, flying' = NoThrow \/ flying' = flying,
           UNCHANGED Recordings, \A i \in Recordings : signals'[i] = signals[i]
    PROVE  WaysInv'
<1>1. Noted' = Noted
  BY DEF Noted
<1>2. OnceEach'
  BY DEF WaysInv, OnceEach
<1>3. WaysUp' /\ OneByOne' /\ FromLeaves' /\ InTime'
  BY <1>1 DEF WaysInv, WaysUp, OneByOne, FromLeaves, InTime, Ancestors, SpanTree
<1>4. Flies'
  BY <1>1 DEF WaysInv, Flies, Ancestors, SpanTree
<1> QED
  BY <1>2, <1>3, <1>4 DEF WaysInv

AtOf(i) == signals[i].at
SpanOf(i) == signals[i].span
ThrowOf(i) == signals[i].throw

(* The recordings by their places in the batch. *)
LEMMA PlacesTyped ==
    ASSUME TdInv, WaysInv
    PROVE  /\ IsFiniteSet(Recordings) /\ Recordings \subseteq Nat
           /\ \A i \in Recordings : /\ AtOf(i) \in 0 .. traceAt /\ SpanOf(i) \in Span /\ ThrowOf(i) \in 1 .. thrown
                                    /\ signals[i].stack \in {"code", NoSpan} /\ Depth(SpanOf(i)) \in Nat
           /\ \A i, j \in Recordings :
                 /\ ThrowOf(i) = ThrowOf(j) /\ SpanOf(i) = SpanOf(j) => i = j
                 /\ ThrowOf(i) = ThrowOf(j) /\ Leaf(SpanOf(i)) =>
                       (j = i \/ SpanOf(j) \in Ancestors(SpanOf(i))) /\ AtOf(i) <= AtOf(j) /\ AtOf(j) <= AtOf(i) + LongestWay
                 /\ ThrowOf(i) < ThrowOf(j) => AtOf(i) <= AtOf(j)
           /\ \A k \in 1 .. thrown : \E i \in Recordings : ThrowOf(i) = k /\ Leaf(SpanOf(i))
<1>1. \A i \in Recordings : signals[i] \in Noted
  BY DEF Noted
<1>2. \A i \in Recordings : AtOf(i) \in 0 .. traceAt /\ SpanOf(i) \in Span /\ ThrowOf(i) \in 1 .. thrown
                            /\ signals[i].stack \in {"code", NoSpan} /\ Depth(SpanOf(i)) \in Nat
  <2>1. \A i \in Recordings : signals[i] \in SignalType
    BY NotedTyped DEF Recordings
  <2>2. traceAt \in Nat
    BY TraceAssumption DEF TdInv
  <2>3. \A i \in Recordings : AtOf(i) \in Nat /\ SpanOf(i) \in Span /\ signals[i].stack \in {"code", NoSpan}
    BY <2>1 DEF SignalType, AtOf, SpanOf
  <2>4. \A i \in Recordings : AtOf(i) <= traceAt /\ ThrowOf(i) \in 1 .. thrown
    BY <1>1 DEF WaysInv, InTime, AtOf, ThrowOf
  <2> QED
    BY <2>2, <2>3, <2>4, AncestorsChain
<1>3. \A i, j \in Recordings :
         /\ ThrowOf(i) = ThrowOf(j) /\ SpanOf(i) = SpanOf(j) => i = j
         /\ ThrowOf(i) = ThrowOf(j) /\ Leaf(SpanOf(i)) =>
               (SpanOf(j) = SpanOf(i) \/ SpanOf(j) \in Ancestors(SpanOf(i))) /\ AtOf(i) <= AtOf(j) /\ AtOf(j) <= AtOf(i) + LongestWay
         /\ ThrowOf(i) < ThrowOf(j) => AtOf(i) <= AtOf(j)
  BY <1>1 DEF WaysInv, OnceEach, WaysUp, OneByOne, AtOf, SpanOf, ThrowOf
<1>4. \A k \in 1 .. thrown : \E i \in Recordings : ThrowOf(i) = k /\ Leaf(SpanOf(i))
  BY DEF WaysInv, FromLeaves, Noted, SpanOf, ThrowOf
<1> QED
  BY <1>2, <1>3, <1>4, NotedTyped

(* Time order is a strict order, and the pass takes the recordings in it.    *)
LEMMA OrderedFacts ==
    ASSUME TdInv, WaysInv
    PROVE  /\ Ordered \in Seq(Recordings) /\ Len(Ordered) = Cardinality(Recordings)
           /\ \A i \in Recordings : \E k \in 1 .. Len(Ordered) : Ordered[k] = i
           /\ \A k, l \in 1 .. Len(Ordered) : k < l => Before(Ordered[k], Ordered[l])
           /\ \A i, j \in Recordings : ~(Before(i, j) /\ Before(j, i))
<1> DEFINE B == {e \in Recordings \X Recordings : Before(e[1], e[2])}
           R == Recordings
<1>1. \A i, j \in R : <<i, j>> \in B <=> Before(i, j)
  OBVIOUS
<1>2. \A i, j \in R : Before(i, j) <=>
         \/ AtOf(i) < AtOf(j)
         \/ AtOf(i) = AtOf(j) /\ Depth(SpanOf(i)) > Depth(SpanOf(j))
         \/ AtOf(i) = AtOf(j) /\ Depth(SpanOf(i)) = Depth(SpanOf(j)) /\ i < j
  BY DEF Before, AtOf, SpanOf
<1>3. \A i \in R : i \in Nat /\ AtOf(i) \in Nat /\ Depth(SpanOf(i)) \in Nat
  BY PlacesTyped DEF TdInv
<1> HIDE DEF B, R
<1>4. /\ \A i \in R : ~Before(i, i)
      /\ \A i, j \in R : i = j \/ Before(i, j) \/ Before(j, i)
      /\ \A i, j \in R : ~(Before(i, j) /\ Before(j, i))
  BY <1>2, <1>3
<1>5. \A i, j, k \in R : Before(i, j) /\ Before(j, k) => Before(i, k)
  BY <1>2, <1>3
<1>6. StrictOrder(R, B)
  BY <1>1, <1>4, <1>5 DEF StrictOrder
<1>7. Sorts(Ordered, R, B)
  <2>1. \A i \in R : Earlier(R, B, i) = {j \in R : Before(j, i)}
    BY <1>1 DEF Earlier
  <2> DEFINE e(k) == CHOOSE i \in R : Cardinality({j \in R : Before(j, i)}) = k - 1
  <2>2. Ordered = [k \in 1 .. Cardinality(R) |-> e(k)]
    BY DEF Ordered, R
  <2>3. ASSUME NEW k \in 1 .. Cardinality(R), \E i \in R : Cardinality(Earlier(R, B, i)) = k - 1
        PROVE  Ordered[k] \in R /\ Cardinality(Earlier(R, B, Ordered[k])) = k - 1
    BY <2>2, <2>1, <2>3
  <2>4. Ordered = [k \in 1 .. Cardinality(R) |-> Ordered[k]]
    <3> HIDE DEF e
    <3> QED
      BY <2>2
  <2> QED
    BY <2>3, <2>4 DEF Sorts
<1>8. IsFiniteSet(R)
  BY NotedTyped DEF R
<1>9. /\ Ordered \in Seq(R) /\ Len(Ordered) = Cardinality(R)
      /\ \A i \in R : \E k \in 1 .. Cardinality(R) : Ordered[k] = i
      /\ \A k, l \in 1 .. Cardinality(R) : k < l => <<Ordered[k], Ordered[l]>> \in B
  BY <1>6, <1>7, <1>8, SortedBy
<1>10. \A k \in 1 .. Len(Ordered) : Ordered[k] \in R
  BY <1>9
<1> QED
  BY <1>1, <1>4, <1>9, <1>10 DEF R

(* A set of numbers up to n has a greatest. *)
LEMMA GreatestUpTo ==
    ASSUME NEW n \in Nat, NEW S \in SUBSET (0 .. n), S # {}
    PROVE  \E x \in S : \A y \in S : y <= x
<1> DEFINE T == {k \in 0 .. n : n - k \in S}
<1>1. T \in SUBSET Nat /\ T # {}
  <2>1. PICK x \in S : TRUE
    OBVIOUS
  <2>2. n - x \in 0 .. n /\ n - (n - x) = x
    BY <2>1
  <2>3. n - x \in T
    BY <2>1, <2>2
  <2>4. T \in SUBSET Nat
    OBVIOUS
  <2> HIDE DEF T
  <2> QED
    BY <2>3, <2>4
<1>2. PICK k \in T : \A m \in T : k <= m
  BY <1>1, LeastNatural
<1>3. ASSUME NEW y \in S PROVE y <= n - k
  <2>1. n - y \in 0 .. n /\ n - (n - y) = y
    BY <1>3
  <2>2. k <= n - y
    BY <1>2, <2>1
  <2> QED
    BY <1>2, <2>1, <2>2
<1> QED
  BY <1>2, <1>3

(* The latest of a group is one of its recordings' times. *)
LEMMA LastOfGroup ==
    ASSUME TdInv, WaysInv, NEW G \in SUBSET Recordings, G # {}
    PROVE  LastAt(G) \in 0 .. traceAt /\ \A m \in G : AtOf(m) <= LastAt(G)
<1> DEFINE S == {signals[m].at : m \in G}
<1>1. S \in SUBSET (0 .. traceAt) /\ S # {} /\ traceAt \in Nat /\ \A m \in G : AtOf(m) \in S
  BY PlacesTyped, TraceAssumption DEF AtOf, TdInv
<1>2. LastAt(G) = Max(S)
  BY DEF LastAt
<1> HIDE DEF S
<1>3. \E x \in S : \A y \in S : x >= y
  <2>1. PICK x \in S : \A y \in S : y <= x
    BY <1>1, GreatestUpTo
  <2> QED
    BY <1>1, <2>1
<1>4. Max(S) \in S /\ \A y \in S : Max(S) >= y
  BY <1>3 DEF Max
<1> QED
  BY <1>1, <1>2, <1>4

(* Spans on one way out of a leaf are related, two leaves never. *)
LEMMA RelatedFacts ==
    \A a, b \in Span :
        /\ Related(a, b) => Related(b, a) /\ ~(Leaf(a) /\ Leaf(b)) /\ (Leaf(b) => a \in Ancestors(b))
        /\ a \in Ancestors(b) => Related(a, b)
        /\ \A c \in Span : a \in Ancestors(c) /\ b \in Ancestors(c) => a = b \/ Related(a, b)
  BY AncestorsChain DEF Related

(* The groups made so far hold the recordings P: each recording is in one of *)
(* them, each begins with the recording of a leaf, and the recordings of one *)
(* are on different spans of one way out.                                    *)
Grouped(open, P) ==
    /\ open \in Seq(SUBSET P)
    /\ \A i \in P : \E g \in DOMAIN open : i \in open[g]
    /\ \A g, h \in DOMAIN open : \A i \in open[g] : i \in open[h] => g = h
    /\ \A g \in DOMAIN open : \E l \in open[g] : Leaf(SpanOf(l)) /\ \A m \in open[g] : AtOf(l) <= AtOf(m)
    /\ \A g \in DOMAIN open : \A i, j \in open[g] : i = j \/ Related(SpanOf(i), SpanOf(j))

(* The recordings before x in time order are P. *)
Reached(P, x) ==
    /\ P \subseteq Recordings /\ x \in Recordings \ P
    /\ \A y \in P : AtOf(y) <= AtOf(x)
    /\ \A y \in Recordings : SpanOf(x) \in Ancestors(SpanOf(y)) /\ AtOf(y) <= AtOf(x) => y \in P

(* A group takes no second leaf. *)
LEMMA LeafFitsNone ==
    ASSUME TdInv, WaysInv, NEW open, NEW P, NEW x, Grouped(open, P), Reached(P, x), Leaf(SpanOf(x)),
           NEW g \in DOMAIN open
    PROVE  ~Eligible(open[g], x)
<1>1. PICK l \in open[g] : Leaf(SpanOf(l))
  BY DEF Grouped
<1>2. l \in Recordings /\ x \in Recordings
  BY <1>1 DEF Grouped, Reached
<1>3. ~Related(SpanOf(x), SpanOf(l))
  BY <1>1, <1>2, PlacesTyped, RelatedFacts
<1> QED
  BY <1>1, <1>3 DEF Eligible, Matches, SpanOf

(* How long after a leaf's recording an error thrown t - q attempts later    *)
(* may still be recorded in the same tick.                                   *)
LEMMA LateFacts ==
    ASSUME NEW t \in Nat, t <= MaxThrows
    PROVE  /\ LongestWay \in Nat /\ Window \in Nat
           /\ \A q \in 1 .. t : (t - q + 1) * LongestWay \in Nat /\ (t - q + 1) * LongestWay <= Window
           /\ (t - t + 1) * LongestWay = LongestWay
           /\ \A k, q \in 1 .. t :
                 k < q => (t - q + 1) * LongestWay + LongestWay <= (t - k + 1) * LongestWay
<1>1. LongestWay \in Nat /\ Window \in Nat /\ MaxThrows \in Nat /\ MaxThrows * LongestWay <= Window
  BY TraceAssumption, RetriesAssumption
<1>2. ASSUME NEW a \in Nat, NEW b \in Nat, a <= b PROVE a * LongestWay \in Nat /\ a * LongestWay <= b * LongestWay
  BY <1>2, <1>1
<1>3. ASSUME NEW q \in 1 .. t
      PROVE  (t - q + 1) * LongestWay \in Nat /\ (t - q + 1) * LongestWay <= Window
  <2>1. t - q + 1 \in Nat /\ t - q + 1 <= MaxThrows
    BY <1>1
  <2> DEFINE a == t - q + 1
  <2> HIDE DEF a
  <2>2. a * LongestWay \in Nat /\ a * LongestWay <= MaxThrows * LongestWay
    BY <1>1, <1>2, <2>1 DEF a
  <2>3. MaxThrows * LongestWay \in Nat
    BY <1>1
  <2>4. a * LongestWay <= Window
    BY <1>1, <2>2, <2>3
  <2> QED
    BY <2>2, <2>4 DEF a
<1>4. (t - t + 1) * LongestWay = LongestWay
  BY <1>1
<1>5. ASSUME NEW k \in 1 .. t, NEW q \in 1 .. t, k < q
      PROVE  (t - q + 1) * LongestWay + LongestWay <= (t - k + 1) * LongestWay
  BY <1>5, <1>1, <1>2
<1> QED
  BY <1>1, <1>3, <1>4, <1>5

(* Another recording of an error finds a group open: as many as there are    *)
(* errors whose way leads here and could still be recorded in this tick, one *)
(* more than could have taken a place on this span.                          *)
LEMMA OuterFits ==
    ASSUME TdInv, WaysInv, NEW open, NEW P, NEW x, Grouped(open, P), Reached(P, x), ~Leaf(SpanOf(x))
    PROVE  \E g \in DOMAIN open : Eligible(open[g], x)
<1> DEFINE LeafOf(k) == CHOOSE i \in Recordings : ThrowOf(i) = k /\ Leaf(SpanOf(i))
           t == ThrowOf(x)
           late(q) == (t - q + 1) * LongestWay
           Under == {k \in 1 .. thrown : SpanOf(x) \in Ancestors(SpanOf(LeafOf(k)))}
           C == {q \in Under : q <= t /\ AtOf(x) <= AtOf(LeafOf(q)) + late(q)}
<1>1. /\ x \in Recordings /\ x \notin P /\ P \subseteq Recordings /\ t \in 1 .. thrown /\ thrown \in Nat /\ thrown <= MaxThrows
      /\ MaxThrows \in Nat /\ SpanOf(x) \in Span
  BY PlacesTyped, TraceAssumption DEF Reached, TdInv
<1>2. \A k \in 1 .. thrown : LeafOf(k) \in Recordings /\ ThrowOf(LeafOf(k)) = k /\ Leaf(SpanOf(LeafOf(k)))
  BY PlacesTyped
<1>3. \A i \in Recordings : i \in Nat /\ AtOf(i) \in Nat /\ SpanOf(i) \in Span /\ ThrowOf(i) \in 1 .. thrown
  BY PlacesTyped, TraceAssumption DEF TdInv
<1> HIDE DEF LeafOf
<1>4. \A i \in Recordings : i # LeafOf(ThrowOf(i)) => SpanOf(i) \in Ancestors(SpanOf(LeafOf(ThrowOf(i))))
  BY <1>2, <1>3, PlacesTyped
<1>5. \A i \in Recordings : AtOf(LeafOf(ThrowOf(i))) <= AtOf(i) /\ AtOf(i) <= AtOf(LeafOf(ThrowOf(i))) + LongestWay
  BY <1>2, <1>3, PlacesTyped
<1>6. \A i \in Recordings : SpanOf(i) = SpanOf(x) => ThrowOf(i) \in Under
  BY <1>1, <1>2, <1>3, <1>4
<1>7. /\ LongestWay \in Nat /\ Window \in Nat
      /\ \A q \in 1 .. t : late(q) \in Nat /\ late(q) <= Window
      /\ late(t) = LongestWay
      /\ \A k, q \in 1 .. t : k < q => late(q) + LongestWay <= late(k)
  BY <1>1, LateFacts
<1> HIDE DEF late, t
<1>8. t \in C
  BY <1>1, <1>3, <1>5, <1>6, <1>7 DEF t
<1> DEFINE q == Min(C)
<1>9. q \in C /\ \A k \in C : q <= k
  <2>1. C \in SUBSET Nat /\ C # {}
    BY <1>1, <1>8
  <2> HIDE DEF C
  <2> QED
    BY <2>1, MinIsLeast
<1> HIDE DEF q
<1> DEFINE Cand == {k \in Under : q <= k /\ LeafOf(k) \in P}
<1>10. /\ q \in 1 .. t /\ q \in 1 .. thrown /\ q \in Under /\ AtOf(x) <= AtOf(LeafOf(q)) + late(q)
       /\ t \in 1 .. thrown /\ \A k \in Under : k \in 1 .. thrown
  BY <1>1, <1>9
<1>11. \A i \in Recordings : SpanOf(i) = SpanOf(x) /\ AtOf(i) <= AtOf(x) => LeafOf(ThrowOf(i)) \in P
  <2> SUFFICES ASSUME NEW i \in Recordings, SpanOf(i) = SpanOf(x), AtOf(i) <= AtOf(x) PROVE LeafOf(ThrowOf(i)) \in P
    OBVIOUS
  <2>1. /\ LeafOf(ThrowOf(i)) \in Recordings /\ SpanOf(x) \in Ancestors(SpanOf(LeafOf(ThrowOf(i))))
        /\ AtOf(LeafOf(ThrowOf(i))) <= AtOf(x)
    BY <1>1, <1>2, <1>3, <1>4, <1>5
  <2> QED
    BY <2>1 DEF Reached
<1>12. t \in Cand
  BY <1>9, <1>8, <1>1, <1>3, <1>11 DEF t
<1>13. SUFFICES ASSUME \A g \in DOMAIN open : ~Eligible(open[g], x) PROVE FALSE
  OBVIOUS
<1>14. \A g \in DOMAIN open : open[g] \subseteq P /\ open[g] \in SUBSET Recordings
  BY <1>1 DEF Grouped
(* The group of each candidate has a recording on this span already. *)
<1>15. ASSUME NEW k \in Cand, NEW g \in DOMAIN open, LeafOf(k) \in open[g]
       PROVE  \E m \in open[g] : SpanOf(m) = SpanOf(x)
  <2> DEFINE l == LeafOf(k)
  <2>1. k \in 1 .. thrown /\ q <= k /\ SpanOf(x) \in Ancestors(SpanOf(l)) /\ l \in Recordings /\ Leaf(SpanOf(l))
    BY <1>2, <1>15
  <2>2. LastAt(open[g]) \in Nat /\ AtOf(l) <= LastAt(open[g])
    BY <1>14, <1>15, LastOfGroup
  <2>3. AtOf(LeafOf(q)) <= AtOf(l)
    BY <1>3, <2>1, <1>2, <1>10, PlacesTyped
  <2>4. AtOf(x) - LastAt(open[g]) <= Window
    <3>1. AtOf(x) <= AtOf(LeafOf(q)) + late(q) /\ late(q) <= Window /\ late(q) \in Nat
      BY <1>7, <1>10
    <3>2. AtOf(LeafOf(q)) \in Nat /\ AtOf(l) \in Nat /\ AtOf(x) \in Nat
      BY <1>1, <1>2, <1>3, <1>10, <2>1
    <3> QED
      BY <1>7, <2>2, <2>3, <3>1, <3>2
  <2>5. PICK m \in open[g] : ~Matches(signals[x], signals[m])
    BY <1>13, <2>4 DEF Eligible, AtOf
  <2>6. m \in Recordings /\ ~Related(SpanOf(x), SpanOf(m))
    BY <1>14, <1>1, PlacesTyped, <2>5 DEF Matches, StacksMatch, SpanOf
  <2>7. m # l
    BY <1>1, <1>3, <2>1, <2>6, RelatedFacts
  <2>8. SpanOf(m) \in Ancestors(SpanOf(l))
    BY <1>15, <2>7, <1>3, <2>1, <2>6, RelatedFacts DEF Grouped
  <2> QED
    BY <1>1, <1>3, <2>1, <2>6, <2>8, RelatedFacts
(* It is that of another candidate. *)
<1>16. ASSUME NEW k \in Cand, NEW g \in DOMAIN open, LeafOf(k) \in open[g],
              NEW m \in open[g], SpanOf(m) = SpanOf(x)
       PROVE  ThrowOf(m) \in Cand \ {t}
  <2>1. m \in P /\ m \in Recordings /\ m # x /\ AtOf(m) <= AtOf(x) /\ ThrowOf(m) \in 1 .. thrown
    BY <1>1, <1>3, <1>14 DEF Reached
  <2>2. ThrowOf(m) # t /\ ThrowOf(m) \in Under /\ LeafOf(ThrowOf(m)) \in P
    BY <1>1, <1>6, <1>11, <1>16, <2>1, PlacesTyped DEF t
  <2>3. q <= ThrowOf(m)
    <3> SUFFICES ASSUME ThrowOf(m) < q PROVE FALSE
      BY <1>10, <2>1
    <3>1. k \in 1 .. thrown /\ q <= k /\ LeafOf(k) \in Recordings /\ ThrowOf(LeafOf(k)) = k /\ Leaf(SpanOf(LeafOf(k)))
      BY <1>2
    <3>2. AtOf(LeafOf(k)) <= AtOf(m)
      <4>1. PICK l \in open[g] : Leaf(SpanOf(l)) /\ \A i \in open[g] : AtOf(l) <= AtOf(i)
        BY DEF Grouped
      <4>2. l = LeafOf(k) \/ Related(SpanOf(l), SpanOf(LeafOf(k)))
        BY <1>16 DEF Grouped
      <4>3. l = LeafOf(k)
        BY <1>3, <1>14, <3>1, <4>1, <4>2, RelatedFacts
      <4> QED
        BY <4>1, <4>3
    <3>3. AtOf(m) <= AtOf(LeafOf(q))
      BY <1>2, <1>10, <2>1, PlacesTyped
    <3>4. AtOf(LeafOf(q)) <= AtOf(LeafOf(k))
      BY <1>3, <3>1, <1>2, <1>10, PlacesTyped
    <3>5. AtOf(LeafOf(q)) <= AtOf(LeafOf(ThrowOf(m))) + LongestWay
      <4>1. AtOf(LeafOf(q)) \in Nat /\ AtOf(LeafOf(k)) \in Nat /\ AtOf(m) \in Nat /\ AtOf(LeafOf(ThrowOf(m))) \in Nat
        BY <1>2, <1>3, <1>10, <2>1, <3>1
      <4> QED
        BY <1>5, <1>7, <2>1, <3>2, <3>4, <4>1
    <3>6. ThrowOf(m) \in 1 .. t /\ late(q) + LongestWay <= late(ThrowOf(m)) /\ late(q) \in Nat /\ late(ThrowOf(m)) \in Nat
      BY <1>10, <2>1, <1>7
    <3>7. AtOf(x) <= AtOf(LeafOf(ThrowOf(m))) + late(ThrowOf(m))
      <4>1. AtOf(LeafOf(q)) \in Nat /\ AtOf(LeafOf(ThrowOf(m))) \in Nat /\ AtOf(x) \in Nat
        BY <1>1, <1>2, <1>3, <1>10, <2>1
      <4> QED
        BY <1>7, <1>10, <3>5, <3>6, <4>1
    <3>8. ThrowOf(m) \in C
      BY <2>2, <3>6, <3>7
    <3> QED
      BY <1>9, <1>10, <2>1, <3>8
  <2> QED
    BY <2>2, <2>3
<1> HIDE DEF Cand, Under, C
<1>17. \A k \in Cand : LeafOf(k) \in P /\ LeafOf(k) \in Recordings /\ Leaf(SpanOf(LeafOf(k))) /\ ThrowOf(LeafOf(k)) = k /\ k \in 1 .. thrown
  BY <1>2, <1>10 DEF Cand
<1> DEFINE Here(k, m) == m \in P /\ SpanOf(m) = SpanOf(x) /\ \E g \in DOMAIN open : LeafOf(k) \in open[g] /\ m \in open[g]
           M(k) == CHOOSE m : Here(k, m)
           f == [k \in Cand |-> ThrowOf(M(k))]
<1>18. ASSUME NEW k \in Cand PROVE Here(k, M(k))
  <2>1. PICK g \in DOMAIN open : LeafOf(k) \in open[g]
    BY <1>17 DEF Grouped
  <2>2. PICK m \in open[g] : SpanOf(m) = SpanOf(x)
    BY <1>15, <2>1
  <2>3. Here(k, m)
    BY <1>14, <2>1, <2>2
  <2> HIDE DEF Here
  <2> QED
    BY <2>3
<1> HIDE DEF M
<1>19. f \in [Cand -> Cand \ {t}]
  BY <1>16, <1>18
<1>20. IsFiniteSet(Cand) /\ IsFiniteSet(Cand \ {t}) /\ Cardinality(Cand \ {t}) < Cardinality(Cand)
  <2>1. IsFiniteSet(1 .. thrown)
    BY <1>1, FS_Interval
  <2>2. IsFiniteSet(Cand)
    BY <1>17, <2>1, FS_Subset
  <2>3. Cand \ {t} \in SUBSET Cand /\ Cand \ {t} # Cand
    BY <1>12
  <2>4. IsFiniteSet(Cand \ {t}) /\ Cardinality(Cand \ {t}) <= Cardinality(Cand) /\ Cardinality(Cand \ {t}) # Cardinality(Cand)
    BY <2>2, <2>3, FS_Subset
  <2>5. Cardinality(Cand) \in Nat /\ Cardinality(Cand \ {t}) \in Nat
    BY <2>2, <2>4, FS_CardinalityType
  <2> QED
    BY <2>2, <2>4, <2>5
<1>21. PICK k \in Cand, h \in Cand : k # h /\ f[k] = f[h]
  <2> HIDE DEF f
  <2> QED
    BY <1>19, <1>20, FS_PigeonHole
<1>22. M(k) = M(h)
  BY <1>18, <1>21, <1>1, PlacesTyped
<1>23. PICK g \in DOMAIN open : LeafOf(k) \in open[g] /\ LeafOf(h) \in open[g]
  BY <1>18, <1>22 DEF Grouped
<1>24. LeafOf(k) = LeafOf(h)
  BY <1>23, <1>3, <1>17, RelatedFacts DEF Grouped
<1> QED
  BY <1>17, <1>21, <1>24

(* What joins is grouped: the recordings made so far stay in their groups,   *)
(* and the new one is in one of them or its own.                             *)
LEMMA JoinKeepsGroups ==
    ASSUME TdInv, WaysInv, NEW open, NEW P, NEW x, Grouped(open, P), Reached(P, x)
    PROVE  Grouped(Join(open, x), P \cup {x})
<1> DEFINE fit == {g \in DOMAIN open : Eligible(open[g], x)}
           latest == {g \in fit : \A h \in fit : LastAt(open[h]) <= LastAt(open[g])}
           n == Len(open)
<1>1. /\ open \in Seq(SUBSET P) /\ n \in Nat /\ DOMAIN open = 1 .. n /\ \A g \in 1 .. n : open[g] \subseteq P
      /\ x \notin P /\ x \in Recordings /\ P \subseteq Recordings
  BY DEF Grouped, Reached
<1>2. \A i \in Recordings : AtOf(i) \in Nat /\ SpanOf(i) \in Span
  BY PlacesTyped, TraceAssumption DEF TdInv
<1>3. \A i \in P : AtOf(i) <= AtOf(x)
  BY DEF Reached
<1>4. Join(open, x) = IF fit = {} THEN Append(open, {x}) ELSE [open EXCEPT ![Min(latest)] = @ \cup {x}]
  BY DEF Join
<1>5. CASE Leaf(SpanOf(x))
  <2>1. fit = {}
    BY <1>5, LeafFitsNone
  <2> DEFINE new == Append(open, {x})
  <2>2. Join(open, x) = new
    BY <1>4, <2>1
  <2>3. /\ DOMAIN new = 1 .. n + 1 /\ new[n + 1] = {x} /\ \A g \in 1 .. n : new[g] = open[g]
        /\ new \in Seq(SUBSET (P \cup {x}))
    BY <1>1
  <2> HIDE DEF new
  <2>4. \A g \in DOMAIN new : (g \in 1 .. n /\ new[g] = open[g] /\ x \notin open[g]) \/ (g = n + 1 /\ new[g] = {x})
    BY <1>1, <2>3
  <2>5. \A i \in P \cup {x} : \E g \in DOMAIN new : i \in new[g]
    <3>1. ASSUME NEW i \in P PROVE \E g \in DOMAIN new : i \in new[g]
      <4>1. PICK g \in 1 .. n : i \in open[g]
        BY <1>1 DEF Grouped
      <4>2. g \in 1 .. n + 1 /\ i \in new[g]
        BY <1>1, <2>3, <4>1
      <4> QED
        BY <2>3, <4>2
    <3>2. n + 1 \in 1 .. n + 1 /\ x \in new[n + 1]
      BY <1>1, <2>3
    <3> QED
      BY <2>3, <3>1, <3>2
  <2>6. \A g, h \in DOMAIN new : \A i \in new[g] : i \in new[h] => g = h
    BY <1>1, <2>4 DEF Grouped
  <2>7. \A g \in DOMAIN new : \E l \in new[g] : Leaf(SpanOf(l)) /\ \A m \in new[g] : AtOf(l) <= AtOf(m)
    BY <1>1, <1>2, <1>5, <2>4 DEF Grouped
  <2>8. \A g \in DOMAIN new : \A i, j \in new[g] : i = j \/ Related(SpanOf(i), SpanOf(j))
    BY <1>1, <2>4 DEF Grouped
  <2> QED
    BY <2>2, <2>3, <2>5, <2>6, <2>7, <2>8 DEF Grouped
<1>6. CASE ~Leaf(SpanOf(x))
  <2>1. fit # {}
    BY <1>6, OuterFits
  <2>2. Min(latest) \in fit
    <3> DEFINE S == {LastAt(open[g]) : g \in fit}
    <3>1. \A g \in fit : LastAt(open[g]) \in 0 .. traceAt
      BY <1>1, LastOfGroup DEF Grouped
    <3>2. traceAt \in Nat
      BY TraceAssumption DEF TdInv
    <3>3. S \in SUBSET (0 .. traceAt) /\ S # {}
      BY <2>1, <3>1
    <3>4. PICK a \in S : \A b \in S : b <= a
      BY <3>2, <3>3, GreatestUpTo
    <3>5. PICK g \in fit : LastAt(open[g]) = a
      BY <3>4
    <3>6. g \in latest
      BY <3>4, <3>5
    <3>7. latest \in SUBSET Nat /\ latest # {}
      BY <1>1, <3>6
    <3>8. \A h \in latest : h \in fit
      OBVIOUS
    <3> HIDE DEF latest
    <3> QED
      BY <3>7, <3>8, MinIsLeast
  <2> DEFINE e == Min(latest)
             new == [open EXCEPT ![e] = @ \cup {x}]
  <2>3. Join(open, x) = new
    BY <1>4, <2>1
  <2>4. e \in 1 .. n /\ Eligible(open[e], x)
    BY <1>1, <2>2
  <2> HIDE DEF e, fit, latest
  <2>5. /\ DOMAIN new = 1 .. n /\ new[e] = open[e] \cup {x} /\ \A g \in 1 .. n : g # e => new[g] = open[g]
        /\ new \in Seq(SUBSET (P \cup {x}))
    BY <1>1, <2>4
  <2>6. \A m \in open[e] : m # x /\ Related(SpanOf(x), SpanOf(m)) /\ Related(SpanOf(m), SpanOf(x))
    BY <2>4, <1>1, <1>2, RelatedFacts DEF Eligible, Matches, SpanOf
  <2> HIDE DEF new
  <2>7. \A g \in DOMAIN new : g \in 1 .. n /\ ((g # e /\ new[g] = open[g] /\ x \notin new[g]) \/ g = e)
    BY <1>1, <2>5
  <2>8. \A i \in P \cup {x} : \E g \in DOMAIN new : i \in new[g]
    <3>1. ASSUME NEW i \in P PROVE \E g \in DOMAIN new : i \in new[g]
      <4>1. PICK g \in 1 .. n : i \in open[g]
        BY <1>1 DEF Grouped
      <4> QED
        BY <2>5, <4>1
    <3> QED
      BY <2>4, <2>5, <3>1
  <2>9. \A g, h \in DOMAIN new : \A i \in new[g] : i \in new[h] => g = h
    <3> SUFFICES ASSUME NEW g \in 1 .. n, NEW h \in 1 .. n, NEW i, i \in new[g], i \in new[h] PROVE g = h
      BY <2>5
    <3>1. CASE i = x
      BY <2>5, <2>7, <3>1
    <3>2. CASE i # x
      BY <2>5, <3>2, <1>1 DEF Grouped
    <3> QED
      BY <3>1, <3>2
  <2>10. ASSUME NEW g \in 1 .. n PROVE \E l \in new[g] : Leaf(SpanOf(l)) /\ \A m \in new[g] : AtOf(l) <= AtOf(m)
    <3>1. PICK l \in open[g] : Leaf(SpanOf(l)) /\ \A m \in open[g] : AtOf(l) <= AtOf(m)
      BY <1>1 DEF Grouped
    <3>2. l \in new[g] /\ AtOf(l) <= AtOf(x) /\ \A m \in new[g] : m \in open[g] \/ m = x
      BY <1>1, <1>3, <2>5, <3>1
    <3> QED
      BY <3>1, <3>2
  <2>11. ASSUME NEW g \in 1 .. n, NEW i \in new[g], NEW j \in new[g] PROVE i = j \/ Related(SpanOf(i), SpanOf(j))
    BY <1>1, <2>5, <2>6 DEF Grouped
  <2> QED
    BY <2>3, <2>5, <2>8, <2>9, <2>10, <2>11 DEF Grouped
<1> QED
  BY <1>5, <1>6

(* The pass over the whole batch groups all its recordings. *)
LEMMA PassGroups ==
    ASSUME TdInv, WaysInv
    PROVE  Grouped(Groups, Recordings)
<1> DEFINE q == Ordered
           n == Len(Ordered)
           D == Seq(SUBSET Recordings)
           step == [p \in D \X (1 .. n) |-> Join(p[1], q[p[2]])]
           Runs(g) == g = [s \in SUBSET (1 .. n) |-> IF s = {} THEN <<>> ELSE Join(g[s \ {Max(s)}], q[Max(s)])]
           iter == CHOOSE g : Runs(g)
<1>1. /\ q \in Seq(Recordings) /\ n \in Nat /\ DOMAIN q = 1 .. n /\ \A k \in 1 .. n : q[k] \in Recordings
      /\ \A i \in Recordings : \E k \in 1 .. n : q[k] = i
      /\ \A k, l \in 1 .. n : k < l => Before(q[k], q[l])
      /\ \A i, j \in Recordings : ~(Before(i, j) /\ Before(j, i))
  BY OrderedFacts
<1> HIDE DEF q, n
<1>2. ASSUME NEW open \in D, NEW i \in Recordings PROVE Join(open, i) \in D
  <2> DEFINE fit == {g \in DOMAIN open : Eligible(open[g], i)}
             latest == {g \in fit : \A h \in fit : LastAt(open[h]) <= LastAt(open[g])}
  <2>1. Join(open, i) = IF fit = {} THEN Append(open, {i}) ELSE [open EXCEPT ![Min(latest)] = @ \cup {i}]
    BY DEF Join
  <2> DEFINE e == Min(latest)
  <2> HIDE DEF fit, e
  <2>2. open \in [1 .. Len(open) -> SUBSET Recordings] /\ Len(open) \in Nat
    OBVIOUS
  <2>3. [open EXCEPT ![e] = @ \cup {i}] \in [1 .. Len(open) -> SUBSET Recordings]
    BY <2>2
  <2>4. [open EXCEPT ![e] = @ \cup {i}] \in D
    BY <2>2, <2>3
  <2>5. Append(open, {i}) \in D
    OBVIOUS
  <2> QED
    BY <2>1, <2>4, <2>5 DEF e
<1>3. step \in [D \X (1 .. n) -> D]
  <2> HIDE DEF D
  <2> QED
    BY <1>1, <1>2
<1>4. PICK g \in [SUBSET (1 .. n) -> D] : g = LeftStep(step, <<>>, n, g)
  <2>1. <<>> \in D
    OBVIOUS
  <2> HIDE DEF step, D
  <2>2. CanFold(step, <<>>, n, D)
    BY <1>1, <1>3, <2>1 DEF CanFold
  <2>3. PICK g : IsLeftFold(g, step, <<>>, n, D)
    BY <2>2, CanFoldLeft
  <2> QED
    BY <2>3 DEF IsLeftFold
<1>5. Runs(g)
  <2> HIDE DEF D
  <2>1. ASSUME NEW s \in SUBSET (1 .. n)
        PROVE  g[s] = IF s = {} THEN <<>> ELSE Join(g[s \ {Max(s)}], q[Max(s)])
    <3>1. g[s] = IF s = {} THEN <<>> ELSE step[<<g[s \ {Max(s)}], Max(s)>>]
      <4> HIDE DEF step
      <4> QED
        BY <1>4 DEF LeftStep
    <3>2. ASSUME s # {} PROVE step[<<g[s \ {Max(s)}], Max(s)>>] = Join(g[s \ {Max(s)}], q[Max(s)])
      BY <1>1, <1>4, <3>2, LastOfLess
    <3> QED
      BY <3>1, <3>2
  <2>2. g = [s \in SUBSET (1 .. n) |-> g[s]]
    OBVIOUS
  <2> QED
    BY <2>1, <2>2
<1>6. Runs(iter)
  <2> HIDE DEF Runs
  <2> QED
    BY <1>5
<1>7. Groups = iter[1 .. n]
  BY <1>1 DEF Groups, FoldLeft, MapThenFoldSet, q
<1> HIDE DEF iter, step, D
<1> DEFINE f(k) == iter[1 .. k]
           P(k) == {q[m] : m \in 1 .. k}
           Passed == {k \in 0 .. n : Grouped(f(k), P(k))}
<1>8. f(0) = <<>> /\ \A k \in 1 .. n : f(k) = Join(f(k - 1), q[k])
  <2>1. \A s \in SUBSET (1 .. n) : iter[s] = IF s = {} THEN <<>> ELSE Join(iter[s \ {Max(s)}], q[Max(s)])
    BY <1>6
  <2>2. 1 .. 0 = {} /\ {} \in SUBSET (1 .. n)
    OBVIOUS
  <2>3. ASSUME NEW k \in 1 .. n PROVE f(k) = Join(f(k - 1), q[k])
    <3>1. 1 .. k \in SUBSET (1 .. n) /\ 1 .. k # {} /\ Max(1 .. k) = k /\ (1 .. k) \ {k} = 1 .. k - 1
      BY <1>1, LastOfPrefix
    <3> QED
      BY <2>1, <3>1
  <2> QED
    BY <2>1, <2>2, <2>3
<1>9. 0 \in Passed
  <2>1. P(0) = {} /\ <<>> \in Seq(SUBSET {}) /\ DOMAIN <<>> = {} /\ 0 \in 0 .. n
    BY <1>1
  <2> QED
    BY <1>8, <2>1 DEF Grouped
<1>10. ASSUME NEW k \in 1 .. n, k - 1 \in Passed PROVE k \in Passed
  <2>1. P(k) = P(k - 1) \cup {q[k]}
    BY <1>1
  <2>2. Reached(P(k - 1), q[k])
    <3>1. \A i \in Recordings : AtOf(i) \in Nat /\ SpanOf(i) \in Span /\ Depth(SpanOf(i)) \in Nat
      BY PlacesTyped, TraceAssumption DEF TdInv
    <3>2. \A m \in 1 .. k - 1 : m \in 1 .. n /\ q[m] \in Recordings /\ Before(q[m], q[k])
      BY <1>1
    <3>3. q[k] \in Recordings /\ ~Before(q[k], q[k])
      BY <1>1
    <3>4. \A y \in P(k - 1) : AtOf(y) <= AtOf(q[k])
      BY <3>1, <3>2, <3>3 DEF Before, AtOf
    <3>5. ASSUME NEW y \in Recordings, SpanOf(q[k]) \in Ancestors(SpanOf(y)), AtOf(y) <= AtOf(q[k]) PROVE y \in P(k - 1)
      <4>1. Depth(SpanOf(q[k])) < Depth(SpanOf(y))
        BY <3>1, <3>5, AncestorsChain
      <4>2. Before(y, q[k])
        BY <3>1, <3>3, <3>5, <4>1 DEF Before, AtOf, SpanOf
      <4>3. PICK m \in 1 .. n : q[m] = y
        BY <1>1
      <4>4. ~(k < m) /\ m # k
        BY <1>1, <3>3, <4>2, <4>3
      <4>5. m \in 1 .. k - 1
        BY <1>1, <4>4
      <4> QED
        BY <4>3, <4>5
    <3>6. P(k - 1) \subseteq Recordings /\ q[k] \notin P(k - 1)
      BY <3>2, <3>3
    <3> HIDE DEF P
    <3> QED
      BY <3>3, <3>4, <3>5, <3>6 DEF Reached
  <2>3. Grouped(f(k - 1), P(k - 1)) /\ f(k) = Join(f(k - 1), q[k])
    BY <1>8, <1>10
  <2> HIDE DEF f, P
  <2>4. Grouped(f(k), P(k))
    BY <2>1, <2>2, <2>3, JoinKeepsGroups
  <2> QED
    BY <1>1, <2>4
<1>11. n \in Passed
  <2> HIDE DEF Passed
  <2>1. \A k \in 0 .. n : k \in Passed
    BY <1>1, <1>9, <1>10, InductionTo
  <2> QED
    BY <1>1, <2>1
<1>12. P(n) = Recordings
  BY <1>1
<1> QED
  BY <1>7, <1>11, <1>12

(* The recordings, the way each error took, and the groups of a batch that   *)
(* was exported.                                                             *)
TdAll == TdInv /\ WaysInv /\ (exported => Grouped(groups, Recordings))

(* A group that stays as it was, of recordings that do, stays grouped. *)
LEMMA GroupedSame ==
    ASSUME NEW open, Grouped(open, Recordings), groups' = open,
           UNCHANGED Recordings, \A i \in Recordings : signals'[i] = signals[i]
    PROVE  Grouped(groups, Recordings)'
<1>1. \A i \in Recordings : AtOf(i)' = AtOf(i) /\ SpanOf(i)' = SpanOf(i)
  BY DEF AtOf, SpanOf
<1>2. \A g \in DOMAIN open : open[g] \subseteq Recordings
  BY DEF Grouped
<1>3. \A g \in DOMAIN open : \E l \in open[g] : Leaf(SpanOf(l)') /\ \A m \in open[g] : AtOf(l)' <= AtOf(m)'
  <2>1. ASSUME NEW g \in DOMAIN open PROVE \E l \in open[g] : Leaf(SpanOf(l)') /\ \A m \in open[g] : AtOf(l)' <= AtOf(m)'
    <3>1. PICK l \in open[g] : Leaf(SpanOf(l)) /\ \A m \in open[g] : AtOf(l) <= AtOf(m)
      BY DEF Grouped
    <3> QED
      BY <1>1, <1>2, <3>1
  <2> QED
    BY <2>1
<1>4. \A g \in DOMAIN open : \A i, j \in open[g] : i = j \/ Related(SpanOf(i)', SpanOf(j)')
  BY <1>1, <1>2 DEF Grouped
<1> QED
  BY <1>3, <1>4 DEF Grouped, Leaf, Related, Ancestors, SpanTree

(* Every step keeps the ways and the groups. *)
LEMMA TdAllStep == TdAll /\ [TdNext]_tdVars => TdAll'
<1> SUFFICES ASSUME TdAll, [TdNext]_tdVars PROVE TdAll'
  OBVIOUS
<1>1. TdInv /\ WaysInv /\ TdInv' /\ (exported => Grouped(groups, Recordings))
  BY TdStep DEF TdAll
<1>2. ASSUME NEW s \in Span, Throw(s) PROVE TdAll'
  BY <1>1, <1>2, WaysThrow DEF TdAll, Throw
<1>3. CASE Propagate
  BY <1>1, <1>3, WaysPropagate DEF TdAll, Propagate
<1>4. CASE TraceTick
  BY <1>1, <1>4, WaysTick DEF TdAll, TraceTick
<1>5. CASE Catch
  BY <1>5, <1>1, WaysSame DEF Catch, Recordings, TdAll
<1>6. CASE UNCHANGED tdVars
  <2>1. UNCHANGED <<signals, thrown, traceAt, exported, flying, groups>>
    BY <1>6 DEF tdVars
  <2>2. UNCHANGED Recordings /\ \A i \in Recordings : signals'[i] = signals[i]
    BY <2>1 DEF Recordings
  <2>3. WaysInv'
    BY <1>1, <2>1, <2>2, WaysSame
  <2>4. exported' => Grouped(groups, Recordings)'
    <3> SUFFICES ASSUME exported PROVE Grouped(groups, Recordings)'
      BY <2>1
    <3> QED
      BY <1>1, <2>1, <2>2, GroupedSame
  <2> QED
    BY <1>1, <2>3, <2>4 DEF TdAll
<1>7. CASE ExportBatch
  <2>1. UNCHANGED <<flying, thrown, traceAt>> /\ groups' = Groups
    BY <1>7 DEF ExportBatch
  <2>2. PICK failed \in SUBSET Span :
           signals' = signals \o SetToSeq({Signal(s, "status", NoSpan, FALSE, 0) : s \in failed})
    BY <1>7 DEF ExportBatch
  <2> DEFINE S == {Signal(s, "status", NoSpan, FALSE, 0) : s \in failed}
             f == [s \in failed |-> Signal(s, "status", NoSpan, FALSE, 0)]
             more == SetToSeq(S)
             n == Len(signals)
  <2>3. \A x \in S : x.kind = "status"
    BY DEF Signal
  <2>4. more \in Seq(S)
    <3>1. f \in Surjection(failed, S)
      BY DEF Surjection
    <3>2. IsFiniteSet(failed)
      BY FS_Subset, TraceAssumption
    <3> HIDE DEF S, f
    <3>3. IsFiniteSet(S)
      BY <3>1, <3>2, FS_Surjection
    <3> QED
      BY <3>3, SeqOfSet
  <2> HIDE DEF S, more
  <2>5. signals' = signals \o more /\ signals \in Seq(SignalType)
    BY <1>1, <2>2 DEF more, S, TdInv, SignalsTyped
  <2>6. /\ n \in Nat /\ DOMAIN signals = 1 .. n /\ \A i \in 1 .. n : i \in DOMAIN signals' /\ signals'[i] = signals[i]
        /\ \A i \in DOMAIN signals' : i \notin 1 .. n => signals'[i] \in S
    <3> HIDE DEF SignalType
    <3>1. /\ n \in Nat /\ DOMAIN signals = 1 .. n /\ Len(more) \in Nat /\ DOMAIN more = 1 .. Len(more)
          /\ DOMAIN signals' = 1 .. n + Len(more)
          /\ \A i \in 1 .. n + Len(more) : signals'[i] = IF i <= n THEN signals[i] ELSE more[i - n]
      BY <2>4, <2>5
    <3>2. ASSUME NEW i \in 1 .. n + Len(more), i \notin 1 .. n PROVE signals'[i] \in S
      BY <3>1, <3>2, <2>4
    <3>3. \A i \in 1 .. n : i \in 1 .. n + Len(more) /\ i <= n
      BY <3>1
    <3> QED
      BY <3>1, <3>2, <3>3
  <2>7. UNCHANGED Recordings /\ \A i \in Recordings : signals'[i] = signals[i]
    BY <2>3, <2>6 DEF Recordings
  <2>8. WaysInv'
    BY <1>1, <2>1, <2>7, WaysSame
  <2>9. Grouped(groups, Recordings)'
    BY <1>1, <2>1, <2>7, PassGroups, GroupedSame
  <2> QED
    BY <1>1, <2>8, <2>9 DEF TdAll
<1> QED
  BY <1>2, <1>3, <1>4, <1>5, <1>6, <1>7 DEF TdNext

(* A group keeps one of its recordings. *)
LEMMA KeptOfGroup ==
    ASSUME TdInv, WaysInv, NEW G \in SUBSET Recordings, G # {}
    PROVE  Kept(G) \in G
<1> DEFINE rank(i) == IF signals[i].sdk THEN 1 ELSE 0
           better(i, j) == \/ rank(i) > rank(j)
                           \/ rank(i) = rank(j) /\ Depth(SpanOf(i)) < Depth(SpanOf(j))
                           \/ rank(i) = rank(j) /\ Depth(SpanOf(i)) = Depth(SpanOf(j)) /\ i < j
           B == {e \in G \X G : better(e[1], e[2])}
           q == [k \in 1 .. Cardinality(G) |-> CHOOSE i \in G : Cardinality(Earlier(G, B, i)) = k - 1]
<1>1. Kept(G) = CHOOSE i \in G : \A j \in G \ {i} : better(i, j)
  BY DEF Kept, SpanOf
<1>2. \A i \in G : i \in Nat /\ rank(i) \in Nat /\ Depth(SpanOf(i)) \in Nat
  BY PlacesTyped
<1> HIDE DEF rank
<1>3. /\ \A i \in G : ~better(i, i)
      /\ \A i, j \in G : i = j \/ better(i, j) \/ better(j, i)
      /\ \A i, j, k \in G : better(i, j) /\ better(j, k) => better(i, k)
  BY <1>2
<1> HIDE DEF better
<1>4. \A i, j \in G : <<i, j>> \in B <=> better(i, j)
  OBVIOUS
<1> HIDE DEF B
<1>5. StrictOrder(G, B)
  BY <1>3, <1>4 DEF StrictOrder
<1>6. IsFiniteSet(G)
  BY NotedTyped, FS_Subset
<1>7. Sorts(q, G, B)
  BY DEF Sorts
<1> HIDE DEF q
<1>8. /\ Cardinality(G) \in Nat /\ q \in Seq(G) /\ Len(q) = Cardinality(G)
      /\ \A i \in G : \E k \in 1 .. Cardinality(G) : q[k] = i
      /\ \A k, l \in 1 .. Cardinality(G) : k < l => <<q[k], q[l]>> \in B
  BY <1>5, <1>6, <1>7, SortedBy
<1>9. 1 \in 1 .. Cardinality(G) /\ \A k \in 1 .. Cardinality(G) : k = 1 \/ 1 < k
  BY <1>8
<1>10. q[1] \in G /\ \A j \in G \ {q[1]} : better(q[1], j)
  <2>1. q[1] \in G
    BY <1>8, <1>9
  <2> QED
    BY <1>4, <1>8, <1>9, <2>1
<1> QED
  BY <1>1, <1>10

(* The survivors among the recordings are one of each group, and there are   *)
(* as many groups as errors thrown.                                          *)
LEMMA OneOfEach ==
    ASSUME TdInv, WaysInv, Grouped(groups, Recordings)
    PROVE  Cardinality({i \in Survivors : signals[i].kind = "exception"}) = thrown
<1> DEFINE LeafOf(k) == CHOOSE i \in Recordings : ThrowOf(i) = k /\ Leaf(SpanOf(i))
           GroupOf(k) == CHOOSE g \in DOMAIN groups : LeafOf(k) \in groups[g]
           Out == {Kept(g) : g \in Range(groups)}
           f == [k \in 1 .. thrown |-> Kept(groups[GroupOf(k)])]
<1>1. \A k \in 1 .. thrown : LeafOf(k) \in Recordings /\ ThrowOf(LeafOf(k)) = k /\ Leaf(SpanOf(LeafOf(k)))
  BY PlacesTyped
<1>2. \A i \in Recordings : SpanOf(i) \in Span /\ ThrowOf(i) \in 1 .. thrown /\ (Leaf(SpanOf(i)) => LeafOf(ThrowOf(i)) = i)
  <2>1. \A i \in Recordings : SpanOf(i) \in Span /\ ThrowOf(i) \in 1 .. thrown
    BY PlacesTyped
  <2> HIDE DEF LeafOf
  <2>2. ASSUME NEW i \in Recordings, Leaf(SpanOf(i)) PROVE LeafOf(ThrowOf(i)) = i
    BY <1>1, <2>1, <2>2, PlacesTyped, AncestorsChain
  <2> QED
    BY <2>1, <2>2
<1> HIDE DEF LeafOf
<1>3. \A g \in DOMAIN groups : groups[g] \in SUBSET Recordings /\ groups[g] # {} /\ groups[g] \in Range(groups)
  BY DEF Grouped, Range
<1>4. \A k \in 1 .. thrown : GroupOf(k) \in DOMAIN groups /\ LeafOf(k) \in groups[GroupOf(k)]
  BY <1>1 DEF Grouped
<1> HIDE DEF GroupOf
<1>5. \A g \in DOMAIN groups : Kept(groups[g]) \in groups[g]
  BY <1>3, KeptOfGroup
<1>6. {i \in Survivors : signals[i].kind = "exception"} = Out
  BY <1>3, <1>5 DEF Recordings, Range, Survivors
<1>7. f \in Surjection(1 .. thrown, Out)
  <2>1. ASSUME NEW k \in 1 .. thrown PROVE Kept(groups[GroupOf(k)]) \in Out
    BY <1>3, <1>4
  <2>2. ASSUME NEW o \in Out PROVE \E k \in 1 .. thrown : f[k] = o
    <3>1. PICK g \in DOMAIN groups : o = Kept(groups[g])
      BY DEF Range
    <3>2. PICK l \in groups[g] : Leaf(SpanOf(l))
      BY DEF Grouped
    <3>3. ThrowOf(l) \in 1 .. thrown /\ LeafOf(ThrowOf(l)) = l
      BY <1>2, <1>3, <3>2
    <3>4. GroupOf(ThrowOf(l)) = g
      BY <1>4, <3>2, <3>3 DEF Grouped
    <3> QED
      BY <3>1, <3>3, <3>4
  <2> HIDE DEF Out
  <2> QED
    BY <2>1, <2>2 DEF Surjection
<1>8. f \in Injection(1 .. thrown, Out)
  <2>1. ASSUME NEW k \in 1 .. thrown, NEW h \in 1 .. thrown, Kept(groups[GroupOf(k)]) = Kept(groups[GroupOf(h)])
        PROVE  k = h
    BY <1>4, <1>5, <2>1, <1>1, <1>2, RelatedFacts DEF Grouped
  <2>2. f \in [1 .. thrown -> Out]
    BY <1>7 DEF Surjection
  <2> HIDE DEF Out
  <2> QED
    BY <2>1, <2>2 DEF Injection, IsInjective
<1>9. thrown \in Nat /\ IsFiniteSet(1 .. thrown) /\ Cardinality(1 .. thrown) = thrown
  <2>1. thrown \in Nat /\ 1 \in Int /\ thrown \in Int /\ (1 > thrown => thrown = 0) /\ thrown - 1 + 1 = thrown
    BY TraceAssumption DEF TdInv
  <2> QED
    BY <2>1, FS_Interval
<1> HIDE DEF f, Out
<1>10. ExistsBijection(1 .. thrown, Out)
  BY <1>7, <1>8 DEF ExistsBijection, Bijection
<1> QED
  BY <1>6, <1>9, <1>10, FS_Bijection

(* Every recording is in one group, and what is dropped is explained. *)
LEMMA NoneSilenced ==
    ASSUME TdInv, Grouped(groups, Recordings)
    PROVE  NothingSilenced
<1>1. ASSUME NEW i \in Recordings PROVE Cardinality({g \in DOMAIN groups : i \in groups[g]}) = 1
  <2>1. PICK g \in DOMAIN groups : i \in groups[g]
    BY DEF Grouped
  <2>2. {h \in DOMAIN groups : i \in groups[h]} = {g}
    BY <2>1 DEF Grouped
  <2> QED
    BY <2>2, FS_Singleton
<1>2. ASSUME NEW i \in DOMAIN signals \ Survivors, signals[i].kind = "status"
      PROVE  \E j \in Recordings : /\ ~signals[j].handled
                                   /\ Related(signals[i].span, signals[j].span) \/ signals[i].span = signals[j].span
  <2>1. Redundant(i)
    BY <1>2 DEF Survivors
  <2>2. PICK x \in Range(signals) :
           Explaining(x) /\ (x.span = signals[i].span \/ Related(x.span, signals[i].span))
    BY <2>1 DEF Redundant
  <2>3. PICK j \in DOMAIN signals : x = signals[j]
    BY DEF Range
  <2>4. signals[j].kind \in {"exception", "status"}
    BY NotedTyped DEF SignalType
  <2>5. j \in Recordings /\ ~signals[j].handled
    BY <2>2, <2>3, <2>4 DEF Recordings, Explaining
  <2> QED
    BY <2>2, <2>3, <2>5 DEF Related
<1> QED
  BY <1>1, <1>2 DEF NothingSilenced

(* Each exported batch has one occurrence per thrown error, and silences no  *)
(* failure.                                                                  *)
LEMMA AllGrouped == TdAll => OneOccurrencePerThrow /\ NothingSilenced
<1> SUFFICES ASSUME TdAll PROVE OneOccurrencePerThrow /\ NothingSilenced
  OBVIOUS
<1>1. OneOccurrencePerThrow
  BY OneOfEach DEF TdAll, OneOccurrencePerThrow
<1>2. NothingSilenced
  BY NoneSilenced DEF TdAll, NothingSilenced
<1> QED
  BY <1>1, <1>2

LEMMA TdAllStart == TdInit => TdAll
  BY TdStart, WaysStart DEF TdAll, TdInit
THEOREM TdGrouped == TdSpec => []TdAll
  BY TdAllStart, TdAllStep, PTL DEF TdSpec

-----------------------------------------------------------------------------
(* The schema the database may come to.                                      *)
SchemaBounds ==
    /\ db \subseteq ShapeOf("new")
    /\ \A r \in Replica : replica[r].attempt \in 0 .. MaxSchemaRuns

(* What ShapeOf names, for either release. *)
LEMMA ShapeFacts ==
    ASSUME NEW v \in Version
    PROVE  /\ ShapeOf(v) \subseteq ShapeOf("new") /\ "runtime_logs" \in ShapeOf("new")
           /\ \A i \in 1 .. Len(Baseline(v)) : Baseline(v)[i] \in ShapeOf("new")
           /\ \A m \in 1 .. Known(v) : \A i \in 1 .. Len(Migrations[m]) : Migrations[m][i] \in ShapeOf("new")
<1>1. ShapeOf("new") = {"runtime_logs"} \cup UNION {Range(Migrations[m]) : m \in 1 .. 3}
  BY MigrationFacts DEF ShapeOf
<1>2. \A m \in 1 .. 3 : \A i \in 1 .. Len(Migrations[m]) : Migrations[m][i] \in ShapeOf("new")
  BY <1>1, MigrationRange
<1>3. ShapeOf(v) \subseteq ShapeOf("new")
  <2>1. Known(v) \in {0, 3}
    BY BaselineFacts
  <2>2. 1 .. Known(v) \subseteq 1 .. 3
    BY <2>1
  <2> QED
    BY <1>1, <2>2 DEF ShapeOf
<1>4. \A i \in 1 .. Len(Baseline(v)) : Baseline(v)[i] \in {"runtime_logs", "request_1m"}
  BY DEF Baseline
<1>5. "request_1m" \in ShapeOf("new") /\ "runtime_logs" \in ShapeOf("new")
  BY <1>1, <1>2, MigrationFacts
<1>6. \A m \in 1 .. Known(v) : \A i \in 1 .. Len(Migrations[m]) : Migrations[m][i] \in ShapeOf("new")
  <2>1. Known(v) \in {0, 3}
    BY BaselineFacts
  <2> QED
    BY <1>2, <2>1
<1> QED
  BY <1>3, <1>4, <1>5, <1>6

(* The bounds hold at the start. *)
LEMMA SchemaBoundsStart == SchemaInit => SchemaBounds
<1> SUFFICES ASSUME SchemaInit PROVE SchemaBounds
  OBVIOUS
<1>1. db \subseteq ShapeOf("new")
  BY DEF SchemaInit, ShapeOf
<1>2. \A r \in Replica : replica[r].attempt \in 0 .. MaxSchemaRuns
  BY SchemaAssumption DEF SchemaInit, FreshReplica
<1> QED
  BY <1>1, <1>2 DEF SchemaBounds

(* Every step keeps the bounds. *)
LEMMA SchemaBoundsStep == SchemaInv /\ SchemaBounds /\ [SchemaNext]_schemaVars => SchemaBounds'
<1> SUFFICES ASSUME SchemaInv, SchemaBounds, [SchemaNext]_schemaVars PROVE SchemaBounds'
  OBVIOUS
<1> USE SchemaAssumption
<1>1. ShapeOf("new")' = ShapeOf("new")
  BY DEF ShapeOf, Migrations, Known
<1>2. replica \in [Replica -> ReplicaType] /\ \A r \in Replica : replica[r].v \in Version
  BY DEF SchemaInv, ReplicaType
<1>3. ASSUME NEW r \in Replica, NEW o \in ShapeOf("new"), NEW effect \in SUBSET ShapeOf("new"), Executes(r, o, effect)
      PROVE  db' \subseteq ShapeOf("new")
  BY <1>3 DEF Executes, SchemaBounds
<1>4. ASSUME NEW r \in Replica, Rejects(r) PROVE \A q \in Replica : replica'[q].attempt = replica[q].attempt
  BY <1>2, <1>4 DEF Rejects, ReplicaType
<1>5. ASSUME NEW r \in Replica, Create(r) PROVE SchemaBounds'
  <2> DEFINE v == replica[r].v
             o == Baseline(v)[replica[r].k]
  <2>1. replica[r].k \in 1 .. Len(Baseline(v)) /\ v \in Version
    BY <1>2, <1>5 DEF Create, SchemaInv, Standing
  <2>2. o \in ShapeOf("new") /\ ShapeOf(v) \subseteq ShapeOf("new")
    BY <2>1, ShapeFacts
  <2>3. Created(o, v) \subseteq ShapeOf("new")
    BY <2>2 DEF Created
  <2>4. Executes(r, o, Created(o, v))
    BY <1>5 DEF Create
  <2>5. \A q \in Replica : replica'[q].attempt = replica[q].attempt
    <3>1. CASE Rejects(r)
      BY <1>4, <3>1
    <3>2. CASE replica' = [replica EXCEPT ![r].k = IF replica[r].k = Len(Baseline(v)) THEN 1 ELSE @ + 1,
                                          ![r].at = IF replica[r].k = Len(Baseline(v)) THEN "select" ELSE @]
      BY <1>2, <3>2 DEF ReplicaType
    <3> QED
      BY <1>5, <3>1, <3>2 DEF Create
  <2> HIDE DEF o, v
  <2>6. db' \subseteq ShapeOf("new")
    BY <1>3, <2>2, <2>3, <2>4
  <2> QED
    BY <1>1, <2>5, <2>6 DEF SchemaBounds
<1>6. ASSUME NEW r \in Replica, Statement(r) PROVE SchemaBounds'
  <2> DEFINE o == Migrations[replica[r].m][replica[r].k]
  <2>1. /\ replica[r].m \in 1 .. Known(replica[r].v) /\ replica[r].k \in Nat \ {0}
        /\ ~(replica[r].k > Len(Migrations[replica[r].m]))
    BY <1>6 DEF Statement, ToRun, Ran, SchemaInv, Standing
  <2>2. replica[r].m \in 1 .. 3
    BY <1>2, <2>1, BaselineFacts
  <2>3. replica[r].k \in 1 .. Len(Migrations[replica[r].m])
    <3>1. Len(Migrations[replica[r].m]) \in Nat
      BY <2>2, MigrationFacts
    <3> QED
      BY <2>1, <3>1
  <2>4. o \in ShapeOf("new")
    BY <1>2, <2>1, <2>3, ShapeFacts
  <2>5. Executes(r, o, {o})
    BY <1>6 DEF Statement
  <2>6. \A q \in Replica : replica'[q].attempt = replica[q].attempt
    <3>1. CASE Rejects(r)
      BY <1>4, <3>1
    <3>2. CASE replica' = [replica EXCEPT ![r].k = @ + 1]
      BY <1>2, <3>2 DEF ReplicaType
    <3> QED
      BY <1>6, <3>1, <3>2 DEF Statement
  <2> HIDE DEF o
  <2>7. db' \subseteq ShapeOf("new")
    BY <1>3, <2>4, <2>5
  <2> QED
    BY <1>1, <2>6, <2>7 DEF SchemaBounds
<1>7. ASSUME NEW r \in Replica, Select(r) \/ Skip(r) \/ Record(r) \/ Ready(r) PROVE SchemaBounds'
  <2>1. UNCHANGED db /\ \A q \in Replica : replica'[q].attempt = replica[q].attempt
    BY <1>2, <1>7 DEF Select, Skip, Record, Ready, ReplicaType
  <2> QED
    BY <1>1, <2>1 DEF SchemaBounds
<1>8. ASSUME NEW r \in Replica, Fails(r) PROVE SchemaBounds'
  <2>1. UNCHANGED db /\ \A q \in Replica : replica'[q].attempt = replica[q].attempt
    BY <1>4, <1>8 DEF Fails
  <2> QED
    BY <1>1, <2>1 DEF SchemaBounds
<1>9. ASSUME NEW r \in Replica, NEW c \in Call, Ensure(c, r) PROVE SchemaBounds'
  <2>1. UNCHANGED db
    BY <1>9 DEF Ensure
  <2>2. CASE UNCHANGED replica
    BY <1>1, <2>1, <2>2 DEF SchemaBounds
  <2>3. CASE /\ replica[r].attempt < MaxSchemaRuns
             /\ replica' = [replica EXCEPT ![r].at = "create", ![r].k = 1, ![r].attempt = @ + 1]
    <3>1. \A q \in Replica : replica'[q].attempt = IF q = r THEN replica[q].attempt + 1 ELSE replica[q].attempt
      BY <1>2, <2>3 DEF ReplicaType
    <3>2. ASSUME NEW q \in Replica PROVE replica'[q].attempt \in 0 .. MaxSchemaRuns
      <4>1. replica[q].attempt \in 0 .. MaxSchemaRuns
        BY DEF SchemaBounds
      <4>2. replica[r].attempt < MaxSchemaRuns /\ MaxSchemaRuns \in Nat
        BY <2>3
      <4> QED
        BY <3>1, <4>1, <4>2
    <3> QED
      BY <1>1, <2>1, <3>2 DEF SchemaBounds
  <2> QED
    BY <1>9, <2>2, <2>3 DEF Ensure
<1>10. ASSUME NEW r \in Replica, NEW v \in Version, Restart(r, v) PROVE SchemaBounds'
  BY <1>1, <1>2, <1>10 DEF Restart, FreshReplica, SchemaBounds
<1>11. ASSUME NEW c \in Call, Insert(c) PROVE SchemaBounds'
  BY <1>1, <1>11 DEF Insert, SchemaBounds
<1>12. CASE UNCHANGED schemaVars
  BY <1>1, <1>12 DEF schemaVars, SchemaBounds
<1> QED
  BY <1>5, <1>6, <1>7, <1>8, <1>9, <1>10, <1>11, <1>12 DEF SchemaNext

(* The database never holds more than the newest release's shape, and no     *)
(* process tries more often than it may.                                     *)
THEOREM SchemaStaysBounded == SchemaSpec => [](SchemaInv /\ SchemaBounds)
<1>1. SchemaInit => SchemaBounds
  BY SchemaBoundsStart
<1>2. SchemaInv /\ SchemaBounds /\ [SchemaNext]_schemaVars => SchemaBounds'
  BY SchemaBoundsStep
<1> QED
  BY <1>1, <1>2, SchemaInvariant, PTL DEF SchemaSpec

(* Both give the types the runs check. *)
LEMMA SchemaTyped == SchemaInv /\ SchemaBounds => SchemaTypeOK
<1> SUFFICES ASSUME SchemaInv, SchemaBounds PROVE SchemaTypeOK
  OBVIOUS
<1>1. \A r \in Replica : /\ replica[r].at \in {"idle", "create", "select", "migrate", "ready", "rejected"}
                         /\ replica[r].state \in {"pending", "ready", "failed"}
  BY DEF SchemaInv, ReplicaType
<1>2. ASSUME NEW c \in Call PROVE call[c].st \in {"idle", "waits", "inserts", "failed"}
  <2>1. call[c] \in CallType
    BY DEF SchemaInv
  <2> QED
    BY <2>1 DEF CallType
<1> QED
  BY <1>1, <1>2, MigrationFacts DEF SchemaInv, SchemaBounds, SchemaTypeOK

-----------------------------------------------------------------------------
(* The bounds of the tracker of senders.                                     *)
SeenBy == Never .. MaxSightTime
MostRemembered == Max({MaxKeys, Cardinality(Resource)})
SightingBounds ==
    /\ sightClock <= MaxSightTime
    /\ lastWritten \in [SightingKey -> SeenBy] /\ table \in [SightingKey -> SeenBy]
    /\ \A w \in writes : w.keys \subseteq SightingKey /\ w.seenAt <= MaxSightTime
    /\ IsFiniteSet(Remembered) /\ Cardinality(Remembered) <= MostRemembered

(* The larger of the two bounds. *)
LEMMA MostIs ==
    /\ Cardinality(Resource) \in Nat
    /\ MostRemembered \in Nat /\ MaxKeys <= MostRemembered /\ Cardinality(Resource) <= MostRemembered
<1>1. Cardinality(Resource) \in Nat /\ MaxKeys \in Nat
  BY SightingAssumption, FS_CardinalityType
<1> DEFINE m == IF MaxKeys >= Cardinality(Resource) THEN MaxKeys ELSE Cardinality(Resource)
<1>2. m \in {MaxKeys, Cardinality(Resource)} /\ \A y \in {MaxKeys, Cardinality(Resource)} : m >= y
  BY <1>1
<1> HIDE DEF m
<1>3. /\ MostRemembered \in {MaxKeys, Cardinality(Resource)}
      /\ \A y \in {MaxKeys, Cardinality(Resource)} : MostRemembered >= y
  BY <1>2 DEF MostRemembered, Max
<1> QED
  BY <1>1, <1>3

(* A request has no more senders than resources. *)
LEMMA SendersAreFew ==
    ASSUME NEW resources \in SUBSET Resource, NEW keys \in SUBSET Sightings(resources)
    PROVE  IsFiniteSet(keys) /\ keys \subseteq SightingKey /\ Cardinality(keys) <= Cardinality(Resource)
<1> DEFINE known == {q \in resources : q.service # "" /\ (q.distro # "" \/ q.sdk # "" \/ q.via = "collector")}
           sender(r) == [service |-> r.service, via |-> r.via,
                         sdk |-> CASE r.distro # "" -> r.distro
                                   [] r.distro = "" /\ r.sdk # "" -> r.sdk
                                   [] OTHER -> ""]
           f == [r \in known |-> sender(r)]
<1>1. Sightings(resources) = {sender(r) : r \in known}
  BY DEF Sightings
<1>2. Sightings(resources) \subseteq Sightings(Resource)
  BY DEF Sightings
<1>3. known \subseteq Resource
  OBVIOUS
<1> HIDE DEF known, sender
<1>4. f \in Surjection(known, Sightings(resources))
  BY <1>1 DEF Surjection
<1> HIDE DEF f
<1>5. IsFiniteSet(known) /\ Cardinality(known) <= Cardinality(Resource)
  BY <1>3, FS_Subset, SightingAssumption
<1>6. IsFiniteSet(Sightings(resources)) /\ Cardinality(Sightings(resources)) <= Cardinality(known)
  BY <1>4, <1>5, FS_Surjection
<1>7. IsFiniteSet(keys) /\ Cardinality(keys) <= Cardinality(Sightings(resources))
  BY <1>6, FS_Subset
<1>8. keys \subseteq SightingKey
  BY <1>2, SightingAssumption
<1> QED
  BY <1>5, <1>6, <1>7, <1>8, FS_CardinalityType, SightingAssumption

(* The bounds hold at the start. *)
LEMMA SightingBoundsStart == SightingInit => SightingBounds
<1> SUFFICES ASSUME SightingInit PROVE SightingBounds
  OBVIOUS
<1>1. Remembered = {}
  BY DEF SightingInit, Remembered
<1>2. IsFiniteSet(Remembered) /\ Cardinality(Remembered) <= MostRemembered
  BY <1>1, FS_EmptySet, MostIs
<1> QED
  BY <1>2, SightingAssumption DEF SightingInit, SightingBounds, SeenBy, Never

(* observe() keeps the bounds. *)
LEMMA ObserveBounds ==
    ASSUME SightingInv, SightingBounds, NEW resources \in SUBSET Resource, Observe(resources)
    PROVE  /\ lastWritten' \in [SightingKey -> SeenBy]
           /\ \A w \in writes' : w.keys \subseteq SightingKey /\ w.seenAt <= MaxSightTime
           /\ IsFiniteSet(Remembered') /\ Cardinality(Remembered') <= MostRemembered
<1> DEFINE keys == {k \in Sightings(resources) : Due(k)}
           full == Cardinality(Remembered) + Cardinality(keys) > MaxKeys
           old == IF full THEN [k \in SightingKey |-> Never] ELSE lastWritten
           w == [keys |-> keys, seenAt |-> sightClock]
<1>1. /\ lastWritten' = [k \in SightingKey |-> IF k \in keys THEN sightClock ELSE old[k]]
      /\ writes' = writes \cup {w}
  BY DEF Observe
<1>2. old \in [SightingKey -> SeenBy] /\ sightClock \in SeenBy
  BY SightingAssumption DEF SightingInv, SightingBounds, SeenBy, Never
<1>3. w.keys = keys /\ w.seenAt = sightClock
  OBVIOUS
<1>4. keys \subseteq Sightings(resources)
  OBVIOUS
<1>5. full => \A k \in SightingKey : old[k] = Never
  OBVIOUS
<1>6. ~full => old = lastWritten
  OBVIOUS
<1> HIDE DEF keys, old, w
<1>7. IsFiniteSet(keys) /\ keys \subseteq SightingKey /\ Cardinality(keys) <= Cardinality(Resource)
  BY <1>4, SendersAreFew
<1>8. lastWritten' \in [SightingKey -> SeenBy]
  BY <1>1, <1>2
<1>9. \A x \in writes' : x.keys \subseteq SightingKey /\ x.seenAt <= MaxSightTime
  BY <1>1, <1>3, <1>7 DEF SightingBounds
<1>10. Cardinality(keys) \in Nat /\ Cardinality(Remembered) \in Nat /\ IsFiniteSet(Remembered)
  BY <1>7, FS_CardinalityType DEF SightingBounds
<1>11. CASE full
  <2>1. Remembered' \subseteq keys
    BY <1>1, <1>5, <1>11 DEF Remembered
  <2>2. IsFiniteSet(Remembered') /\ Cardinality(Remembered') <= Cardinality(keys)
    BY <1>7, <2>1, FS_Subset
  <2>3. Cardinality(Remembered') \in Nat
    BY <2>2, FS_CardinalityType
  <2>4. Cardinality(Remembered') <= MostRemembered
    BY <1>7, <1>10, <2>2, <2>3, MostIs
  <2> QED
    BY <1>8, <1>9, <2>2, <2>4
<1>12. CASE ~full
  <2>1. Remembered' \subseteq Remembered \cup keys
    BY <1>1, <1>6, <1>12 DEF Remembered
  <2>2. /\ IsFiniteSet(Remembered \cup keys)
        /\ Cardinality(Remembered \cup keys)
             = Cardinality(Remembered) + Cardinality(keys) - Cardinality(Remembered \cap keys)
    BY <1>7, <1>10, FS_Union
  <2>3. Cardinality(Remembered \cap keys) \in Nat
    BY <1>10, FS_Intersection, FS_CardinalityType
  <2>4. IsFiniteSet(Remembered') /\ Cardinality(Remembered') <= Cardinality(Remembered \cup keys)
    BY <2>1, <2>2, FS_Subset
  <2>5. Cardinality(Remembered') \in Nat
    BY <2>4, FS_CardinalityType
  <2>6. Cardinality(Remembered) + Cardinality(keys) <= MaxKeys
    BY <1>10, <1>12, SightingAssumption
  <2>7. Cardinality(Remembered') <= MaxKeys
    BY <1>10, <2>2, <2>3, <2>4, <2>5, <2>6, SightingAssumption
  <2>8. Cardinality(Remembered') <= MostRemembered
    BY <2>5, <2>7, MostIs, SightingAssumption
  <2> QED
    BY <1>8, <1>9, <2>4, <2>8
<1> QED
  BY <1>11, <1>12

(* Every step keeps the bounds. *)
LEMMA SightingBoundsStep == SightingInv /\ SightingBounds /\ [SightingNext]_sightingVars => SightingBounds'
<1> SUFFICES ASSUME SightingInv, SightingBounds, [SightingNext]_sightingVars PROVE SightingBounds'
  OBVIOUS
<1> USE SightingAssumption
<1>0. SeenBy' = SeenBy /\ MostRemembered' = MostRemembered /\ Never \in SeenBy
  BY DEF SeenBy, MostRemembered, Never
<1>1. CASE SightTick
  BY <1>0, <1>1 DEF SightTick, SightingInv, SightingBounds, Remembered
<1>2. ASSUME NEW resources \in SUBSET Resource, RecordsSdks(resources) PROVE SightingBounds'
  <2>1. UNCHANGED <<sightClock, table>>
    BY <1>2 DEF RecordsSdks
  <2>2. CASE Observe(resources)
    BY <1>0, <2>1, <2>2, ObserveBounds DEF SightingBounds
  <2>3. CASE UNCHANGED <<lastWritten, writes>>
    BY <1>0, <2>1, <2>3 DEF SightingBounds, Remembered
  <2> QED
    BY <1>2, <2>2, <2>3 DEF RecordsSdks
<1>3. ASSUME NEW w \in writes, WriteStored(w) PROVE SightingBounds'
  <2>1. /\ UNCHANGED <<sightClock, lastWritten>> /\ writes' = writes \ {w}
        /\ table' = [k \in SightingKey |-> IF k \in w.keys /\ table[k] < w.seenAt THEN w.seenAt ELSE table[k]]
    BY <1>3 DEF WriteStored
  <2>2. w.seenAt \in SeenBy
    BY DEF SightingInv, SightingBounds, SeenBy, Never
  <2>3. table' \in [SightingKey -> SeenBy]
    BY <2>1, <2>2 DEF SightingBounds
  <2> QED
    BY <1>0, <2>1, <2>3 DEF SightingBounds, Remembered
<1>4. ASSUME NEW w \in writes, WriteFails(w) PROVE SightingBounds'
  <2>1. /\ UNCHANGED <<sightClock, table>> /\ writes' = writes \ {w}
        /\ lastWritten' = [k \in SightingKey |-> IF k \in w.keys THEN Never ELSE lastWritten[k]]
    BY <1>4 DEF WriteFails, Forget
  <2>2. lastWritten' \in [SightingKey -> SeenBy] /\ Remembered' \subseteq Remembered
    BY <1>0, <2>1 DEF SightingBounds, Remembered
  <2>3. IsFiniteSet(Remembered') /\ Cardinality(Remembered') <= Cardinality(Remembered)
    BY <2>2, FS_Subset DEF SightingBounds
  <2>4. Cardinality(Remembered') \in Nat /\ Cardinality(Remembered) \in Nat
    BY <2>3, FS_CardinalityType DEF SightingBounds
  <2>5. Cardinality(Remembered') <= MostRemembered
    BY <2>3, <2>4, MostIs DEF SightingBounds
  <2> QED
    BY <1>0, <2>1, <2>2, <2>3, <2>5 DEF SightingBounds
<1>5. ASSUME NEW t \in infoWrites, InfoStored(t) \/ InfoFails(t) PROVE SightingBounds'
  BY <1>0, <1>5 DEF InfoStored, InfoFails, SightingBounds, Remembered
<1>6. CASE UNCHANGED sightingVars
  BY <1>0, <1>6 DEF sightingVars, SightingBounds, Remembered
<1> QED
  BY <1>1, <1>2, <1>3, <1>4, <1>5, <1>6 DEF SightingNext

(* The tracker stays within maxKeys, or what one request brought.            *)
THEOREM SightingsStayBounded == SightingSpec => [](SightingInv /\ SightingBounds)
<1>1. SightingInit => SightingBounds
  BY SightingBoundsStart
<1>2. SightingInv /\ SightingBounds /\ [SightingNext]_sightingVars => SightingBounds'
  BY SightingBoundsStep
<1> QED
  BY <1>1, <1>2, SightingInvariant, PTL DEF SightingSpec

(* The bounds are the types the runs check. *)
LEMMA SightingsTyped == SightingBounds => SightingTypeOK
  BY DEF SightingBounds, SightingTypeOK, SeenBy, MostRemembered

-----------------------------------------------------------------------------
(* The parts of the instance share no variable: a behaviour of all of them   *)
(* is one of each.                                                           *)
LEMMA PartsAreAlone ==
    ASSUME [IngestNext]_ingestVars
    PROVE  /\ [ForwarderNext]_forwarderVars /\ [KeysNext]_keysVars /\ [ServerNext]_serverVars
           /\ [SightingNext]_sightingVars /\ [SchemaNext]_schemaVars /\ [CountsNext]_countsVars
           /\ [TdNext]_tdVars /\ [SuppressionNext]_suppressionVars
<1>1. CASE UNCHANGED ingestVars
  BY <1>1 DEF ingestVars
<1>2. CASE IngestNext
  BY <1>2 DEF IngestNext, Rests
<1> QED
  BY <1>1, <1>2

(* What is proved of a component holds in the instance that composes them.   *)
THEOREM PartsRun ==
    IngestSpec =>
        /\ ForwarderSpec /\ KeysSpec /\ ServerSpec /\ SightingSpec
        /\ SchemaSpec /\ CountsSpec /\ TdSpec /\ SuppressionSpec
<1>1. IngestInit => /\ ForwarderInit /\ KeysInit /\ ServerInit /\ SightingInit
                    /\ SchemaInit /\ CountsInit /\ TdInit /\ SuppressionInit
  BY DEF IngestInit
<1>2. [IngestNext]_ingestVars => /\ [ForwarderNext]_forwarderVars /\ [KeysNext]_keysVars /\ [ServerNext]_serverVars
                                /\ [SightingNext]_sightingVars /\ [SchemaNext]_schemaVars /\ [CountsNext]_countsVars
                                /\ [TdNext]_tdVars /\ [SuppressionNext]_suppressionVars
  BY PartsAreAlone
<1> QED
  BY <1>1, <1>2, PTL DEF IngestSpec, ForwarderSpec, KeysSpec, ServerSpec, SightingSpec, SchemaSpec, CountsSpec,
          TdSpec, SuppressionSpec

(* Batches are accounted for as SinkAccounts says, for any orgs and bounds.  *)
THEOREM SinkStaysAccounted == IngestSpec => []SinkAccounts
<1>1. ForwarderInv => SinkAccounts
  BY InvAccounts DEF SinkAccounts, Of
<1> QED
  BY <1>1, PartsRun, ForwarderInvariant, PTL

(* No step evicts unfairly or reopens on a stale success (sink.ts).          *)
THEOREM SinkStepsStayFair == IngestSpec => SinkStepsFair
  BY PartsRun, StepsAreFair DEF SinkStepsFair

(* The sink keeps its promise in the instance too.                           *)
THEOREM SinkDelivers == IngestSpec => ImplementsDelivery
  BY PartsRun, ForwarderDelivers

(* An answer about a key is as old as its cache entry may be, no older.      *)
THEOREM AnswersStayRecentHere == IngestSpec => AnswersAreRecent
  BY PartsRun, AnswersStayRecent

(* The bounds of auth.ts, for any keys, limits and clock: never more keys in *)
(* the cache than it may hold, nor more requests of a key in a minute than   *)
(* its limit, once more each time the windows of the full Map were cleared.  *)
THEOREM LimitsHold == IngestSpec => []KeyLimits
<1>1. KeysInv /\ LimiterInv => KeyLimits
  BY LimitHolds DEF KeyLimits, Of, KeysInv
<1> QED
  BY <1>1, PartsRun, KeysInvariant, LimiterInvariant, PTL

(* Requests of any number and mix are accounted as RequestsAccounted says.   *)
THEOREM RequestsStayAccounted == IngestSpec => []RequestsAccounted
<1>1. ServerInv => RequestsAccounted
  BY RequestsAreAccounted DEF RequestsAccounted, Of
<1> QED
  BY <1>1, PartsRun, ServerInvariant, PTL

(* Senders taken for recorded are recorded, and the ingester's own report    *)
(* goes out again, for any resources and intervals (sdk-versions.ts).        *)
THEOREM SightingsStayStored == IngestSpec => []SightingsAreStored
  BY SightingsHold, PartsRun, SightingInvariant, PTL

(* Any number of replicas, of both releases, dying and failing anywhere:     *)
(* ready means shape, ids mean effect, and no statement lacks what it needs. *)
THEOREM SchemaStaysInEffect == IngestSpec => []SchemaInEffect
<1>1. SchemaInv => SchemaInEffect
  BY SchemaHolds DEF SchemaInEffect, Of
<1> QED
  BY <1>1, PartsRun, SchemaInvariant, PTL

(* A request and its failure are counted once, and of the logged errors of a  *)
(* trace one at most where the lookups saw it, for any requests that call    *)
(* each other, feeds, traces, placements and batches cut or lost.            *)
THEOREM RequestsCountedOnce == IngestSpec => []CountedOnce
<1>1. CountsInv => CountedOnce
  BY CountedAsDue DEF CountedOnce, Of
<1> QED
  BY <1>1, PartsRun, CountsInvariant, PTL

(* Every attempt to send a batch keeps what the rules leave, for any rules,  *)
(* occurrences and number of attempts, and the glob matcher, which never     *)
(* goes back, matches what the pattern means, for any pattern and value.     *)
THEOREM RulesStayApplied == IngestSpec => []RulesApplied
<1>1. RulesInv => RulesApplied
  BY RulesHold DEF RulesApplied, Of
<1> QED
  BY <1>1, PartsRun, RulesInvariant, PTL

(* An exported batch has one occurrence per thrown error, and silences none, *)
(* for any tree of spans and any throws, catches, retries and records.       *)
THEOREM ThrowsStayGrouped == IngestSpec => []ThrowsGrouped
<1>1. TdAll => ThrowsGrouped
  BY AllGrouped DEF ThrowsGrouped, Of
<1> QED
  BY <1>1, PartsRun, TdGrouped, PTL

(* Every part keeps its types and the bounds of what it queues, remembers and *)
(* retries, for any organisations, keys, requests, spans, replicas and rules. *)
THEOREM TypesStay == IngestSpec => []IngestTypeOK
<1>1. ForwarderInv => Of("sink", ForwarderTypeOK)
  BY DEF ForwarderInv, Of
<1>2. KeysInv => Of("keys", KeysTypeOK)
  BY DEF KeysInv, Of
<1>3. ServerInv /\ LimiterInv => Of("server", ServerTypeOK)
  BY ServerTyped DEF Of
<1>4. TdInv => Of("dedupe", TdTypeOK)
  BY TdTyped DEF Of
<1>5. SchemaInv /\ SchemaBounds => Of("schema", SchemaTypeOK)
  BY SchemaTyped DEF Of
<1>6. CountsInv => Of("counts", CountsTypeOK)
  BY CountedAsDue DEF Of
<1>7. RulesInv => Of("rules", SuppressionTypeOK)
  BY RulesHold DEF Of
<1>8. SightingBounds => Of("sightings", SightingTypeOK)
  BY SightingsTyped DEF Of
<1>9. ForwarderInv /\ KeysInv /\ ServerInv /\ LimiterInv /\ TdInv /\ SchemaInv /\ SchemaBounds /\ CountsInv
      /\ RulesInv /\ SightingBounds => IngestTypeOK
  BY <1>1, <1>2, <1>3, <1>4, <1>5, <1>6, <1>7, <1>8 DEF IngestTypeOK
<1> QED
  BY <1>9, PartsRun, ForwarderInvariant, KeysInvariant, LimiterInvariant, TdInvariant, SchemaStaysBounded,
     CountsInvariant, RulesInvariant, SightingsStayBounded, PTL
=============================================================================
