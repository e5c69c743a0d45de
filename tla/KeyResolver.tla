----------------------------- MODULE KeyResolver -----------------------------
(***************************************************************************)
(* Key resolution of the OTLP ingester (auth.ts): a key is looked up in a   *)
(* cache in front of the validator webhook.  A lookup that asks the         *)
(* validator waits for it, while other lookups of the same key go on, keys  *)
(* are issued and revoked, and the validator fails.  Static keys never get  *)
(* this far and are left out.                                               *)
(***************************************************************************)
EXTENDS Integers, Sequences, FiniteSets, SequencesExt

CONSTANTS
    Key,
    Lookup,         \* calls of resolveDetailed()
    TTL,            \* VALIDATOR_CACHE_TTL_MS
    Timeout,        \* the validator request's timeout
    MaxCached,      \* entries the cache keeps
    ServerErrors,   \* the validator may answer 5xx
    MaxChanges,     \* bound: keys issued or revoked
    MaxTime,        \* bound: the clock
    None

Outcome == {"ok", "unknown_key", "key_unverified"}
EntryType == [result: Outcome, expiresAt: Nat]

ASSUME KeysConstants ==
    /\ TTL \in Nat \ {0} /\ Timeout \in Nat /\ MaxCached \in Nat
    /\ MaxChanges \in Nat /\ MaxTime \in Nat
    /\ ServerErrors \in BOOLEAN
    /\ None \notin Key \cup EntryType

VARIABLES
    now,
    order,      \* the cached keys, oldest insertion first
    entry,      \* the cache: a CacheEntry, or None
    look,       \* per lookup: its key and where it stands
    valid,      \* keys the platform accepts
    validUntil, \* the last time each key was valid (history)
    invalidUntil,   \* the last time it was not (history)
    changes

keysVars == <<now, order, entry, look, valid, validUntil, invalidUntil, changes>>
platform == <<valid, validUntil, invalidUntil, changes>>
cache == <<order, entry>>

(* via: how a lookup that is done was answered *)
LookupType ==
    [st: {"idle", "asking", "answered", "done"}, key: Key \cup {None},
     cached: EntryType \cup {None}, askedAt: Nat,
     answer: Outcome \cup {None}, result: Outcome \cup {None},
     via: {None, "cache", "validator", "fallback"}]

Idle == [st |-> "idle", key |-> None, cached |-> None, askedAt |-> 0,
         answer |-> None, result |-> None, via |-> None]

KeysInit ==
    /\ now = 0
    /\ order = <<>> /\ entry = [k \in Key |-> None]
    /\ look = [l \in Lookup |-> Idle]
    /\ valid \in SUBSET Key
    /\ validUntil = [k \in Key |-> 0] /\ invalidUntil = [k \in Key |-> 0]
    /\ changes = 0

-----------------------------------------------------------------------------
(* Time passes; a validator request is aborted before it is older than      *)
(* Timeout.                                                                 *)
KeysTick ==
    /\ now < MaxTime
    /\ \A l \in Lookup : look[l].st \in {"asking", "answered"} => now < look[l].askedAt + Timeout
    /\ now' = now + 1
    /\ validUntil' = [k \in Key |-> IF k \in valid THEN now + 1 ELSE validUntil[k]]
    /\ invalidUntil' = [k \in Key |-> IF k \in valid THEN invalidUntil[k] ELSE now + 1]
    /\ UNCHANGED <<look, valid, changes>> /\ UNCHANGED cache

(* The platform issues or revokes a key. *)
ChangeKey(k) ==
    /\ changes < MaxChanges /\ changes' = changes + 1
    /\ valid' = IF k \in valid THEN valid \ {k} ELSE valid \cup {k}
    /\ validUntil' = [validUntil EXCEPT ![k] = now]
    /\ invalidUntil' = [invalidUntil EXCEPT ![k] = now]
    /\ UNCHANGED <<now, look>> /\ UNCHANGED cache

(* Mutant of Fresh: entries never expire. *)
FreshForEver(e) == e # None

Fresh(e) == e # None /\ e.expiresAt > now

Done(l, result, via) ==
    look' = [look EXCEPT ![l] = [@ EXCEPT !.st = "done", !.result = result, !.via = via,
                                          !.askedAt = 0, !.answer = None]]

(* A cache entry that has not expired answers at once. *)
HitCache(l, k) ==
    /\ look[l].st = "idle" /\ Fresh(entry[k])
    /\ look' = [look EXCEPT ![l] = [@ EXCEPT !.st = "done", !.key = k,
                                    !.result = entry[k].result, !.via = "cache"]]
    /\ UNCHANGED now /\ UNCHANGED cache /\ UNCHANGED platform

(* Otherwise the validator is asked; the entry just read, expired or none,  *)
(* is what this lookup will fall back on.                                   *)
Ask(l, k) ==
    /\ look[l].st = "idle" /\ ~Fresh(entry[k])
    /\ look' = [look EXCEPT ![l] = [@ EXCEPT !.st = "asking", !.key = k,
                                    !.cached = entry[k], !.askedAt = now]]
    /\ UNCHANGED now /\ UNCHANGED cache /\ UNCHANGED platform

(* The validator answers as things stand, or with a 5xx. *)
Verdicts(k) ==
    {IF k \in valid THEN "ok" ELSE "unknown_key"}
        \cup (IF ServerErrors THEN {"key_unverified"} ELSE {})

Answer(l) ==
    /\ look[l].st = "asking"
    /\ \E v \in Verdicts(look[l].key) :
          look' = [look EXCEPT ![l] = [@ EXCEPT !.st = "answered", !.answer = v]]
    /\ UNCHANGED now /\ UNCHANGED cache /\ UNCHANGED platform

TooMany(o) == Len(o) > MaxCached

(* The answer reaches the lookup: it is cached whatever it is, at its old   *)
(* place if the key has one, and the oldest entry goes if there are too     *)
(* many.                                                                    *)
Resume(l) ==
    LET k == look[l].key
        placed == IF Contains(order, k) THEN order ELSE Append(order, k)
        full == TooMany(placed)
    IN
    /\ look[l].st = "answered"
    /\ order' = IF full THEN Tail(placed) ELSE placed
    /\ LET stored == [entry EXCEPT ![k] = [result |-> look[l].answer, expiresAt |-> now + TTL]]
       IN entry' = IF full THEN [stored EXCEPT ![Head(placed)] = None] ELSE stored
    /\ Done(l, look[l].answer, "validator")
    /\ UNCHANGED now /\ UNCHANGED platform

(* No usable answer (unreachable, timed out, cut off): the entry read at    *)
(* the start answers, expired as it is; the cache stays as it is.           *)
FallBack(l) ==
    LET c == look[l].cached IN
    /\ look[l].st \in {"asking", "answered"} /\ look[l].answer # "key_unverified"
    /\ Done(l, IF c # None THEN c.result ELSE "key_unverified", "fallback")
    /\ UNCHANGED now /\ UNCHANGED cache /\ UNCHANGED platform

KeysNext ==
    \/ KeysTick
    \/ \E k \in Key : ChangeKey(k)
    \/ \E l \in Lookup : Answer(l) \/ Resume(l) \/ FallBack(l)
    \/ \E l \in Lookup, k \in Key : HitCache(l, k) \/ Ask(l, k)

KeysSpec == KeysInit /\ [][KeysNext]_keysVars

-----------------------------------------------------------------------------
KeysTypeOK ==
    /\ now \in Nat /\ changes \in Nat
    /\ order \in Seq(Key)
    /\ entry \in [Key -> EntryType \cup {None}]
    /\ look \in [Lookup -> LookupType]
    /\ valid \subseteq Key
    /\ validUntil \in [Key -> Nat] /\ invalidUntil \in [Key -> Nat]

(* The cache holds at most MaxCached entries, and its insertion order lists *)
(* them exactly: an eviction removes an entry that is there.                *)
CacheBounded ==
    /\ Len(order) <= MaxCached
    /\ IsInjective(order)
    /\ {k \in Key : entry[k] # None} = ToSet(order)

(* A revocation takes effect, and so does a new key, within the cache TTL   *)
(* and one validator request: what a lookup is told, other than in an       *)
(* outage, was true that recently, although answers of concurrent lookups   *)
(* may be cached in another order than they were given (auth.ts:19-23).     *)
AnswersAreRecent ==
    [][\A l \in Lookup :
          look'[l].st = "done" /\ look[l].st # "done" /\ look'[l].via # "fallback" =>
             /\ look'[l].result = "ok" =>
                    now - validUntil[look'[l].key] < TTL + Timeout
             /\ look'[l].result = "unknown_key" =>
                    now - invalidUntil[look'[l].key] < TTL + Timeout]_keysVars

(* A key is refused as unverified only if no good answer for it was cached  *)
(* when the lookup began (auth.ts:34-35).                                   *)
UnverifiedHadNoAnswer ==
    \A l \in Lookup : look[l].st = "done" /\ look[l].result = "key_unverified" =>
        look[l].cached = None \/ look[l].cached.result # "ok"
=============================================================================
