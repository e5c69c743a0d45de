------------------------------ MODULE BurstLimiter ------------------------------
(***************************************************************************)
(* The burst limiter of runtime-core/src/handled.ts: a token bucket per     *)
(* kind of error, and the counts of what it left out, which a later record  *)
(* of the kind or a tail must carry.                                        *)
(*                                                                         *)
(* A token is RefillTime parts, one gained per unit of time.  Buckets are a *)
(* sequence, the kind used last at its end.                                 *)
(***************************************************************************)
EXTENDS Integers, Sequences, FiniteSets, SequencesExt, FiniteSetsExt

CONSTANTS
    BurstSize,      \* CAUGHT_BURST
    RefillTime,     \* CAUGHT_REFILL_MS
    MaxKinds,       \* maxKeys
    LimitKey        \* prefix, error type and throw site

ASSUME BurstAssumption ==
    BurstSize \in Nat \ {0} /\ RefillTime \in Nat \ {0} /\ MaxKinds \in Nat \ {0}

Bucket == [key : LimitKey, tokens : 0..(BurstSize * RefillTime), at : Nat, dropped : Nat]
Limiter == [buckets : Seq(Bucket), evicted : [LimitKey -> Nat]]
NewLimiter == [buckets |-> <<>>, evicted |-> [k \in LimitKey |-> 0]]

IndexesOf(limiter, key) == {i \in DOMAIN limiter.buckets : limiter.buckets[i].key = key}
PlaceOf(limiter, key) == CHOOSE i \in IndexesOf(limiter, key) : TRUE

(* refill() *)
Refilled(bucket, now) ==
    [bucket EXCEPT !.tokens = Min({BurstSize * RefillTime, @ + now - bucket.at}), !.at = now]

BucketOf(limiter, key, now) ==
    IF IndexesOf(limiter, key) = {}
    THEN [key |-> key, tokens |-> BurstSize * RefillTime, at |-> now, dropped |-> 0]
    ELSE Refilled(limiter.buckets[PlaceOf(limiter, key)], now)

(* Mutant of Forgetting: the count is forgotten with its kind. *)
ForgettingCount(limiter) ==
    IF Len(limiter.buckets) <= MaxKinds THEN limiter
    ELSE [limiter EXCEPT !.buckets = Tail(limiter.buckets)]

(* Past maxKeys the kind used longest ago is forgotten; its count is kept.  *)
Forgetting(limiter) ==
    LET gone == Head(limiter.buckets) IN
    IF Len(limiter.buckets) <= MaxKinds THEN limiter
    ELSE [buckets |-> Tail(limiter.buckets),
          evicted |-> [limiter.evicted EXCEPT ![gone.key] = @ + gone.dropped]]

Sends(limiter, key, now) == BucketOf(limiter, key, now).tokens >= RefillTime
Carries(limiter, key, now) == BucketOf(limiter, key, now).dropped

(* take(): one record of the kind takes a token, and the count with it; or  *)
(* it is left out and counted.                                              *)
Taken(limiter, key, now) ==
    LET bucket == BucketOf(limiter, key, now)
        after == IF Sends(limiter, key, now)
                 THEN [bucket EXCEPT !.tokens = @ - RefillTime, !.dropped = 0]
                 ELSE [bucket EXCEPT !.dropped = @ + 1]
        others == IF IndexesOf(limiter, key) = {} THEN limiter.buckets
                  ELSE RemoveAt(limiter.buckets, PlaceOf(limiter, key))
    IN Forgetting([limiter EXCEPT !.buckets = Append(others, after)])

(* drain(): the counts of forgotten kinds, and of those that have a token   *)
(* again or, with all, of every kind.                                       *)
Drains(bucket, now, all) ==
    bucket.dropped > 0 /\ (all \/ Refilled(bucket, now).tokens >= RefillTime)
Tails(limiter, now, all) ==
    [k \in LimitKey |-> limiter.evicted[k] +
        IF \E i \in IndexesOf(limiter, k) : Drains(limiter.buckets[i], now, all)
        THEN limiter.buckets[PlaceOf(limiter, k)].dropped ELSE 0]
Drained(limiter, now, all) ==
    [buckets |-> [i \in DOMAIN limiter.buckets |->
        LET bucket == limiter.buckets[i] IN
        IF bucket.dropped = 0 THEN bucket
        ELSE [Refilled(bucket, now) EXCEPT !.dropped = IF Drains(bucket, now, all) THEN 0 ELSE @]],
     evicted |-> [k \in LimitKey |-> 0]]

(* What no record carried yet, and when the next of it can be drained.      *)
BucketHolds(limiter, key) ==
    IF IndexesOf(limiter, key) = {} THEN 0 ELSE limiter.buckets[PlaceOf(limiter, key)].dropped
Held(limiter, key) == limiter.evicted[key] + BucketHolds(limiter, key)
Pending(limiter) == \E k \in LimitKey : Held(limiter, k) > 0
NextDrainAt(limiter) ==
    IF \E k \in LimitKey : limiter.evicted[k] > 0 THEN 0
    ELSE Min({LET b == limiter.buckets[i] IN b.at + Max({0, RefillTime - b.tokens}) :
                i \in {j \in DOMAIN limiter.buckets : limiter.buckets[j].dropped > 0}})
=============================================================================
