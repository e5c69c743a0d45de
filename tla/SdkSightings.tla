------------------------------ MODULE SdkSightings ------------------------------
(***************************************************************************)
(* What the ingester records of who sends to it: SdkVersionTracker of         *)
(* otlp-ingester/src/sdk-versions.ts writes a row per sender, not per request,  *)
(* and reportIngesterInfo of server.ts a row about the ingester itself.  Both   *)
(* go out beside the requests, so writes overlap and any of them may fail.     *)
(***************************************************************************)
EXTENDS Integers, Sequences, FiniteSets, FiniteSetsExt

CONSTANTS
    Resource,       \* resources of OTLP requests: identity and sender
    SightingKey,    \* keys of sightings
    RefreshTime,    \* refreshMs
    MaxKeys,        \* maxKeys
    InfoInterval,   \* INGESTER_INFO_INTERVAL_MS
    InfoRetry,      \* a minute
    MaxSightTime,   \* bound of the clock
    MaxWrites       \* bound: writes of a kind in flight

(* sdkSightingsFromOtlp: a named service with the identity of its distro, else  *)
(* of its SDK; without either, only if it came through a collector.            *)
Sightings(resources) ==
    {[service |-> r.service, via |-> r.via,
      sdk |-> CASE r.distro # "" -> r.distro
                [] r.distro = "" /\ r.sdk # "" -> r.sdk
                [] OTHER -> ""] :
        r \in {q \in resources : q.service # "" /\ (q.distro # "" \/ q.sdk # "" \/ q.via = "collector")}}

(* The clock starts an interval after the epoch, within its bound. *)
ASSUME SightingAssumption ==
    /\ {RefreshTime, MaxKeys, InfoInterval, InfoRetry, MaxSightTime, MaxWrites} \subseteq Nat
    /\ InfoInterval <= MaxSightTime /\ IsFiniteSet(Resource) /\ Sightings(Resource) \subseteq SightingKey

VARIABLES
    sightClock,
    lastWritten,    \* the tracker's map: key -> time, or Never
    writes,         \* insertSdkVersions under way: keys and seenAt
    table,          \* runtime_sdk_versions: key -> newest last_seen, or Never
    lastInfoReport,
    infoWrites,     \* insertIngesterInfo under way: when each began
    infoTable       \* history: when the last report that was stored began

sightingVars == <<sightClock, lastWritten, writes, table, lastInfoReport, infoWrites, infoTable>>

Never == -1

SightingInit ==
    /\ sightClock = InfoInterval \* later than lastInfoReport by an interval
    /\ lastWritten = [k \in SightingKey |-> Never] /\ table = [k \in SightingKey |-> Never]
    /\ writes = {} /\ lastInfoReport = 0 /\ infoWrites = {} /\ infoTable = Never

Remembered == {k \in SightingKey : lastWritten[k] # Never}
Due(k) == lastWritten[k] = Never \/ sightClock - lastWritten[k] >= RefreshTime

(* observe: the keys not written lately; past maxKeys the map starts over.     *)
Observe(resources) ==
    LET keys == {k \in Sightings(resources) : Due(k)}
        old == IF Cardinality(Remembered) + Cardinality(keys) > MaxKeys
               THEN [k \in SightingKey |-> Never] ELSE lastWritten
    IN  /\ keys # {} /\ Cardinality(writes) < MaxWrites
        /\ lastWritten' = [k \in SightingKey |-> IF k \in keys THEN sightClock ELSE old[k]]
        /\ writes' = writes \cup {[keys |-> keys, seenAt |-> sightClock]}

(* reportIngesterInfo, after an ingest request and at boot.  *)
ReportsInfo ==
    IF sightClock - lastInfoReport < InfoInterval THEN UNCHANGED <<lastInfoReport, infoWrites>>
    ELSE /\ Cardinality(infoWrites) < MaxWrites
         /\ lastInfoReport' = sightClock /\ infoWrites' = infoWrites \cup {sightClock}

(* recordSdks of an ingested request. *)
RecordsSdks(resources) ==
    /\ \/ Observe(resources)
       \/ {k \in Sightings(resources) : Due(k)} = {} /\ UNCHANGED <<lastWritten, writes>>
    /\ ReportsInfo
    /\ UNCHANGED <<sightClock, table, infoTable>>

WriteStored(w) ==
    /\ w \in writes /\ writes' = writes \ {w}
    /\ table' = [k \in SightingKey |-> IF k \in w.keys /\ table[k] < w.seenAt THEN w.seenAt ELSE table[k]]
    /\ UNCHANGED <<sightClock, lastWritten, lastInfoReport, infoWrites, infoTable>>

Forget(keys) == [k \in SightingKey |-> IF k \in keys THEN Never ELSE lastWritten[k]]

(* "Let the next request retry instead of waiting out refreshMs." *)
WriteFails(w) ==
    /\ w \in writes /\ writes' = writes \ {w} /\ lastWritten' = Forget(w.keys)
    /\ UNCHANGED <<sightClock, table, lastInfoReport, infoWrites, infoTable>>

InfoStored(t) ==
    /\ t \in infoWrites /\ infoWrites' = infoWrites \ {t}
    /\ infoTable' = IF infoTable < t THEN t ELSE infoTable
    /\ UNCHANGED <<sightClock, lastWritten, writes, table, lastInfoReport>>

(* Mutant of RetryFrom: a report that failed waits out the interval. *)
RetryFromNow == lastInfoReport
RetryFrom == sightClock - InfoInterval + InfoRetry

InfoFails(t) ==
    /\ t \in infoWrites /\ infoWrites' = infoWrites \ {t} /\ lastInfoReport' = RetryFrom
    /\ UNCHANGED <<sightClock, lastWritten, writes, table, infoTable>>

SightTick ==
    /\ sightClock < MaxSightTime /\ sightClock' = sightClock + 1
    /\ UNCHANGED <<lastWritten, writes, table, lastInfoReport, infoWrites, infoTable>>

SightingNext ==
    \/ SightTick
    \/ \E resources \in SUBSET Resource : RecordsSdks(resources)
    \/ \E w \in writes : WriteStored(w) \/ WriteFails(w)
    \/ \E t \in infoWrites : InfoStored(t) \/ InfoFails(t)

SightingTypeOK ==
    /\ lastWritten \in [SightingKey -> Never .. MaxSightTime] /\ table \in [SightingKey -> Never .. MaxSightTime]
    /\ \A w \in writes : w.keys \subseteq SightingKey
    /\ Cardinality(Remembered) <= Max({MaxKeys, Cardinality(Resource)})

-----------------------------------------------------------------------------
(* Whatever writes overlap and fail, in whatever order: a sender that the       *)
(* tracker takes for recorded is in the table as of then, or its row is on its  *)
(* way; and without a report of the ingester at most an interval old, one is    *)
(* under way or will be tried within a minute.                               *)
SightingsAreStored ==
    /\ \A k \in Remembered :
          table[k] >= lastWritten[k] \/ \E w \in writes : k \in w.keys /\ w.seenAt >= lastWritten[k]
    /\ \/ infoTable # Never /\ sightClock - infoTable <= InfoInterval
       \/ infoWrites # {} \/ sightClock + InfoRetry - lastInfoReport >= InfoInterval
=============================================================================
