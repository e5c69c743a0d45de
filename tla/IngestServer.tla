----------------------------- MODULE IngestServer -----------------------------
(***************************************************************************)
(* The routes of the ingester (otlp-ingester/src/server.ts) from a request  *)
(* to its answer: authentication and rate limits, the body, promotion of    *)
(* error logs, the inserts into the ClickHouse tables, what goes to the     *)
(* sink, what is counted as refused.  Exporters send a payload again after  *)
(* a 503 or a lost answer.  Loop collapse, which decides what of a payload  *)
(* is kept, has its own module; here all of it is.                          *)
(***************************************************************************)
EXTENDS Naturals, Sequences, FiniteSets

CONSTANTS
    Request,        \* HTTP requests, each one attempt to send a payload
    Payload, RouteOf,
    ErrorTrace,     \* per payload: the trace of the error in it, or NoTrace
    IngestKey, ScopeOf,   \* keys, "none" for those that do not resolve
    MinuteLimit,    \* rateLimitPerMinute
    LookupLimit,    \* promotionLookupsPerMinute
    MaxLimited,     \* the keys whose windows the limiter keeps (50 000)
    MaxMinutes,     \* bound: the clock
    NoTrace, NoKey

ASSUME ServerAssumption ==
    /\ {MinuteLimit, MaxLimited} \subseteq Nat \ {0} /\ LookupLimit \in Nat /\ MaxMinutes \in Nat
    /\ ScopeOf \in [IngestKey -> {"server", "client", "upload", "none"}]

VARIABLES
    requests,       \* per request: stage, payload, key, tables still to insert
    tables,         \* rows: <<table, payload>>
    sinkQueue,      \* payloads handed to the sink forwarder
    minute,
    windows,        \* RateLimiter: per key, its window and its count
    lookups,        \* promotionLookupLimiter: lookups made this minute
    answers,        \* history: the statuses each request was answered with
    counted,        \* history: the drops recorded for each request
    allowed,        \* history: per key, requests let through this minute
    cleared         \* history: times the windows were cleared this minute

serverVars == <<requests, tables, sinkQueue, minute, windows, lookups, answers, counted, allowed, cleared>>

(* What tells the handlers apart: the surface each asks authenticate() for, *)
(* the tables it inserts into, in the order of the code, and whether it     *)
(* hands what it stored to the sink.  The metric points and LLM calls of a  *)
(* traces or logs request go in the same Promise.all as its spans or logs,  *)
(* and stand with them; so do the memory samples of a metrics request.      *)
TracesHandler == [surface |-> "otlp", tables |-> <<"occurrences", "spans">>, sinks |-> TRUE]
LogsHandler == [surface |-> "otlp", tables |-> <<"logs", "occurrences">>, sinks |-> TRUE]
MetricsHandler == [surface |-> "otlp", tables |-> <<"latency", "points">>, sinks |-> TRUE]
BrowserHandler == [surface |-> "browser", tables |-> <<"occurrences", "points">>, sinks |-> TRUE]
ProfilesHandler == [surface |-> "otlp", tables |-> <<"profiles">>, sinks |-> FALSE]
PlatformHandler == [surface |-> "otlp", tables |-> <<"events">>, sinks |-> FALSE]
SourceMapsHandler == [surface |-> "sourcemaps", tables |-> <<"maps">>, sinks |-> FALSE]

(* A path nobody serves. *)
NoHandler == [surface |-> "otlp", tables |-> <<>>, sinks |-> FALSE]

Handler(route) ==
    CASE route = "traces" -> TracesHandler
      [] route = "logs" -> LogsHandler
      [] route = "metrics" -> MetricsHandler
      [] route = "browser" -> BrowserHandler
      [] route = "profiles" -> ProfilesHandler
      [] route = "platform-events" -> PlatformHandler
      [] route = "sourcemaps" -> SourceMapsHandler
      [] OTHER -> NoHandler

TablesOf(route) == Handler(route).tables
Surface(route) == Handler(route).surface
Sinks(route) == Handler(route).sinks

IdleRequest == [st |-> "idle", payload |-> NoTrace, key |-> NoKey, left |-> {}, kept |-> TRUE]

ServerInit ==
    /\ requests = [r \in Request |-> IdleRequest]
    /\ tables = {} /\ sinkQueue = {} /\ minute = 0
    /\ windows = [k \in {} |-> [start |-> 0, count |-> 0]] /\ lookups = 0
    /\ answers = [r \in Request |-> <<>>] /\ counted = [r \in Request |-> <<>>]
    /\ allowed = [k \in IngestKey |-> 0] /\ cleared = 0

Route(r) == RouteOf[requests[r].payload]
Rows(r) == {TablesOf(Route(r))[i] : i \in DOMAIN TablesOf(Route(r))}
Occurrence(p) == <<"occurrences", p>>

-----------------------------------------------------------------------------
(* A refusal is answered, then counted. *)
Refuse(r, status, reason) ==
    /\ requests' = [requests EXCEPT ![r].st = "done"]
    /\ answers' = [answers EXCEPT ![r] = Append(@, status)]
    /\ counted' = [counted EXCEPT ![r] = Append(@, reason)]

(* countUnrouted(): counted once the key is resolved, in the background. *)
RefuseUnrouted(r, status) ==
    /\ requests' = [requests EXCEPT ![r].st = "counting"]
    /\ answers' = [answers EXCEPT ![r] = Append(@, status)] /\ UNCHANGED counted

Arrive(r, p, k) ==
    /\ requests[r].st = "idle"
    /\ requests' = [requests EXCEPT ![r] = [IdleRequest EXCEPT !.st = "resolving", !.payload = p, !.key = k]]
    /\ UNCHANGED <<tables, sinkQueue, minute, windows, lookups, answers, counted, allowed, cleared>>

(* No route, or a body the parsers turn down before any route runs.         *)
Unrouted(r) ==
    /\ requests[r].st = "resolving"
    /\ \/ Route(r) = "unknown" /\ RefuseUnrouted(r, 404)
       \/ Route(r) \notin {"unknown", "sourcemaps"} /\ \E status \in {400, 413} : RefuseUnrouted(r, status)
    /\ UNCHANGED <<tables, sinkQueue, minute, windows, lookups, allowed, cleared>>
UnroutedCounted(r) ==
    /\ requests[r].st = "counting"
    /\ requests' = [requests EXCEPT ![r].st = "done"]
    /\ counted' = [counted EXCEPT ![r] = Append(@, "unrouted")]
    /\ UNCHANGED <<tables, sinkQueue, minute, windows, lookups, answers, allowed, cleared>>

(* authenticate(): which key passes where (an allowed origin apart). *)
MayCall(scope, surface) ==
    CASE scope = "server" -> TRUE
      [] scope = "client" -> surface = "browser"
      [] scope = "upload" -> surface = "sourcemaps"
      [] OTHER -> FALSE

(* RateLimiter.allow(): the entry of a key after one more request. *)
WindowAt(k) ==
    LET w == windows[k] IN
    IF w.start = minute THEN [w EXCEPT !.count = @ + 1] ELSE [start |-> minute, count |-> 1]

Windows(k) ==
    LET entry == IF k \in DOMAIN windows THEN WindowAt(k) ELSE [start |-> minute, count |-> 1] IN
    [other \in DOMAIN windows \cup {k} |-> IF other = k THEN entry ELSE windows[other]]

(* Past its bound the Map is cleared, the window in progress included. *)
Limited(k) ==
    LET after == Windows(k)
        over == Cardinality(DOMAIN after) > MaxLimited /\ k \notin DOMAIN windows
    IN  /\ windows' = IF over THEN [other \in {} |-> after[other]] ELSE after
        /\ cleared' = IF over THEN cleared + 1 ELSE cleared

(* Mutant of LimitPasses: one more. *)
LimitPassesLate(k) == Windows(k)[k].count <= MinuteLimit + 1

LimitPasses(k) == Windows(k)[k].count = 1 \/ Windows(k)[k].count <= MinuteLimit

Authenticate(r) ==
    LET k == requests[r].key
        surface == Surface(Route(r))
    IN
    /\ requests[r].st = "resolving" /\ Route(r) # "unknown"
    /\ \/ /\ k = NoKey \/ (k # NoKey /\ ScopeOf[k] = "none")
          /\ Refuse(r, 401, IF k = NoKey THEN "missing_key" ELSE "unknown_key")
          /\ UNCHANGED <<windows, allowed, cleared>>
       \/ /\ k # NoKey /\ ScopeOf[k] # "none" /\ ~MayCall(ScopeOf[k], surface)
          /\ Refuse(r, 403, "not_allowed") /\ UNCHANGED <<windows, allowed, cleared>>
       \/ /\ k # NoKey /\ ScopeOf[k] # "none" /\ MayCall(ScopeOf[k], surface)
          /\ Limited(k)
          /\ \/ ~LimitPasses(k) /\ Refuse(r, 429, "rate_limited") /\ UNCHANGED allowed
             \/ /\ LimitPasses(k) /\ allowed' = [allowed EXCEPT ![k] = @ + 1]
                /\ requests' = [requests EXCEPT ![r].st = "reading"] /\ UNCHANGED <<answers, counted>>
    /\ UNCHANGED <<tables, sinkQueue, minute, lookups>>

(* A body of the wrong type, that does not decode or does not validate; or   *)
(* it is normalised, and its occurrences are fingerprinted.                  *)
ReadBody(r) ==
    /\ requests[r].st = "reading"
    /\ \/ \E refusal \in {<<400, "invalid_payload">>, <<415, "unsupported_media_type">>} :
             Refuse(r, refusal[1], refusal[2])
       \/ Route(r) = "sourcemaps" /\ RefuseUnrouted(r, 413)
       \/ /\ requests' = [requests EXCEPT ![r].st = IF Route(r) = "logs" THEN "promoting" ELSE "writing",
                                          ![r].left = Rows(r)]
          /\ UNCHANGED <<answers, counted>>
    /\ UNCHANGED <<tables, sinkQueue, minute, windows, lookups, allowed, cleared>>

(* A handler that throws is answered by the error handler. *)
HandlerThrows(r) ==
    /\ requests[r].st = "reading" /\ RefuseUnrouted(r, 500)
    /\ UNCHANGED <<tables, sinkQueue, minute, windows, lookups, allowed, cleared>>

-----------------------------------------------------------------------------

(* The ids a promotion must not find: content-derived, as in every attempt. *)
OwnIds(p) == {p}

(* recentOccurrenceTraceIds(): another occurrence of the same trace. *)
TraceSeen(p) ==
    \E q \in Payload \ OwnIds(p) : ErrorTrace[q] = ErrorTrace[p] /\ Occurrence(q) \in tables

(* promoteLogs(): the lookup is limited, may fail, and then finds nothing.  *)
Promote(r) ==
    /\ requests[r].st = "promoting"
    /\ \E looked \in {TRUE, FALSE} :
          LET found == looked /\ lookups < LookupLimit /\ TraceSeen(requests[r].payload) IN
          requests' = [requests EXCEPT ![r].st = "writing", ![r].kept = ~found,
                          ![r].left = IF found THEN @ \ {"occurrences"} ELSE @]
    /\ lookups' = IF lookups < LookupLimit THEN lookups + 1 ELSE lookups
    /\ UNCHANGED <<tables, sinkQueue, minute, windows, answers, counted, allowed, cleared>>

(* The inserts run side by side (Promise.all); those of a metrics request   *)
(* one after the other.                                                      *)
MayInsert(r, t) ==
    /\ t \in requests[r].left
    /\ Route(r) = "metrics" /\ t = "points" => "latency" \notin requests[r].left

InsertDone(r, t) ==
    /\ requests[r].st \in {"writing", "failed"} /\ MayInsert(r, t)
    /\ tables' = tables \cup {<<t, requests[r].payload>>}
    /\ requests' = [requests EXCEPT ![r].left = @ \ {t}]
    /\ UNCHANGED <<sinkQueue, minute, windows, lookups, answers, counted, allowed, cleared>>

Undecided(r) == requests[r].st = "writing"

(* The first insert that fails decides; the others may still commit.         *)
InsertFails(r, t) ==
    LET left == IF Route(r) = "metrics" THEN {} ELSE requests[r].left \ {t} IN
    /\ Undecided(r) /\ MayInsert(r, t)
    /\ requests' = [requests EXCEPT ![r].st = "failed", ![r].left = left]
    /\ answers' = [answers EXCEPT ![r] = Append(@, 503)]
    /\ counted' = [counted EXCEPT ![r] = Append(@, "storage_unavailable")]
    /\ UNCHANGED <<tables, sinkQueue, minute, windows, lookups, allowed, cleared>>
InsertLost(r, t) ==
    /\ requests[r].st = "failed" /\ t \in requests[r].left
    /\ requests' = [requests EXCEPT ![r].left = @ \ {t}]
    /\ UNCHANGED <<tables, sinkQueue, minute, windows, lookups, answers, counted, allowed, cleared>>

(* Mutant of AllStored: any insert that has committed will do. *)
AnyStored(r) == requests[r].left # Rows(r)

AllStored(r) == requests[r].left = {}

(* Every insert succeeded: to the sink, then the answer, then the counts of  *)
(* what was accepted but left out.                                           *)
Accept(r) ==
    /\ requests[r].st = "writing" /\ AllStored(r)
    /\ sinkQueue' = IF Sinks(Route(r)) /\ requests[r].kept THEN sinkQueue \cup {requests[r].payload} ELSE sinkQueue
    /\ requests' = [requests EXCEPT ![r].st = "done"]
    /\ answers' = [answers EXCEPT ![r] = Append(@, 200)]
    /\ UNCHANGED <<tables, minute, windows, lookups, counted, allowed, cleared>>

NextMinute ==
    /\ minute < MaxMinutes /\ minute' = minute + 1
    /\ lookups' = 0 /\ allowed' = [k \in IngestKey |-> 0] /\ cleared' = 0
    /\ UNCHANGED <<requests, tables, sinkQueue, windows, answers, counted>>

ServerNext ==
    \/ \E r \in Request, p \in Payload, k \in IngestKey \cup {NoKey} : Arrive(r, p, k)
    \/ \E r \in Request :
          \/ Unrouted(r) \/ UnroutedCounted(r) \/ Authenticate(r) \/ ReadBody(r) \/ HandlerThrows(r)
          \/ Promote(r) \/ Accept(r)
          \/ \E t \in requests[r].left : InsertDone(r, t) \/ InsertFails(r, t) \/ InsertLost(r, t)
    \/ NextMinute

-----------------------------------------------------------------------------
ServerTypeOK ==
    /\ \A r \in Request :
          /\ requests[r].st \in {"idle", "resolving", "counting", "reading", "promoting", "writing", "failed", "done"}
          /\ Len(answers[r]) <= 2 /\ Len(counted[r]) <= 2
    /\ sinkQueue \subseteq Payload /\ Cardinality(DOMAIN windows) <= MaxLimited

(* Each request is answered once, and counted as refused exactly when it is, *)
(* whichever step refuses it and whatever still runs in the background.      *)
RefusalsCounted ==
    \A r \in Request :
        /\ requests[r].st \in {"done", "failed"} => Len(answers[r]) = 1
        /\ requests[r].st \in {"done", "failed"} => (counted[r] # <<>> <=> answers[r] # <<200>>)

(* server.ts:817-823: nothing reaches the sink queue unless every insert of  *)
(* one attempt committed, and what is accepted is stored as a whole.         *)
SinkSeesStoredOnly ==
    /\ \A p \in sinkQueue : \A i \in DOMAIN TablesOf(RouteOf[p]) : <<TablesOf(RouteOf[p])[i], p>> \in tables
    /\ \A r \in Request : answers[r] = <<200>> =>
          \A t \in Rows(r) : <<t, requests[r].payload>> \in tables \/ (t = "occurrences" /\ ~requests[r].kept)

(* An accepted error reaches the sink, unless another occurrence of its      *)
(* trace was stored: the rows of its own earlier attempt never hide it.      *)
AcceptedReachesSink ==
    \A r \in Request :
        answers[r] = <<200>> /\ Sinks(Route(r)) =>
            \/ requests[r].payload \in sinkQueue
            \/ \E q \in Payload \ {requests[r].payload} :
                  ErrorTrace[q] = ErrorTrace[requests[r].payload] /\ Occurrence(q) \in tables

(* A key's rows are in the tables its scope may write only.                  *)
StoredByScope ==
    \A r \in Request : answers[r] = <<200>> =>
        /\ requests[r].key # NoKey
        /\ \/ ScopeOf[requests[r].key] = "server"
           \/ ScopeOf[requests[r].key] = "client" /\ Route(r) = "browser"
           \/ ScopeOf[requests[r].key] = "upload" /\ Route(r) = "sourcemaps"

(* A key passes at most its limit in a minute, once more each time the full  *)
(* Map was cleared.                                                          *)
MinuteLimitHolds == \A k \in IngestKey : allowed[k] <= MinuteLimit * (cleared + 1)
=============================================================================
