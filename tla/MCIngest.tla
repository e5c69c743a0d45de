------------------------------- MODULE MCIngest -------------------------------
(* Small instances of the parts of the ingester that share no state with     *)
(* each other: sink forwarder, key cache, HTTP server, grouping of a trace's *)
(* recordings, schema bootstrap, the request counts the SDKs and the         *)
(* normalizer agree on, suppression rules, and the sightings of SDKs.  A     *)
(* behaviour runs one of them (`part') and leaves the others as they start.  *)
EXTENDS SinkForwarder, KeyResolver, IngestServer, TraceDedupe, SchemaBootstrap, RequestCounts,
    SuppressionRules, SdkSightings, TLC

CONSTANTS
    o1, o2, k1, k2, l1, l2, r1, r2, q1, q2, c1, c2,
    pT, pL, pM, pB, pS, pP, pU, ks, kc, ku, kn, t1, sr, sm, sl1, sl2, w1, w2, p1, p2, x1, x2, x3

VARIABLE part   \* the component this behaviour runs

(* One payload per route, the trace and the log one with an error's trace,   *)
(* and one key per scope and one that does not resolve.                      *)
MCRouteOf == (pT :> "traces") @@ (pL :> "logs") @@ (pM :> "metrics") @@ (pB :> "browser")
             @@ (pS :> "sourcemaps") @@ (pP :> "profiles") @@ (pU :> "unknown")
MCErrorTrace == [p \in Payload |-> IF p \in {pT, pL} THEN t1 ELSE NoTrace]
MCScopeOf == (ks :> "server") @@ (kc :> "client") @@ (ku :> "upload") @@ (kn :> "none")

(* A trace of two leaf spans below one span of the SDK's.                    *)
MCParent == (sr :> NoSpan) @@ (sm :> sr) @@ (sl1 :> sm) @@ (sl2 :> sm)

(* The second request is made by the first, in its process or in another,    *)
(* and in its trace.                                                         *)
MCTraceOf == [r \in WebRequest |-> t1]
MCCallerOf == [r \in WebRequest |-> IF r = w2 THEN w1 ELSE NoCaller]
MCPlacement == {[r \in WebRequest |-> p1], [r \in WebRequest |-> IF r = w1 THEN p1 ELSE p2]}
(* The first request is served in every way, the callee in the ways that     *)
(* send spans or records of their own; an error is thrown below the work     *)
(* span or through both spans, or caught.                                    *)
MCFacts == [way : {"spans", "routed", "unrouted", "retained", "kept", "edge", "logged", "traced"},
            status : Status, thrown : {{}, {"work"}, {"http", "work"}}, caught : BOOLEAN]
MCServed(f) ==
    /\ f.status = 404 => f.way \in {"spans", "retained"} /\ f.thrown # {"http", "work"}
    /\ f.caught => f.status = 200 /\ f.thrown = {}
MCCalled(f) == ~f.caught /\ f.way \in {"spans", "routed", "kept", "logged", "traced"} /\ f.status = 200 /\ f.thrown = {"work"}
MCFactsOf == [r \in WebRequest |-> IF r = w1 THEN {f \in MCFacts : MCServed(f)}
                                             ELSE {f \in MCFacts : MCCalled(f)}]

(* Three occurrences, rules over two of their properties, one broken.       *)
TypeIs(v) == [key |-> "errorType", value |-> v, valid |-> TRUE]
RouteIs(v) == [key |-> "route", value |-> v, valid |-> TRUE]
Invalid == [key |-> "route", value |-> "/", valid |-> FALSE]
Rule(filters, action, rate) == [filters |-> filters, action |-> action, rate |-> rate]
MCRules ==
    {Rule({TypeIs("A")}, "drop", 0), Rule({TypeIs("A"), RouteIs("/")}, "sample", 2),
     Rule({RouteIs("/")}, "sample", 1), Rule({TypeIs("A"), Invalid}, "drop", 0),
     Rule({}, "drop", 0), Rule({RouteIs("/")}, "sample", 4)}
MCProps == x1 :> [errorType |-> "A", route |-> "/"] @@ x2 :> [errorType |-> "A", route |-> "/b"]
           @@ x3 :> [errorType |-> "B", route |-> "/"]
MCUnit == x1 :> 1 @@ x2 :> 3 @@ x3 :> 0

(* A service of our own SDK, one behind a collector and one nobody knows.    *)
Sender(service, distro, sdk, via) == [service |-> service, distro |-> distro, sdk |-> sdk, via |-> via]
MCResource == {Sender("a", "node", "otel", "direct"), Sender("b", "", "", "collector"), Sender("c", "", "", "")}
MCSightings == Sightings(MCResource)

Rests(name, vars) == part # name => UNCHANGED vars

(* A part that does not run stays in a state its own behaviours start in.    *)
Of(name, property) == part = name => property

IngestInit ==
    /\ part \in {"sink", "keys", "server", "dedupe", "schema", "counts", "rules", "sightings"}
    (* Where a part that does not run has a choice of initial states. *)
    /\ part = "keys" \/ valid = {}
    /\ part = "dedupe" \/ newest = TRUE
    /\ part = "schema" \/ (db = {} /\ replica = [r \in Replica |-> FreshReplica("new")])
    /\ \/ part = "counts"
       \/ /\ served = [r \in WebRequest |-> p1]
          /\ facts = [r \in WebRequest |->
                        [way |-> "spans", status |-> 200, thrown |-> {"work"}, caught |-> FALSE]]
    /\ part = "rules" \/ raw = <<>>
    /\ ForwarderInit /\ ServerInit /\ KeysInit /\ TdInit /\ SchemaInit /\ CountsInit
    /\ SuppressionInit /\ SightingInit

IngestNext ==
    /\ UNCHANGED part
    /\ Rests("sink", forwarderVars) /\ Rests("keys", keysVars) /\ Rests("server", serverVars)
    /\ Rests("dedupe", tdVars) /\ Rests("schema", schemaVars) /\ Rests("counts", countsVars)
    /\ Rests("rules", suppressionVars) /\ Rests("sightings", sightingVars)
    /\ \/ part = "sink" /\ ForwarderNext
       \/ part = "keys" /\ KeysNext
       \/ part = "server" /\ ServerNext
       \/ part = "dedupe" /\ TdNext
       \/ part = "schema" /\ SchemaNext
       \/ part = "counts" /\ CountsNext
       \/ part = "rules" /\ SuppressionNext
       \/ part = "sightings" /\ SightingNext

ingestVars == <<part, forwarderVars, keysVars, serverVars, tdVars, schemaVars, countsVars,
                suppressionVars, sightingVars>>

IngestSpec == IngestInit /\ [][IngestNext]_ingestVars

(* The organisations of the forwarder are interchangeable. *)
OrgSymmetry == Permutations(Org)

(* The types of the components, with the bounds of their queues.             *)
IngestTypeOK ==
    /\ Of("sink", ForwarderTypeOK) /\ Of("keys", KeysTypeOK) /\ Of("server", ServerTypeOK)
    /\ Of("dedupe", TdTypeOK) /\ Of("schema", SchemaTypeOK) /\ Of("counts", CountsTypeOK)
    /\ Of("rules", SuppressionTypeOK) /\ Of("sightings", SightingTypeOK)

(* A batch handed to the forwarder is in one place, its counters and the     *)
(* buffer's add up, a failing sink gets one probe at a time, and a batch     *)
(* that waits has something that wakes the loop for it (sink.ts).            *)
SinkAccounts ==
    Of("sink", OnePlaceEach /\ CountersAddUp /\ BufferAccounted /\ OneProbeWhileFailing /\ NoLostWakeup)

(* What a step of the forwarder may not do: evict from another organisation  *)
(* than the largest, reopen on a success that is older than the failure.     *)
SinkStepsFair == EvictionIsFair /\ ReopensOnFreshSuccess

(* The bounds of auth.ts: keys kept, and requests per key and minute.        *)
KeyLimits == Of("keys", CacheBounded) /\ Of("server", MinuteLimitHolds)

(* A request the server refuses is counted once, one it accepts is stored    *)
(* and reaches the sink as a whole, by keys whose scope allows it.           *)
RequestsAccounted ==
    Of("server", RefusalsCounted /\ SinkSeesStoredOnly /\ AcceptedReachesSink /\ StoredByScope)

(* An error thrown once and recorded by several spans and records of its     *)
(* trace is one occurrence, and no other error is hidden by it.              *)
ThrowsGrouped == Of("dedupe", OneOccurrencePerThrow /\ NothingSilenced)

(* Schema bootstrap of replicas that start, stop and fail half way: a        *)
(* replica that says ready has the tables it writes, a recorded migration    *)
(* is in effect, and a new attempt can succeed (clickhouse.ts).              *)
SchemaInEffect == Of("schema", ReadyMeansShape /\ RecordedInEffect /\ BootstrapCanSucceed)

(* A request and its failure are counted once, whichever of span, record and *)
(* metric brings them and whichever of them sampling lost.                   *)
CountedOnce == Of("counts", RequestCountedOnce /\ FailureCountedOnce /\ LoggedErrorsPromoted)

(* A retry of a batch keeps what the first attempt kept, and a glob matches  *)
(* what its definition says (suppression.ts).                                *)
RulesApplied == Of("rules", RetriesKeepTheSame /\ GlobIsExact)
=============================================================================
