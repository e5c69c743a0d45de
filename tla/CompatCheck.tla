------------------------------- MODULE CompatCheck -------------------------------
(***************************************************************************)
(* The version check of runtime-node/src/compat.ts: what is known of the     *)
(* ingester comes from one deferred GET /v1/compat, from probes of routes,   *)
(* from the header of responses and from a 404 on a route; what is missing   *)
(* for a feature in use is warned of once.  Answers arrive in any order, some *)
(* never; the ingester may be upgraded and the SDK configured again meanwhile. *)
(***************************************************************************)
EXTENDS Integers, FiniteSets, Functions

CONSTANTS
    Feature,            \* features of the compat manifest
    FeatureRoute,       \* feature -> its route, or NoRoute
    FeatureNeeds,       \* feature -> the first ingester version with it
    WritesMigration,    \* features with migrations, which come with that version
    BrowserFeature,     \* features with browser events
    NoRoute,
    MaxConfigures,      \* bound: configureCompatCheck calls
    MaxAsked            \* bound: requests to the ingester in flight

ASSUME CompatAssumption ==
    FeatureNeeds \in [Feature -> Nat \ {0}] /\ BrowserFeature \subseteq Feature /\ MaxConfigures \in Nat

(* Version 0 is an ingester from before /v1/compat and the version header.  *)
Versions == 0 .. 2
CompatRoutes == {FeatureRoute[f] : f \in Feature} \ {NoRoute}

VARIABLES
    ingester,       \* the ingester's version and the state of its schema
    oldRoutes,      \* the routes an ingester of version 0 has
    lived,          \* history: what the ingester has been
    check,          \* compat.state
    asked,          \* timers and requests under way
    probed,         \* history: routes probed for the present state
    knew,           \* history: the present state has known a version
    warnings        \* history: warnings of the present state

compatVars == <<ingester, oldRoutes, lived, check, asked, probed, knew, warnings>>

Unknown == [known |-> FALSE, version |-> 0, schema |-> "unknown", applied |-> 0, routes |-> <<>>]
FreshCheck(id, endpoint) ==
    [id |-> id, endpoint |-> endpoint, features |-> {}, info |-> Unknown,
     started |-> FALSE, pending |-> {}, warned |-> {}]

CompatInit ==
    /\ ingester \in [version : Versions, schema : {"pending"}]
    /\ oldRoutes \in SUBSET CompatRoutes
    /\ lived = {ingester} /\ check = FreshCheck(0, FALSE) /\ asked = {}
    /\ probed = {} /\ knew = FALSE /\ warnings = {}

RoutesFor(features) == {FeatureRoute[f] : f \in features} \ {NoRoute}

(* mergeInfo: an unknown version or schema leaves the known one, so that the   *)
(* version of a header stands beside the schema of an earlier report.         *)
Merge(info, next) ==
    [known |-> TRUE,
     version |-> IF next.version # 0 THEN next.version ELSE info.version,
     schema |-> IF next.schema # "unknown" THEN next.schema ELSE info.schema,
     applied |-> IF next.schema # "unknown" THEN next.applied ELSE info.applied,
     routes |-> [r \in DOMAIN info.routes \cup DOMAIN next.routes |->
                    IF r \in DOMAIN next.routes THEN next.routes[r] ELSE info.routes[r]]]

(* evaluateCompat: the version, a route, a schema that failed, and a schema    *)
(* that is ready without the feature's migrations; never what is unknown.      *)
Issues(features, info) ==
    {[feature |-> f, kind |-> "ingester_too_old", by |-> "version"] :
        f \in {g \in features : info.version # 0 /\ info.version < FeatureNeeds[g]}}
    \cup {[feature |-> f, kind |-> "ingester_too_old", by |-> "route"] :
        f \in {g \in features : /\ info.version = 0 /\ FeatureRoute[g] \in DOMAIN info.routes
                                /\ ~info.routes[FeatureRoute[g]]}}
    \cup {[feature |-> f, kind |-> "schema_not_applied", by |-> "schema"] :
        f \in {g \in features \cap WritesMigration :
                 info.version >= FeatureNeeds[g] /\ info.schema = "failed"}}
    \cup {[feature |-> f, kind |-> "schema_not_applied", by |-> "list"] :
        f \in {g \in features \cap WritesMigration :
                 /\ info.version >= FeatureNeeds[g] /\ info.schema = "ready"
                 /\ info.applied < FeatureNeeds[g]}}

KeyOfIssue(issue) == <<issue.feature, issue.kind>>

(* evaluateAndWarn after the features or what is known changed: on an old    *)
(* ingester the routes nobody asked about are probed; then each issue is     *)
(* warned of once.                                                          *)
Evaluate(next, open) ==
    LET unprobed == IF next.info.version = 0
                    THEN (RoutesFor(next.features) \ DOMAIN next.info.routes) \ next.pending ELSE {}
        new == {i \in Issues(next.features, next.info) : KeyOfIssue(i) \notin next.warned}
    IN  /\ check' = [next EXCEPT !.pending = @ \cup unprobed, !.warned = @ \cup {KeyOfIssue(i) : i \in new}]
        /\ asked' = IF unprobed = {} THEN open
                    ELSE open \cup {[kind |-> "probe", id |-> next.id, routes |-> unprobed]}
        /\ probed' = probed \cup unprobed
        /\ knew' = (knew \/ next.info.version # 0)
        /\ warnings' = warnings \cup {[issue |-> i, knew |-> knew'] : i \in new}

Configured(endpoint) ==
    /\ check' = FreshCheck(check.id + 1, endpoint)
    /\ probed' = {} /\ knew' = FALSE /\ warnings' = {}
    /\ UNCHANGED <<ingester, oldRoutes, lived, asked>>

(* initAutterServer, and a relay in a process that has not called it. *)
Configure == check.id < MaxConfigures /\ Configured(TRUE)
EnsureConfigured == ~check.endpoint /\ check.id < MaxConfigures /\ Configured(TRUE)

NoteFeature(f) ==
    /\ check.endpoint /\ f \notin check.features
    /\ LET next == [check EXCEPT !.features = @ \cup {f}] IN
       \/ check.info.known /\ Evaluate(next, asked)
       \/ /\ ~check.info.known /\ Cardinality(asked) < MaxAsked
          /\ check' = [next EXCEPT !.started = TRUE]
          /\ asked' = IF check.started THEN asked
                      ELSE asked \cup {[kind |-> "timer", id |-> check.id, routes |-> {}]}
          /\ UNCHANGED <<probed, knew, warnings>>
    /\ UNCHANGED <<ingester, oldRoutes, lived>>

(* runCheck begins: the routes of the features noted so far go with it.     *)
RunCheck(timer) ==
    /\ timer \in asked /\ timer.kind = "timer"
    /\ LET routes == IF timer.id = check.id THEN RoutesFor(check.features) ELSE {} IN
       /\ asked' = (asked \ {timer}) \cup {[kind |-> "check", id |-> timer.id, routes |-> routes]}
       /\ probed' = probed \cup routes
    /\ UNCHANGED <<ingester, oldRoutes, lived, check, knew, warnings>>

(* Mutant of ProbeRoutes: a probe without an answer is a missing route.      *)
ProbeRoutesAll(routes, answered) == [r \in routes |-> r \in answered /\ r \in oldRoutes]

(* probeRoute: what does not answer is not known.                            *)
ProbeRoutes(routes, answered) == [r \in answered |-> r \in oldRoutes]
(* What an ingester of a version tells: with the schema, the migrations applied, *)
(* which are all of that version once it is ready, and none before.             *)
OfVersion(version, schema, routes) ==
    [known |-> TRUE, version |-> version, schema |-> schema,
     applied |-> IF schema = "ready" THEN version ELSE 0, routes |-> routes]

(* What an answer of the check tells: nothing, the report, the header of an   *)
(* error answer, or a 404 and the probes that answered.                       *)
CheckAnswer(request) ==
    {Unknown}
    \cup IF ingester.version > 0
         THEN {OfVersion(ingester.version, s, <<>>) : s \in {"unknown", ingester.schema}}
         ELSE {OfVersion(0, "unknown", ProbeRoutes(request.routes, answered)) :
                   answered \in SUBSET request.routes}

(* runCheck after its await: every route of the features noted by now counts  *)
(* as asked about.                                                          *)
CheckAnswers(request) ==
    /\ request \in asked /\ request.kind = "check"
    /\ \E info \in CheckAnswer(request) :
          IF request.id # check.id \/ ~info.known
          THEN asked' = asked \ {request} /\ UNCHANGED <<check, probed, knew, warnings>>
          ELSE LET next == [check EXCEPT !.info = Merge(@, info),
                                         !.pending = @ \cup RoutesFor(check.features)]
               IN  Evaluate(next, asked \ {request})
    /\ UNCHANGED <<ingester, oldRoutes, lived>>

ProbeAnswers(request) ==
    /\ request \in asked /\ request.kind = "probe"
    /\ \E answered \in SUBSET request.routes :
          LET routes == IF ingester.version = 0 THEN ProbeRoutes(request.routes, answered)
                        ELSE [r \in answered |-> TRUE]
              next == [check EXCEPT !.info = Merge(@, OfVersion(0, "unknown", routes))]
          IN  IF request.id # check.id
              THEN asked' = asked \ {request} /\ UNCHANGED <<check, probed, knew, warnings>>
              ELSE Evaluate(next, asked \ {request})
    /\ UNCHANGED <<ingester, oldRoutes, lived>>

(* observeIngesterResponse: a response that an ingester gave, perhaps a while  *)
(* ago, with its version or, from an old one, a 404 on a route it lacks.       *)
Observe(was, route) ==
    /\ check.endpoint /\ was \in lived
    /\ \/ /\ was.version > 0 /\ check.info.version # was.version
          /\ Evaluate([check EXCEPT !.info = Merge(@, OfVersion(was.version, "unknown", <<>>))], asked)
       \/ /\ was.version = 0 /\ check.info.version = 0 /\ route \notin oldRoutes
          /\ Evaluate([check EXCEPT !.info = Merge(@, OfVersion(0, "unknown", [r \in {route} |-> FALSE]))], asked)
    /\ UNCHANGED <<ingester, oldRoutes, lived>>

(* noteRelayRejection: an old ingester answered 400 to a batch of newer events.  *)
RelayRejected(features) ==
    /\ check.endpoint /\ [version |-> 0, schema |-> "pending"] \in lived
    /\ LET new == {f \in features : <<f, "relay_rejected">> \notin check.warned} IN
       /\ new # {}
       /\ check' = [check EXCEPT !.warned = @ \cup {<<f, "relay_rejected">> : f \in new}]
    /\ UNCHANGED <<ingester, oldRoutes, lived, asked, probed, knew, warnings>>

(* The deployment: the ingester's migrations end, failed ones are tried again, *)
(* it is upgraded.                                                            *)
SchemaSettles ==
    /\ ingester.version > 0 /\ ingester.schema # "ready"
    /\ \E s \in {"ready", "failed"} : ingester' = [ingester EXCEPT !.schema = s]
    /\ lived' = lived \cup {ingester'}
    /\ UNCHANGED <<oldRoutes, check, asked, probed, knew, warnings>>
Upgrade ==
    /\ ingester.version < 2
    /\ ingester' = [version |-> ingester.version + 1, schema |-> "pending"]
    /\ lived' = lived \cup {ingester'}
    /\ UNCHANGED <<oldRoutes, check, asked, probed, knew, warnings>>

CompatNext ==
    \/ Configure \/ EnsureConfigured
    \/ \E f \in Feature : NoteFeature(f)
    \/ \E request \in asked : RunCheck(request) \/ CheckAnswers(request) \/ ProbeAnswers(request)
    \/ \E was \in lived, route \in CompatRoutes : Observe(was, route)
    \/ \E features \in SUBSET BrowserFeature : RelayRejected(features)
    \/ SchemaSettles \/ Upgrade

CompatTypeOK ==
    /\ check.features \subseteq Feature /\ check.pending \subseteq CompatRoutes
    /\ check.id \in 0 .. MaxConfigures /\ check.info.version \in Versions
    /\ DOMAIN check.info.routes \subseteq CompatRoutes
    /\ \A request \in asked : request.id <= check.id /\ request.routes \subseteq CompatRoutes

-----------------------------------------------------------------------------
Lacked(i) ==
    \E was \in lived :
        CASE i.by = "version" -> was.version \in 1 .. FeatureNeeds[i.feature] - 1
          [] i.by = "route" -> was.version = 0 /\ FeatureRoute[i.feature] \notin oldRoutes
          [] i.by = "schema" -> was.version > 0 /\ was.schema = "failed"
          [] i.by = "list" -> was.schema = "ready" /\ was.version \in 1 .. FeatureNeeds[i.feature] - 1

(* Whatever the order the answers come in, and whichever of them are lost, a   *)
(* warning names what an ingester of this deployment did lack, and a missing   *)
(* route is no argument once a version was learnt.  It need not be the one     *)
(* running: migrations are called missing from a schema that is ready only     *)
(* where an older ingester reported its own list and a newer one its header,   *)
(* never in a deployment that was not upgraded.                               *)
WarningsAreProven ==
    \A w \in warnings :
        /\ Lacked(w.issue) /\ (w.issue.by = "route" => ~w.knew)
        /\ w.issue.kind = "schema_not_applied" =>
              \E was \in lived : was.version >= FeatureNeeds[w.issue.feature]

(* "Legacy ingester + a newly used feature with an unprobed route: probe it":   *)
(* once the ingester is known to be old, each route of the features in use has *)
(* been asked about.                                                        *)
NewRoutesAreProbed ==
    check.info.known /\ check.info.version = 0 =>
        RoutesFor(check.features) \subseteq DOMAIN check.info.routes \cup probed
=============================================================================
