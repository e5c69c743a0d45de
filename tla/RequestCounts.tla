---------------------------- MODULE RequestCounts ----------------------------
(***************************************************************************)
(* What the ingester counts as requests and failed requests                 *)
(* (normalize-otlp.ts, request-spans.ts, log-promotion.ts) from feeds that   *)
(* see the same request: the spans of a trace pipeline, its request          *)
(* histogram, and the log records of SDKs without a trace pipeline.  Items   *)
(* leave a process in batches cut anywhere, and any batch may be lost.       *)
(***************************************************************************)
EXTENDS Naturals, FiniteSets, FiniteSetsExt

CONSTANTS
    WebRequest,
    CallerOf,       \* the request whose client span a request answers, or NoCaller
    TraceOf,        \* the trace of a request
    Process, Placement,     \* processes, and where requests may be served
    Status,         \* response statuses
    FactsOf,        \* per request, how it may go
    MaxLost,        \* bound: batches lost
    NoCaller

(* A request's spans: the HTTP server span, the framework's server span in   *)
(* it, the app's work and its outgoing call.                                 *)
SpanNames == {"http", "next", "work", "call"}
SpansOf(r) == {n \in SpanNames : n = "call" => \E q \in WebRequest : CallerOf[q] = r}

(* How a request's sender marks it: not at all ("spans"); by a Node SDK with *)
(* a metric feed, its route on the point or not, or kept by retention; kept  *)
(* by retention without a feed; by edge or logging-only records, which name  *)
(* a trace only where the app runs a tracer of its own ("traced").           *)
Way == {"spans", "routed", "unrouted", "retained", "kept", "edge", "logged", "traced"}

ASSUME CountsAssumption ==
    /\ Status \subseteq 100 .. 599 /\ Placement \subseteq [WebRequest -> Process]
    /\ CallerOf \in [WebRequest -> WebRequest \cup {NoCaller}] /\ NoCaller \notin WebRequest
    /\ \A r \in WebRequest : CallerOf[r] # NoCaller => TraceOf[r] = TraceOf[CallerOf[r]]
    /\ \A r \in WebRequest :
          FactsOf[r] \subseteq [way : Way, status : Status, thrown : SUBSET SpansOf(r), caught : BOOLEAN]

VARIABLES
    served,         \* per request, its process
    facts,          \* per request: [way, status, thrown, caught]
    over,           \* items (spans, records) ended
    waiting,        \* those not yet exported
    point,          \* per request, its histogram point: none, waiting or gone
    errorTraces,    \* traces with a stored occurrence
    missed,         \* history: those a promotion did not see
    requestCount, errorCount,   \* what runtime_metrics_1m adds up to, per request
    lost,           \* history: per request, the batches lost
    split           \* history: requests whose spans left in several batches

countsVars == <<served, facts, over, waiting, point, errorTraces, missed, requestCount, errorCount, lost, split>>

(* Log senders write a record for each error instead, a caught one too, and  *)
(* a summary.                                                                *)
Items == WebRequest \X (SpanNames \cup {"caught", "summary"})
Server(s) == s[2] \in {"http", "next"}

Wired(way) == way \in {"routed", "unrouted", "retained"}
Logs(way) == way \in {"edge", "logged", "traced"}

ItemsOf(r) ==
    IF Logs(facts[r].way)
    THEN {<<r, n>> : n \in {"summary"} \cup facts[r].thrown \cup (IF facts[r].caught THEN {"caught"} ELSE {})}
    ELSE {<<r, n>> : n \in SpansOf(r)}

Failed(r) == facts[r].thrown # {} \/ facts[r].status >= 500

CountsInit ==
    /\ served \in Placement
    /\ facts \in {f \in [WebRequest -> UNION {FactsOf[r] : r \in WebRequest}] :
                     \A r \in WebRequest :
                        /\ f[r] \in FactsOf[r]
                        /\ \A q \in WebRequest : served[r] = served[q] =>
                              f[r].way = f[q].way \/ (Wired(f[r].way) /\ Wired(f[q].way))
                        /\ f[r].way = "kept" => f[r].thrown # {} \/ f[r].status >= 500}
    /\ over = {} /\ waiting = {}
    /\ point = [r \in WebRequest |-> "none"] /\ errorTraces = {} /\ missed = {}
    /\ requestCount = [r \in WebRequest |-> 0] /\ errorCount = [r \in WebRequest |-> 0]
    /\ lost = [r \in WebRequest |-> 0] /\ split = {}

(* A span ends after the spans below it in its process; the histogram        *)
(* records when the HTTP span ends.                                          *)
Ends(i) ==
    /\ i \in ItemsOf(i[1]) \ over
    /\ i[2] = "next" => ItemsOf(i[1]) \ {i, <<i[1], "http">>} \subseteq over
    /\ i[2] = "http" /\ ~Logs(facts[i[1]].way) => <<i[1], "next">> \in over
    /\ i[2] = "summary" => ItemsOf(i[1]) \ {i} \subseteq over
    /\ over' = over \cup {i} /\ waiting' = waiting \cup {i}
    /\ point' = IF i[2] = "http" /\ Wired(facts[i[1]].way) THEN [point EXCEPT ![i[1]] = "waiting"] ELSE point
    /\ UNCHANGED <<served, facts, errorTraces, missed, requestCount, errorCount, lost, split>>

-----------------------------------------------------------------------------
(* requestMembership(): the parent the walk may step to, in this batch.      *)
Parent(i) ==
    CASE i[2] = "http" -> <<CallerOf[i[1]], "call">>
      [] i[2] = "next" -> <<i[1], "http">>
      [] OTHER -> <<i[1], "next">>

RemoteCall(child, parent) == Server(child) /\ parent[2] = "call"

StepsUp(batch, i) ==
    /\ Parent(i) \in batch /\ served[Parent(i)[1]] = served[i[1]]
    /\ ~RemoteCall(i, Parent(i))

(* The outermost server span on each item's chain, or the item itself with   *)
(* none there: {} or one span.                                               *)
Outermost(batch) ==
    LET up[i \in batch] ==
            LET above == IF StepsUp(batch, i) THEN up[Parent(i)] ELSE {}
            IN  IF above # {} THEN above ELSE IF Server(i) THEN {i} ELSE {}
    IN  up

(* An exception event that was not handled fails its span; a 4xx needs one.  *)
SpanFailed(i) ==
    \/ i[2] \in facts[i[1]].thrown
    \/ Server(i) /\ facts[i[1]].status >= 500

(* The occurrences of a batch, one per error (TraceDedupe), by the spans     *)
(* they were recorded on: errors thrown, and failed spans no error explains. *)
Recorded(batch, r) == {i \in batch : i[1] = r /\ i[2] \in facts[r].thrown}
StatusOnly(batch, r) ==
    IF Recorded(batch, r) # {} THEN {}
    ELSE {{i} : i \in {j \in batch : j[1] = r /\ SpanFailed(j)}}
FailureOccurrences(batch) ==
    UNION {(IF Recorded(batch, r) = {} THEN {} ELSE {Recorded(batch, r)}) \cup StatusOnly(batch, r) : r \in WebRequest}

(* Caught errors are occurrences and fail nothing.                           *)
CaughtOccurrences(batch) == {{i} : i \in {j \in batch : facts[j[1]].caught /\ j[2] = "work"}}

CountsFailure(batch) == FailureOccurrences(batch)

(* countedBy(), on a request's outermost server span: who counts it.  Only   *)
(* the HTTP span is marked as routed; retention marks every span.            *)
CountedBy(i) ==
    CASE facts[i[1]].way = "routed" /\ i[2] = "http" -> "metrics"
      [] facts[i[1]].way = "retained" -> "metrics"
      [] facts[i[1]].way = "kept" -> "none"
      [] OTHER -> "spans"

(* The histogram made a 5xx response a failed request already.               *)
MetricCounted(i) == facts[i[1]].status >= 500

(* What a batch of spans adds to the request whose outermost span is i.      *)
TraceAdds(batch, i) ==
    LET root == Outermost(batch)
        error == \E members \in CountsFailure(batch) : \E m \in members : root[m] = {i}
        failed == error \/ \E j \in batch : Server(j) /\ root[j] = {i} /\ SpanFailed(j)
        one(b) == IF b THEN 1 ELSE 0
    IN  CASE CountedBy(i) = "spans" -> [requests |-> 1, errors |-> one(failed)]
          [] CountedBy(i) = "metrics" -> [requests |-> 0, errors |-> one(error /\ ~MetricCounted(i))]
          [] CountedBy(i) = "none" -> [requests |-> 0, errors |-> one(failed)]

(* normalizeTraces(): its requests, and the errors outside any of them.      *)
TraceRequests(batch, r) ==
    MapThenSumSet(LAMBDA i : TraceAdds(batch, i).requests,
                  {i \in batch : i[1] = r /\ Outermost(batch)[i] = {i}})
TraceErrors(batch, r) ==
    MapThenSumSet(LAMBDA i : TraceAdds(batch, i).errors, {i \in batch : i[1] = r /\ Outermost(batch)[i] = {i}})
    + Cardinality({members \in CountsFailure(batch) :
                      \A m \in members : m[1] = r /\ Outermost(batch)[m] = {}})

-----------------------------------------------------------------------------
(* logPromotionCandidates(): every error record without a trace, and of each *)
(* trace the first one in the batch, which may be any of them.               *)
Traced(i) == facts[i[1]].way = "traced"
SameTrace(i, j) == Traced(i) /\ Traced(j) /\ TraceOf[i[1]] = TraceOf[j[1]]
Candidates(batch) ==
    LET records == {i \in batch : i[2] # "summary"}
    IN  {first \in SUBSET records :
            \A i \in records :
                /\ i \notin first => \E j \in first : SameTrace(i, j)
                /\ i \in first => \A j \in first : SameTrace(i, j) => i = j}

(* Mutant of Promoted: the store is not asked for the trace's occurrences. *)
PromotedUnasked(first, unseen) == first

(* promoteLogs(): not those whose trace has an occurrence, unless the lookup *)
(* did not see it: it failed, was over its budget, or looked a minute around *)
(* another time.                                                             *)
Promoted(first, unseen) == {i \in first : Traced(i) => TraceOf[i[1]] \notin errorTraces \ unseen}

(* logRollups(): a summary marked as the count of its request adds it, and   *)
(* its failure; a promoted error that was not caught adds itself unless its  *)
(* record is marked so.                                                      *)
LogRequests(batch, r) == IF <<r, "summary">> \in batch /\ facts[r].way = "edge" THEN 1 ELSE 0

ErrorsOf(items, r) == {i \in items : i[1] = r /\ i[2] \notin {"caught", "summary"}}

ErrorsOfRecords(promoted, r) == IF facts[r].way = "edge" THEN 0 ELSE Cardinality(ErrorsOf(promoted, r))

LogErrors(batch, promoted, r) ==
    ErrorsOfRecords(promoted, r) + IF LogRequests(batch, r) = 1 /\ Failed(r) THEN 1 ELSE 0

(* The traces whose occurrences a batch stores.                              *)
TracesStored(spans, promoted) ==
    {TraceOf[i[1]] : i \in {j \in promoted : Traced(j)}
                           \cup UNION (FailureOccurrences(spans) \cup CaughtOccurrences(spans))}

Loses(those) ==
    /\ MapThenSumSet(LAMBDA r : lost[r], WebRequest) < MaxLost
    /\ lost' = [r \in WebRequest |-> IF r \in those THEN lost[r] + 1 ELSE lost[r]]

(* A process exports what has ended (in one batch per signal), and the batch *)
(* reaches the ingester or is lost.                                          *)
Export(p) ==
    LET batch == {i \in waiting : served[i[1]] = p}
        those == {i[1] : i \in batch}
        logs == {i \in batch : Logs(facts[i[1]].way)}
        spans == batch \ logs
    IN
    /\ batch # {}
    /\ waiting' = waiting \ batch
    /\ split' = split \cup {r \in those : ~(ItemsOf(r) \subseteq batch)}
    /\ \/ \E first \in Candidates(logs), unseen \in SUBSET {TraceOf[i[1]] : i \in {j \in logs : Traced(j)}} :
          /\ requestCount' = [r \in WebRequest |-> requestCount[r] + TraceRequests(spans, r) + LogRequests(logs, r)]
          /\ errorCount' = [r \in WebRequest |->
                               errorCount[r] + TraceErrors(spans, r) + LogErrors(logs, Promoted(first, unseen), r)]
          /\ errorTraces' = errorTraces \cup TracesStored(spans, Promoted(first, unseen))
          /\ missed' = missed \cup (unseen \cap errorTraces)
          /\ UNCHANGED lost
       \/ /\ Loses(those)
          /\ UNCHANGED <<requestCount, errorCount, errorTraces, missed>>
    /\ UNCHANGED <<served, facts, over, point>>

(* Mutant of Points: a sender of both instruments is counted twice. *)
PointsOfBoth(r) == 2

(* normalizeMetrics(): of two instruments the stable one counts.             *)
Points(r) == 1

ExportPoint(r) ==
    /\ point[r] = "waiting" /\ point' = [point EXCEPT ![r] = "gone"]
    /\ \/ /\ requestCount' = [requestCount EXCEPT ![r] = @ + Points(r)]
          /\ errorCount' = [errorCount EXCEPT ![r] = @ + IF facts[r].status >= 500 THEN Points(r) ELSE 0]
          /\ UNCHANGED lost
       \/ Loses({r}) /\ UNCHANGED <<requestCount, errorCount>>
    /\ UNCHANGED <<served, facts, over, waiting, errorTraces, missed, split>>

CountsNext ==
    \/ \E i \in Items : Ends(i)
    \/ \E p \in Process : Export(p)
    \/ \E r \in WebRequest : ExportPoint(r)

-----------------------------------------------------------------------------
CountsTypeOK ==
    /\ waiting \subseteq over /\ over \subseteq Items
    /\ \A r \in WebRequest : requestCount[r] \in Nat /\ errorCount[r] \in Nat

(* A batch cannot tell a parent exported elsewhere from a remote caller, and *)
(* a request the histogram saw without a route is counted again from its     *)
(* sampled spans (request-spans.ts:16, runtime-node server.ts:894).          *)
SeenTwice(r) == facts[r].way = "unrouted" \/ (r \in split /\ ~Logs(facts[r].way))

Settled(r) == ItemsOf(r) \subseteq over \ waiting /\ point[r] # "waiting"

(* A request is counted at most once however many feeds see it, and exactly  *)
(* once when none of them lost it, if any of them counts requests at all.    *)
RequestCountedOnce ==
    \A r \in WebRequest : ~SeenTwice(r) =>
        /\ requestCount[r] <= 1
        /\ Settled(r) /\ lost[r] = 0 => requestCount[r] = IF facts[r].way \in {"kept", "logged", "traced"} THEN 0 ELSE 1

(* A failed request adds one error whichever feeds saw it fail, and a        *)
(* request with caught errors only adds none.                                *)
FailureCountedOnce ==
    \A r \in WebRequest : ~SeenTwice(r) =>
        /\ ~Failed(r) => errorCount[r] = 0
        /\ facts[r].way \notin {"logged", "traced"} =>
              /\ errorCount[r] <= 1
              /\ Settled(r) /\ lost[r] = 0 /\ Failed(r) => errorCount[r] = 1

(* Logging-only records: without a trace each error adds itself once.  Of a  *)
(* trace the store was always asked about, one record adds an error at most  *)
(* (log-promotion.ts:19-29), and none is passed over for nothing: where all  *)
(* of a request arrived, its trace has an occurrence.                        *)
LoggedErrorsPromoted ==
    \A r \in WebRequest :
        /\ facts[r].way = "logged" =>
              /\ errorCount[r] <= Cardinality(ErrorsOf(ItemsOf(r), r))
              /\ Settled(r) /\ lost[r] = 0 => errorCount[r] = Cardinality(ErrorsOf(ItemsOf(r), r))
        /\ facts[r].way = "traced" =>
              /\ TraceOf[r] \notin missed =>
                    /\ errorCount[r] <= 1
                    /\ errorCount[r] = 1 =>
                          \A q \in WebRequest \ {r} :
                             facts[q].way = "traced" /\ TraceOf[q] = TraceOf[r] => errorCount[q] = 0
              /\ Settled(r) /\ lost[r] = 0 /\ facts[r].thrown # {} => TraceOf[r] \in errorTraces
=============================================================================
