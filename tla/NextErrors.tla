------------------------------ MODULE NextErrors -------------------------------
(***************************************************************************)
(* Errors of a Next.js app (runtime-next on runtime-node and runtime-edge).   *)
(* An error a route handler throws passes the wrapper of the route and then,   *)
(* if that rethrows it, Next, which answers its own signals (redirect(),      *)
(* notFound()) and calls onRequestError for what it takes for an error.  The   *)
(* same error object may be thrown by several requests at once (a cached       *)
(* promise).  Next waits for what is handed to after() or waitUntil only.     *)
(***************************************************************************)
EXTENDS Naturals, Sequences

CONSTANTS
    NextError,      \* error objects that code of the app throws
    ControlFlow,    \* those with a digest of Next's signals
    ServerFault,    \* those of status 500 and above; the others carry a 4xx
    Route,          \* requests
    Wrapper,        \* route -> "none", "request" (withRuntimeRequest) or "autter"
    CaptureRule,    \* route -> its `capture': "unset", "off" or "own" (a predicate)
    OwnRule,        \* errors for which the predicate says true
    HookRule,       \* `capture' of autterOnRequestError: "unset", "all" or "off"
    EdgeRoute,      \* routes Next runs on the edge runtime
    PageError,      \* errors React shows an error page for
    Outlives,       \* edge routes with a waitUntil, or whose hook Next awaits
    NoError

ASSUME NextAssumption ==
    /\ ControlFlow \cup PageError \subseteq NextError /\ NoError \notin NextError
    /\ Wrapper \in [Route -> {"none", "request", "autter"}] /\ CaptureRule \in [Route -> {"unset", "off", "own"}]
    /\ HookRule \in {"unset", "all", "off"}

VARIABLES
    routes,         \* the request: st, error, outcome of its summary
    capturedNode,   \* CAPTURED of captured.ts, by object
    capturedEdge,   \* the same of the edge runtime
    reportedBy,     \* history: who reported an error object, in order
    afterFn,        \* after() of next/server: "loading", "here" or "absent"
    flushes,        \* route -> "none", "waiting" for the import, "handed" or "own"
    deliveries,     \* edge route -> "none", "posting", "posted" or "cut"
    pages           \* reported of error-page.ts

nextVars == <<routes, capturedNode, capturedEdge, reportedBy, afterFn, flushes, deliveries, pages>>

NextErrorsInit ==
    /\ routes = [r \in Route |-> [st |-> "running", error |-> NoError, outcome |-> "none"]]
    /\ capturedNode = {} /\ capturedEdge = {} /\ pages = {}
    /\ reportedBy = [e \in NextError |-> <<>>]
    /\ afterFn = "loading" /\ flushes = [r \in Route |-> "none"]
    /\ deliveries = [r \in EdgeRoute |-> "none"]

-----------------------------------------------------------------------------
(* decide(), and shouldReport() of the hook. *)
Decided(rule, e, fallback) ==
    CASE rule = "unset" -> fallback [] rule = "off" -> FALSE [] rule = "all" -> TRUE [] OTHER -> e \in OwnRule

Wanted(r, e) ==
    /\ Decided(CaptureRule[r], e, TRUE)
    /\ Wrapper[r] = "autter" => e \notin ControlFlow

(* errorResponse: withAutter answers what is no signal of Next. *)
AnswersIt(r, e) == Wrapper[r] = "autter" /\ e \notin ControlFlow

(* Mutant of AtBoundary: every boundary reports. *)
AtBoundaryAlways(e) ==
    /\ capturedNode' = capturedNode \cup {e}
    /\ reportedBy' = [reportedBy EXCEPT ![e] = Append(@, "boundary")]

(* captureAtBoundary() of what is wanted: an error object once. *)
AtBoundary(e) ==
    IF e \in capturedNode THEN UNCHANGED <<capturedNode, reportedBy>>
    ELSE /\ capturedNode' = capturedNode \cup {e}
         /\ reportedBy' = [reportedBy EXCEPT ![e] = Append(@, "boundary")]

(* requestOutcome(): withAutter set it for a signal of Next; else the error    *)
(* that was noted as thrown, or the status, which is 500 if one was rethrown.  *)
SummaryOutcome(r, e, noted, failing) ==
    IF Wrapper[r] = "autter" /\ e \in ControlFlow THEN "succeeded"
    ELSE IF noted \/ failing THEN "failed" ELSE "succeeded"

(* scheduleAfter(): at once, or when the import has settled. *)
FlushOf(r) ==
    IF Wrapper[r] = "none" THEN "none"
    ELSE CASE afterFn = "loading" -> "waiting" [] afterFn = "here" -> "handed" [] OTHER -> "own"

RouteReturns(r) ==
    /\ routes[r].st = "running"
    /\ routes' = [routes EXCEPT ![r].st = "ended",
                                ![r].outcome = IF Wrapper[r] = "none" THEN @ ELSE "succeeded"]
    /\ flushes' = [flushes EXCEPT ![r] = FlushOf(r)]
    /\ UNCHANGED <<capturedNode, capturedEdge, reportedBy, afterFn, deliveries, pages>>

(* captureServerException() in the handler. *)
AppCaptures(r, e) ==
    /\ routes[r].st = "running" /\ r \notin EdgeRoute
    /\ "app" \notin {reportedBy[e][i] : i \in DOMAIN reportedBy[e]}
    /\ capturedNode' = capturedNode \cup {e}
    /\ reportedBy' = [reportedBy EXCEPT ![e] = Append(@, "app")]
    /\ UNCHANGED <<routes, capturedEdge, afterFn, flushes, deliveries, pages>>

(* The handler throws: the wrapper reports, answers or rethrows, ends the     *)
(* summary and hands the flush on.                                          *)
RouteThrows(r, e) ==
    /\ routes[r].st = "running"
    /\ LET noted == Wrapper[r] # "none" /\ Wanted(r, e)
           failing == ~AnswersIt(r, e) \/ e \in ServerFault
       IN  /\ IF noted THEN AtBoundary(e) ELSE UNCHANGED <<capturedNode, reportedBy>>
           /\ routes' = [routes EXCEPT ![r] = [st |-> IF AnswersIt(r, e) THEN "ended" ELSE "thrown", error |-> e,
                 outcome |-> IF Wrapper[r] = "none" THEN "none" ELSE SummaryOutcome(r, e, noted, failing)]]
    /\ flushes' = [flushes EXCEPT ![r] = FlushOf(r)]
    /\ UNCHANGED <<capturedEdge, afterFn, deliveries, pages>>

(* Next answers its signals itself, mostly. *)
NextAnswers(r) ==
    /\ routes[r].st = "thrown" /\ routes[r].error \in ControlFlow
    /\ routes' = [routes EXCEPT ![r].st = "ended"]
    /\ UNCHANGED <<capturedNode, capturedEdge, reportedBy, afterFn, flushes, deliveries, pages>>

(* onRequestError(): what shouldReport() lets pass waits for the import of    *)
(* runtime-node; on the edge it is posted, once by error object.              *)
HookCalled(r) ==
    LET e == routes[r].error
        wanted == Decided(HookRule, e, e \notin ControlFlow)
        posts == wanted /\ r \in EdgeRoute /\ e \notin capturedEdge
    IN  /\ routes[r].st = "thrown"
        /\ routes' = [routes EXCEPT ![r].st = IF wanted /\ r \notin EdgeRoute THEN "importing" ELSE "ended"]
        /\ capturedEdge' = IF posts THEN capturedEdge \cup {e} ELSE capturedEdge
        /\ deliveries' = IF posts THEN [deliveries EXCEPT ![r] = "posting"] ELSE deliveries
        /\ UNCHANGED <<capturedNode, reportedBy, afterFn, flushes, pages>>

(* captureRequestError(): of an error captured before, attributes only. *)
HookReports(r) ==
    /\ routes[r].st = "importing" /\ AtBoundary(routes[r].error)
    /\ routes' = [routes EXCEPT ![r].st = "ended"]
    /\ UNCHANGED <<capturedEdge, afterFn, flushes, deliveries, pages>>

AfterImported(found) ==
    /\ afterFn = "loading" /\ afterFn' = IF found THEN "here" ELSE "absent"
    /\ flushes' = [r \in Route |-> IF flushes[r] # "waiting" THEN flushes[r]
                                   ELSE IF found THEN "handed" ELSE "own"]
    /\ UNCHANGED <<routes, capturedNode, capturedEdge, reportedBy, deliveries, pages>>

EdgePosted(r) ==
    /\ r \in EdgeRoute /\ deliveries[r] = "posting"
    /\ deliveries' = [deliveries EXCEPT ![r] = "posted"]
    /\ UNCHANGED <<routes, capturedNode, capturedEdge, reportedBy, afterFn, flushes, pages>>

(* The platform stops the function once nothing it waits for is left. *)
EdgeStops(r) ==
    /\ r \in EdgeRoute /\ deliveries[r] = "posting" /\ r \notin Outlives
    /\ deliveries' = [deliveries EXCEPT ![r] = "cut"]
    /\ UNCHANGED <<routes, capturedNode, capturedEdge, reportedBy, afterFn, flushes, pages>>

(* The error page of the browser renders, and renders again: one report.      *)
PageRenders(e) ==
    /\ pages' = pages \cup {e}
    /\ reportedBy' = IF e \in pages THEN reportedBy ELSE [reportedBy EXCEPT ![e] = Append(@, "page")]
    /\ UNCHANGED <<routes, capturedNode, capturedEdge, afterFn, flushes, deliveries>>

NextErrorsNext ==
    \/ \E r \in Route : RouteReturns(r) \/ NextAnswers(r) \/ HookCalled(r) \/ HookReports(r)
    \/ \E r \in Route, e \in NextError : AppCaptures(r, e) \/ RouteThrows(r, e)
    \/ \E found \in BOOLEAN : AfterImported(found)
    \/ \E r \in Route : EdgePosted(r) \/ EdgeStops(r)
    \/ \E e \in PageError : PageRenders(e)

-----------------------------------------------------------------------------
Reporters(e) == {reportedBy[e][i] : i \in DOMAIN reportedBy[e]}

NextErrorsTypeOK ==
    /\ \A r \in Route : /\ routes[r].st \in {"running", "thrown", "importing", "ended"}
                        /\ routes[r].outcome \in {"none", "succeeded", "failed"}
    /\ capturedNode \cup capturedEdge \cup pages \subseteq NextError
    /\ \A e \in NextError : Reporters(e) \subseteq {"app", "boundary", "page"}

ReportingRoute(r) == r \notin EdgeRoute /\ IF Wrapper[r] = "none" THEN HookRule # "off" ELSE CaptureRule[r] = "unset"

(* An error object that several requests throw, that the app reports itself,      *)
(* that a wrapper rethrows and Next brings to the hook: the boundaries report  *)
(* it once, and not after the app did.  No boundary that is left to its        *)
(* defaults reports a signal of Next, or leaves another error out; and a       *)
(* redirect() out of withAutter is no failure of the request.                *)
NextErrorsOnce ==
    /\ \A e \in NextError, i \in 1 .. 4 :
          i \in DOMAIN reportedBy[e] /\ reportedBy[e][i] = "boundary" =>
              \A j \in 1 .. (i - 1) : reportedBy[e][j] = "page"
    /\ \A r \in Route : LET e == routes[r].error IN routes[r].st = "ended" /\ e # NoError /\ e \notin ControlFlow =>
          (ReportingRoute(r) => Reporters(e) \cap {"app", "boundary"} # {})
    /\ \A e \in ControlFlow : "boundary" \in Reporters(e) =>
          \/ HookRule = "all"
          \/ \E r \in Route : routes[r].error = e /\ Wrapper[r] = "request" /\ Decided(CaptureRule[r], e, TRUE)
    /\ \A r \in Route : Wrapper[r] = "autter" /\ routes[r].error \in ControlFlow => routes[r].outcome = "succeeded"

(* What Next can wait for it is given: the flush of every request once after() *)
(* is known, of the requests that ended before it was too.                     *)
FlushesHanded ==
    afterFn = "here" => \A r \in Route :
        routes[r].st # "running" /\ Wrapper[r] # "none" => flushes[r] = "handed"

(* runtime-node/src/requests.ts:86: an error that `capture' turns down "is      *)
(* rethrown untouched and does not fail the summary".                         *)
TurnedDownDoesNotFail ==
    \A r \in Route : LET e == routes[r].error IN
        e # NoError /\ Wrapper[r] = "request" /\ ~Wanted(r, e) => routes[r].outcome # "failed"
=============================================================================
