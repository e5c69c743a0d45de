------------------------------ MODULE BrowserSdk ------------------------------
(***************************************************************************)
(* The browser SDK: the event queue of runtime-browser/src/index.ts with    *)
(* its flush timer and its cap, and the opt-in modules that pass by it: the *)
(* breadcrumbs, whose budget is kept per event and per window, and the      *)
(* filters, which are a beforeSend hook.                                    *)
(*                                                                         *)
(* Time is counted in flush delays.  Timers fire when they are due: the     *)
(* page does nothing else at that instant before them.  An event is what    *)
(* the queue and the properties tell apart; its texts, scrubbed and cut on  *)
(* the way, are left out.  A breadcrumb is one unit of its budgets.         *)
(***************************************************************************)
EXTENDS Integers, Sequences, FiniteSets, SequencesExt

CONSTANTS
    PageError,          \* error objects the page logs, captures and throws
    FlushDelay,         \* FLUSH_INTERVAL_MS
    UrgentDelay,        \* ERROR_FLUSH_DELAY_MS
    MaxQueued,          \* MAX_QUEUE
    MaxPageEvents,      \* MAX_EVENTS_PER_SESSION
    MaxTimings,         \* timings reported per page
    MaxCrumbs,          \* MAX_BREADCRUMBS
    EventCrumbs,        \* EVENT_BUDGET
    WindowCrumbs,       \* WINDOW_BUDGET
    CrumbWindow,        \* WINDOW_MS
    MaxPageTime,        \* bound: the clock
    MaxClears,          \* bound: clearBreadcrumbs()
    Nothing

ASSUME BrowserAssumption ==
    /\ FlushDelay \in Nat \ {0} /\ UrgentDelay \in 1..FlushDelay
    /\ MaxQueued \in Nat \ {0, 1} /\ MaxPageEvents \in Nat \ {0} /\ MaxTimings \in Nat
    /\ MaxCrumbs \in Nat /\ EventCrumbs \in Nat /\ WindowCrumbs \in Nat
    (* FLUSH_INTERVAL_MS and WINDOW_MS are both 5000. *)
    /\ CrumbWindow \in Nat /\ FlushDelay <= CrumbWindow
    /\ MaxPageTime \in Nat \ {0} /\ MaxClears \in Nat
    /\ Nothing \notin Nat

VARIABLES
    pageTime,
    events,         \* queue
    flushAt,        \* when flushTimer fires, or Nothing
    pageSent,       \* sentCount
    timings,        \* timingCount
    sentErrors,     \* sent: the errors already reported
    logTimeouts,    \* errors of console.error calls whose tick is not over
    reports,        \* history: per error, by what it was reported
    crumbs,         \* how many breadcrumbs the trail holds
    crumbsSent,     \* sent of breadcrumbs.ts: attached per instant
    crumbClears          \* history: times the trail was forgotten

browserVars == <<pageTime, events, flushAt, pageSent, timings, sentErrors,
                 logTimeouts, reports, crumbs, crumbsSent, crumbClears>>
queueVars == <<events, flushAt, pageSent, crumbsSent>>

Failures == {"exception", "request_failure", "message", "outcome"}
EventType == [urgent : BOOLEAN, at : Nat, crumbs : Nat]

(* initAutterBrowser() has run; with sessionTracking it queued an event.     *)
BrowserInit ==
    /\ pageTime = 1 /\ pageSent = 0 /\ timings = 0
    /\ \/ events = <<>> /\ flushAt = Nothing
       \/ /\ events = <<[urgent |-> FALSE, at |-> 1, crumbs |-> 0]>>
          /\ flushAt = 1 + FlushDelay
    /\ sentErrors = {} /\ logTimeouts = {}
    /\ reports = [e \in PageError |-> <<>>]
    /\ crumbs = 0 /\ crumbsSent = [t \in 1..MaxPageTime |-> 0] /\ crumbClears = 0

(* The page can act: no timer that is due waits. *)
PageActs == flushAt # pageTime

-----------------------------------------------------------------------------
(* Mutant of AddCrumb: the ring keeps one more. *)
AddCrumbPastRing == IF crumbs > MaxCrumbs THEN crumbs ELSE crumbs + 1

(* record(): the ring keeps the newest MaxCrumbs. *)
AddCrumb == IF crumbs = MaxCrumbs THEN crumbs ELSE crumbs + 1

(* forEvent() forgets what was attached before the window. *)
RecentCrumbs ==
    [t \in DOMAIN crumbsSent |-> IF pageTime - t < CrumbWindow THEN crumbsSent[t] ELSE 0]

(* forEvent(): as many of the newest breadcrumbs as fit the event's budget   *)
(* and what is left of the window's.                                        *)
CrumbsFor(kind, held) ==
    LET room == WindowCrumbs - FoldFunction(+, 0, RecentCrumbs) IN
    IF kind \notin Failures THEN 0 ELSE Max({0, Min({held, EventCrumbs, room})})

(* Mutant of Schedule: a timer that runs is left alone, and so is none. *)
ScheduleUrgentOnly(urgent) ==
    IF flushAt # Nothing \/ ~urgent THEN flushAt ELSE pageTime + UrgentDelay

(* schedule(): a timer that is set stays as it is. *)
Schedule(urgent) ==
    IF flushAt # Nothing THEN flushAt
    ELSE pageTime + (IF urgent THEN UrgentDelay ELSE FlushDelay)

(* flush(): everything queued goes out as one beacon, answered by nobody. *)
FlushEvents(queued) ==
    /\ events' = <<>> /\ flushAt' = Nothing
    /\ pageSent' = pageSent + Len(queued)

(* enqueue(): past the cap nothing happens; else breadcrumbs and trace are  *)
(* attached, beforeSend (the filters are one) may drop the event, and a     *)
(* full queue is flushed.                                                   *)
Enqueue(kind, urgent, held) ==
    LET event == [urgent |-> urgent, at |-> pageTime, crumbs |-> CrumbsFor(kind, held)]
        queued == Append(events, event)
    IN
    \/ /\ pageSent + Len(events) >= MaxPageEvents
       /\ UNCHANGED queueVars
    \/ /\ pageSent + Len(events) < MaxPageEvents
       /\ crumbsSent' = IF kind \notin Failures \/ held = 0 THEN crumbsSent
                        ELSE [RecentCrumbs EXCEPT ![pageTime] = @ + event.crumbs]
       /\ \/ UNCHANGED <<events, flushAt, pageSent>>    \* beforeSend drops it
          \/ /\ Len(queued) < MaxQueued
             /\ events' = queued /\ flushAt' = Schedule(urgent)
             /\ UNCHANGED pageSent
          \/ Len(queued) >= MaxQueued /\ FlushEvents(queued)

-----------------------------------------------------------------------------
PageTick ==
    /\ pageTime < MaxPageTime /\ PageActs /\ logTimeouts = {}
    /\ pageTime' = pageTime + 1
    /\ UNCHANGED <<events, flushAt, pageSent, timings, sentErrors, logTimeouts,
                   reports, crumbs, crumbsSent, crumbClears>>

(* flush() by its timer, by a page that is hidden, or by the application. *)
FlushTimerFires ==
    /\ flushAt = pageTime /\ FlushEvents(events)
    /\ UNCHANGED <<pageTime, timings, sentErrors, logTimeouts, reports, crumbs,
                   crumbsSent, crumbClears>>
PageHides ==
    /\ PageActs /\ events # <<>> /\ FlushEvents(events)
    /\ UNCHANGED <<pageTime, timings, sentErrors, logTimeouts, reports, crumbs,
                   crumbsSent, crumbClears>>

(* A click or submit, an own breadcrumb or console.warn, a new route: a      *)
(* breadcrumb, and what only ends up in an event's texts.                    *)
PageStep ==
    /\ PageActs /\ crumbs' = AddCrumb
    /\ UNCHANGED <<pageTime, timings, sentErrors, logTimeouts, reports, crumbClears>>
    /\ UNCHANGED queueVars

(* captureException() and the error listeners, through fromError(). *)
Report(e, how) ==
    /\ reports' = [reports EXCEPT ![e] = Append(@, how)]
    /\ sentErrors' = sentErrors \cup {e}
    /\ Enqueue("exception", TRUE, crumbs)

(* captureException(), or the error reaches the error or rejection event.   *)
ReportsError(e) ==
    /\ PageActs /\ Len(reports[e]) < 2 /\ Report(e, "event")
    /\ UNCHANGED <<pageTime, timings, logTimeouts, crumbs, crumbClears>>
CapturesError(e) == ReportsError(e)
ErrorEventFires(e) == ReportsError(e)
RejectionEventFires(e) == ReportsError(e)

(* console.error(..., e): a breadcrumb, and a timeout that ends the tick. *)
LogsError(e) ==
    /\ PageActs
    /\ logTimeouts' = logTimeouts \cup {e} /\ crumbs' = AddCrumb
    /\ UNCHANGED <<pageTime, timings, sentErrors, reports, crumbClears>>
    /\ UNCHANGED queueVars
LogTimeoutFires(e) ==
    /\ e \in logTimeouts /\ logTimeouts' = logTimeouts \ {e}
    /\ IF e \in sentErrors THEN UNCHANGED <<sentErrors, reports>> /\ UNCHANGED queueVars
       ELSE Report(e, "log")
    /\ UNCHANGED <<pageTime, timings, crumbs, crumbClears>>

(* What becomes an event without an error object: messages, outcomes, CSP   *)
(* violations, usage.                                                       *)
Reports(kind, urgent) ==
    /\ PageActs /\ Enqueue(kind, urgent, crumbs)
    /\ UNCHANGED <<pageTime, timings, sentErrors, logTimeouts, reports, crumbs, crumbClears>>
ReportsMessage == \E urgent \in BOOLEAN : Reports("message", urgent)
ReportsOutcome == Reports("outcome", TRUE)
ReportsViolation == Reports("csp_violation", TRUE)
ReportsUsage == Reports("track_event", FALSE)
ReportsTiming ==
    /\ PageActs /\ timings < MaxTimings /\ timings' = timings + 1
    /\ Enqueue("timing", FALSE, crumbs)
    /\ UNCHANGED <<pageTime, sentErrors, logTimeouts, reports, crumbs, crumbClears>>

(* A request of the page fails or is answered 5xx: the observers of fetch   *)
(* and XMLHttpRequest leave a breadcrumb (as for any other, a PageStep) and  *)
(* report it.                                                               *)
FetchFails ==
    /\ PageActs /\ crumbs' = AddCrumb
    /\ Enqueue("request_failure", TRUE, AddCrumb)
    /\ UNCHANGED <<pageTime, timings, sentErrors, logTimeouts, reports, crumbClears>>

XhrFails == FetchFails

(* clearBreadcrumbs(): the trail is forgotten, and with it what the window   *)
(* already holds.                                                            *)
ClearsCrumbs ==
    /\ PageActs /\ crumbClears < MaxClears /\ crumbClears' = crumbClears + 1
    /\ crumbs' = 0 /\ crumbsSent' = [t \in DOMAIN crumbsSent |-> 0]
    /\ UNCHANGED <<pageTime, timings, sentErrors, logTimeouts, reports>>
    /\ UNCHANGED <<events, flushAt, pageSent>>

BrowserNext ==
    \/ PageTick \/ FlushTimerFires \/ PageHides \/ PageStep
    \/ \E e \in PageError : 
         \/ CapturesError(e) \/ ErrorEventFires(e) \/ RejectionEventFires(e)
         \/ LogsError(e) \/ LogTimeoutFires(e)
    \/ ReportsMessage \/ ReportsOutcome \/ ReportsViolation \/ ReportsUsage
    \/ ReportsTiming \/ FetchFails \/ XhrFails \/ ClearsCrumbs

-----------------------------------------------------------------------------
BrowserTypeOK ==
    /\ pageTime \in 1..MaxPageTime
    /\ events \in Seq(EventType) /\ Len(events) < MaxQueued
    /\ flushAt \in Nat \cup {Nothing}
    /\ pageSent \in Nat /\ pageSent + Len(events) <= MaxPageEvents
    /\ timings \in 0..MaxTimings
    /\ sentErrors \subseteq PageError /\ logTimeouts \subseteq PageError
    /\ reports \in [PageError -> Seq({"event", "log"})]
    /\ crumbs \in 0..MaxCrumbs /\ crumbClears \in 0..MaxClears
    /\ crumbsSent \in [1..MaxPageTime -> Nat]

(* Nothing stays queued longer than the flush interval, whichever timer was *)
(* running when it came (index.ts schedule(), README "Batching & delivery").*)
EventsLeaveInTime ==
    \A i \in DOMAIN events : pageTime - events[i].at <= FlushDelay

(* The breadcrumbs of one batch fit the budget of a window, because a batch  *)
(* is never queued longer than the window is (breadcrumbs.ts:58-61): two    *)
(* constants of two modules that must agree.  clearBreadcrumbs() starts the  *)
(* budget anew, so each one may add a window to the batch.                   *)
BatchCrumbsBounded ==
    FoldSeq(LAMBDA event, sum : event.crumbs + sum, 0, events) <= WindowCrumbs * (crumbClears + 1)

(* What waits leaves soon enough, and small enough for a beacon to take.     *)
BatchesFitBeacons == EventsLeaveInTime /\ BatchCrumbsBounded

(* An error that was logged is reported by its log line only if nothing had *)
(* reported it by the end of the tick (index.ts:69-73).                     *)
LogReportsFirstOnly ==
    \A e \in PageError : \A i \in DOMAIN reports[e] : 
        reports[e][i] = "log" => i = 1

(* README.md:307: errors trigger a fast flush.  Refuted: schedule() leaves   *)
(* the slower timer of an earlier usage event running.                      *)
ErrorsFlushFast ==
    \A i \in DOMAIN events : events[i].urgent => pageTime - events[i].at <= UrgentDelay
=============================================================================
