----------------------------- MODULE HandledErrors -----------------------------
(***************************************************************************)
(* The errors a Node application handles, as runtime-node reports them:     *)
(* logged through console.error or a patched logger (caught-errors.ts),     *)
(* degraded from, captured, or brought to a request boundary (requests.ts). *)
(* An error is reported once by its log line; what the burst limiter leaves *)
(* out is counted, and each count is sent.                                  *)
(***************************************************************************)
EXTENDS BurstLimiter

CONSTANTS
    AppError,       \* error objects
    ErrorKind,      \* type and throw site
    KindOf,         \* of an error
    MaxErrorTime,   \* bound: the clock
    MaxHandled,     \* bound: calls of degraded() and captureException()
    NoTimer

ASSUME HandledAssumption ==
    /\ KindOf \in [AppError -> ErrorKind] /\ LimitKey = {"caught", "deliberate"} \X ErrorKind
    /\ MaxErrorTime \in Nat /\ MaxHandled \in Nat /\ NoTimer \notin Nat

VARIABLES
    errorTime,
    capturing,      \* S.sources: an SDK runs that reports logged errors
    limiter,        \* S.limiter
    decided,        \* S.decided
    captured,       \* captured.ts: reported by some path
    immediates,     \* logged errors whose tick is not over
    tailTimer,      \* S.timer: when sendTails() runs
    handled,        \* how many of the bounded calls were made
    reports,        \* history: per error, the paths that reported it
    leftOut,        \* history: per kind, how many records were left out
    carried,        \* history: per kind, the sum of the counts sent
    heldSince       \* history: since when the counts of a kind wait, with its bucket and without

handledVars == <<errorTime, capturing, limiter, decided, captured, immediates,
                 tailTimer, handled, reports, leftOut, carried, heldSince>>
limitVars == <<limiter, tailTimer, leftOut, carried, heldSince>>

HandledInit ==
    /\ errorTime = 0 /\ capturing = TRUE /\ limiter = NewLimiter
    /\ decided = {} /\ captured = {} /\ immediates = {} /\ tailTimer = NoTimer /\ handled = 0
    /\ reports = [e \in AppError |-> <<>>]
    /\ leftOut = [k \in LimitKey |-> 0] /\ carried = [k \in LimitKey |-> 0]
    /\ heldSince = [bucket |-> [k \in LimitKey |-> NoTimer], evicted |-> [k \in LimitKey |-> NoTimer]]

TimerIsDue == ~(tailTimer = NoTimer \/ tailTimer > errorTime)

(* When the first of what is still held began to wait; a count that leaves    *)
(* its bucket with it waits on.                                              *)
Since(after) ==
    [bucket |-> [k \in LimitKey |->
        IF BucketHolds(after, k) = 0 THEN NoTimer
        ELSE IF heldSince.bucket[k] = NoTimer THEN errorTime ELSE heldSince.bucket[k]],
     evicted |-> [k \in LimitKey |->
        IF after.evicted[k] = 0 THEN NoTimer
        ELSE IF heldSince.evicted[k] = NoTimer THEN heldSince.bucket[k] ELSE heldSince.evicted[k]]]

-----------------------------------------------------------------------------
(* handledErrorKind(): the error's type and throw site. *)
KeyOfKind(prefix, e) == <<prefix, KindOf[e]>>

(* scheduleTail(): a timer that is set stays. *)
TimerFor(timer, after) ==
    IF timer # NoTimer \/ ~Pending(after) THEN timer
    ELSE Max({errorTime, NextDrainAt(after)})

TimerAfter(key, after) == TimerFor(tailTimer, after)

(* limit(): sent with the count of those left out before it, or left out.   *)
Limit(key) ==
    LET after == Taken(limiter, key, errorTime) IN
    /\ limiter' = after /\ heldSince' = Since(after)
    /\ IF Sends(limiter, key, errorTime)
       THEN /\ carried' = [carried EXCEPT ![key] = @ + Carries(limiter, key, errorTime)]
            /\ UNCHANGED <<leftOut, tailTimer>>
       ELSE /\ leftOut' = [leftOut EXCEPT ![key] = @ + 1]
            /\ tailTimer' = TimerAfter(key, after) /\ UNCHANGED carried

Reported(e, how) == reports' = [reports EXCEPT ![e] = Append(@, how)]

(* reportLoggedError(), for what console.error, a patched logger (module      *)
(* LoggerPatches) or runtimeLogger was given: an error that is decided or     *)
(* captured is left alone; the report of another waits for setImmediate.      *)
Logs(e) ==
    /\ capturing /\ e \notin decided /\ e \notin captured /\ ~TimerIsDue
    /\ decided' = decided \cup {e} /\ immediates' = immediates \cup {e}
    /\ UNCHANGED <<errorTime, capturing, captured, handled, reports>> /\ UNCHANGED limitVars

(* Nothing captured it meanwhile, and the SDK still runs. *)
MayReport(e) == capturing /\ e \notin captured

TickOver(e) ==
    LET key == KeyOfKind("caught", e) IN
    /\ e \in immediates /\ immediates' = immediates \ {e}
    /\ IF ~MayReport(e) THEN UNCHANGED <<captured, reports>> /\ UNCHANGED limitVars
       ELSE /\ Limit(key)
            /\ IF Sends(limiter, key, errorTime)
               THEN captured' = captured \cup {e} /\ Reported(e, "log")
               ELSE UNCHANGED <<captured, reports>>
    /\ UNCHANGED <<errorTime, decided, handled, capturing>>

(* reportDegraded(): at once, and again each time it is called. *)
Degrades(e) ==
    LET key == KeyOfKind("deliberate", e) IN
    /\ handled < MaxHandled /\ handled' = handled + 1 /\ ~TimerIsDue
    /\ decided' = decided \cup {e} /\ Limit(key)
    /\ IF Sends(limiter, key, errorTime)
       THEN captured' = captured \cup {e} /\ Reported(e, "degraded")
       ELSE UNCHANGED <<captured, reports>>
    /\ UNCHANGED <<errorTime, immediates, capturing>>

(* captureException(): reported, or turned down by ignoreErrors and sampling; *)
(* captured either way.                                                      *)
Captures(e) ==
    /\ handled < MaxHandled /\ handled' = handled + 1 /\ ~TimerIsDue
    /\ captured' = captured \cup {e}
    /\ (Reported(e, "capture") \/ UNCHANGED reports)
    /\ UNCHANGED <<errorTime, decided, immediates, capturing>> /\ UNCHANGED limitVars

(* Mutant of ReachesBoundary: an error some path has captured is taken again. *)
ReachesBoundaryAgain(e) ==
    /\ handled < MaxHandled /\ handled' = handled + 1 /\ ~TimerIsDue
    /\ captured' = captured \cup {e} /\ Reported(e, "boundary")
    /\ UNCHANGED <<errorTime, decided, immediates, capturing>> /\ UNCHANGED limitVars

(* captureAtBoundary(), captureRequestError(): the rule may turn it down;    *)
(* an error that is captured is skipped.                                     *)
ReachesBoundary(e) ==
    /\ handled < MaxHandled /\ handled' = handled + 1 /\ ~TimerIsDue
    /\ e \notin captured /\ captured' = captured \cup {e} /\ Reported(e, "boundary")
    /\ UNCHANGED <<errorTime, decided, immediates, capturing>> /\ UNCHANGED limitVars

(* sendTails(): each count as a record of its own; what waits on for a token *)
(* sets the timer again.                                                     *)
SendTails(all) ==
    LET tails == Tails(limiter, errorTime, all) IN
    /\ limiter' = Drained(limiter, errorTime, all) /\ heldSince' = Since(limiter')
    /\ carried' = [k \in LimitKey |-> carried[k] + tails[k]]
    /\ tailTimer' = IF all THEN NoTimer ELSE TimerFor(NoTimer, limiter')
    /\ UNCHANGED leftOut
TailTimerFires ==
    /\ TimerIsDue /\ SendTails(FALSE)
    /\ UNCHANGED <<errorTime, decided, captured, immediates, handled, reports, capturing>>

(* stopLoggedErrorCapture(), and a later start of the SDK. *)
StopsCapture ==
    /\ capturing /\ capturing' = FALSE /\ SendTails(TRUE)
    /\ UNCHANGED <<errorTime, decided, captured, immediates, handled, reports>>
StartsCapture ==
    /\ ~capturing /\ capturing' = TRUE
    /\ UNCHANGED <<errorTime, decided, captured, immediates, handled, reports>> /\ UNCHANGED limitVars

ErrorTick ==
    /\ errorTime < MaxErrorTime /\ errorTime' = errorTime + 1
    /\ immediates = {} /\ ~TimerIsDue
    /\ UNCHANGED <<decided, captured, immediates, handled, reports, capturing>> /\ UNCHANGED limitVars

HandledNext ==
    \/ ErrorTick \/ TailTimerFires \/ StopsCapture \/ StartsCapture
    \/ \E e \in AppError :
          Logs(e) \/ TickOver(e) \/ Degrades(e) \/ Captures(e) \/ ReachesBoundary(e)

-----------------------------------------------------------------------------
HandledTypeOK ==
    /\ errorTime \in 0..MaxErrorTime /\ capturing \in BOOLEAN
    /\ limiter \in Limiter /\ Len(limiter.buckets) <= MaxKinds
    /\ IsInjective([i \in DOMAIN limiter.buckets |-> limiter.buckets[i].key])
    /\ decided \subseteq AppError /\ captured \subseteq AppError /\ immediates \subseteq AppError
    /\ tailTimer \in Nat \cup {NoTimer} /\ handled \in 0..MaxHandled
    /\ reports \in [AppError -> Seq({"log", "degraded", "capture", "boundary"})]
    /\ leftOut \in [LimitKey -> Nat] /\ carried \in [LimitKey -> Nat]

(* What the limiter left out of a kind is carried by records of the kind and *)
(* tails, each once, or still held (handled.ts: "What it leaves out is       *)
(* counted, and the count rides on the next record of that kind").           *)
CountsCarriedOnce ==
    \A k \in LimitKey : leftOut[k] = carried[k] + Held(limiter, k)

(* A held count always has a timer that will send it, and waits no longer    *)
(* than one token takes, though the timer may be another kind's and its own   *)
(* kind forgotten and seen again meanwhile.                                  *)
HeldCountsLeave ==
    \A k \in LimitKey :
        /\ Held(limiter, k) > 0 => tailTimer # NoTimer
        /\ \A since \in {heldSince.bucket[k], heldSince.evicted[k]} :
              since # NoTimer => errorTime <= since + RefillTime

(* The log line reports an error only if nothing had by the end of its tick, *)
(* and a boundary only what no path has captured (caught-errors.ts:22-24).   *)
LogAndBoundaryReportFirst ==
    \A e \in AppError : \A i \in DOMAIN reports[e] :
        reports[e][i] \in {"log", "boundary"} => i = 1
=============================================================================
