------------------------------ MODULE NodeExit ------------------------------
(***************************************************************************)
(* The exit of a process that logs through the Node SDK in logging-only     *)
(* mode (initAutterLogging): installAutterAutoFlush() of lifecycle.ts       *)
(* flushes the log sink when the loop drains, on a signal and on a crash,   *)
(* for at most `timeoutMs', and then lets the process exit.                 *)
(*                                                                         *)
(* In this mode the flush target is the log sink, and nothing counts        *)
(* pendingCaptures: only the first beforeExit flushes.  The application     *)
(* writes, drains, may listen to the signals itself, may call shutdown().   *)
(***************************************************************************)
EXTENDS LogSink

CONSTANTS Signal, None

(* Signals are not named like the other reasons to exit. *)
ASSUME ExitConstants ==
    /\ None \notin Signal \cup {"no", "drained", "app", "killed", "second", "crash"}
    /\ Signal \cap {"no", "drained", "app", "killed", "second", "crash"} = {}

VARIABLES
    exited,     \* "no", or why the process has exited
    appHandles, \* does the application listen to the signals?
    idle,       \* nothing of the application keeps the loop alive
    signals,    \* signalCounts
    crash,      \* an uncaught exception: "no", "thrown" (captured by the
                \* monitor, its handlers to run), "handled"
    inFlight,   \* is a doFlush() under way?
    exitWith,   \* the exit its first waiter will make, or None
    reported,   \* what the last doFlush() told: "none", "ok", "failed"
    beforeExitFlushes,
    disposed,
    owed        \* history: records waiting when an exit was asked of the flush

exitVars == <<exited, appHandles, idle, signals, crash, inFlight, exitWith,
              reported, beforeExitFlushes, disposed, owed>>
vars == <<sinkVars, exitVars>>

Init ==
    /\ SinkInit
    /\ exited = "no" /\ appHandles \in BOOLEAN /\ idle = FALSE
    /\ signals = [s \in Signal |-> 0] /\ crash = "no"
    /\ inFlight = FALSE /\ exitWith = None /\ reported = "none"
    /\ beforeExitFlushes = 0 /\ disposed = FALSE /\ owed = {}

(* An event can occur: the process runs, no synchronous run is under way,   *)
(* and something keeps the loop alive (sockets do, the sink's timer is      *)
(* unref'ed).                                                               *)
Running == exited = "no" /\ crash # "thrown"
LoopAlive == ~idle \/ flushing \/ inFlight
Event == Running /\ LoopAlive

Waiting == ToSet(batch \o queue)

-----------------------------------------------------------------------------
(* Mutant of Settle: only a flush that succeeds exits. *)
SettleIfOk(result, reason) ==
    /\ inFlight' = FALSE /\ reported' = result
    /\ exited' = IF reason = None \/ result # "ok" THEN exited ELSE reason
    /\ exitWith' = reason

(* What a doFlush() that ends tells, and the exit that waits for it. *)
Settle(result, reason) ==
    /\ inFlight' = FALSE /\ reported' = result
    /\ exited' = IF reason = None THEN exited ELSE reason
    /\ exitWith' = reason

(* flush(): joins the doFlush() under way or begins one, which flushes the  *)
(* sink; `reason' is the exit asked for.  With nothing to flush it is over  *)
(* at once.                                                                 *)
FirstOf(reason) == IF exitWith = None THEN reason ELSE exitWith
AutoFlush(reason) ==
    \/ /\ inFlight
       /\ exitWith' = FirstOf(reason)
       /\ UNCHANGED <<inFlight, reported, exited>> /\ UNCHANGED sinkVars
    \/ /\ ~inFlight /\ (flushing \/ CanFlush)
       /\ Flush
       /\ inFlight' = TRUE /\ exitWith' = reason
       /\ UNCHANGED <<reported, exited>>
    \/ /\ ~inFlight /\ ~flushing /\ ~CanFlush
       /\ Settle("ok", reason)
       /\ UNCHANGED sinkVars

(* The sink's flush is over, and with it the doFlush() that awaits it. *)
SinkFlushed(result) ==
    /\ \/ inFlight /\ Settle(result, exitWith)
       \/ ~inFlight /\ UNCHANGED <<inFlight, reported, exited, exitWith>>
    /\ UNCHANGED <<appHandles, idle, signals, crash, beforeExitFlushes, disposed, owed>>

-----------------------------------------------------------------------------
(* The application. *)
AppWrites(size) == Event /\ Write(size) /\ UNCHANGED exitVars

AppIdles ==
    /\ Event /\ ~idle /\ idle' = TRUE
    /\ UNCHANGED <<exited, appHandles, signals, crash, inFlight, exitWith, reported,
                   beforeExitFlushes, disposed, owed>>
    /\ UNCHANGED sinkVars

(* shutdown() of the handle: dispose(), then the shutdown of the sink. *)
AppShutsDown ==
    /\ Event /\ Shutdown /\ disposed' = TRUE
    /\ UNCHANGED <<exited, appHandles, idle, signals, crash, inFlight, exitWith,
                   reported, beforeExitFlushes, owed>>

(* The application's own signal handler exits. *)
AppExits ==
    /\ Event /\ appHandles /\ \E s \in Signal : signals[s] > 0
    /\ exited' = "app"
    /\ UNCHANGED <<appHandles, idle, signals, crash, inFlight, exitWith, reported,
                   beforeExitFlushes, disposed, owed>>
    /\ UNCHANGED sinkVars

-----------------------------------------------------------------------------
(* Is a flush worth it at this beforeExit?  The first one only, as nothing  *)
(* counts as pending later.                                                 *)
FirstDrain == ~disposed /\ beforeExitFlushes = 0

(* The loop is empty: beforeExit is emitted; the process exits unless its   *)
(* listener gave the loop work.                                             *)
LoopDrains ==
    /\ Running /\ ~LoopAlive
    /\ \/ /\ FirstDrain
          /\ beforeExitFlushes' = beforeExitFlushes + 1 /\ owed' = owed \cup Waiting
          /\ AutoFlush(None)
       \/ /\ ~FirstDrain
          /\ exited' = "drained"
          /\ UNCHANGED <<beforeExitFlushes, owed, inFlight, exitWith, reported>>
          /\ UNCHANGED sinkVars
    /\ UNCHANGED <<appHandles, idle, signals, crash, disposed>>

(* onSignal(): the second one of its kind exits at once; if the application *)
(* listens as well, the flush goes on alongside; otherwise it comes first.  *)
(* With the listener disposed of, Node's default applies.                   *)
SignalArrives(s) ==
    /\ Event /\ signals[s] < 2
    /\ signals' = [signals EXCEPT ![s] = @ + 1]
    /\ \/ /\ disposed
          /\ exited' = IF appHandles THEN exited ELSE "killed"
          /\ UNCHANGED <<owed, inFlight, exitWith, reported>> /\ UNCHANGED sinkVars
       \/ /\ ~disposed /\ signals[s] = 1
          /\ exited' = "second"
          /\ UNCHANGED <<owed, inFlight, exitWith, reported>> /\ UNCHANGED sinkVars
       \/ /\ ~disposed /\ signals[s] = 0 /\ appHandles
          /\ AutoFlush(None)
          /\ UNCHANGED owed
       \/ /\ ~disposed /\ signals[s] = 0 /\ ~appHandles
          /\ AutoFlush(s)
          /\ owed' = owed \cup Waiting
    /\ UNCHANGED <<appHandles, idle, crash, beforeExitFlushes, disposed>>

(* An exception nobody catches: the monitor captures it as a record, ...    *)
CrashCaptured(size) ==
    /\ Event /\ crash = "no" /\ ~disposed /\ Write(size)
    /\ crash' = "thrown"
    /\ UNCHANGED <<exited, appHandles, idle, signals, inFlight, exitWith, reported,
                   beforeExitFlushes, disposed, owed>>

(* ... and onUncaughtException() flushes before the exit.  (After dispose()  *)
(* neither listens: Node's default applies.)                                *)
CrashHandled ==
    /\ exited = "no" /\ crash = "thrown"
    /\ crash' = "handled" /\ owed' = owed \cup Waiting
    /\ AutoFlush("crash")
    /\ UNCHANGED <<appHandles, idle, signals, beforeExitFlushes, disposed>>

-----------------------------------------------------------------------------
(* The sink's own events, and the timeout of doFlush(). *)
SinkTimerFires == Event /\ TimerFires /\ UNCHANGED exitVars
SinkPostSettles ==
    /\ Event
    /\ \/ (BatchSucceeds \/ PostRetried) /\ UNCHANGED exitVars
       \/ FlushSucceeds /\ SinkFlushed("ok")
       \/ FlushFails /\ SinkFlushed("failed")

FlushTimesOut ==
    /\ Event /\ inFlight /\ Settle("failed", exitWith)
    /\ UNCHANGED <<appHandles, idle, signals, crash, beforeExitFlushes, disposed, owed>>
    /\ UNCHANGED sinkVars

Next ==
    \/ \E n \in Size : AppWrites(n) \/ CrashCaptured(n)
    \/ AppIdles \/ AppShutsDown \/ AppExits
    \/ LoopDrains \/ CrashHandled \/ FlushTimesOut
    \/ \E s \in Signal : SignalArrives(s)
    \/ SinkTimerFires \/ SinkPostSettles

(* Node runs: an empty loop ends, handlers run, timeouts fire.  Each POST   *)
(* settles (AbortSignal.timeout); the ingester may refuse every one.        *)
Spec ==
    /\ Init /\ [][Next]_vars
    /\ WF_vars(LoopDrains) /\ WF_vars(CrashHandled)
    /\ WF_vars(FlushTimesOut) /\ WF_vars(SinkPostSettles)

-----------------------------------------------------------------------------
TypeOK ==
    /\ SinkTypeOK
    /\ exited \in {"no", "drained", "app", "killed", "second", "crash"} \cup Signal
    /\ {appHandles, idle, inFlight, disposed} \subseteq BOOLEAN
    /\ signals \in [Signal -> 0..2] /\ crash \in {"no", "thrown", "handled"}
    /\ exitWith \in Signal \cup {"crash", None}
    /\ reported \in {"none", "ok", "failed"} /\ beforeExitFlushes \in 0..1
    /\ owed \subseteq Record

(* A process that ends by itself loses nothing unseen: what waited when its *)
(* loop drained was delivered or counted, or the flush was reported as      *)
(* failed, although timers and other flushes run meanwhile.                 *)
DrainLosesNothing ==
    exited = "drained" /\ reported # "failed" /\ ~disposed => owed \subseteq delivered \cup dropped

(* After shutdown() every record ever written is delivered or counted, also *)
(* those written while it waited for a flush that had begun before.         *)
ShutdownAccounts == closing = "done" => 1..written \subseteq delivered \cup dropped

(* A record written is queued in its order, in a batch under way, delivered, *)
(* or counted as dropped, and so it is when the process drains or shuts down *)
(* (sinks.ts, lifecycle.ts).                                                 *)
RecordsKept ==
    /\ TypeOK /\ RecordsAccounted /\ OrderKept /\ SnapshotExact /\ WaitingHasTimer
    /\ DrainLosesNothing /\ ShutdownAccounts

(* Once an exit waits for a flush, or nothing keeps the loop alive, the     *)
(* process exits, whatever the ingester does: no flush holds it for ever.   *)
ExitsInTheEnd == (exitWith # None \/ idle) ~> exited # "no"

(* lifecycle.ts:7-9, runtime-node/README.md:397-402: the flush on a signal   *)
(* or a crash pushes out what was buffered then, unless it reports a failure. *)
ExitFlushCovers ==
    exited \in Signal \cup {"crash"} /\ reported = "ok" => owed \subseteq delivered \cup dropped
=============================================================================
