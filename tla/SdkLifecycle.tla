---------------------------- MODULE SdkLifecycle ----------------------------
(***************************************************************************)
(* Starting and stopping @autter/runtime-node.  A process may load several *)
(* copies of the package; the copies of one layout keep "the started SDK"  *)
(* in one object on globalThis (shared.ts), the others keep it to          *)
(* themselves.  initAutterServer() and initAutterLogging() start a handle, *)
(* unless one runs; shutdown() awaits the sinks of the logger, and between *)
(* its steps other copies capture, start and stop.                         *)
(***************************************************************************)
EXTENDS Naturals, FiniteSets

CONSTANTS
  Copy,        \* copies of the package that the process may load
  Layouts,     \* [Copy -> the layout version the copy knows], the choices
  Option,      \* sets of listeners an application may ask an init for
  MaxHandles,  \* inits that start something
  MaxHeld,     \* records one sink or span processor holds
  MaxShutdowns \* shutdown() calls on one handle

Listener == {"crash", "rejections", "memory", "autoFlush"}
Handle == 1..MaxHandles
None == 0
NotLoaded == "not loaded"

ASSUME LifecycleAssumption ==
  /\ NotLoaded \notin Copy /\ Option \subseteq SUBSET Listener
  /\ MaxHandles \in Nat /\ MaxHeld \in Nat /\ MaxShutdowns \in Nat

VARIABLES
  layout,  \* the layout version of the shared object each copy knows
  host,    \* the copy that created the object on globalThis, if any
  home,    \* [Copy -> the copy whose object it uses], for the copies loaded
  slots,   \* [Copy -> what its object says is started]
  targets, \* [Copy -> the flush targets of its module]
  handles, \* [Handle -> the handle]
  calls    \* the shutdown() calls under way

lifecycleVars == <<layout, host, home, slots, targets, handles, calls>>

Empty == [server |-> None, loggerOnly |-> None, logging |-> None,
          sinks |-> None, sources |-> FALSE]
Targets == [server |-> None, logging |-> None]
Unused == [kind |-> "none", copy |-> NotLoaded, listeners |-> {},
           sink |-> "none", logs |-> 0, spans |-> 0, shutdowns |-> 0]

LifecycleInit ==
  /\ layout \in Layouts
  /\ host = NotLoaded
  /\ home = [c \in Copy |-> NotLoaded]
  /\ slots = [c \in Copy |-> Empty]
  /\ targets = [c \in Copy |-> Targets]
  /\ handles = [h \in Handle |-> Unused]
  /\ calls = {}

Loaded(c) == home[c] # NotLoaded
Slot(c) == slots[home[c]]
StartedHandles == {h \in Handle : handles[h].kind # "none"}
HomeOf(h) == home[handles[h].copy]

ResolveUnshared(c) == c

\* The object on globalThis is the first copy's; a later copy shares it when
\* it knows its layout, and leaves it alone otherwise.
ResolveShared(c) ==
  IF host = NotLoaded \/ layout[host] # layout[c] THEN c ELSE host

Load(c) ==
  /\ ~Loaded(c)
  /\ home' = [home EXCEPT ![c] = ResolveShared(c)]
  /\ host' = IF host = NotLoaded THEN c ELSE host
  /\ UNCHANGED <<slots, targets, handles, calls>>

-----------------------------------------------------------------------------
(* init *)

NewHandle(kind, c, o) ==
  [kind |-> kind, copy |-> c, listeners |-> o, sink |-> "open",
   logs |-> 0, spans |-> 0, shutdowns |-> 0]

\* The logger writes to the sinks of the last handle configured; those of
\* the one before are dropped as they are.  Logged errors are captured.
ConfiguredBy(slot, h) == [slot EXCEPT !.sinks = h, !.sources = TRUE]

NextHandle(h) == h \notin StartedHandles /\ \A g \in Handle : g < h => g \in StartedHandles

MayStartBeside(c) ==
  ~(Slot(c).server # None /\ handles[Slot(c).server].shutdowns = 0)

MayStart(c) == Slot(c).server = None

\* initAutterServer() while a server runs returns that server: no step.
InitServer(c, h, o) ==
  /\ Loaded(c) /\ NextHandle(h)
  /\ MayStart(c)
  /\ slots' = [slots EXCEPT ![home[c]] = [ConfiguredBy(@, h) EXCEPT !.server = h]]
  /\ targets' = [targets EXCEPT ![c].server = h]
  /\ handles' = [handles EXCEPT ![h] = NewHandle("server", c, o)]
  /\ UNCHANGED <<host, home, calls>>

\* initAutterLogging() is ignored while a server runs in any copy.
InitLogging(c, h, o) ==
  /\ Loaded(c) /\ NextHandle(h)
  /\ Slot(c).logging = None
  /\ MayStart(c)
  /\ slots' = [slots EXCEPT ![home[c]] =
                 [ConfiguredBy(@, h) EXCEPT !.logging = h, !.loggerOnly = h]]
  /\ targets' = [targets EXCEPT ![c].logging = h]
  /\ handles' = [handles EXCEPT
                   ![h] = NewHandle("logging", c, o \ {"memory"})]
  /\ UNCHANGED <<host, home, calls>>

-----------------------------------------------------------------------------
(* What the application sends meanwhile *)

\* The handle that captureException() of a copy reports through; None is a
\* span on the global tracer.
Reporter(c) ==
  IF Slot(c).server # None THEN Slot(c).server ELSE Slot(c).loggerOnly

\* The sinks that take a record logged in a copy; without any it goes to
\* the console, and a sink that is shut down drops it.
WritesTo(c) == {h \in {Slot(c).sinks} \ {None} : handles[h].sink = "open"}

Room(h, part) == handles[h][part] < MaxHeld

Log(c) ==
  /\ Loaded(c)
  /\ \E h \in WritesTo(c) :
       /\ Room(h, "logs")
       /\ handles' = [handles EXCEPT ![h].logs = @ + 1]
  /\ UNCHANGED <<host, home, slots, targets, calls>>

\* A server records an error on a span of its own.  Logger-only mode puts it
\* on the application's span, which is not the SDK's, or writes a record.
CaptureIn(c) ==
  /\ Loaded(c)
  /\ LET r == Reporter(c)
         on == IF r = None THEN {} ELSE
               IF handles[r].kind = "server" THEN {<<r, "spans">>}
               ELSE {<<h, "logs">> : h \in WritesTo(c)}
     IN \E s \in on :
          /\ Room(s[1], s[2])
          /\ handles' = [handles EXCEPT ![s[1]][s[2]] = @ + 1]
  /\ UNCHANGED <<host, home, slots, targets, calls>>

\* The listeners of one handle flush every target of its copy: each target
\* flushes the shared sinks, and the server's also its own spans.
AutoFlush(h) ==
  /\ "autoFlush" \in handles[h].listeners
  /\ LET c == handles[h].copy
         server == targets[c].server
         any == {server, targets[c].logging} \ {None}
         sinks == IF any = {} THEN {} ELSE {Slot(c).sinks} \ {None}
     IN /\ any # {}
        /\ handles' = [g \in Handle |->
             [handles[g] EXCEPT !.logs = IF g \in sinks THEN 0 ELSE @,
                                !.spans = IF g = server THEN 0 ELSE @]]
  /\ UNCHANGED <<host, home, slots, targets, calls>>

-----------------------------------------------------------------------------
(* shutdown *)

CallUnawaited(h) == [of |-> h, n |-> handles[h].shutdowns,
                     sinks |-> Slot(handles[h].copy).sinks, at |-> "wipe"]

\* The first steps of shutdownRuntimeLogger() and what they leave to do: it
\* closes the sinks it found, whoever configured them.
Call(h) == [of |-> h, n |-> handles[h].shutdowns,
            sinks |-> Slot(handles[h].copy).sinks, at |-> "sinks"]

\* Each handle stops the capture of logged errors only while it is active.
StopsSources(h, key) == slots[HomeOf(h)][key] = h

ClearsAny(h, key) == TRUE

\* A handle clears what says it is active, never another's.
Clears(h, key) == slots[HomeOf(h)][key] = h

ShutdownServer(h) ==
  /\ handles[h].kind = "server" /\ handles[h].shutdowns < MaxShutdowns
  /\ slots' = IF StopsSources(h, "server")
              THEN [slots EXCEPT ![HomeOf(h)].sources = FALSE] ELSE slots
  /\ handles' = [handles EXCEPT ![h].shutdowns = @ + 1]
  /\ calls' = calls \cup {Call(h)}
  /\ UNCHANGED <<host, home, targets>>

\* Logger-only mode takes everything down before it waits for the sinks.
ShutdownLogging(h) ==
  /\ handles[h].kind = "logging" /\ handles[h].shutdowns < MaxShutdowns
  /\ slots' = [slots EXCEPT
       ![HomeOf(h)].sources = @ /\ ~StopsSources(h, "logging"),
       ![HomeOf(h)].loggerOnly = None,
       ![HomeOf(h)].logging = IF Clears(h, "logging") THEN None ELSE @]
  /\ targets' = [targets EXCEPT ![handles[h].copy] = Targets]
  /\ handles' = [handles EXCEPT ![h].shutdowns = @ + 1, ![h].listeners = {}]
  /\ calls' = calls \cup {Call(h)}
  /\ UNCHANGED <<host, home>>

Goes(d, at) == calls' = (calls \ {d}) \cup {[d EXCEPT !.at = at]}

\* The sinks are flushed and take no more.
CloseSinks(d) ==
  /\ d.at = "sinks"
  /\ handles' = IF d.sinks = None THEN handles
                ELSE [handles EXCEPT ![d.sinks].sink = "closed",
                                     ![d.sinks].logs = 0]
  /\ Goes(d, "wipe")
  /\ UNCHANGED <<host, home, slots, targets>>

\* The end of shutdownRuntimeLogger(): no configuration and no sinks.
WipeLogger(d) ==
  /\ d.at = "wipe"
  /\ slots' = [slots EXCEPT ![HomeOf(d.of)].sinks = None]
  /\ IF handles[d.of].kind = "server" THEN Goes(d, "finish")
     ELSE calls' = calls \ {d}
  /\ UNCHANGED <<host, home, targets, handles>>

\* The rest of a server's shutdown(), up to the wait for its providers.
FinishServer(d) ==
  /\ d.at = "finish"
  /\ slots' = IF Clears(d.of, "server")
              THEN [slots EXCEPT ![HomeOf(d.of)].server = None] ELSE slots
  /\ targets' = [targets EXCEPT ![handles[d.of].copy] = Targets]
  /\ handles' = [handles EXCEPT ![d.of].listeners = {}]
  /\ Goes(d, "providers")
  /\ UNCHANGED <<host, home>>

\* The always-on provider flushes the spans it holds.
CloseProviders(d) ==
  /\ d.at = "providers"
  /\ handles' = [handles EXCEPT ![d.of].spans = 0]
  /\ calls' = calls \ {d}
  /\ UNCHANGED <<host, home, slots, targets>>

LifecycleSteps ==
  \/ \E c \in Copy : Load(c)
  \/ \E c \in Copy, h \in Handle, o \in Option : InitServer(c, h, o)
  \/ \E c \in Copy, h \in Handle, o \in Option : InitLogging(c, h, o)
  \/ \E c \in Copy : Log(c)
  \/ \E c \in Copy : CaptureIn(c)
  \/ \E h \in Handle : AutoFlush(h)
  \/ \E h \in Handle : ShutdownServer(h)
  \/ \E h \in Handle : ShutdownLogging(h)
  \/ \E d \in calls : CloseSinks(d)
  \/ \E d \in calls : WipeLogger(d)
  \/ \E d \in calls : FinishServer(d)
  \/ \E d \in calls : CloseProviders(d)

LifecycleNext == LifecycleSteps /\ UNCHANGED layout

-----------------------------------------------------------------------------
(* Properties *)

MaybeHandle == Handle \cup {None}

LifecycleTypeOK ==
  /\ layout \in Layouts /\ host \in Copy \cup {NotLoaded}
  /\ home \in [Copy -> Copy \cup {NotLoaded}]
  /\ slots \in [Copy -> [server : MaybeHandle, loggerOnly : MaybeHandle,
                         logging : MaybeHandle, sinks : MaybeHandle,
                         sources : BOOLEAN]]
  /\ targets \in [Copy -> [server : MaybeHandle, logging : MaybeHandle]]
  /\ handles \in [Handle ->
       [kind : {"none", "server", "logging"}, copy : Copy \cup {NotLoaded},
        listeners : SUBSET Listener, sink : {"none", "open", "closed"},
        logs : 0..MaxHeld, spans : 0..MaxHeld, shutdowns : 0..MaxShutdowns]]
  /\ calls \subseteq [of : Handle, n : 0..MaxShutdowns, sinks : MaybeHandle,
                      at : {"sinks", "wipe", "finish", "providers"}]

Running(h) == handles[h].kind # "none" /\ handles[h].shutdowns = 0
Ended(h) == handles[h].shutdowns > 0 /\ \A d \in calls : d.of # h

\* The copies that should report through a handle: those loaded that know
\* the layout of the object it is in.
SharedWith(h) ==
  LET own == handles[h].copy
      known == {c \in Copy : layout[own] = layout[host] /\ layout[c] = layout[own]}
  IN {c \in known \cup {own} : Loaded(c)}

\* The application shuts each handle down once and, as the documentation
\* asks, does not use both modes.
Orderly ==
  /\ \A h \in Handle : handles[h].shutdowns <= 1
  /\ Cardinality({handles[h].kind : h \in StartedHandles}) <= 1

\* Every copy that shares the object of a running server reports through it,
\* whichever copies start and stop, however often an old handle is shut down;
\* of an orderly application so does every copy of a running logger, and a
\* crash has one reporter.
ReachesStarted ==
  /\ \A h \in Handle : Running(h) /\ handles[h].kind = "server" =>
       \A c \in SharedWith(h) : Reporter(c) = h
  /\ Orderly => \A h \in Handle :
       /\ Running(h) => \A c \in SharedWith(h) : Reporter(c) = h
       /\ "crash" \in handles[h].listeners =>
            \A g \in Handle \ {h} :
              ~(/\ "crash" \in handles[g].listeners
                /\ HomeOf(g) = HomeOf(h))

\* A server of an orderly application that has not been shut down keeps its
\* sinks and its flush target, whatever the shutdown of the one before it
\* still has to do: an exit without shutdown() flushes what it captured.
RunningIsWired ==
  Orderly => \A h \in Handle :
    Running(h) /\ handles[h].kind = "server" =>
      /\ slots[HomeOf(h)].sinks = h /\ slots[HomeOf(h)].sources
      /\ handles[h].sink = "open"
      /\ targets[handles[h].copy].server = h

\* A handle whose shutdown() is over has no listener, slot or flush target
\* left; a server of an orderly application has sent what it was given.
ShutdownLeavesNothing ==
  \A h \in Handle : Ended(h) =>
    /\ handles[h].listeners = {}
    /\ \A c \in Copy : h \notin {slots[c].server, slots[c].logging,
                                 slots[c].loggerOnly, slots[c].sinks,
                                 targets[c].server, targets[c].logging}
    /\ Orderly /\ handles[h].kind = "server" =>
         handles[h].logs = 0 /\ handles[h].spans = 0

\* The same of logger-only mode, which ends its shutdown() by wiping a
\* logger started meanwhile.
LoggingIsWired ==
  Orderly => \A h \in Handle :
    Running(h) /\ handles[h].kind = "logging" => slots[HomeOf(h)].sinks = h
=============================================================================
