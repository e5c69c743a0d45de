------------------------------ MODULE MCClients ------------------------------
(* Small instances of the parts that run beside or before the application's  *)
(* server, and of the source maps between a build and the ingester: browser  *)
(* SDK, browser relay, edge SDK, the ingester's source map cache and the     *)
(* names it reads from maps, a build's source maps, and their setup.  They   *)
(* share no state, so a behaviour runs one of them (`part') and leaves the   *)
(* others as they start.                                                     *)
EXTENDS BrowserSdk, BrowserRelay, EdgeRuntime, SourceMapCache, FrameNames,
    SourceMapBuild, SourceMapSetup

CONSTANTS k1, k2, s1, s2, n1, n2, b1, b2

VARIABLE part   \* the component this behaviour runs

(* Uploads weigh differently: the third does not fit beside another one. *)
MCMapBytes == <<1, 1, 3>>
MCSourceBytes == <<1, 1, 1>>

(* Mappings: columns that go back, with an origin and with a name or without. *)
MCGroups == {<<c>> : c \in -1 .. 2} \cup {<<c, 1>> : c \in -1 .. 2} \cup {<<c, 1, 1>> : c \in {0, 1}}
MCNames == <<n1>>

(* A function named by the map, by what it is assigned to, mangled, by its   *)
(* source, and without any name.                                             *)
Token(w, mangled, mapped) ==
    [written |-> w, mangled |-> mangled, literal |-> FALSE, mapped |-> mapped, source |-> NoName]
MCDescribed ==
    {[own |-> <<Token("a", TRUE, n1)>>, recovered |-> NoName, context |-> <<>>],
     [own |-> <<Token("a", TRUE, NoName)>>, recovered |-> NoName, context |-> <<Token(n2, FALSE, NoName)>>],
     [own |-> <<Token("a", TRUE, NoName)>>, recovered |-> NoName, context |-> <<>>],
     [own |-> <<>>, recovered |-> n2, context |-> <<>>],
     [own |-> <<>>, recovered |-> NoName, context |-> <<>>]}

BuildJob(plugin, own, delete, effort, key) ==
    [plugin |-> plugin, own |-> own, delete |-> delete, effort |-> effort, key |-> key]
MCJob == {BuildJob(TRUE, TRUE, TRUE, FALSE, TRUE), BuildJob(TRUE, TRUE, TRUE, FALSE, FALSE),
          BuildJob(TRUE, FALSE, FALSE, FALSE, TRUE), BuildJob(TRUE, FALSE, TRUE, FALSE, TRUE),
          BuildJob(FALSE, FALSE, TRUE, FALSE, TRUE), BuildJob(FALSE, FALSE, TRUE, TRUE, TRUE),
          BuildJob(FALSE, FALSE, FALSE, FALSE, FALSE)}

MCProject == [dep |-> "none", installed |-> "none", build |-> FALSE, steps |-> 0, named |-> FALSE, read |-> "value",
              config |-> "none", plugins |-> 0, maps |-> "default", release |-> FALSE]

Rests(name, vars) == part # name => UNCHANGED vars

(* A part that does not run stays in a state its own behaviours start in.    *)
Of(name, property) == part = name => property

(* Bundles are interchangeable: one order of two shapes is enough.           *)
Bit(yes, weight) == IF yes THEN weight ELSE 0
MCRank(s) == Bit(s.prologue, 8) + Bit(s.native, 4) + Bit(s.valid, 2) + Bit(s.mapped, 1)

ClientsInit ==
    /\ part \in {"browser", "relay", "edge", "cache", "frames", "build", "setup"}
    (* Where a part that does not run has a choice of initial states. *)
    /\ part = "browser" \/ events = <<>>
    /\ part = "relay" \/ (trust = "auto" /\ handler = "node")
    /\ \/ part = "build"
       \/ /\ shape = [b \in Bundle |-> CHOOSE s \in Shapes : s.mapped]
          /\ job = CHOOSE j \in Job : TRUE
          /\ stored = [b \in Bundle |-> NoRow]
    /\ part = "setup" \/ (tool = "unknown" /\ project = MCProject)
    /\ SmbInit /\ MCRank(shape[b1]) <= MCRank(shape[b2])
    /\ BrowserInit /\ RelayInit /\ EdgeInit /\ SmcInit /\ FrameInit /\ SetupInit

ClientsNext ==
    /\ UNCHANGED part
    /\ Rests("browser", browserVars) /\ Rests("relay", relayVars) /\ Rests("edge", edgeVars)
    /\ Rests("cache", smcVars) /\ Rests("frames", frameVars) /\ Rests("build", smbVars)
    /\ Rests("setup", setupVars)
    /\ \/ part = "browser" /\ BrowserNext
       \/ part = "relay" /\ RelayNext
       \/ part = "edge" /\ EdgeNext
       \/ part = "cache" /\ SmcNext
       \/ part = "frames" /\ FrameNext
       \/ part = "build" /\ SmbNext
       \/ part = "setup" /\ SetupNext

clientsVars == <<part, browserVars, relayVars, edgeVars, smcVars, frameVars, smbVars, setupVars>>

ClientsSpec == ClientsInit /\ [][ClientsNext]_clientsVars

(* The types of the components, with the bounds of their queues, rings and   *)
(* windows.                                                                  *)
ClientsTypeOK ==
    /\ Of("browser", BrowserTypeOK) /\ Of("relay", RelayTypeOK)
    /\ Of("edge", EdgeTypeOK) /\ Of("cache", SmcTypeOK) /\ Of("frames", FrameTypeOK)
    /\ Of("build", SmbTypeOK) /\ Of("setup", SetupTypeOK)

(* A page's events leave it soon after they were queued, their breadcrumbs   *)
(* fit the budget of a beacon, and an error that was logged before it was    *)
(* thrown is reported once (runtime-browser index.ts, breadcrumbs.ts).       *)
PageEventsLeave ==
    Of("browser", EventsLeaveInTime /\ BatchCrumbsBounded /\ LogReportsFirstOnly)

(* The relay forwards what its limit lets a visitor send, whatever address   *)
(* headers he makes up, and answers every call once (relay.ts).              *)
RelayLimits == Of("relay", VisitorLimited /\ AnsweredOnce)

(* On the edge a record is queued, in one batch, delivered or counted as     *)
(* dropped, and an error is reported by its log or by its catch.             *)
EdgeReportsOnce == Of("edge", EdgeRecordsKept /\ EdgeLogReportsFirstOnly)

(* What a frame is resolved by: the cache stays in its budgets, loads a map  *)
(* once for all who wait, and serves contents of that very upload; a         *)
(* position reads the same by either lookup, and a function has the name its *)
(* build gave it (symbolicate.ts, source-map-mappings.ts, scopes.ts).        *)
FramesResolved ==
    /\ Of("cache", CacheBudgets /\ OneLoadPerMap /\ ContentsOfOwnUpload)
    /\ Of("frames", LookupsAgree /\ FramesNamedAsUploaded)

(* A build, killed or repeated as it may be, stores maps that fit the        *)
(* bundles it leaves, deletes only maps that are stored, and says `verified' *)
(* only if a frame would resolve (inject.ts, upload.ts, verify.ts).          *)
BuildKeepsMaps ==
    Of("build", StoredMapsMatch /\ DeletedOnceStored /\ NoneOfItsOwnLeft /\ VerifiedResolves)

(* Setup can be run again after any unfinished run, and when it says that    *)
(* everything is applied the next build uploads its maps, as far as setup    *)
(* can read the project (setup.ts; AppliedMeansWired names what it cannot).  *)
SetupWires == Of("setup", SafeToRerun /\ AppliedMeansWired)
=============================================================================
