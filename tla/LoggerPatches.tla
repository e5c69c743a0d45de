----------------------------- MODULE LoggerPatches -----------------------------
(***************************************************************************)
(* How the errors an application logs come to the Node SDK                  *)
(* (runtime-node/src/caught-errors.ts): console.error is replaced, and the  *)
(* loggers' prototypes are patched, wherever and whenever they are loaded.  *)
(* Patches stay; stopping the SDK only switches the sources off.            *)
(***************************************************************************)
EXTENDS Naturals, FiniteSets, FiniteSetsExt

CONSTANTS
    Logger,         \* which of pino, winston and bunyan the application uses
    CacheScans,     \* how often the module cache is scanned after a first start
    MaxStarts       \* bound: starts of the SDK

ASSUME PatchAssumption == CacheScans \in Nat /\ MaxStarts \in Nat /\ "off" \notin Logger

VARIABLES
    sources,        \* S.sources: what an SDK that runs reports, or Off
    prototypes,     \* per logger: not loaded, loaded, its prototype patched
    consolePatched,
    hooked,         \* S.hooked: the require hook is set
    scansLeft,      \* scans of the module cache to come
    starts,         \* how many of the bounded starts were made
    imported,       \* history: loaded as an ES module under the hook, no scan since
    unseen          \* history: what error lines of a source that is on went by

patchVars == <<sources, prototypes, consolePatched, hooked, scansLeft, starts, imported, unseen>>

(* captureLoggedErrors: each source is on or off (loggedErrorSources()).     *)
Source == Logger \cup {"console", "runtimeLogger"}
Off == {"off"}
Patched == [s \in Logger |-> IF prototypes[s] = "loaded" THEN "patched" ELSE prototypes[s]]

PatchesInit ==
    /\ sources = Off /\ prototypes \in [Logger -> {"absent", "loaded"}]
    /\ consolePatched = FALSE /\ hooked = FALSE /\ scansLeft = 0 /\ starts = 0
    /\ imported = {} /\ unseen = {}

-----------------------------------------------------------------------------

(* scanModuleCache(): every copy of a logger in the module cache is patched. *)
Scanned == Patched

(* startLoggedErrorCapture(): the hook and its scans are set up once.        *)
Starts ==
    /\ starts < MaxStarts /\ starts' = starts + 1
    /\ \E on \in SUBSET Source :
          /\ sources' = on
          /\ consolePatched' = (consolePatched \/ "console" \in on)
          /\ \/ on \cap Logger = {} /\ UNCHANGED <<prototypes, hooked, scansLeft, imported>>
             \/ /\ on \cap Logger # {}
                /\ prototypes' = Scanned /\ imported' = {} /\ hooked' = TRUE
                /\ scansLeft' = IF hooked THEN scansLeft ELSE CacheScans
    /\ UNCHANGED unseen
Stops ==
    /\ sources # Off /\ sources' = Off
    /\ UNCHANGED <<prototypes, consolePatched, hooked, scansLeft, starts, imported, unseen>>

(* A timer of hookLaterLoads().                                              *)
ScanFires ==
    /\ scansLeft > 0 /\ scansLeft' = scansLeft - 1
    /\ prototypes' = Patched /\ imported' = {}
    /\ UNCHANGED <<sources, consolePatched, hooked, starts, unseen>>

(* A require() passes the hook, an import of an ES module does not.          *)
LoadedAs(s, required) == IF required /\ hooked THEN "patched" ELSE "loaded"
Loads(s) ==
    /\ prototypes[s] = "absent"
    /\ \E required \in BOOLEAN :
          /\ prototypes' = [prototypes EXCEPT ![s] = LoadedAs(s, required)]
          /\ imported' = IF hooked /\ ~required THEN imported \cup {s} ELSE imported
    /\ UNCHANGED <<sources, consolePatched, hooked, scansLeft, starts, unseen>>

(* The SDK sees an error line: console.error through its replacement,        *)
(* runtimeLogger.error by itself, the write of pino, the log() and           *)
(* _addDefaultMeta() of winston, the error() and fatal() of bunyan through   *)
(* their patched prototypes, if the source is on.                            *)
Sees(s) ==
    /\ s \in sources
    /\ \/ s = "console" /\ consolePatched
       \/ s = "runtimeLogger"
       \/ s \in Logger /\ prototypes[s] = "patched"
LogsError(s) ==
    /\ s \in Source /\ (s \in Logger => prototypes[s] # "absent")
    /\ unseen' = IF s \in sources /\ ~Sees(s) THEN unseen \cup {<<s, s \in imported>>} ELSE unseen
    /\ UNCHANGED <<sources, prototypes, consolePatched, hooked, scansLeft, starts, imported>>

PatchesNext ==
    \/ Starts \/ Stops \/ ScanFires
    \/ \E s \in Logger : Loads(s)
    \/ \E s \in Source : LogsError(s)

-----------------------------------------------------------------------------
PatchesTypeOK ==
    /\ sources \in (SUBSET Source) \cup {Off} /\ prototypes \in [Logger -> {"absent", "loaded", "patched"}]
    /\ consolePatched \in BOOLEAN /\ hooked \in BOOLEAN /\ scansLeft \in 0..CacheScans
    /\ starts \in 0..MaxStarts /\ imported \subseteq Logger /\ unseen \subseteq Source \X BOOLEAN

(* No error line of a source that is on goes by unseen, in whatever order     *)
(* the SDK starts, stops and starts with other sources and the loggers are    *)
(* loaded, but for an ES module imported after the start and before the next  *)
(* scan (caught-errors.ts:39-43).                                             *)
LoggedErrorsAreSeen == unseen \subseteq Logger \X {TRUE}
=============================================================================
