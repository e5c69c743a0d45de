------------------------------- MODULE Rejections -------------------------------
(***************************************************************************)
(* Unhandled rejections, as runtime-node/src/unhandled-rejections.ts records *)
(* them: the mere presence of a listener would stop Node's crash, so an SDK *)
(* listener that is alone does what Node would have done.  Two copies of    *)
(* the package may be loaded, and the application may listen too, before or *)
(* after them, and throw.                                                   *)
(***************************************************************************)
EXTENDS Integers, Sequences, FiniteSets, SequencesExt

CONSTANTS
    SdkCopy,        \* copies of the package that listen
    App             \* the application's own listener

ASSUME RejectionAssumption == App \notin SdkCopy /\ SdkCopy # {} /\ IsFiniteSet(SdkCopy)

VARIABLES
    mode,           \* unhandledRejectionsMode()
    appThrows,      \* the application's listener rethrows the reason
    listeners,      \* of unhandledRejection, in the order they were added
    rejection,      \* the promise: where its rejection stands
    turn,           \* the listener that runs next
    promiseHandled, \* handledPromises()
    objectReason,   \* the reason is an object, not a string or the like
    rethrown,       \* an SDK listener rethrows on the next tick
    recorded,       \* per copy: recorded, until the event loop's next turn
    crashed,        \* an uncaught exception was raised
    exitCode,       \* process.exitCode
    occurrences     \* history: what each copy captured

rejectionVars == <<mode, appThrows, objectReason, listeners, rejection, turn, promiseHandled, rethrown,
                   recorded, crashed, exitCode, occurrences>>

Modes == {"throw", "strict", "warn", "warn-with-error-code", "none"}
Listens == {l \in SUBSET (SdkCopy \cup {App}) : l \cap SdkCopy # {}}

(* In strict mode no copy listens.                                         *)
RejectionInit ==
    /\ mode \in Modes /\ appThrows \in BOOLEAN /\ objectReason \in BOOLEAN
    /\ \E who \in Listens :
          listeners \in SetToSeqs(IF mode = "strict" THEN who \ SdkCopy ELSE who)
    /\ rejection = "pending" /\ turn = 1 /\ promiseHandled = FALSE /\ rethrown = FALSE
    /\ recorded = [c \in SdkCopy |-> FALSE] /\ crashed = FALSE /\ exitCode = 0
    /\ occurrences = [c \in SdkCopy |-> <<>>]

Captured(c, how) == [occurrences EXCEPT ![c] = Append(@, how)]

(* The monitor of each running copy, for an uncaught exception: what was     *)
(* just recorded as a rejection is skipped.                                 *)
MonitorsSee ==
    [c \in SdkCopy |-> IF recorded[c] THEN occurrences[c] ELSE Append(occurrences[c], "crash")]
Crashes == crashed' = TRUE /\ rejection' = "settled" /\ occurrences' = MonitorsSee

-----------------------------------------------------------------------------
(* Node: strict mode raises first; without any listener the mode decides;   *)
(* else the listeners run.                                                  *)
Emits ==
    /\ rejection = "pending"
    /\ \/ mode = "strict" /\ Crashes /\ UNCHANGED exitCode
       \/ mode # "strict" /\ rejection' = "emitted" /\ UNCHANGED <<crashed, exitCode, occurrences>>
    /\ UNCHANGED <<mode, appThrows, objectReason, listeners, turn, promiseHandled, rethrown, recorded>>

(* Mutant of Alone: any second listener is taken for the application's. *)
AloneCopy == Len(listeners) = 1
(* Every listener bears the mark of a copy of this package. *)
Alone == App \notin ToSet(listeners)

(* markRecorded(): remembers objects only. *)
MarkRecorded(c) == [recorded EXCEPT ![c] = objectReason]

(* The listener of a copy: the first one to see the promise decides. *)
CopyListens(c) ==
    /\ rejection = "emitted" /\ turn <= Len(listeners) /\ listeners[turn] = c /\ c # App
    /\ turn' = turn + 1 /\ promiseHandled' = TRUE
    /\ \/ promiseHandled /\ UNCHANGED <<rethrown, recorded, exitCode, occurrences>>
       \/ /\ ~promiseHandled /\ Alone /\ mode = "throw"
          /\ rethrown' = TRUE /\ UNCHANGED <<recorded, exitCode, occurrences>>
       \/ /\ ~promiseHandled /\ ~(Alone /\ mode = "throw")
          /\ exitCode' = IF Alone /\ mode = "warn-with-error-code" THEN 1 ELSE exitCode
          /\ recorded' = MarkRecorded(c)
          /\ occurrences' = Captured(c, "rejection") /\ UNCHANGED rethrown
    /\ UNCHANGED <<mode, appThrows, objectReason, listeners, rejection, crashed>>

(* The application's listener; its throw ends the emission. *)
AppListens ==
    /\ rejection = "emitted" /\ turn <= Len(listeners) /\ listeners[turn] = App
    /\ \/ appThrows /\ Crashes /\ UNCHANGED turn
       \/ ~appThrows /\ turn' = turn + 1 /\ UNCHANGED <<crashed, rejection, occurrences>>
    /\ UNCHANGED <<mode, appThrows, objectReason, listeners, promiseHandled, rethrown, recorded, exitCode>>

(* The next tick throws what a copy rethrows; the next turn forgets.        *)
NextTick ==
    /\ rejection = "emitted" /\ turn > Len(listeners)
    /\ \/ rethrown /\ Crashes
       \/ ~rethrown /\ rejection' = "settled" /\ UNCHANGED <<crashed, occurrences>>
    /\ UNCHANGED <<mode, appThrows, objectReason, listeners, turn, promiseHandled, rethrown, recorded, exitCode>>
NextTurn ==
    /\ rejection = "settled" /\ recorded # [c \in SdkCopy |-> FALSE]
    /\ recorded' = [c \in SdkCopy |-> FALSE]
    /\ UNCHANGED <<mode, appThrows, objectReason, listeners, rejection, turn, promiseHandled, rethrown, crashed,
                   exitCode, occurrences>>

RejectionNext == Emits \/ (\E c \in SdkCopy : CopyListens(c)) \/ AppListens \/ NextTick \/ NextTurn

-----------------------------------------------------------------------------
RejectionTypeOK ==
    /\ mode \in Modes /\ appThrows \in BOOLEAN /\ objectReason \in BOOLEAN /\ listeners \in Seq(SdkCopy \cup {App})
    /\ rejection \in {"pending", "emitted", "settled"} /\ turn \in 1..(Len(listeners) + 1)
    /\ promiseHandled \in BOOLEAN /\ rethrown \in BOOLEAN /\ recorded \in [SdkCopy -> BOOLEAN]
    /\ crashed \in BOOLEAN /\ exitCode \in {0, 1}
    /\ occurrences \in [SdkCopy -> Seq({"rejection", "crash"})]

(* The process ends as it would without the SDK (the table at the head of   *)
(* unhandled-rejections.ts), with the application's own listener or none.   *)
AppListening == App \in ToSet(listeners)
CrashesAsNode ==
    rejection = "settled" =>
      /\ crashed <=> \/ mode = "strict"
                     \/ mode = "throw" /\ ~AppListening
                     \/ AppListening /\ appThrows
      /\ exitCode = 1 <=> mode = "warn-with-error-code" /\ ~AppListening

(* One rejection is one occurrence for a copy, as rejection or as crash, if   *)
(* its reason is an object (unhandled-rejections.ts:66-68), and the copies    *)
(* together record no rejection twice.                                        *)
OneOccurrence ==
    /\ objectReason => \A c \in SdkCopy : Len(occurrences[c]) <= 1
    /\ Cardinality({c \in SdkCopy : occurrences[c] = <<"rejection">>}) <= 1
    /\ rejection = "settled" => \E c \in SdkCopy : occurrences[c] # <<>>
=============================================================================
