------------------------------ MODULE MCNodeSdk ------------------------------
(* Small instances of the parts of the SDKs on a server: errors handled in   *)
(* catch blocks, logger patches, unhandled rejections, trace retention,      *)
(* operations, LLM calls, the check of the ingester's features, the errors   *)
(* of a Next.js app, start and stop, and the Python adapter.  They share no  *)
(* state, so a behaviour runs one of them (`part') and leaves the others as  *)
(* they start.                                                               *)
EXTENDS HandledErrors, LoggerPatches, Rejections, TraceRetention, OperationLogger,
    CompatCheck, LlmCalls, NextErrors, SdkLifecycle, PythonTracing, TLC

CONSTANTS e1, e2, e3, k1, k2, s1, s2, s3, t1, t2, expected, falsy,
    fa, fb, ra, x1, x2, r1, r2, r3, r4, p1, p2, p3, h1, h2, m1, m2, c1, c2

VARIABLE part   \* the component this behaviour runs

(* Two errors of one kind and one of another; two spans of one trace and one of another. *)
MCKindOf == [e \in AppError |-> IF e = e3 THEN k2 ELSE k1]
MCLimitKey == {"caught", "deliberate"} \X ErrorKind
MCTraceOf == [s \in SdkSpan |-> IF s = s3 THEN t2 ELSE t1]

(* A feature with a route and one without.  *)
MCFeatureRoute == fa :> ra @@ fb :> NoRoute
MCFeatureNeeds == fa :> 2 @@ fb :> 1

MCUsage == {NoUsage, [in |-> 1, out |-> 0], [in |-> 0, out |-> 2]}

(* A route without wrapper, with each wrapper, and one on the edge. *)
MCWrapper == r1 :> "none" @@ r2 :> "request" @@ r3 :> "autter" @@ r4 :> "none"
MCCaptureRule == [r \in Route |-> IF r = r3 THEN "own" ELSE "unset"]

(* Two copies of the package, of one layout or of two. *)
MCLayouts == {m1 :> 1 @@ m2 :> 1, m1 :> 1 @@ m2 :> 2}
MCOption == {Listener}

MCPyTrace == [s \in PySpan |-> IF s = p3 THEN t2 ELSE t1]

Rests(name, vars) == part # name => UNCHANGED vars

(* A part that does not run stays in a state its own behaviours start in.    *)
Of(name, property) == part = name => property

SdkInit ==
    /\ part \in {"handled", "patches", "rejection", "retention", "operation",
                 "compat", "llm", "next", "lifecycle", "python"}
    (* Where a part that does not run has a choice of initial states. *)
    /\ part = "patches" \/ prototypes = [s \in Logger |-> "absent"]
    /\ part = "compat" \/ (ingester = [version |-> 2, schema |-> "pending"] /\ oldRoutes = {})
    /\ part = "lifecycle" \/ layout = m1 :> 1 @@ m2 :> 1
    /\ part = "python" \/ (counting = TRUE /\ sampled = {})
    /\ \/ part = "rejection"
       \/ mode = "throw" /\ appThrows = FALSE /\ objectReason = TRUE /\ listeners = <<c1>>
    /\ HandledInit /\ PatchesInit /\ RejectionInit /\ RetentionInit /\ OperationInit
    /\ CompatInit /\ LlmInit /\ NextErrorsInit /\ LifecycleInit /\ PyInit

SdkNext ==
    /\ UNCHANGED part
    /\ Rests("handled", handledVars) /\ Rests("patches", patchVars)
    /\ Rests("rejection", rejectionVars) /\ Rests("retention", retentionVars)
    /\ Rests("operation", operationVars) /\ Rests("compat", compatVars)
    /\ Rests("llm", llmVars) /\ Rests("next", nextVars)
    /\ Rests("lifecycle", lifecycleVars) /\ Rests("python", pyVars)
    /\ \/ part = "handled" /\ HandledNext
       \/ part = "patches" /\ PatchesNext
       \/ part = "rejection" /\ RejectionNext
       \/ part = "retention" /\ RetentionNext
       \/ part = "operation" /\ OperationNext
       \/ part = "compat" /\ CompatNext
       \/ part = "llm" /\ LlmNext
       \/ part = "next" /\ NextErrorsNext
       \/ part = "lifecycle" /\ LifecycleNext
       \/ part = "python" /\ PyNext

sdkVars == <<part, handledVars, patchVars, rejectionVars, retentionVars, operationVars,
             compatVars, llmVars, nextVars, lifecycleVars, pyVars>>

SdkSpec == SdkInit /\ [][SdkNext]_sdkVars

(* Two errors of one kind are interchangeable. *)
ErrorSymmetry == Permutations({e1, e2})

(* The types of the components, with the bounds of the limiter's kinds and   *)
(* of the retention buffers.                                                 *)
SdkTypeOK ==
    /\ Of("handled", HandledTypeOK) /\ Of("patches", PatchesTypeOK)
    /\ Of("rejection", RejectionTypeOK) /\ Of("retention", RetentionTypeOK)
    /\ Of("operation", OperationTypeOK) /\ Of("compat", CompatTypeOK) /\ Of("llm", LlmTypeOK)
    /\ Of("next", NextErrorsTypeOK) /\ Of("lifecycle", LifecycleTypeOK) /\ Of("python", PyTypeOK)

(* Errors handled in catch blocks: those the burst limit leaves out are      *)
(* counted once, by a later record of their key or when its bucket is full   *)
(* again (caught-errors.ts, handled.ts).                                     *)
HandledCounted == Of("handled", CountsCarriedOnce /\ HeldCountsLeave)

(* An error that is logged and then thrown is reported by the log or by the  *)
(* boundary, whichever is first; a logger has its patch whenever it loads.   *)
LoggedErrorsReported ==
    Of("handled", LogAndBoundaryReportFirst) /\ Of("patches", LoggedErrorsAreSeen)

(* Unhandled rejections: the process crashes when Node alone would crash it, *)
(* and what is recorded is recorded once (unhandled-rejections.ts).          *)
RejectionsAsNode == Of("rejection", CrashesAsNode /\ OneOccurrence)

(* Spans that sampling leaves out wait in the retention buffer or are gone,  *)
(* never both sent and kept, and those of a trace with an error are sent: in *)
(* the Node SDK and, across threads and forks, in the Python adapter.        *)
SpansKept ==
    /\ Of("retention", SpansInOnePlace /\ ExceptionsExported)
    /\ Of("python", PySpansInOnePlace /\ PyErrorsExported)

(* An operation has one summary, after its lines, with the request and the   *)
(* outcome that belong to it, and its failure is reported once (logger.ts).  *)
OperationsSummed ==
    Of("operation",
       SummaryIsLast /\ RequestIdFollows /\ ExplicitOutcomeWins /\ FailureReportedOnce)

(* The errors of a Next.js app reach one report each, and what has to be     *)
(* flushed before its function stops is handed to Next.                      *)
NextErrorsHandled == Of("next", NextErrorsOnce /\ FlushesHanded)

(* All copies of the package act as the one that was started, while others   *)
(* start and stop, and a shutdown() leaves nothing of its own behind.        *)
CopiesActAsOne ==
    Of("lifecycle", ReachesStarted /\ RunningIsWired /\ ShutdownLeavesNothing)
=============================================================================
