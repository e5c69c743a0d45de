--------------------------- MODULE SourceMapBuild ---------------------------
(***************************************************************************)
(* A build's source maps (packages/runtime-cli): `sourcemaps inject` gives *)
(* each bundle a debug id, `upload` sends its map to the ingester, deletes *)
(* it and its sourceMappingURL, and `verify` checks the output before it   *)
(* is deployed; the bundler plugins do the first two in one step           *)
(* (processBuildOutput).  The files live on disk and the rows on the       *)
(* ingester, so a run that dies between two writes is finished by a run    *)
(* over what it left.                                                      *)
(*                                                                         *)
(* A bundle is its snippet, its debug id comment and its sourceMappingURL; *)
(* a map is the number of lines its mappings were shifted, the mark inject *)
(* leaves in it and its debug id.  An id, content-addressed or written by  *)
(* the bundler, is the bundle it names.                                    *)
(***************************************************************************)
EXTENDS Naturals, FiniteSets, FiniteSetsExt

CONSTANTS
    Bundle,         \* the .js files of the output directory
    Job,            \* the jobs a build may run: [plugin, own, delete, effort, key]
    MaxAttempts,    \* MAX_ATTEMPTS of one upload
    Concurrency,    \* parallel uploads
    MaxCrashes,     \* bound: runs that die
    OldId,          \* the debug id of an earlier build's bundles
    NoId            \* no debug id

ASSUME UploadBounds ==
    /\ MaxAttempts \in Nat \ {0} /\ Concurrency \in Nat \ {0} /\ MaxCrashes \in Nat
    /\ IsFiniteSet(Bundle) /\ NoId \notin Bundle /\ OldId \notin Bundle \cup {NoId}
    /\ Job \subseteq [plugin : BOOLEAN, own : BOOLEAN, delete : BOOLEAN, effort : BOOLEAN, key : BOOLEAN]

VARIABLES
    shape,      \* what the bundler wrote: [prologue, native, valid, mapped]
    js,         \* bundle -> [snippet, id, url]
    bundleMaps, \* bundle -> [there, shift, mark, id]
    job,        \* the job this build runs
    step,       \* where the running command is, or "idle" between runs
    todo,       \* bundles the current loop has not reached
    writing,    \* the bundle inject has written the map of, with its new code
    items,      \* prepared uploads: bundle -> [state, attempt, id, shift]
    fatal,      \* the ingester rejected the key
    stored,     \* runtime_source_maps: bundle's stored path -> [id, shift]
    verdict,    \* what verify said
    crashes

smbVars == <<shape, js, bundleMaps, job, step, todo, writing, items, fatal, stored, verdict, crashes>>

Shapes == [prologue : BOOLEAN, native : BOOLEAN, valid : BOOLEAN, mapped : BOOLEAN]
NoRow == [id |-> NoId, shift |-> 0]
NoItem == [state |-> "none", attempt |-> 0, id |-> NoId, shift |-> 0]
NoWrite == [of |-> NoId, code |-> NoId]

SmbInit ==
    /\ shape \in [Bundle -> {s \in Shapes : s.mapped \/ ~s.valid}]
    /\ job \in Job
    /\ js = [b \in Bundle |-> [snippet |-> "none", url |-> shape[b].mapped,
                               id |-> IF shape[b].native THEN b ELSE NoId]]
    /\ bundleMaps = [b \in Bundle |-> [there |-> shape[b].mapped, shift |-> 0, mark |-> FALSE, id |-> NoId]]
    /\ step = "idle" /\ todo = {} /\ writing = NoWrite
    /\ items = [b \in Bundle |-> NoItem] /\ fatal = FALSE
    /\ \E row \in {NoRow, [id |-> OldId, shift |-> 1]} : stored = [b \in Bundle |-> row]
    /\ verdict = "none" /\ crashes = 0

\* findBundles: the bundles that have a map.
WithMap == {b \in Bundle : bundleMaps[b].there}
Lines(code) == IF code.snippet = "top" THEN 1 ELSE 0

-----------------------------------------------------------------------------
(* inject: the map is written first, then the bundle.                      *)

StartRun ==
    /\ step = "idle" /\ step' = "injecting" /\ todo' = WithMap
    /\ items' = [b \in Bundle |-> NoItem] /\ fatal' = FALSE
    /\ UNCHANGED <<shape, js, bundleMaps, job, writing, stored, verdict, crashes>>

\* Mutant: the mark a half-done run left is not looked at.
AlreadyShiftedNever(b) == bundleMaps[b].shift > 1
\* SNIPPET_LINE_KEY: a run that died before the bundle was written.
AlreadyShifted(b) == bundleMaps[b].mark

IdFor(b) == IF js[b].id = NoId THEN b ELSE js[b].id
\* snippetLine: at the top unless a directive must stay first.
OnTop(b) == ~shape[b].prologue

NewCode(b) == [js[b] EXCEPT
    !.snippet = IF @ # "none" THEN @ ELSE IF OnTop(b) THEN "top" ELSE "end",
    !.id = IdFor(b)]
NewMap(b) ==
    LET moves == js[b].snippet = "none" /\ OnTop(b) /\ ~AlreadyShifted(b)
    IN  [bundleMaps[b] EXCEPT !.shift = IF moves THEN @ + 1 ELSE @,
                        !.mark = @ \/ moves, !.id = IdFor(b)]

InjectMap(b) ==
    /\ step = "injecting" /\ b \in todo /\ writing = NoWrite
    /\ IF ~shape[b].valid
       THEN todo' = todo \ {b} /\ UNCHANGED <<bundleMaps, writing>>
       ELSE /\ bundleMaps' = [bundleMaps EXCEPT ![b] = NewMap(b)]
            /\ writing' = [of |-> b, code |-> NewCode(b)]
            /\ UNCHANGED todo
    /\ UNCHANGED <<shape, js, job, step, items, fatal, stored, verdict, crashes>>

InjectCode ==
    /\ step = "injecting" /\ writing # NoWrite
    /\ js' = [js EXCEPT ![writing.of] = writing.code]
    /\ todo' = todo \ {writing.of} /\ writing' = NoWrite
    /\ UNCHANGED <<shape, bundleMaps, job, step, items, fatal, stored, verdict, crashes>>

\* The command stops at an invalid map; the plugin goes on with the others.
InjectEnds ==
    /\ step = "injecting" /\ todo = {}
    /\ step' = IF job.plugin
               THEN IF job.key /\ (\E b \in WithMap : shape[b].valid) THEN "checking" ELSE "cleaning"
               ELSE IF \E b \in WithMap : ~shape[b].valid THEN "failed"
               ELSE IF job.key THEN "checking"
               ELSE IF job.effort THEN "cleaning" ELSE "failed"
    /\ UNCHANGED <<shape, js, bundleMaps, job, todo, writing, items, fatal, stored, verdict, crashes>>

-----------------------------------------------------------------------------
(* upload: prepare every item, skip what the ingester has, send the rest.  *)

Prepared(b) ==
    IF ~bundleMaps[b].there THEN NoItem
    ELSE IF ~shape[b].valid THEN [NoItem EXCEPT !.state = "failed"]
    ELSE [state |-> "queued", attempt |-> 0, shift |-> bundleMaps[b].shift,
          id |-> IF js[b].id # NoId THEN js[b].id ELSE bundleMaps[b].id]

\* presentByHash: the row of this path has this debug id and this content.
Present(b, item) == stored[b] = [id |-> item.id, shift |-> item.shift] /\ item.state = "queued"

Check ==
    /\ step = "checking"
    /\ \/ \E answered \in BOOLEAN :     \* false: no check route, or the check failed
             items' = [b \in Bundle |->
                 IF answered /\ Present(b, Prepared(b)) THEN [Prepared(b) EXCEPT !.state = "skipped"]
                 ELSE Prepared(b)]
          /\ step' = "sending" /\ UNCHANGED fatal
       \/ fatal' = TRUE /\ step' = "thrown" /\ UNCHANGED items    \* 401, 403
    /\ UNCHANGED <<shape, js, bundleMaps, job, todo, writing, stored, verdict, crashes>>

Sending == {b \in Bundle : items[b].state = "sent"}

\* A worker takes the next item, or an item it is still trying.
Send(b) ==
    /\ step = "sending" /\ ~fatal /\ items[b].state = "queued"
    /\ Cardinality(Sending) < Concurrency
    /\ items' = [items EXCEPT ![b].state = "sent", ![b].attempt = @ + 1]
    /\ UNCHANGED <<shape, js, bundleMaps, job, step, todo, writing, fatal, stored, verdict, crashes>>

\* The ingester stores the row, newest for its path; the answer may be lost.
Row(b) == [id |-> items[b].id, shift |-> items[b].shift]
\* Mutant: one attempt too many.
RetryOnceMore(b) == IF items[b].attempt > MaxAttempts THEN "failed" ELSE "queued"
Retry(b) == IF items[b].attempt >= MaxAttempts THEN "failed" ELSE "queued"

IngesterAnswers(b) ==
    /\ step = "sending" /\ items[b].state = "sent"
    /\ \/ /\ stored' = [stored EXCEPT ![b] = Row(b)] /\ UNCHANGED fatal
          /\ \E s \in {"uploaded", Retry(b)} : items' = [items EXCEPT ![b].state = s]
       \/ /\ \E s \in {"failed", Retry(b)} : items' = [items EXCEPT ![b].state = s]
          /\ UNCHANGED <<stored, fatal>>
       \/ /\ fatal' = TRUE /\ items' = [items EXCEPT ![b].state = "stopped"]
          /\ UNCHANGED stored
    /\ UNCHANGED <<shape, js, bundleMaps, job, step, todo, writing, verdict, crashes>>

\* Mutant: whatever was tried is deleted, failed items too.
HasItTried(b) == items[b].state \in {"uploaded", "skipped", "failed"}
\* The maps the ingester is known to have.
HasIt(b) == items[b].state \in {"uploaded", "skipped"}

SendEnds ==
    /\ step = "sending" /\ Sending = {}
    /\ fatal \/ \A b \in Bundle : items[b].state # "queued"
    /\ step' = IF fatal THEN "thrown" ELSE "deleting"
    /\ todo' = IF ~fatal /\ job.delete THEN {b \in Bundle : HasIt(b)} ELSE {}
    /\ UNCHANGED <<shape, js, bundleMaps, job, writing, items, fatal, stored, verdict, crashes>>

\* A throw: the plugin and --best-effort report it and clean up.
Thrown ==
    /\ step = "thrown"
    /\ step' = IF job.plugin \/ job.effort THEN "cleaning" ELSE "failed"
    /\ UNCHANGED <<shape, js, bundleMaps, job, todo, writing, items, fatal, stored, verdict, crashes>>

-----------------------------------------------------------------------------
(* Deleting: the map first, then the comment that names it.                *)

DeleteMap(b) ==
    /\ step \in {"deleting", "removing"} /\ b \in todo /\ bundleMaps[b].there
    /\ bundleMaps' = [bundleMaps EXCEPT ![b].there = FALSE]
    /\ UNCHANGED <<shape, js, job, step, todo, writing, items, fatal, stored, verdict, crashes>>

StripUrl(b) ==
    /\ step \in {"deleting", "removing"} /\ b \in todo /\ ~bundleMaps[b].there
    /\ js' = [js EXCEPT ![b].url = FALSE] /\ todo' = todo \ {b}
    /\ UNCHANGED <<shape, bundleMaps, job, step, writing, items, fatal, stored, verdict, crashes>>

DeleteEnds ==
    /\ step = "deleting" /\ todo = {}
    /\ step' = IF job.plugin \/ job.effort THEN "cleaning"
               ELSE IF \E b \in Bundle : items[b].state = "failed" THEN "failed" ELSE "done"
    /\ UNCHANGED <<shape, js, bundleMaps, job, todo, writing, items, fatal, stored, verdict, crashes>>

\* Mutant: only what the upload step handled is cleaned up.
CleansAllUploaded == job.own /\ fatal = FALSE
\* Maps nobody asked for go whatever the upload did (cleanUp), and with
\* --best-effort --delete-after-upload every map goes.
CleansAll == (job.plugin /\ job.own) \/ (~job.plugin /\ job.effort /\ job.delete)

CleanUp ==
    /\ step = "cleaning" /\ step' = "removing"
    /\ todo' = IF CleansAll THEN WithMap ELSE {}
    /\ UNCHANGED <<shape, js, bundleMaps, job, writing, items, fatal, stored, verdict, crashes>>

CleanUpEnds ==
    /\ step = "removing" /\ todo = {} /\ step' = "done"
    /\ UNCHANGED <<shape, js, bundleMaps, job, todo, writing, items, fatal, stored, verdict, crashes>>

-----------------------------------------------------------------------------
(* verify, and runs that die or are run again.                             *)

\* Mutant: a map stored for the bundle's path is taken for the bundle's.
OnIngesterByPath(b) == stored[b] # NoRow
\* presentDebugIds: any row with this bundle's debug id.
OnIngester(b) == \E r \in Bundle : stored[r] # NoRow /\ stored[r].id = js[b].id

Sound(b) == js[b].id # NoId /\ js[b].snippet # "none" /\ (js[b].url => bundleMaps[b].there)

Verify ==
    /\ step \in {"done", "failed"}
    /\ verdict' = IF (\E b \in Bundle : ~Sound(b)) \/ WithMap # {} THEN "problems"
                  ELSE IF ~job.key THEN "unverified"
                  ELSE IF \A b \in Bundle : OnIngester(b) THEN "ok" ELSE "problems"
    /\ step' = "verified"
    /\ UNCHANGED <<shape, js, bundleMaps, job, todo, writing, items, fatal, stored, crashes>>

\* The process dies, or a file cannot be written: the disk stays as it is.
Dies ==
    /\ step \notin {"idle", "done", "failed", "verified"}
    /\ crashes < MaxCrashes /\ crashes' = crashes + 1
    /\ step' = "idle" /\ writing' = NoWrite /\ todo' = {}
    /\ UNCHANGED <<shape, js, bundleMaps, job, items, fatal, stored, verdict>>

SmbNext ==
    \/ StartRun \/ InjectCode \/ InjectEnds \/ Check \/ SendEnds \/ Thrown
    \/ DeleteEnds \/ CleanUp \/ CleanUpEnds \/ Verify \/ Dies
    \/ \E b \in Bundle : InjectMap(b) \/ Send(b) \/ IngesterAnswers(b) \/ DeleteMap(b) \/ StripUrl(b)

-----------------------------------------------------------------------------
SmbTypeOK ==
    /\ \A b \in Bundle : /\ js[b].snippet \in {"none", "top", "end"}
                         /\ bundleMaps[b].shift \in Nat /\ items[b].attempt \in 0 .. MaxAttempts
    /\ todo \subseteq Bundle /\ Cardinality(Sending) <= Concurrency

(* The map stored for a served bundle's debug id is shifted by exactly the *)
(* lines inject put into that bundle, wherever earlier runs died: a frame  *)
(* is never resolved a line off.                                           *)
StoredMapsMatch ==
    \A b, r \in Bundle : (stored[r] # NoRow /\ stored[r].id = js[b].id /\ js[b].snippet # "none")
        => stored[r].shift = Lines(js[b])

(* A map its owner configured is never deleted before the ingester has it, *)
(* although the answer that says so may be lost, retried or never come.    *)
DeletedOnceStored ==
    (~job.own /\ ~job.effort) =>
        \A b \in Bundle : (shape[b].mapped /\ ~bundleMaps[b].there)
            => stored[b] # NoRow /\ stored[b].id = IdFor(b)

(* Maps the plugin turned on itself are gone when it returns, with the     *)
(* comments that name them, whatever inject and the upload did.            *)
NoneOfItsOwnLeft ==
    (job.plugin /\ job.own /\ step = "done" /\ crashes = 0) =>
        \A b \in Bundle : ~bundleMaps[b].there /\ ~js[b].url

(* A build that verify passed resolves: every bundle it will serve has the *)
(* map of its own bytes on the ingester, with its positions.               *)
VerifiedResolves ==
    verdict = "ok" => \A b \in Bundle : stored[b] = [id |-> js[b].id, shift |-> Lines(js[b])]
=============================================================================
