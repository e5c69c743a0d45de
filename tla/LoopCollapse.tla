---------------------------- MODULE LoopCollapse ----------------------------
(***************************************************************************)
(* Loop collapse of the OTLP ingester (loop-collapse.ts) with the request  *)
(* handler around it (server.ts: admit, the ClickHouse writes, commit or   *)
(* rollback) and the exporter that resends a batch until it sees a 2xx.    *)
(*                                                                         *)
(* A window is an identity in one arrival minute.  Its first After         *)
(* occurrences are stored as they come; the later ones are folded into one *)
(* sample that is stored, with their number, when the minute is over.      *)
(*                                                                         *)
(* plan() is synchronous.  It is modelled one occurrence per step, with    *)
(* `planner' naming the request whose loop runs: no other action is        *)
(* enabled until that loop ends.  A counter of folds is represented by the *)
(* set of folds it has counted, so that "counted once" can be said at all. *)
(***************************************************************************)
EXTENDS Integers, Sequences, FiniteSets

CONSTANTS
    Request,        \* requests that may reach the ingester; each is used once
    Batch,          \* export batches of one client
    Occ,            \* occurrence ids (content-derived: a resent batch repeats them)
    Ident,          \* tenant + route + collapse identity
    Tenant,
    MaxLen,         \* the longest batch
    Content,        \* Content[b]: the occurrences of batch b, in order
    IdentOf,        \* IdentOf[o]
    TenantOf,       \* TenantOf[i]
    TimeOf,         \* TimeOf[o]: occurredAt
    After,          \* LOOP_COLLAPSE_AFTER
    MaxWindows,     \* windows per minute
    MaxSamples,     \* sample slots
    MaxTrackedIds,  \* folded ids remembered per minute
    ForceAfter,     \* minutes after which a held window is flushed anyway
    LastMinute,     \* bound: requests arrive in minutes 0..LastMinute
    OverlappingRetries, \* the exporter resends while an earlier request still runs
    PartialWrites,      \* a failed request may have stored its occurrences
    None

Horizon == LastMinute + ForceAfter + 1   \* the clock stops here
Minute == 0..Horizon
Key == Ident \X Minute                   \* windows
Fold == Request \X (1..MaxLen)           \* the k-th occurrence of request r

ASSUME ConstantsAssumption ==
    /\ IsFiniteSet(Request) /\ IsFiniteSet(Ident) /\ IsFiniteSet(Batch) /\ IsFiniteSet(Occ)
    /\ Content \in [Batch -> Seq(Occ)]
    /\ \A b \in Batch : Len(Content[b]) <= MaxLen
    /\ MaxLen \in Nat
    /\ IdentOf \in [Occ -> Ident]
    /\ TenantOf \in [Ident -> Tenant]
    /\ TimeOf \in [Occ -> Nat]
    /\ After \in Nat \ {0}               \* 0 turns collapse off: plan() passes through
    /\ MaxWindows \in Nat /\ MaxSamples \in Nat /\ MaxTrackedIds \in Nat
    /\ ForceAfter \in Nat /\ LastMinute \in Nat
    /\ {OverlappingRetries, PartialWrites} \subseteq BOOLEAN
    /\ None \notin Request /\ None \notin Fold /\ None \notin Batch

VARIABLES
    now,        \* the current minute
    planner,    \* the request whose plan() runs, or None
    req,        \* per request: its batch, and the plan's local state
    win,        \* per window: the Window object
    tracked,    \* trackedIds, per minute
    held,       \* heldSamples
    carry,      \* failed samples, to be written by the next flush
    writing,    \* samples of the flush under way still to be written
    flushing,   \* a flush is under way
    stopped,    \* "no", "closing" (SIGTERM seen), "flushed" (stop() collected)
    rows,       \* occurrences stored one by one, by id
    samples,    \* sample rows stored
    sinkRows,   \* occurrences handed to the sink one by one
    sinkSamples,\* sample rows handed to the sink
    acked       \* batches whose 2xx reached the exporter

envVars == <<now, acked>>
collapseVars == <<win, tracked, held, carry>>
flushVars == <<writing, flushing, stopped>>
storeVars == <<rows, samples, sinkRows, sinkSamples>>
vars == <<now, planner, req, win, tracked, held, carry, writing, flushing,
          stopped, rows, samples, sinkRows, sinkSamples, acked>>

-----------------------------------------------------------------------------
(* State of a request, of a window and of a sample waiting to be stored.   *)

ReqType ==
    [st: {"idle", "plan", "write", "ok", "failed", "partial"}, batch: Batch \cup {None},
     minute: Minute, pos: 1..(MaxLen + 1), kept: SUBSET Occ,
     reservedIds: SUBSET Occ, folds: SUBSET (1..MaxLen), touched: SUBSET Key]

WindowType ==
    [exists: BOOLEAN, admitted: Int, kept: SUBSET Occ, tracking: BOOLEAN,
     foldedIds: SUBSET Occ, count: SUBSET Fold, sample: Fold \cup {None},
     reserved: Int, pending: Int, holdsSlot: BOOLEAN, flushed: BOOLEAN,
     late: SUBSET Fold, lateSample: Fold \cup {None}]

(* holdsSlot: the Due of a flushed window (window # null), not of late folds *)
DueType == [key: Key, folds: SUBSET Fold, sample: Fold, holdsSlot: BOOLEAN]
SampleType == [id: Occ, collapsed: Int, folds: SUBSET Fold]

IdleRequest == [st |-> "idle", batch |-> None, minute |-> 0, pos |-> 1,
                kept |-> {}, reservedIds |-> {}, folds |-> {}, touched |-> {}]

NoWindow == [exists |-> FALSE, admitted |-> 0, kept |-> {}, tracking |-> TRUE,
             foldedIds |-> {}, count |-> {}, sample |-> None, reserved |-> 0,
             pending |-> 0, holdsSlot |-> FALSE, flushed |-> FALSE,
             late |-> {}, lateSample |-> None]

OccOf(f) == Content[req[f[1]].batch][f[2]]
KeyOf(f) == <<IdentOf[OccOf(f)], req[f[1]].minute>>
FoldsOf(r) == {<<r, k>> : k \in req[r].folds}
InFlight(r) == req[r].st \in {"plan", "write"}
Attempts(b) == {r \in Request : req[r].batch = b}

WindowsIn(m) == {k \in Key : k[2] = m /\ win[k].exists}
Holders(k) == {r \in Request : InFlight(r) /\ k \in req[r].touched}
ReservedFolds(k) ==
    {f \in Fold : InFlight(f[1]) /\ f[2] \in req[f[1]].folds /\ KeyOf(f) = k}
Committed == {f \in Fold : req[f[1]].st = "ok" /\ f[2] \in req[f[1]].folds}

(* `o.occurredAt >= sample.occurredAt' over the new folds in batch order:  *)
(* the newest wins, the last of those that tie.                            *)
Newest(old, new) ==
    LET f == CHOOSE g \in new : \A h \in new :
                 \/ TimeOf[OccOf(h)] < TimeOf[OccOf(g)]
                 \/ TimeOf[OccOf(h)] = TimeOf[OccOf(g)] /\ h[2] <= g[2]
    IN IF new = {} \/ (old # None /\ TimeOf[OccOf(old)] > TimeOf[OccOf(f)])
       THEN old ELSE f

-----------------------------------------------------------------------------
Init ==
    /\ now = 0 /\ planner = None /\ acked = {}
    /\ req = [r \in Request |-> IdleRequest]
    /\ win = [k \in Key |-> NoWindow]
    /\ tracked = [m \in Minute |-> 0]
    /\ held = 0 /\ carry = {} /\ writing = {}
    /\ flushing = FALSE /\ stopped = "no"
    /\ rows = {} /\ samples = {} /\ sinkRows = {} /\ sinkSamples = {}

(* The clock moves to the next minute. *)
Tick ==
    /\ planner = None /\ now < Horizon
    /\ now' = now + 1
    /\ UNCHANGED <<planner, req, acked>>
    /\ UNCHANGED collapseVars /\ UNCHANGED flushVars /\ UNCHANGED storeVars

(* What the exporter may send: a batch it has seen no 2xx for. *)
MaySend(b) ==
    /\ b \notin acked
    /\ OverlappingRetries \/ \A r \in Attempts(b) : ~InFlight(r)

(* A request arrives and its handler reaches plan(): the minute is read.   *)
Arrive(r, b) ==
    /\ planner = None /\ stopped # "flushed" /\ now <= LastMinute
    /\ req[r].st = "idle" /\ MaySend(b)
    /\ planner' = r
    /\ req' = [req EXCEPT ![r] = [IdleRequest EXCEPT !.st = "plan", !.batch = b, !.minute = now]]
    /\ UNCHANGED envVars
    /\ UNCHANGED collapseVars /\ UNCHANGED flushVars /\ UNCHANGED storeVars

-----------------------------------------------------------------------------
(* planWindows: one pass of the loop over the request's occurrences.       *)

Planning(r) == planner = r /\ req[r].pos <= Len(Content[req[r].batch])
This(r) == Content[req[r].batch][req[r].pos]
ThisKey(r) == <<IdentOf[This(r)], req[r].minute>>

(* The window, created if it is new and held once by this request. *)
Hold(r) ==
    LET k == ThisKey(r) IN
    [win[k] EXCEPT !.exists = TRUE,
                   !.pending = IF k \in req[r].touched THEN @ ELSE @ + 1]

CanHold(r) == win[ThisKey(r)].exists \/ Cardinality(WindowsIn(req[r].minute)) < MaxWindows

(* Go on to the next occurrence; `plan' is the request's local state. *)
Advance(r, plan) ==
    /\ req' = [req EXCEPT ![r] = [plan EXCEPT !.pos = @ + 1]]
    /\ UNCHANGED <<planner, carry>>
    /\ UNCHANGED envVars /\ UNCHANGED flushVars /\ UNCHANGED storeVars

Touching(r) == [req[r] EXCEPT !.touched = @ \cup {ThisKey(r)}]

(* Past maxWindows: stored as usual, no window. *)
PassWithoutWindow(r) ==
    /\ Planning(r) /\ ~CanHold(r)
    /\ Advance(r, [req[r] EXCEPT !.kept = @ \cup {This(r)}])
    /\ UNCHANGED <<win, tracked, held>>

(* An id this window stored before: stored again under the same id. *)
KeepAgain(r) ==
    /\ Planning(r) /\ CanHold(r)
    /\ This(r) \in win[ThisKey(r)].kept
    /\ win' = [win EXCEPT ![ThisKey(r)] = Hold(r)]
    /\ Advance(r, [Touching(r) EXCEPT !.kept = @ \cup {This(r)}])
    /\ UNCHANGED <<tracked, held>>

(* An id this window folded before: counted already, not stored. *)
Recognise(r) ==
    /\ Planning(r) /\ CanHold(r)
    /\ This(r) \notin win[ThisKey(r)].kept
    /\ This(r) \in win[ThisKey(r)].foldedIds
    /\ win' = [win EXCEPT ![ThisKey(r)] = Hold(r)]
    /\ Advance(r, Touching(r))
    /\ UNCHANGED <<tracked, held>>

(* Mutant of Fresh: folded ids are not recognised. *)
FreshUnlessKept(r) ==
    Planning(r) /\ CanHold(r) /\ This(r) \notin win[ThisKey(r)].kept

Fresh(r) == /\ Planning(r) /\ CanHold(r)
            /\ This(r) \notin win[ThisKey(r)].kept \cup win[ThisKey(r)].foldedIds

(* One of the window's first After occurrences. *)
Keep(r) ==
    /\ Fresh(r)
    /\ win[ThisKey(r)].admitted < After
    /\ win' = [win EXCEPT ![ThisKey(r)] =
                 [Hold(r) EXCEPT !.admitted = @ + 1, !.kept = @ \cup {This(r)}]]
    /\ Advance(r, [Touching(r) EXCEPT !.kept = @ \cup {This(r)},
                                      !.reservedIds = @ \cup {This(r)}])
    /\ UNCHANGED <<tracked, held>>

(* Every sample slot is taken: stored as usual. *)
PassWithoutSlot(r) ==
    /\ Fresh(r)
    /\ win[ThisKey(r)].admitted >= After
    /\ ~win[ThisKey(r)].holdsSlot /\ held >= MaxSamples
    /\ win' = [win EXCEPT ![ThisKey(r)] = Hold(r)]
    /\ Advance(r, [Touching(r) EXCEPT !.kept = @ \cup {This(r)}])
    /\ UNCHANGED <<tracked, held>>

(* Is there budget to remember one more id of the minute? *)
Remembers(w, m) == w.tracking /\ tracked[m] < MaxTrackedIds

(* Folded into the window's sample.  The id is remembered while the        *)
(* minute's budget lasts; then the window forgets all its folded ids.      *)
FoldIn(r) ==
    LET k == ThisKey(r)
        m == req[r].minute
        remember == Remembers(win[k], m)
    IN
    /\ Fresh(r)
    /\ win[k].admitted >= After
    /\ win[k].holdsSlot \/ held < MaxSamples
    /\ held' = IF win[k].holdsSlot THEN held ELSE held + 1
    /\ tracked' = IF remember THEN [tracked EXCEPT ![m] = @ + 1] ELSE tracked
    /\ win' = [win EXCEPT ![k] =
                 [Hold(r) EXCEPT !.holdsSlot = TRUE,
                                 !.admitted = @ + 1,
                                 !.reserved = @ + 1,
                                 !.tracking = remember,
                                 !.foldedIds = IF remember THEN @ \cup {This(r)} ELSE {}]]
    /\ Advance(r, [Touching(r) EXCEPT !.folds = @ \cup {req[r].pos}])

(* plan() returns; the ClickHouse writes start. *)
PlanReturns(r) ==
    /\ planner = r /\ req[r].pos > Len(Content[req[r].batch])
    /\ planner' = None
    /\ req' = [req EXCEPT ![r].st = "write"]
    /\ UNCHANGED envVars
    /\ UNCHANGED collapseVars /\ UNCHANGED flushVars /\ UNCHANGED storeVars

-----------------------------------------------------------------------------
(* The writes settle: commit and 2xx, or rollback and 503.                 *)

(* Mutant of CommitWindow: a fold that commits after the flush is lost.     *)
CommitUnlessFlushed(w, mine) ==
    IF w.flushed THEN [w EXCEPT !.reserved = @ - Cardinality(mine)]
    ELSE [w EXCEPT !.reserved = @ - Cardinality(mine), !.count = @ \cup mine,
                   !.sample = Newest(w.sample, mine)]

(* commit() on window k for the folds `mine' of the request. *)
CommitWindow(w, mine) ==
    LET settled == [w EXCEPT !.reserved = @ - Cardinality(mine)] IN
    IF w.flushed
    THEN [settled EXCEPT !.late = @ \cup mine,
                         !.lateSample = Newest(w.lateSample, mine)]
    ELSE [settled EXCEPT !.count = @ \cup mine,
                         !.sample = Newest(w.sample, mine)]

Release(w, k, r) == [w EXCEPT !.pending = IF k \in req[r].touched THEN @ - 1 ELSE @]

MyFolds(r, k) == {f \in FoldsOf(r) : KeyOf(f) = k}

(* Every insert succeeded: the folds count, the kept occurrences are        *)
(* stored, and the 2xx reaches the exporter or is lost on the way.          *)
WritesSucceed(r) ==
    /\ planner = None /\ req[r].st = "write"
    /\ rows' = rows \cup req[r].kept
    /\ win' = [k \in Key |-> Release(CommitWindow(win[k], MyFolds(r, k)), k, r)]
    /\ req' = [req EXCEPT ![r].st = "ok"]
    /\ acked' \in {acked, acked \cup {req[r].batch}}
    /\ sinkRows' = IF stopped = "no" THEN sinkRows \cup req[r].kept ELSE sinkRows
    /\ UNCHANGED <<now, planner, tracked, held, carry, samples, sinkSamples>>
    /\ UNCHANGED flushVars

RollbackFoldsOnly(w, ids, mine) ==
    LET given == [w EXCEPT !.admitted = @ - Cardinality(mine), !.kept = @ \ ids,
                           !.reserved = @ - Cardinality(mine),
                           !.foldedIds = @ \ {OccOf(f) : f \in mine}]
    IN [given EXCEPT !.holdsSlot =
            @ /\ ~(mine # {} /\ ~given.flushed /\ given.count = {} /\ given.reserved = 0)]
RollbackKeepsIds(w, ids, mine) ==
    LET given == [w EXCEPT !.admitted = @ - Cardinality(ids) - Cardinality(mine),
                           !.kept = @ \ ids, !.reserved = @ - Cardinality(mine)]
    IN [given EXCEPT !.holdsSlot =
            @ /\ ~(mine # {} /\ ~given.flushed /\ given.count = {} /\ given.reserved = 0)]

(* rollback() on window k: the reservations are given back. *)
RollbackWindow(w, ids, mine) ==
    LET given == [w EXCEPT !.admitted = @ - Cardinality(ids) - Cardinality(mine),
                           !.kept = @ \ ids,
                           !.reserved = @ - Cardinality(mine),
                           !.foldedIds = @ \ {OccOf(f) : f \in mine}]
    IN [given EXCEPT !.holdsSlot =
            @ /\ ~(mine # {} /\ ~given.flushed /\ given.count = {} /\ given.reserved = 0)]

MyReservedIds(r, k) == {o \in req[r].reservedIds : IdentOf[o] = k[1] /\ req[r].minute = k[2]}

(* An insert failed: 503, and the exporter will resend.  ClickHouse has no  *)
(* transaction over the tables, so the occurrences may be there already.    *)
WritesFail(r) ==
    LET rolled == [k \in Key |-> RollbackWindow(win[k], MyReservedIds(r, k), MyFolds(r, k))]
    IN
    /\ planner = None /\ req[r].st = "write"
    /\ \/ rows' = rows /\ req' = [req EXCEPT ![r].st = "failed"]
       \/ PartialWrites /\ rows' = rows \cup req[r].kept /\ req' = [req EXCEPT ![r].st = "partial"]
    /\ win' = [k \in Key |-> Release(rolled[k], k, r)]
    /\ held' = held - Cardinality({k \in Key : win[k].holdsSlot /\ ~rolled[k].holdsSlot})
    /\ UNCHANGED <<planner, tracked, carry, samples, sinkRows, sinkSamples>>
    /\ UNCHANGED envVars /\ UNCHANGED flushVars

-----------------------------------------------------------------------------
(* The flush: collectDue is synchronous, then one write per tenant.         *)

FlushUnforced(all) ==
    {k \in Key : /\ win[k].exists /\ ~win[k].flushed
                 /\ (all \/ k[2] < now) /\ (win[k].pending = 0 \/ all)}
FlushPastOnly(all) ==
    {k \in Key : win[k].exists /\ ~win[k].flushed /\ k[2] < now
                 /\ (win[k].pending = 0 \/ all \/ now - (k[2] + 1) >= ForceAfter)}

(* The windows collectDue flushes: over, and held by no request (or forced). *)
FlushSet(all) ==
    {k \in Key :
        /\ win[k].exists /\ ~win[k].flushed
        /\ all \/ k[2] < now
        /\ win[k].pending = 0 \/ all \/ now - (k[2] + 1) >= ForceAfter}

DueWindow(k) == [key |-> k, folds |-> win[k].count, sample |-> win[k].sample,
                 holdsSlot |-> TRUE]
DueLate(k) == [key |-> k, folds |-> win[k].late, sample |-> win[k].lateSample,
               holdsSlot |-> FALSE]

(* Mutant of Collect: late folds stay with the window. *)
CollectKeepingLate(w, over, full) ==
    [w EXCEPT !.flushed = @ \/ over, !.holdsSlot = @ /\ ~(over /\ ~full)]

(* A window once its late folds and, if it is over, its folds are collected *)
(* (if it has none its slot is released).                                   *)
Collect(w, over, full) ==
    [w EXCEPT !.flushed = @ \/ over, !.holdsSlot = @ /\ ~(over /\ ~full),
              !.late = {}, !.lateSample = None]

CollectDue(all) ==
    LET over == FlushSet(all)
        full == {k \in over : win[k].count # {}}
        withLate == {k \in Key : win[k].late # {}}
    IN
    /\ writing' = carry \cup {DueLate(k) : k \in withLate} \cup {DueWindow(k) : k \in full}
    /\ carry' = {}
    /\ win' = [k \in Key |-> Collect(win[k], k \in over, k \in full)]
    /\ held' = held - Cardinality({k \in over \ full : win[k].holdsSlot})

(* The 5 s timer. *)
FlushTimer ==
    /\ planner = None /\ ~flushing /\ stopped # "flushed"
    /\ CollectDue(FALSE)
    /\ flushing' = TRUE
    /\ UNCHANGED <<now, planner, req, tracked, stopped, acked>> /\ UNCHANGED storeVars

DueOf(t) == {d \in writing : TenantOf[d.key[1]] = t}
SampleRow(d) == [id |-> OccOf(d.sample), collapsed |-> Cardinality(d.folds) - 1,
                 folds |-> d.folds]

(* One tenant's samples are stored, and handed to the sink. *)
FlushStores(t) ==
    LET due == DueOf(t)
        slots == {k \in Key : win[k].holdsSlot /\ \E d \in due : d.key = k /\ d.holdsSlot}
    IN
    /\ planner = None /\ due # {}
    /\ samples' = samples \cup {SampleRow(d) : d \in due}
    /\ sinkSamples' = IF stopped = "no" THEN sinkSamples \cup {SampleRow(d) : d \in due}
                                        ELSE sinkSamples
    /\ writing' = writing \ due
    /\ win' = [k \in Key |-> [win[k] EXCEPT !.holdsSlot = @ /\ k \notin slots]]
    /\ held' = held - Cardinality(slots)
    /\ UNCHANGED <<now, planner, req, tracked, carry, flushing, stopped, rows, sinkRows, acked>>

(* The write is rejected; it may have been stored all the same (a lost      *)
(* answer).  The samples are kept, with their slots, for the next flush.    *)
FlushFails(t) ==
    LET due == DueOf(t) IN
    /\ planner = None /\ due # {}
    /\ samples' \in {samples, samples \cup {SampleRow(d) : d \in due}}
    /\ carry' = carry \cup due
    /\ writing' = writing \ due
    /\ UNCHANGED <<now, planner, req, win, tracked, held, flushing, stopped, rows,
                   sinkRows, sinkSamples, acked>>

FlushEnds ==
    /\ planner = None /\ flushing /\ writing = {}
    /\ flushing' = FALSE
    /\ UNCHANGED <<now, planner, req, writing, stopped, acked>>
    /\ UNCHANGED collapseVars /\ UNCHANGED storeVars

(* SIGTERM: the sink is stopped and the server takes no new connection.     *)
Shutdown ==
    /\ planner = None /\ stopped = "no"
    /\ stopped' = "closing"
    /\ UNCHANGED <<now, planner, req, writing, flushing, acked>>
    /\ UNCHANGED collapseVars /\ UNCHANGED storeVars

(* server.close calls back once every connection is closed (an exporter     *)
(* that gave up closed its own, its handler may still run), and             *)
(* collapse.stop() flushes every window, after the flush under way if any.  *)
FlushAll ==
    /\ planner = None /\ stopped = "closing" /\ ~flushing
    /\ OverlappingRetries \/ \A r \in Request : ~InFlight(r)
    /\ CollectDue(TRUE)
    /\ flushing' = TRUE /\ stopped' = "flushed"
    /\ UNCHANGED <<now, planner, req, tracked, acked>> /\ UNCHANGED storeVars

-----------------------------------------------------------------------------
PlanStep(r) ==
    \/ PassWithoutWindow(r) \/ KeepAgain(r) \/ Recognise(r) \/ Keep(r)
    \/ PassWithoutSlot(r) \/ FoldIn(r) \/ PlanReturns(r)

Operating ==
    \/ Tick
    \/ \E r \in Request, b \in Batch : Arrive(r, b)
    \/ \E r \in Request : PlanStep(r) \/ WritesSucceed(r) \/ WritesFail(r)
    \/ FlushTimer
    \/ \E t \in Tenant : FlushStores(t) \/ FlushFails(t)
    \/ FlushEnds

Next == Operating \/ Shutdown \/ FlushAll

Spec == Init /\ [][Next]_vars

(* The process keeps running; time passes, the timer fires, plans run to    *)
(* their end, and ClickHouse accepts the samples sooner or later.  Nothing  *)
(* is assumed of the requests: their writes may hang for ever.              *)
RunningSpec ==
    /\ Init /\ [][Operating]_vars
    /\ WF_vars(Tick) /\ WF_vars(FlushTimer) /\ WF_vars(FlushEnds)
    /\ \A r \in Request : WF_vars(PlanStep(r))
    /\ \A t \in Tenant : SF_vars(FlushStores(t)) /\ WF_vars(FlushStores(t) \/ FlushFails(t))

-----------------------------------------------------------------------------
TypeOK ==
    /\ now \in Minute
    /\ planner \in Request \cup {None}
    /\ req \in [Request -> ReqType]
    /\ \A r \in Request : req[r].st # "idle" => req[r].batch \in Batch
    /\ win \in [Key -> WindowType]
    /\ tracked \in [Minute -> 0..MaxTrackedIds]
    /\ held \in Int
    /\ carry \subseteq DueType /\ writing \subseteq DueType
    /\ flushing \in BOOLEAN
    /\ stopped \in {"no", "closing", "flushed"}
    /\ rows \subseteq Occ /\ sinkRows \subseteq Occ
    /\ samples \subseteq SampleType /\ sinkSamples \subseteq SampleType
    /\ acked \subseteq Batch

(* Where a committed fold can be: counted by a window, late, or in a sample *)
(* waiting to be written, or in a stored sample.                            *)
Waiting == carry \cup writing
Counted(k) == IF win[k].flushed THEN {} ELSE win[k].count
Unstored == UNION ({Counted(k) \cup win[k].late : k \in Key} \cup {d.folds : d \in Waiting})
StoredFolds == UNION {s.folds : s \in samples}

(* A fold whose request was answered 2xx is never dropped on its way from   *)
(* the window's counter through late, failed and repeated flushes to a      *)
(* stored sample, and only such folds travel (loop-collapse.ts, commit,     *)
(* collectDue, flushDue).                                                   *)
FoldsConserved == Committed = Unstored \cup StoredFolds

(* ... and it is in one of those places only: two samples of different      *)
(* windows or flushes never stand for the same fold, and a fold still       *)
(* counted by its window is in no sample yet.                               *)
FoldsCountedOnce ==
    /\ \A k \in Key : /\ Counted(k) \cap win[k].late = {}
                      /\ \A d \in Waiting : d.folds \cap (Counted(k) \cup win[k].late) = {}
                      /\ StoredFolds \cap (Counted(k) \cup win[k].late) = {}
    /\ \A d, e \in Waiting : d # e => d.folds \cap e.folds = {}
    /\ \A s, u \in samples : s # u => s.folds \cap u.folds = {}
    /\ \A d \in Waiting, s \in samples : SampleRow(d) # s => d.folds \cap s.folds = {}

(* heldSamples counts exactly the windows that hold a slot, and a slot is   *)
(* held only while something needs it: a fold reserved or counted by the    *)
(* open window, or its sample not yet written.  Otherwise slots would leak  *)
(* until every loop passes through uncollapsed.                             *)
SlotsAccounted ==
    /\ held = Cardinality({k \in Key : win[k].holdsSlot})
    /\ held <= MaxSamples
    /\ \A k \in Key : win[k].holdsSlot =>
          IF win[k].flushed
          THEN \E d \in Waiting : d.key = k /\ d.holdsSlot
          ELSE win[k].reserved > 0 \/ win[k].count # {}

(* A window's counters are what its requests make of it, no rollback        *)
(* forgotten or applied twice: pending and reserved count the requests in   *)
(* flight (or it is flushed under one, or never), admitted what it stored   *)
(* or folded, and at most After of that is stored row by row: the bound     *)
(* that makes a loop cost After + 1 rows a minute.                          *)
CommittedIn(k) == {f \in Committed : KeyOf(f) = k}
WindowsMatchRequests ==
    \A k \in Key :
        /\ win[k].pending = Cardinality(Holders(k))
        /\ win[k].reserved = Cardinality(ReservedFolds(k))
        /\ win[k].admitted =
              Cardinality(win[k].kept) + win[k].reserved + Cardinality(CommittedIn(k))
        /\ Cardinality(win[k].kept) <= After

(* A window is never closed under a request that could still have settled   *)
(* in time: its folds end up in the window's own sample unless the flush    *)
(* was forced.                                                              *)
NoEarlyClose ==
    \A k \in Key : win[k].flushed /\ win[k].pending > 0
        => (stopped = "flushed" \/ now - (k[2] + 1) >= ForceAfter)

(* The sample is the newest of the folds it stands for, so that the issue's *)
(* last-seen stays exact, in the window and in what is written of it.       *)
IsNewestOf(f, folds) == f \in folds /\ \A g \in folds : TimeOf[OccOf(g)] <= TimeOf[OccOf(f)]
SampleIsNewest ==
    /\ \A k \in Key : /\ Counted(k) # {} => IsNewestOf(win[k].sample, Counted(k))
                      /\ win[k].late # {} => IsNewestOf(win[k].lateSample, win[k].late)
    /\ \A d \in Waiting : IsNewestOf(d.sample, d.folds)

(* Nothing reaches the sink that is not in ClickHouse: the consumer         *)
(* recovers what the sink loses by replaying ClickHouse.                    *)
ForwardedIsStored == sinkRows \subseteq rows /\ sinkSamples \subseteq samples

(* The windows agree with the requests that go through them, and nothing is  *)
(* sampled or forwarded that is not so in the store.                         *)
WindowsAccounted ==
    /\ TypeOK /\ SlotsAccounted /\ WindowsMatchRequests
    /\ NoEarlyClose /\ SampleIsNewest /\ ForwardedIsStored

(* A batch answered 2xx is counted: each of its occurrences is stored, or   *)
(* folded into a sample (loop-collapse.ts:26-28).                           *)
AcceptedIsCounted ==
    \A r \in Request : req[r].st = "ok" =>
        \A j \in 1..Len(Content[req[r].batch]) :
            LET o == Content[req[r].batch][j] IN
            o \in rows \/ \E f \in Committed : OccOf(f) = o

(* ... and only once, however often the exporter resends it: what a reader  *)
(* sums (1 + collapsed_count per distinct id) is the number of occurrences. *)
CountedOnce(f) ==
    /\ OccOf(f) \notin rows
    /\ \A g \in Committed : f # g => OccOf(f) # OccOf(g)

(* The code keeps that below its limits for a batch whose attempts all      *)
(* arrive in one minute, and none of which stored occurrences and then      *)
(* failed, however often its 2xx is lost.                                   *)
ExactInMinute ==
    \A f \in Committed :
        (\A q, r \in Attempts(req[f[1]].batch) :
            req[q].minute = req[r].minute /\ req[r].st # "partial") => CountedOnce(f)

(* Shutdown loses nothing that ClickHouse accepted: what is not stored once *)
(* stop() is done failed to be written.                                     *)
ShutdownStoresAll ==
    stopped = "flushed" /\ ~flushing =>
        Committed \ StoredFolds \subseteq UNION {d.folds : d \in carry}

(* What the samples say is exact for a loop within a minute, and a shutdown  *)
(* writes all of it.                                                         *)
SamplesExact == ExactInMinute /\ ShutdownStoresAll

(* Every committed fold is stored in the end, even when another request of  *)
(* its window hangs for ever (the forced flush).                            *)
CommittedIsStored == \A f \in Fold : f \in Committed ~> f \in StoredFolds
=============================================================================
