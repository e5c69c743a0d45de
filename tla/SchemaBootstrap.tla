---------------------------- MODULE SchemaBootstrap ----------------------------
(***************************************************************************)
(* How ingester replicas bring one ClickHouse database to the schema they   *)
(* insert into (otlp-ingester/src/clickhouse.ts, migrations.ts).  Before it *)
(* inserts, a request waits for ensureSchema(): baseline CREATEs, then the  *)
(* migrations whose id schema_migrations lacks.  Replicas of an old and a   *)
(* new release run at once, without a lock; statements fail, processes die. *)
(*                                                                         *)
(* The schema is cut down to one table that grew columns (runtime_logs),   *)
(* one that came later (runtime_request_1m), and the view that needs both.  *)
(***************************************************************************)
EXTENDS Naturals, Sequences, FiniteSets, SequencesExt, Functions

CONSTANTS
    Replica,
    Call,           \* requests, and the warm-up at boot
    MaxRestarts,    \* bound: restarts of replicas, all together
    MaxSchemaRuns     \* bound: bootstraps of one process

ASSUME SchemaAssumption == MaxRestarts \in Nat /\ MaxSchemaRuns \in Nat \ {0}

VARIABLES
    db,         \* the tables, columns and views there are
    applied,    \* ids in schema_migrations
    replica,    \* version, memo (at), place, ids read, attempts, schemaState
    call,       \* [st, on]: ensureSchema(), then an insert
    outlived,   \* history: calls failed by an attempt over before they came
    refused,    \* history: statements that lacked what they need
    restarts

schemaVars == <<db, applied, replica, call, outlived, refused, restarts>>

Version == {"old", "new"}
Migrations == << <<"request_id">>, <<"request_1m", "request_1m_mv">>, <<"error_code">> >>
Known(v) == IF v = "old" THEN 0 ELSE Len(Migrations)
Needs(o) == CASE o = "request_1m_mv" -> {"runtime_logs", "request_id", "request_1m"}
              [] o \in {"request_id", "error_code"} -> {"runtime_logs"}
              [] OTHER -> {}

(* What an insert of this version names, and its rollups need. *)
ShapeOf(v) == {"runtime_logs"} \cup UNION {Range(Migrations[m]) : m \in 1..Known(v)}

(* schemaStatements(): the tables, and not the view: it reads columns that  *)
(* an existing table lacks until the migrations ran.                        *)
Baseline(v) == IF v = "old" THEN <<"runtime_logs">> ELSE <<"runtime_logs", "request_1m">>

(* CREATE TABLE IF NOT EXISTS: a new table comes in its final shape. *)
Created(o, v) ==
    IF o \in db THEN {}
    ELSE {o} \cup (IF o = "runtime_logs" THEN {"request_id", "error_code"} \cap ShapeOf(v) ELSE {})

FreshReplica(v) == [v |-> v, at |-> "idle", k |-> 1, m |-> 1, read |-> {}, attempt |-> 0, state |-> "pending"]

(* A new database, or one that an old release made. *)
SchemaInit ==
    /\ db \in {{}, {"runtime_logs"}} /\ applied = {}
    /\ \E v \in [Replica -> Version] : replica = [r \in Replica |-> FreshReplica(v[r])]
    /\ call = [c \in Call |-> [st |-> "idle"]]
    /\ outlived = {} /\ refused = {} /\ restarts = 0

Running(r) == replica[r].at \notin {"idle", "rejected", "ready"}

-----------------------------------------------------------------------------
(* Mutant of Memo: the rejected promise is kept. *)
MemoKept(r) == replica[r].at # "idle"

(* ensurePromise is set: this attempt, under way or over, is shared. *)
Memo(r) == replica[r].at \notin {"idle", "rejected"}

(* ensureSchema(): what a caller of an attempt that stands `at' does next. *)
Then_(at) == CASE at = "ready" -> "inserts" [] at = "rejected" -> "failed" [] OTHER -> "waits"
Joins(c, r, at) == [call EXCEPT ![c] = [st |-> Then_(at), on |-> r]]

Ensure(c, r) ==
    /\ call[c].st = "idle"
    /\ \/ /\ Memo(r)
          /\ call' = Joins(c, r, replica[r].at)
          /\ outlived' = IF replica[r].at = "rejected" THEN outlived \cup {c} ELSE outlived
          /\ UNCHANGED replica
       \/ /\ ~Memo(r) /\ replica[r].attempt < MaxSchemaRuns
          /\ replica' = [replica EXCEPT ![r].at = "create", ![r].k = 1, ![r].attempt = @ + 1]
          /\ call' = Joins(c, r, "create") /\ UNCHANGED outlived
    /\ UNCHANGED <<db, applied, refused, restarts>>

(* The attempt settles, and with it those who wait for it. *)
Converged(r, at) ==
    call' = [c \in Call |-> IF call[c].st = "waits" /\ call[c].on = r
                            THEN [call[c] EXCEPT !.st = Then_(at)] ELSE call[c]]
Rejects(r) ==
    /\ replica' = [replica EXCEPT ![r].at = "rejected", ![r].state = "failed"]
    /\ Converged(r, "rejected")

(* One statement: the database refuses it if something it needs is not there. *)
Executes(r, o, effect) ==
    IF Needs(o) \subseteq db THEN db' = db \cup effect /\ UNCHANGED refused
    ELSE refused' = refused \cup {o} /\ UNCHANGED db

Create(r) ==
    LET v == replica[r].v   o == Baseline(v)[replica[r].k]   done == replica[r].k = Len(Baseline(v)) IN
    /\ replica[r].at = "create"
    /\ Executes(r, o, Created(o, v))
    /\ IF Needs(o) \subseteq db
       THEN replica' = [replica EXCEPT ![r].k = IF done THEN 1 ELSE @ + 1, ![r].at = IF done THEN "select" ELSE @]
            /\ UNCHANGED call
       ELSE Rejects(r)
    /\ UNCHANGED <<applied, outlived, restarts>>

(* The migrations this bootstrap runs, in their order. *)
ToRun(v, read) == 1..Known(v) \ read

(* SELECT DISTINCT id: what other replicas record from now on is not seen. *)
Select(r) ==
    /\ replica[r].at = "select"
    /\ replica' = [replica EXCEPT ![r].at = "migrate", ![r].read = applied, ![r].m = 1, ![r].k = 1]
    /\ UNCHANGED <<db, applied, call, outlived, refused, restarts>>

(* Every statement of the current migration ran. *)
Ran(r) == replica[r].k > Len(Migrations[replica[r].m])

Skip(r) ==
    /\ replica[r].at = "migrate" /\ replica[r].m <= Known(replica[r].v)
    /\ replica[r].m \notin ToRun(replica[r].v, replica[r].read)
    /\ replica' = [replica EXCEPT ![r].m = @ + 1]
    /\ UNCHANGED <<db, applied, call, outlived, refused, restarts>>
Statement(r) ==
    LET o == Migrations[replica[r].m][replica[r].k] IN
    /\ replica[r].at = "migrate" /\ replica[r].m \in ToRun(replica[r].v, replica[r].read) /\ ~Ran(r)
    /\ Executes(r, o, {o})
    /\ IF Needs(o) \subseteq db THEN replica' = [replica EXCEPT ![r].k = @ + 1] /\ UNCHANGED call
       ELSE Rejects(r)
    /\ UNCHANGED <<applied, outlived, restarts>>
Record(r) ==
    /\ replica[r].at = "migrate" /\ replica[r].m \in ToRun(replica[r].v, replica[r].read) /\ Ran(r)
    /\ applied' = applied \cup {replica[r].m}
    /\ replica' = [replica EXCEPT ![r].m = @ + 1, ![r].k = 1]
    /\ UNCHANGED <<db, call, outlived, refused, restarts>>

(* applyLogTtl() never fails the bootstrap. *)
Ready(r) ==
    /\ replica[r].at = "migrate" /\ replica[r].m > Known(replica[r].v)
    /\ replica' = [replica EXCEPT ![r].at = "ready", ![r].state = "ready"] /\ Converged(r, "ready")
    /\ UNCHANGED <<db, applied, outlived, refused, restarts>>

(* A query fails (its effect may have been made by the step before). *)
Fails(r) ==
    /\ Running(r) /\ Rejects(r)
    /\ UNCHANGED <<db, applied, outlived, refused, restarts>>

(* The insert of a request that waited; the tables it names must be there. *)
Insert(c) ==
    /\ call[c].st = "inserts"
    /\ refused' = IF ShapeOf(replica[call[c].on].v) \subseteq db THEN refused ELSE refused \cup {"insert"}
    /\ call' = [call EXCEPT ![c] = [st |-> "idle"]]
    /\ UNCHANGED <<db, applied, replica, outlived, restarts>>

(* A replica dies, with its requests, and starts as either release. *)
Restart(r, v) ==
    /\ restarts < MaxRestarts /\ restarts' = restarts + 1
    /\ replica' = [replica EXCEPT ![r] = FreshReplica(v)]
    /\ call' = [c \in Call |-> IF call[c].st \in {"waits", "inserts"} /\ call[c].on = r
                               THEN [st |-> "idle"] ELSE call[c]]
    /\ UNCHANGED <<db, applied, outlived, refused>>

SchemaNext ==
    \/ \E r \in Replica :
          \/ Create(r) \/ Select(r) \/ Skip(r) \/ Statement(r) \/ Record(r) \/ Ready(r) \/ Fails(r)
          \/ \E c \in Call : Ensure(c, r)
          \/ \E v \in Version : Restart(r, v)
    \/ \E c \in Call : Insert(c)

-----------------------------------------------------------------------------
SchemaTypeOK ==
    /\ db \subseteq ShapeOf("new") /\ applied \subseteq 1..Len(Migrations)
    /\ \A r \in Replica :
         /\ replica[r].at \in {"idle", "create", "select", "migrate", "ready", "rejected"}
         /\ replica[r].state \in {"pending", "ready", "failed"} /\ replica[r].attempt \in 0..MaxSchemaRuns
    /\ \A c \in Call : call[c].st \in {"idle", "waits", "inserts", "failed"}

(* A process whose memo resolved finds every table and column it inserts,   *)
(* and the view that counts its rows, whatever other replicas, failures and *)
(* crashes did (the schemaState of /v1/compat says so: "ready").            *)
ReadyMeansShape ==
    \A r \in Replica : replica[r].at = "ready" =>
        ShapeOf(replica[r].v) \subseteq db /\ 1..Known(replica[r].v) \subseteq applied

(* An id is recorded only once all its statements are in effect: a failure  *)
(* or crash half way leaves the migration to be run again.                  *)
RecordedInEffect == \A m \in applied : Range(Migrations[m]) \subseteq db

(* No database state, however it came about, lacks what a statement or an   *)
(* insert needs: a bootstrap fails for want of an answer only, so the next  *)
(* request's attempt can succeed (clickhouse.ts:252: "a failure clears the  *)
(* memo so the next request retries").                                      *)
BootstrapCanSucceed == refused = {} /\ outlived = {}
=============================================================================
