----------------------------- MODULE IngestDrops -----------------------------
(***************************************************************************)
(* IngestDropCounter of the OTLP ingester (ingest-drops.ts): what was       *)
(* refused or not stored is counted in memory, one row per tenant, minute,  *)
(* route, reason and key hash, and written in one batch every few seconds.  *)
(* A failed or stalled write is never repeated.                             *)
(***************************************************************************)
EXTENDS Integers, FiniteSets, Functions, FiniteSetsExt

CONSTANTS
    DropTenant,         \* what a drop of a known tenant is counted under
    Anon,           \* what a drop of a key that did not resolve is counted under
    Hash, NoHash,   \* key hashes
    MaxRows,        \* distinct rows buffered between writes
    MaxKeyHashes,   \* distinct key hashes buffered between writes
    MaxDrops        \* bound: drops recorded

ASSUME DropsConstants ==
    /\ MaxRows \in Nat /\ MaxKeyHashes \in Nat /\ MaxDrops \in Nat
    /\ NoHash \notin Hash /\ DropTenant \cap Anon = {}
    /\ IsFiniteSet(DropTenant) /\ IsFiniteSet(Anon) /\ IsFiniteSet(Hash)

RowKey == (DropTenant \cup Anon) \X (Hash \cup {NoHash})
Counts == [RowKey -> Nat]
Nothing == [k \in RowKey |-> 0]

VARIABLES
    buffered,       \* the buffered rows' counts (0: no row)
    keyHashes,  \* distinct hashes buffered
    overflow,   \* overflowRequests, per row it would have been
    dropWrite,      \* the rows of the write under way, or Nothing
    writePending,   \* the promise of that write is set
    timer,      \* the flush timer runs
    stopping,   \* "no", "waiting" (stop() awaits flush()), "stopped"
    recorded,   \* every drop recorded, per row (history)
    written, discarded, \* rows written, rows dropped with a failed write
    table       \* what the ClickHouse table holds

dropsVars == <<buffered, keyHashes, overflow, dropWrite, writePending, timer, stopping,
          recorded, written, discarded, table>>

Plus(f, g) == [k \in RowKey |-> f[k] + g[k]]
RowsIn(f) == {k \in RowKey : f[k] > 0}
Total(f) == FoldFunction(+, 0, f)

DropsInit ==
    /\ buffered = Nothing /\ keyHashes = {} /\ overflow = Nothing
    /\ dropWrite = Nothing /\ writePending = FALSE
    /\ timer = TRUE /\ stopping = "no"
    /\ recorded = Nothing /\ written = Nothing /\ discarded = Nothing
    /\ table = Nothing

-----------------------------------------------------------------------------

(* A new hash past the bound is counted without one; a tenant has none.     *)
CountedUnder(who, hash) ==
    IF who \in DropTenant \/ (hash \notin keyHashes /\ Cardinality(keyHashes) >= MaxKeyHashes)
    THEN <<who, NoHash>> ELSE <<who, hash>>

HashOf(k) == {k[2]} \ {NoHash}

Record(who, hash) ==
    LET k == CountedUnder(who, hash) IN
    /\ stopping # "stopped" /\ Total(recorded) < MaxDrops
    /\ recorded' = [recorded EXCEPT ![k] = @ + 1]
    /\ IF buffered[k] = 0 /\ Cardinality(RowsIn(buffered)) >= MaxRows
       THEN /\ overflow' = [overflow EXCEPT ![k] = @ + 1]
            /\ UNCHANGED <<buffered, keyHashes>>
       ELSE /\ buffered' = [buffered EXCEPT ![k] = @ + 1]
            /\ keyHashes' = IF buffered[k] = 0 THEN keyHashes \cup HashOf(k) ELSE keyHashes
            /\ UNCHANGED overflow
    /\ UNCHANGED <<dropWrite, writePending, timer, stopping, written, discarded, table>>

(* Mutant of Flush: it does not wait for the write in flight. *)
FlushOverlapping ==
    IF RowsIn(buffered) = {}
    THEN UNCHANGED <<buffered, keyHashes, dropWrite, writePending>>
    ELSE /\ dropWrite' = buffered /\ writePending' = TRUE
         /\ buffered' = Nothing /\ keyHashes' = {}

(* flush(): nothing while a write is in flight, or nothing is buffered.     *)
Flush ==
    IF writePending \/ RowsIn(buffered) = {}
    THEN UNCHANGED <<buffered, keyHashes, dropWrite, writePending>>
    ELSE /\ dropWrite' = buffered /\ writePending' = TRUE
         /\ buffered' = Nothing /\ keyHashes' = {}

DropTimerFires ==
    /\ timer
    /\ Flush
    /\ UNCHANGED <<overflow, timer, stopping, recorded, written, discarded, table>>

(* The write settles, and its `finally' runs. *)
WriteSucceeds ==
    /\ dropWrite # Nothing
    /\ written' = Plus(written, dropWrite)
    /\ table' = Plus(table, dropWrite)
    /\ dropWrite' = Nothing /\ writePending' = FALSE
    /\ UNCHANGED <<buffered, keyHashes, overflow, timer, stopping, recorded, discarded>>

(* Mutant of WriteFails: the promise is cleared on success only. *)
WriteFailsUncleared ==
    /\ dropWrite # Nothing
    /\ discarded' = Plus(discarded, dropWrite)
    /\ table' \in {table, Plus(table, dropWrite)}
    /\ dropWrite' = Nothing
    /\ UNCHANGED <<buffered, keyHashes, overflow, writePending, timer, stopping, recorded, written>>

(* It is rejected, or has not settled after writeTimeoutMs; ClickHouse may  *)
(* have stored the rows, or store them yet.                            *)
WriteFails ==
    /\ dropWrite # Nothing
    /\ discarded' = Plus(discarded, dropWrite)
    /\ table' \in {table, Plus(table, dropWrite)}
    /\ dropWrite' = Nothing /\ writePending' = FALSE
    /\ UNCHANGED <<buffered, keyHashes, overflow, timer, stopping, recorded, written>>

(* stop(): the timer is cleared and flush() called; its promise is that of  *)
(* the write in flight, if there is one.                                    *)
StopDrops ==
    /\ stopping = "no"
    /\ timer' = FALSE /\ stopping' = "waiting"
    /\ Flush
    /\ UNCHANGED <<overflow, recorded, written, discarded, table>>

(* stop() resolves; the caller closes the store and exits. *)
StopReturns ==
    /\ stopping = "waiting" /\ ~writePending
    /\ stopping' = "stopped"
    /\ UNCHANGED <<buffered, keyHashes, overflow, dropWrite, writePending, timer, recorded,
                   written, discarded, table>>

DropsNext ==
    \/ \E who \in DropTenant \cup Anon, hash \in Hash \cup {NoHash} : Record(who, hash)
    \/ DropTimerFires \/ WriteSucceeds \/ WriteFails \/ StopDrops \/ StopReturns

DropsSpec == DropsInit /\ [][DropsNext]_dropsVars

(* The timer fires while it is set, and a write settles or times out.       *)
FairDrops == DropsSpec /\ WF_dropsVars(DropTimerFires) /\ WF_dropsVars(WriteSucceeds \/ WriteFails)

-----------------------------------------------------------------------------
DropsTypeOK ==
    /\ {buffered, overflow, dropWrite, recorded, written, discarded, table} \subseteq Counts
    /\ keyHashes \subseteq Hash
    /\ writePending \in BOOLEAN /\ timer \in BOOLEAN
    /\ stopping \in {"no", "waiting", "stopped"}

(* Every drop recorded is buffered, in flight, written, discarded with a    *)
(* failed write, or counted as overflow: once, however records and writes   *)
(* interleave (rows recorded during a write wait for the next one).         *)
DropsConserved ==
    recorded = Plus(buffered, Plus(dropWrite, Plus(written, Plus(discarded, overflow))))

(* A reader of the table never sees a drop twice, nor misses one that       *)
(* was counted as written: writes are not repeated.                         *)
TableExact ==
    \A k \in RowKey :
        /\ written[k] <= table[k]
        /\ table[k] <= written[k] + discarded[k]

(* The buffer keeps its two bounds, and the hashes that count against the   *)
(* second are those of the buffered rows.                                     *)
BufferBounded ==
    /\ Cardinality(RowsIn(buffered)) <= MaxRows
    /\ Cardinality(keyHashes) <= MaxKeyHashes
    /\ keyHashes = {k[2] : k \in RowsIn(buffered)} \ {NoHash}

(* Every drop is accounted for in a buffer that keeps its bounds, and the    *)
(* table says so.                                                            *)
DropsAccounted == DropsTypeOK /\ DropsConserved /\ TableExact /\ BufferBounded

(* A stalled write does not stop the counting: until shutdown, a buffered   *)
(* row is written or discarded in the end.                                  *)
BufferDrains == \A k \in RowKey : buffered[k] > 0 ~> (buffered[k] = 0 \/ stopping # "no")

(* "Stop the timer and write what is buffered (shutdown)."                   *)
(* (ingest-drops.ts:504): what was counted before stop() was called is       *)
(* written, or dropped with a failed write, once it resolved.                *)
ShutdownWritesBuffered ==
    \A k \in RowKey, n \in 1 .. MaxDrops :
        [](stopping = "no" /\ recorded[k] - overflow[k] >= n =>
              [](stopping = "stopped" => written[k] + discarded[k] >= n))
=============================================================================
