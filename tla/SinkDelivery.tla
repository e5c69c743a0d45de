---------------------------- MODULE SinkDelivery ----------------------------
(***************************************************************************)
(* What the sink promises the ingest routes (docs: delivery is at least     *)
(* once within a process lifetime; every batch given up on is reported).    *)
(* Nothing is said of queues, bytes, concurrency or retries.                *)
(***************************************************************************)
CONSTANT Batch

VARIABLES
    pending,    \* accepted, not settled yet
    delivered,  \* the consumer answered 2xx
    dropped,    \* reported to runtime_ingest_drops
    received,   \* the consumer processed it, perhaps more than once
    open        \* the sink takes batches

vars == <<pending, delivered, dropped, received, open>>

Known == pending \cup delivered \cup dropped

Init ==
    /\ pending = {} /\ delivered = {} /\ dropped = {} /\ received = {}
    /\ open = TRUE

Accept(b) ==
    /\ open /\ b \notin Known
    /\ pending' = pending \cup {b}
    /\ UNCHANGED <<delivered, dropped, received, open>>

Refuse(b) ==
    /\ open /\ b \notin Known
    /\ dropped' = dropped \cup {b}
    /\ UNCHANGED <<pending, delivered, received, open>>

(* The consumer processes a batch whose answer is lost. *)
Receive(b) ==
    /\ b \in pending
    /\ received' = received \cup {b}
    /\ UNCHANGED <<pending, delivered, dropped, open>>

Deliver(b) ==
    /\ b \in pending
    /\ pending' = pending \ {b}
    /\ delivered' = delivered \cup {b}
    /\ received' = received \cup {b}
    /\ UNCHANGED <<dropped, open>>

(* Given up: the consumer may have processed it all the same. *)
Drop(b) ==
    /\ b \in pending
    /\ pending' = pending \ {b}
    /\ dropped' = dropped \cup {b}
    /\ received' \in {received, received \cup {b}}
    /\ UNCHANGED <<delivered, open>>

Close == open /\ open' = FALSE /\ UNCHANGED <<pending, delivered, dropped, received>>

Next ==
    \/ Close
    \/ \E b \in Batch : Accept(b) \/ Refuse(b) \/ Receive(b) \/ Deliver(b) \/ Drop(b)

Spec == Init /\ [][Next]_vars

(* While the process runs, no batch waits for ever. *)
FairSpec == Spec /\ \A b \in Batch : WF_vars(Deliver(b) \/ Drop(b))
=============================================================================
