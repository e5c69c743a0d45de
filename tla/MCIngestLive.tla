---------------------------- MODULE MCIngestLive ----------------------------
(* What the ingester must get done in the end, on small instances: the loop  *)
(* collapser, the sink forwarder and the drop counter share no state, so a   *)
(* behaviour runs one of them (`part') and leaves the others as they start.  *)
EXTENDS LoopCollapse, SinkForwarder, IngestDrops, TLC

CONSTANTS r1, r2, b1, b2, x, y, z, i1, i2, t1, o1, o2

VARIABLE part   \* the component this behaviour runs

LiveContent == b1 :> <<x>> @@ b2 :> <<y, z>>
LiveIdent == [o \in Occ |-> IF o = z THEN i2 ELSE i1]
LiveTenant == [i \in Ident |-> t1]
LiveTimes == [o \in Occ |-> IF o = x THEN 2 ELSE 1]

liveVars == <<vars, forwarderVars, dropsVars, part>>
Alone(name, rest) == part = name /\ UNCHANGED <<rest, part>>
OnlyLoop == Alone("loop", <<forwarderVars, dropsVars>>)
OnlySink == Alone("sink", <<vars, dropsVars>>)
OnlyDrops == Alone("drops", <<vars, forwarderVars>>)

LiveInit ==
    /\ Init /\ ForwarderInit /\ DropsInit
    /\ part \in {"loop", "sink", "drops"}

LiveNext ==
    \/ Operating /\ OnlyLoop
    \/ ForwarderRuns /\ OnlySink
    \/ DropsNext /\ OnlyDrops

(* The fairness of RunningSpec, RunningForwarder and FairDrops. *)
LiveSpec ==
    /\ LiveInit /\ [][LiveNext]_liveVars
    /\ WF_liveVars(Tick /\ OnlyLoop)
    /\ WF_liveVars(FlushTimer /\ OnlyLoop)
    /\ WF_liveVars(FlushEnds /\ OnlyLoop)
    /\ \A r \in Request : WF_liveVars(PlanStep(r) /\ OnlyLoop)
    /\ \A t \in Tenant :
         /\ SF_liveVars(FlushStores(t) /\ OnlyLoop)
         /\ WF_liveVars((FlushStores(t) \/ FlushFails(t)) /\ OnlyLoop)
    /\ WF_liveVars(Loop /\ OnlySink)
    /\ WF_liveVars(WakeTimerFires /\ OnlySink)
    /\ WF_liveVars(Finally /\ OnlySink)
    /\ \A b \in Seqs :
         /\ WF_liveVars(BackoffEnds(b) /\ OnlySink)
         /\ WF_liveVars(Settles(b) /\ OnlySink)
    /\ WF_liveVars(DropTimerFires /\ OnlyDrops)
    /\ WF_liveVars((WriteSucceeds \/ WriteFails) /\ OnlyDrops)

(* The fold of a loop and the row of a drop are stored in the end, whatever  *)
(* else hangs or stalls.                                                     *)
StoredInTheEnd == CommittedIsStored /\ BufferDrains
=============================================================================
