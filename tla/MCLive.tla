------------------------------- MODULE MCLive --------------------------------
(* What the task cycle and the prefetch must come to in the end: one       *)
(* durable lease, and one file over an honest line.  The models share no   *)
(* state, so a behaviour takes the steps of one of them.                   *)
EXTENDS Prefetch

CONSTANT d1

VARIABLES
    part,   \* the part whose steps a behaviour takes
    dir, image, unconfirmed,
    poll, work, busy, batch, cur, todo, acked, stopping, reported, late, runs

cycleVars == <<dir, image, unconfirmed, poll, work, busy, batch, cur, todo, acked, stopping,
               reported, late, runs>>

Cycle == INSTANCE TaskCycle
    WITH Leases <- {d1}, TaskOf <- [l \in {d1} |-> l], E3 <- {}, Results <- {"done", "unknown"},
         Unknown <- "unknown", MaxEntries <- 2, Plain <- {}, Done <- "done", NotRun <- "notrun", MaxBatch <- 2

MCserved == [t \in Targets |-> "d1"]
MCkeeps == [t \in Targets |-> {"d1"}]

MCInit ==
    /\ part \in {"cycle", "prefetch"}
    /\ Cycle!Init /\ PrefetchInit
    /\ (part # "prefetch" => p.allowed /\ files["d1"] = NoFile)

MCNext ==
    \/ part = "cycle" /\ Cycle!Next /\ UNCHANGED <<part, prefetchVars>>
    \/ part = "prefetch" /\ PrefetchNext /\ UNCHANGED <<part, cycleVars>>

MCFairSpec ==
    /\ MCInit /\ [][MCNext]_<<part, cycleVars, prefetchVars>>
    /\ \/ part = "cycle" /\ Cycle!Fairness
       \/ part = "prefetch" /\ PrefetchFairness

(* ResultDelivered: as in TaskCycle, if the agent is eventually left       *)
(* running, a started durable task's result reaches the control plane and  *)
(* its journal is cleared.                                                 *)
ResultDelivered == Cycle!ResultDelivered
=============================================================================
