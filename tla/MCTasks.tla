------------------------------- MODULE MCTasks -------------------------------
(* The task cycle, with two durable leases and one without the durable     *)
(* protocol, and the prefetch that holds still around its batches, with    *)
(* two approvals of one file and one of another.  The models share no      *)
(* state, so a behaviour takes the steps of one of them.                   *)
EXTENDS TaskCycle, Prefetch, TLC

CONSTANTS d1, d2, p1, r1, r2

VARIABLE part   \* the part whose steps a behaviour takes

MCLeases == {d1, d2}
MCPlain == {p1}
MCTaskOf == [l \in MCLeases |-> l]
MCE3 == {}
MCResults == {"done", "unknown"}

MCserved == [t \in Targets |-> IF t = "t3" THEN "f2" ELSE "f1"]
MCkeeps == [t \in Targets |-> {MCserved[t]}]
MCRuns == {r1, r2}

Symm == {f @@ g : f \in Permutations({d1, d2}), g \in Permutations(MCRuns)}

MCInit ==
    /\ part \in {"cycle", "prefetch"}
    /\ Init /\ PrefetchInit
    /\ (part = "cycle" => p.allowed /\ \A d \in Digests : files[d] = NoFile)

MCNext ==
    \/ part = "cycle" /\ Next /\ UNCHANGED <<part, prefetchVars>>
    \/ part = "prefetch" /\ PrefetchNext /\ UNCHANGED <<part, vars>>

MCSpec == MCInit /\ [][MCNext]_<<part, vars, prefetchVars>>

(* TasksTypeOK: the type invariant of the part at work.                    *)
TasksTypeOK == IF part = "cycle" THEN TypeOK ELSE PrefetchTypeOK
=============================================================================
