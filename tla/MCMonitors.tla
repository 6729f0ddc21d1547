----------------------------- MODULE MCMonitors ----------------------------
(* The goroutines that probe and the queue of what they find: three        *)
(* goroutines for two monitors, and a queue of three that overflows while  *)
(* a batch of two is being sent.  A behaviour takes the steps of one.      *)
EXTENDS MonitorManager, MonitorResults

VARIABLE part   \* the part whose steps a behaviour takes

Parts == {"manager", "results"}

MCInit ==
    /\ part \in Parts
    /\ ManagerInit /\ ResultsInit
    /\ (part # "results" => hasRoute)

MCNext ==
    \/ part = "manager" /\ ManagerNext
       /\ UNCHANGED <<part, resultsVars>>
    \/ part = "results" /\ ResultsNext
       /\ UNCHANGED <<part, managerVars>>

mcVars == <<part, managerVars, resultsVars>>

MCSpec == MCInit /\ [][MCNext]_mcVars

MCFairSpec ==
    /\ MCSpec
    /\ \/ part = "manager" /\ ManagerFairness
       \/ part = "results" /\ ResultsFairness

(* MonitorsTypeOK: the type invariant of the part at work.                 *)
MonitorsTypeOK ==
    CASE part = "manager" -> ManagerTypeOK
      [] part = "results" -> ResultsTypeOK
=============================================================================
