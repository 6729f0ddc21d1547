---------------------------- MODULE MonitorManager ----------------------------
(***************************************************************************)
(* monitorManager (cmd/lattice-agent/main.go): one goroutine per assigned  *)
(* monitor, started, cancelled and replaced by reconcile.  A cancelled     *)
(* goroutine finishes the probe it is in, and its select may take a tick   *)
(* that is ready once more before it takes the cancellation, so goroutines *)
(* of an old and of a new definition run side by side for a while.         *)
(***************************************************************************)
EXTENDS Integers, FiniteSets

CONSTANTS
    Monitors,    \* monitor IDs
    Specs,       \* probe definitions that monitorChanged tells apart
    Goroutines   \* bound: goroutines alive at a time

VARIABLES
    active,      \* monitorManager.active: the goroutine and spec of each ID
    runner,      \* each goroutine: its monitor, spec, state and whether cancelled
    assigned,    \* ghost: the last assignment that was fetched
    latest       \* ghost: the spec of the last result queued for each ID

managerVars == <<active, runner, assigned, latest>>

None == "none"

ASSUME ManagerAssumption == None \notin Monitors \cup Specs \cup Goroutines

Idle0 == [id |-> None, spec |-> None, at |-> "gone", cancelled |-> FALSE]
Entry == [run : Goroutines, spec : Specs] \cup {[run |-> None, spec |-> None]}
NoEntry == [run |-> None, spec |-> None]

ManagerTypeOK ==
    /\ active \in [Monitors -> Entry]
    /\ runner \in [Goroutines -> [id : Monitors \cup {None}, spec : Specs \cup {None},
                                  at : {"probing", "waiting", "gone"}, cancelled : BOOLEAN]]
    /\ assigned \in [Monitors -> Specs \cup {None}]
    /\ latest \in [Monitors -> Specs \cup {None}]

ManagerInit ==
    /\ active = [i \in Monitors |-> NoEntry]
    /\ runner = [g \in Goroutines |-> Idle0]
    /\ assigned = [i \in Monitors |-> None]
    /\ latest = [i \in Monitors |-> None]

-----------------------------------------------------------------------------
(* Faulty: a changed monitor is replaced without cancelling its goroutine. *)
StoppedForgets(i, want) == want[i] = None /\ active[i].run # None

(* The IDs whose goroutine reconcile cancels: gone or changed.             *)
Stopped(i, want) == active[i].run # None /\ want[i] # active[i].spec

(* The IDs reconcile starts.                                               *)
Started(i, want) == want[i] # None /\ want[i] # active[i].spec

(* reconcile, under the lock: cancel what is gone or changed, then start   *)
(* what is missing on free goroutines.                                     *)
reconcile(want) ==
    /\ assigned' = want
    /\ LET new == {i \in Monitors : Started(i, want)}
           free == {g \in Goroutines : runner[g].at = "gone"}
       IN  \E on \in [new -> free] :
              /\ \A i, j \in new : on[i] = on[j] => i = j
              /\ active' = [i \in Monitors |->
                    IF i \in new THEN [run |-> on[i], spec |-> want[i]]
                    ELSE IF want[i] = None THEN NoEntry ELSE active[i]]
              /\ runner' = [g \in Goroutines |->
                    IF \E i \in new : on[i] = g
                    THEN LET i == CHOOSE i \in new : on[i] = g
                         IN  [id |-> i, spec |-> want[i], at |-> "probing", cancelled |-> FALSE]
                    ELSE IF \E i \in Monitors : active[i].run = g /\ Stopped(i, want)
                    THEN [runner[g] EXCEPT !.cancelled = TRUE]
                    ELSE runner[g]]
    /\ UNCHANGED latest

(* probe ends: its result is queued, cancelled or not.                     *)
probe(g) ==
    /\ runner[g].at = "probing"
    /\ runner' = [runner EXCEPT ![g].at = "waiting"]
    /\ latest' = [latest EXCEPT ![runner[g].id] = runner[g].spec]
    /\ UNCHANGED <<active, assigned>>

(* run's select takes a tick, even when ctx is done as well.               *)
Tick(g) ==
    /\ runner[g].at = "waiting"
    /\ runner' = [runner EXCEPT ![g].at = "probing"]
    /\ UNCHANGED <<active, assigned, latest>>

(* run's select takes the cancellation.                                    *)
Exit(g) ==
    /\ runner[g].at = "waiting" /\ runner[g].cancelled
    /\ runner' = [runner EXCEPT ![g] = Idle0]
    /\ UNCHANGED <<active, assigned, latest>>

ManagerNext ==
    \/ \E want \in [Monitors -> Specs \cup {None}] : reconcile(want)
    \/ \E g \in Goroutines : probe(g) \/ Tick(g) \/ Exit(g)

-----------------------------------------------------------------------------
(* ProbedAsAssigned: whatever was assigned before, the goroutines that are *)
(* not cancelled are exactly one per assigned monitor, with its definition *)
(* of now.                                                                 *)
ProbedAsAssigned ==
    \A i \in Monitors :
        LET mine == {g \in Goroutines : runner[g].id = i /\ ~runner[g].cancelled}
        IN  IF assigned[i] = None THEN mine = {}
            ELSE mine = {active[i].run} /\ runner[active[i].run].spec = assigned[i]

(* Fairness: a probe ends (it has a deadline), tickers tick, and select    *)
(* chooses at random among what is ready.                                  *)
ManagerFairness ==
    \A g \in Goroutines :
        /\ WF_managerVars(probe(g))
        /\ WF_managerVars(Tick(g))
        /\ SF_managerVars(Exit(g))

(* OldDefinitionsFade: when assignments no longer change, the last result  *)
(* queued for a monitor is in the end always one of its definition of now, *)
(* although replaced goroutines may queue results after their successor.   *)
OldDefinitionsFade ==
    \A i \in Monitors : \A s \in Specs :
        <>[](assigned[i] = s) => <>[](latest[i] = s)
=============================================================================
