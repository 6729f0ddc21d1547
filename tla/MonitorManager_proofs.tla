------------------------ MODULE MonitorManager_proofs ------------------------
(***************************************************************************)
(* Each monitor is probed as assigned, for any number of monitors,         *)
(* definitions and goroutines that have not noticed their cancellation.    *)
(* The map of active monitors and the goroutines lead to each other: an    *)
(* entry to the goroutine it names, and a goroutine that is not cancelled  *)
(* to the entry of its monitor.                                            *)
(***************************************************************************)
EXTENDS MonitorManager, TLAPS

ManagerSpec == ManagerInit /\ [][ManagerNext]_managerVars

EntryLeads ==
    \A i \in Monitors :
        /\ assigned[i] = active[i].spec
        /\ active[i].run # None =>
              /\ runner[active[i].run].id = i /\ runner[active[i].run].spec = active[i].spec
              /\ runner[active[i].run].at # "gone" /\ ~runner[active[i].run].cancelled

RunnerLeads ==
    \A g \in Goroutines :
        IF runner[g].at = "gone" THEN runner[g] = Idle0
        ELSE /\ runner[g].id \in Monitors
             /\ ~runner[g].cancelled => active[runner[g].id].run = g

ManagerInv == ManagerTypeOK /\ EntryLeads /\ RunnerLeads

(* Nothing is assigned at first.                                           *)
LEMMA ManagerInitially == ManagerInit => ManagerInv
  BY ManagerAssumption
  DEF ManagerInit, ManagerInv, ManagerTypeOK, EntryLeads, RunnerLeads, NoEntry, Entry, Idle0, None

(* A goroutine that leads where it leads probes its monitor as assigned.   *)
LEMMA InvImpliesProbed == ManagerInv => ProbedAsAssigned
  <1> SUFFICES ASSUME ManagerInv, NEW i \in Monitors
               PROVE  LET mine == {g \in Goroutines : runner[g].id = i /\ ~runner[g].cancelled}
                      IN  IF assigned[i] = None THEN mine = {}
                          ELSE mine = {active[i].run} /\ runner[active[i].run].spec = assigned[i]
    BY DEF ProbedAsAssigned
  <1>1. \A g \in Goroutines : runner[g].id = i /\ ~runner[g].cancelled => active[i].run = g
    BY ManagerAssumption DEF ManagerInv, RunnerLeads, Idle0
  <1>2. active[i] \in Entry /\ (active[i].run = None <=> active[i].spec = None)
    BY ManagerAssumption DEF ManagerInv, ManagerTypeOK, Entry
  <1>3. CASE assigned[i] = None
    BY <1>1, <1>2, <1>3, ManagerAssumption DEF ManagerInv, EntryLeads
  <1>4. CASE assigned[i] # None
    <2>1. active[i].run \in Goroutines
      BY <1>2, <1>4 DEF ManagerInv, EntryLeads, Entry
    <2> QED
      BY <1>1, <1>2, <1>4, <2>1 DEF ManagerInv, EntryLeads
  <1> QED
    BY <1>3, <1>4

(* The steps of a goroutine leave the entries and its identity alone.      *)
LEMMA RunnerSteps ==
  ASSUME ManagerInv, NEW g \in Goroutines, probe(g) \/ Tick(g) \/ Exit(g)
  PROVE  ManagerInv'
  <1>1. CASE probe(g)
    <2>1. runner[g].id \in Monitors /\ runner[g].spec \in Specs \cup {None}
      BY <1>1 DEF probe, ManagerInv, ManagerTypeOK, RunnerLeads
    <2>2. ManagerTypeOK'
      BY <1>1, <2>1 DEF probe, ManagerInv, ManagerTypeOK
    <2> QED
      BY <1>1, <2>2 DEF probe, ManagerInv, ManagerTypeOK, EntryLeads, RunnerLeads
  <1>2. CASE Tick(g)
    BY <1>2 DEF Tick, ManagerInv, ManagerTypeOK, EntryLeads, RunnerLeads
  <1>3. CASE Exit(g)
    <2>1. \A i \in Monitors : active[i].run # g
      BY <1>3, ManagerAssumption DEF Exit, ManagerInv, EntryLeads
    <2>2. Idle0 \in [id : Monitors \cup {None}, spec : Specs \cup {None},
                     at : {"probing", "waiting", "gone"}, cancelled : BOOLEAN]
      BY DEF Idle0
    <2>3. ManagerTypeOK'
      BY <1>3, <2>2 DEF Exit, ManagerInv, ManagerTypeOK
    <2>4. EntryLeads'
      BY <1>3, <2>1 DEF Exit, ManagerInv, ManagerTypeOK, EntryLeads, Entry
    <2>5. RunnerLeads'
      BY <1>3 DEF Exit, ManagerInv, ManagerTypeOK, RunnerLeads, Idle0
    <2> QED
      BY <2>3, <2>4, <2>5 DEF ManagerInv
  <1> QED
    BY <1>1, <1>2, <1>3

(* reconcile cancels exactly the goroutines whose entries it replaces, and *)
(* starts the others on goroutines nobody uses.                            *)
LEMMA ReconcileStep ==
  ASSUME ManagerInv, NEW want \in [Monitors -> Specs \cup {None}], reconcile(want)
  PROVE  ManagerInv'
  <1> DEFINE new == {i \in Monitors : Started(i, want)}
             free == {g \in Goroutines : runner[g].at = "gone"}
             Runner == [id : Monitors \cup {None}, spec : Specs \cup {None},
                        at : {"probing", "waiting", "gone"}, cancelled : BOOLEAN]
  <1>1. PICK on \in [new -> free] :
          /\ \A i, j \in new : on[i] = on[j] => i = j
          /\ active' = [i \in Monitors |->
                IF i \in new THEN [run |-> on[i], spec |-> want[i]]
                ELSE IF want[i] = None THEN NoEntry ELSE active[i]]
          /\ runner' = [g \in Goroutines |->
                IF \E i \in new : on[i] = g
                THEN LET i == CHOOSE i \in new : on[i] = g
                     IN  [id |-> i, spec |-> want[i], at |-> "probing", cancelled |-> FALSE]
                ELSE IF \E i \in Monitors : active[i].run = g /\ Stopped(i, want)
                THEN [runner[g] EXCEPT !.cancelled = TRUE]
                ELSE runner[g]]
    BY DEF reconcile
  <1>2. assigned' = want /\ latest' = latest
    BY DEF reconcile
  <1>3. \A i \in Monitors : active[i] \in Entry /\ (active[i].run = None <=> active[i].spec = None)
    BY ManagerAssumption DEF ManagerInv, ManagerTypeOK, Entry
  <1>4. \A i \in new :
          /\ on[i] \in Goroutines /\ want[i] \in Specs /\ on[i] \in free
          /\ runner'[on[i]] = [id |-> i, spec |-> want[i], at |-> "probing", cancelled |-> FALSE]
    <2> SUFFICES ASSUME NEW i \in new
                 PROVE  /\ on[i] \in Goroutines /\ want[i] \in Specs /\ on[i] \in free
                        /\ runner'[on[i]] =
                             [id |-> i, spec |-> want[i], at |-> "probing", cancelled |-> FALSE]
      OBVIOUS
    <2>1. on[i] \in Goroutines /\ want[i] \in Specs /\ on[i] \in free
      BY DEF Started
    <2>2. (CHOOSE j \in new : on[j] = on[i]) = i
      BY <1>1
    <2> QED
      BY <1>1, <2>1, <2>2
  <1>5. \A g \in Goroutines : (\A i \in new : on[i] # g) =>
          \/ runner'[g] = runner[g] /\ \A i \in Monitors : active[i].run = g => ~Stopped(i, want)
          \/ /\ runner'[g] = [runner[g] EXCEPT !.cancelled = TRUE]
             /\ \E i \in Monitors : active[i].run = g /\ Stopped(i, want)
    BY <1>1
  <1>6. ManagerTypeOK'
    <2>1. active' \in [Monitors -> Entry]
      BY <1>1, <1>3, <1>4 DEF Entry, NoEntry
    <2>2. ASSUME NEW g \in Goroutines
          PROVE  runner'[g] \in Runner
      <3>1. runner[g] \in Runner
        BY DEF ManagerInv, ManagerTypeOK
      <3>2. [runner[g] EXCEPT !.cancelled = TRUE] \in Runner
        BY <3>1
      <3>3. ASSUME NEW i \in new, on[i] = g
            PROVE  runner'[g] \in Runner
        <4>1. [id |-> i, spec |-> want[i], at |-> "probing", cancelled |-> FALSE] \in Runner
          BY <1>4
        <4> QED
          BY <1>4, <3>3, <4>1
      <3> QED
        BY <1>5, <3>1, <3>2, <3>3
    <2>3. runner' \in [Goroutines -> Runner]
      BY <1>1, <2>2
    <2> QED
      BY <1>2, <2>1, <2>3 DEF ManagerInv, ManagerTypeOK
  <1>7. EntryLeads'
    <2> SUFFICES ASSUME NEW i \in Monitors
                 PROVE  /\ want[i] = active'[i].spec
                        /\ active'[i].run # None =>
                              /\ runner'[active'[i].run].id = i
                              /\ runner'[active'[i].run].spec = active'[i].spec
                              /\ runner'[active'[i].run].at # "gone"
                              /\ ~runner'[active'[i].run].cancelled
      BY <1>2 DEF EntryLeads
    <2>1. CASE i \in new
      BY <1>1, <1>4, <2>1
    <2>2. CASE i \notin new /\ want[i] = None
      BY <1>1, <2>2 DEF NoEntry
    <2>3. CASE i \notin new /\ want[i] # None
      <3>1. active'[i] = active[i] /\ want[i] = active[i].spec
        BY <1>1, <2>3 DEF Started
      <3>2. active[i].run \in Goroutines /\ active[i].run # None
        BY <1>3, <2>3, <3>1, ManagerAssumption DEF Entry
      <3>3. \A j \in new : on[j] # active[i].run
        BY <1>4, <3>2 DEF ManagerInv, EntryLeads
      <3>4. \A j \in Monitors : active[j].run = active[i].run => ~Stopped(j, want)
        BY <3>1, <3>2 DEF Stopped, ManagerInv, EntryLeads
      <3>5. runner'[active[i].run] = runner[active[i].run]
        BY <1>5, <3>2, <3>3, <3>4
      <3> QED
        BY <3>1, <3>2, <3>5 DEF ManagerInv, EntryLeads
    <2> QED
      BY <2>1, <2>2, <2>3
  <1>8. RunnerLeads'
    <2> SUFFICES ASSUME NEW g \in Goroutines
                 PROVE  IF runner'[g].at = "gone" THEN runner'[g] = Idle0
                        ELSE /\ runner'[g].id \in Monitors
                             /\ ~runner'[g].cancelled => active'[runner'[g].id].run = g
      BY DEF RunnerLeads
    <2>1. CASE \E i \in new : on[i] = g
      BY <1>1, <1>4, <2>1
    <2>2. CASE runner'[g] = runner[g] /\ \A i \in Monitors : active[i].run = g => ~Stopped(i, want)
      <3>1. CASE runner[g].at = "gone"
        BY <2>2, <3>1 DEF ManagerInv, RunnerLeads
      <3>2. CASE runner[g].at # "gone" /\ runner[g].cancelled
        BY <2>2, <3>2 DEF ManagerInv, RunnerLeads
      <3>3. CASE runner[g].at # "gone" /\ ~runner[g].cancelled
        <4>1. runner[g].id \in Monitors /\ active[runner[g].id].run = g
          BY <3>3 DEF ManagerInv, RunnerLeads
        <4>2. want[runner[g].id] = active[runner[g].id].spec /\ g # None
          BY <2>2, <4>1, ManagerAssumption DEF Stopped
        <4>3. want[runner[g].id] # None
          BY <1>3, <4>1, <4>2
        <4>4. active'[runner[g].id] = active[runner[g].id]
          BY <1>1, <4>1, <4>2, <4>3 DEF Started
        <4> QED
          BY <2>2, <3>3, <4>1, <4>4
      <3> QED
        BY <3>1, <3>2, <3>3
    <2>3. CASE /\ runner'[g] = [runner[g] EXCEPT !.cancelled = TRUE]
               /\ \E i \in Monitors : active[i].run = g /\ Stopped(i, want)
      <3>1. runner[g].at # "gone" /\ runner[g].id \in Monitors
        BY <2>3, ManagerAssumption DEF ManagerInv, EntryLeads, RunnerLeads
      <3>2. /\ runner'[g].at = runner[g].at /\ runner'[g].id = runner[g].id
            /\ runner'[g].cancelled
        BY <2>3 DEF ManagerInv, ManagerTypeOK
      <3> QED
        BY <3>1, <3>2
    <2> QED
      BY <1>5, <2>1, <2>2, <2>3
  <1> QED
    BY <1>6, <1>7, <1>8 DEF ManagerInv

(* ManagerInductive: every step of the manager and of its goroutines keeps *)
(* the two leading to each other.                                          *)
LEMMA ManagerInductive == ManagerInv /\ [ManagerNext]_managerVars => ManagerInv'
  <1>1. ManagerInv /\ UNCHANGED managerVars => ManagerInv'
    BY DEF ManagerInv, ManagerTypeOK, EntryLeads, RunnerLeads, managerVars
  <1> QED
    BY <1>1, ReconcileStep, RunnerSteps DEF ManagerNext

(* ProbedTheorem: after any sequence of assignments exactly one goroutine  *)
(* that is not cancelled probes each assigned monitor, as it is assigned   *)
(* now, however many cancelled ones are still at work.                     *)
THEOREM ProbedTheorem == ManagerSpec => []ProbedAsAssigned
  BY ManagerInitially, ManagerInductive, InvImpliesProbed, PTL DEF ManagerSpec
=============================================================================
