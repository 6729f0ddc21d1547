-------------------- MODULE TaskCycle_proofs --------------------
(***************************************************************************)
(* CycleInv is an invariant of TaskCycle for every set of leases, every    *)
(* batch size and every outbox capacity: it holds initially, and the steps *)
(* of the flush, the network and the process keep it too; the safety       *)
(* properties follow.                                                      *)
(***************************************************************************)
EXTENDS TaskCycleSteps_proofs

USE DEF store, agent, server, Absent, Leased

(* The initial states: nothing journaled, nothing running.                 *)
LEMMA InitInv == Init => CycleInv
  <1> USE OutboxAssumption, CycleAssumption DEF AllLeases
  <1> SUFFICES ASSUME Init PROVE CycleInv
    OBVIOUS
  <1>1. TypeOK
    <2>1. StoreTypeOK
      BY Zenon DEF Init, StoreInit, StoreTypeOK, Files
    <2>2. /\ reported \in [AllLeases -> SUBSET (Results \cup {NotRun})]
          /\ runs \in [AllLeases -> 0..2]
      BY DEF Init
    <2> QED
      BY <2>1, <2>2, Zenon DEF Init, TypeOK, PollPC, WorkPC
  <1>2. \A l \in Leases : JournalOf(l)
    BY DEF Init, StoreInit, JournalOf, Sent
  <1>3. Owner /\ BatchFresh /\ PollAt /\ WorkAt /\ FlushAt(poll) /\ FlushAt(work)
    BY DEF Init, StoreInit, Owner, BatchFresh, PollAt, WorkAt, FlushAt
  <1> QED
    BY <1>1, <1>2, <1>3 DEF CycleInv

(* Late requests, start, shutdown and crashes.                             *)
LEMMA ProcessStep ==
  ASSUME CycleInv, TypeOK', LateArrival \/ Start \/ Shutdown \/ Exit \/ Kill \/ Outage
  PROVE  CycleInv'
  <1>types. TypeOK
    BY DEF CycleInv
  <1>journals. Journals
    BY DEF CycleInv, Journals
  <1>owner. Owner
    BY DEF CycleInv
  <1>batch. BatchFresh
    BY DEF CycleInv
  <1>flush. FlushAt(poll) /\ FlushAt(work)
    BY DEF CycleInv
  <1>poll. PollAt
    BY DEF CycleInv
  <1>work. WorkAt
    BY DEF CycleInv
  <1>1. CASE LateArrival
    <2>1. Journals'
      BY <1>1, <1>types, <1>journals, CycleAssumption DEF LateArrival, Receive, Posts,
         Journals, JournalOf, Sent, TypeOK, StoreTypeOK, AllLeases
    <2>2. BatchFresh'
      BY <1>1, <1>types, <1>batch DEF LateArrival, Receive, Posts, BatchFresh, Sent,
         TypeOK, StoreTypeOK, AllLeases
    <2>3. FlushAt(poll)' /\ FlushAt(work)'
      BY <1>1, <1>types, <1>flush DEF LateArrival, Receive, Posts, Settled,
         PendingEntries, Pending, FlushAt, TypeOK, StoreTypeOK, AllLeases
    <2>4. Owner' /\ PollAt' /\ WorkAt'
      BY <1>1, <1>owner, <1>poll, <1>work DEF LateArrival, Receive, Posts, Owner,
         PollAt, Empty, WorkAt
    <2> QED
      BY <2>1, <2>2, <2>3, <2>4 DEF CycleInv, Journals
  <1>2. CASE Start
    <2>1. Journals'
      BY <1>2, <1>types, <1>journals DEF Start, Open, Synced, Journals, JournalOf,
         Sent, TypeOK, StoreTypeOK, AllLeases
    <2>2. BatchFresh'
      BY <1>2, <1>types, <1>journals, <1>batch DEF Start, Open, Synced, BatchFresh,
         Sent, TypeOK, StoreTypeOK, AllLeases, Journals, JournalOf
    <2>3. FlushAt(poll)' /\ FlushAt(work)'
      BY <1>2, <1>owner DEF Start, Open, Synced, FlushAt, Owner
    <2>4. Owner' /\ PollAt' /\ WorkAt'
      BY <1>2, <1>owner DEF Start, Open, Synced, Owner, PollAt, Empty, WorkAt
    <2> QED
      BY <2>1, <2>2, <2>3, <2>4 DEF CycleInv, Journals
  <1>3. CASE Shutdown
    <2>1. Journals'
      BY <1>3, <1>journals, JournalsFrame DEF Shutdown
    <2>2. BatchFresh'
      BY <1>3, <1>batch DEF Shutdown, BatchFresh, Sent
    <2>3. FlushAt(poll)' /\ FlushAt(work)'
      BY <1>3, <1>flush DEF Shutdown, Settled, PendingEntries, Pending, FlushAt
    <2>4. Owner' /\ PollAt' /\ WorkAt'
      BY <1>3, <1>owner, <1>poll, <1>work DEF Shutdown, Owner, PollAt, Empty, WorkAt
    <2> QED
      BY <2>1, <2>2, <2>3, <2>4 DEF CycleInv, Journals
  <1>4. CASE Exit
    <2>1. Journals'
      BY <1>4, <1>journals, JournalsFrame DEF Exit, ProcessGone
    <2>2. BatchFresh'
      BY <1>4, <1>batch DEF Exit, ProcessGone, BatchFresh, Sent
    <2>3. FlushAt(poll)' /\ FlushAt(work)'
      BY <1>4, <1>owner DEF Exit, ProcessGone, FlushAt, Owner
    <2>4. Owner' /\ PollAt' /\ WorkAt'
      BY <1>4, <1>owner DEF Exit, ProcessGone, Owner, PollAt, Empty, WorkAt
    <2> QED
      BY <2>1, <2>2, <2>3, <2>4 DEF CycleInv, Journals
  <1>5. CASE Kill
    <2>1. Journals'
      BY <1>5, <1>journals, JournalsFrame DEF Kill, ProcessGone
    <2>2. BatchFresh'
      BY <1>5, <1>batch DEF Kill, ProcessGone, BatchFresh, Sent
    <2>3. FlushAt(poll)' /\ FlushAt(work)'
      BY <1>5, <1>owner DEF Kill, ProcessGone, FlushAt, Owner
    <2>4. Owner' /\ PollAt' /\ WorkAt'
      BY <1>5, <1>owner DEF Kill, ProcessGone, Owner, PollAt, Empty, WorkAt
    <2> QED
      BY <2>1, <2>2, <2>3, <2>4 DEF CycleInv, Journals
  <1>6. CASE Outage
    <2>1. Journals'
      BY <1>6, <1>types, <1>journals DEF Outage, ProcessGone, PowerLoss, Synced,
         Journals, JournalOf, Sent, TypeOK, StoreTypeOK, AllLeases
    <2>2. BatchFresh'
      BY <1>6, <1>batch DEF Outage, ProcessGone, PowerLoss, Synced, BatchFresh, Sent
    <2>3. FlushAt(poll)' /\ FlushAt(work)'
      BY <1>6, <1>owner DEF Outage, ProcessGone, PowerLoss, Synced, FlushAt, Owner
    <2>4. Owner' /\ PollAt' /\ WorkAt'
      BY <1>6, <1>owner DEF Outage, ProcessGone, PowerLoss, Synced, Owner, PollAt,
         Empty, WorkAt
    <2> QED
      BY <2>1, <2>2, <2>3, <2>4 DEF CycleInv, Journals
  <1> QED
    BY <1>1, <1>2, <1>3, <1>4, <1>5, <1>6

(* The steps of flushTaskResults, taken by the poll or by the worker.      *)
LEMMA FlushStep ==
  ASSUME CycleInv, TypeOK', NEW a \in {"poll", "work"},
         FlushPending(a) \/ FlushPost(a) \/ FlushRemove(a) \/ FlushDone(a)
  PROVE  CycleInv'
  <1>types. TypeOK
    BY DEF CycleInv
  <1>journals. Journals
    BY DEF CycleInv, Journals
  <1>owner. Owner
    BY DEF CycleInv
  <1>batch. BatchFresh
    BY DEF CycleInv
  <1>flush. FlushAt(poll) /\ FlushAt(work)
    BY DEF CycleInv
  <1>poll. PollAt
    BY DEF CycleInv
  <1>work. WorkAt
    BY DEF CycleInv
  <1>1. CASE FlushPending(a)
    <2>1. Journals'
      BY <1>1, <1>journals, JournalsFrame DEF FlushPending
    <2>2. BatchFresh'
      BY <1>1, <1>batch DEF FlushPending, At, GoTo, Failed, BatchFresh, Sent
    <2>3. FlushAt(poll)' /\ FlushAt(work)'
      BY <1>1, <1>owner, <1>flush DEF FlushPending, At, GoTo, Failed, PendingOK,
         Settled, PendingEntries, Pending, FlushAt, Owner
    <2>4. Owner' /\ PollAt' /\ WorkAt'
      BY <1>1, <1>owner, <1>poll, <1>work DEF FlushPending, At, GoTo, Failed, Owner,
         PollAt, Empty, WorkAt
    <2> QED
      BY <2>1, <2>2, <2>3, <2>4 DEF CycleInv, Journals
  <1>2. CASE FlushPost(a)
    <2>k. PICK k \in Leases, ok \in BOOLEAN :
             Settled /\ dir[k] \in Results /\ postAgentJSON(k, dir[k], ok)
      <3>1. PICK p \in PendingEntries, ok \in BOOLEAN :
               Settled /\ postAgentJSON(p[1], p[2], ok)
        BY <1>2, <1>flush DEF FlushPost, At, FlushAt
      <3>2. PICK k \in Pending : p = <<k, dir[k]>>
        BY SMTT(20) DEF PendingEntries
      <3> QED
        BY <3>1, <3>2 DEF Pending
    <2>1. Journals'
      BY SMTT(20), <1>2, <1>types, <1>journals, <2>k, OutboxAssumption DEF FlushPost,
         postAgentJSON, Receive, Settled, Journals, JournalOf, Sent, TypeOK, AllLeases
    <2>2. BatchFresh'
      BY SMTT(20), <1>2, <1>types, <1>batch, <1>owner, <2>k, OutboxAssumption DEF
         FlushPost, At, GoTo, Failed, postAgentJSON, Receive, Settled, BatchFresh,
         Sent, TypeOK, StoreTypeOK, AllLeases, Owner
    <2>3. FlushAt(poll)' /\ FlushAt(work)'
      BY SMTT(20), <1>2, <1>types, <1>owner, <1>flush DEF FlushPost, At, GoTo, Failed,
         postAgentJSON, Receive, Settled, PendingEntries, Pending, FlushAt, TypeOK,
         StoreTypeOK, AllLeases, Owner
    <2>4. Owner' /\ PollAt' /\ WorkAt'
      BY <1>2, <1>owner, <1>poll, <1>work DEF FlushPost, At, GoTo, Failed,
         postAgentJSON, Receive, Owner, PollAt, Empty, WorkAt
    <2> QED
      BY <2>1, <2>2, <2>3, <2>4 DEF CycleInv, Journals
  <1>3. CASE FlushRemove(a)
    <2>k. PICK k \in Leases, err \in BOOLEAN :
             /\ Settled
             /\ dir[k] \in Results \cap reported[k]
             /\ todo = PendingEntries \ {<<k, dir[k]>>}
             /\ Remove(k, err)
             /\ ~err => GoTo(a, "post") /\ todo' = todo
             /\ err => Failed(a) /\ todo' = {}
      <3>1. PICK p \in PendingEntries :
               /\ Settled
               /\ acked = {p}
               /\ todo = PendingEntries \ {p}
               /\ p[2] \in reported[p[1]]
        BY <1>3, <1>flush DEF FlushRemove, At, FlushAt
      <3>2. PICK k \in Pending : p = <<k, dir[k]>>
        BY DEF PendingEntries
      <3>3. PICK err \in BOOLEAN :
               /\ Remove(p[1], err)
               /\ \/ err /\ Failed(a) /\ todo' = {}
                  \/ ~err /\ GoTo(a, "post") /\ UNCHANGED todo
        BY SMTT(20), <1>3, <3>1 DEF FlushRemove
      <3> QED
        BY <3>1, <3>2, <3>3 DEF Pending
    <2>1. Journals'
      BY SMTT(20), <1>3, <1>types, <1>journals, <2>k, OutboxAssumption DEF
         FlushRemove, Remove, Synced, Unsynced, Settled, Journals, JournalOf, Sent,
         TypeOK, StoreTypeOK
    <2>2. BatchFresh'
      BY <1>3, <1>types, <1>journals, <1>batch, <1>owner, <2>k, OutboxAssumption DEF
         FlushRemove, At, GoTo, Failed, Remove, Synced, Unsynced, Settled, BatchFresh,
         Sent, TypeOK, StoreTypeOK, AllLeases, Journals, JournalOf, Owner
    <2>3. FlushAt(poll)' /\ FlushAt(work)'
      <3>1. CASE err
        BY <1>3, <1>owner, <2>k, <3>1 DEF FlushRemove, At, Failed, GoTo, FlushAt,
           Owner
      <3>2. CASE ~err
        <4>1. /\ dir' = [dir EXCEPT ![k] = Absent]
              /\ image' = [l \in Leases |-> {dir'[l]}]
          BY <2>k, <3>2 DEF Remove, Synced
        <4>2. Settled'
          BY <1>types, <2>k, <4>1, OutboxAssumption DEF Settled, TypeOK, StoreTypeOK
        <4>3. PendingEntries' = PendingEntries \ {<<k, dir[k]>>}
          BY SMTT(20), <1>types, <2>k, <4>1, OutboxAssumption DEF PendingEntries,
             Pending, TypeOK, StoreTypeOK
        <4> QED
          BY <1>3, <1>owner, <2>k, <3>2, <4>2, <4>3 DEF FlushRemove, At, GoTo,
             FlushAt, Owner
      <3> QED
        BY SMTT(20), <3>1, <3>2
    <2>4. Owner' /\ PollAt' /\ WorkAt'
      BY <1>3, <1>owner, <1>poll, <1>types, <1>flush DEF FlushRemove, At, GoTo,
         Failed, Remove, Synced, Unsynced, Owner, PollAt, Empty, WorkAt, TypeOK,
         StoreTypeOK, AllLeases, FlushAt
    <2> QED
      BY <2>1, <2>2, <2>3, <2>4 DEF CycleInv, Journals
  <1>4. CASE FlushDone(a)
    <2>e. Empty
      <3>1. Settled /\ PendingEntries = {}
        BY <1>4, <1>flush DEF FlushDone, At, FlushAt
      <3>2. ASSUME NEW l \in Leases PROVE dir[l] = Absent
        <4>1. l \in Pending => <<l, dir[l]>> \in PendingEntries
          BY Zenon DEF PendingEntries
        <4>2. l \notin Pending
          BY <3>1, <4>1, Zenon
        <4> QED
          BY <1>types, <3>1, <4>2 DEF TypeOK, StoreTypeOK, Files, Settled, Pending
      <3> QED
        BY SMTT(20), <3>1, <3>2 DEF Settled, Empty
    <2>1. Journals'
      BY <1>4, <1>journals, JournalsFrame DEF FlushDone
    <2>2. BatchFresh'
      BY <1>4, <1>batch, <1>owner DEF FlushDone, At, GoTo, Failed, BatchFresh, Sent,
         Owner
    <2>3. FlushAt(poll)' /\ FlushAt(work)'
      BY SMTT(20), <1>4, <1>owner, <1>flush DEF FlushDone, At, GoTo, Failed, Settled,
         PendingEntries, Pending, FlushAt, Owner
    <2>4. Owner' /\ PollAt' /\ WorkAt'
      BY <1>4, <1>owner, <1>work, <2>e DEF FlushDone, At, GoTo, Failed, Owner, PollAt,
         Empty, WorkAt
    <2> QED
      BY <2>1, <2>2, <2>3, <2>4 DEF CycleInv, Journals
  <1> QED
    BY <1>1, <1>2, <1>3, <1>4

(* A stuttering step keeps the invariant.                                  *)
LEMMA StutterStep ==
  ASSUME CycleInv, TypeOK', UNCHANGED vars
  PROVE  CycleInv'
  <1>1. Journals'
    BY JournalsFrame DEF CycleInv, Journals, vars
  <1>2. Owner' /\ PollAt' /\ WorkAt'
    BY DEF CycleInv, vars, Owner, PollAt, WorkAt, Empty
  <1>3. BatchFresh'
    BY DEF CycleInv, vars, BatchFresh, Sent
  <1>4. FlushAt(poll)' /\ FlushAt(work)'
    BY DEF CycleInv, vars, FlushAt, Settled, PendingEntries, Pending
  <1> QED
    BY <1>1, <1>2, <1>3, <1>4 DEF CycleInv, Journals

(* CycleInv is an invariant of the task cycle: for every set of durable    *)
(* and plain leases, every batch bound and every outbox capacity.          *)
THEOREM CycleInvariant == Spec => []CycleInv
  <1>1. ASSUME CycleInv, [Next]_vars PROVE CycleInv'
    <2>1. TypeOK'
      BY <1>1, TypeStep
    <2>2. CASE Poll
      BY <1>1, <2>1, <2>2, PollStep
    <2>3. CASE Worker
      BY <1>1, <2>1, <2>3, WorkerStep
    <2>4. CASE Flush
      BY <1>1, <2>1, <2>4, FlushStep DEF Flush
    <2>5. CASE LateArrival \/ Start \/ Shutdown \/ Exit \/ Kill \/ Outage
      BY <1>1, <2>1, <2>5, ProcessStep
    <2>6. CASE UNCHANGED vars
      BY <1>1, <2>1, <2>6, StutterStep
    <2> QED
      BY <1>1, <2>2, <2>3, <2>4, <2>5, <2>6 DEF Next
  <1> QED
    BY <1>1, InitInv, PTL DEF Spec

(* executeTask runs no durable lease twice, through any crashes, failed    *)
(* writes, redeliveries and late requests.                                 *)
THEOREM AtMostOnceTheorem == Spec => []AtMostOnce
  <1>1. CycleInv => AtMostOnce
    BY DEF CycleInv, AtMostOnce, JournalOf
  <1> QED
    BY <1>1, CycleInvariant, PTL

(* The control plane never gets two different journaled results of one     *)
(* lease.                                                                  *)
THEOREM OneVerdictTheorem == Spec => []OneVerdict
  <1>1. CycleInv => OneVerdict
    BY DEF CycleInv, OneVerdict, JournalOf
  <1> QED
    BY <1>1, CycleInvariant, PTL

(* A started durable lease is in the journal after any crash until its     *)
(* result has arrived; while it runs, the journal can only say leased.     *)
THEOREM NothingForgottenTheorem == Spec => [](NothingForgotten /\ RunIsJournaled)
  <1>1. CycleInv => NothingForgotten
    BY DEF CycleInv, NothingForgotten, JournalOf, TypeOK, AllLeases
  <1>2. CycleInv => RunIsJournaled
    BY DEF CycleInv, RunIsJournaled, WorkAt
  <1> QED
    BY <1>1, <1>2, CycleInvariant, PTL

(* pollTasks and executeTasks are never in the outbox at the same time,    *)
(* and leases are taken up only with an empty outbox.                      *)
THEOREM OwnershipTheorem == Spec => [](OutboxHasOneOwner /\ LeaseOnEmptyOutbox)
  <1>1. CycleInv => OutboxHasOneOwner /\ LeaseOnEmptyOutbox
    BY DEF CycleInv, OutboxHasOneOwner, LeaseOnEmptyOutbox, Owner, PollAt, WorkAt,
       Empty
  <1> QED
    BY <1>1, CycleInvariant, PTL
=============================================================================
