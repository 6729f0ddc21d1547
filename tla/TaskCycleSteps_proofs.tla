-------------------- MODULE TaskCycleSteps_proofs --------------------
(***************************************************************************)
(* What a step of pollTasks or executeTasks preserves: each step keeps the *)
(* types of TaskCycle, and the steps of the poll and of the worker keep    *)
(* CycleInv, for every set of leases, batch size and outbox capacity.      *)
(***************************************************************************)
EXTENDS TaskCycle, TaskOutbox_proofs

USE DEF store, agent, server, Absent, Leased

(* Every step keeps the types.  (That CompleteTask has a durable lease in  *)
(* hand is not a matter of types, hence the whole invariant.)              *)
LEMMA TypeStep == CycleInv /\ [Next]_vars => TypeOK'
  <1> USE OutboxAssumption, CycleAssumption DEF AllLeases
  <1> SUFFICES ASSUME CycleInv, [Next]_vars PROVE TypeOK'
    OBVIOUS
  <1>0. TypeOK /\ (work = "complete" => cur \in Leases)
    BY DEF CycleInv, WorkAt
  <1> USE DEF TypeOK
  <1>1. CASE PollStart
    BY <1>0, <1>1 DEF PollStart, PollPC, StoreTypeOK
  <1>2. CASE RecoverConfirm
    <2>1. StoreTypeOK'
      BY <1>0, <1>2, ConfirmType DEF RecoverConfirm
    <2> QED
      BY <1>0, <1>2, <2>1 DEF RecoverConfirm, PollPC
  <1>3. CASE RecoverInterrupted
    <2>1. StoreTypeOK'
      <3>1. PICK l \in Leases, committed, err \in BOOLEAN :
               writeEntry(l, Unknown, committed, err)
        BY <1>3 DEF RecoverInterrupted, recoverOne
      <3>2. Unknown \in Files
        BY DEF Files
      <3> QED
        BY <1>0, <3>1, <3>2, WriteEntryType
    <2> QED
      BY <1>0, <1>3, <2>1 DEF RecoverInterrupted, PollPC
  <1>4. CASE RecoverDone \/ PollLease
    BY <1>0, <1>4, Zenon DEF RecoverDone, PollLease, PollPC, WorkPC, StoreTypeOK
  <1>5. CASE ExecuteTask
    <2>1. StoreTypeOK'
      BY <1>0, <1>5, BeginType DEF ExecuteTask, StoreTypeOK
    <2> QED
      BY <1>0, <1>5, <2>1 DEF ExecuteTask, WorkPC
  <1>6. CASE ReportNotRun \/ PlainPost
    BY <1>0, <1>6 DEF ReportNotRun, PlainPost, postAgentJSON, Receive, Posts, WorkPC,
       StoreTypeOK
  <1>7. CASE RunStart
    <2>1. runs' \in [AllLeases -> 0..2]
      BY <1>0, <1>7 DEF RunStart
    <2> QED
      BY <1>0, <1>7, <2>1 DEF RunStart, WorkPC, StoreTypeOK
  <1>16. CASE RunEnd \/ BatchEnd
    BY <1>0, <1>16, Zenon DEF RunEnd, BatchEnd, WorkPC, StoreTypeOK
  <1>8. CASE CompleteTask
    <2>1. StoreTypeOK'
      <3>1. PICK committed, err \in BOOLEAN : Complete(cur, Done, committed, err)
        BY <1>8 DEF CompleteTask
      <3> QED
        BY <1>0, <1>8, <3>1, CompleteType DEF CompleteTask
    <2> QED
      BY <1>0, <1>8, <2>1 DEF CompleteTask, WorkPC
  <1>9. CASE ConfirmComplete
    <2>1. StoreTypeOK'
      BY <1>0, <1>9, ConfirmType DEF ConfirmComplete
    <2> QED
      BY <1>0, <1>9, <2>1 DEF ConfirmComplete, WorkPC
  <1>10. CASE LateArrival
    BY <1>0, <1>10 DEF LateArrival, Receive, Posts, StoreTypeOK
  <1>11. CASE Start
    <2>1. StoreTypeOK'
      BY <1>0, <1>11, RestartType DEF Start
    <2> QED
      BY <1>0, <1>11, <2>1 DEF Start, PollPC, WorkPC
  <1>12. CASE Shutdown \/ Exit \/ Kill
    BY <1>0, <1>12, Zenon DEF Shutdown, Exit, Kill, ProcessGone, PollPC, WorkPC,
       StoreTypeOK
  <1>13. CASE Outage
    <2>1. StoreTypeOK'
      BY <1>0, <1>13, RestartType DEF Outage
    <2> QED
      BY <1>0, <1>13, <2>1, Zenon DEF Outage, ProcessGone, PollPC, WorkPC
  <1>14. ASSUME NEW a \in {"poll", "work"},
               FlushPending(a) \/ FlushPost(a) \/ FlushRemove(a) \/ FlushDone(a)
        PROVE  TypeOK'
    <2> USE DEF At, GoTo, Failed, PollPC, WorkPC
    <2>1. CASE FlushPending(a) \/ FlushDone(a)
      BY <1>0, <2>1 DEF FlushPending, FlushDone, StoreTypeOK, Entries, Pending
    <2>2. CASE FlushPost(a)
      BY <1>0, <2>2 DEF FlushPost, StoreTypeOK, Entries, Posts, postAgentJSON, Receive
    <2>3. CASE FlushRemove(a)
      <3>1. StoreTypeOK'
        BY <1>0, <2>3, RemoveType DEF FlushRemove, Entries
      <3> QED
        BY <1>0, <2>3, <3>1 DEF FlushRemove, Entries
    <2> QED
      BY <1>0, <1>14, <2>1, <2>2, <2>3
  <1>15. CASE UNCHANGED vars
    BY <1>0, <1>15 DEF vars, StoreTypeOK
  <1> QED
    BY <1>1, <1>2, <1>3, <1>4, <1>5, <1>6, <1>7, <1>8, <1>9, <1>10, <1>11, <1>12,
       <1>13, <1>14, <1>15, <1>16, Zenon DEF Next, Poll, Flush, Worker

(* The journals of all leases.                                             *)
Journals == \A l \in Leases : JournalOf(l)

(* A step that leaves store, wire and history alone keeps the journals.    *)
LEMMA JournalsFrame ==
  ASSUME Journals, UNCHANGED <<dir, image, reported, late, runs>>
  PROVE  Journals'
  BY DEF Journals, JournalOf, Sent

(* The steps of pollTasks, all taken while the worker is idle.             *)
LEMMA PollStep ==
  ASSUME CycleInv, TypeOK', Poll
  PROVE  CycleInv'
  <1>types. TypeOK
    BY DEF CycleInv
  <1>journals. Journals
    BY DEF CycleInv, Journals
  <1>owner. Owner
    BY DEF CycleInv
  <1>batch. BatchFresh
    BY DEF CycleInv
  <1>flush. FlushAt(poll) /\ FlushAt(work)
    BY DEF CycleInv
  <1>poll. PollAt
    BY DEF CycleInv
  <1>work. WorkAt
    BY DEF CycleInv
  <1>1. CASE PollStart
    <2>1. Journals'
      BY <1>1, <1>journals, JournalsFrame DEF PollStart
    <2>2. BatchFresh'
      BY <1>1, <1>batch DEF PollStart, BatchFresh, Sent
    <2>3. FlushAt(poll)' /\ FlushAt(work)'
      BY <1>1, <1>flush DEF PollStart, Settled, PendingEntries, Pending, FlushAt
    <2>4. Owner' /\ PollAt' /\ WorkAt'
      BY <1>1, <1>owner, <1>poll, <1>work DEF PollStart, Owner, PollAt, Empty, WorkAt
    <2> QED
      BY <2>1, <2>2, <2>3, <2>4 DEF CycleInv, Journals
  <1>2. CASE RecoverConfirm
    <2>1. Journals'
      BY <1>2, <1>types, <1>journals DEF RecoverConfirm, ConfirmDurability, Synced,
         Journals, JournalOf, Sent, TypeOK, StoreTypeOK, AllLeases
    <2>2. BatchFresh'
      BY <1>2, <1>types, <1>journals, <1>batch DEF RecoverConfirm, ConfirmDurability,
         Synced, BatchFresh, Sent, TypeOK, StoreTypeOK, AllLeases, Journals, JournalOf
    <2>3. FlushAt(poll)' /\ FlushAt(work)'
      BY <1>2, <1>owner, <1>flush DEF RecoverConfirm, ConfirmDurability, Synced,
         FlushAt, Owner
    <2>4. Owner' /\ PollAt' /\ WorkAt'
      BY <1>2, <1>owner, <1>poll, <1>work DEF RecoverConfirm, ConfirmDurability,
         Synced, Owner, PollAt, Empty, WorkAt
    <2> QED
      BY <2>1, <2>2, <2>3, <2>4 DEF CycleInv, Journals
  <1>3. CASE RecoverInterrupted
    <2>1. Journals'
      BY <1>3, <1>types, <1>journals, OutboxAssumption DEF RecoverInterrupted,
         recoverOne, Interrupted, writeEntry, Synced, Unsynced, Journals, JournalOf,
         Sent, TypeOK, StoreTypeOK, AllLeases
    <2>2. BatchFresh'
      BY <1>3, <1>types, <1>journals, <1>batch DEF RecoverInterrupted, recoverOne,
         Interrupted, writeEntry, Synced, Unsynced, BatchFresh, Sent, TypeOK,
         StoreTypeOK, AllLeases, Journals, JournalOf
    <2>3. FlushAt(poll)' /\ FlushAt(work)'
      BY <1>3, <1>owner DEF RecoverInterrupted, recoverOne, Interrupted, writeEntry,
         Synced, Unsynced, FlushAt, Owner
    <2>4. Owner' /\ PollAt' /\ WorkAt'
      BY <1>3, <1>owner, <1>types, <1>poll, <1>work DEF RecoverInterrupted,
         recoverOne, Interrupted, writeEntry, Synced, Unsynced, Owner, PollAt, Empty,
         WorkAt, TypeOK, StoreTypeOK, AllLeases
    <2> QED
      BY <2>1, <2>2, <2>3, <2>4 DEF CycleInv, Journals
  <1>4. CASE RecoverDone
    <2>1. Journals'
      BY <1>4, <1>journals, JournalsFrame DEF RecoverDone
    <2>2. BatchFresh'
      BY <1>4, <1>batch, <1>owner DEF RecoverDone, Interrupted, BatchFresh, Sent,
         Owner
    <2>3. FlushAt(poll)' /\ FlushAt(work)'
      BY <1>4, <1>types, <1>owner, <1>poll, <1>flush DEF RecoverDone, Interrupted,
         Settled, PendingEntries, Pending, FlushAt, TypeOK, StoreTypeOK, AllLeases,
         Owner, PollAt, Empty
    <2>4. Owner' /\ PollAt' /\ WorkAt'
      BY <1>4, <1>owner, <1>poll, <1>work DEF RecoverDone, Interrupted, Owner, PollAt,
         Empty, WorkAt
    <2> QED
      BY <2>1, <2>2, <2>3, <2>4 DEF CycleInv, Journals
  <1>5. CASE PollLease
    <2>1. Journals'
      BY <1>5, <1>journals, JournalsFrame DEF PollLease
    <2>2. BatchFresh'
      BY <1>5, <1>types, <1>journals, <1>batch, <1>owner, <1>poll DEF PollLease,
         Empty, AllLeases, BatchFresh, Sent, TypeOK, StoreTypeOK, Journals, JournalOf,
         Owner, PollAt
    <2>3. FlushAt(poll)' /\ FlushAt(work)'
      BY <1>5, <1>owner, <1>flush DEF PollLease, Empty, Settled, PendingEntries,
         Pending, FlushAt, Owner
    <2>4. Owner' /\ PollAt' /\ WorkAt'
      BY <1>5, <1>owner, <1>poll DEF PollLease, Empty, Owner, PollAt, WorkAt
    <2> QED
      BY <2>1, <2>2, <2>3, <2>4 DEF CycleInv, Journals
  <1> QED
    BY <1>1, <1>2, <1>3, <1>4, <1>5 DEF Poll

(* The steps of executeTasks, all taken while the poll is idle.            *)
LEMMA WorkerStep ==
  ASSUME CycleInv, TypeOK', Worker
  PROVE  CycleInv'
  <1>types. TypeOK
    BY DEF CycleInv
  <1>journals. Journals
    BY DEF CycleInv, Journals
  <1>owner. Owner
    BY DEF CycleInv
  <1>batch. BatchFresh
    BY DEF CycleInv
  <1>flush. FlushAt(poll) /\ FlushAt(work)
    BY DEF CycleInv
  <1>poll. PollAt
    BY DEF CycleInv
  <1>work. WorkAt
    BY DEF CycleInv
  <1>1. CASE ExecuteTask
    <2>1. Journals'
      <3>1. ASSUME NEW l \in Leases, l \in batch, NEW committed \in BOOLEAN,
                   NEW err \in BOOLEAN, begin(l, committed, err),
                   UNCHANGED <<reported, late, runs>>
            PROVE  Journals'
        <4>1. CASE UNCHANGED store
          BY <1>journals, <3>1, <4>1, JournalsFrame
        <4>2. CASE writeEntry(l, Leased, committed, err)
          BY SMTT(20), <1>types, <1>journals, <1>batch, <3>1, <4>2, OutboxAssumption
             DEF writeEntry, Synced, Unsynced, Journals, JournalOf, BatchFresh,
             Sent, TypeOK, StoreTypeOK
        <4> QED
          BY <3>1, <4>1, <4>2 DEF begin
      <3> QED
        BY <1>1, <1>journals, <3>1, JournalsFrame DEF ExecuteTask
    <2>2. BatchFresh'
      BY SMTT(20), <1>1, <1>types, <1>journals, <1>batch, <1>work, CycleAssumption,
         OutboxAssumption DEF ExecuteTask, begin, writeEntry, Synced, Unsynced,
         BatchFresh, Sent, TypeOK, StoreTypeOK, AllLeases, Journals, JournalOf,
         WorkAt, Empty
    <2>3. FlushAt(poll)' /\ FlushAt(work)'
      BY SMTT(20), <1>1, <1>owner DEF ExecuteTask, begin, writeEntry, Synced,
         Unsynced, FlushAt, Owner
    <2>4. Owner' /\ PollAt' /\ WorkAt'
      BY <1>1, <1>owner, <1>types, <1>journals, <1>batch, <1>work, CycleAssumption,
         OutboxAssumption DEF ExecuteTask, begin, writeEntry, Synced, Unsynced, Owner,
         PollAt, Empty, WorkAt, TypeOK, StoreTypeOK, AllLeases, Journals, JournalOf,
         Sent, BatchFresh
    <2> QED
      BY <2>1, <2>2, <2>3, <2>4 DEF CycleInv, Journals
  <1>2. CASE ReportNotRun
    <2>1. Journals'
      BY <1>2, <1>types, <1>journals, CycleAssumption DEF ReportNotRun, postAgentJSON,
         Receive, Journals, JournalOf, Sent, TypeOK, StoreTypeOK, AllLeases
    <2>2. BatchFresh'
      BY <1>2, <1>types, <1>batch, <1>work, CycleAssumption DEF ReportNotRun,
         postAgentJSON, Receive, BatchFresh, Sent, TypeOK, StoreTypeOK, AllLeases,
         WorkAt, Empty
    <2>3. FlushAt(poll)' /\ FlushAt(work)'
      BY <1>2, <1>owner DEF ReportNotRun, postAgentJSON, Receive, FlushAt, Owner
    <2>4. Owner' /\ PollAt' /\ WorkAt'
      BY SMTT(20), <1>2, <1>owner, <1>work DEF ReportNotRun, postAgentJSON, Receive,
         Owner, PollAt, Empty, WorkAt
    <2> QED
      BY <2>1, <2>2, <2>3, <2>4 DEF CycleInv, Journals
  <1>3. CASE RunStart
    <2>1. Journals'
      BY <1>3, <1>types, <1>journals, <1>work DEF RunStart, Journals, JournalOf, Sent,
         TypeOK, StoreTypeOK, AllLeases, WorkAt, Empty
    <2>2. BatchFresh'
      BY <1>3, <1>types, <1>batch DEF RunStart, BatchFresh, Sent, TypeOK, StoreTypeOK,
         AllLeases
    <2>3. FlushAt(poll)' /\ FlushAt(work)'
      BY <1>3, <1>owner DEF RunStart, FlushAt, Owner
    <2>4. Owner' /\ PollAt' /\ WorkAt'
      BY <1>3, <1>owner, <1>types, <1>work, CycleAssumption DEF RunStart, Owner,
         PollAt, Empty, WorkAt, TypeOK, StoreTypeOK, AllLeases
    <2> QED
      BY <2>1, <2>2, <2>3, <2>4 DEF CycleInv, Journals
  <1>4. CASE RunEnd
    <2>1. Journals'
      BY <1>4, <1>journals, JournalsFrame DEF RunEnd
    <2>2. BatchFresh'
      BY <1>4, <1>batch DEF RunEnd, BatchFresh, Sent
    <2>3. FlushAt(poll)' /\ FlushAt(work)'
      BY <1>4, <1>owner DEF RunEnd, FlushAt, Owner
    <2>4. Owner' /\ PollAt' /\ WorkAt'
      BY SMTT(20), <1>4, <1>owner, <1>types, <1>work DEF RunEnd, Owner, PollAt,
         Empty, WorkAt, TypeOK, StoreTypeOK, AllLeases
    <2> QED
      BY <2>1, <2>2, <2>3, <2>4 DEF CycleInv, Journals
  <1>5. CASE PlainPost
    <2>1. Journals'
      BY <1>5, <1>types, <1>journals, <1>work, CycleAssumption DEF PlainPost,
         postAgentJSON, Receive, Journals, JournalOf, Sent, TypeOK, StoreTypeOK,
         AllLeases, WorkAt, Empty
    <2>2. BatchFresh'
      BY SMTT(20), <1>5, <1>types, <1>batch, <1>work, CycleAssumption DEF PlainPost,
         postAgentJSON, Receive, BatchFresh, Sent, TypeOK, StoreTypeOK, AllLeases,
         WorkAt, Empty
    <2>3. FlushAt(poll)' /\ FlushAt(work)'
      BY SMTT(20), <1>5, <1>owner DEF PlainPost, postAgentJSON, Receive, FlushAt,
         Owner
    <2>4. Owner' /\ PollAt' /\ WorkAt'
      BY SMTT(20), <1>5, <1>owner, <1>types, <1>work, CycleAssumption DEF PlainPost,
         postAgentJSON, Receive, Owner, PollAt, Empty, WorkAt, TypeOK, StoreTypeOK,
         AllLeases
    <2> QED
      BY <2>1, <2>2, <2>3, <2>4 DEF CycleInv, Journals
  <1>6. CASE CompleteTask
    <2>1. Journals'
      BY SMTT(20), <1>6, <1>types, <1>journals, <1>work, OutboxAssumption,
         CycleAssumption DEF CompleteTask, Complete, writeEntry, Synced, Unsynced,
         Journals, JournalOf, Sent, TypeOK, StoreTypeOK, AllLeases, WorkAt, Empty
    <2>2. BatchFresh'
      BY SMTT(20), <1>6, <1>types, <1>journals, <1>batch, <1>work, OutboxAssumption,
         CycleAssumption DEF CompleteTask, Complete, writeEntry, Synced, Unsynced,
         BatchFresh, Sent, TypeOK, StoreTypeOK, AllLeases, Journals, JournalOf,
         WorkAt, Empty
    <2>3. FlushAt(poll)' /\ FlushAt(work)'
      BY SMTT(20), <1>6, <1>types, <1>journals, <1>owner, <1>work, OutboxAssumption,
         CycleAssumption DEF CompleteTask, Complete, writeEntry, Synced, Unsynced,
         Settled, PendingEntries, Pending, FlushAt, TypeOK, StoreTypeOK, AllLeases,
         Journals, JournalOf, Sent, Owner, WorkAt, Empty
    <2>4. Owner' /\ PollAt' /\ WorkAt'
      BY SMTT(20), <1>6, <1>owner, <1>types, <1>work, OutboxAssumption,
         CycleAssumption DEF CompleteTask, Complete, writeEntry, Synced, Unsynced,
         Owner, PollAt, Empty, WorkAt, TypeOK, StoreTypeOK, AllLeases
    <2> QED
      BY <2>1, <2>2, <2>3, <2>4 DEF CycleInv, Journals
  <1>7. CASE ConfirmComplete
    <2>1. Journals'
      BY SMTT(20), <1>7, <1>types, <1>journals DEF ConfirmComplete,
         ConfirmDurability, Synced, Journals, JournalOf, Sent, TypeOK, StoreTypeOK,
         AllLeases
    <2>2. BatchFresh'
      BY SMTT(20), <1>7, <1>batch DEF ConfirmComplete, ConfirmDurability, Synced,
         BatchFresh, Sent
    <2>3. FlushAt(poll)' /\ FlushAt(work)'
      BY <1>7, <1>types, <1>journals, <1>owner, <1>work, OutboxAssumption,
         CycleAssumption DEF ConfirmComplete, ConfirmDurability, Synced, Settled,
         PendingEntries, Pending, FlushAt, TypeOK, StoreTypeOK, AllLeases, Journals,
         JournalOf, Sent, Owner, WorkAt, Empty
    <2>4. Owner' /\ PollAt' /\ WorkAt'
      BY <1>7, <1>owner, <1>work DEF ConfirmComplete, ConfirmDurability, Synced,
         Owner, PollAt, Empty, WorkAt
    <2> QED
      BY <2>1, <2>2, <2>3, <2>4 DEF CycleInv, Journals
  <1>8. CASE BatchEnd
    <2>1. Journals'
      BY <1>8, <1>journals, JournalsFrame DEF BatchEnd
    <2>2. BatchFresh'
      BY <1>8, <1>batch DEF BatchEnd, BatchFresh, Sent
    <2>3. FlushAt(poll)' /\ FlushAt(work)'
      BY <1>8, <1>owner DEF BatchEnd, FlushAt, Owner
    <2>4. Owner' /\ PollAt' /\ WorkAt'
      BY <1>8, <1>owner, <1>work DEF BatchEnd, Owner, PollAt, Empty, WorkAt
    <2> QED
      BY <2>1, <2>2, <2>3, <2>4 DEF CycleInv, Journals
  <1> QED
    BY <1>1, <1>2, <1>3, <1>4, <1>5, <1>6, <1>7, <1>8 DEF Worker
=============================================================================
