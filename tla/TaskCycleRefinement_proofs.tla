-------------------- MODULE TaskCycleRefinement_proofs --------------------
(***************************************************************************)
(* Results are uploaded only from a durable journal, and TaskCycle         *)
(* implements DurableTask, for every set of leases, every batch size and   *)
(* every outbox capacity.                                                  *)
(***************************************************************************)
EXTENDS TaskCycle_proofs

USE DEF store, agent, server, Absent, Leased

(* What a step may hand to the network.                                    *)
DurableUpload == \A l \in Leases : \A r \in Results :
    (r \in reported'[l] /\ r \notin reported[l] /\ <<l, r>> \notin late)
      \/ (<<l, r>> \in late' /\ <<l, r>> \notin late)
    => image[l] = {r}

(* flushTaskResults uploads a result only when it is what a power loss     *)
(* would leave in the journal.                                             *)
THEOREM UploadTheorem == Spec => UploadIsDurable
  <1>1. ASSUME CycleInv, [Next]_vars PROVE [DurableUpload]_vars
    <2>1. CASE Poll
      BY <2>1 DEF DurableUpload, Poll, PollStart, RecoverConfirm, RecoverInterrupted,
         RecoverDone, PollLease
    <2>2. CASE Worker
      <3>1. CASE ReportNotRun
        BY <1>1, <3>1, CycleAssumption DEF DurableUpload, ReportNotRun, postAgentJSON,
           Receive, CycleInv, TypeOK, AllLeases
      <3>2. CASE PlainPost
        BY <1>1, <3>2, CycleAssumption DEF DurableUpload, PlainPost, postAgentJSON,
           Receive, CycleInv, WorkAt, TypeOK, AllLeases
      <3>3. CASE ~(ReportNotRun \/ PlainPost)
        BY <2>2, <3>3 DEF DurableUpload, Worker, ExecuteTask, RunStart, RunEnd,
           CompleteTask, ConfirmComplete, BatchEnd
      <3> QED
        BY <3>1, <3>2, <3>3
    <2>3. ASSUME NEW a \in {"poll", "work"}, FlushPost(a)
          PROVE  DurableUpload
      <3>1. PICK p \in PendingEntries, ok \in BOOLEAN :
               Settled /\ postAgentJSON(p[1], p[2], ok)
        BY <1>1, <2>3 DEF FlushPost, At, CycleInv, FlushAt
      <3>2. PICK k \in Pending : p = <<k, dir[k]>>
        BY DEF PendingEntries
      <3> QED
        BY <1>1, <3>1, <3>2 DEF DurableUpload, Settled, Pending, postAgentJSON,
           Receive, CycleInv, TypeOK, AllLeases
    <2>4. ASSUME NEW a \in {"poll", "work"},
                 FlushPending(a) \/ FlushRemove(a) \/ FlushDone(a)
          PROVE  DurableUpload
      BY <2>4 DEF DurableUpload, FlushPending, FlushRemove, FlushDone
    <2>5. CASE LateArrival
      BY <1>1, <2>5 DEF DurableUpload, LateArrival, Receive, Posts, CycleInv, TypeOK,
         AllLeases
    <2>6. CASE Start \/ Shutdown \/ Exit \/ Kill \/ Outage
      BY <2>6 DEF DurableUpload, Start, Shutdown, Exit, Kill, Outage, ProcessGone
    <2>7. CASE UNCHANGED vars
      BY <2>7
    <2> QED
      BY <1>1, <2>1, <2>2, <2>3, <2>4, <2>5, <2>6, <2>7 DEF Next, Flush
  <1>2. Spec => [][DurableUpload]_vars
    BY <1>1, CycleInvariant, PTL DEF Spec
  <1> QED
    BY <1>2 DEF UploadIsDurable, DurableUpload

-----------------------------------------------------------------------------
(* The verdict of a lease is the one journaled result the control plane    *)
(* has.                                                                    *)
LEMMA VerdictValue ==
  ASSUME CycleInv, NEW l \in Leases
  PROVE  /\ reported[l] \cap Results = {} => Verdict(l) = Absent
         /\ \A r \in reported[l] \cap Results : Verdict(l) = r
  <1>1. \A q, r \in reported[l] \cap Results : q = r
    BY Zenon DEF CycleInv, JournalOf, Sent
  <1> QED
    BY <1>1 DEF Verdict, AnyOf

(* As long as no journaled result arrives, the verdicts stay.              *)
LEMMA VerdictStays ==
  ASSUME NEW l \in Leases, reported'[l] \cap Results = reported[l] \cap Results
  PROVE  Verdict(l)' = Verdict(l)
  BY DEF Verdict

abstract == <<[l \in Leases |-> runs[l]], [l \in Leases |-> Verdict(l)]>>

(* The arrival of a result is a first verdict or changes nothing.          *)
LEMMA ReceiveStep ==
  ASSUME CycleInv, CycleInv', UNCHANGED runs,
         NEW l \in AllLeases, NEW r \in Results \cup {NotRun}, Receive(l, r)
  PROVE  [Promise!ANext]_abstract
  <1>1. CASE l \notin Leases \/ r \notin Results \/ r \in reported[l]
    <2>1. \A k \in Leases : reported'[k] \cap Results = reported[k] \cap Results
      BY <1>1 DEF Receive, CycleInv, TypeOK, AllLeases
    <2>2. \A k \in Leases : Verdict(k)' = Verdict(k)
      BY <2>1, VerdictStays
    <2> QED
      BY <2>2 DEF abstract
  <1>2. CASE l \in Leases /\ r \in Results /\ r \notin reported[l]
    <2>1. r \in Sent(l)' /\ reported[l] \subseteq reported'[l] /\ r \in reported'[l]
      BY <1>2 DEF Receive, Sent, CycleInv, TypeOK, AllLeases
    <2>2. reported[l] \cap Results = {}
      <3>1. ASSUME NEW q \in Results, q \in reported[l] PROVE FALSE
        <4>1. q \in Sent(l)'
          BY <2>1, <3>1 DEF Sent
        <4>2. q = r
          BY <1>2, <2>1, <4>1 DEF CycleInv, JournalOf
        <4> QED
          BY <1>2, <3>1, <4>2
      <3> QED
        BY <3>1
    <2>3. Verdict(l) = Absent /\ Verdict(l)' = r
      <3>1. Verdict(l) = Absent
        BY <1>2, <2>2, VerdictValue
      <3>2. reported'[l] \cap Results = {r}
        BY <1>2, <2>2 DEF Receive, CycleInv, TypeOK, AllLeases
      <3> QED
        BY <3>1, <3>2 DEF Verdict, AnyOf
    <2>4. \A k \in Leases \ {l} : Verdict(k)' = Verdict(k)
      <3>1. \A k \in Leases \ {l} : reported'[k] \cap Results = reported[k] \cap Results
        BY DEF Receive, CycleInv, TypeOK, AllLeases
      <3> QED
        BY <3>1, VerdictStays
    <2>5. r # Unknown => runs[l] > 0
      BY <1>2, <2>1 DEF CycleInv, JournalOf
    <2>6. Promise!AReport(l, r)
      BY <1>2, <2>3, <2>4, <2>5, Zenon DEF Promise!AReport
    <2> QED
      BY <1>2, <2>6 DEF Promise!ANext
  <1> QED
    BY <1>1, <1>2

(* Seen through its verdicts and starts, the task cycle is DurableTask:    *)
(* RunStart starts a fresh lease, the arrival of a post reports a first    *)
(* verdict, everything else stutters.                                      *)
THEOREM RefinementTheorem == Spec => ImplementsDurableTask
  <1>1. Init => Promise!AInit
    <2> SUFFICES ASSUME Init PROVE Promise!AInit
      OBVIOUS
    <2>1. \A l \in Leases : reported[l] = {} /\ runs[l] = 0
      BY DEF Init, AllLeases
    <2>2. \A l \in Leases : Verdict(l) = Absent
      BY <2>1 DEF Verdict, AnyOf
    <2> QED
      BY <2>1, <2>2 DEF Promise!AInit
  <1>2. ASSUME CycleInv, CycleInv', [Next]_vars PROVE [Promise!ANext]_abstract
    <2>1. CASE RunStart
      <3>1. \A k \in Leases : Verdict(k)' = Verdict(k)
        BY <2>1, VerdictStays DEF RunStart
      <3>2. CASE cur \in Leases
        <4>1. PICK l \in Leases : l = cur
          BY <3>2
        <4>2. runs[l] = 0 /\ image[l] = {Leased}
          BY <1>2, <2>1, <4>1 DEF RunStart, CycleInv, WorkAt
        <4>3. reported[l] \cap Results = {}
          <5>1. ASSUME NEW q \in Results, q \in reported[l] PROVE FALSE
            <6>1. q \in Sent(l)
              BY <5>1 DEF Sent
            <6>2. image[l] \subseteq {q, Absent}
              BY <1>2, <6>1 DEF CycleInv, JournalOf
            <6> QED
              BY <4>2, <5>1, <6>2, OutboxAssumption
          <5> QED
            BY <5>1
        <4>4. Verdict(l) = Absent
          BY <1>2, <4>3, VerdictValue
        <4>5. \A k \in Leases : runs'[k] = IF k = l THEN 1 ELSE runs[k]
          BY <1>2, <2>1, <4>1, <4>2 DEF RunStart, CycleInv, TypeOK, AllLeases
        <4>6. Promise!AStart(l)
          BY <3>1, <4>2, <4>4, <4>5, Zenon DEF Promise!AStart
        <4> QED
          BY <4>6 DEF Promise!ANext
      <3>3. CASE cur \notin Leases
        <4>1. \A l \in Leases : runs'[l] = runs[l]
          BY <1>2, <2>1, <3>3 DEF RunStart, CycleInv, TypeOK, AllLeases
        <4> QED
          BY <3>1, <4>1 DEF abstract
      <3> QED
        BY <3>2, <3>3
    <2>2. ASSUME UNCHANGED <<reported, runs>> PROVE UNCHANGED abstract
      BY <2>2, VerdictStays DEF abstract
    <2>3. ASSUME NEW l \in AllLeases, NEW r \in Results \cup {NotRun},
                 NEW ok \in BOOLEAN, postAgentJSON(l, r, ok), UNCHANGED runs
          PROVE  [Promise!ANext]_abstract
      <3>1. CASE Receive(l, r)
        BY <1>2, <2>3, <3>1, ReceiveStep
      <3>2. CASE UNCHANGED reported
        BY SMTT(20), <2>2, <2>3, <3>2
      <3> QED
        BY <2>3, <3>1, <3>2 DEF postAgentJSON
    <2>4. CASE ReportNotRun \/ PlainPost
      BY <1>2, <2>3, <2>4, CycleAssumption DEF ReportNotRun, PlainPost, CycleInv,
         WorkAt, TypeOK, AllLeases
    <2>5. ASSUME NEW a \in {"poll", "work"}, FlushPost(a)
          PROVE  [Promise!ANext]_abstract
      <3>1. PICK p \in todo, ok \in BOOLEAN : postAgentJSON(p[1], p[2], ok)
        BY <2>5 DEF FlushPost
      <3>2. p[1] \in AllLeases /\ p[2] \in Results \cup {NotRun}
        BY <1>2 DEF CycleInv, TypeOK, Entries, AllLeases
      <3> QED
        BY <2>3, <2>5, <3>1, <3>2 DEF FlushPost
    <2>6. CASE LateArrival
      <3>1. PICK p \in late : Receive(p[1], p[2])
        BY <2>6 DEF LateArrival
      <3>2. p[1] \in AllLeases /\ p[2] \in Results \cup {NotRun}
        BY <1>2 DEF CycleInv, TypeOK, Posts
      <3> QED
        BY <1>2, <2>6, <3>1, <3>2, ReceiveStep DEF LateArrival
    <2>7. CASE Poll
      BY <2>2, <2>7 DEF Poll, PollStart, RecoverConfirm, RecoverInterrupted,
         RecoverDone, PollLease
    <2>8. CASE Worker /\ ~(RunStart \/ ReportNotRun \/ PlainPost)
      BY SMTT(20), <2>2, <2>8 DEF Worker, ExecuteTask, RunEnd, CompleteTask,
         ConfirmComplete, BatchEnd
    <2>9. ASSUME NEW a \in {"poll", "work"},
                 FlushPending(a) \/ FlushRemove(a) \/ FlushDone(a)
          PROVE  UNCHANGED abstract
      BY <2>2, <2>9 DEF FlushPending, FlushRemove, FlushDone
    <2>10. CASE Start \/ Shutdown \/ Exit \/ Kill \/ Outage
      BY <2>2, <2>10 DEF Start, Shutdown, Exit, Kill, Outage, ProcessGone
    <2>11. CASE UNCHANGED vars
      BY <2>2, <2>11 DEF vars
    <2> QED
      BY <1>2, <2>1, <2>4, <2>5, <2>6, <2>7, <2>8, <2>9, <2>10, <2>11
         DEF Next, Flush, Worker
  <1> QED
    BY <1>1, <1>2, CycleInvariant, PTL
       DEF Spec, ImplementsDurableTask, Promise!ASpec, abstract
=============================================================================
