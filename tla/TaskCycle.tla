------------------------------- MODULE TaskCycle -------------------------------
(***************************************************************************)
(* The task cycle of cmd/lattice-agent: the poll goroutine recovers,       *)
(* uploads and leases; the task worker journals, runs and reports one      *)
(* batch at a time; the control plane hands out every lease it has no      *)
(* result for, again and again.  The process may be killed and the machine *)
(* may lose power between any two steps, every write, fsync and request    *)
(* may fail, and a request whose sender gave up may still arrive later.    *)
(*                                                                         *)
(* This module has the netguard-v1 leases and the tasks without a durable  *)
(* protocol; linechain leases are the subject of LinechainTask.            *)
(***************************************************************************)
EXTENDS TaskOutbox

CONSTANTS
    Plain,      \* leases without the durable-result protocol
    Done,       \* the result of a run, whatever its exit code
    NotRun,     \* "task was not executed because its ... journal could not be written"
    MaxBatch    \* the leases one task response carries at most

ASSUME CycleAssumption ==
    /\ E3 = {}
    /\ Plain \cap Leases = {}
    /\ Done \in Results \ {Unknown}
    /\ NotRun \notin Results
    /\ MaxBatch \in Nat \ {0}

VARIABLES
    poll,       \* where the poll goroutine is
    work,       \* where the task worker is
    busy,       \* taskWorker.busy
    batch,      \* the leases of the batch the worker has not taken up
    cur,        \* the lease executeTask is working on
    todo,       \* what flushTaskResults has not posted of its Pending snapshot
    acked,      \* the posted entry it removes next
    stopping,   \* taskWorker.stopping is closed
    reported,   \* reported[l]: every result the control plane received for l
    late,       \* requests given up by their sender that may still arrive
    runs        \* runs[l]: 0, 1, or 2 for "more than once"

agent == <<poll, work, busy, batch, cur, todo, acked, stopping>>
server == <<reported, late>>
vars == <<store, agent, server, runs>>

AllLeases == Leases \cup Plain
Posts == AllLeases \X (Results \cup {NotRun})
Entries == Leases \X Results

PollPC == {"down", "idle", "recover", "recoverLoop", "reconfirm",
           "flush", "post", "remove", "get"}
WorkPC == {"down", "idle", "next", "notRun", "run", "running", "plainPost",
           "complete", "confirm", "flush", "post", "remove", "end"}

TypeOK ==
    /\ StoreTypeOK
    /\ poll \in PollPC /\ work \in WorkPC
    /\ busy \in BOOLEAN /\ stopping \in BOOLEAN
    /\ batch \subseteq AllLeases /\ cur \in AllLeases
    /\ todo \subseteq Entries /\ acked \subseteq Entries
    /\ reported \in [AllLeases -> SUBSET (Results \cup {NotRun})]
    /\ late \subseteq Posts
    /\ runs \in [AllLeases -> 0..2]

Init ==
    /\ StoreInit
    /\ poll = "down" /\ work = "down"
    /\ busy = FALSE /\ stopping = FALSE
    /\ batch = {} /\ cur \in AllLeases
    /\ todo = {} /\ acked = {}
    /\ reported = [l \in AllLeases |-> {}]
    /\ late = {}
    /\ runs = [l \in AllLeases |-> 0]

-----------------------------------------------------------------------------
(* POST /api/agent/task-result.  ok is what the agent sees: the request    *)
(* may be lost, or be stored and only its answer lost, or still be on its  *)
(* way when the client's timeout ends the call.                            *)
Receive(l, r) == reported' = [reported EXCEPT ![l] = @ \cup {r}]

postAgentJSON(l, r, ok) ==
    \/ /\ Receive(l, r)
       /\ ok \in BOOLEAN
       /\ UNCHANGED late
    \/ /\ ~ok
       /\ UNCHANGED server
    \/ /\ ~ok
       /\ late' = late \cup {<<l, r>>}
       /\ UNCHANGED reported

LateArrival ==
    \E p \in late :
        /\ Receive(p[1], p[2])
        /\ late' = late \ {p}
        /\ UNCHANGED <<store, agent, runs>>

-----------------------------------------------------------------------------
(* flushTaskResults, called by the poll (a = "poll") before it leases and  *)
(* by the worker (a = "work") after it journaled a result.                 *)
At(a, pc) == IF a = "poll" THEN poll = pc ELSE work = pc

(* The calling goroutine moves to pc, the other one stays.                 *)
GoTo(a, pc) ==
    IF a = "poll" THEN poll' = pc /\ UNCHANGED work
                  ELSE work' = pc /\ UNCHANGED poll

(* Where an error takes the caller: the poll gives up this cycle, the      *)
(* worker the rest of its batch.                                           *)
Failed(a) == GoTo(a, IF a = "poll" THEN "idle" ELSE "end")

FlushPending(a) ==
    /\ At(a, "flush")
    /\ \/ /\ PendingOK
          /\ todo' = {<<l, dir[l]>> : l \in Pending}
          /\ GoTo(a, "post")
       \/ /\ Failed(a)
          /\ todo' = {}
    /\ UNCHANGED <<store, busy, batch, cur, acked, stopping, server, runs>>

FlushPost(a) ==
    /\ At(a, "post")
    /\ \E p \in todo, ok \in BOOLEAN :
        /\ postAgentJSON(p[1], p[2], ok)
        /\ \/ ok /\ GoTo(a, "remove") /\ todo' = todo \ {p} /\ acked' = {p}
           \/ ~ok /\ Failed(a) /\ todo' = {} /\ UNCHANGED acked
    /\ UNCHANGED <<store, busy, batch, cur, stopping, runs>>

FlushRemove(a) ==
    /\ At(a, "remove")
    /\ \E p \in acked, err \in BOOLEAN :
        /\ Remove(p[1], err)
        /\ \/ err /\ Failed(a) /\ todo' = {}
           \/ ~err /\ GoTo(a, "post") /\ UNCHANGED todo
    /\ acked' = {}
    /\ UNCHANGED <<busy, batch, cur, stopping, server, runs>>

(* Everything is uploaded: the poll goes on to lease, the worker to its    *)
(* next task.                                                              *)
FlushDone(a) ==
    /\ At(a, "post")
    /\ todo = {}
    /\ GoTo(a, IF a = "poll" THEN "get" ELSE "next")
    /\ UNCHANGED <<store, busy, batch, cur, todo, acked, stopping, server, runs>>

Flush == \E a \in {"poll", "work"} :
    FlushPending(a) \/ FlushPost(a) \/ FlushRemove(a) \/ FlushDone(a)

-----------------------------------------------------------------------------
(* taskWorker.poll and pollTasks.                                          *)
(* Faulty poll: it does not ask whether the worker is busy.                *)
PollStartWhileBusy ==
    /\ poll = "idle" /\ ~stopping
    /\ poll' = "recover"
    /\ UNCHANGED <<store, work, busy, batch, cur, todo, acked, stopping, server, runs>>

PollStart ==
    /\ poll = "idle" /\ ~stopping
    /\ ~busy
    /\ poll' = "recover"
    /\ UNCHANGED <<store, work, busy, batch, cur, todo, acked, stopping, server, runs>>

(* Faulty recovery: a failed directory sync is ignored.                    *)
RecoverConfirmIgnored ==
    /\ poll \in {"recover", "reconfirm"}
    /\ \E err \in BOOLEAN : ConfirmDurability(err)
    /\ poll' = "recoverLoop"
    /\ UNCHANGED <<work, busy, batch, cur, todo, acked, stopping, server, runs>>

RecoverConfirm ==
    /\ poll \in {"recover", "reconfirm"}
    /\ \E err \in BOOLEAN :
        /\ ConfirmDurability(err)
        /\ \/ ~err /\ poll' = "recoverLoop"
           \/ err /\ poll' = "idle"
           \/ poll = "recover" /\ poll' = "idle"    \* readAll failed
    /\ UNCHANGED <<work, busy, batch, cur, todo, acked, stopping, server, runs>>

RecoverInterrupted ==
    /\ poll = "recoverLoop"
    /\ \E l \in Leases, committed, err \in BOOLEAN :
        /\ recoverOne(l, committed, err)
        /\ \/ ~err /\ UNCHANGED poll
           \/ err /\ ~committed /\ poll' = "idle"
           \/ err /\ committed /\ poll' = "reconfirm"
    /\ UNCHANGED <<work, busy, batch, cur, todo, acked, stopping, server, runs>>

RecoverDone ==
    /\ poll = "recoverLoop"
    /\ Interrupted = {}
    /\ poll' = "flush"
    /\ UNCHANGED <<store, work, busy, batch, cur, todo, acked, stopping, server, runs>>

(* GET /api/agent/tasks: the control plane offers any leases it has no     *)
(* result for.  A batch is handed over at once, an empty one ends the poll *)
(* and so does a failed request.                                           *)
PollLease ==
    /\ poll = "get"
    /\ poll' = "idle"
    /\ \/ \E b \in SUBSET {l \in AllLeases : reported[l] = {}} :
            /\ b # {} /\ Cardinality(b) <= MaxBatch
            /\ busy' = TRUE
            /\ batch' = b
            /\ work' = "next"
       \/ UNCHANGED <<busy, batch, work>>
    /\ UNCHANGED <<store, cur, todo, acked, stopping, server, runs>>

-----------------------------------------------------------------------------
(* taskWorker.run, executeTasks and executeTask.                           *)

(* The next lease of the batch.  A durable one is journaled before it runs *)
(* (runs is untouched until RunStart).                                     *)
ExecuteTask ==
    /\ work = "next" /\ ~stopping
    /\ \E l \in batch :
        /\ batch' = batch \ {l}
        /\ cur' = l
        /\ \/ /\ l \in Plain
              /\ work' = "run"
              /\ UNCHANGED store
           \/ /\ l \in Leases
              /\ \E committed, err \in BOOLEAN :
                    /\ begin(l, committed, err)
                    /\ \/ committed /\ ~err /\ work' = "run"
                       \/ committed /\ err /\ work' = "end"
                       \/ ~committed /\ work' = IF err THEN "notRun" ELSE "next"
    /\ UNCHANGED <<poll, busy, todo, acked, stopping, server, runs>>

(* One best-effort report that the task did not run; the batch ends either *)
(* way.                                                                    *)
ReportNotRun ==
    /\ work = "notRun"
    /\ \E ok \in BOOLEAN : postAgentJSON(cur, NotRun, ok)
    /\ work' = "end"
    /\ UNCHANGED <<store, poll, busy, batch, cur, todo, acked, stopping, runs>>

RunStart ==
    /\ work = "run"
    /\ runs' = [runs EXCEPT ![cur] = IF @ < 2 THEN @ + 1 ELSE @]
    /\ work' = "running"
    /\ UNCHANGED <<store, poll, busy, batch, cur, todo, acked, stopping, server>>

(* The script ends, times out, or is killed by the shutdown.               *)
RunEnd ==
    /\ work = "running"
    /\ work' = IF cur \in Plain THEN "plainPost" ELSE "complete"
    /\ UNCHANGED <<store, poll, busy, batch, cur, todo, acked, stopping, server, runs>>

PlainPost ==
    /\ work = "plainPost"
    /\ \E ok \in BOOLEAN :
        /\ postAgentJSON(cur, Done, ok)
        /\ work' = IF ok THEN "next" ELSE "end"
    /\ UNCHANGED <<store, poll, busy, batch, cur, todo, acked, stopping, runs>>

CompleteTask ==
    /\ work = "complete"
    /\ \E committed, err \in BOOLEAN :
        /\ Complete(cur, Done, committed, err)
        /\ \/ ~err /\ work' = "flush"
           \/ err /\ committed /\ work' = "confirm"
           \/ err /\ ~committed /\ work' = "end"
    /\ UNCHANGED <<poll, busy, batch, cur, todo, acked, stopping, server, runs>>

(* A confirmed result is uploaded, but the journal error still ends the    *)
(* batch afterwards.                                                       *)
ConfirmComplete ==
    /\ work = "confirm"
    /\ \E err \in BOOLEAN :
        /\ ConfirmDurability(err)
        /\ work' = IF err THEN "end" ELSE "flush"
    /\ batch' = {}
    /\ UNCHANGED <<poll, busy, cur, todo, acked, stopping, server, runs>>

(* Faulty run loop: the worker stays busy after its batch.                 *)
BatchEndBusy ==
    /\ \/ work = "end"
       \/ work = "next" /\ (batch = {} \/ stopping)
    /\ work' = "idle"
    /\ batch' = {}
    /\ UNCHANGED <<store, poll, busy, cur, todo, acked, stopping, server, runs>>

(* The batch is over; leases it did not start are left to the control      *)
(* plane.                                                                  *)
BatchEnd ==
    /\ \/ work = "end"
       \/ work = "next" /\ (batch = {} \/ stopping)
    /\ work' = "idle"
    /\ busy' = FALSE
    /\ batch' = {}
    /\ UNCHANGED <<store, poll, cur, todo, acked, stopping, server, runs>>

Worker ==
    \/ ExecuteTask \/ ReportNotRun \/ RunStart \/ RunEnd \/ PlainPost
    \/ CompleteTask \/ ConfirmComplete \/ BatchEnd

-----------------------------------------------------------------------------
(* Start, shutdown and crash of the process.                               *)
Start ==
    /\ poll = "down"
    /\ Open
    /\ poll' = "idle" /\ work' = "idle"
    /\ UNCHANGED <<busy, batch, cur, todo, acked, stopping, server, runs>>

(* SIGTERM ends the main loop between two polls.                           *)
Shutdown ==
    /\ poll = "idle" /\ ~stopping
    /\ stopping' = TRUE
    /\ UNCHANGED <<store, poll, work, busy, batch, cur, todo, acked, server, runs>>

ProcessGone ==
    /\ poll' = "down" /\ work' = "down"
    /\ busy' = FALSE /\ stopping' = FALSE
    /\ batch' = {} /\ todo' = {} /\ acked' = {}
    /\ UNCHANGED <<cur, server, runs>>

(* shutdown returns once the worker is done, or when the report grace runs *)
(* out with the worker anywhere.                                           *)
Exit ==
    /\ stopping
    /\ ProcessGone
    /\ UNCHANGED store

Kill ==
    /\ poll # "down"
    /\ ProcessGone
    /\ UNCHANGED store

Outage ==
    /\ PowerLoss
    /\ ProcessGone

Poll == PollStart \/ RecoverConfirm \/ RecoverInterrupted \/ RecoverDone \/ PollLease

Next == Poll \/ Flush \/ Worker \/ LateArrival \/ Start \/ Shutdown \/ Exit \/ Kill \/ Outage

Spec == Init /\ [][Next]_vars

-----------------------------------------------------------------------------
(* Safety.                                                                 *)

(* AtMostOnce: whatever crashes, redeliveries and failed writes happen, a  *)
(* durable lease is executed at most once (executeTask journals it first   *)
(* and RecoverInterrupted never re-runs it).                               *)
AtMostOnce == \A l \in Leases : runs[l] <= 1

(* RunIsJournaled: from the moment a durable task may have touched the     *)
(* host until its result is journaled, no power loss can forget that it    *)
(* was leased.                                                             *)
RunIsJournaled ==
    work \in {"running", "complete"} /\ cur \in Leases => image[cur] = {Leased}

(* OneVerdict: all journaled results the control plane receives for one    *)
(* lease, whenever they arrive and in whatever order, are the same result: *)
(* never the real result and the synthetic unknown outcome both.           *)
Sent(l) == {r \in Results : r \in reported[l] \/ <<l, r>> \in late}
OneVerdict == \A l \in Leases : \A q, r \in Sent(l) : q = r

(* NothingForgotten: a durable task that was started is in the journal     *)
(* after any crash, until the control plane has its result.                *)
NothingForgotten ==
    \A l \in Leases : runs[l] > 0 => Absent \notin image[l] \/ reported[l] \cap Results # {}

(* OutboxHasOneOwner: the poll works on the outbox only while the worker   *)
(* is idle, and the worker only while the poll is not in the outbox.       *)
OutboxHasOneOwner ==
    poll \notin {"down", "idle"} => work = "idle" /\ ~busy

(* LeaseOnEmptyOutbox: when the agent asks for leases, and whenever the    *)
(* worker is about to journal one, no earlier journal is left, on disk or  *)
(* in what a power loss could bring back; so a redelivery under another    *)
(* lease and a full outbox never meet begin.                               *)
LeaseOnEmptyOutbox ==
    poll = "get" \/ (work = "next" /\ batch # {}) => \A l \in Leases : image[l] = {Absent}

(* UploadIsDurable: a journaled result is handed to the network only when  *)
(* it is the one thing a power loss can leave of its journal.              *)
UploadIsDurable ==
    [][\A l \in Leases : \A r \in Results :
         (r \in reported'[l] /\ r \notin reported[l] /\ <<l, r>> \notin late)
           \/ (<<l, r>> \in late' /\ <<l, r>> \notin late)
         => image[l] = {r}]_vars

-----------------------------------------------------------------------------
(* The inductive invariant behind the safety properties.                   *)

Empty == \A l \in Leases : image[l] = {Absent}
Settled == \A l \in Leases : image[l] = {dir[l]} /\ dir[l] # Leased
PendingEntries == {<<l, dir[l]>> : l \in Pending}

(* Who may be in the outbox.                                               *)
Owner ==
    /\ poll = "down" <=> work = "down"
    /\ poll \notin {"down", "idle"} => work = "idle" /\ ~busy
    /\ work \notin {"down", "idle"} => busy

(* What the journal of a lease, the wire and the history have to do with   *)
(* each other.                                                             *)
JournalOf(l) ==
    /\ dir[l] \in image[l]
    /\ \A r \in Sent(l) : image[l] \subseteq {r, Absent}
    /\ \A q, r \in Sent(l) : q = r
    /\ Absent \in image[l] =>
          (runs[l] = 0 /\ Sent(l) = {}) \/ reported[l] \cap Results # {}
    /\ runs[l] <= 1
    /\ \A r \in Results \ {Unknown} : r \in image[l] \cup Sent(l) => runs[l] > 0

(* A leased batch is untouched: not begun, not run, not reported.          *)
BatchFresh ==
    /\ work \notin {"next", "idle", "down"} => cur \notin batch
    /\ \A l \in batch \cap Leases : image[l] = {Absent} /\ runs[l] = 0 /\ Sent(l) = {}

(* flushTaskResults works through exactly what is in the journal.          *)
FlushAt(pc) ==
    /\ pc \in {"flush", "post", "remove"} => Settled
    /\ pc = "post" => todo = PendingEntries
    /\ pc = "remove" => \E p \in PendingEntries :
          acked = {p} /\ todo = PendingEntries \ {p} /\ p[2] \in reported[p[1]]

PollAt ==
    /\ poll = "recoverLoop" => \A l \in Leases : image[l] = {dir[l]}
    /\ poll = "get" => Empty

WorkAt ==
    /\ work = "next" /\ batch # {} => Empty
    /\ work = "plainPost" => cur \in Plain
    /\ work \in {"complete", "confirm"} => cur \in Leases
    /\ work \in {"run", "running", "plainPost"} /\ cur \in Plain => Empty
    /\ work \in {"run", "running", "complete"} /\ cur \in Leases =>
          image[cur] = {Leased} /\ \A l \in Leases \ {cur} : image[l] = {Absent}
    /\ work = "confirm" => dir[cur] = Done /\ \A l \in Leases \ {cur} : image[l] = {Absent}
    /\ work = "run" /\ cur \in Leases => runs[cur] = 0
    /\ work \in {"running", "complete"} /\ cur \in Leases => runs[cur] > 0

(* CycleInv: the inductive invariant: one owner, journals that explain     *)
(* what was run and sent, an untouched batch, and what each place in poll, *)
(* flush and worker knows about the directory.                             *)
CycleInv ==
    /\ TypeOK
    /\ Owner
    /\ \A l \in Leases : JournalOf(l)
    /\ BatchFresh
    /\ FlushAt(poll) /\ FlushAt(work)
    /\ PollAt
    /\ WorkAt

-----------------------------------------------------------------------------
(* The cycle implements the abstract promise.                              *)
AnyOf(S) == IF S = {} THEN Absent ELSE CHOOSE r \in S : TRUE
Verdict(l) == AnyOf(reported[l] \cap Results)

Promise == INSTANCE DurableTask WITH
    None <- Absent,
    starts <- [l \in Leases |-> runs[l]],
    verdict <- [l \in Leases |-> Verdict(l)]

(* ImplementsDurableTask: seen from outside, every step of poll, worker,   *)
(* network and crashes starts a fresh lease, reports a first verdict, or   *)
(* changes nothing.                                                        *)
ImplementsDurableTask == Promise!ASpec

-----------------------------------------------------------------------------
(* Liveness.  Every request has a client timeout and every script a        *)
(* deadline, so each step ends; the main loop polls again on every tick;   *)
(* a write, fsync or request that is tried for ever succeeds some time.    *)
(* The control plane need not offer any lease.                             *)
Fairness ==
    /\ WF_vars(Start) /\ WF_vars(Exit)
    /\ WF_vars(PollStart) /\ WF_vars(RecoverDone) /\ WF_vars(PollLease)
    /\ WF_vars(Worker)
    /\ SF_vars(RecoverConfirm /\ poll' = "recoverLoop")
    /\ SF_vars(RecoverInterrupted /\ poll' = "recoverLoop")
    /\ \A a \in {"poll", "work"} :
        /\ WF_vars(FlushPending(a)) /\ WF_vars(FlushPost(a))
        /\ WF_vars(FlushRemove(a)) /\ WF_vars(FlushDone(a))
    /\ SF_vars(FlushPending("poll") /\ poll' = "post")
    /\ SF_vars(FlushPost("poll") /\ poll' = "remove")
    /\ SF_vars(FlushRemove("poll") /\ poll' = "post")

FairSpec == Spec /\ Fairness

(* From some point on the agent is left running.                           *)
StaysUp == <>[][poll' = "down" => poll = "down"]_vars

(* ResultDelivered: if the agent is eventually left running, a started     *)
(* durable task's result reaches the control plane and every journal is    *)
(* cleared, however many crashes and failures came before.                 *)
ResultDelivered ==
    StaysUp => \A l \in Leases :
        /\ runs[l] > 0 ~> reported[l] \cap Results # {}
        /\ dir[l] # Absent ~> dir[l] = Absent
=============================================================================
