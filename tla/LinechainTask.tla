----------------------------- MODULE LinechainTask -----------------------------
(***************************************************************************)
(* One linechain task (durable protocol linechain-e3-v2) from its lease to *)
(* the acknowledged result: the helper's two-file transaction, its         *)
(* resolution by the agent, the recovery that runs before every poll, and  *)
(* the two journals - the task outbox and the transaction journal - whose  *)
(* agreement captureLinechainAuthority demands.                            *)
(*                                                                         *)
(* Only one goroutine works on these files at a time (OutboxHasOneOwner in *)
(* TaskCycle), so there is one program counter.  Every file operation is a *)
(* step that fails, or is published but not durable, or is durable; the    *)
(* agent may be killed and the machine lose power between any two.         *)
(***************************************************************************)
EXTENDS TaskOutbox

CONSTANTS
    OkResults,      \* results with exit code 0; several, because two
    FailedResults   \* attempts differ at least in FinishedAt

ASSUME LinechainAssumption ==
    /\ \E l \in Leases : Leases = {l}
    /\ E3 = Leases
    /\ OkResults # {} /\ FailedResults # {}
    /\ OkResults \cap FailedResults = {}
    /\ Results = OkResults \cup FailedResults \cup {Unknown}
    /\ Unknown \notin OkResults \cup FailedResults
    /\ MaxEntries > 0

VARIABLES
    hadFragment,  \* the fragment existed before the transaction
    outages,      \* whether the machine may lose power
    txn,        \* the transaction directory: journal phase, its result, backups
    txnImg,     \* the directories a power loss may leave (operations in order)
    pair,       \* pair.f, pair.s: fragment and sidecar, "old" or "new"
    pairImg,    \* what a power loss may leave of each
    running,    \* the fragment sing-box was last started with, or "down"
    pc,         \* the step the agent (or its helper) is at
    caller,     \* who runs restoreOld, the terminal write and Cleanup
    helperOK,   \* the helper's exit status
    res,        \* the result being completed
    reported,   \* what the control plane received
    runs        \* how often the helper was started

NotRun == "not run"   \* the report of a lease that could not be journaled

lease == CHOOSE l \in Leases : TRUE
host == <<txn, txnImg, pair, pairImg, running>>
setting == <<hadFragment, outages>>
ctl == <<pc, caller, helperOK, res>>
vars == <<setting, store, host, ctl, reported, runs>>

Terminal == {"terminal_desired", "terminal_old"}
Phases == {"none", "prepared", "fragment_published", "pair_published",
           "desired_verified", "old_restored"} \cup Terminal
Side == {"f", "s"}
TxnDirs == [phase : Phases, result : Results \cup {Absent}, backup : SUBSET Side]

HelperPC == {"apply", "backupF", "backupS", "prepared", "publishF",
             "fragment_published", "publishS", "pair_published", "verify",
             "desired_verified"}
RestorePC == {"restoreF", "restoreS", "old_restored", "restoreVerify"}
AgentPC == {"down", "idle", "capture", "recover", "desiredVerify", "resolve",
            "terminal", "complete", "confirm", "cleanup", "retain", "poll",
            "flush", "post", "remove", "get"}

TypeOK ==
    /\ StoreTypeOK /\ {hadFragment, outages} \subseteq BOOLEAN
    /\ txn \in TxnDirs /\ txnImg \subseteq TxnDirs
    /\ pair \in [Side -> {"old", "new"}]
    /\ pairImg \in [Side -> SUBSET {"old", "new"}]
    /\ running \in {"old", "new", "down"}
    /\ pc \in HelperPC \cup RestorePC \cup AgentPC
    /\ caller \in {"helper", "resolve", "recover"}
    /\ helperOK \in BOOLEAN
    /\ res \in Results
    /\ reported \subseteq Results \cup {NotRun}
    /\ runs \in 0..2

NoTxn == [phase |-> "none", result |-> Absent, backup |-> {}]

Init ==
    /\ StoreInit /\ hadFragment \in BOOLEAN /\ outages \in BOOLEAN
    /\ txn = NoTxn /\ txnImg = {NoTxn}
    /\ pair = [x \in Side |-> "old"] /\ pairImg = [x \in Side |-> {"old"}]
    /\ running = "old"
    /\ pc = "down" /\ caller = "recover" /\ helperOK = FALSE
    /\ res = Unknown
    /\ reported = {}
    /\ runs = 0

-----------------------------------------------------------------------------
(* writeFile, publish and Cleanup's removals: ok is the returned error.    *)
WriteTxn(new, ok) ==
    \/ ok /\ txn' = new /\ txnImg' = {new}
    \/ ~ok /\ txn' = new /\ txnImg' = txnImg \cup {new}
    \/ ~ok /\ UNCHANGED <<txn, txnImg>>

publish(x, v, ok) ==
    \/ ok /\ pair' = [pair EXCEPT ![x] = v] /\ pairImg' = [pairImg EXCEPT ![x] = {v}]
    \/ ~ok /\ pair' = [pair EXCEPT ![x] = v] /\ pairImg' = [pairImg EXCEPT ![x] = @ \cup {v}]
    \/ ~ok /\ UNCHANGED <<pair, pairImg>>

writeJournal(phase, ok) == WriteTxn([txn EXCEPT !.phase = phase], ok)

(* sing-box check, restart and is-active: a failed check restarts nothing, *)
(* a failed restart or verification leaves the service down or running.    *)
checkRestartVerify(ok) ==
    \/ ok /\ running' = pair["f"]
    \/ ~ok /\ running' \in {running, pair["f"], "down"}

pairMatches(v) == \A x \in Side : pair[x] = v

(* validateJournal: a journal that is not terminal needs its backups.      *)
Backups == IF hadFragment THEN Side ELSE {"s"}
validJournal(t) == t.phase \in Terminal \/ t.phase = "none" \/ t.backup = Backups

-----------------------------------------------------------------------------
(* executeTask up to the helper.                                           *)
ExecuteTask ==
    /\ pc = "get"
    /\ reported = {}
    /\ \E committed, err \in BOOLEAN :
        /\ begin(lease, committed, err)
        /\ \/ /\ committed /\ ~err
              /\ pc' = "apply"
              /\ runs' = IF runs < 2 THEN runs + 1 ELSE runs
              /\ UNCHANGED reported
           \/ /\ ~(committed /\ ~err)
              /\ pc' = "idle"
              /\ reported' \in IF err /\ ~committed THEN {reported, {NotRun}} ELSE {reported}
              /\ UNCHANGED runs
    /\ UNCHANGED <<host, caller, helperOK, res, setting>>

NothingLeased ==
    /\ pc = "get"
    /\ pc' = "idle"
    /\ UNCHANGED <<store, host, caller, helperOK, res, reported, runs, setting>>

-----------------------------------------------------------------------------
(* The helper process: Manager.Apply.  An error in a journal or backup     *)
(* write ends it, an error in a publication or in the verification rolls   *)
(* back first.                                                             *)
HelperExit(ok) == pc' = "resolve" /\ helperOK' = ok /\ UNCHANGED caller

Rollback == pc' = "restoreF" /\ caller' = "helper" /\ UNCHANGED helperOK

Go(next) == pc' = next /\ UNCHANGED <<caller, helperOK>>

(* Document, current files and predecessor digests are read and checked.   *)
ApplyRead ==
    /\ pc = "apply"
    /\ Go(IF hadFragment THEN "backupF" ELSE "backupS") \/ HelperExit(FALSE)
    /\ UNCHANGED <<store, host, res, reported, runs, setting>>

(* Faulty Apply: a failed backup is ignored.                               *)
writeBackupIgnored ==
    /\ pc \in {"backupF", "backupS"}
    /\ \E ok \in BOOLEAN :
        WriteTxn([txn EXCEPT !.backup = @ \cup {IF pc = "backupF" THEN "f" ELSE "s"}], ok)
    /\ Go(IF pc = "backupF" THEN "backupS" ELSE "prepared")
    /\ UNCHANGED <<store, pair, pairImg, running, res, reported, runs, setting>>

writeBackup ==
    /\ pc \in {"backupF", "backupS"}
    /\ \E ok \in BOOLEAN :
        /\ WriteTxn([txn EXCEPT !.backup = @ \cup {IF pc = "backupF" THEN "f" ELSE "s"}], ok)
        /\ \/ ok /\ Go(IF pc = "backupF" THEN "backupS" ELSE "prepared")
           \/ ~ok /\ HelperExit(FALSE)
    /\ UNCHANGED <<store, pair, pairImg, running, res, reported, runs, setting>>

ApplyJournal ==
    /\ pc \in {"prepared", "fragment_published", "pair_published", "desired_verified"}
    /\ \E ok \in BOOLEAN :
        /\ writeJournal(pc, ok)
        /\ \/ ~ok /\ HelperExit(FALSE)
           \/ ok /\ pc = "prepared" /\ Go("publishF")
           \/ ok /\ pc = "fragment_published" /\ Go("publishS")
           \/ ok /\ pc = "pair_published" /\ Go("verify")
           \/ ok /\ pc = "desired_verified" /\ HelperExit(TRUE)
    /\ UNCHANGED <<store, pair, pairImg, running, res, reported, runs, setting>>

ApplyPublish ==
    /\ pc \in {"publishF", "publishS"}
    /\ \E ok \in BOOLEAN :
        /\ publish(IF pc = "publishF" THEN "f" ELSE "s", "new", ok)
        /\ \/ ok /\ Go(IF pc = "publishF" THEN "fragment_published" ELSE "pair_published")
           \/ ~ok /\ Rollback
    /\ UNCHANGED <<store, txn, txnImg, running, res, reported, runs, setting>>

ApplyVerify ==
    /\ pc = "verify"
    /\ \E ok \in BOOLEAN :
        /\ checkRestartVerify(ok)
        /\ (ok /\ Go("desired_verified")) \/ (~ok /\ Rollback)
    /\ UNCHANGED <<store, txn, txnImg, pair, pairImg, res, reported, runs, setting>>

(* The task's timeout or the shutdown kills the helper's process group.    *)
HelperKilled ==
    /\ pc \in HelperPC \/ (pc \in RestorePC /\ caller = "helper")
    /\ HelperExit(FALSE)
    /\ UNCHANGED <<store, host, res, reported, runs, setting>>

Helper == ApplyRead \/ writeBackup \/ ApplyJournal \/ ApplyPublish \/ ApplyVerify \/ HelperKilled

-----------------------------------------------------------------------------
(* restoreOld and the verification behind it, for its three callers.  An   *)
(* error ends the helper, and the agent's cycle otherwise.                 *)
RestoreFailed ==
    IF caller = "helper" THEN HelperExit(FALSE)
                         ELSE pc' = "idle" /\ UNCHANGED <<caller, helperOK>>

restorePair ==
    /\ pc \in {"restoreF", "restoreS"}
    /\ LET x == IF pc = "restoreF" THEN "f" ELSE "s"
       IN  \E ok \in BOOLEAN :
            /\ IF x \in Backups \ txn.backup       \* required backup is missing
               THEN ~ok /\ UNCHANGED <<pair, pairImg>>
               ELSE publish(x, "old", ok)
            /\ \/ ok /\ Go(IF pc = "restoreF" THEN "restoreS" ELSE "old_restored")
               \/ ~ok /\ RestoreFailed
    /\ UNCHANGED <<store, txn, txnImg, running, res, reported, runs, setting>>

restoreJournal ==
    /\ pc = "old_restored"
    /\ pairMatches("old")
    /\ \E ok \in BOOLEAN :
        /\ writeJournal("old_restored", ok)
        /\ (ok /\ Go("restoreVerify")) \/ (~ok /\ RestoreFailed)
    /\ UNCHANGED <<store, pair, pairImg, running, res, reported, runs, setting>>

(* The helper exits with its first error whatever the service does; the    *)
(* agent goes on to a terminal failure only with the old runtime verified. *)
restoreVerify ==
    /\ pc = "restoreVerify"
    /\ \E ok \in BOOLEAN :
        /\ checkRestartVerify(ok)
        /\ \/ /\ caller # "helper" /\ ok
              /\ res' \in FailedResults
              /\ Go("terminal")
           \/ /\ caller = "helper" \/ ~ok
              /\ RestoreFailed
              /\ UNCHANGED res
    /\ UNCHANGED <<store, txn, txnImg, pair, pairImg, reported, runs, setting>>

restoreOld == restorePair \/ restoreJournal \/ restoreVerify

-----------------------------------------------------------------------------
(* Faulty resolution: the helper's exit status decides the result.         *)
ResolveByExit ==
    /\ pc = "resolve"
    /\ caller' = "resolve"
    /\ res' \in IF helperOK THEN OkResults ELSE FailedResults
    /\ pc' = "complete"
    /\ UNCHANGED <<store, host, helperOK, reported, runs, setting>>

(* ResolveAfterRun: the transaction journal decides the result.            *)
ResolveAfterRun ==
    /\ pc = "resolve"
    /\ caller' = "resolve"
    /\ \/ /\ txn.phase = "none" /\ ~helperOK     \* nothing was begun on the host
          /\ res' \in FailedResults
          /\ pc' = "complete"
       \/ /\ helperOK /\ txn.phase = "desired_verified" /\ pairMatches("new")
          /\ pc' = "desiredVerify"
          /\ UNCHANGED res
       \/ /\ txn.phase # "none" /\ ~(helperOK /\ txn.phase = "desired_verified")
          /\ pc' = "restoreF"
          /\ UNCHANGED res
       \/ /\ pc' = "idle"                        \* the journal cannot be read
          /\ UNCHANGED res
    /\ UNCHANGED <<store, host, helperOK, reported, runs, setting>>

(* The desired runtime is verified once more; if that fails the old pair   *)
(* comes back.                                                             *)
DesiredVerify ==
    /\ pc = "desiredVerify"
    /\ \E ok \in BOOLEAN :
        /\ checkRestartVerify(ok)
        /\ \/ ok /\ res' \in OkResults /\ Go("terminal")
           \/ ~ok /\ UNCHANGED res /\ Go("restoreF")
    /\ UNCHANGED <<store, txn, txnImg, pair, pairImg, reported, runs, setting>>

WriteTerminal ==
    /\ pc = "terminal"
    /\ \E ok \in BOOLEAN :
        /\ WriteTxn([txn EXCEPT !.phase = IF res \in OkResults THEN "terminal_desired"
                                                              ELSE "terminal_old",
                                !.result = res], ok)
        /\ Go(IF ok THEN "complete" ELSE "idle")
    /\ UNCHANGED <<store, pair, pairImg, running, res, reported, runs, setting>>

(* outbox.Complete, from executeTask and from the recovery's callback.  An *)
(* entry that already holds this result is success without a write.        *)
CompleteE3 ==
    /\ pc = "complete"
    /\ \E committed, err \in BOOLEAN :
        /\ Complete(lease, res, committed, err)
        /\ Go(CASE ~err -> "cleanup"
                [] err /\ committed -> "confirm"
                [] err /\ ~committed -> "idle")
    /\ UNCHANGED <<host, res, reported, runs, setting>>

ConfirmE3 ==
    /\ pc = "confirm"
    /\ \E err \in BOOLEAN :
        /\ ConfirmDurability(err)
        /\ Go(IF err THEN "idle" ELSE "cleanup")
    /\ UNCHANGED <<host, res, reported, runs, setting>>

(* Cleanup removes the backups, then the journal, then syncs; it may stop  *)
(* after any removal.                                                      *)
Removed(n) == CASE n = 0 -> txn
                [] n = 1 -> [txn EXCEPT !.backup = @ \ {"f"}]
                [] n = 2 -> [txn EXCEPT !.backup = {}]
                [] n = 3 -> NoTxn

Cleanup ==
    /\ pc = "cleanup"
    /\ \E n \in 0..3, ok \in BOOLEAN :
        /\ ok => n = 3
        /\ txn' = Removed(n)
        /\ txnImg' = IF ok THEN {NoTxn} ELSE txnImg \cup {Removed(i) : i \in 0..n}
        /\ Go(CASE ok /\ caller = "resolve" -> "flush"
                [] ok /\ caller = "recover" -> "poll"
                [] ~ok /\ caller = "resolve" -> "retain"
                [] ~ok /\ caller = "recover" -> "idle")
    /\ UNCHANGED <<store, pair, pairImg, running, res, reported, runs, setting>>

-----------------------------------------------------------------------------
(* requireLinechainRecovered: captureLinechainAuthority, then recoverOne   *)
(* for the journal it found.                                               *)
(* Faulty authority: only a leased entry may have a transaction journal.   *)
AuthorizedLeasedOnly ==
    /\ validJournal(txn)
    /\ dir[lease] = Leased <=> txn.phase # "none"

Authorized ==
    /\ validJournal(txn)
    /\ dir[lease] = Leased => txn.phase # "none"
    /\ dir[lease] = Absent => txn.phase = "none"
    /\ dir[lease] \in Results /\ txn.phase # "none" => txn.result = dir[lease]

Capture ==
    /\ pc = "idle"
    /\ Authorized
    /\ pc' = IF txn.phase = "none" THEN "poll" ELSE "recover"
    /\ caller' = "recover"
    /\ UNCHANGED <<store, host, helperOK, res, reported, runs, setting>>

(* Recovery refuses to proceed; the cycle ends and the next one asks again.*)
Blocked == pc = "idle" /\ ~Authorized

recoverOne3 ==
    /\ pc = "recover"
    /\ \/ /\ txn.phase \in Terminal
          /\ res' = txn.result
          /\ Go("complete")
       \/ /\ txn.phase = "desired_verified" /\ pairMatches("new")
          /\ UNCHANGED res
          /\ Go("desiredVerify")
       \/ /\ txn.phase \notin Terminal
          /\ ~(txn.phase = "desired_verified" /\ pairMatches("new"))
          /\ UNCHANGED res
          /\ Go("restoreF")
    /\ UNCHANGED <<store, host, reported, runs, setting>>

-----------------------------------------------------------------------------
RecoverInterrupted ==
    /\ pc = "poll"
    /\ \E err \in BOOLEAN :
        /\ ConfirmDurability(err)
        /\ Go(IF err \/ dir[lease] = Leased THEN "idle" ELSE "flush")
    /\ UNCHANGED <<host, res, reported, runs, setting>>

FlushPending ==
    /\ pc = "flush"
    /\ \/ PendingOK /\ Go(IF Pending = {} THEN "get" ELSE "post")
       \/ Go("idle")
    /\ UNCHANGED <<store, host, res, reported, runs, setting>>

(* The result is stored, or only its answer is lost, or it never arrives.  *)
PostResult(next) ==
    \/ reported' = reported \cup {dir[lease]} /\ Go(next)
    \/ reported' = reported \cup {dir[lease]} /\ Go("idle")
    \/ UNCHANGED reported /\ Go("idle")

FlushPost ==
    /\ pc = "post"
    /\ PostResult("remove")
    /\ UNCHANGED <<store, host, res, runs, setting>>

FlushRemove ==
    /\ pc = "remove"
    /\ \E err \in BOOLEAN :
        /\ Remove(lease, err)
        /\ Go(IF err THEN "idle" ELSE "get")
    /\ UNCHANGED <<host, res, reported, runs, setting>>

(* After a failed Cleanup the result is uploaded and its entry kept.       *)
FlushRetain ==
    /\ pc = "retain"
    /\ (PendingOK /\ PostResult("idle")) \/ (UNCHANGED reported /\ Go("idle"))
    /\ UNCHANGED <<store, host, res, runs, setting>>

-----------------------------------------------------------------------------
(* Both directories are opened; only the transaction directory is synced.  *)
Start ==
    /\ pc = "down"
    /\ Open
    /\ txnImg' = {txn}
    /\ pc' = "idle"
    /\ UNCHANGED <<txn, pair, pairImg, running, caller, helperOK, res, reported, runs, setting>>

Kill ==
    /\ pc # "down"
    /\ pc' = "down"
    /\ UNCHANGED <<store, host, caller, helperOK, res, reported, runs, setting>>

(* sing-box comes up after the boot with the fragment that survived.       *)
Outage ==
    /\ outages
    /\ PowerLoss
    /\ txn' \in txnImg /\ txnImg' = {txn'}
    /\ pair' \in {p \in [Side -> {"old", "new"}] : \A x \in Side : p[x] \in pairImg[x]}
    /\ pairImg' = [x \in Side |-> {pair'[x]}]
    /\ running' \in {pair'["f"], "down"}
    /\ pc' = "down"
    /\ UNCHANGED <<caller, helperOK, res, reported, runs, setting>>

Agent ==
    \/ ExecuteTask \/ NothingLeased \/ ResolveAfterRun \/ DesiredVerify
    \/ WriteTerminal \/ CompleteE3 \/ ConfirmE3 \/ Cleanup \/ Capture
    \/ recoverOne3 \/ RecoverInterrupted \/ FlushPending \/ FlushPost
    \/ FlushRemove \/ FlushRetain

Next == Agent \/ Helper \/ restoreOld \/ Start \/ Kill \/ Outage

Spec == Init /\ [][Next]_vars

-----------------------------------------------------------------------------
(* AtMostOnce: the helper is started at most once for the lease.           *)
AtMostOnce == runs <= 1

(* HostMatchesResult: as soon as the outbox holds a result, and for ever   *)
(* after, fragment and sidecar are durably what the result says: both new  *)
(* for success, both old for failure, whatever crashed on the way.         *)
HostMatchesResult ==
    \A r \in ({dir[lease]} \cup image[lease] \cup reported) \ {Absent, Leased} :
        \A x \in Side : pairImg[x] = {IF r \in OkResults THEN "new" ELSE "old"}

(* RuntimeMatchesPair: outside a transaction sing-box does not run a       *)
(* fragment that is no longer on disk.                                     *)
RuntimeMatchesPair == txn.phase = "none" => running \in {pair["f"], "down"}

(* MixedPairIsRecoverable: if a power loss now could leave a new fragment  *)
(* beside an old sidecar (or the reverse), then whichever transaction      *)
(* directory it leaves has a journal that recovery acts on, with backups,  *)
(* and the outbox still has the lease.                                     *)
MixedPairIsRecoverable ==
    (\E f \in pairImg["f"], s \in pairImg["s"] : f # s) =>
        /\ \A t \in txnImg : t.phase \notin Terminal \cup {"none"} /\ t.backup = Backups
        /\ image[lease] = {Leased}

(* JournalSurvivesValid: no power loss leaves a transaction directory that *)
(* validateJournal rejects.                                                *)
JournalSurvivesValid == \A t \in txnImg : validJournal(t)

(* OneResult: the control plane never receives two results for the lease.  *)
OneResult == Cardinality(reported) <= 1

(* UploadIsDurable: a result is uploaded only when no power loss can take  *)
(* it back.                                                                *)
UploadIsDurable ==
    [][\A r \in Results : r \in reported' \ reported => image[lease] = {r}]_vars

-----------------------------------------------------------------------------
(* What recovery needs.                                                    *)

(* BlockedOnlyByMissingJournal: as long as the machine keeps its power,    *)
(* kills and failed writes alone never make the two journals contradict    *)
(* each other; recovery refuses only a leased entry whose helper left no   *)
(* journal.                                                                *)
BlockedOnlyByMissingJournal ==
    ~outages /\ Blocked => dir[lease] = Leased /\ txn.phase = "none"

(* CleanupFollowsDurableCompletion: "cleanup follows its confirmed durable *)
(* completion": the transaction journal is removed only when no power loss *)
(* can bring back an outbox entry without the result.                      *)
CleanupFollowsDurableCompletion == pc = "cleanup" => image[lease] = {res}

(* CompleteGetsStableResult: "complete is called only with a stable exact  *)
(* result": the result recovery hands to the outbox is the one every       *)
(* surviving transaction journal holds.                                    *)
CompleteGetsStableResult ==
    pc = "complete" /\ caller = "recover" => \A t \in txnImg : t.result = res

(* Fairness: every command and request has a deadline, every cycle of the  *)
(* main loop asks again, and what is retried for ever succeeds some time.  *)
Fairness ==
    /\ WF_vars(Start) /\ WF_vars(Agent) /\ WF_vars(Helper) /\ WF_vars(restoreOld)
    /\ SF_vars(restorePair /\ pc' = "restoreS")
    /\ SF_vars(restorePair /\ pc' = "old_restored")
    /\ SF_vars(restoreJournal /\ pc' = "restoreVerify")
    /\ SF_vars(restoreVerify /\ pc' = "terminal")
    /\ SF_vars(WriteTerminal /\ pc' = "complete")
    /\ SF_vars(CompleteE3 /\ pc' = "cleanup")
    /\ SF_vars(Cleanup /\ pc' = "poll")
    /\ SF_vars(RecoverInterrupted /\ pc' = "flush")
    /\ SF_vars(FlushPending /\ pc' = "post")
    /\ SF_vars(FlushPost /\ pc' = "remove")

FairSpec == Spec /\ Fairness

StaysUp == <>[][pc' = "down" => pc = "down"]_vars
Answered == reported \cap Results # {}

(* TransactionAnswered: once the helper has journaled its transaction, if  *)
(* the machine keeps its power and the agent is eventually left running,   *)
(* the control plane gets the result.                                      *)
TransactionAnswered == ~outages /\ StaysUp => (txn.phase # "none" ~> Answered)

(* InterruptedLeaseAnswered: "the next poll will recover this exact        *)
(* journal as an unknown outcome": a journaled lease is answered whatever  *)
(* interrupted it, if the agent is eventually left running.                *)
InterruptedLeaseAnswered == ~outages /\ StaysUp => (dir[lease] = Leased ~> Answered)
=============================================================================
