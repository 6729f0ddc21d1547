--------------------------- MODULE TaskOutboxClient ---------------------------
(***************************************************************************)
(* The outbox under any caller that keeps the call discipline of           *)
(* cmd/lattice-agent: leases are begun and results uploaded only after a   *)
(* RecoverInterrupted that succeeded and with no outbox error since, while *)
(* Complete may be called at any time (linechain recovery completes its    *)
(* leases before RecoverInterrupted runs).  Unlike in TaskCycle the        *)
(* directory fills up here, so every branch of the Store is exercised.     *)
(***************************************************************************)
EXTENDS TaskOutbox

VARIABLE mode   \* "idle" after an open or an error, "recovering", "ready"

cvars == <<store, mode>>

CTypeOK == StoreTypeOK /\ mode \in {"idle", "recovering", "ready"}

CInit == StoreInit /\ mode = "idle"

(* The discipline: any error means recovery has to be run again.           *)
After(err) == mode' = IF err THEN "idle" ELSE mode

CBegin == \E l \in Leases, committed, err \in BOOLEAN :
    /\ mode = "ready"
    /\ begin(l, committed, err)
    /\ After(err)

CComplete == \E l \in Leases, r \in Results \ {Unknown}, committed, err \in BOOLEAN :
    /\ Complete(l, r, committed, err)
    /\ After(err)

CConfirm == \E err \in BOOLEAN :
    /\ mode # "ready"
    /\ ConfirmDurability(err)
    /\ mode' = IF err THEN "idle" ELSE "recovering"

CRecoverOne == \E l \in Leases, committed, err \in BOOLEAN :
    /\ mode = "recovering"
    /\ recoverOne(l, committed, err)
    /\ After(err)

(* A leased E3 entry keeps the store from becoming ready.                  *)
CRecoverDone ==
    /\ mode = "recovering"
    /\ Interrupted = {}
    /\ mode' = "ready"
    /\ UNCHANGED store

CRemove == \E l \in Pending, err \in BOOLEAN :
    /\ mode = "ready" /\ PendingOK
    /\ Remove(l, err)
    /\ After(err)

CReopen == Open /\ mode' = "idle"

COutage == PowerLoss /\ mode' = "idle"

CNext ==
    \/ CBegin \/ CComplete \/ CConfirm \/ CRecoverOne \/ CRecoverDone
    \/ CRemove \/ CReopen \/ COutage

-----------------------------------------------------------------------------
(* ReadyIsDurable: once recovery has succeeded, everything Pending could   *)
(* hand to an uploader survives a power loss as it is: the leading         *)
(* ConfirmDurability makes up for the flag a restart forgets.              *)
ReadyIsDurable == mode = "ready" => \A l \in Leases : image[l] = {dir[l]}

(* OneLeasePerTask: no crash leaves journals of two leases of one task.    *)
OneLeasePerTask ==
    \A k, l \in Leases :
        k # l /\ TaskOf[k] = TaskOf[l] => image[k] = {Absent} \/ image[l] = {Absent}

(* AlwaysReadable: no crash leaves more journals than readAll accepts, so  *)
(* the agent can always open its outbox again.                             *)
AlwaysReadable ==
    Cardinality({l \in Leases : image[l] # {Absent}}) <= MaxEntries

(* DurableResultStays: a result that is durable is never replaced, neither *)
(* by another result nor by a crash; it can only be removed.               *)
DurableResultStays ==
    [][\A l \in Leases : \A r \in Results :
         image[l] = {r} => image'[l] \subseteq {r, Absent}]_cvars

(* The leases of which a power loss may leave a journal.                   *)
Occupied == {l \in Leases : image[l] # {Absent}}

Visible == \A l \in Leases : dir[l] \in image[l]

(* ReadyIsDurable is not inductive: recovery becomes ready without another *)
(* fsync, on the strength of the ConfirmDurability it began with.          *)
Confirmed == mode # "idle" => \A l \in Leases : image[l] = {dir[l]}

(* OutboxInv: what makes the outbox safe under any order of calls, failed  *)
(* fsyncs, restarts and power losses: from the confirmation that begins a  *)
(* recovery until the next error all that is seen is durable, no crash can *)
(* leave journals of two leases of one task, nor more of them than readAll *)
(* accepts.                                                                *)
OutboxInv ==
    /\ CTypeOK /\ Visible /\ Confirmed /\ OneLeasePerTask
    /\ IsFiniteSet(Occupied) /\ Cardinality(Occupied) <= MaxEntries
=============================================================================
