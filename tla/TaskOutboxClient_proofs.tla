----------------------- MODULE TaskOutboxClient_proofs -----------------------
(***************************************************************************)
(* The outbox under its call discipline, for every set of leases and every *)
(* capacity.  The discipline is what the proof rests on: a lease is begun  *)
(* only when all that is visible is durable, so what begin looks at is all *)
(* that a power loss could bring back.  Every other operation touches only *)
(* a lease whose journal may already be there.                             *)
(***************************************************************************)
EXTENDS TaskOutboxClient, TaskOutbox_proofs, FiniteSetTheorems

CSpec == CInit /\ [][CNext]_cvars

(* What an operation on the store does to the results that are durable.    *)
ResultsStay ==
    \A l \in Leases : \A r \in Results : image[l] = {r} => image'[l] \subseteq {r, Absent}

(* A step that makes no new journal possible.                              *)
NothingNew == \A l \in Leases : image[l] = {Absent} => image'[l] = {Absent}

(* A step that makes no new journal possible keeps the leases of a task    *)
(* apart and the directory within its capacity.                            *)
LEMMA NothingNewIsSafe ==
  ASSUME OutboxInv, NothingNew
  PROVE  OneLeasePerTask' /\ IsFiniteSet(Occupied)' /\ (Cardinality(Occupied) <= MaxEntries)'
  <1>1. OneLeasePerTask'
    BY DEF OutboxInv, OneLeasePerTask, NothingNew
  <1>2. Occupied' \in SUBSET Occupied
    BY DEF Occupied, NothingNew
  <1>3. IsFiniteSet(Occupied') /\ Cardinality(Occupied') <= Cardinality(Occupied)
    BY <1>2, FS_Subset DEF OutboxInv
  <1>4. Cardinality(Occupied) \in Nat /\ Cardinality(Occupied') \in Nat
    BY <1>3, FS_CardinalityType DEF OutboxInv
  <1> QED
    BY <1>1, <1>3, <1>4, OutboxAssumption DEF OutboxInv

(* A journal of a lease that is already there is replaced.                 *)
LEMMA RewriteIsSafe ==
  ASSUME OutboxInv, NEW l \in Leases, NEW entry \in Files, NEW committed \in BOOLEAN,
         NEW err \in BOOLEAN, dir[l] = Leased, writeEntry(l, entry, committed, err)
  PROVE  /\ StoreTypeOK' /\ Visible' /\ NothingNew /\ ResultsStay
         /\ ~err => \A k \in Leases : image'[k] = {dir'[k]}
  <1>1. StoreTypeOK'
    BY WriteEntryType DEF OutboxInv, CTypeOK
  <1>2. Leased \in image[l] /\ Leased # Absent /\ Leased \notin Results
    BY OutboxAssumption DEF OutboxInv, Visible, Leased, Absent
  <1>3. CASE UNCHANGED store /\ err
    BY <1>1, <1>3 DEF OutboxInv, Visible, NothingNew, ResultsStay, store
  <1>4. CASE dir' = [dir EXCEPT ![l] = entry] /\ Synced
    BY <1>1, <1>2, <1>4 DEF OutboxInv, CTypeOK, StoreTypeOK, Visible, NothingNew, ResultsStay, Synced
  <1>5. CASE dir' = [dir EXCEPT ![l] = entry] /\ Unsynced(l) /\ err
    BY <1>1, <1>2, <1>5 DEF OutboxInv, CTypeOK, StoreTypeOK, Visible, NothingNew, ResultsStay, Unsynced
  <1> QED
    BY <1>3, <1>4, <1>5 DEF writeEntry

(* An fsync alone, as ConfirmDurability and Open do it.                    *)
LEMMA SyncIsSafe ==
  ASSUME OutboxInv, UNCHANGED dir, Synced, unconfirmed' \in BOOLEAN
  PROVE  /\ StoreTypeOK' /\ Visible' /\ NothingNew /\ ResultsStay
         /\ \A k \in Leases : image'[k] = {dir'[k]}
  <1>1. StoreTypeOK'
    BY SyncedType DEF OutboxInv, CTypeOK, StoreTypeOK
  <1> QED
    BY <1>1 DEF OutboxInv, CTypeOK, StoreTypeOK, Visible, NothingNew, ResultsStay, Synced

(* A journal is removed after its result was uploaded.                     *)
LEMMA RemoveIsSafe ==
  ASSUME OutboxInv, NEW l \in Pending, NEW err \in BOOLEAN, Remove(l, err)
  PROVE  /\ StoreTypeOK' /\ Visible' /\ NothingNew /\ ResultsStay
         /\ ~err => \A k \in Leases : image'[k] = {dir'[k]}
  <1>1. l \in Leases /\ dir[l] \in image[l] /\ dir[l] # Absent
    BY OutboxAssumption DEF Pending, OutboxInv, Visible
  <1>2. StoreTypeOK'
    BY <1>1, RemoveType DEF OutboxInv, CTypeOK
  <1>3. CASE UNCHANGED store /\ err
    BY <1>2, <1>3 DEF OutboxInv, Visible, NothingNew, ResultsStay, store
  <1>4. CASE dir' = [dir EXCEPT ![l] = Absent] /\ Synced
    BY <1>1, <1>2, <1>4 DEF OutboxInv, CTypeOK, StoreTypeOK, Visible, NothingNew, ResultsStay, Synced
  <1>5. CASE dir' = [dir EXCEPT ![l] = Absent] /\ Unsynced(l) /\ err
    BY <1>1, <1>2, <1>5 DEF OutboxInv, CTypeOK, StoreTypeOK, Visible, NothingNew, ResultsStay, Unsynced
  <1> QED
    BY <1>3, <1>4, <1>5 DEF Remove

(* The machine loses power: each entry is as one of its images.            *)
LEMMA OutageIsSafe ==
  ASSUME OutboxInv, PowerLoss
  PROVE  StoreTypeOK' /\ Visible' /\ NothingNew /\ ResultsStay
  <1>1. StoreTypeOK'
    BY RestartType DEF OutboxInv, CTypeOK
  <1>2. \A l \in Leases : dir'[l] \in image[l] /\ image'[l] = {dir'[l]}
    BY DEF PowerLoss, Synced
  <1> QED
    BY <1>1, <1>2 DEF Visible, NothingNew, ResultsStay

(* A lease is begun: with everything durable, what is visible is all that  *)
(* there is, so one more journal fits and none of its task exists.         *)
LEMMA BeginIsSafe ==
  ASSUME OutboxInv, mode = "ready", NEW l \in Leases, NEW committed \in BOOLEAN,
         NEW err \in BOOLEAN, begin(l, committed, err)
  PROVE  /\ StoreTypeOK' /\ Visible' /\ ResultsStay /\ OneLeasePerTask'
         /\ IsFiniteSet(Occupied') /\ Cardinality(Occupied') <= MaxEntries
         /\ ~err => \A k \in Leases : image'[k] = {dir'[k]}
  <1>1. StoreTypeOK'
    BY BeginType DEF OutboxInv, CTypeOK
  <1>2. \A k \in Leases : image[k] = {dir[k]}
    BY DEF OutboxInv, Confirmed
  <1>3. CASE UNCHANGED store
    <2>1. NothingNew /\ ResultsStay /\ Visible' /\ \A k \in Leases : image'[k] = {dir'[k]}
      BY <1>2, <1>3 DEF NothingNew, ResultsStay, store, OutboxInv, Visible
    <2> QED
      BY <1>1, <2>1, NothingNewIsSafe
  <1>4. CASE /\ {k \in Journaled : TaskOf[k] = TaskOf[l]} = {}
             /\ Cardinality(Journaled) < MaxEntries
             /\ writeEntry(l, Leased, committed, err)
             /\ ~UNCHANGED store
    <2>1. Occupied = Journaled
      BY <1>2 DEF Occupied, Journaled
    <2>2. \A k \in Leases : TaskOf[k] = TaskOf[l] => dir[k] = Absent
      BY <1>4 DEF Journaled
    <2>3. \A k \in Leases : k # l => dir'[k] = dir[k] /\ image'[k] = image[k]
      BY <1>2, <1>4 DEF writeEntry, Synced, Unsynced, OutboxInv, CTypeOK, StoreTypeOK
    <2>4. dir'[l] = Leased /\ Leased \in image'[l] /\ image'[l] \subseteq {Absent, Leased}
      BY <1>2, <1>4, <2>2 DEF writeEntry, Synced, Unsynced, OutboxInv, CTypeOK, StoreTypeOK
    <2>5. Visible' /\ ResultsStay
      BY <1>2, <2>2, <2>3, <2>4, OutboxAssumption DEF Visible, ResultsStay
    <2>6. OneLeasePerTask'
      BY <1>2, <2>2, <2>3 DEF OutboxInv, OneLeasePerTask
    <2>7. Occupied' \in SUBSET (Journaled \cup {l})
      BY <2>1, <2>3 DEF Occupied
    <2>8. IsFiniteSet(Journaled) /\ Cardinality(Journaled) \in Nat
      BY <2>1, FS_CardinalityType DEF OutboxInv
    <2>9. /\ IsFiniteSet(Journaled \cup {l})
          /\ Cardinality(Journaled \cup {l}) \in Nat
          /\ Cardinality(Journaled \cup {l}) <= MaxEntries
      <3>1. /\ IsFiniteSet(Journaled \cup {l})
            /\ Cardinality(Journaled \cup {l}) \in {Cardinality(Journaled), Cardinality(Journaled) + 1}
        BY <2>8, FS_AddElement
      <3> QED
        BY <1>4, <2>8, <3>1, OutboxAssumption
    <2>10. IsFiniteSet(Occupied') /\ Cardinality(Occupied') <= Cardinality(Journaled \cup {l})
      BY <2>7, <2>9, FS_Subset
    <2>11. Cardinality(Occupied') <= MaxEntries
      BY <2>9, <2>10, FS_CardinalityType, OutboxAssumption
    <2>12. ~err => \A k \in Leases : image'[k] = {dir'[k]}
      BY <1>4 DEF writeEntry, Synced, store
    <2> QED
      BY <1>1, <2>5, <2>6, <2>10, <2>11, <2>12
  <1> QED
    BY <1>3, <1>4 DEF begin, writeEntry

(* OutboxSteps: every operation under the discipline keeps the invariant,  *)
(* and no durable result is replaced on the way.                           *)
LEMMA OutboxSteps ==
  ASSUME OutboxInv, [CNext]_cvars
  PROVE  OutboxInv' /\ ResultsStay
  <1> DEFINE Safe == StoreTypeOK' /\ Visible' /\ NothingNew /\ ResultsStay
             AllDurable == \A k \in Leases : image'[k] = {dir'[k]}
  <1>0. mode # "idle" => \A k \in Leases : image[k] = {dir[k]}
    BY DEF OutboxInv, Confirmed
  <1>1. ASSUME Safe, mode' \in {"idle", "recovering", "ready"}, mode' # "idle" => AllDurable
        PROVE  OutboxInv' /\ ResultsStay
    BY <1>1, NothingNewIsSafe DEF OutboxInv, CTypeOK, Confirmed
  <1>2. CASE CBegin
    <2>1. PICK l \in Leases, committed \in BOOLEAN, err \in BOOLEAN :
             mode = "ready" /\ begin(l, committed, err) /\ After(err)
      BY <1>2 DEF CBegin
    <2> QED
      BY <2>1, BeginIsSafe DEF OutboxInv, CTypeOK, Confirmed, After
  <1>3. CASE CComplete
    <2>1. PICK l \in Leases, r \in Results, committed \in BOOLEAN, err \in BOOLEAN :
             Complete(l, r, committed, err) /\ After(err)
      BY <1>3 DEF CComplete
    <2>2. CASE UNCHANGED store
      BY <1>0, <1>1, <2>1, <2>2
      DEF OutboxInv, CTypeOK, StoreTypeOK, Visible, NothingNew, ResultsStay, store, After
    <2>3. CASE dir[l] = Leased /\ writeEntry(l, r, committed, err)
      BY <1>1, <2>1, <2>3, RewriteIsSafe DEF Files, After, OutboxInv, CTypeOK
    <2> QED
      BY <2>1, <2>2, <2>3 DEF Complete
  <1>4. CASE CConfirm
    <2>1. PICK err \in BOOLEAN :
             ConfirmDurability(err) /\ mode' = IF err THEN "idle" ELSE "recovering"
      BY <1>4 DEF CConfirm
    <2>2. CASE UNCHANGED store /\ err
      BY <1>1, <2>1, <2>2
      DEF OutboxInv, CTypeOK, StoreTypeOK, Visible, NothingNew, ResultsStay, store
    <2>3. CASE UNCHANGED dir /\ Synced /\ unconfirmed' = FALSE
      BY <1>1, <2>1, <2>3, SyncIsSafe
    <2> QED
      BY <2>1, <2>2, <2>3 DEF ConfirmDurability
  <1>5. CASE CRecoverOne
    <2>1. PICK l \in Leases, committed \in BOOLEAN, err \in BOOLEAN :
             mode = "recovering" /\ recoverOne(l, committed, err) /\ After(err)
      BY <1>5 DEF CRecoverOne
    <2> QED
      BY <1>1, <2>1, RewriteIsSafe, OutboxAssumption DEF recoverOne, Interrupted, Files, After
  <1>6. CASE CRecoverDone
    BY <1>0, <1>1, <1>6
    DEF CRecoverDone, OutboxInv, CTypeOK, StoreTypeOK, Visible, NothingNew, ResultsStay, store
  <1>7. CASE CRemove
    <2>1. PICK l \in Pending, err \in BOOLEAN : mode = "ready" /\ Remove(l, err) /\ After(err)
      BY <1>7 DEF CRemove
    <2> QED
      BY <1>1, <2>1, RemoveIsSafe DEF After
  <1>8. CASE CReopen
    <2>1. CASE UNCHANGED image
      BY <1>1, <1>8, <2>1
      DEF CReopen, Open, OutboxInv, CTypeOK, StoreTypeOK, Visible, NothingNew, ResultsStay
    <2>2. CASE Synced
      BY <1>1, <1>8, <2>2, SyncIsSafe DEF CReopen, Open
    <2> QED
      BY <1>8, <2>1, <2>2 DEF CReopen, Open
  <1>9. CASE COutage
    BY <1>1, <1>9, OutageIsSafe DEF COutage
  <1>10. CASE UNCHANGED cvars
    BY <1>0, <1>1, <1>10
    DEF OutboxInv, CTypeOK, StoreTypeOK, Visible, NothingNew, ResultsStay, cvars, store
  <1> QED
    BY <1>2, <1>3, <1>4, <1>5, <1>6, <1>7, <1>8, <1>9, <1>10 DEF CNext

(* A new outbox is empty.                                                  *)
LEMMA OutboxInitially == CInit => OutboxInv
  <1> SUFFICES ASSUME CInit
               PROVE  OutboxInv
    OBVIOUS
  <1>1. CTypeOK /\ Visible /\ Confirmed /\ OneLeasePerTask
    BY DEF CInit, StoreInit, CTypeOK, StoreTypeOK, Files, Visible, Confirmed, OneLeasePerTask
  <1>2. Occupied = {}
    BY DEF CInit, StoreInit, Occupied
  <1> QED
    BY <1>1, <1>2, FS_EmptySet, OutboxAssumption DEF OutboxInv

(* OutboxInvariant: in every state its callers, failed writes and crashes  *)
(* can bring the Store to, no power loss can leave more entries than are   *)
(* visible now, two leases of a task, or something else than what Pending  *)
(* hands out after a recovery.                                             *)
THEOREM OutboxInvariant == CSpec => []OutboxInv
  <1>1. OutboxInv /\ [CNext]_cvars => OutboxInv'
    BY OutboxSteps
  <1> QED
    BY <1>1, OutboxInitially, PTL DEF CSpec

(* ReadyTheorem: what Pending hands out after a recovery survives a power  *)
(* loss.                                                                   *)
THEOREM ReadyTheorem == CSpec => []ReadyIsDurable
  <1>1. OutboxInv => ReadyIsDurable
    BY DEF OutboxInv, Confirmed, ReadyIsDurable
  <1> QED
    BY <1>1, OutboxInvariant, PTL

(* OneLeaseTheorem: no crash leaves journals of two leases of one task.    *)
THEOREM OneLeaseTheorem == CSpec => []OneLeasePerTask
  <1>1. OutboxInv => OneLeasePerTask
    BY DEF OutboxInv
  <1> QED
    BY <1>1, OutboxInvariant, PTL

(* ReadableTheorem: no crash leaves more journals than readAll accepts.    *)
THEOREM ReadableTheorem == CSpec => []AlwaysReadable
  <1>1. OutboxInv => AlwaysReadable
    BY DEF OutboxInv, AlwaysReadable, Occupied
  <1> QED
    BY <1>1, OutboxInvariant, PTL

(* DurableResultTheorem: a durable result is never replaced.               *)
THEOREM DurableResultTheorem == CSpec => DurableResultStays
  <1>1. OutboxInv /\ [CNext]_cvars => [ResultsStay]_cvars
    BY OutboxSteps
  <1>2. [][ResultsStay]_cvars => DurableResultStays
    BY PTL DEF ResultsStay, DurableResultStays
  <1> QED
    BY <1>1, <1>2, OutboxInvariant, PTL DEF CSpec
=============================================================================
