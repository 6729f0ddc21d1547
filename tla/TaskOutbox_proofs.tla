--------------------------- MODULE TaskOutbox_proofs ---------------------------
(* Type correctness of the Store's operations, for every set of leases.    *)
EXTENDS TaskOutbox, TLAPS

(* A synced directory has well-typed images.                               *)
LEMMA SyncedType ==
  ASSUME dir' \in [Leases -> Files], Synced
  PROVE  image' \in [Leases -> SUBSET Files]
  <1>1. ASSUME NEW d \in [Leases -> Files]
        PROVE  [l \in Leases |-> {d[l]}] \in [Leases -> SUBSET Files]
    OBVIOUS
  <1> QED
    BY <1>1 DEF Synced

(* And so has one with an unsynced entry.                                  *)
LEMMA UnsyncedType ==
  ASSUME image \in [Leases -> SUBSET Files], dir' \in [Leases -> Files],
         NEW k \in Leases, Unsynced(k)
  PROVE  image' \in [Leases -> SUBSET Files]
  <1>1. ASSUME NEW d \in [Leases -> Files], NEW i \in [Leases -> SUBSET Files]
        PROVE  [i EXCEPT ![k] = @ \cup {d[k]}] \in [Leases -> SUBSET Files]
    OBVIOUS
  <1> QED
    BY <1>1 DEF Unsynced

(* writeEntry keeps the store well typed.                                  *)
LEMMA WriteEntryType ==
  ASSUME StoreTypeOK, NEW l \in Leases, NEW entry \in Files,
         NEW committed \in BOOLEAN, NEW err \in BOOLEAN,
         writeEntry(l, entry, committed, err)
  PROVE  StoreTypeOK'
  <1>1. dir' \in [Leases -> Files] /\ unconfirmed' \in BOOLEAN
    BY Zenon DEF StoreTypeOK, writeEntry, store
  <1> QED
    BY <1>1, SyncedType, UnsyncedType DEF StoreTypeOK, writeEntry, store

(* ConfirmDurability keeps the store well typed.                           *)
LEMMA ConfirmType ==
  ASSUME StoreTypeOK, NEW err \in BOOLEAN, ConfirmDurability(err)
  PROVE  StoreTypeOK'
  <1>1. dir' \in [Leases -> Files] /\ unconfirmed' \in BOOLEAN
    BY Zenon DEF StoreTypeOK, ConfirmDurability, store
  <1> QED
    BY <1>1, SyncedType DEF StoreTypeOK, ConfirmDurability, store

(* Remove keeps the store well typed.                                      *)
LEMMA RemoveType ==
  ASSUME StoreTypeOK, NEW l \in Leases, NEW err \in BOOLEAN, Remove(l, err)
  PROVE  StoreTypeOK'
  <1>1. dir' \in [Leases -> Files] /\ unconfirmed' \in BOOLEAN
    BY Zenon DEF StoreTypeOK, Remove, store, Files
  <1> QED
    BY <1>1, SyncedType, UnsyncedType DEF StoreTypeOK, Remove, store

(* A new process and a power loss keep the store well typed.               *)
LEMMA RestartType ==
  ASSUME StoreTypeOK, Open \/ PowerLoss
  PROVE  StoreTypeOK'
  <1>1. dir' \in [Leases -> Files] /\ unconfirmed' \in BOOLEAN
    BY Zenon DEF StoreTypeOK, Open, PowerLoss, store
  <1> QED
    BY <1>1, SyncedType DEF StoreTypeOK, Open, PowerLoss, store

(* begin keeps the store well typed.                                       *)
LEMMA BeginType ==
  ASSUME StoreTypeOK, NEW l \in Leases, NEW committed \in BOOLEAN,
         NEW err \in BOOLEAN, begin(l, committed, err)
  PROVE  StoreTypeOK'
  <1>1. CASE UNCHANGED store
    BY <1>1 DEF StoreTypeOK, store
  <1>2. CASE writeEntry(l, Leased, committed, err)
    BY <1>2, WriteEntryType DEF Files
  <1> QED
    BY <1>1, <1>2 DEF begin

(* Complete keeps the store well typed.                                    *)
LEMMA CompleteType ==
  ASSUME StoreTypeOK, NEW l \in Leases, NEW r \in Results,
         NEW committed \in BOOLEAN, NEW err \in BOOLEAN,
         Complete(l, r, committed, err)
  PROVE  StoreTypeOK'
  <1>1. CASE UNCHANGED store
    BY <1>1 DEF StoreTypeOK, store
  <1>2. CASE writeEntry(l, r, committed, err)
    BY <1>2, WriteEntryType DEF Files
  <1> QED
    BY <1>1, <1>2 DEF Complete
=============================================================================
