------------------------------ MODULE TaskOutbox ------------------------------
(***************************************************************************)
(* The file-backed task result outbox (internal/taskoutbox): one journal   *)
(* file per durable lease in one private directory.                        *)
(*                                                                         *)
(* A file is published by link(2) or rename(2) of a fully written and      *)
(* fsynced temporary file, so its CONTENT is never torn.  What a power     *)
(* loss can undo is the directory entry, until the directory is fsynced.   *)
(* dir is what the running process sees; image[l] is the set of contents   *)
(* (Absent included) that a power loss may leave behind for lease l.       *)
(*                                                                         *)
(* Every operation of the Store is an action with its (committed, err)     *)
(* return value as parameters, so that a caller's action conjoins the call *)
(* and branches on what it returned.                                       *)
(***************************************************************************)
EXTENDS Naturals, FiniteSets

CONSTANTS
    Leases,      \* durable lease IDs; a lease names one journal file
    TaskOf,      \* the task each lease is a lease of
    E3,          \* the leases whose durable protocol is linechain-e3-v2
    Results,     \* the results a journal can hold
    Unknown,     \* the synthetic "outcome is unknown" result
    MaxEntries   \* maxEntries, the capacity of the directory

Absent == "absent"
Leased == "leased"

ASSUME OutboxAssumption ==
    /\ Unknown \in Results
    /\ Absent \notin Results
    /\ Leased \notin Results
    /\ E3 \subseteq Leases
    /\ MaxEntries \in Nat

VARIABLES
    dir,          \* dir[l]: the visible journal of lease l
    image,        \* image[l]: what a power loss may leave of it
    unconfirmed   \* Store.durabilityUnconfirmed

store == <<dir, image, unconfirmed>>

Files == {Absent, Leased} \cup Results

StoreTypeOK ==
    /\ dir \in [Leases -> Files]
    /\ image \in [Leases -> SUBSET Files]
    /\ unconfirmed \in BOOLEAN

Journaled == {l \in Leases : dir[l] # Absent}

(* readAll refuses a directory that holds more files than maxEntries.      *)
Readable == Cardinality(Journaled) <= MaxEntries

StoreInit ==
    /\ dir = [l \in Leases |-> Absent]
    /\ image = [l \in Leases |-> {Absent}]
    /\ unconfirmed = FALSE

-----------------------------------------------------------------------------
(* A successful fsync of the directory: what is visible is what survives.  *)
Synced == image' = [l \in Leases |-> {dir'[l]}]

(* The entry is published and the fsync behind it fails: both the earlier  *)
(* contents and the new one may survive.                                   *)
Unsynced(l) == image' = [image EXCEPT ![l] = @ \cup {dir'[l]}]

writeEntry(l, entry, committed, err) ==
    \/ /\ ~committed /\ err              \* nothing published
       /\ UNCHANGED store
    \/ /\ committed /\ ~err
       /\ dir' = [dir EXCEPT ![l] = entry]
       /\ Synced
       /\ unconfirmed' = FALSE
    \/ /\ committed /\ err               \* published, durability uncertain
       /\ dir' = [dir EXCEPT ![l] = entry]
       /\ Unsynced(l)
       /\ unconfirmed' = TRUE

(* (FALSE, nil) is the exact redelivery of a journaled lease; another      *)
(* lease of a journaled task and a full directory are errors.              *)
begin(l, committed, err) ==
    LET sameTask == {k \in Journaled : TaskOf[k] = TaskOf[l]}
    IN  \/ /\ Readable /\ sameTask # {}
           /\ ~committed /\ err = (l \notin sameTask)
           /\ UNCHANGED store
        \/ /\ ~Readable \/ (sameTask = {} /\ Cardinality(Journaled) >= MaxEntries)
           /\ ~committed /\ err
           /\ UNCHANGED store
        \/ /\ sameTask = {} /\ Cardinality(Journaled) < MaxEntries
           /\ writeEntry(l, Leased, committed, err)

Complete(l, result, committed, err) ==
    \/ /\ dir[l] = result
       /\ ~committed /\ ~err
       /\ UNCHANGED store
    \/ /\ dir[l] \notin {result, Leased}
       /\ ~committed /\ err
       /\ UNCHANGED store
    \/ /\ dir[l] = Leased
       /\ writeEntry(l, result, committed, err)

(* Faulty ConfirmDurability: the directory is synced only if this process  *)
(* knows of a failed fsync.                                                *)
ConfirmDurabilityIfFlagged(err) ==
    \/ /\ ~unconfirmed /\ ~err
       /\ UNCHANGED store
    \/ /\ unconfirmed /\ err
       /\ UNCHANGED store
    \/ /\ unconfirmed /\ ~err
       /\ UNCHANGED dir
       /\ Synced
       /\ unconfirmed' = FALSE

ConfirmDurability(err) ==
    \/ /\ err
       /\ UNCHANGED store
    \/ /\ ~err
       /\ UNCHANGED dir
       /\ Synced
       /\ unconfirmed' = FALSE

(* One iteration of RecoverInterrupted's loop; the leading                 *)
(* ConfirmDurability and the refusal of a leased E3 entry are the caller's *)
(* steps before it.                                                        *)
Interrupted == {l \in Leases : dir[l] = Leased}

(* Faulty recovery: an interrupted entry is dropped, as if never leased.   *)
recoverOneForgets(l, committed, err) ==
    /\ l \in Interrupted \ E3
    /\ writeEntry(l, Absent, committed, err)

recoverOne(l, committed, err) ==
    /\ l \in Interrupted \ E3
    /\ writeEntry(l, Unknown, committed, err)

(* Pending fails while the flag is set, whatever is visible.               *)
PendingOK == ~unconfirmed /\ Readable
Pending == {l \in Leases : dir[l] \in Results}

(* Success leaves the flag as it is.                                       *)
Remove(l, err) ==
    \/ /\ err
       /\ UNCHANGED store
    \/ /\ ~err
       /\ dir[l] # Absent
       /\ dir' = [dir EXCEPT ![l] = Absent]
       /\ Synced
       /\ UNCHANGED unconfirmed
    \/ /\ err
       /\ dir[l] # Absent
       /\ dir' = [dir EXCEPT ![l] = Absent]
       /\ Unsynced(l)
       /\ unconfirmed' = TRUE

-----------------------------------------------------------------------------
(* A new process opens the directory: the flag starts clear.  cleanupTemps *)
(* syncs the directory only when it removed a leftover temporary file.     *)
Open ==
    /\ Readable
    /\ UNCHANGED dir
    /\ unconfirmed' = FALSE
    /\ \/ UNCHANGED image
       \/ Synced

(* The machine loses power: each unsynced entry is as one of its images.   *)
PowerLoss ==
    /\ dir' \in {d \in [Leases -> Files] : \A l \in Leases : d[l] \in image[l]}
    /\ Synced
    /\ unconfirmed' = FALSE
=============================================================================
