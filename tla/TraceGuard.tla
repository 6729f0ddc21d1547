----------------------------- MODULE TraceGuard ------------------------------
(***************************************************************************)
(* traceshed.Guard (internal/traceshed): the budget of parsed lines per    *)
(* second, which sheds whole connections, and the ring that remembers the  *)
(* log ids it shed.  tracked stands for sessionasm's Tracked: a line that  *)
(* is kept creates an entry, which the assembler forgets at some time.     *)
(***************************************************************************)
EXTENDS Integers, Sequences, FiniteSets

CONSTANTS
    LogIds,       \* log ids, which sing-box may use again
    Budgets,      \* the budgets SetBudget is given
    Factor,       \* HardCeilingFactor
    RingCap,      \* the ring's capacity
    MaxPerSecond,   \* bound: entries in a second
    MaxSeq        \* bound: connections shed

VARIABLES
    budget,            \* Guard.budget
    entries, parsed,   \* the current second
    ids,               \* shedRing.ids: the mark of every id, 0 for none
    ring, pos, seq,    \* shedRing's slots, the next to overwrite, the last number
    tracked,           \* the ids the assembler holds
    silenced,          \* the ids whose current connection was counted as shed
    since              \* marks set after the id's own

traceGuardVars == <<budget, entries, parsed, ids, ring, pos, seq, tracked, silenced, since>>

Slot == [id : LogIds, seq : 1..MaxSeq]

TraceGuardTypeOK ==
    /\ budget \in Budgets
    /\ entries \in 0..MaxPerSecond /\ parsed \in 0..entries
    /\ ids \in [LogIds -> 0..MaxSeq] /\ seq \in 0..MaxSeq
    /\ ring \in Seq(Slot) /\ Len(ring) <= RingCap /\ pos \in 0..(RingCap - 1)
    /\ tracked \subseteq LogIds /\ silenced \subseteq LogIds /\ since \in [LogIds -> 0..MaxSeq]

TraceGuardInit ==
    /\ budget \in Budgets /\ entries = 0 /\ parsed = 0
    /\ ids = [i \in LogIds |-> 0] /\ ring = <<>> /\ pos = 0 /\ seq = 0
    /\ tracked = {} /\ silenced = {} /\ since = [i \in LogIds |-> 0]

-----------------------------------------------------------------------------
(* roll: a second has ended.                                               *)
NewSecond ==
    /\ entries > 0
    /\ entries' = 0 /\ parsed' = 0
    /\ UNCHANGED <<budget, ids, ring, pos, seq, tracked, silenced, since>>

(* Ceiling lets an entry through.                                          *)
Ceiling == entries < budget * Factor

(* An entry over the ceiling is dropped before it is parsed, and every     *)
(* entry after it in this second.                                          *)
Cut ==
    /\ ~Ceiling /\ entries < MaxPerSecond
    /\ entries' = entries + 1
    /\ UNCHANGED <<budget, parsed, ids, ring, pos, seq, tracked, silenced, since>>

Entry ==
    /\ Ceiling /\ entries < MaxPerSecond
    /\ entries' = entries + 1 /\ parsed' = parsed + 1 /\ UNCHANGED budget

over == parsed + 1 > budget

(* A line without a log id: it belongs to no connection.                   *)
AdmitPlain == Entry /\ UNCHANGED <<ids, ring, pos, seq, tracked, silenced, since>>

remove(m, id) == [m EXCEPT ![id] = 0]

(* Faulty shedRing.add: overwriting a slot clears its id's mark, whichever *)
(* mark it is.                                                             *)
addClears(m, id) ==
    /\ IF Len(ring) < RingCap
       THEN /\ ring' = Append(ring, [id |-> id, seq |-> seq + 1])
            /\ ids' = [m EXCEPT ![id] = seq + 1] /\ UNCHANGED pos
       ELSE /\ ring' = [ring EXCEPT ![pos + 1] = [id |-> id, seq |-> seq + 1]]
            /\ ids' = [remove(m, ring[pos + 1].id) EXCEPT ![id] = seq + 1]
            /\ pos' = (pos + 1) % RingCap

(* shedRing.add to the marks m: overwriting a slot clears its mark only if *)
(* the id was not marked again since.                                      *)
add(m, id) ==
    /\ IF Len(ring) < RingCap
       THEN /\ ring' = Append(ring, [id |-> id, seq |-> seq + 1])
            /\ ids' = [m EXCEPT ![id] = seq + 1] /\ UNCHANGED pos
       ELSE LET old == ring[pos + 1]
                kept == IF m[old.id] = old.seq THEN remove(m, old.id) ELSE m
            IN  /\ ring' = [ring EXCEPT ![pos + 1] = [id |-> id, seq |-> seq + 1]]
                /\ ids' = [kept EXCEPT ![id] = seq + 1]
                /\ pos' = (pos + 1) % RingCap

Keep(m, id) ==
    /\ ids' = m /\ tracked' = tracked \cup {id}
    /\ UNCHANGED <<ring, pos, seq>>

(* The id is marked and its connection counted.                            *)
Shed(m, id) ==
    /\ seq < MaxSeq
    /\ add(m, id) /\ seq' = seq + 1
    /\ silenced' = silenced \cup {id}
    /\ since' = [i \in LogIds |-> IF i = id THEN 0 ELSE since[i] + (IF since[i] < MaxSeq THEN 1 ELSE 0)]
    /\ UNCHANGED tracked

(* Admit of a parsed line; from, it is the line a connection begins with.  *)
Admit(id, from) ==
    /\ Entry
    /\ LET m == IF from THEN remove(ids, id) ELSE ids
       IN  IF m[id] # 0 THEN UNCHANGED <<ids, ring, pos, seq, tracked, silenced, since>>
           ELSE IF id \notin tracked /\ over THEN Shed(m, id)
           ELSE /\ Keep(m, id) /\ UNCHANGED since
                /\ silenced' = IF from THEN silenced \ {id} ELSE silenced

(* The assembler forgets an id it had finished.                            *)
Forget(id) ==
    /\ id \in tracked
    /\ tracked' = tracked \ {id}
    /\ UNCHANGED <<budget, entries, parsed, ids, ring, pos, seq, silenced, since>>

(* Reset, with the assembler's, when sing-box has restarted.               *)
GuardReset ==
    /\ ids' = [i \in LogIds |-> 0] /\ ring' = <<>> /\ pos' = 0
    /\ tracked' = {} /\ silenced' = {} /\ since' = [i \in LogIds |-> 0]
    /\ UNCHANGED <<budget, entries, parsed, seq>>

(* SetBudget: in force from the next line on.                              *)
SetBudget(n) ==
    /\ budget' = n
    /\ UNCHANGED <<entries, parsed, ids, ring, pos, seq, tracked, silenced, since>>

TraceGuardNext ==
    \/ \E n \in Budgets \ {budget} : SetBudget(n)
    \/ NewSecond \/ Cut \/ AdmitPlain \/ GuardReset
    \/ \E id \in LogIds : Forget(id) \/ \E from \in BOOLEAN : Admit(id, from)

-----------------------------------------------------------------------------
(* WholeConnections: no id is both held by the assembler and marked shed,  *)
(* so a connection it holds loses lines only to the ceiling.               *)
WholeConnections == \A id \in tracked : ids[id] = 0

(* ShedForLife: a connection that was counted as shed stays marked, and so *)
(* is counted once, until as many others as the ring holds are shed after  *)
(* it; no stale slot of the same id ends it sooner.                        *)
ShedForLife ==
    \A id \in silenced : since[id] < RingCap => ids[id] # 0
=============================================================================
