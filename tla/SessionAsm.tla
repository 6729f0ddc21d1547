----------------------------- MODULE SessionAsm ------------------------------
(***************************************************************************)
(* sessionasm.Assembler (internal/sessionasm): connections put together    *)
(* from the log lines of sing-box and the polls of its connection table.   *)
(* Every operation runs under one mutex, so an action is an operation.  A  *)
(* line is what it says about how the connection begins or ends; its other *)
(* fields are left out but for the source port, which joins a poll, and    *)
(* whether anything was observed besides the close.  A sampled connection  *)
(* that the latest poll did not list has been swept, so stillListed is     *)
(* sampled.                                                                *)
(***************************************************************************)
EXTENDS Integers, Sequences, FiniteSets
LOCAL INSTANCE SequencesExt

CONSTANTS
    ConnIds,          \* log ids
    Ports,            \* source addresses
    MaxOpen,          \* Options.MaxOpen, also the done set's capacity
    HalfCloseGrace, OrphanTTL,  \* Options
    MaxGen,           \* bound: core restarts
    MaxCreated        \* bound: connections tracked

VARIABLES
    open,      \* Assembler.open: the connections, by log id
    order,     \* log ids in creation order
    bySrc,     \* the log id a source address belongs to
    done,      \* doneSet's ring, oldest first
    gen,       \* the core's generation
    emitted,   \* the final records of the last operation
    created,   \* connections tracked so far
    balance    \* of them, those neither emitted nor counted as partial or dropped

asmVars == <<open, order, bySrc, done, gen, emitted, created, balance>>

NoConn == "none"
(* The ranks of the evidence: nothing, cancelled or idle, end of file, an  *)
(* error.                                                                  *)
Ranks == [none |-> 0, soft |-> 1, eof |-> 2, error |-> 3]
Reasons == {"unknown", "soft", "eof", "error", "failed", "core_restart"}

(* A connection, if it is live: the address and whether it or a            *)
(* destination is known, the directions that closed, the strongest         *)
(* evidence of a half close, the time since the first one and since the    *)
(* last sign of life, whether a poll has listed it, and the generation it  *)
(* was created in.                                                         *)
Conns == [live : BOOLEAN, src : Ports \cup {NoConn}, known : BOOLEAN, up : BOOLEAN, down : BOOLEAN,
          close : DOMAIN Ranks, half : 0..(HalfCloseGrace + 1), age : 0..OrphanTTL, sampled : BOOLEAN,
          gen : 0..MaxGen]

NotTracked == [live |-> FALSE, src |-> NoConn, known |-> FALSE, up |-> FALSE, down |-> FALSE,
           close |-> "none", half |-> 0, age |-> 0, sampled |-> FALSE, gen |-> 0]

AsmTypeOK ==
    /\ open \in [ConnIds -> Conns] /\ order \in Seq(ConnIds)
    /\ bySrc \in [Ports -> ConnIds \cup {NoConn}]
    /\ done \in Seq(ConnIds) /\ Len(done) <= MaxOpen /\ gen \in 0..MaxGen
    /\ \A r \in emitted : r.reason \in Reasons
    /\ created \in 0..MaxCreated /\ balance \in 0..MaxCreated

AsmInit ==
    /\ open = [i \in ConnIds |-> NotTracked] /\ order = <<>> /\ bySrc = [p \in Ports |-> NoConn]
    /\ done = <<>> /\ gen = 0 /\ emitted = {} /\ created = 0 /\ balance = 0

-----------------------------------------------------------------------------
(* The assembler's state as a record, so that one operation may do several *)
(* of the steps below.                                                     *)
Now == [open |-> open, order |-> order, bySrc |-> bySrc, done |-> done, gen |-> gen,
        emitted |-> {}, created |-> created, balance |-> balance]

Becomes(s) ==
    /\ open' = s.open /\ order' = s.order /\ bySrc' = s.bySrc /\ done' = s.done
    /\ gen' = s.gen /\ emitted' = s.emitted /\ created' = s.created /\ balance' = s.balance

Tracks(s, id) == s.open[id].live

(* Faulty forget: leaves the source address behind.                        *)
forgetKeepsSrc(s, id) ==
    [s EXCEPT !.open[id] = NotTracked, !.order = SelectSeq(@, LAMBDA x : x # id)]

(* forget: out of every index.                                             *)
forget(s, id) ==
    [s EXCEPT !.open[id] = NotTracked, !.order = SelectSeq(@, LAMBDA x : x # id),
              !.bySrc = [p \in Ports |-> IF @[p] = id THEN NoConn ELSE @[p]]]

(* doneSet.add: a bounded FIFO.                                            *)
addDone(d, id) ==
    IF id \in ToSet(d) THEN d
    ELSE IF Len(d) < MaxOpen THEN Append(d, id) ELSE Append(Tail(d), id)

(* finish: the final record, unless nothing but the close was observed.    *)
(* how tells what ended the connection, for the properties.                *)
finish(s, id, reason, how) ==
    LET c == s.open[id]
        r == [reason |-> reason, how |-> how, gen |-> s.gen, began |-> c.gen,
              close |-> c.close, listed |-> c.sampled]
    IN  [forget(s, id) EXCEPT !.done = addDone(@, id), !.balance = @ - 1,
                              !.emitted = IF c.known THEN @ \cup {r} ELSE @]

evictOldest(s) ==
    IF s.order = <<>> THEN s
    ELSE [forget(s, Head(s.order)) EXCEPT !.done = addDone(@, Head(s.order)), !.balance = @ - 1]

(* create, evicting the oldest connection when there are too many.         *)
create(s, id) ==
    LET t == IF Len(s.order) >= MaxOpen THEN evictOldest(s) ELSE s
    IN  [t EXCEPT !.open[id] = [NotTracked EXCEPT !.live = TRUE, !.gen = s.gen], !.order = Append(@, id),
                  !.created = @ + 1, !.balance = @ + 1]

(* indexSrc: the address goes to the newest connection that has it.        *)
indexSrc(s, id, p) ==
    [s EXCEPT !.bySrc[p] = id, !.open[id].src = p, !.open[id].known = TRUE]

(* A line's connection: reused ids end the older one, a trailing line of a *)
(* finished one is ignored, and any other line attaches in mid stream.     *)
Touched(s, id) == IF Tracks(s, id) THEN s ELSE create(s, id)
Ignored(id) == ~Tracks(Now, id) /\ id \in ToSet(done)
Alive(s, id) == [s EXCEPT !.open[id].age = 0]

MayCreate(id) == Tracks(Now, id) \/ created < MaxCreated

-----------------------------------------------------------------------------
(* Line: "inbound connection from".                                        *)
InboundFrom(id, p) ==
    /\ created < MaxCreated
    /\ LET s == IF Tracks(Now, id) THEN finish(Now, id, "unknown", "collision") ELSE Now
       IN  Becomes(indexSrc(create(s, id), id, p))

(* Line: anything that names a destination and ends nothing.               *)
Destination(id) ==
    /\ ~Ignored(id) /\ MayCreate(id)
    /\ Becomes([Alive(Touched(Now, id), id) EXCEPT !.open[id].known = TRUE])

(* Line: a dial, authentication or handshake failure, or "connection       *)
(* closed", which may carry an error.                                      *)
Terminal(id, reason) ==
    /\ ~Ignored(id) /\ MayCreate(id)
    /\ Becomes(finish(Touched(Now, id), id, reason, "terminal"))

(* offer: the strongest evidence.                                          *)
offer(old, new) == IF Ranks[new] > Ranks[old] THEN new ELSE old

(* Line: one direction closed; with both closed the connection ends.       *)
HalfClosed(id, dir, close) ==
    /\ ~Ignored(id) /\ MayCreate(id)
    /\ LET s == Alive(Touched(Now, id), id)
           c == s.open[id]
           t == [s EXCEPT !.open[id] = [c EXCEPT !.close = offer(c.close, close),
                              !.half = IF c.half = 0 THEN 1 ELSE @,
                              !.up = @ \/ dir = "up", !.down = @ \/ dir = "down"]]
       IN  Becomes(IF t.open[id].up /\ t.open[id].down
                   THEN finish(t, id, t.open[id].close, "halves") ELSE t)

-----------------------------------------------------------------------------
Reason(c) == IF c.close = "none" THEN "unknown" ELSE c.close

(* The connections of ids end one after the other, oldest first.           *)
finishAll(s, ids, Why(_)) ==
    FoldLeft(LAMBDA t, id : finish(t, id, Why(s.open[id])[1], Why(s.open[id])[2]), s,
             SelectSeq(s.order, LAMBDA x : x \in ids))

(* Snapshot: the addresses the table lists.  join, then sweepVanished.     *)
TableSnapshot(listed) ==
    LET joined == {bySrc[p] : p \in listed} \ {NoConn}
        s == [Now EXCEPT !.open = [i \in ConnIds |->
                 IF i \in joined THEN [open[i] EXCEPT !.sampled = TRUE, !.age = 0] ELSE open[i]]]
        gone == {i \in ConnIds \ joined : Tracks(s, i) /\ s.open[i].sampled}
    IN  Becomes(finishAll(s, gone, LAMBDA c : <<Reason(c), "vanished">>))

(* Tick's first case: one half close, and the other is not coming.         *)
GraceOver(c) == c.half > HalfCloseGrace /\ ~c.sampled

(* Tick's second case: no line and no poll for the whole time to live.     *)
Orphan(c) == c.age >= OrphanTTL /\ ~GraceOver(c)

Older(c) ==
    [c EXCEPT !.age = IF @ < OrphanTTL THEN @ + 1 ELSE @,
              !.half = IF @ \in 1..HalfCloseGrace THEN @ + 1 ELSE @]

(* Tick, once a second of the model's time: half closes past their grace,  *)
(* then orphans.  The periodic records of connections that are still open  *)
(* change nothing here.                                                    *)
AsmTick ==
    LET s == [Now EXCEPT !.open = [i \in ConnIds |-> IF open[i].live THEN Older(open[i]) ELSE NotTracked]]
        ids == {i \in ConnIds : Tracks(s, i) /\ (GraceOver(s.open[i]) \/ Orphan(s.open[i]))}
    IN  Becomes(finishAll(s, ids,
            LAMBDA c : IF GraceOver(c) THEN <<Reason(c), "grace">> ELSE <<"unknown", "orphan">>))

(* CoreRestart: every connection ends in the old generation.               *)
CoreRestart ==
    /\ gen < MaxGen
    /\ Becomes([finishAll(Now, ToSet(order), LAMBDA c : <<"core_restart", "restart">>)
                EXCEPT !.done = <<>>, !.gen = @ + 1])

Line(id) ==
    \/ \E p \in Ports : InboundFrom(id, p)
    \/ Destination(id)
    \/ \E reason \in {"failed", "eof", "error"} : Terminal(id, reason)
    \/ \E dir \in {"up", "down"}, close \in DOMAIN Ranks \ {"none"} : HalfClosed(id, dir, close)

AsmNext ==
    \/ \E id \in ConnIds : Line(id)
    \/ \E listed \in SUBSET Ports : TableSnapshot(listed)
    \/ AsmTick \/ CoreRestart

-----------------------------------------------------------------------------
(* IndexesAgree: the creation order lists the open connections, at most    *)
(* MaxOpen, and an address leads to an open connection that has it, so a   *)
(* poll's bytes never go to a connection that has ended; and whatever      *)
(* ended the others, each was emitted, counted as partial or as dropped,   *)
(* exactly once.                                                           *)
IndexesAgree ==
    /\ ToSet(order) = {i \in ConnIds : Tracks(Now, i)} /\ IsInjective(order)
    /\ Len(order) <= MaxOpen
    /\ \A p \in Ports : bySrc[p] # NoConn => Tracks(Now, bySrc[p]) /\ open[bySrc[p]].src = p
    /\ balance = Len(order)

(* HonestClose: an end without error is reported only if a terminal line   *)
(* said so or no half close carried an error, and a single half close      *)
(* settles a connection only once the table does not list it any more.     *)
HonestClose ==
    \A r \in emitted : r.reason \in {"soft", "eof"} =>
        \/ r.how = "terminal"
        \/ r.close = r.reason /\ (r.how = "grace" => ~r.listed)

(* ErrorNeverForgotten: the evidence of how a connection ended never grows *)
(* weaker until it ends or its id begins another one: a clean half does    *)
(* not hide an error, nor a cancelled half, which only a trace             *)
(* subscription delivers, an end of file, so a record reads the same at    *)
(* every level.                                                            *)
ErrorNeverForgotten ==
    [][\A i \in ConnIds :
          (Tracks(Now, i) /\ open'[i].live /\ Ranks[open'[i].close] < Ranks[open[i].close])
             => \E p \in Ports : InboundFrom(i, p)]_asmVars

(* OwnGeneration: a record carries the generation its connection began in, *)
(* and is tracked under: the sweep of a restart included.                  *)
OwnGeneration ==
    /\ \A r \in emitted : r.gen = r.began
    /\ \A i \in ConnIds : Tracks(Now, i) => open[i].gen = gen

(* NoPhantoms: an operation that dropped or ended a connection leaves its  *)
(* id in the done set, so that its trailing lines create nothing.          *)
NoPhantoms ==
    [][\A i \in ConnIds : (Tracks(Now, i) /\ ~open'[i].live /\ gen' = gen) => i \in ToSet(done')]_asmVars

(* NothingLingers: a connection is not held without a sign of life for the *)
(* orphans' time to live, nor, unless the table lists it, for longer than  *)
(* the grace after its first half close.                                   *)
NothingLingers ==
    \A i \in ConnIds : open[i].live =>
        open[i].age < OrphanTTL /\ (open[i].half <= HalfCloseGrace \/ open[i].sampled)
=============================================================================
