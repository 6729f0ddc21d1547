--------------------------- MODULE BeaconResponder ---------------------------
(***************************************************************************)
(* The beacon responder (internal/beacon/responder.go): config pulls apply *)
(* a bind address and a key table, every socket is served by a goroutine   *)
(* of its own, and a loop that ends by itself (circuit breaker, failing    *)
(* reads, panic) reports to loopEnded after it let go of the socket, when  *)
(* a later pull may already have replaced it.                              *)
(***************************************************************************)
EXTENDS Integers

CONSTANTS
    Addrs,        \* addresses bindAddr accepts
    Epochs,       \* newest epochs of tables (positive)
    Sockets,      \* slots for sockets whose loop has not returned (positive)
    Cooldown,     \* breakerCooldown
    RetryWait     \* bindRetryInterval

ASSUME BeaconAssumption ==
    /\ 0 \notin Sockets /\ 0 \notin Epochs
    /\ Cooldown \in Nat /\ RetryWait \in Nat

VARIABLES
    bstate, baddr, bepoch,  \* Responder.state, addr, epoch
    cur,                    \* Responder.cur, 0 for nil
    circuit, retry,         \* what is left of circuitUntil and of lastBind's wait
    bclosed,                \* Responder.closed
    open,                   \* sockets whose conn is open
    table,                  \* the epoch each socket's core accepts
    serving,                \* each socket's goroutine: none, reading or its stopReason
    awaited                 \* the socket Close waits for, 0 for none

responder == <<bstate, baddr, bepoch, cur>>
beaconVars == <<bstate, baddr, bepoch, cur, circuit, retry, bclosed, open, table,
                serving, awaited>>

NoAddr == "none"
Stops == {"closed", "breaker", "failed"}

(* What a pull may hold: tableEntries or SetTable may refuse its table.    *)
Configs == [addr : Addrs \cup {NoAddr}, keys : {"good", "bad", "refused"}, epoch : Epochs]

BeaconTypeOK ==
    /\ bstate \in {"off", "listening", "bind_failed", "circuit_open"}
    /\ baddr \in Addrs \cup {NoAddr} /\ bepoch \in Epochs \cup {0}
    /\ cur \in Sockets \cup {0} /\ awaited \in Sockets \cup {0}
    /\ circuit \in 0..Cooldown /\ retry \in 0..RetryWait
    /\ bclosed \in BOOLEAN /\ open \subseteq Sockets
    /\ table \in [Sockets -> Epochs \cup {0}]
    /\ serving \in [Sockets -> Stops \cup {"none", "reading"}]

BeaconInit ==
    /\ bstate = "off" /\ baddr = NoAddr /\ bepoch = 0 /\ cur = 0
    /\ circuit = 0 /\ retry = 0 /\ bclosed = FALSE /\ open = {}
    /\ table = [s \in Sockets |-> 0] /\ serving = [s \in Sockets |-> "none"]
    /\ awaited = 0

-----------------------------------------------------------------------------
setLocked(state, addr) ==
    /\ bstate' = state /\ baddr' = addr
    /\ state # "listening" => bepoch' = 0

closeLocked == cur' = 0 /\ open' = open \ {cur}

listening(addr, epoch) == setLocked("listening", addr) /\ bepoch' = epoch

(* The breaker's cooldown holds whatever the address.                      *)
Held == circuit > 0

RetryLater(addr) == bstate = "bind_failed" /\ baddr = addr /\ retry > 0

(* The half of applyLocked that has no socket to keep.                     *)
Bind(cfg, bound) ==
    \/ /\ Held
       /\ IF bstate = "circuit_open" THEN UNCHANGED <<bstate, baddr, bepoch>>
                                     ELSE setLocked("circuit_open", cfg.addr)
       /\ closeLocked /\ UNCHANGED <<retry, table, serving>>
    \/ /\ ~Held /\ RetryLater(cfg.addr)
       /\ UNCHANGED <<responder, retry, open, table, serving>>
    \/ /\ ~Held /\ ~RetryLater(cfg.addr)
       /\ retry' = RetryWait
       /\ \/ /\ ~bound /\ setLocked("bind_failed", cfg.addr)
             /\ closeLocked /\ UNCHANGED <<table, serving>>
          \/ /\ bound /\ cfg.keys = "refused" /\ setLocked("off", cfg.addr)
             /\ closeLocked /\ UNCHANGED <<table, serving>>
          \/ /\ bound /\ cfg.keys # "refused" /\ listening(cfg.addr, cfg.epoch)
             /\ \E s \in Sockets :
                   /\ serving[s] = "none" /\ s \notin open
                   /\ cur' = s /\ open' = (open \ {cur}) \cup {s}
                   /\ table' = [table EXCEPT ![s] = cfg.epoch]
                   /\ serving' = [serving EXCEPT ![s] = "reading"]

(* Apply with a configuration; bound says whether the port can be bound.   *)
Apply(cfg, bound) ==
    /\ ~bclosed
    /\ \/ /\ cfg.addr = NoAddr
          /\ closeLocked /\ setLocked("bind_failed", NoAddr) /\ UNCHANGED <<retry, table, serving>>
       \/ /\ cfg.addr # NoAddr /\ cfg.keys = "bad"
          /\ closeLocked /\ setLocked("off", cfg.addr) /\ UNCHANGED <<retry, table, serving>>
       \/ /\ cfg.addr # NoAddr /\ cfg.keys # "bad"
          /\ IF cur = 0 \/ baddr # cfg.addr THEN Bind(cfg, bound)
             ELSE /\ UNCHANGED <<retry, serving>>
                  /\ IF cfg.keys = "refused"
                     THEN closeLocked /\ setLocked("off", cfg.addr) /\ UNCHANGED table
                     ELSE /\ listening(cfg.addr, cfg.epoch) /\ UNCHANGED <<cur, open>>
                          /\ table' = [table EXCEPT ![cur] = cfg.epoch]
    /\ UNCHANGED <<circuit, bclosed, awaited>>

(* Apply(nil): the server sends no responder.                              *)
ApplyNil ==
    /\ ~bclosed
    /\ closeLocked /\ setLocked("off", NoAddr)
    /\ UNCHANGED <<circuit, retry, bclosed, table, serving, awaited>>

(* Close, up to its wait for the socket's loop.                            *)
BeaconClose ==
    /\ ~bclosed
    /\ bclosed' = TRUE /\ awaited' = cur
    /\ closeLocked /\ setLocked("off", NoAddr)
    /\ UNCHANGED <<circuit, retry, table, serving>>

-----------------------------------------------------------------------------
(* loop.serve returns: its socket was closed, or it gives up on its own,   *)
(* as it still may when the socket has just been closed.                   *)
LoopReturns(s, stop) ==
    /\ serving[s] = "reading"
    /\ stop = "closed" => s \notin open
    /\ serving' = [serving EXCEPT ![s] = stop]
    /\ UNCHANGED <<responder, circuit, retry, bclosed, open, table, awaited>>

(* Faulty loopEnded: a loop whose socket was replaced changes nothing.     *)
loopEndedOwn(s) ==
    /\ circuit' = IF serving[s] = "breaker" THEN Cooldown ELSE circuit
    /\ IF cur = s
       THEN /\ closeLocked
            /\ IF serving[s] = "breaker" THEN setLocked("circuit_open", baddr) /\ UNCHANGED retry
               ELSE setLocked("bind_failed", baddr) /\ retry' = RetryWait
       ELSE UNCHANGED <<responder, retry, open>>

(* loopEnded: a breaker starts the cooldown even when Apply has replaced   *)
(* the socket, and closes the replacement too.                             *)
loopEnded(s) ==
    /\ circuit' = IF serving[s] = "breaker" THEN Cooldown ELSE circuit
    /\ IF cur = s \/ (serving[s] = "breaker" /\ cur # 0)
       THEN /\ closeLocked
            /\ IF serving[s] = "breaker" THEN setLocked("circuit_open", baddr) /\ UNCHANGED retry
               ELSE setLocked("bind_failed", baddr) /\ retry' = RetryWait
       ELSE UNCHANGED <<responder, retry, open>>

LoopEnds(s) ==
    /\ serving[s] \in Stops
    /\ loopEnded(s)
    /\ serving' = [serving EXCEPT ![s] = "none"]
    /\ awaited' = IF awaited = s THEN 0 ELSE awaited
    /\ UNCHANGED <<bclosed, table>>

(* Time passes for the cooldown and the bind retry.                        *)
BeaconTick ==
    /\ circuit + retry > 0
    /\ circuit' = IF circuit > 0 THEN circuit - 1 ELSE 0
    /\ retry' = IF retry > 0 THEN retry - 1 ELSE 0
    /\ UNCHANGED <<responder, bclosed, open, table, serving, awaited>>

Loops ==
    \/ \E s \in Sockets : LoopEnds(s) \/ \E stop \in Stops : LoopReturns(s, stop)
    \/ BeaconTick

BeaconNext ==
    \/ \E cfg \in Configs, bound \in BOOLEAN : Apply(cfg, bound)
    \/ ApplyNil
    \/ BeaconClose
    \/ Loops

-----------------------------------------------------------------------------
(* ListeningIsServed: the state a node reports is true: listening exactly  *)
(* when there is a socket, with the epoch its core accepts, and no other   *)
(* socket is ever left open.                                               *)
ListeningIsServed ==
    /\ bstate = "listening" <=> cur # 0
    /\ open = {cur} \ {0}
    /\ cur # 0 => bepoch = table[cur] /\ serving[cur] # "none"
    /\ bclosed => cur = 0

(* CooldownHolds: while the breaker's cooldown runs no socket is open, not *)
(* even one a config pull opened at another address before the loop that   *)
(* tripped the breaker could report it.                                    *)
CooldownHolds == circuit > 0 => open = {}

(* BeaconInv: the two hold together, whatever loop ends while a pull       *)
(* replaces it: a breaker that closes the current socket closes them all.  *)
BeaconInv == BeaconTypeOK /\ ListeningIsServed /\ CooldownHolds

(* CloseReturns: Close waits for the loop of the socket it closed, which   *)
(* needs the lock Close has released; the agent's shutdown does not hang.  *)
CloseReturns == (awaited # 0) ~> (awaited = 0)

(* Loops of sockets closed earlier come to their end.                      *)
Winding == \E s \in Sockets : LoopReturns(s, "closed") \/ (serving[s] = "closed" /\ LoopEnds(s))

(* ListensAgain: whatever went before, one good configuration pulled over  *)
(* and over, on a port that can be bound, ends in a listening responder.   *)
ListensAgain ==
    \A cfg \in {c \in Configs : c.addr \in Addrs /\ c.keys = "good"} :
        /\ WF_beaconVars(Apply(cfg, TRUE))
        /\ <>[][Apply(cfg, TRUE) \/ BeaconTick \/ Winding]_beaconVars
        => <>[](bstate = "listening" \/ bclosed)
=============================================================================
