----------------------- MODULE BeaconResponder_proofs -----------------------
(***************************************************************************)
(* What the responder reports is true and a tripped breaker keeps every    *)
(* socket closed, for any number of addresses, epochs and sockets.  The    *)
(* two need each other: a breaker that closes only the current socket      *)
(* closes all of them because no other is ever open.                       *)
(***************************************************************************)
EXTENDS BeaconResponder, TLAPS

BeaconSpec == BeaconInit /\ [][BeaconNext]_beaconVars

(* A responder that has not been given a configuration is off.             *)
LEMMA BeaconInitially == BeaconInit => BeaconInv
  <1> SUFFICES ASSUME BeaconInit
               PROVE  BeaconInv
    OBVIOUS
  <1>1. /\ table \in [Sockets -> Epochs \cup {0}]
        /\ serving \in [Sockets -> Stops \cup {"none", "reading"}]
    BY DEF BeaconInit
  <1>2. bclosed \in BOOLEAN
    BY Zenon DEF BeaconInit
  <1>3. BeaconTypeOK
    BY <1>1, <1>2, BeaconAssumption DEF BeaconInit, BeaconTypeOK
  <1>4. ListeningIsServed /\ CooldownHolds
    BY BeaconAssumption DEF BeaconInit, ListeningIsServed, CooldownHolds
  <1> QED
    BY <1>3, <1>4 DEF BeaconInv

(* Closing the current socket and leaving the listening state, as Apply,   *)
(* Close and loopEnded do, leaves no socket open.                          *)
LEMMA ClosingIsSafe ==
  ASSUME BeaconInv, NEW state \in {"off", "bind_failed", "circuit_open"},
         NEW addr \in Addrs \cup {NoAddr}, closeLocked, setLocked(state, addr),
         circuit' \in 0..Cooldown, retry' \in 0..RetryWait,
         bclosed' \in BOOLEAN, awaited' \in Sockets \cup {0},
         table' \in [Sockets -> Epochs \cup {0}],
         serving' \in [Sockets -> Stops \cup {"none", "reading"}]
  PROVE  BeaconInv'
  BY BeaconAssumption
  DEF BeaconInv, BeaconTypeOK, ListeningIsServed, CooldownHolds, closeLocked, setLocked

(* A configuration for which there is no socket to keep.                   *)
LEMMA BindIsSafe ==
  ASSUME BeaconInv, ~bclosed, NEW cfg \in Configs, NEW bound \in BOOLEAN,
         cfg.addr # NoAddr, Bind(cfg, bound), UNCHANGED <<circuit, bclosed, awaited>>
  PROVE  BeaconInv'
  <1>0. cfg.addr \in Addrs /\ cfg.epoch \in Epochs
    BY DEF Configs
  <1>1. CASE Held /\ bstate # "circuit_open"
    BY <1>0, <1>1, ClosingIsSafe DEF Bind, Held, BeaconInv, BeaconTypeOK
  <1>2. CASE Held /\ bstate = "circuit_open"
    BY <1>2, BeaconAssumption
    DEF Bind, Held, BeaconInv, BeaconTypeOK, ListeningIsServed, CooldownHolds, closeLocked
  <1>3. CASE ~Held /\ RetryLater(cfg.addr)
    BY <1>3 DEF Bind, BeaconInv, BeaconTypeOK, ListeningIsServed, CooldownHolds, responder
  <1>4. CASE ~Held /\ ~RetryLater(cfg.addr)
    <2>1. retry' \in 0..RetryWait
      BY <1>4, BeaconAssumption DEF Bind
    <2>2. CASE setLocked("bind_failed", cfg.addr) /\ closeLocked /\ UNCHANGED <<table, serving>>
      BY <1>0, <2>1, <2>2, ClosingIsSafe DEF BeaconInv, BeaconTypeOK
    <2>3. CASE setLocked("off", cfg.addr) /\ closeLocked /\ UNCHANGED <<table, serving>>
      BY <1>0, <2>1, <2>3, ClosingIsSafe DEF BeaconInv, BeaconTypeOK
    <2>4. ASSUME NEW s \in Sockets, serving[s] = "none", listening(cfg.addr, cfg.epoch),
                 cur' = s, open' = (open \ {cur}) \cup {s},
                 table' = [table EXCEPT ![s] = cfg.epoch],
                 serving' = [serving EXCEPT ![s] = "reading"]
          PROVE  BeaconInv'
      BY <1>0, <1>4, <2>1, <2>4, BeaconAssumption
      DEF Held, BeaconInv, BeaconTypeOK, ListeningIsServed, CooldownHolds, listening, setLocked
    <2> QED
      BY <1>4, <2>2, <2>3, <2>4 DEF Bind
  <1> QED
    BY <1>1, <1>2, <1>3, <1>4

(* A pulled configuration, whatever it holds.                              *)
LEMMA ApplyIsSafe ==
  ASSUME BeaconInv, NEW cfg \in Configs, NEW bound \in BOOLEAN, Apply(cfg, bound)
  PROVE  BeaconInv'
  <1>0. cfg.addr \in Addrs \cup {NoAddr} /\ cfg.epoch \in Epochs
    BY DEF Configs
  <1>1. CASE cfg.addr = NoAddr \/ cfg.keys = "bad"
    BY <1>0, <1>1, ClosingIsSafe DEF Apply, BeaconInv, BeaconTypeOK
  <1>2. CASE cfg.addr # NoAddr /\ cfg.keys # "bad" /\ (cur = 0 \/ baddr # cfg.addr)
    BY <1>2, BindIsSafe DEF Apply
  <1>3. CASE cfg.addr # NoAddr /\ cfg.keys # "bad" /\ ~(cur = 0 \/ baddr # cfg.addr)
    <2>1. CASE cfg.keys = "refused"
      BY <1>0, <1>3, <2>1, ClosingIsSafe DEF Apply, BeaconInv, BeaconTypeOK
    <2>2. CASE cfg.keys # "refused"
      BY <1>0, <1>3, <2>2, BeaconAssumption
      DEF Apply, BeaconInv, BeaconTypeOK, ListeningIsServed, CooldownHolds, listening, setLocked
    <2> QED
      BY <2>1, <2>2
  <1> QED
    BY <1>1, <1>2, <1>3

(* A loop that ends, whether or not its socket is still the current one.   *)
LEMMA LoopEndsIsSafe ==
  ASSUME BeaconInv, NEW s \in Sockets, LoopEnds(s)
  PROVE  BeaconInv'
  <1>1. /\ circuit' \in 0..Cooldown /\ retry' \in 0..RetryWait
        /\ bclosed' \in BOOLEAN /\ awaited' \in Sockets \cup {0}
        /\ table' \in [Sockets -> Epochs \cup {0}]
        /\ serving' \in [Sockets -> Stops \cup {"none", "reading"}]
    BY BeaconAssumption DEF LoopEnds, loopEnded, BeaconInv, BeaconTypeOK
  <1>2. CASE cur = s \/ (serving[s] = "breaker" /\ cur # 0)
    BY <1>1, <1>2, ClosingIsSafe DEF LoopEnds, loopEnded, BeaconInv, BeaconTypeOK
  <1>3. CASE ~(cur = s \/ (serving[s] = "breaker" /\ cur # 0))
    BY <1>1, <1>3, BeaconAssumption
    DEF LoopEnds, loopEnded, BeaconInv, BeaconTypeOK, ListeningIsServed, CooldownHolds, responder
  <1> QED
    BY <1>2, <1>3

(* BeaconInductive: every step of the responder and its loops keeps the    *)
(* invariant.                                                              *)
LEMMA BeaconInductive == BeaconInv /\ [BeaconNext]_beaconVars => BeaconInv'
  <1> SUFFICES ASSUME BeaconInv, [BeaconNext]_beaconVars
               PROVE  BeaconInv'
    OBVIOUS
  <1>1. ASSUME NEW cfg \in Configs, NEW bound \in BOOLEAN, Apply(cfg, bound)
        PROVE  BeaconInv'
    BY <1>1, ApplyIsSafe
  <1>2. CASE ApplyNil
    BY <1>2, ClosingIsSafe DEF ApplyNil, BeaconInv, BeaconTypeOK
  <1>3. CASE BeaconClose
    BY <1>3, ClosingIsSafe DEF BeaconClose, BeaconInv, BeaconTypeOK
  <1>4. ASSUME NEW s \in Sockets, LoopEnds(s)
        PROVE  BeaconInv'
    BY <1>4, LoopEndsIsSafe
  <1>5. ASSUME NEW s \in Sockets, NEW stop \in Stops, LoopReturns(s, stop)
        PROVE  BeaconInv'
    BY <1>5
    DEF LoopReturns, BeaconInv, BeaconTypeOK, ListeningIsServed, CooldownHolds, responder, Stops
  <1>6. CASE BeaconTick
    BY <1>6, BeaconAssumption
    DEF BeaconTick, BeaconInv, BeaconTypeOK, ListeningIsServed, CooldownHolds, responder
  <1>7. CASE UNCHANGED beaconVars
    BY <1>7 DEF beaconVars, BeaconInv, BeaconTypeOK, ListeningIsServed, CooldownHolds
  <1> QED
    BY <1>1, <1>2, <1>3, <1>4, <1>5, <1>6, <1>7 DEF BeaconNext, Loops

(* BeaconInvariant: under every order of pulls, loop ends and ticks, the   *)
(* reported state is true of the sockets and none is open in a cooldown.   *)
THEOREM BeaconInvariant == BeaconSpec => []BeaconInv
  BY BeaconInitially, BeaconInductive, PTL DEF BeaconSpec

(* ListeningTheorem: the state a node reports is true of its sockets, with *)
(* any number of loops that have not yet noticed that they were replaced.  *)
THEOREM ListeningTheorem == BeaconSpec => []ListeningIsServed
  <1>1. BeaconInv => ListeningIsServed
    BY DEF BeaconInv
  <1> QED
    BY <1>1, BeaconInvariant, PTL

(* CooldownTheorem: no socket is open while a tripped breaker cools down,  *)
(* whatever was configured after the flood.                                *)
THEOREM CooldownTheorem == BeaconSpec => []CooldownHolds
  <1>1. BeaconInv => CooldownHolds
    BY DEF BeaconInv
  <1> QED
    BY <1>1, BeaconInvariant, PTL
=============================================================================
