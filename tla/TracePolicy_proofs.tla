-------------------------- MODULE TracePolicy_proofs --------------------------
(***************************************************************************)
(* Expiry on the node is what a fetch would have brought, and deadlines    *)
(* hold on the server's clock, for any sessions a server may send.  What   *)
(* has to be shown is that a policy built from a policy is the policy      *)
(* built from the config: normalizing twice is normalizing once, and of    *)
(* two times the later one decides.                                        *)
(***************************************************************************)
EXTENDS TracePolicy, TLAPS

PolicySpec == PolicyInit /\ [][PolicyNext]_policyVars

(* Every level, sent or put in its place.                                  *)
LevelNames == STRING \cup {"info", ""}

Sessions == [id : STRING, level : LevelNames, users : SUBSET STRING,
             tags : SUBSET STRING, dsts : SUBSET STRING, expires : Nat]

(* The sessions of a config that a node runs at a time.                    *)
Running(sent, now) ==
    {s \in {normalizeSession(s) : s \in {t \in sent : t.id # ""}} : s.expires > now}

(* What a policy says besides its sessions, as a function of them.         *)
PolicyOf(enabled, level, sessions) ==
    LET levels == {"info"} \cup {s.level : s \in sessions} \cup (IF enabled THEN {level} ELSE {})
    IN  [nodeEnabled |-> enabled, nodeLevel |-> level, sessions |-> sessions,
         subscribe |-> CHOOSE l \in levels : \A k \in levels : TraceLevelAtLeast(l, k),
         expiresNext |-> earliest(sessions)]

(* Build in those terms.                                                   *)
LEMMA BuildIs ==
  ASSUME NEW cfg, NEW now
  PROVE  Build(cfg, now) = PolicyOf(cfg.enabled, normalizeLevel(cfg.level), Running(cfg.sessions, now))
  BY DEF Build, PolicyOf, Running

(* A normalized level is a level, and normal.                              *)
LEMMA LevelTwice ==
  ASSUME NEW l \in LevelNames
  PROVE  normalizeLevel(l) \in LevelNames /\ normalizeLevel(normalizeLevel(l)) = normalizeLevel(l)
  <1>1. "info" \in DOMAIN Verbosity
    BY DEF Verbosity
  <1>2. CASE l \in DOMAIN Verbosity
    <2>1. normalizeLevel(l) = l
      BY <1>2, Zenon DEF normalizeLevel
    <2> QED
      BY <2>1, Zenon
  <1>3. CASE l \notin DOMAIN Verbosity
    <2>1. normalizeLevel(l) = "info"
      BY <1>3, Zenon DEF normalizeLevel
    <2>2. normalizeLevel("info") = "info"
      BY <1>1, Zenon DEF normalizeLevel
    <2>3. "info" \in LevelNames
      BY DEF LevelNames
    <2> QED
      BY <2>1, <2>2, <2>3, Zenon
  <1> QED
    BY <1>2, <1>3

(* A normalized session keeps its id and deadline and is normal.           *)
LEMMA SessionTwice ==
  ASSUME NEW s \in Sessions
  PROVE  /\ normalizeSession(s) \in Sessions
         /\ normalizeSession(s).id = s.id /\ normalizeSession(s).expires = s.expires
         /\ normalizeSession(normalizeSession(s)) = normalizeSession(s)
  <1> DEFINE n == [id |-> s.id, level |-> normalizeLevel(s.level), users |-> cleanStrings(s.users),
                   tags |-> cleanStrings(s.tags), dsts |-> cleanStrings(s.dsts), expires |-> s.expires]
  <1>1. normalizeLevel(s.level) \in LevelNames
    BY LevelTwice DEF Sessions
  <1>2. normalizeSession(s) = n
    BY DEF normalizeSession
  <1>3. n \in Sessions
    BY <1>1 DEF Sessions, cleanStrings
  <1>4. normalizeLevel(n.level) = n.level
    BY LevelTwice DEF Sessions
  <1>5. cleanStrings(n.users) = n.users /\ cleanStrings(n.tags) = n.tags /\ cleanStrings(n.dsts) = n.dsts
    BY DEF cleanStrings
  <1>6. normalizeSession(n) = n
    BY <1>4, <1>5 DEF normalizeSession
  <1> QED
    BY <1>2, <1>3, <1>6

(* Of two times the later one decides.                                     *)
LEMMA RunningTwice ==
  ASSUME NEW sent \in SUBSET Sessions, NEW t \in Int, NEW u \in Int
  PROVE  /\ Running(sent, t) \in SUBSET Sessions
         /\ Running(Running(sent, t), u) = Running(sent, IF u > t THEN u ELSE t)
  <1>1. \A s \in Running(sent, t) :
          s \in Sessions /\ s.id # "" /\ s.expires > t /\ normalizeSession(s) = s
    BY SessionTwice DEF Running
  <1>2. Running(Running(sent, t), u) = {s \in Running(sent, t) : s.expires > u}
    BY <1>1 DEF Running
  <1>3. {s \in Running(sent, t) : s.expires > u} = Running(sent, IF u > t THEN u ELSE t)
    <2> DEFINE named == {normalizeSession(s) : s \in {x \in sent : x.id # ""}}
               later == IF u > t THEN u ELSE t
    <2>1. \A s \in named : s.expires \in Nat
      BY SessionTwice DEF Sessions
    <2> HIDE DEF named
    <2>2. \A s \in named : (s.expires > t /\ s.expires > u) <=> s.expires > later
      BY <2>1
    <2>3. {s \in {s \in named : s.expires > t} : s.expires > u} = {s \in named : s.expires > later}
      BY <2>2
    <2> QED
      BY <2>3 DEF Running, named
  <1> QED
    BY <1>1, <1>2, <1>3

(* BuildTwice: a policy rebuilt from a policy is built from the config.    *)
LEMMA BuildTwice ==
  ASSUME NEW cfg, cfg.sessions \in SUBSET Sessions, cfg.level \in LevelNames,
         NEW t \in Int, NEW u \in Int
  PROVE  Build(Policy(Build(cfg, t)), u) = Build(cfg, IF u > t THEN u ELSE t)
  <1> DEFINE p == Policy(Build(cfg, t))
             later == IF u > t THEN u ELSE t
  <1>1. /\ p.enabled = cfg.enabled /\ p.level = normalizeLevel(cfg.level)
        /\ p.sessions = Running(cfg.sessions, t)
    BY BuildIs DEF PolicyOf, Policy
  <1>2. normalizeLevel(p.level) = normalizeLevel(cfg.level)
    BY <1>1, LevelTwice
  <1>3. Running(p.sessions, u) = Running(cfg.sessions, later)
    BY <1>1, RunningTwice
  <1>4. Build(p, u) = PolicyOf(p.enabled, normalizeLevel(p.level), Running(p.sessions, u))
    BY BuildIs
  <1>5. Build(cfg, later) = PolicyOf(cfg.enabled, normalizeLevel(cfg.level), Running(cfg.sessions, later))
    BY BuildIs
  <1> QED
    BY <1>1, <1>2, <1>3, <1>4, <1>5

(* The policy in force is that of the config fetched last, judged by the   *)
(* latest time it was judged by; before the first fetch there is none.     *)
PolicyInv ==
    /\ config.sessions \in SUBSET Sessions /\ config.level \in LevelNames
    /\ builtAt \in Nat /\ agentClock \in Nat \ {0} /\ serverSkew \in Int /\ ahead \in Int
    /\ IF builtAt = 0 THEN policySet = NoPolicy ELSE policySet = Build(config, builtAt)

(* Before the first fetch nothing is traced.                               *)
LEMMA PolicyInitially == PolicyInit => PolicyInv
  <1> SUFFICES ASSUME PolicyInit
               PROVE  PolicyInv
    OBVIOUS
  <1>1. config.sessions = {} /\ config.level = ""
    BY DEF PolicyInit
  <1>2. config.sessions \in SUBSET Sessions /\ config.level \in LevelNames
    BY <1>1 DEF LevelNames
  <1>3. builtAt = 0 /\ agentClock = 1 /\ serverSkew = 0 /\ ahead \in -1..1
    BY DEF PolicyInit
  <1>4. policySet = NoPolicy
    BY DEF PolicyInit
  <1> QED
    BY <1>2, <1>3, <1>4 DEF PolicyInv

(* PolicyInductive: fetches, expiry on the node and the clock keep it so.  *)
LEMMA PolicyInductive == PolicyInv /\ [PolicyNext]_policyVars => PolicyInv'
  <1> SUFFICES ASSUME PolicyInv, [PolicyNext]_policyVars
               PROVE  PolicyInv'
    OBVIOUS
  <1>1. ASSUME NEW cfg \in Configs, NEW timed \in BOOLEAN, Fetched(cfg, timed)
        PROVE  PolicyInv'
    <2>1. cfg.sessions \in SUBSET Sessions /\ cfg.level \in LevelNames
      BY PolicyAssumption DEF Configs, Sessions, LevelNames
    <2> QED
      BY <1>1, <2>1 DEF Fetched, PolicyInv
  <1>2. CASE ExpireSessionsLocally
    <2>1. builtAt # 0 /\ policySet = Build(config, builtAt)
      BY <1>2 DEF ExpireSessionsLocally, PolicyInv, NoPolicy
    <2>2. serverNow \in Int
      BY DEF serverNow, PolicyInv
    <2>3. builtAt' = (IF serverNow > builtAt THEN serverNow ELSE builtAt)
      BY <1>2 DEF ExpireSessionsLocally
    <2>4. policySet' = Build(config, builtAt')
      BY <1>2, <2>1, <2>2, <2>3, BuildTwice DEF ExpireSessionsLocally, PolicyInv
    <2>5. builtAt' \in Nat \ {0}
      BY <2>1, <2>2, <2>3 DEF PolicyInv
    <2> QED
      BY <1>2, <2>4, <2>5 DEF ExpireSessionsLocally, PolicyInv
  <1>3. CASE ClockTicks
    BY <1>3 DEF ClockTicks, PolicyInv
  <1>4. CASE UNCHANGED policyVars
    BY <1>4 DEF policyVars, PolicyInv
  <1> QED
    BY <1>1, <1>2, <1>3, <1>4 DEF PolicyNext

(* PolicyInvariant: what holds of the policy whatever is fetched when.     *)
LEMMA PolicyInvariant == PolicySpec => []PolicyInv
  BY PolicyInitially, PolicyInductive, PTL DEF PolicySpec

(* RebuildTheorem: whatever was sent and however often the collector       *)
(* rebuilt its policy by itself, it has what a fetch would have brought.   *)
THEOREM RebuildTheorem == PolicySpec => []RebuildIsFetch
  <1>1. PolicyInv => RebuildIsFetch
    BY DEF PolicyInv, RebuildIsFetch
  <1> QED
    BY <1>1, PolicyInvariant, PTL

(* Once the server's clock was heard, expiry on the node drops exactly the *)
(* sessions that are over on that clock.                                   *)
LEMMA ExpiryIsExact ==
  ASSUME PolicyInv, ExpireSessionsLocally, serverSkew = ahead, NEW s \in policySet.sessions
  PROVE  s \in policySet'.sessions <=> s.expires > agentClock + ahead
  <1>1. policySet.sessions = Running(config.sessions, builtAt)
    <2>1. policySet = Build(config, builtAt)
      BY DEF ExpireSessionsLocally, PolicyInv, NoPolicy
    <2> QED
      BY <2>1, BuildIs DEF PolicyOf
  <1>2. s \in Sessions /\ s.id # "" /\ normalizeSession(s) = s
    BY <1>1, SessionTwice DEF Running, PolicyInv
  <1>3. policySet'.sessions = Running(policySet.sessions, serverNow)
    BY BuildIs DEF ExpireSessionsLocally, Policy, PolicyOf
  <1>4. \A x \in policySet.sessions : normalizeSession(x) = x /\ x.id # ""
    BY <1>1, SessionTwice DEF Running, PolicyInv
  <1>5. s \in Running(policySet.sessions, serverNow) <=> s.expires > serverNow
    BY <1>2, <1>4 DEF Running
  <1> QED
    BY <1>3, <1>5 DEF serverNow

(* DeadlineTheorem: the collector lets no session outlive its deadline on  *)
(* the server's clock and cuts none short.                                 *)
THEOREM DeadlineTheorem == PolicySpec => DeadlineHolds
  <1> DEFINE Exact == (ExpireSessionsLocally /\ serverSkew = ahead) =>
                 \A s \in policySet.sessions : s \in policySet'.sessions <=> s.expires > agentClock + ahead
  <1>1. PolicyInv /\ [PolicyNext]_policyVars => [Exact]_policyVars
    BY ExpiryIsExact
  <1>2. [][Exact]_policyVars => DeadlineHolds
    BY PTL DEF DeadlineHolds
  <1> QED
    BY <1>1, <1>2, PolicyInvariant, PTL DEF PolicySpec
=============================================================================
