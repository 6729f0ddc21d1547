----------------------------- MODULE TracePolicy -----------------------------
(***************************************************************************)
(* What a node traces (internal/tracepolicy): the node's floor merged with *)
(* the sessions running on it, rebuilt by a config fetch and, when a       *)
(* session's deadline passes, by the collector itself (tracesource.go:     *)
(* applyConfig, expireSessionsLocally; what they then do with the streams  *)
(* is TraceCollector's).  A pattern for destinations stands for the hosts  *)
(* it occurs in; "" is a blank string wherever one may be sent.  A tick of *)
(* the clock is the least difference of two times.                         *)
(***************************************************************************)
EXTENDS Integers, FiniteSets
LOCAL INSTANCE FiniteSetsExt

CONSTANTS
    Wanted,      \* the sessions a server may send, as it sends them
    Tags, TraceUsers, TraceHosts,   \* what lines and connections carry
    NodeLevels,  \* the levels it may send for the node, "" among them
    MaxWanted,   \* bound: sessions at a time
    MaxClock     \* bound: the clock

ASSUME PolicyAssumption ==
    /\ Wanted \subseteq [id : STRING, level : STRING, users : SUBSET STRING,
                         tags : SUBSET STRING, dsts : SUBSET STRING, expires : Nat]
    /\ NodeLevels \subseteq STRING /\ MaxClock \in Nat

VARIABLES
    config,      \* the config fetched last
    policySet,   \* traceCollector.policy
    builtAt,     \* the latest time the config fetched last was judged by
    serverSkew,  \* traceCollector.serverSkew
    ahead,       \* the server's clock minus the node's
    agentClock

policyVars == <<config, policySet, builtAt, serverSkew, ahead, agentClock>>

Verbosity == [info |-> 0, debug |-> 1, trace |-> 2]
SentLevels == DOMAIN Verbosity \cup {""}
Configs == [enabled : BOOLEAN, level : NodeLevels,
            sessions : {S \in SUBSET Wanted : Cardinality(S) <= MaxWanted}]
TraceLines == [level : SentLevels, tag : Tags, user : TraceUsers \cup {""}, dst : TraceHosts \cup {""}]

TraceLevelAtLeast(a, b) == Verbosity[a] >= Verbosity[b]

-----------------------------------------------------------------------------
(* A level the node does not know is the least verbose one.                *)
normalizeLevel(l) == IF l \in DOMAIN Verbosity THEN l ELSE "info"

cleanStrings(f) == f \ {""}

(* normalizeSession for a session that has an id.                          *)
normalizeSession(s) ==
    [id |-> s.id, level |-> normalizeLevel(s.level), users |-> cleanStrings(s.users),
     tags |-> cleanStrings(s.tags), dsts |-> cleanStrings(s.dsts), expires |-> s.expires]

(* The earliest deadline (0: none).                                        *)
earliest(sessions) == IF sessions = {} THEN 0 ELSE Min({s.expires : s \in sessions})

(* Build: the sessions with an id that have not expired, the most verbose  *)
(* level anyone needs and the earliest deadline.                           *)
Build(cfg, now) ==
    LET sent == {normalizeSession(s) : s \in {t \in cfg.sessions : t.id # ""}}
        sessions == {s \in sent : s.expires > now}
        levels == {"info"} \cup {s.level : s \in sessions}
                           \cup (IF cfg.enabled THEN {normalizeLevel(cfg.level)} ELSE {})
    IN  [nodeEnabled |-> cfg.enabled, nodeLevel |-> normalizeLevel(cfg.level), sessions |-> sessions,
         subscribe |-> CHOOSE l \in levels : \A k \in levels : TraceLevelAtLeast(l, k),
         expiresNext |-> earliest(sessions)]

(* The zero Set, before the server was heard.                              *)
NoPolicy ==
    [nodeEnabled |-> FALSE, nodeLevel |-> "info", sessions |-> {}, subscribe |-> "info", expiresNext |-> 0]

Enabled(set) == set.nodeEnabled \/ set.sessions # {}

(* Every dimension that is not empty must match; what is not known about a *)
(* line's connection matches nothing.                                      *)
sessionMatches(s, l) ==
    /\ s.users # {} => l.user \in s.users
    /\ s.tags # {} => l.tag \in s.tags
    /\ s.dsts # {} => l.dst \in s.dsts

(* Match: the ids of the sessions that asked for the line and whether it   *)
(* is kept.                                                                *)
Match(set, l) ==
    LET level == normalizeLevel(l.level)
        asked == {s \in set.sessions : TraceLevelAtLeast(s.level, level) /\ sessionMatches(s, l)}
        floor == set.nodeEnabled /\ TraceLevelAtLeast(set.nodeLevel, level)
    IN  IF Enabled(set) THEN [keep |-> floor \/ asked # {}, ids |-> {s.id : s \in asked}]
                        ELSE [keep |-> FALSE, ids |-> {}]

-----------------------------------------------------------------------------
PolicyTypeOK ==
    /\ config \in Configs
    /\ {policySet.nodeLevel, policySet.subscribe} \cup {s.level : s \in policySet.sessions}
          \subseteq DOMAIN Verbosity
    /\ {builtAt, agentClock} \subseteq 0..(MaxClock + 1) /\ {serverSkew, ahead} \subseteq -1..1

PolicyInit ==
    /\ config = [enabled |-> FALSE, level |-> "", sessions |-> {}]
    /\ policySet = NoPolicy /\ builtAt = 0 /\ serverSkew = 0 /\ ahead \in -1..1 /\ agentClock = 1

(* applyConfig's beginning, on a config that may carry the server's time.  *)
Fetched(cfg, timed) ==
    /\ config' = cfg /\ policySet' = Build(cfg, agentClock) /\ builtAt' = agentClock
    /\ serverSkew' = IF timed THEN ahead ELSE serverSkew
    /\ UNCHANGED <<ahead, agentClock>>

(* Faulty Policy: what is collecting now goes on collecting.               *)
PolicyAsRun(set) == [enabled |-> Enabled(set), level |-> set.nodeLevel, sessions |-> set.sessions]

(* Policy and ActiveSessions: the set as a config.                         *)
Policy(set) == [enabled |-> set.nodeEnabled, level |-> set.nodeLevel, sessions |-> set.sessions]

(* now.Add(skew)                                                           *)
serverNow == agentClock + serverSkew

(* expireSessionsLocally, in the collector's ticks.                        *)
ExpireSessionsLocally ==
    /\ policySet.expiresNext # 0 /\ serverNow >= policySet.expiresNext
    /\ policySet' = Build(Policy(policySet), serverNow)
    /\ builtAt' = IF serverNow > builtAt THEN serverNow ELSE builtAt
    /\ UNCHANGED <<config, serverSkew, ahead, agentClock>>

ClockTicks ==
    /\ agentClock < MaxClock /\ agentClock' = agentClock + 1
    /\ UNCHANGED <<config, policySet, builtAt, serverSkew, ahead>>

PolicyNext ==
    \/ \E cfg \in Configs, timed \in BOOLEAN : Fetched(cfg, timed)
    \/ ExpireSessionsLocally \/ ClockTicks

-----------------------------------------------------------------------------
(* RebuildIsFetch: what the collector makes of its own set when deadlines  *)
(* pass is what the server's config, fetched anew, would give: expiry of a *)
(* session that alone kept a node collecting ends the collection.          *)
RebuildIsFetch == builtAt # 0 => policySet = Build(config, builtAt)

(* DeadlineHolds: "a server ahead of the agent must not let a session      *)
(* outlive its deadline, and a server behind must not cut one short": what *)
(* the collector drops by itself has expired on the server's clock, and    *)
(* nothing that it keeps has, once it heard that clock.                    *)
DeadlineHolds ==
    [][(ExpireSessionsLocally /\ serverSkew = ahead) =>
         \A s \in policySet.sessions : s \in policySet'.sessions <=> s.expires > agentClock + ahead]_policyVars

(* SubscribedToAll: the subscription delivers every line that somebody is  *)
(* to get, and above the floor of info is no more verbose than that.       *)
SubscribedToAll ==
    /\ \A l \in TraceLines :
          Match(policySet, l).keep => TraceLevelAtLeast(policySet.subscribe, normalizeLevel(l.level))
    /\ policySet.subscribe # "info" =>
          \E l \in TraceLines : Match(policySet, l).keep /\ normalizeLevel(l.level) = policySet.subscribe
=============================================================================
