----------------------------- MODULE NodeReport ----------------------------
(***************************************************************************)
(* cmd/lattice-agent/main.go: the part of the work loop's cycle that       *)
(* decides what the node says of itself: the pushed config and its         *)
(* override of the IP settings, the throttled discovery of the public      *)
(* address, the copy handed to the heartbeat, and the proxy usage read     *)
(* from the configured or the discovered source.                           *)
(***************************************************************************)
EXTENDS Integers, FiniteSets

CONSTANTS
    IpConfigs,    \* IP settings: records [mode, static], static a number, 0 for none
    StartupIp,    \* the one of the flags
    Throttle,     \* ticks between two probes ("~2 minutes")
    UsageFlags,   \* the usage sources the flags can name
    StatsAddrs    \* addresses the on-box config may declare, as numbers

VARIABLES
    reportAt,      \* the next step of the cycle
    ipConfig,      \* the effective IP settings
    sinceProbe,    \* ticks since lastPublicProbe, -1 for the zero time
    publicIP,      \* cfg.PublicIP: where it came from and the settings it came by
    scriptFailed,  \* the last script run failed
    beatIP,        \* the address in the heartbeat's copy of cfg
    configured,    \* the usage sources the flags name
    discover,      \* -singbox-discover
    declared,      \* the on-box config: an address, 0 for none, -1 for one that is refused
    discovered,    \* cfg.SingBoxStatsAPIDiscovered
    seenNow,       \* what this cycle's discovery read
    usage          \* the source of the last usage report

ipVars == <<ipConfig, sinceProbe, publicIP, scriptFailed>>
usageVars == <<configured, discover, declared, discovered, seenNow, usage>>
flags == <<configured, discover>>
reportVars == <<reportAt, ipConfig, sinceProbe, publicIP, scriptFailed, beatIP,
                configured, discover, declared, discovered, seenNow, usage>>

Origins == {"static", "probe", "script"}
NoIP == [from |-> "none", by |-> StartupIp]
Addresses == {NoIP} \cup [from : Origins, by : IpConfigs]

ReportTypeOK ==
    /\ reportAt \in {"config", "ip", "beat", "stats", "usage", "wait"}
    /\ ipConfig \in IpConfigs /\ sinceProbe \in -1..Throttle /\ scriptFailed \in BOOLEAN
    /\ publicIP \in Addresses /\ beatIP \in Addresses
    /\ configured \subseteq UsageFlags /\ discover \in BOOLEAN
    /\ declared \in StatsAddrs \cup {0, -1} /\ discovered \in StatsAddrs \cup {0}
    /\ seenNow \in StatsAddrs \cup {0, -1} /\ usage \in UsageFlags \cup {"none", "error", "discovered"}

ReportInit ==
    /\ reportAt = "config" /\ ipConfig = StartupIp /\ sinceProbe = -1 /\ publicIP = NoIP /\ scriptFailed = FALSE
    /\ configured \in SUBSET UsageFlags /\ discover \in BOOLEAN
    /\ beatIP = NoIP /\ declared \in StatsAddrs \cup {0, -1} /\ discovered = 0 /\ seenNow = 0 /\ usage = "none"

-----------------------------------------------------------------------------
(* Faulty override: the throttle of the old settings stays.                *)
applyIPConfigOverrideThrottled(c) == ipConfig' = c /\ UNCHANGED sinceProbe

(* The override or, without one, the flags; a change clears the throttle.  *)
applyIPConfigOverride(c) == ipConfig' = c /\ sinceProbe' = IF c = ipConfig THEN sinceProbe ELSE -1

(* fetchAgentConfig and applyAgentConfig; a failed fetch changes nothing.  *)
StepConfig(c, ok) ==
    /\ reportAt = "config" /\ reportAt' = "ip"
    /\ IF ok THEN applyIPConfigOverride(c) ELSE UNCHANGED <<ipConfig, sinceProbe>>
    /\ UNCHANGED <<publicIP, scriptFailed, beatIP>> /\ UNCHANGED usageVars

Has(c) == IF c.static = 0 THEN NoIP ELSE [from |-> "static", by |-> c]

(* What a probe in mode script, resolver or auto makes of the address; ok  *)
(* if the script or a resolver answered.                                   *)
Probed(ok) ==
    LET answer == IF ok THEN [from |-> "probe", by |-> ipConfig] ELSE NoIP
    IN  CASE ipConfig.mode = "script" -> IF ok THEN [from |-> "script", by |-> ipConfig] ELSE publicIP
          [] ipConfig.mode = "resolver" -> answer
          [] OTHER -> IF ipConfig.static # 0 THEN Has(ipConfig) ELSE answer

refreshIPs(ok) ==
    /\ reportAt = "ip" /\ reportAt' = "beat"
    /\ CASE ipConfig.mode = "static" -> publicIP' = Has(ipConfig) /\ UNCHANGED <<sinceProbe, scriptFailed>>
         [] ipConfig.mode # "static" /\ sinceProbe \in 0..(Throttle - 1) ->
              UNCHANGED <<publicIP, sinceProbe, scriptFailed>>
         [] OTHER ->
              sinceProbe' = 0 /\ publicIP' = Probed(ok) /\ scriptFailed' = (ipConfig.mode = "script" /\ ~ok)
    /\ UNCHANGED <<ipConfig, beatIP>> /\ UNCHANGED usageVars

(* beat.setConfig.                                                         *)
HandsOver ==
    /\ reportAt = "beat" /\ reportAt' = "stats" /\ beatIP' = publicIP /\ UNCHANGED ipVars /\ UNCHANGED usageVars

-----------------------------------------------------------------------------
proxyUsageSourcesConfigured == Cardinality(configured)

(* singBoxStatsDiscovery.refresh: only when asked for and with no source   *)
(* configured, and the address is cleared before the config is read again. *)
statsRefresh ==
    /\ reportAt = "stats" /\ reportAt' = "usage" /\ seenNow' = declared
    /\ discovered' = IF discover /\ proxyUsageSourcesConfigured = 0 /\ declared > 0 THEN declared ELSE 0
    /\ UNCHANGED <<beatIP, declared, usage>> /\ UNCHANGED <<ipVars, flags>>

(* One configured source, or the discovered one; more than one is refused. *)
reportProxyUsage ==
    /\ reportAt = "usage" /\ reportAt' = "wait"
    /\ usage' = CASE proxyUsageSourcesConfigured = 0 -> IF discovered = 0 THEN "none" ELSE "discovered"
                  [] proxyUsageSourcesConfigured = 1 -> CHOOSE s \in configured : TRUE
                  [] OTHER -> "error"
    /\ UNCHANGED <<beatIP, declared, discovered, seenNow>> /\ UNCHANGED <<ipVars, flags>>

(* The rest of the cycle, and its interval.                                *)
CycleEnds ==
    /\ reportAt = "wait" /\ reportAt' = "config"
    /\ sinceProbe' = IF sinceProbe \in 0..(Throttle - 1) THEN sinceProbe + 1 ELSE sinceProbe
    /\ UNCHANGED <<ipConfig, publicIP, scriptFailed, beatIP>> /\ UNCHANGED usageVars

(* The sb manager switches the stats API on or off, or breaks the config.  *)
OnBoxChanges(d) ==
    /\ d # declared /\ declared' = d /\ UNCHANGED <<reportAt, beatIP, discovered, seenNow, usage>>
    /\ UNCHANGED <<ipVars, flags>>

ReportNext ==
    \/ \E c \in IpConfigs, ok \in BOOLEAN : StepConfig(c, ok)
    \/ \E ok \in BOOLEAN : refreshIPs(ok)
    \/ HandsOver \/ statsRefresh \/ reportProxyUsage \/ CycleEnds
    \/ \E d \in StatsAddrs \cup {0, -1} : OnBoxChanges(d)

-----------------------------------------------------------------------------
(* AddressIsCurrent: the address the heartbeat gets came by the settings   *)
(* in force, however soon after a probe they were changed, unless the      *)
(* script they name failed.                                                *)
AddressIsCurrent ==
    reportAt = "stats" => (beatIP = NoIP \/ beatIP.by = ipConfig \/ scriptFailed)

(* UsageIsDeclared: usage is reported from a discovered address only if    *)
(* the on-box config declared that address in this cycle.                  *)
UsageIsDeclared ==
    (reportAt = "usage" /\ discovered # 0) => discovered = seenNow

(* KeepsLastGood: "public resolver probes are throttled to ~2 minutes and  *)
(* keep their last good value": with the settings unchanged, an address    *)
(* once found is not lost.                                                 *)
KeepsLastGood ==
    [][(publicIP.from = "probe" /\ publicIP.by = ipConfig /\ ipConfig' = ipConfig)
        => publicIP' # NoIP]_reportVars
=============================================================================
