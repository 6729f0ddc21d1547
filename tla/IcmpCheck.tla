------------------------------ MODULE IcmpCheck ------------------------------
(***************************************************************************)
(* The icmp checks of a node (internal/prober/icmp.go): one run of echoes  *)
(* after the other, whose replies may be lost, late, duplicated or         *)
(* reordered, and what the node says about its kernel letting it send any. *)
(* A tick of a run is the spacing of its echoes; capabilityRecheck is      *)
(* counted in longer ticks, which pass between runs.                       *)
(***************************************************************************)
EXTENDS Integers, FiniteSets
LOCAL INSTANCE FiniteSetsExt

CONSTANTS
    IcmpPackets,         \* icmpPackets(m)
    EchoWait,            \* monitorTimeout(m), in spacings
    MaxEchoErrors,       \* maxReadErrors
    CapabilityRecheck    \* capabilityRecheck

VARIABLES
    echoing,    \* "idle", "running" or "done"
    echoes,     \* what became of each echo: "unsent", "sent" or "replied"
    echoAt,     \* echo.sentAt
    onWay,      \* echoes whose reply is on its way
    echoNext, echoPlanned, echoClock, echoFinal, echoReplied, echoErrs, hurried,
    allowed,    \* the kernel's policy
    refusal,    \* capabilities.icmpRefusal # ""
    sinceCheck, \* the time since capabilities.checkedAt (-1: never)
    wrongFor    \* how long the facts have been wrong without a transient error

runOf == <<echoes, echoAt, onWay, echoNext, echoPlanned, echoClock, echoFinal, echoReplied,
           echoErrs, hurried>>
capabilities == <<refusal, sinceCheck>>
icmpVars == <<echoing, runOf, allowed, capabilities, wrongFor>>

Echoes == 1..IcmpPackets
IcmpBudget == (IcmpPackets - 1) + EchoWait
SentEchoes == {i \in Echoes : echoes[i] # "unsent"}

IcmpTypeOK ==
    /\ echoing \in {"idle", "running", "done"}
    /\ echoes \in [Echoes -> {"unsent", "sent", "replied"}] /\ echoAt \in [Echoes -> 0..IcmpBudget]
    /\ onWay \subseteq Echoes /\ {echoNext, echoPlanned, echoReplied} \subseteq 0..IcmpPackets
    /\ {echoClock, echoFinal} \subseteq 0..IcmpBudget /\ echoErrs \in 0..MaxEchoErrors /\ hurried \in BOOLEAN
    /\ allowed \in BOOLEAN /\ refusal \in BOOLEAN
    /\ sinceCheck \in -1..CapabilityRecheck /\ wrongFor \in 0..(CapabilityRecheck + 1)

IcmpInit ==
    /\ echoing = "idle" /\ echoes = [i \in Echoes |-> "unsent"] /\ echoAt = [i \in Echoes |-> 0] /\ onWay = {}
    /\ echoNext = 0 /\ echoPlanned = IcmpPackets /\ echoClock = 0 /\ echoFinal = 0
    /\ echoReplied = 0 /\ echoErrs = 0 /\ hurried = FALSE
    /\ allowed \in BOOLEAN /\ refusal = FALSE /\ sinceCheck = -1 /\ wrongFor = 0

-----------------------------------------------------------------------------
(* setICMPLocked, after the kernel said what it allows.                    *)
setICMPLocked == refusal' = ~allowed /\ sinceCheck' = 0 /\ wrongFor' = 0

(* probeICMP opens its socket: the kernel's answer is also what the facts  *)
(* say from now on; an error that says nothing of its policy is not, and   *)
(* neither is a target that does not resolve or is refused.                *)
probeICMP(transient) ==
    /\ echoing = "idle"
    /\ IF transient THEN UNCHANGED <<capabilities, wrongFor>> ELSE setICMPLocked
    /\ echoing' = IF ~transient /\ allowed THEN "running" ELSE "done"
    /\ UNCHANGED <<runOf, allowed>>

SendDue == echoNext < echoPlanned /\ echoClock >= echoNext

SendEcho(comesBack) ==
    /\ echoing = "running" /\ SendDue
    /\ echoes' = [echoes EXCEPT ![echoNext + 1] = "sent"]
    /\ echoAt' = [echoAt EXCEPT ![echoNext + 1] = echoClock]
    /\ echoFinal' = echoClock + EchoWait /\ echoNext' = echoNext + 1
    /\ onWay' = IF comesBack THEN onWay \cup {echoNext + 1} ELSE onWay
    /\ UNCHANGED <<echoing, echoPlanned, echoClock, echoReplied, echoErrs, hurried,
                   allowed, capabilities, wrongFor>>

(* An echo the kernel will not send ends the sending there.                *)
SendEchoFails ==
    /\ echoing = "running" /\ SendDue
    /\ echoPlanned' = echoNext
    /\ UNCHANGED <<echoing, echoes, echoAt, onWay, echoNext, echoClock, echoFinal, echoReplied, echoErrs,
                   hurried, allowed, capabilities, wrongFor>>

Over == echoNext = echoPlanned /\ (echoReplied = Cardinality(SentEchoes) \/ echoClock >= echoFinal)

(* runEchoes returns and fillICMPResult reports the echoes that left.      *)
Finish ==
    /\ echoing = "running" /\ ~SendDue /\ Over
    /\ echoing' = "done"
    /\ UNCHANGED <<runOf, allowed, capabilities, wrongFor>>

Listening == echoing = "running" /\ ~SendDue /\ ~Over

(* matchReply: the echo is sent, not answered and inside its wait.         *)
matchEcho(i) == echoes[i] = "sent" /\ echoClock - echoAt[i] <= EchoWait

(* A reply of the target with the payload of echo i, perhaps not the last. *)
Reply(i, again) ==
    /\ Listening /\ i \in onWay
    /\ onWay' = IF again THEN onWay ELSE onWay \ {i}
    /\ echoErrs' = 0
    /\ IF matchEcho(i) THEN echoes' = [echoes EXCEPT ![i] = "replied"] /\ echoReplied' = echoReplied + 1
                        ELSE UNCHANGED <<echoes, echoReplied>>
    /\ UNCHANGED <<echoing, echoAt, echoNext, echoPlanned, echoClock, echoFinal, hurried,
                   allowed, capabilities, wrongFor>>

EchoReadError ==
    /\ Listening /\ echoErrs' = echoErrs + 1
    /\ IF echoErrs' >= MaxEchoErrors THEN echoing' = "done" /\ hurried' = TRUE
                                     ELSE UNCHANGED <<echoing, hurried>>
    /\ UNCHANGED <<echoes, echoAt, onWay, echoNext, echoPlanned, echoClock, echoFinal, echoReplied,
                   allowed, capabilities, wrongFor>>

(* The run's context ends and closes the socket, or it takes no deadline.  *)
RunCancelled ==
    /\ echoing = "running" /\ echoing' = "done" /\ hurried' = TRUE
    /\ UNCHANGED <<echoes, echoAt, onWay, echoNext, echoPlanned, echoClock, echoFinal, echoReplied, echoErrs,
                   allowed, capabilities, wrongFor>>

(* The read deadline: the next echo is due, or the last wait is over.      *)
EchoTick ==
    /\ Listening /\ echoClock' = echoClock + 1 /\ echoErrs' = 0
    /\ UNCHANGED <<echoing, echoes, echoAt, onWay, echoNext, echoPlanned, echoFinal, echoReplied, hurried,
                   allowed, capabilities, wrongFor>>

(* The result is queued; the monitor's next run is another one.            *)
NextRun ==
    /\ echoing = "done" /\ echoing' = "idle"
    /\ echoes' = [i \in Echoes |-> "unsent"] /\ echoAt' = [i \in Echoes |-> 0] /\ onWay' = {}
    /\ echoNext' = 0 /\ echoPlanned' = IcmpPackets /\ echoClock' = 0 /\ echoFinal' = 0
    /\ echoReplied' = 0 /\ echoErrs' = 0 /\ hurried' = FALSE
    /\ UNCHANGED <<allowed, capabilities, wrongFor>>

-----------------------------------------------------------------------------
(* Faulty recheck: only what was refused is asked again.                   *)
factsStaleRefused == sinceCheck = -1 \/ (refusal /\ sinceCheck >= CapabilityRecheck)

factsStale == sinceCheck = -1 \/ sinceCheck >= CapabilityRecheck

(* facts, in every hello and heartbeat: asks the kernel again when it has  *)
(* not for a while; a transient error keeps what is known.                 *)
facts(transient) ==
    /\ IF ~factsStale THEN UNCHANGED <<capabilities, wrongFor>>
       ELSE IF transient THEN sinceCheck' = 0 /\ wrongFor' = 0 /\ UNCHANGED refusal
       ELSE setICMPLocked
    /\ UNCHANGED <<echoing, runOf, allowed>>

(* The interval of the heartbeat passes; it has asked for the facts.       *)
BeatPasses ==
    /\ echoing = "idle" /\ ~factsStale
    /\ sinceCheck' = Min({sinceCheck + 1, CapabilityRecheck})
    /\ wrongFor' = IF refusal = ~allowed THEN 0 ELSE Min({wrongFor + 1, CapabilityRecheck + 1})
    /\ UNCHANGED <<echoing, runOf, allowed, refusal>>

(* Somebody sets net.ipv4.ping_group_range.                                *)
PolicyChanges == allowed' = ~allowed /\ UNCHANGED <<echoing, runOf, capabilities, wrongFor>>

IcmpNext ==
    \/ \E b \in BOOLEAN : probeICMP(b) \/ SendEcho(b) \/ facts(b) \/ \E i \in Echoes : Reply(i, b)
    \/ SendEchoFails \/ Finish \/ EchoReadError \/ RunCancelled \/ EchoTick
    \/ NextRun \/ BeatPasses \/ PolicyChanges

-----------------------------------------------------------------------------
(* LostIsLost: a run that was not cut short calls an echo lost only after  *)
(* its whole wait, whatever the replies to the others did, and counts the  *)
(* replies of an echo once.                                                *)
LostIsLost ==
    /\ echoReplied = Cardinality({i \in Echoes : echoes[i] = "replied"})
    /\ echoing = "done" /\ ~hurried =>
          \A i \in SentEchoes : echoes[i] = "replied" \/ echoClock - echoAt[i] >= EchoWait

(* FactsCatchUp: "a changed ping_group_range shows up in the facts without *)
(* a restart", within capabilityRecheck of the last time that asking the   *)
(* kernel ended in an error that said nothing.                             *)
FactsCatchUp == wrongFor <= CapabilityRecheck
=============================================================================
