------------------------------ MODULE MCParts ------------------------------
(* The parts of the agent whose promises are about safety, each in a small *)
(* instance: the outbox under any caller, one task's run, the trace        *)
(* assembler with its guard, capture and raw channel, the beacon's guard   *)
(* and probe, the log tailers, the reports, the trace policy, and the dns  *)
(* and icmp checks.  The models share no state, so a behaviour takes the   *)
(* steps of one of them and the others stay as they start: their state     *)
(* spaces add up and do not multiply.                                      *)
EXTENDS TaskOutboxClient, TaskRun, SessionAsm, TraceGuard, TraceCapture, TraceRaw,
        BeaconGuard, BeaconProbe, LogTail, NodeReport, TracePolicy, DnsCheck,
        IcmpCheck, TLC

CONSTANTS a1, a2, b1, e1, i1, i2, i3

VARIABLE part   \* the part whose steps a behaviour takes

(* The outbox: two leases of one task, one linechain lease, room for two   *)
(* journals, and a fourth lease so that the directory can be full.         *)
MCLeases == {a1, a2, b1, e1}
MCTaskOf == [l \in MCLeases |-> IF l = a2 THEN a1 ELSE l]
MCE3 == {e1}
MCResults == {"ok", "failed", "unknown"}

(* The reports: every kind of IP configuration, two static addresses.      *)
MCIpConfigs == [mode : {"static", "script", "resolver", "auto"}, static : {0, 1}]
MCStartupIp == [mode |-> "auto", static |-> 0]

(* The trace policy: sessions for a user, for a tag, at a level nobody     *)
(* knows, without an id, and without a deadline.                           *)
Session(id, level, users, tags, dsts, expires) ==
    [id |-> id, level |-> level, users |-> users, tags |-> tags, dsts |-> dsts, expires |-> expires]
MCWanted ==
    {Session("s1", "trace", {"alice"}, {}, {}, 3), Session("s2", "debug", {}, {"in"}, {""}, 2),
     Session("s3", "loud", {""}, {}, {"h"}, 4), Session("", "trace", {}, {}, {}, 4),
     Session("s4", "trace", {}, {}, {}, 0)}

(* The dns check: any answer, one that lists a value, or NXDOMAIN is       *)
(* expected; answers that fit or do not, truncated, or not to the query.   *)
AnyAnswer == [rcode |-> "", expect |-> {}]
MCQuestions == {AnyAnswer, [rcode |-> "", expect |-> {1}], [rcode |-> "NXDOMAIN", expect |-> {}]}
Whole(rcode, values) ==
    [id |-> TRUE, head |-> TRUE, truncated |-> FALSE, body |-> TRUE, rcode |-> rcode, values |-> values]
MCResponses ==
    {Whole("NOERROR", {1, 2}), Whole("NOERROR", {2}), Whole("NOERROR", {}), Whole("NXDOMAIN", {}),
     Whole("SERVFAIL", {}), [Whole("NOERROR", {1}) EXCEPT !.truncated = TRUE, !.body = FALSE],
     [Whole("NOERROR", {1}) EXCEPT !.id = FALSE], [Whole("NOERROR", {1}) EXCEPT !.head = FALSE],
     [Whole("NOERROR", {1}) EXCEPT !.body = FALSE]}

(* The assembler: three log ids, which it treats alike.                    *)
MCConnIds == {i1, i2, i3}
MCSymmetry == Permutations(MCConnIds)

Parts == {"outbox", "run", "asm", "guard", "capture", "raw", "flood", "probe", "tail",
          "report", "policy", "dns", "icmp"}

MCInit ==
    /\ part \in Parts
    /\ CInit /\ AsmInit /\ CaptureInit /\ RawInit /\ GuardInit /\ ProbeInit
    /\ RunInit /\ (part # "run" => task = CHOOSE f \in Facts : TRUE)
    /\ TraceGuardInit /\ (part # "guard" => budget = 1)
    /\ TailInit /\ (part # "tail" => file.size = 0)
    /\ ReportInit /\ (part # "report" => configured = {} /\ discover /\ declared = 0)
    /\ PolicyInit /\ (part # "policy" => ahead = 0)
    /\ DnsInit /\ (part # "dns" => transport = "udp" /\ question = AnyAnswer)
    /\ IcmpInit /\ (part # "icmp" => allowed)

MCNext ==
    \/ part = "outbox" /\ CNext
       /\ UNCHANGED <<part, runVars, asmVars, traceGuardVars, captureVars, rawVars, guardVars,
                       probeVars, tailVars, reportVars, policyVars, dnsVars, icmpVars>>
    \/ part = "run" /\ RunNext
       /\ UNCHANGED <<part, cvars, asmVars, traceGuardVars, captureVars, rawVars, guardVars,
                       probeVars, tailVars, reportVars, policyVars, dnsVars, icmpVars>>
    \/ part = "asm" /\ AsmNext
       /\ UNCHANGED <<part, cvars, runVars, traceGuardVars, captureVars, rawVars, guardVars,
                       probeVars, tailVars, reportVars, policyVars, dnsVars, icmpVars>>
    \/ part = "guard" /\ TraceGuardNext
       /\ UNCHANGED <<part, cvars, runVars, asmVars, captureVars, rawVars, guardVars, probeVars,
                       tailVars, reportVars, policyVars, dnsVars, icmpVars>>
    \/ part = "capture" /\ CaptureNext
       /\ UNCHANGED <<part, cvars, runVars, asmVars, traceGuardVars, rawVars, guardVars, probeVars,
                       tailVars, reportVars, policyVars, dnsVars, icmpVars>>
    \/ part = "raw" /\ RawNext
       /\ UNCHANGED <<part, cvars, runVars, asmVars, traceGuardVars, captureVars, guardVars,
                       probeVars, tailVars, reportVars, policyVars, dnsVars, icmpVars>>
    \/ part = "flood" /\ GuardNext
       /\ UNCHANGED <<part, cvars, runVars, asmVars, traceGuardVars, captureVars, rawVars,
                       probeVars, tailVars, reportVars, policyVars, dnsVars, icmpVars>>
    \/ part = "probe" /\ ProbeNext
       /\ UNCHANGED <<part, cvars, runVars, asmVars, traceGuardVars, captureVars, rawVars,
                       guardVars, tailVars, reportVars, policyVars, dnsVars, icmpVars>>
    \/ part = "tail" /\ TailNext
       /\ UNCHANGED <<part, cvars, runVars, asmVars, traceGuardVars, captureVars, rawVars,
                       guardVars, probeVars, reportVars, policyVars, dnsVars, icmpVars>>
    \/ part = "report" /\ ReportNext
       /\ UNCHANGED <<part, cvars, runVars, asmVars, traceGuardVars, captureVars, rawVars,
                       guardVars, probeVars, tailVars, policyVars, dnsVars, icmpVars>>
    \/ part = "policy" /\ PolicyNext
       /\ UNCHANGED <<part, cvars, runVars, asmVars, traceGuardVars, captureVars, rawVars,
                       guardVars, probeVars, tailVars, reportVars, dnsVars, icmpVars>>
    \/ part = "dns" /\ DnsNext
       /\ UNCHANGED <<part, cvars, runVars, asmVars, traceGuardVars, captureVars, rawVars,
                       guardVars, probeVars, tailVars, reportVars, policyVars, icmpVars>>
    \/ part = "icmp" /\ IcmpNext
       /\ UNCHANGED <<part, cvars, runVars, asmVars, traceGuardVars, captureVars, rawVars,
                       guardVars, probeVars, tailVars, reportVars, policyVars, dnsVars>>

mcVars == <<part, cvars, runVars, asmVars, traceGuardVars, captureVars, rawVars, guardVars,
            probeVars, tailVars, reportVars, policyVars, dnsVars, icmpVars>>

MCSpec == MCInit /\ [][MCNext]_mcVars

(* PartsTypeOK: the type invariant of the part at work.                    *)
PartsTypeOK ==
    CASE part = "outbox" -> CTypeOK
      [] part = "run" -> RunTypeOK
      [] part = "asm" -> AsmTypeOK
      [] part = "guard" -> TraceGuardTypeOK
      [] part = "capture" -> CaptureTypeOK
      [] part = "raw" -> RawTypeOK
      [] part = "flood" -> GuardTypeOK
      [] part = "probe" -> ProbeTypeOK
      [] part = "tail" -> TailTypeOK
      [] part = "report" -> ReportTypeOK
      [] part = "policy" -> PolicyTypeOK
      [] part = "dns" -> DnsTypeOK
      [] part = "icmp" -> IcmpTypeOK
=============================================================================
