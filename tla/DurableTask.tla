----------------------------- MODULE DurableTask -----------------------------
(***************************************************************************)
(* What the agent promises about durable leases, without journals, fsyncs  *)
(* or messages: a lease is started at most once and gets at most one       *)
(* verdict, and nothing is started once its verdict is out.  The README    *)
(* puts it so: "an interrupted marked task is reported as an unknown       *)
(* outcome rather than executed a second time".                            *)
(***************************************************************************)
EXTENDS Naturals

CONSTANTS Leases, Results, Unknown, None

VARIABLES
    starts,    \* starts[l]: how often the script of l has been started
    verdict    \* verdict[l]: the journaled result the control plane has, or None

AInit ==
    /\ starts = [l \in Leases |-> 0]
    /\ verdict = [l \in Leases |-> None]

AStart(l) ==
    /\ starts[l] = 0
    /\ verdict[l] = None
    /\ starts' = [starts EXCEPT ![l] = 1]
    /\ UNCHANGED verdict

(* Only a started lease has a real result; any lease may end as unknown.   *)
AReport(l, r) ==
    /\ verdict[l] = None
    /\ r # Unknown => starts[l] > 0
    /\ verdict' = [verdict EXCEPT ![l] = r]
    /\ UNCHANGED starts

ANext == \E l \in Leases : AStart(l) \/ \E r \in Results : AReport(l, r)

ASpec == AInit /\ [][ANext]_<<starts, verdict>>
=============================================================================
