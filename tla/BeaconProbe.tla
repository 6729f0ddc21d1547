----------------------------- MODULE BeaconProbe -----------------------------
(***************************************************************************)
(* One beacon check of a node (internal/beacon/client.go): Client.Probe    *)
(* sends requests on a schedule and reads replies that may be lost, late,  *)
(* duplicated or reordered.  A clock tick is the spacing of the requests.  *)
(***************************************************************************)
EXTENDS Integers, FiniteSets

CONSTANTS
    Packets,      \* packets(m)
    Wait,         \* monitorTimeout(m), in spacings
    MaxReadErrs   \* the read errors in a row that end a run (3)

VARIABLES
    run,      \* "idle", "running" or "done"
    req,      \* what became of each request
    sentAt,   \* request.sentAt
    next, planned, clock, final, answered, refusals, probeErrs, cutShort,
    replies   \* replies in the network, as <<request, status>>

probeVars == <<run, req, sentAt, next, planned, clock, final,
               answered, refusals, probeErrs, cutShort, replies>>

Requests == 1..Packets
Statuses == {"ok", "limited"}
Sent == {i \in Requests : req[i] # "unsent"}
RunBudget == (Packets - 1) + Wait

ProbeTypeOK ==
    /\ run \in {"idle", "running", "done"}
    /\ req \in [Requests -> {"unsent", "sent"} \cup Statuses]
    /\ sentAt \in [Requests -> 0..RunBudget]
    /\ next \in 0..Packets /\ planned \in 0..Packets
    /\ clock \in 0..(RunBudget + 1) /\ final \in 0..(RunBudget + 1)
    /\ answered \in 0..Packets /\ refusals \in 0..2 /\ probeErrs \in 0..MaxReadErrs
    /\ cutShort \in BOOLEAN
    /\ replies \subseteq Requests \X Statuses

ProbeInit ==
    /\ run = "idle"
    /\ req = [i \in Requests |-> "unsent"] /\ sentAt = [i \in Requests |-> 0]
    /\ next = 0 /\ planned = Packets /\ clock = 0 /\ final = 0
    /\ answered = 0 /\ refusals = 0 /\ probeErrs = 0 /\ cutShort = FALSE /\ replies = {}

schedule == <<next, planned, final>>
outcome == <<answered, refusals, cutShort>>

-----------------------------------------------------------------------------
(* Probe, once it has a destination and a key for it; without them it      *)
(* answers at once and sends nothing.                                      *)
Probe(known) ==
    /\ run = "idle"
    /\ run' = IF known THEN "running" ELSE "done"
    /\ UNCHANGED <<req, sentAt, schedule, clock, outcome, probeErrs, replies>>

Due == next < planned /\ clock >= next

(* The end of the last request's wait.                                     *)
lastWait(i) == clock + Wait

Send ==
    /\ run = "running" /\ Due
    /\ req' = [req EXCEPT ![next + 1] = "sent"]
    /\ sentAt' = [sentAt EXCEPT ![next + 1] = clock]
    /\ final' = lastWait(next + 1)
    /\ next' = next + 1
    /\ \E back \in SUBSET ({next + 1} \X Statuses) :
          /\ Cardinality(back) <= 1
          /\ replies' = replies \cup back
    /\ UNCHANGED <<run, planned, clock, outcome, probeErrs>>

(* The socket reports an earlier port-unreachable instead of sending.      *)
SendRefused ==
    /\ run = "running" /\ Due /\ refusals < 2
    /\ refusals' = refusals + 1 /\ next' = next + 1
    /\ UNCHANGED <<run, req, sentAt, planned, final, clock, answered, cutShort, probeErrs, replies>>

(* Any other send error ends the sending, not the run.                     *)
SendFails ==
    /\ run = "running" /\ Due
    /\ planned' = next /\ cutShort' = TRUE
    /\ UNCHANGED <<run, req, sentAt, next, final, clock, answered, refusals, probeErrs, replies>>

Returns == next = planned /\ (answered = Cardinality(Sent) \/ clock >= final)

(* run's return and fillResult.                                            *)
Return ==
    /\ run = "running" /\ ~Due /\ Returns
    /\ run' = "done"
    /\ UNCHANGED <<req, sentAt, schedule, clock, outcome, probeErrs, replies>>

Reading == run = "running" /\ ~Due /\ ~Returns

(* Faulty matchReply: a duplicate answers again.                           *)
matchReplyAgain(i) == req[i] # "unsent" /\ clock - sentAt[i] <= Wait

(* matchReply: the request is sent, unanswered and inside its wait.        *)
matchReply(i) == req[i] = "sent" /\ clock - sentAt[i] <= Wait

(* A reply arrives, perhaps not for the last time.                         *)
Receive(r, again) ==
    /\ Reading /\ r \in replies
    /\ replies' = IF again THEN replies ELSE replies \ {r}
    /\ probeErrs' = 0
    /\ IF matchReply(r[1])
       THEN req' = [req EXCEPT ![r[1]] = r[2]] /\ answered' = answered + 1
       ELSE UNCHANGED <<req, answered>>
    /\ UNCHANGED <<run, sentAt, schedule, clock, refusals, cutShort>>

ReadRefused ==
    /\ Reading /\ refusals < 2
    /\ refusals' = refusals + 1
    /\ UNCHANGED <<run, req, sentAt, schedule, clock, answered, cutShort, probeErrs, replies>>

ReadFails ==
    /\ Reading
    /\ probeErrs' = probeErrs + 1
    /\ IF probeErrs' >= MaxReadErrs THEN run' = "done" /\ cutShort' = TRUE ELSE UNCHANGED <<run, cutShort>>
    /\ UNCHANGED <<req, sentAt, schedule, clock, answered, refusals, replies>>

(* The run's context ends: the agent stops, or the run's own bound.        *)
CutShort ==
    /\ run = "running"
    /\ run' = "done" /\ cutShort' = TRUE
    /\ UNCHANGED <<req, sentAt, schedule, clock, answered, refusals, probeErrs, replies>>

(* Time passes up to the read deadline.                                    *)
ProbeTick ==
    /\ Reading
    /\ clock' = clock + 1 /\ probeErrs' = 0
    /\ UNCHANGED <<run, req, sentAt, schedule, outcome, replies>>

ProbeNext ==
    \/ \E known \in BOOLEAN : Probe(known)
    \/ Send \/ SendRefused \/ SendFails \/ Return
    \/ \E r \in Requests \X Statuses, again \in BOOLEAN : Receive(r, again)
    \/ ReadRefused \/ ReadFails \/ CutShort \/ ProbeTick

-----------------------------------------------------------------------------
(* WaitsItsTurn: a run that was not cut short ends only when every request *)
(* it sent was answered or waited out its timeout; a duplicate never       *)
(* stands for another request's reply.                                     *)
WaitsItsTurn ==
    run = "done" /\ ~cutShort => \A i \in Sent : req[i] # "sent" \/ clock - sentAt[i] >= Wait

(* WithinBudget: a run takes no longer than RunBudget, on which the        *)
(* schedule of checks relies, whatever arrives.                            *)
WithinBudget == clock <= RunBudget
=============================================================================
