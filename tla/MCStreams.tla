----------------------------- MODULE MCStreams -----------------------------
(* What the agent streams to the server, each in a small instance: the     *)
(* trace's status with its log streams, its collector and its shipper; the *)
(* log tailer and the refusals of a log source.  The models share no       *)
(* state, so a behaviour takes the steps of one of them and the others     *)
(* stay as they start: their state spaces add up and do not multiply.      *)
EXTENDS TraceStatus, TraceCollector, TraceShip, LogTail, LogRefusal

VARIABLE part   \* the part whose steps a behaviour takes

(* One path, which the node lists, that may lead to itself, to auth.log,   *)
(* which the node keeps to itself, or out of what it lists.                *)
VarLog == <<"var", "log">>
Own == <<"srv", "own">>
AuthLog == VarLog \o <<"auth.log">>
Shadow == <<"etc", "shadow">>
Regular(p) == [path |-> p, regular |-> TRUE]
MCAllow == {<<"srv">>}
MCDenyFiles == {<<"auth.log">>}
MCDenyDirs == {<<"audit">>}
MCPaths == {Own}
MCLeads == [p \in MCPaths |-> {Regular(Own), Regular(AuthLog), Regular(Shadow)}]
MCOffLimits == {Regular(AuthLog), Regular(Shadow)}

Parts == {"status", "collector", "ship", "tail", "refusal"}

MCInit ==
    /\ part \in Parts
    /\ StatusInit /\ CollectorInit /\ ShipInit /\ TailInit /\ RefusalInit
    /\ (part # "tail" => file.size = 0)

MCNext ==
    \/ part = "status" /\ StatusNext
       /\ UNCHANGED <<part, collectorVars, shipVars, tailVars, refusalVars>>
    \/ part = "collector" /\ CollectorNext
       /\ UNCHANGED <<part, statusVars, shipVars, tailVars, refusalVars>>
    \/ part = "ship" /\ ShipNext
       /\ UNCHANGED <<part, statusVars, collectorVars, tailVars, refusalVars>>
    \/ part = "tail" /\ TailNext
       /\ UNCHANGED <<part, statusVars, collectorVars, shipVars, refusalVars>>
    \/ part = "refusal" /\ RefusalNext
       /\ UNCHANGED <<part, statusVars, collectorVars, shipVars, tailVars>>

mcVars == <<part, statusVars, collectorVars, shipVars, tailVars, refusalVars>>

MCSpec == MCInit /\ [][MCNext]_mcVars

(* The assembler's ticker ticks, a dial is answered or fails, and a stream *)
(* that waits dials again.                                                 *)
StatusFairness ==
    /\ WF_statusVars(part = "status" /\ StatusTick)
    /\ \A e \in Epochs :
        /\ WF_statusVars(part = "status" /\ (Accepted(e) \/ (streams[e] = "dial" /\ Failed(e))))
        /\ WF_statusVars(part = "status" /\ Retries(e))

(* The ticker ticks and a config once taken is applied; that the server is *)
(* heard from is not assumed.                                              *)
CollectorFairness ==
    /\ WF_collectorVars(part = "collector" /\ Applying)
    /\ \A p \in Pipes : WF_collectorVars(part = "collector" /\ Ticks(p))

(* Run flushes on a ticker, an HTTP client with a timeout ends every       *)
(* request, and time passes.                                               *)
ShipFairness ==
    /\ WF_shipVars(part = "ship" /\ takeBatch)
    /\ WF_shipVars(part = "ship" /\ (ShipAnswered \/ Refused413 \/ OtherFailure))
    /\ WF_shipVars(part = "ship" /\ ShipTick)

(* A tailer runs on and its requests return; its sources are reconciled.   *)
TailFairness ==
    /\ \A g \in Tailers :
        /\ WF_tailVars(part = "tail" /\ Works(g))
        /\ WF_tailVars(part = "tail" /\ \E took, ok \in BOOLEAN : Ship(g, took, ok))
    /\ WF_refusalVars(part = "refusal" /\ reconcileSource(FALSE))
    /\ \A g \in LogTailers : WF_refusalVars(part = "refusal" /\ Tails(g))

MCFairSpec == MCSpec /\ StatusFairness /\ CollectorFairness /\ ShipFairness /\ TailFairness

(* StreamsTypeOK: the type invariant of the part at work.                  *)
StreamsTypeOK ==
    CASE part = "status" -> StatusTypeOK
      [] part = "collector" -> CollectorTypeOK
      [] part = "ship" -> ShipTypeOK
      [] part = "tail" -> TailTypeOK
      [] part = "refusal" -> RefusalTypeOK
=============================================================================
