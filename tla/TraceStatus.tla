----------------------------- MODULE TraceStatus -----------------------------
(***************************************************************************)
(* What the trace collector says of itself (tracesource.go: setStatus,     *)
(* evaluateStream, noteStreamOpen, noteStreamError, noteDiscovery,         *)
(* pollConnections), and the log streams whose hooks it hears              *)
(* (singboxapi/logs.go: StreamLogsWithHooks, streamLogs).  A stream that   *)
(* was replaced or stopped may still call its hooks.  A hook, a poll and   *)
(* the evaluation that ends it are one step: the evaluation reads nothing  *)
(* but the present state.                                                  *)
(***************************************************************************)
EXTENDS Integers, FiniteSets

CONSTANTS
    TraceStreamGrace,        \* traceStreamGrace, in assembler ticks
    TraceFailLimit,          \* traceConnPollFailLimit = traceDiscoveryFailLimit
    MaxEpoch                 \* bound: streamEpoch

VARIABLES
    runUp,          \* runCancel is set
    state,          \* status.State
    streamEpoch, streamOpen, streamOpened,
    downFor,        \* -1 while streamDownSince is zero, else the ticks since
    connPollFailures, discoveryFailures,
    streams         \* what the stream of every epoch does

statusVars == <<runUp, state, streamEpoch, streamOpen, streamOpened, downFor,
                connPollFailures, discoveryFailures, streams>>

Epochs == 1..MaxEpoch
Settings == {"off", "no_clash_api", "secret_unreadable"}

StatusTypeOK ==
    /\ {runUp, streamOpen, streamOpened} \subseteq BOOLEAN
    /\ state \in Settings \cup {"ready", "stream_failing"}
    /\ streamEpoch \in 0..MaxEpoch /\ downFor \in -1..TraceStreamGrace
    /\ {connPollFailures, discoveryFailures} \subseteq 0..TraceFailLimit
    /\ streams \in [Epochs -> {"none", "dial", "open", "wait"}]

StatusInit ==
    /\ runUp = FALSE /\ state = "off" /\ streamEpoch = 0
    /\ streamOpen = FALSE /\ streamOpened = FALSE /\ downFor = -1
    /\ connPollFailures = 0 /\ discoveryFailures = 0 /\ streams = [e \in Epochs |-> "none"]

Bump(n) == IF n < TraceFailLimit THEN n + 1 ELSE n

-----------------------------------------------------------------------------
(* Faulty evaluateStream: an open stream is all that ready asks for.       *)
evaluateStreamOpenFirst ==
    state' = IF ~runUp' THEN state
             ELSE IF streamOpen' THEN "ready"
             ELSE IF connPollFailures' >= TraceFailLimit THEN "stream_failing"
             ELSE IF discoveryFailures' >= TraceFailLimit THEN "no_clash_api"
             ELSE IF downFor' >= TraceStreamGrace \/ (~streamOpened' /\ downFor' >= 0) THEN "stream_failing"
             ELSE state

(* evaluateStream; streamErr is set exactly while streamDownSince is.      *)
evaluateStream ==
    state' = IF ~runUp' THEN state
             ELSE IF connPollFailures' >= TraceFailLimit THEN "stream_failing"
             ELSE IF discoveryFailures' >= TraceFailLimit THEN "no_clash_api"
             ELSE IF streamOpen' THEN "ready"
             ELSE IF downFor' >= TraceStreamGrace \/ (~streamOpened' /\ downFor' >= 0) THEN "stream_failing"
             ELSE state

(* applyConfig without a pipeline, and no reason or no means to start one. *)
StartRefused ==
    /\ ~runUp /\ state' \in Settings
    /\ UNCHANGED <<runUp, streamEpoch, streamOpen, streamOpened, downFor,
                   connPollFailures, discoveryFailures, streams>>

(* restartStream: a new epoch, with no answer yet; the state stands.       *)
restartStream ==
    /\ streamEpoch < MaxEpoch /\ streamEpoch' = streamEpoch + 1
    /\ streamOpen' = FALSE /\ streamOpened' = FALSE /\ downFor' = -1
    /\ streams' = [streams EXCEPT ![streamEpoch + 1] = "dial"]

(* startPipeline, and the first subscription that follows it.              *)
startPipeline ==
    /\ ~runUp /\ runUp' = TRUE
    /\ connPollFailures' = 0
    /\ restartStream
    /\ UNCHANGED <<state, discoveryFailures>>

Resubscribe ==
    runUp /\ restartStream /\ UNCHANGED <<runUp, state, connPollFailures, discoveryFailures>>

(* stop, and the setStatus of the caller that stops.                       *)
stop ==
    /\ runUp /\ runUp' = FALSE
    /\ streamEpoch < MaxEpoch /\ streamEpoch' = streamEpoch + 1
    /\ streamOpen' = FALSE /\ streamOpened' = FALSE /\ downFor' = -1
    /\ connPollFailures' = 0 /\ discoveryFailures' = 0
    /\ state' \in Settings
    /\ UNCHANGED streams

noteDiscovery(ok) ==
    /\ runUp
    /\ discoveryFailures' = IF ok THEN 0 ELSE Bump(discoveryFailures)
    /\ UNCHANGED <<runUp, streamEpoch, streamOpen, streamOpened, downFor, connPollFailures, streams>>
    /\ evaluateStream

(* One poll of the running pipeline's client.                              *)
pollConnections(ok) ==
    /\ runUp
    /\ connPollFailures' = IF ok THEN 0 ELSE Bump(connPollFailures)
    /\ UNCHANGED <<runUp, streamEpoch, streamOpen, streamOpened, downFor, discoveryFailures, streams>>
    /\ evaluateStream

(* The tick of driveAssembler, which is what lets the grace expire.        *)
StatusTick ==
    /\ runUp
    /\ downFor' = IF downFor \in 0..(TraceStreamGrace - 1) THEN downFor + 1 ELSE downFor
    /\ UNCHANGED <<runUp, streamEpoch, streamOpen, streamOpened, connPollFailures, discoveryFailures, streams>>
    /\ evaluateStream

-----------------------------------------------------------------------------
noteStreamOpen(e) ==
    IF e = streamEpoch THEN streamOpen' = TRUE /\ streamOpened' = TRUE /\ downFor' = -1
    ELSE UNCHANGED <<streamOpen, streamOpened, downFor>>

noteStreamError(e) ==
    IF e = streamEpoch
    THEN streamOpen' = FALSE /\ downFor' = (IF downFor = -1 THEN 0 ELSE downFor) /\ UNCHANGED streamOpened
    ELSE UNCHANGED <<streamOpen, streamOpened, downFor>>

(* streamLogs is answered with a 2xx; a cancelled one may just have been.  *)
Accepted(e) ==
    /\ streams[e] = "dial"
    /\ streams' = [streams EXCEPT ![e] = "open"]
    /\ noteStreamOpen(e)
    /\ UNCHANGED <<runUp, streamEpoch, connPollFailures, discoveryFailures>>
    /\ evaluateStream

(* streamLogs returns: refused, no answer in time, or closed by the peer.  *)
Failed(e) ==
    /\ streams[e] \in {"dial", "open"}
    /\ streams' = [streams EXCEPT ![e] = "wait"]
    /\ noteStreamError(e)
    /\ UNCHANGED <<runUp, streamEpoch, connPollFailures, discoveryFailures>>
    /\ evaluateStream

(* The backoff passes, and StreamLogsWithHooks dials again.                *)
Retries(e) ==
    /\ streams[e] = "wait" /\ e = streamEpoch /\ runUp
    /\ streams' = [streams EXCEPT ![e] = "dial"]
    /\ UNCHANGED <<runUp, state, streamEpoch, streamOpen, streamOpened, downFor, connPollFailures,
                   discoveryFailures>>

(* StreamLogsWithHooks sees that its context is cancelled, and returns.    *)
Cancelled(e) ==
    /\ streams[e] # "none" /\ (e # streamEpoch \/ ~runUp)
    /\ streams' = [streams EXCEPT ![e] = "none"]
    /\ UNCHANGED <<runUp, state, streamEpoch, streamOpen, streamOpened, downFor, connPollFailures,
                   discoveryFailures>>

Configured == StartRefused \/ startPipeline \/ Resubscribe \/ stop

StatusNext ==
    \/ Configured \/ StatusTick
    \/ \E ok \in BOOLEAN : noteDiscovery(ok) \/ pollConnections(ok)
    \/ \E e \in Epochs : Accepted(e) \/ Failed(e) \/ Retries(e) \/ Cancelled(e)

-----------------------------------------------------------------------------
Current == IF runUp THEN streams[streamEpoch] ELSE "none"

(* ReadyIsTrue: the collector calls itself ready only while nothing it     *)
(* watches has failed for good: its own stream is open, or has not been    *)
(* answered since it was renewed, or was lost less than the grace ago.     *)
(* The hooks of an older stream never make it so.                          *)
ReadyIsTrue ==
    (state = "ready") =>
        /\ runUp /\ connPollFailures < TraceFailLimit /\ discoveryFailures < TraceFailLimit
        /\ \/ Current = "open"
           \/ Current = "dial" /\ ~streamOpened /\ downFor = -1
           \/ streamOpened /\ downFor \in 0..(TraceStreamGrace - 1)

(* FaultIsReported: a stream that is down and stays down is reported.      *)
FaultIsReported ==
    (/\ <>[][~Configured]_statusVars /\ <>[](runUp /\ Current # "open")
     /\ []<>(Current = "wait"))
        => <>[](state # "ready")

(* HealthIsReported: once the stream and the polls stay good the collector *)
(* says it is ready, whatever it said before.                              *)
HealthIsReported ==
    <>[](runUp /\ Current = "open" /\ connPollFailures = 0 /\ discoveryFailures = 0)
        => <>[](state = "ready")
=============================================================================
