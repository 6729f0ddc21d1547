------------------------------- MODULE TraceRaw ------------------------------
(***************************************************************************)
(* The raw line queue of the trace collector (tracesource.go: onEntry's    *)
(* raw branch, setRawSourceLocked, flushRaw).  The queue grows while a     *)
(* batch is on the wire, and the raw switch can be turned off and on under *)
(* that batch.  A line is the number of lines queued before it, plus one.  *)
(***************************************************************************)
EXTENDS Integers, Sequences, FiniteSets
LOCAL INSTANCE SequencesExt

CONSTANTS
    TraceRawQueueMax,    \* traceRawQueueMax
    MaxRawLines,         \* bound: raw lines
    MaxRawEpoch          \* bound: times the switch discards a queue

VARIABLES
    rawSource,   \* rawSourceID is set
    rawQueue, rawDropped, rawEpoch,
    rawSeen,     \* lines queued so far
    rawStored,   \* lines the server has
    rawGone,     \* lines the switch discarded
    rawWire      \* the batches on the wire: none or one, driveAssembler waits for it

rawVars == <<rawSource, rawQueue, rawDropped, rawEpoch, rawSeen, rawStored, rawGone, rawWire>>

RawTypeOK ==
    /\ rawSource \in BOOLEAN /\ rawQueue \in Seq(1..MaxRawLines) /\ rawDropped \in 0..1
    /\ rawEpoch \in 0..MaxRawEpoch /\ rawSeen \in 0..MaxRawLines
    /\ {rawStored, rawGone} \subseteq SUBSET (1..MaxRawLines)
    /\ \A b \in rawWire : b.lines \in Seq(1..MaxRawLines) /\ b.epoch \in 0..MaxRawEpoch

RawInit ==
    /\ rawSource = TRUE /\ rawQueue = <<>> /\ rawDropped = 0 /\ rawEpoch = 0
    /\ rawSeen = 0 /\ rawStored = {} /\ rawGone = {} /\ rawWire = {}

(* onEntry, for a line the node floor keeps: queued, or dropped and        *)
(* counted (one drop stands for any number).                               *)
RawEntry ==
    /\ rawSource /\ rawSeen < MaxRawLines
    /\ IF Len(rawQueue) < TraceRawQueueMax
       THEN rawQueue' = Append(rawQueue, rawSeen + 1) /\ rawSeen' = rawSeen + 1 /\ UNCHANGED rawDropped
       ELSE rawDropped' = 1 /\ UNCHANGED <<rawQueue, rawSeen>>
    /\ UNCHANGED <<rawSource, rawEpoch, rawStored, rawGone, rawWire>>

(* Faulty setRawSourceLocked: empties the queue in the old epoch.          *)
setRawSourceSameEpoch(on) ==
    /\ rawSource' = on
    /\ IF ~on THEN rawQueue' = <<>> /\ rawDropped' = 0 /\ rawGone' = rawGone \cup ToSet(rawQueue)
       ELSE UNCHANGED <<rawQueue, rawDropped, rawGone>>
    /\ UNCHANGED <<rawEpoch, rawSeen, rawStored, rawWire>>

(* setRawSourceLocked, when a config is applied.                           *)
setRawSourceLocked(on) ==
    /\ rawSource' = on
    /\ IF ~on /\ (rawQueue # <<>> \/ rawDropped > 0)
       THEN /\ rawEpoch < MaxRawEpoch /\ rawEpoch' = rawEpoch + 1
            /\ rawQueue' = <<>> /\ rawDropped' = 0 /\ rawGone' = rawGone \cup ToSet(rawQueue)
       ELSE UNCHANGED <<rawQueue, rawDropped, rawEpoch, rawGone>>
    /\ UNCHANGED <<rawSeen, rawStored, rawWire>>

(* flushRaw, up to the request.                                            *)
flushRaw ==
    /\ rawWire = {} /\ rawSource /\ rawQueue # <<>>
    /\ rawWire' = {[lines |-> rawQueue, epoch |-> rawEpoch]}
    /\ UNCHANGED <<rawSource, rawQueue, rawDropped, rawEpoch, rawSeen, rawStored, rawGone>>

(* flushRaw, from the answer on.  The server may have stored a batch whose *)
(* answer is lost.                                                         *)
RawAnswer(stored, ok) ==
    \E b \in rawWire :
        /\ ok => stored
        /\ rawWire' = {}
        /\ rawStored' = IF stored THEN rawStored \cup ToSet(b.lines) ELSE rawStored
        /\ IF ok /\ rawEpoch = b.epoch
           THEN rawQueue' = SubSeq(rawQueue, Len(b.lines) + 1, Len(rawQueue)) /\ rawDropped' = 0
           ELSE UNCHANGED <<rawQueue, rawDropped>>
        /\ UNCHANGED <<rawSource, rawEpoch, rawSeen, rawGone>>

RawNext ==
    \/ RawEntry \/ flushRaw
    \/ \E on \in BOOLEAN : setRawSourceLocked(on)
    \/ \E stored, ok \in BOOLEAN : RawAnswer(stored, ok)

-----------------------------------------------------------------------------
(* RawHoldsPosition: "the queue is only cleared once the server has taken  *)
(* it": every line ever queued is on the server, still queued, or was      *)
(* discarded by the switch, whatever the switch does under a batch.        *)
RawHoldsPosition == 1..rawSeen = rawStored \cup rawGone \cup ToSet(rawQueue)

(* RawOffShipsNothing: "records on, raw off ships zero raw lines": a flush *)
(* takes no line that was queued before the switch was last off.           *)
RawOffShipsNothing == (~rawSource => rawQueue = <<>>) /\ ToSet(rawQueue) \cap rawGone = {}
=============================================================================
