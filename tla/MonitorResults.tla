---------------------------- MODULE MonitorResults ----------------------------
(***************************************************************************)
(* The queue of monitor results (cmd/lattice-agent/monitor_results.go):    *)
(* probes push, the flush loop posts the oldest results in batches, or one *)
(* by one to a server without the batch route, and a clean stop drains the *)
(* queue once more.  Probes go on pushing while a request is under way, so *)
(* the queue may overflow and drop results that are being sent.            *)
(*                                                                         *)
(* A result is its sequence number.  What the server did with a request    *)
(* and what the agent learns of it are chosen separately: an answer may be *)
(* lost, and a request given up may still arrive.                          *)
(***************************************************************************)
EXTENDS Naturals, Sequences, FiniteSets

LOCAL INSTANCE SequencesExt

CONSTANTS
    QueueMax,       \* monitorResultQueueMax
    BatchMax,       \* monitorResultBatchMax
    FlushBatches,   \* monitorResultFlushBatches
    MaxResults      \* bound: the results the probes produce

ASSUME QueueAssumption ==
    /\ {QueueMax, BatchMax, FlushBatches} \subseteq Nat \ {0}
    /\ MaxResults \in Nat

VARIABLES
    items,       \* monitorResultQueue.items, oldest first
    nextSeq,     \* .nextSeq
    dropped,     \* .dropped
    batchOff,    \* the batch route answered 404 less than monitorBatchReprobe ago
    flush,       \* where flush is (flushMu is held unless "idle")
    round,       \* the batches this flush has sent
    sending,     \* the results of the head it has not finished
    uncounted,   \* results settled as dropped and not yet counted
    flushMode,        \* "running", "stopping" after stopMonitorFlush, "draining", "gone"
    stored,      \* the server: results it has,
    handled,     \* results it has stored or refused at least once,
    late,        \* requests that may still arrive,
    hasRoute     \* and whether it knows the batch route

agent == <<items, nextSeq, dropped, batchOff, flush, round, sending, uncounted, flushMode>>
resultServer == <<stored, handled, late, hasRoute>>
resultsVars == <<agent, resultServer>>

Queued == ToSet(items)
Produced == 1..nextSeq

ResultsTypeOK ==
    /\ items \in Seq(Produced) /\ Len(items) <= QueueMax
    /\ \A i, j \in DOMAIN items : i < j => items[i] < items[j]
    /\ nextSeq \in 0..MaxResults
    /\ dropped \in Nat /\ uncounted \in Nat
    /\ batchOff \in BOOLEAN /\ hasRoute \in BOOLEAN
    /\ flush \in {"idle", "head", "batch", "single", "settle", "count"}
    /\ round \in 0..FlushBatches
    /\ sending \in Seq(Produced) /\ Len(sending) <= BatchMax
    /\ flushMode \in {"running", "stopping", "draining", "gone"}
    /\ stored \subseteq handled /\ handled \subseteq Produced
    /\ late \subseteq SUBSET Produced

ResultsInit ==
    /\ items = <<>> /\ nextSeq = 0 /\ dropped = 0
    /\ batchOff = FALSE
    /\ flush = "idle" /\ round = 0 /\ sending = <<>> /\ uncounted = 0
    /\ flushMode = "running"
    /\ stored = {} /\ handled = {} /\ late = {}
    /\ hasRoute \in BOOLEAN

-----------------------------------------------------------------------------
(* push: past the bound the oldest go.                                     *)
push ==
    /\ flushMode # "gone" /\ nextSeq < MaxResults
    /\ nextSeq' = nextSeq + 1
    /\ LET all == Append(items, nextSeq + 1)
           over == IF Len(all) > QueueMax THEN Len(all) - QueueMax ELSE 0
       IN  /\ items' = SubSeq(all, over + 1, Len(all))
           /\ dropped' = dropped + over
    /\ UNCHANGED <<batchOff, flush, round, sending, uncounted, flushMode, resultServer>>

(* Faulty settle: the head that was sent is removed by its length.         *)
settleByCount(seq) ==
    LET n == IF Len(sending) < Len(items) THEN Len(sending) ELSE Len(items)
    IN  items' = SubSeq(items, n + 1, Len(items))

(* settle(seq): every result up to and including seq leaves the queue.     *)
settle(seq) == items' = SelectSeq(items, LAMBDA s : s > seq)

-----------------------------------------------------------------------------
(* flush, called by flushLoop on every tick and once by drain.             *)
FlushStart ==
    /\ flush = "idle"
    /\ \/ flushMode = "running" /\ UNCHANGED flushMode
       \/ flushMode = "stopping" /\ flushMode' = "draining"
    /\ flush' = "head" /\ round' = 0
    /\ UNCHANGED <<items, nextSeq, dropped, batchOff, sending, uncounted, resultServer>>

(* flush returns; a drain that returned is the end of the process.         *)
FlushReturns ==
    /\ flush' = "idle" /\ round' = 0 /\ sending' = <<>>
    /\ flushMode' = IF flushMode = "draining" THEN "gone" ELSE flushMode

TakeHead ==
    /\ flush = "head"
    /\ items # <<>> /\ round < FlushBatches
    /\ LET n == IF Len(items) < BatchMax THEN Len(items) ELSE BatchMax
       IN  sending' = SubSeq(items, 1, n)
    /\ flush' = IF batchOff THEN "single" ELSE "batch"
    /\ UNCHANGED <<items, nextSeq, dropped, batchOff, round, uncounted, flushMode, resultServer>>

FlushDone ==
    /\ flush = "head"
    /\ items = <<>> \/ round = FlushBatches
    /\ FlushReturns
    /\ UNCHANGED <<items, nextSeq, dropped, batchOff, uncounted, resultServer>>

-----------------------------------------------------------------------------
(* What the server does with a request for the results rs: it stores some  *)
(* and refuses the rest; what it already has is a duplicate.               *)
Decide(rs, no) ==
    /\ no \subseteq rs \ stored
    /\ handled' = handled \cup rs
    /\ stored' = stored \cup (rs \ no)
    /\ UNCHANGED hasRoute

(* A request that ends in an error the agent retries after: it was never   *)
(* handled, or only its answer is lost, or it may arrive later.            *)
PostFailed(rs) ==
    \/ UNCHANGED resultServer
    \/ late' = late \cup {rs} /\ UNCHANGED <<stored, handled, hasRoute>>
    \/ \E no \in SUBSET rs : Decide(rs, no) /\ UNCHANGED late

LateArrival ==
    \E rs \in late :
        /\ \E no \in SUBSET rs : Decide(rs, no)
        /\ late' = late \ {rs}
        /\ UNCHANGED agent

(* The batch is answered: the results listed as dropped are counted after  *)
(* the whole batch is settled.  A 400 refuses all of it.                   *)
BatchAnswered ==
    /\ flush = "batch" /\ hasRoute
    /\ \E no \in SUBSET ToSet(sending) :
        /\ Decide(ToSet(sending), no)
        /\ UNCHANGED late
        /\ settle(Last(sending))
        /\ uncounted' = Cardinality(no)
        /\ flush' = IF no = {} THEN "head" ELSE "count"
        /\ round' = IF no = {} THEN round + 1 ELSE round
    /\ UNCHANGED <<nextSeq, dropped, batchOff, sending, flushMode>>

BatchRefused ==
    /\ flush = "batch" /\ hasRoute
    /\ handled' = handled \cup ToSet(sending)
    /\ settle(Last(sending))
    /\ uncounted' = Len(sending)
    /\ flush' = "count"
    /\ UNCHANGED <<nextSeq, dropped, batchOff, round, sending, flushMode, stored, late, hasRoute>>

countDropped ==
    /\ flush = "count"
    /\ dropped' = dropped + uncounted
    /\ uncounted' = 0
    /\ flush' = "head" /\ round' = round + 1
    /\ UNCHANGED <<items, nextSeq, batchOff, sending, flushMode, resultServer>>

(* Faulty fallback: the missing route is reported and nothing else tried.  *)
BatchMissingGivesUp ==
    /\ flush = "batch" /\ ~hasRoute
    /\ FlushReturns
    /\ UNCHANGED <<items, nextSeq, dropped, batchOff, uncounted, resultServer>>

(* 404: disableBatch, and the same results go out one by one.              *)
BatchMissing ==
    /\ flush = "batch" /\ ~hasRoute
    /\ batchOff' = TRUE
    /\ flush' = "single"
    /\ UNCHANGED <<items, nextSeq, dropped, round, sending, uncounted, flushMode, resultServer>>

BatchFailed ==
    /\ flush = "batch"
    /\ IF hasRoute THEN PostFailed(ToSet(sending)) ELSE UNCHANGED resultServer
    /\ FlushReturns
    /\ UNCHANGED <<items, nextSeq, dropped, batchOff, uncounted>>

-----------------------------------------------------------------------------
(* sendSingles.  A refused result is counted, then settled.                *)
SingleAnswered ==
    /\ flush = "single" /\ sending # <<>>
    /\ \E no \in SUBSET {Head(sending)} :
        /\ Decide({Head(sending)}, no)
        /\ UNCHANGED late
        /\ dropped' = dropped + Cardinality(no)
    /\ flush' = "settle"
    /\ UNCHANGED <<items, nextSeq, batchOff, round, sending, uncounted, flushMode>>

SingleSettled ==
    /\ flush = "settle"
    /\ settle(Head(sending))
    /\ sending' = Tail(sending)
    /\ flush' = "single"
    /\ UNCHANGED <<nextSeq, dropped, batchOff, round, uncounted, flushMode, resultServer>>

SingleFailed ==
    /\ flush = "single" /\ sending # <<>>
    /\ PostFailed({Head(sending)})
    /\ FlushReturns
    /\ UNCHANGED <<items, nextSeq, dropped, batchOff, uncounted>>

SinglesDone ==
    /\ flush = "single" /\ sending = <<>>
    /\ flush' = "head" /\ round' = round + 1
    /\ UNCHANGED <<items, nextSeq, dropped, batchOff, sending, uncounted, flushMode, resultServer>>

-----------------------------------------------------------------------------
(* monitorBatchReprobe passes; the server is upgraded; the agent stops: a  *)
(* flush under way is cut short, then drain runs the last one.             *)
Reprobe ==
    /\ batchOff
    /\ batchOff' = FALSE
    /\ UNCHANGED <<items, nextSeq, dropped, flush, round, sending, uncounted, flushMode, resultServer>>

Upgrade ==
    /\ ~hasRoute
    /\ hasRoute' = TRUE
    /\ UNCHANGED <<agent, stored, handled, late>>

Stop ==
    /\ flushMode = "running"
    /\ flushMode' = "stopping"
    /\ UNCHANGED <<items, nextSeq, dropped, batchOff, flush, round, sending, uncounted, resultServer>>

Sender ==
    \/ TakeHead \/ FlushDone
    \/ BatchAnswered \/ BatchRefused \/ countDropped \/ BatchMissing \/ BatchFailed
    \/ SingleAnswered \/ SingleSettled \/ SingleFailed \/ SinglesDone

ResultsNext == push \/ FlushStart \/ Sender \/ LateArrival \/ Reprobe \/ Upgrade \/ Stop

-----------------------------------------------------------------------------
(* Accounted: "every result the server never stored is counted in          *)
(* dropped": a result that is neither queued nor stored is in the count    *)
(* (or about to be), whatever overflowed while it was being sent.          *)
Accounted ==
    Cardinality(Produced \ (stored \cup Queued)) <= dropped + uncounted

(* OldestFirst: the server has decided nothing newer than a result that    *)
(* still waits undecided, even with late requests and the fallback route.  *)
OldestFirst ==
    \A i \in Queued \ handled : \A j \in handled : j < i

(* DropCountIsExact: "how many results were dropped": the counter is not   *)
(* larger than the number of results that left the queue unstored.         *)
DropCountIsExact ==
    flush = "idle" => dropped <= Cardinality(Produced \ (stored \cup Queued))

(* The ticker fires again and again, every request ends, and the server    *)
(* does not fail for ever.                                                 *)
ResultsFairness ==
    /\ WF_resultsVars(FlushStart) /\ WF_resultsVars(Sender)
    /\ SF_resultsVars(BatchAnswered) /\ SF_resultsVars(BatchMissing)
    /\ SF_resultsVars(SingleAnswered)

(* Delivered: unless the agent stops, every queued result is decided by    *)
(* the server or dropped and counted, with either kind of server.          *)
Delivered ==
    [](flushMode = "running") => \A i \in 1..MaxResults : i \in Queued ~> i \notin Queued
=============================================================================
