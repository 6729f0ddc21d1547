------------------------------ MODULE TraceShip ------------------------------
(***************************************************************************)
(* traceship.Shipper (internal/traceship): the bounded queues of records   *)
(* and lines, the one batch in flight, the counters of what was lost that  *)
(* every batch carries, and the 429 backoff.  The Add methods run beside   *)
(* the flush cycle, which shipMu makes one at a time.  An item is its      *)
(* number, in the order the items were added.                              *)
(***************************************************************************)
EXTENDS Integers, Sequences, FiniteSets, FiniteSetsExt
LOCAL INSTANCE SequencesExt

CONSTANTS
    MaxPending, MaxBatchRecords, MaxBatchLines,  \* Config
    MaxBatchBytes,   \* maxBatchBytes, an ordinary item being one
    MaxBackoff,      \* maxBackoff, in flush intervals
    MaxItems,        \* bound: items added
    MaxCounted       \* bound: losses counted outside the shipper, by kind

VARIABLES
    added,      \* items added so far
    big,        \* the items no request can carry
    records, lines,                  \* the queues
    inflightRecords, inflightLines,  \* the batch on the wire
    owed,       \* dropped, shed and unparsed: what the next batch reports
    total,      \* droppedTotal, what was shed, unparsedTotal
    batch,      \* the counters the batch on the wire carries
    posting,    \* a request is on the wire
    retry,      \* until retryUntil, and backoffFailures
    fate,       \* what became of the items: committed, trimmed, and stored by the server
    told        \* what the acknowledged batches reported

shipVars == <<added, big, records, lines, inflightRecords, inflightLines, owed, total,
              batch, posting, retry, fate, told>>

Counters == {"dropped", "shed", "unparsed"}
Zero == [c \in Counters |-> 0]
Count == [Counters -> 0..(MaxItems + 3 * MaxCounted)]

ShipTypeOK ==
    /\ added \in 0..MaxItems /\ big \subseteq 1..MaxItems
    /\ \A q \in {records, lines, inflightRecords, inflightLines} : q \in Seq(1..MaxItems)
    /\ {owed, total, batch, told} \subseteq Count /\ posting \in BOOLEAN
    /\ retry \in [wait : 0..MaxBackoff, failures : 0..MaxBackoff]
    /\ fate \in [{"committed", "trimmed", "stored"} -> SUBSET (1..MaxItems)]

ShipInit ==
    /\ added = 0 /\ big = {}
    /\ records = <<>> /\ lines = <<>> /\ inflightRecords = <<>> /\ inflightLines = <<>>
    /\ owed = Zero /\ total = Zero /\ batch = Zero /\ told = Zero /\ posting = FALSE
    /\ retry = [wait |-> 0, failures |-> 0]
    /\ fate = [f \in {"committed", "trimmed", "stored"} |-> {}]

Plus(a, b) == [c \in Counters |-> a[c] + b[c]]

-----------------------------------------------------------------------------
(* trimLocked: the oldest lines first while there are as many of them as   *)
(* records, then the two in turn.                                          *)
Dropped(r, l) ==
    LET over == Max({0, Len(r) + Len(l) - MaxPending})
    IN  CHOOSE d \in [records : 0..Len(r), lines : 0..Len(l)] :
            /\ d.records + d.lines = over
            /\ d.records > 0 => Len(r) - d.records + 1 > Len(l) - d.lines
            /\ d.lines > 0 => Len(l) - d.lines + 1 >= Len(r) - d.records

trimLocked(r, l, f) ==
    LET d == Dropped(r, l)
        n == [Zero EXCEPT !.dropped = d.records + d.lines]
        gone == {r[i] : i \in 1..d.records} \cup {l[i] : i \in 1..d.lines}
    IN  /\ records' = SubSeq(r, d.records + 1, Len(r))
        /\ lines' = SubSeq(l, d.lines + 1, Len(l))
        /\ owed' = Plus(owed, n) /\ total' = Plus(total, n)
        /\ fate' = [f EXCEPT !.trimmed = @ \cup gone]

(* AddRecords and AddLines; with large, the item fits no request.          *)
Add(kind, large) ==
    /\ added < MaxItems
    /\ added' = added + 1
    /\ large => big = {}
    /\ big' = IF large THEN big \cup {added + 1} ELSE big
    /\ IF kind = "record" THEN trimLocked(Append(records, added + 1), lines, fate)
                          ELSE trimLocked(records, Append(lines, added + 1), fate)
    /\ UNCHANGED <<inflightRecords, inflightLines, batch, posting, retry, told>>

(* AddDropped, AddUnparsed and AddShed, which counts a drop as well.       *)
AddLoss(c) ==
    LET n == [x \in Counters |-> IF x = c \/ (c = "shed" /\ x = "dropped") THEN 1 ELSE 0]
    IN  /\ total[c] - (IF c = "dropped" THEN total.shed + Cardinality(fate.trimmed) ELSE 0) < MaxCounted
        /\ owed' = Plus(owed, n) /\ total' = Plus(total, n)
        /\ UNCHANGED <<added, big, records, lines, inflightRecords, inflightLines, batch, posting,
                       retry, fate, told>>

-----------------------------------------------------------------------------
size(s) == Len(s) + MaxBatchBytes * Cardinality(ToSet(s) \cap big)

(* trimToByteBudget: the longest heads that fit, and at least one item.    *)
keptRecords(n) ==
    Max({k \in 0..n : k <= 1 \/ size(SubSeq(records, 1, k)) <= MaxBatchBytes})
keptLines(n, k) ==
    Max({j \in 0..n : j = 0 \/ j + k = 1
            \/ size(SubSeq(records, 1, k) \o SubSeq(lines, 1, j)) <= MaxBatchBytes})

(* Faulty takeBatch: looks at the heads and leaves them in the queues.     *)
takeBatchPeeks ==
    LET r == keptRecords(Min({Len(records), MaxBatchRecords}))
        l == keptLines(Min({Len(lines), MaxBatchLines}), r)
    IN  /\ ~posting /\ retry.wait = 0
        /\ r + l > 0 \/ owed # Zero
        /\ posting' = TRUE /\ batch' = owed
        /\ inflightRecords' = SubSeq(records, 1, r)
        /\ inflightLines' = SubSeq(lines, 1, l)
        /\ UNCHANGED <<added, big, records, lines, owed, total, retry, fate, told>>

(* takeBatch: the heads of the queues leave them, with the counters owed.  *)
takeBatch ==
    LET r == keptRecords(Min({Len(records), MaxBatchRecords}))
        l == keptLines(Min({Len(lines), MaxBatchLines}), r)
    IN  /\ ~posting /\ retry.wait = 0
        /\ r + l > 0 \/ owed # Zero
        /\ posting' = TRUE /\ batch' = owed
        /\ inflightRecords' = SubSeq(records, 1, r) /\ records' = SubSeq(records, r + 1, Len(records))
        /\ inflightLines' = SubSeq(lines, 1, l) /\ lines' = SubSeq(lines, l + 1, Len(lines))
        /\ UNCHANGED <<added, big, owed, total, retry, fate, told>>

inflight == ToSet(inflightRecords) \cup ToSet(inflightLines)

(* commit: the counters the batch carried are owed no more.                *)
commit ==
    /\ owed' = [c \in Counters |-> Max({0, owed[c] - batch[c]})]
    /\ fate' = [fate EXCEPT !.committed = @ \cup inflight, !.stored = @ \cup inflight]
    /\ told' = Plus(told, batch)
    /\ inflightRecords' = <<>> /\ inflightLines' = <<>> /\ batch' = Zero
    /\ retry' = [wait |-> 0, failures |-> 0]
    /\ UNCHANGED <<records, lines, total>>

ShipAnswered ==
    /\ posting /\ inflight \cap big = {}
    /\ posting' = FALSE
    /\ commit
    /\ UNCHANGED <<added, big>>

(* restore: the batch goes back to the front, and what is too much is      *)
(* trimmed.  f is the items' fate before that.                             *)
restore(f) == trimLocked(inflightRecords \o records, inflightLines \o lines, f)

(* backoffFor: doubles with every 429, up to maxBackoff.                   *)
backoffFor(failures) == Min({2 ^ (failures - 1), MaxBackoff})

(* recordFailure: only a 429 makes the shipper wait, as long as            *)
(* Retry-After says or its own backoff.                                    *)
recordFailure(status, retryAfter) ==
    LET n == Min({retry.failures + 1, MaxBackoff})
    IN  retry' = IF status # 429 THEN retry
                 ELSE [failures |-> n, wait |-> IF retryAfter > 0 THEN retryAfter ELSE backoffFor(n)]

(* post fails: the request was refused, or (0) got no answer, and then the *)
(* server may have stored it.                                              *)
ShipFails(status, retryAfter, stored) ==
    /\ posting
    /\ status = 413 <=> inflight \cap big # {}
    /\ restore(IF status = 0 /\ stored THEN [fate EXCEPT !.stored = @ \cup inflight] ELSE fate)
    /\ recordFailure(status, retryAfter)
    /\ posting' = FALSE /\ batch' = Zero
    /\ inflightRecords' = <<>> /\ inflightLines' = <<>>
    /\ UNCHANGED <<added, big, told>>

Refused413 == ShipFails(413, 0, FALSE)
OtherFailure ==
    \E stored \in BOOLEAN : ShipFails(0, 0, stored) \/ \E ra \in 0..1 : ShipFails(429, ra, FALSE)

ShipTick ==
    /\ retry.wait > 0
    /\ retry' = [retry EXCEPT !.wait = @ - 1]
    /\ UNCHANGED <<added, big, records, lines, inflightRecords, inflightLines, owed, total,
                   batch, posting, fate, told>>

ShipNext ==
    \/ \E kind \in {"record", "line"}, large \in BOOLEAN : Add(kind, large)
    \/ \E c \in Counters : AddLoss(c)
    \/ takeBatch \/ ShipAnswered \/ Refused413 \/ OtherFailure \/ ShipTick

-----------------------------------------------------------------------------
Queued == ToSet(records) \cup ToSet(lines)

(* CountedOnce: every item is in exactly one of the queue, the batch on    *)
(* the wire, the shipped and the dropped, and what counts as shipped the   *)
(* server stored, whatever the Add methods trim while a request is out;    *)
(* and what the acknowledged batches reported as lost and what is still    *)
(* owed add up to what was lost, for every counter.                        *)
CountedOnce ==
    /\ 1..added = Queued \cup inflight \cup fate.committed \cup fate.trimmed
    /\ added = Len(records) + Len(lines) + Len(inflightRecords) + Len(inflightLines)
                 + Cardinality(fate.committed) + Cardinality(fate.trimmed)
    /\ fate.committed \subseteq fate.stored
    /\ \A c \in Counters : told[c] + owed[c] = total[c]
    /\ batch.shed <= batch.dropped /\ owed.shed <= owed.dropped

(* HoldsPosition: a failed batch is sent again before anything newer, so   *)
(* each queue behind its batch in flight stays in the order of arrival.    *)
HoldsPosition ==
    \A s \in {inflightRecords \o records, inflightLines \o lines} :
        \A i, j \in DOMAIN s : i < j => s[i] < s[j]

Settled == Queued \cup inflight = {} /\ owed = Zero

(* Drains: once the server takes every request, the queues empty and every *)
(* loss gets reported; a 429 only delays it.                               *)
Drains == <>[][~(Refused413 \/ OtherFailure)]_shipVars => <>[]Settled

(* OversizedDoesNotWedge: "a single item that cannot fit on its own is     *)
(* still sent alone, so the server rejects one item rather than the queue  *)
(* wedging on it": a server that refuses only such items gets the others.  *)
OversizedDoesNotWedge ==
    <>[][~OtherFailure]_shipVars => <>[](Queued \cup inflight \subseteq big)
=============================================================================
