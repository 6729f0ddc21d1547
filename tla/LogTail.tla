------------------------------- MODULE LogTail -------------------------------
(***************************************************************************)
(* One log source of the agent: the tailer (internal/logtail/logtail.go),  *)
(* the goroutine that ships what it reads and checkpoints                  *)
(* (cmd/lattice-agent/logtail.go: run, saveLogCheckpoint), and the         *)
(* manager's reconcile, which cancels a goroutine and starts another       *)
(* without waiting for it.  The agent may crash between any two steps; the *)
(* file may be truncated in place or replaced at any time.  A line is its  *)
(* number among all lines ever written, an offset counts lines.            *)
(***************************************************************************)
EXTENDS Integers, Sequences, FiniteSets, FiniteSetsExt
LOCAL INSTANCE SequencesExt

CONSTANTS
    Tailers,             \* goroutines that may overlap
    LogTailMaxPending,   \* logTailMaxPending
    MaxReadLines,        \* defaultMaxReadBytes, in lines
    BatchLines,          \* MaxBatchLines
    MaxLogLines, MaxTurns   \* bounds: lines written; truncations and rotations

VARIABLES
    file,       \* the file at the path: base (the last line before it), size, ino; cuts its truncations
    old,        \* the file it replaced, which an open handle may still read
    ckpt,       \* the set of checkpoints on disk: none or one
    assigned,   \* the source is in m.active, tailed by this goroutine, or 0
    tail,       \* the goroutines
    stored,     \* lines the server has or was told were dropped
    from,       \* lines up to here were in the file when the source started at its end
    excused     \* lines a truncation, a rotation or a stale offset put out of reach

tailVars == <<file, old, ckpt, assigned, tail, stored, from, excused>>

Lines == 1..MaxLogLines
In(f) == (f.base + 1)..(f.base + f.size)
LogFiles == [base : 0..MaxLogLines, size : 0..MaxLogLines, ino : 0..MaxTurns, cuts : 0..MaxTurns]
Gone == [at |-> "gone", live |-> FALSE, open |-> FALSE, off |-> 0, ino |-> 0, cuts |-> 0,
         pending |-> <<>>, dropped |-> {}]

TailTypeOK ==
    /\ {file, old} \subseteq LogFiles /\ assigned \in Tailers \cup {0} /\ Cardinality(ckpt) <= 1
    /\ \A c \in ckpt : c.off \in 0..MaxLogLines
    /\ {stored, excused} \subseteq SUBSET Lines /\ from \in 0..MaxLogLines
    /\ \A g \in Tailers :
        /\ tail[g].at \in {"gone", "start", "poll", "ship", "save"}
        /\ tail[g].pending \in Seq(Lines) /\ Len(tail[g].pending) <= LogTailMaxPending
        /\ tail[g].dropped \subseteq Lines /\ tail[g].off \in -1..MaxLogLines

TailInit ==
    /\ file \in [base : {0}, size : {0, 1}, ino : {0}, cuts : {0}] /\ old = file
    /\ ckpt = {} /\ assigned = 0 /\ tail = [g \in Tailers |-> Gone]
    /\ stored = {} /\ from = file.size /\ excused = {}

-----------------------------------------------------------------------------
(* The program that writes the log: a line more, a truncation in place     *)
(* (copytruncate), a new file under the path.                              *)
Appends ==
    /\ file.base + file.size < MaxLogLines
    /\ file' = [file EXCEPT !.size = @ + 1]
    /\ UNCHANGED <<old, ckpt, assigned, tail, stored, from, excused>>

Truncates ==
    /\ file.cuts + file.ino < MaxTurns /\ file.size > 0
    /\ file' = [file EXCEPT !.base = @ + file.size, !.size = 0, !.cuts = @ + 1]
    /\ excused' = excused \cup In(file)
    /\ UNCHANGED <<old, ckpt, assigned, tail, stored, from>>

Rotates ==
    /\ file.cuts + file.ino < MaxTurns /\ file.size > 0
    /\ file' = [file EXCEPT !.base = @ + file.size, !.size = 0, !.ino = @ + 1] /\ old' = file
    /\ excused' = excused \cup In(file)
    /\ UNCHANGED <<ckpt, assigned, tail, stored, from>>

-----------------------------------------------------------------------------
(* reconcile: the source is new, changed or gone.                          *)
reconcile(g, on) ==
    /\ tail' = [h \in Tailers |->
            IF on /\ h = g THEN [Gone EXCEPT !.at = "start", !.live = TRUE]
            ELSE IF h = assigned THEN [tail[h] EXCEPT !.live = FALSE] ELSE tail[h]]
    /\ IF on THEN tail[g].at = "gone" /\ assigned' = g ELSE assigned # 0 /\ assigned' = 0
    /\ UNCHANGED <<file, old, ckpt, stored, from, excused>>

(* newSourceTailer: a checkpoint is resumed; without one, the first        *)
(* ensureOpen starts at the end of the file.                               *)
newSourceTailer(g) ==
    /\ tail[g].at = "start"
    /\ \/ \E c \in ckpt :
            tail' = [tail EXCEPT ![g] = [@ EXCEPT !.at = "poll", !.off = c.off, !.ino = c.ino, !.cuts = c.cuts]]
       \/ ckpt = {} /\ tail' = [tail EXCEPT ![g] = [@ EXCEPT !.at = "poll", !.off = -1]]
    /\ UNCHANGED <<file, old, ckpt, assigned, stored, from, excused>>

(* The lines a stale offset passes over: the file it measured is another.  *)
Passed(t, off) == IF t.ino = file.ino /\ t.cuts = file.cuts THEN {} ELSE (file.base + 1)..(file.base + off)

(* ensureOpen: the offset to read from, and the handle.                    *)
ensureOpen(t) ==
    LET off == IF t.off = -1 THEN file.size ELSE IF t.off > file.size THEN 0 ELSE t.off
    IN  IF t.open THEN t ELSE [t EXCEPT !.open = TRUE, !.off = off, !.ino = file.ino]

(* Faulty Poll: a handle once open is read for ever.                       *)
handleForEver(t) == [t EXCEPT !.cuts = file.cuts]

(* Poll's last part: the path names another file now, so it is opened from *)
(* its start at the next poll.                                             *)
handle(t) ==
    IF t.ino = file.ino THEN [t EXCEPT !.cuts = file.cuts]
    ELSE [t EXCEPT !.open = FALSE, !.off = 0, !.ino = file.ino, !.cuts = file.cuts]

(* run, up to the shipping: Poll (truncation, readLines, rotation), then   *)
(* the bound on what is pending, which drops the oldest.                   *)
Poll(g) ==
    LET t0 == ensureOpen(tail[g])
        f == IF t0.ino = file.ino THEN file ELSE old
        t == IF f.size < t0.off THEN [t0 EXCEPT !.off = 0] ELSE t0
        n == Min({f.size - t.off, MaxReadLines})
        all == tail[g].pending \o [i \in 1..n |-> f.base + t.off + i]
        over == Max({0, Len(all) - LogTailMaxPending})
    IN  /\ tail[g].at = "poll" /\ tail[g].live
        /\ tail' = [tail EXCEPT ![g] = [handle([t EXCEPT !.off = @ + n]) EXCEPT
                        !.pending = SubSeq(all, over + 1, Len(all)),
                        !.dropped = @ \cup ToSet(SubSeq(all, 1, over)),
                        !.at = IF all = <<>> THEN "poll" ELSE "ship"]]
        /\ from' = IF tail[g].off = -1 THEN file.base + file.size ELSE from
        /\ excused' = excused \cup (IF f = file /\ tail[g].off # -1 THEN Passed(tail[g], t.off) ELSE {})
        /\ UNCHANGED <<file, old, ckpt, assigned, stored>>

(* run: one batch is posted.  A batch the server took may look failed; a   *)
(* failure holds the position until the next tick.                         *)
Ship(g, took, ok) ==
    LET n == Min({Len(tail[g].pending), BatchLines})
        batch == ToSet(SubSeq(tail[g].pending, 1, n))
        rest == SubSeq(tail[g].pending, n + 1, Len(tail[g].pending))
    IN  /\ tail[g].at = "ship" /\ (ok => took)
        /\ stored' = IF took THEN stored \cup batch \cup tail[g].dropped ELSE stored
        /\ tail' = [tail EXCEPT ![g] =
                IF ~ok THEN [@ EXCEPT !.at = "poll"]
                ELSE [@ EXCEPT !.dropped = {}, !.pending = rest, !.at = IF rest = <<>> THEN "save" ELSE "ship"]]
        /\ UNCHANGED <<file, old, ckpt, assigned, from, excused>>

(* Faulty checkpoint: saved when a poll has read, before the shipping.     *)
saveLogCheckpointEarly(g) ==
    /\ tail[g].at \in {"ship", "save"}
    /\ ckpt' = {[off |-> tail[g].off, ino |-> tail[g].ino, cuts |-> tail[g].cuts]}
    /\ tail' = [tail EXCEPT ![g].at = IF tail[g].pending = <<>> THEN "poll" ELSE "ship"]
    /\ UNCHANGED <<file, old, assigned, stored, from, excused>>

(* saveLogCheckpoint, once nothing is pending: atomic (temporary file and  *)
(* rename).  The incarnations are kept only to tell which file the offset  *)
(* measured; the code cannot, and resumes it all the same.                 *)
saveLogCheckpoint(g) ==
    /\ tail[g].at = "save"
    /\ ckpt' = {[off |-> tail[g].off, ino |-> tail[g].ino, cuts |-> tail[g].cuts]}
    /\ tail' = [tail EXCEPT ![g].at = "poll"]
    /\ UNCHANGED <<file, old, assigned, stored, from, excused>>

(* The cancelled goroutine returns at its next select.                     *)
TailEnds(g) ==
    /\ tail[g].at = "poll" /\ ~tail[g].live
    /\ tail' = [tail EXCEPT ![g] = Gone]
    /\ UNCHANGED <<file, old, ckpt, assigned, stored, from, excused>>

(* The agent crashes; the manager starts empty.                            *)
AgentCrashes ==
    /\ tail' = [g \in Tailers |-> Gone] /\ assigned' = 0
    /\ UNCHANGED <<file, old, ckpt, stored, from, excused>>

Works(g) == newSourceTailer(g) \/ Poll(g) \/ saveLogCheckpoint(g) \/ TailEnds(g)

TailNext ==
    \/ Appends \/ Truncates \/ Rotates \/ AgentCrashes
    \/ \E g \in Tailers : (\E on \in BOOLEAN : reconcile(g, on)) \/ Works(g)
                          \/ \E took, ok \in BOOLEAN : Ship(g, took, ok)

-----------------------------------------------------------------------------
Owed == ((from + 1)..(file.base + file.size)) \ excused

(* NoLineSkipped: the checkpoint never passes a line of the source that    *)
(* the server neither has nor was told of, so a restart loses nothing that *)
(* was held back, even when a cancelled goroutine saves its own checkpoint *)
(* after its successor's.                                                  *)
NoLineSkipped ==
    \A c \in ckpt : (c.ino = file.ino /\ c.cuts = file.cuts) =>
        (Owed \cap ((file.base + 1)..(file.base + c.off))) \subseteq stored

(* NothingSlips: what the running goroutine has read past is on the        *)
(* server, pending, or counted as dropped.                                 *)
NothingSlips ==
    \A g \in Tailers : LET t == tail[g] IN
        (t.at \in {"poll", "ship", "save"} /\ t.open /\ t.ino = file.ino /\ t.cuts = file.cuts) =>
            (Owed \cap ((file.base + 1)..(file.base + t.off))) 
                \subseteq (stored \cup ToSet(t.pending) \cup t.dropped)

(* LogFollowed: while the source stays assigned and the server takes       *)
(* batches, every line of the file reaches the server or its count of      *)
(* dropped lines, across truncations and rotations.                        *)
LogFollowed ==
    (/\ <>[][~AgentCrashes]_tailVars /\ <>[](assigned # 0)
     /\ <>[][\A g \in Tailers, on \in BOOLEAN : ~reconcile(g, on)]_tailVars
     /\ <>[][\A g \in Tailers : tail[g].at = "ship" => tail'[g].at # "poll"]_tailVars)
        => <>[](Owed \cap In(file) \subseteq stored)
=============================================================================
