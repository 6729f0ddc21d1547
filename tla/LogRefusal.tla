----------------------------- MODULE LogRefusal ----------------------------
(***************************************************************************)
(* cmd/lattice-agent/logtail.go and logtail_policy.go: which log files the *)
(* node lets itself tail.  The paths of a source are judged when it is     *)
(* assigned and again at every open, while links and directories change    *)
(* underneath, and the refusals are kept for the operator to read.  One    *)
(* source, with the tailers of its past assignments.                       *)
(***************************************************************************)
EXTENDS Integers, FiniteSets, Sequences
LOCAL INSTANCE SequencesExt

CONSTANTS
    LogBase,      \* policy.base: the built-in prefix, as a sequence of names
    LogAllow,     \* policy.allow: the prefixes the node lists
    DenyFiles,    \* defaultLogPathDeny: files, relative to the base
    DenyDirs,     \* and directories
    Paths,        \* the paths the source may be given
    Leads,        \* the files each may lead to over time, as [path, regular]
    OffLimits,    \* the files the node means to leave out
    LogTailers    \* names of goroutines, used again once they end

NoFile == [path |-> <<>>, regular |-> FALSE]
Refusals == {"outside", "sensitive", "irregular"}

(* An entry names path or a directory that holds it.                       *)
listed(path, entries) == \E e \in entries : IsPrefix(e, path)

deniedByDefault(rel) == rel \in DenyFiles \/ \E d \in DenyDirs : IsStrictPrefix(d, rel)

(* Why the node refuses path, or ok.  Inside the base the built-in denials *)
(* hold unless the node lists an entry strictly inside it.                 *)
judge(path) ==
    IF IsStrictPrefix(LogBase, path)
    THEN IF deniedByDefault(SubSeq(path, Len(LogBase) + 1, Len(path)))
            /\ ~listed(path, {e \in LogAllow : IsStrictPrefix(LogBase, e)}) THEN "sensitive" ELSE "ok"
    ELSE IF listed(path, LogAllow) THEN "ok" ELSE "outside"

(* resolve and the checks of the mode: the verdict on path if it leads to  *)
(* the file f.                                                             *)
verdict(path, f) ==
    IF judge(path) # "ok" THEN judge(path)
    ELSE IF f = NoFile THEN "absent"
    ELSE IF judge(f.path) # "ok" THEN judge(f.path)
    ELSE IF f.regular THEN "ok" ELSE "irregular"

NoPath == <<>>
NoRefusal == [path |-> NoPath, reason |-> "none", atOpen |-> FALSE]
TailEnded == [at |-> "gone", path |-> NoPath, live |-> FALSE, open |-> FALSE, found |-> NoFile]

VARIABLES
    fs,           \* the file each path leads to now
    source,       \* the path the server assigns
    tailed,       \* m.active: the tailer of the source, 0 for none
    tailers,      \* the goroutines: place, path, not cancelled, file open, what the last open found
    refused,      \* m.refused of the source
    strayed       \* a file outside the allowlist was tailed

refusalVars == <<fs, source, tailed, tailers, refused, strayed>>

RefusalTypeOK ==
    /\ \A p \in Paths : fs[p] \in Leads[p] \cup {NoFile}
    /\ source \in Paths \cup {NoPath} /\ tailed \in LogTailers \cup {0} /\ strayed \in BOOLEAN
    /\ refused \in {NoRefusal} \cup [path : Paths, reason : Refusals, atOpen : BOOLEAN]
    /\ \A g \in LogTailers :
        /\ tailers[g].at \in {"gone", "poll", "opening", "judging", "opened", "refused", "noting"}
        /\ tailers[g].path \in Paths \cup {NoPath} /\ tailers[g].live \in BOOLEAN
        /\ tailers[g].open \in BOOLEAN /\ tailers[g].found \in {NoFile} \cup UNION {Leads[p] : p \in Paths}

RefusalInit ==
    /\ fs = [p \in Paths |-> NoFile] /\ source = NoPath /\ tailed = 0 /\ strayed = FALSE
    /\ tailers = [g \in LogTailers |-> TailEnded] /\ refused = NoRefusal

-----------------------------------------------------------------------------
(* Links, directories and files change; the server assigns another path.   *)
FsChanges(p, f) ==
    /\ fs' = [fs EXCEPT ![p] = f] /\ fs' # fs /\ UNCHANGED <<source, tailed, tailers, refused, strayed>>

Assigned(p) ==
    /\ p # source /\ source' = p /\ UNCHANGED <<fs, tailed, tailers, refused, strayed>>

(* noteRefusedLocked: the record of r after one more refusal.              *)
noteRefused(r, path, reason, atOpen) ==
    IF r.path = path /\ r.reason = reason THEN r ELSE [path |-> path, reason |-> reason, atOpen |-> atOpen]

(* clearOpenRefusal: the tailer of path opened cleanly, or stops.          *)
clearOpenRefusal(path) == IF refused.atOpen /\ refused.path = path THEN NoRefusal ELSE refused

(* The record after reconcile judged path p: refused, or let through.      *)
judged(r, p) ==
    IF verdict(p, fs[p]) \in Refusals THEN noteRefused(r, p, verdict(p, fs[p]), FALSE)
    ELSE IF r.atOpen THEN r ELSE NoRefusal

(* reconcile, with other caps for the source if changed: stops the tailer  *)
(* of another path or of a path now refused, and starts one.               *)
reconcileSource(changed) ==
    LET mine == tailed # 0
        kept == mine /\ tailers[tailed].path = source /\ ~changed /\ verdict(source, fs[source]) \notin Refusals
        r == IF refused.path = source THEN refused ELSE NoRefusal
        cancelled == [g \in LogTailers |->
            IF g = tailed /\ ~kept THEN [tailers[g] EXCEPT !.live = FALSE] ELSE tailers[g]]
        Free == {g \in LogTailers : tailers[g].at = "gone"}
    IN  /\ refused' = IF source = NoPath THEN r ELSE judged(r, source)
        /\ IF source = NoPath \/ verdict(source, fs[source]) \in Refusals
           THEN tailers' = cancelled /\ tailed' = 0
           ELSE IF kept THEN UNCHANGED <<tailers, tailed>>
           ELSE \E g \in Free :
                  /\ tailed' = g
                  /\ tailers' = [cancelled EXCEPT ![g] =
                                   [TailEnded EXCEPT !.at = "poll", !.path = source, !.live = TRUE]]
        /\ UNCHANGED <<fs, source, strayed>>

-----------------------------------------------------------------------------
Goes(g, t) == tailers' = [tailers EXCEPT ![g] = t] /\ UNCHANGED <<fs, source, tailed>>

(* policy.open resolves the path and judges it, as given and as resolved;  *)
(* the mode is the descriptor's to tell.                                   *)
Resolves(g) ==
    LET t == tailers[g] IN
    /\ t.at = "poll" /\ t.live /\ ~t.open /\ verdict(t.path, fs[t.path]) # "absent"
    /\ Goes(g, [t EXCEPT !.at = IF verdict(t.path, fs[t.path]) \in {"outside", "sensitive"}
                                THEN "refused" ELSE "opening",
                         !.found = fs[t.path]])
    /\ UNCHANGED <<refused, strayed>>

(* It opens the resolved name, which may lead elsewhere by now.            *)
Opens(g) ==
    LET t == tailers[g] IN
    /\ t.at = "opening"
    /\ Goes(g, [t EXCEPT !.at = IF fs[t.path] = NoFile THEN "poll" ELSE "judging", !.found = fs[t.path]])
    /\ UNCHANGED <<refused, strayed>>

(* Faulty open: only the mode of the descriptor is looked at.              *)
JudgesMode(g) ==
    LET t == tailers[g] IN
    /\ t.at = "judging"
    /\ Goes(g, [t EXCEPT !.at = IF t.found.regular THEN "opened" ELSE "refused", !.open = t.found.regular])
    /\ strayed' = (strayed \/ (t.found \in OffLimits /\ tailers'[g].open)) /\ UNCHANGED refused

(* It judges the descriptor it got, by its mode and by its name in /proc.  *)
Judges(g) ==
    LET t == tailers[g] IN
    /\ t.at = "judging"
    /\ LET ok == t.found.regular /\ judge(t.found.path) = "ok"
       IN  Goes(g, [t EXCEPT !.at = IF ok THEN "opened" ELSE "refused", !.open = ok])
    /\ strayed' = (strayed \/ (t.found \in OffLimits /\ tailers'[g].open)) /\ UNCHANGED refused

(* Poll returns lines.                                                     *)
PollsWell(g) ==
    LET t == tailers[g] IN
    /\ t.at = "opened" \/ (t.at = "poll" /\ t.live /\ t.open /\ clearOpenRefusal(t.path) # refused)
    /\ Goes(g, [t EXCEPT !.at = "poll"]) /\ refused' = clearOpenRefusal(t.path) /\ UNCHANGED strayed

(* The file is rotated, so the tailer opens its path again.                *)
RotatedAway(g) ==
    /\ tailers[g].at = "poll" /\ tailers[g].open /\ Goes(g, [tailers[g] EXCEPT !.open = FALSE])
    /\ UNCHANGED <<refused, strayed>>

(* Poll returned a refusal: run looks at ctx, then takes the lock.         *)
LooksAtCtx(g) ==
    /\ tailers[g].at = "refused"
    /\ Goes(g, [tailers[g] EXCEPT !.at = IF tailers[g].live THEN "noting" ELSE "poll"])
    /\ UNCHANGED <<refused, strayed>>

Notes(g) ==
    LET t == tailers[g] IN
    /\ t.at = "noting" /\ Goes(g, [t EXCEPT !.at = "poll"])
    /\ refused' = noteRefused(refused, t.path, verdict(t.path, t.found), TRUE) /\ UNCHANGED strayed

(* A cancelled tailer ends with its deferred clear.                        *)
RunEnds(g) ==
    /\ tailers[g].at = "poll" /\ ~tailers[g].live /\ Goes(g, TailEnded)
    /\ refused' = clearOpenRefusal(tailers[g].path) /\ UNCHANGED strayed

Tails(g) == Resolves(g) \/ Opens(g) \/ Judges(g) \/ PollsWell(g) \/ LooksAtCtx(g) \/ Notes(g) \/ RunEnds(g)

RefusalNext ==
    \/ \E p \in Paths : \E f \in Leads[p] \cup {NoFile} : FsChanges(p, f)
    \/ \E p \in Paths \cup {NoPath} : Assigned(p)
    \/ \E changed \in BOOLEAN : reconcileSource(changed)
    \/ \E g \in LogTailers : Tails(g) \/ RotatedAway(g)

-----------------------------------------------------------------------------
(* TailsAllowed: a path whose target is swapped between the judgement and  *)
(* the open is never tailed outside the allowlist.                         *)
TailsAllowed == ~strayed

(* RefusalHasOwner: a refusal met at an open is on record only while a     *)
(* tailer lives that will clear it ("which only that tailer can clear"),   *)
(* though the tailer may note it after it was cancelled.                   *)
RefusalHasOwner ==
    refused.atOpen => \E g \in LogTailers : tailers[g].at # "gone" /\ tailers[g].path = refused.path

(* RefusalShown: a source that stays refused is reported as such, whatever *)
(* tailers of the past still clear.                                        *)
RefusalShown ==
    \A p \in Paths : \A f \in {x \in Leads[p] : verdict(p, x) \in Refusals} :
        <>[](source = p /\ fs[p] = f) => <>[](refused.path = p)

(* RefusalCleared: a source that stays allowed is not reported for ever.   *)
RefusalCleared ==
    \A p \in Paths :
        /\ <>[][\A c \in BOOLEAN : ~(reconcileSource(c) /\ tailers' # tailers)]_refusalVars
        /\ <>[](source = p /\ verdict(p, fs[p]) = "ok")
        => <>[](refused = NoRefusal)
=============================================================================
