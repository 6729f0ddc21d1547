------------------------------- MODULE Prefetch -------------------------------
(***************************************************************************)
(* The agent update prefetcher (internal/prefetch): the file of the node's *)
(* open update is fetched in the background, by one goroutine per run,     *)
(* while config pulls (Update), the task worker (Hold and Release around a *)
(* batch) and shutdown (Close) go on.  p.mu makes each critical section    *)
(* one action; a goroutine's work on its file is several.                  *)
(***************************************************************************)
EXTENDS Naturals, FiniteSetsExt

CONSTANTS
    Targets,        \* what a config may name: an approval of a file
    Digests,        \* the files
    served,         \* the file of a target (servedDigest)
    keeps,          \* the files its digests keep from pruning
    Keeps,          \* the keep lists a config may carry
    Valid,          \* targets validateTarget accepts
    Fetchable,      \* those no later check of kickLocked refuses either
    Size,           \* size of a file, in pieces a read may deliver
    MinProgress,    \* pieces that count as progress (minProgress)
    FirstBackoff, MaxBackoff, ProgressRetry,    \* in ticks of the clock
    ShiftLimit,     \* failures from which the backoff is maxBackoff
    Honest,         \* the server sends only right pieces
    Runs            \* bound: fetch goroutines that have not returned

None == "none"

ASSUME PrefetchAssumption ==
    /\ Fetchable \subseteq Valid /\ Valid \subseteq Targets
    /\ None \notin Targets \cup Digests \cup Runs
    /\ served \in [Targets -> Digests]
    /\ keeps \in [Targets -> SUBSET Digests] /\ \A t \in Targets : served[t] \in keeps[t]
    /\ Keeps \subseteq SUBSET Digests /\ {} \in Keeps
    /\ Honest \in BOOLEAN
    /\ {Size, MinProgress, FirstBackoff, MaxBackoff, ProgressRetry} \subseteq Nat \ {0}
    /\ ShiftLimit \in Nat

VARIABLES
    p,              \* the Prefetcher's fields
    gor,            \* the fetch goroutines
    files,          \* the downloads beside the binary
    holder, waits,  \* the worker and the shutdown, and the run whose done they await
    stale           \* history: no config pull since the last batch ended was acted on

prefetchVars == <<p, gor, files, holder, waits, stale>>

Holders == {"worker", "shutdown"}

(* A file: how much of it is there, whether all of that is right, and      *)
(* whether p.verified still is its size and modification time.             *)
File(n, good) == [len |-> n, good |-> good, stamped |-> FALSE]
NoFile == File(0, FALSE)
EmptyFile == File(0, TRUE)
Downloads == [len : 0..(Size + 1), good : BOOLEAN, stamped : BOOLEAN]
Whole(f) == f.len = Size /\ f.good

Configs == [target : Targets \cup {None}, keep : Keeps]
NoConfig == [target |-> None, keep |-> {}]

Prefetcher ==
    [allowed : BOOLEAN, known : BOOLEAN, cfg : Configs, held : 0..2, closed : BOOLEAN,
     run : Runs \cup {None}, key : Targets \cup {None},
     state : {"", "waiting", "refused", "fetching", "complete"},
     failures : 0..ShiftLimit, retry : 0..Max({MaxBackoff, ProgressRetry})]

(* A goroutine: where it is, the key of its run, whether its context is    *)
(* cancelled, the bytes it counts (and counted before the download), and   *)
(* what its attempt returned.                                              *)
Gone == [pc |-> "gone", key |-> None, cancelled |-> FALSE, have |-> 0, before |-> 0,
         result |-> "waiting", gained |-> 0]
Goroutines ==
    [pc : {"gone", "attempt", "opened", "request", "body", "returned", "closing"},
     key : Targets \cup {None}, cancelled : BOOLEAN, have : 0..Size, before : 0..Size,
     result : {"complete", "refused", "waiting"}, gained : 0..Size]

FileOf(r) == served[gor[r].key]

PrefetchTypeOK ==
    /\ p \in Prefetcher
    /\ gor \in [Runs -> Goroutines]
    /\ files \in [Digests -> Downloads]
    /\ holder \in [Holders -> {"out", "closing", "waiting", "in"}]
    /\ waits \in [Holders -> Runs \cup {None}]
    /\ stale \in BOOLEAN

(* The agent runs as root and does not veto prefetch, or refuses all of    *)
(* it; earlier agents may have left files.                                 *)
PrefetchInit ==
    /\ \E allowed \in BOOLEAN :
        p = [allowed |-> allowed, known |-> FALSE, cfg |-> NoConfig, held |-> 0,
             closed |-> FALSE, run |-> None, key |-> None, state |-> "", failures |-> 0,
             retry |-> 0]
    /\ gor = [r \in Runs |-> Gone]
    /\ files \in [Digests -> {NoFile, File(Size + 1, FALSE)}]
    /\ holder = [h \in Holders |-> "out"]
    /\ waits = [h \in Holders |-> None]
    /\ stale = FALSE

-----------------------------------------------------------------------------
(* kickLocked on fields q, goroutines g and files f: what its caller made  *)
(* of them in the same critical section.                                   *)

keyLocked(q) == IF q.known THEN q.cfg.target ELSE None

(* Another file is named: nothing recorded of the last one is about it.    *)
Keyed(q) ==
    IF keyLocked(q) = q.key THEN q
    ELSE [q EXCEPT !.key = keyLocked(q), !.state = "", !.failures = 0, !.retry = 0]

Leave(q, g, f) == p' = q /\ gor' = g /\ files' = f

(* pruneLocked: removing a file may fail, and so may reading the folder.   *)
Pruned(q, f) ==
    LET kept == q.cfg.keep \cup (IF q.cfg.target \in Valid THEN keeps[q.cfg.target] ELSE {})
    IN  {[d \in Digests |-> IF d \in gone THEN NoFile ELSE f[d]] :
            gone \in SUBSET (Digests \ kept)}

Launch(q, g, f) ==
    \E r \in {x \in Runs : g[x].pc = "gone"} :
        Leave([q EXCEPT !.run = r, !.state = "fetching"],
              [g EXCEPT ![r] = [Gone EXCEPT !.pc = "attempt", !.key = q.key]], f)

(* Faulty: a refusal, of a full disk say, is never tried again.            *)
FetchRefusedIsFinal(q, g, f) ==
    LET settled == q.state = "complete" /\ f[served[q.key]].stamped
    IN  \/ (settled \/ q.retry > 0 \/ q.state = "refused") /\ Leave(q, g, f)
        \/ ~settled /\ q.retry = 0 /\ q.state # "refused" /\ Launch(q, g, f)

(* The target passed every check: keep a complete file, wait for retryAt,  *)
(* or start a run.                                                         *)
Fetch(q, g, f) ==
    LET settled == q.state = "complete" /\ f[served[q.key]].stamped
    IN  \/ (settled \/ q.retry > 0) /\ Leave(q, g, f)
        \/ ~settled /\ q.retry = 0 /\ Launch(q, g, f)

Decide(q, g, f) ==
    LET t == q.cfg.target
        refused == IF t = None THEN q ELSE [q EXCEPT !.state = "refused"]
    IN  \/ ~q.known /\ Leave(q, g, f)
        \/ q.known /\ ~q.allowed /\ Leave(refused, g, f)
        \/ q.known /\ q.allowed /\ \E secure \in BOOLEAN :
            \E left \in IF secure THEN Pruned(q, f) ELSE {f} :
                IF t \in Fetchable /\ secure THEN Fetch(q, g, left) ELSE Leave(refused, g, left)

(* Faulty kick: holds only keep a run from starting.                       *)
kickLockedHeldPrunes(q, g, f) ==
    \/ /\ q.closed \/ q.held > 0
       /\ \E left \in Pruned(q, f) : Leave(q, g, left)
    \/ /\ ~q.closed /\ q.held = 0 /\ q.run # None
       /\ Leave(q, [g EXCEPT ![q.run].cancelled = @ \/ g[q.run].key # keyLocked(q)], f)
    \/ /\ ~q.closed /\ q.held = 0 /\ q.run = None
       /\ Decide(Keyed(q), g, f)

kickLocked(q, g, f) ==
    \/ /\ q.closed \/ q.held > 0
       /\ Leave(q, g, f)
    \/ /\ ~q.closed /\ q.held = 0 /\ q.run # None
       /\ Leave(q, [g EXCEPT ![q.run].cancelled = @ \/ g[q.run].key # keyLocked(q)], f)
    \/ /\ ~q.closed /\ q.held = 0 /\ q.run = None
       /\ Decide(Keyed(q), g, f)

(* The main loop applies a config pull; it ends before Close.              *)
Update ==
    /\ holder["shutdown"] = "out"
    /\ \E known \in BOOLEAN, c \in Configs :
        /\ ~known => c = NoConfig
        /\ kickLocked([p EXCEPT !.known = known, !.cfg = c], gor, files)
    /\ stale' = (stale /\ p.held > 0)
    /\ UNCHANGED <<holder, waits>>

-----------------------------------------------------------------------------
(* Hold, Release and Close.  The worker holds for a batch; the shutdown    *)
(* closes and holds for good.                                              *)

CloseStart ==
    /\ holder["shutdown"] = "out"
    /\ holder' = [holder EXCEPT !["shutdown"] = "closing"]
    /\ p' = [p EXCEPT !.closed = TRUE]
    /\ UNCHANGED <<gor, files, waits, stale>>

Hold(h) ==
    /\ holder[h] = IF h = "shutdown" THEN "closing" ELSE "out"
    /\ p' = [p EXCEPT !.held = @ + 1]
    /\ gor' = [r \in Runs |-> IF r = p.run THEN [gor[r] EXCEPT !.cancelled = TRUE] ELSE gor[r]]
    /\ holder' = [holder EXCEPT ![h] = "waiting"]
    /\ waits' = [waits EXCEPT ![h] = p.run]
    /\ UNCHANGED <<files, stale>>

HoldReturn(h) ==
    /\ holder[h] = "waiting"
    /\ waits[h] # None => gor[waits[h]].pc = "gone"
    /\ holder' = [holder EXCEPT ![h] = "in"]
    /\ waits' = [waits EXCEPT ![h] = None]
    /\ UNCHANGED <<p, gor, files, stale>>

(* The tasks of a batch; an update's script continues, installs, replaces  *)
(* or removes downloads.                                                   *)
TaskTouches ==
    /\ holder["worker"] = "in"
    /\ \E d \in Digests :
        \E f \in {NoFile, File(1, TRUE), File(Size, FALSE)} :
            files' = [files EXCEPT ![d] = f]
    /\ UNCHANGED <<p, gor, holder, waits, stale>>

Release ==
    /\ holder["worker"] = "in"
    /\ holder' = [holder EXCEPT !["worker"] = "out"]
    /\ p' = [p EXCEPT !.held = IF @ > 0 THEN @ - 1 ELSE @]
    /\ stale' = TRUE
    /\ UNCHANGED <<gor, files, waits>>

(* Time passes towards retryAt.                                            *)
Tick ==
    /\ p.retry > 0
    /\ p' = [p EXCEPT !.retry = @ - 1]
    /\ UNCHANGED <<gor, files, holder, waits, stale>>

-----------------------------------------------------------------------------
(* attempt and download, by goroutine r on its file.                       *)

Step(r, g) == gor' = [gor EXCEPT ![r] = g] /\ UNCHANGED <<p, holder, waits, stale>>
Return(r, result, gained) ==
    Step(r, [gor[r] EXCEPT !.pc = "returned", !.result = result, !.gained = gained,
                           !.have = 0, !.before = 0])
(* A file that lost its name is written without effect on the directory.   *)
Write(r, f) == files' = [files EXCEPT ![FileOf(r)] = IF @ = NoFile THEN NoFile ELSE f]

(* A file is opened as it is or created; nothing but regular files of the  *)
(* agent's user is assumed to stand at its name.                           *)
openPartial(f) == IF f = NoFile THEN EmptyFile ELSE f

(* The disk is checked, then the file is opened.                           *)
AttemptOpen(r) ==
    /\ gor[r].pc = "attempt"
    /\ \/ files[FileOf(r)].len < Size /\ Return(r, "refused", 0) /\ UNCHANGED files
       \/ Return(r, "waiting", 0) /\ UNCHANGED files
       \/ /\ Step(r, [gor[r] EXCEPT !.pc = "opened"])
          /\ files' = [files EXCEPT ![FileOf(r)] = openPartial(@)]

(* Faulty: a kept file of full length is not held to its digest.           *)
AttemptKeptByLength(r) ==
    LET f == files[FileOf(r)] IN
    /\ gor[r].pc = "opened"
    /\ \/ f.len = Size /\ Return(r, "complete", 0) /\ UNCHANGED files
       \/ /\ f.len > Size
          /\ Step(r, [gor[r] EXCEPT !.pc = "request", !.have = 0, !.before = 0])
          /\ Write(r, EmptyFile)
       \/ /\ f.len < Size
          /\ Step(r, [gor[r] EXCEPT !.pc = "request", !.have = f.len, !.before = f.len])
          /\ UNCHANGED files

(* What was kept: too long or wrong is truncated, whole is complete.       *)
AttemptKept(r) ==
    LET f == files[FileOf(r)] IN
    /\ gor[r].pc = "opened"
    /\ \/ f.len >= Size /\ Return(r, "waiting", 0) /\ UNCHANGED files
       \/ Whole(f) /\ Return(r, "complete", 0) /\ UNCHANGED files
       \/ /\ f.len > Size \/ (f.len = Size /\ ~f.good)
          /\ Step(r, [gor[r] EXCEPT !.pc = "request", !.have = 0, !.before = 0])
          /\ Write(r, EmptyFile)
       \/ /\ f.len < Size
          /\ Step(r, [gor[r] EXCEPT !.pc = "request", !.have = f.len, !.before = f.len])
          /\ UNCHANGED files

(* The request: refused or failed; the rest of the file; or all of it, in  *)
(* place of what was there.                                                *)
Request(r) ==
    /\ gor[r].pc = "request"
    /\ \/ Return(r, "waiting", 0) /\ UNCHANGED files
       \/ Step(r, [gor[r] EXCEPT !.pc = "body"]) /\ UNCHANGED files
       \/ /\ gor[r].have > 0
          /\ Step(r, [gor[r] EXCEPT !.pc = "body", !.have = 0])
          /\ Write(r, EmptyFile)

(* A read delivers a piece; or the body ends early, stalls or is cut.      *)
BodyRead(r) ==
    /\ gor[r].pc = "body" /\ gor[r].have < Size
    /\ Step(r, [gor[r] EXCEPT !.have = @ + 1])
    /\ \E right \in BOOLEAN :
        /\ Honest => right
        /\ Write(r, File(gor[r].have + 1, files[FileOf(r)].good /\ right))

BodyCut(r) ==
    /\ gor[r].pc = "body" /\ gor[r].have < Size
    /\ Return(r, "waiting", IF gor[r].have > gor[r].before THEN gor[r].have - gor[r].before ELSE 0)
    /\ UNCHANGED files

(* All of it is there: synced (or not), and held to its digest.            *)
AttemptVerify(r) ==
    LET f == files[FileOf(r)] IN
    /\ gor[r].pc = "body" /\ gor[r].have = Size
    /\ \/ Return(r, "waiting", 0) /\ UNCHANGED files
       \/ Whole(f) /\ Return(r, "complete", Size - gor[r].before) /\ UNCHANGED files
       \/ ~Whole(f) /\ Return(r, "waiting", 0) /\ (Write(r, EmptyFile) \/ UNCHANGED files)

-----------------------------------------------------------------------------
(* fetch: record what came of the attempt, kick again, and tell who waits. *)

backoff(n) == IF n < ShiftLimit THEN Min({FirstBackoff * 2^n, MaxBackoff}) ELSE MaxBackoff

Recorded(r) ==
    LET g == gor[r]
        q == [p EXCEPT !.run = IF @ = r THEN None ELSE @]
    IN  IF p.key # g.key THEN q
        ELSE IF g.result = "complete"
             THEN [q EXCEPT !.state = "complete", !.failures = 0, !.retry = 0]
        ELSE IF g.cancelled
             THEN [q EXCEPT !.state = "waiting"]
        ELSE IF g.gained >= MinProgress
             THEN [q EXCEPT !.state = g.result, !.failures = 0, !.retry = ProgressRetry]
             ELSE [q EXCEPT !.state = g.result, !.retry = backoff(p.failures),
                            !.failures = Min({p.failures + 1, ShiftLimit})]

(* stampOf(path): p.verified is now this file, and no other.               *)
Stamped(r) ==
    IF p.key = gor[r].key /\ gor[r].result = "complete"
    THEN [d \in Digests |-> [files[d] EXCEPT !.stamped = d = FileOf(r) /\ files[d] # NoFile]]
    ELSE files

(* Faulty: the goroutine tries again itself and does not ask whether it is *)
(* to stop.                                                                *)
FetchRecordRetries(r) ==
    /\ gor[r].pc = "returned"
    /\ \/ /\ gor[r].result # "complete"
          /\ Step(r, [gor[r] EXCEPT !.pc = "attempt"]) /\ UNCHANGED files
       \/ /\ gor[r].result = "complete"
          /\ kickLocked(Recorded(r), [gor EXCEPT ![r] = [Gone EXCEPT !.pc = "closing"]], Stamped(r))
          /\ UNCHANGED <<holder, waits, stale>>

FetchRecord(r) ==
    /\ gor[r].pc = "returned"
    /\ kickLocked(Recorded(r), [gor EXCEPT ![r] = [Gone EXCEPT !.pc = "closing"]], Stamped(r))
    /\ UNCHANGED <<holder, waits, stale>>

FetchDone(r) ==
    /\ gor[r].pc = "closing"
    /\ Step(r, Gone)
    /\ UNCHANGED files

Attempt(r) ==
    AttemptOpen(r) \/ AttemptKept(r) \/ Request(r) \/ BodyRead(r) \/ BodyCut(r) \/ AttemptVerify(r)

PrefetchNext ==
    \/ Update \/ CloseStart \/ TaskTouches \/ Release \/ Tick
    \/ \E h \in Holders : Hold(h) \/ HoldReturn(h)
    \/ \E r \in Runs : Attempt(r) \/ FetchRecord(r) \/ FetchDone(r)

-----------------------------------------------------------------------------
(* What a heartbeat says of the file named now.                            *)
Facts ==
    IF ~p.known \/ p.cfg.target = None \/ p.state = "" THEN "nothing"
    ELSE IF p.key # keyLocked(p) THEN "waiting" ELSE p.state

InAttempt(r) == gor[r].pc \in {"attempt", "opened", "request", "body"}

(* OneDownload: at most one goroutine is in attempt, and none while a task *)
(* batch runs or once Close has returned ("Prefetcher runs at most one     *)
(* download at a time and holds it while a task runs").                    *)
OneDownload ==
    /\ \A q, r \in Runs : InAttempt(q) /\ InAttempt(r) => q = r
    /\ \A h \in Holders, r \in Runs : holder[h] = "in" => ~InAttempt(r)

(* TasksOwnFiles: while a batch runs, only its tasks change the downloads; *)
(* neither a fetch nor a prune does, whatever configs arrive meanwhile.    *)
TasksOwnFiles ==
    [][holder["worker"] = "in" /\ files' # files => UNCHANGED <<p, gor, holder>>]_prefetchVars

(* StartsOnFreshConfig: a run starts only on a config pulled since the     *)
(* last batch ended (Release: "nothing starts until the next Update").     *)
StartsOnFreshConfig ==
    [][p'.run \notin {p.run, None} => ~stale' /\ holder["worker"] # "in"]_prefetchVars

(* PruneSparesDownload: the prefetcher never removes a file that is open   *)
(* or that the config in hand names.                                       *)
PruneSparesDownload ==
    [][\A d \in Digests :
         files[d] # NoFile /\ files'[d] = NoFile /\ holder["worker"] # "in" =>
             /\ \A r \in Runs : InAttempt(r) => FileOf(r) # d
             /\ p'.cfg.target \in Valid => served[p'.cfg.target] # d]_prefetchVars

(* ReportIsTrue: a download reported complete is whole on disk, unless a   *)
(* task has had the file since the last config pull that was acted on.     *)
ReportIsTrue ==
    Facts = "complete" /\ ~stale /\ holder["worker"] # "in" =>
        Whole(files[served[p.cfg.target]])

-----------------------------------------------------------------------------
Stopped(r) == gor[r].pc = "returned" /\ gor[r].result = "waiting"

(* A pull that brings the config in hand once more.                        *)
PullAgain == Update /\ p'.known = p.known /\ p'.cfg = p.cfg

(* PrefetchFairness: the main loop pulls configs and time passes;          *)
(* goroutines run, and no request lasts, since the stall timer or the      *)
(* cancelled context ends it; what is retried for ever succeeds some time. *)
PrefetchFairness ==
    /\ WF_prefetchVars(Tick) /\ WF_prefetchVars(PullAgain) /\ SF_prefetchVars(PullAgain /\ p'.run # p.run)
    /\ \A h \in Holders : WF_prefetchVars(HoldReturn(h))
    /\ \A r \in Runs : WF_prefetchVars(FetchRecord(r) \/ FetchDone(r))
    /\ WF_prefetchVars(\E r \in Runs : Attempt(r))
    /\ SF_prefetchVars(\E r \in Runs : AttemptOpen(r) /\ gor'[r].pc = "opened")
    /\ SF_prefetchVars(\E r \in Runs : AttemptKept(r) /\ ~Stopped(r)')
    /\ SF_prefetchVars(\E r \in Runs : Request(r) /\ gor'[r].pc = "body")
    /\ SF_prefetchVars(\E r \in Runs : BodyRead(r))
    /\ SF_prefetchVars(\E r \in Runs : FetchRecord(r) /\ p'.state = "complete")

(* HoldReturns: a Hold always returns: the download it waits for is        *)
(* stopped and does not wait for anything the holder has.                  *)
HoldReturns == \A h \in Holders : holder[h] = "waiting" ~> holder[h] = "in"

(* The config names t for good, and no task or shutdown comes any more.    *)
Steady(t) == p.known /\ p.cfg.target = t /\ \A h \in Holders : holder[h] = "out"

(* From some point on, the server answers a range with that range.         *)
Resumes == <>[][\A r \in Runs : gor[r].pc = "request" /\ gor'[r].pc = "body" =>
                                    gor'[r].have = gor[r].have]_prefetchVars

(* DownloadCompletes: a file that stays named is complete some time, over  *)
(* a line that drops after every piece, failed opens and full disks.       *)
DownloadCompletes ==
    Resumes => \A t \in Fetchable : p.allowed /\ <>[]Steady(t) => []<>(Facts = "complete")
=============================================================================
