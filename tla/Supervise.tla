------------------------------ MODULE Supervise ------------------------------
(***************************************************************************)
(* How the agent keeps itself alive (cmd/lattice-agent/supervise.go and    *)
(* keepalive.go): the work loop and the heartbeat stamp their progress,    *)
(* runWatchdog pets systemd only while neither is stalled, and systemd     *)
(* kills an agent whose watchdog it armed and that stopped petting.  The   *)
(* watchdog is armed once startup recovery, which has no deadline, is      *)
(* over; while recovery is blocked the heartbeat starts early.             *)
(*                                                                         *)
(* Progress is stamped with the wall clock: clock() drops the monotonic    *)
(* reading.  ClockStep sets that clock forward; SuperviseNext leaves it    *)
(* alone.                                                                  *)
(***************************************************************************)
EXTENDS Integers

CONSTANTS
    StepMax,      \* the longest bounded step of the work loop, and beat
    Interval,     \* Config.Interval: the work loop's wait, the heartbeat's tick
    StallFloor,   \* loopStallFloor
    WatchdogTimeout  \* agentWatchdogTimeout, even

VARIABLES
    work, workFor,    \* what the work loop is doing, and for how long
    workProgress,     \* how old loopHealth.workProgress reads
    beat, beatFor,    \* what the heartbeat goroutine is doing, and for how long
    beatProgress,     \* how old loopHealth.beatProgress reads, Never if zero
    blocked,          \* loopHealth.linechainBlocked is set
    told,             \* whether the last beat built said so
    armed,            \* runWatchdog is running
    sinceTick,        \* time since the watchdog's ticker fired
    sincePet,         \* time since systemd was petted
    wedged,           \* ghost: the loops that hang in a step for ever
    hung              \* ghost: for how long a loop has hung with the watchdog on

superviseVars == <<work, workFor, workProgress, beat, beatFor, beatProgress, blocked,
                   told, armed, sinceTick, sincePet, wedged, hung>>
watchdog == <<armed, sinceTick, sincePet>>

Never == -100
loopStallBound == IF 3 * Interval > StallFloor THEN 3 * Interval ELSE StallFloor
Old == loopStallBound + 1
Limit == loopStallBound + 2 * WatchdogTimeout   \* bound: time anything is followed for
Older(age) == IF age = Never \/ age = Old THEN age ELSE age + 1
Longer(n) == IF n < Limit THEN n + 1 ELSE n

SuperviseTypeOK ==
    /\ work \in {"recovering", "blocked", "step", "waiting"}
    /\ beat \in {"off", "posting", "waiting"}
    /\ {workFor, beatFor, hung} \subseteq 0..Limit
    /\ {workProgress, beatProgress} \subseteq (-Old..Old) \cup {Never}
    /\ {blocked, told, armed} \subseteq BOOLEAN
    /\ sinceTick \in 0..WatchdogTimeout /\ sincePet \in 0..(WatchdogTimeout + 1)
    /\ wedged \subseteq {"work", "beat"}

SuperviseInit ==
    /\ work = "recovering" /\ workFor = 0 /\ workProgress = 0
    /\ beat = "off" /\ beatFor = 0 /\ beatProgress = Never
    /\ blocked = FALSE /\ told = FALSE /\ armed = FALSE /\ sinceTick = 0 /\ sincePet = 0
    /\ wedged = {} /\ hung = 0

-----------------------------------------------------------------------------
(* The work loop moves on; every move is stamped as progress.              *)
Moves(to) ==
    /\ "work" \notin wedged
    /\ work' = to /\ workFor' = 0 /\ workProgress' = 0
    /\ UNCHANGED <<wedged, hung>>

heartbeat == <<beat, beatFor, beatProgress, told>>

(* heartbeat.once begins: the beat carries whether recovery is blocked and *)
(* withholds the durable task capability if it is.                         *)
Posts(b) == beat' = "posting" /\ beatFor' = 0 /\ told' = b

(* Faulty heartbeat.start: nothing is stamped before the first beat.       *)
startBeatUnstamped(b) ==
    IF beat = "off" THEN Posts(b) /\ UNCHANGED beatProgress ELSE UNCHANGED heartbeat

(* heartbeat.start: once, stamping the heartbeat's progress first.         *)
startBeat(b) ==
    IF beat = "off" THEN Posts(b) /\ beatProgress' = 0 ELSE UNCHANGED heartbeat

(* arm: armWatchdog and go runWatchdog; without a notify socket, nothing.  *)
arm(socket) ==
    /\ armed' = socket /\ sinceTick' = 0 /\ sincePet' = 0

(* recoverThenSupervise: recovery fails, and is tried again after a wait.  *)
RecoveryBlocked ==
    /\ work = "recovering" /\ Moves("blocked")
    /\ blocked' = TRUE
    /\ startBeat(TRUE)
    /\ UNCHANGED watchdog

RecoverAgain ==
    /\ work = "blocked" /\ workFor >= Interval /\ Moves("recovering")
    /\ UNCHANGED <<heartbeat, blocked, watchdog>>

(* recoverThenSupervise: recovery succeeds, the watchdog is armed, and the *)
(* agent goes on to hello.                                                 *)
Recovered(socket) ==
    /\ work = "recovering" /\ Moves("step")
    /\ blocked' = FALSE
    /\ arm(socket)
    /\ UNCHANGED heartbeat

(* health.run ends a step and the next begins; hello is followed by        *)
(* beat.start.  A recovery in the cycle may block or clear.                *)
NextStep(b) ==
    /\ work = "step" /\ Moves("step")
    /\ blocked' = (b /\ beat # "off")
    /\ startBeat(FALSE)
    /\ UNCHANGED watchdog

(* cycleEnd, or a blocked recovery: wait for the next tick; waiting is     *)
(* progress.                                                               *)
CycleEnd ==
    /\ work = "step" /\ beat # "off" /\ Moves("waiting")
    /\ UNCHANGED <<heartbeat, blocked, watchdog>>

CycleStart ==
    /\ work = "waiting" /\ Moves("step")
    /\ UNCHANGED <<heartbeat, blocked, watchdog>>

-----------------------------------------------------------------------------
(* heartbeat.once returns, delivered or not, and stamps; then run waits    *)
(* for the ticker or a nudge.                                              *)
BeatDone ==
    /\ beat = "posting" /\ "beat" \notin wedged
    /\ beat' = "waiting" /\ beatFor' = 0 /\ beatProgress' = 0
    /\ UNCHANGED <<work, workFor, workProgress, blocked, told, watchdog, wedged, hung>>

Beat ==
    /\ beat = "waiting" /\ beatFor > 0
    /\ Posts(blocked)
    /\ UNCHANGED <<work, workFor, workProgress, beatProgress, blocked, watchdog, wedged, hung>>

(* A step of one of the loops hangs and will never return.                 *)
Wedge(l) ==
    /\ wedged = {}
    /\ (l = "work" /\ work = "step") \/ (l = "beat" /\ beat = "posting")
    /\ wedged' = {l} /\ hung' = 0
    /\ UNCHANGED <<work, workFor, workProgress, heartbeat, blocked, watchdog>>

-----------------------------------------------------------------------------
(* stalled: the work loop, or a heartbeat that has started, is over bound. *)
stalled ==
    \/ workProgress > loopStallBound
    \/ beatProgress # Never /\ beatProgress > loopStallBound

TickDue == armed /\ sinceTick >= WatchdogTimeout \div 2
KillDue == armed /\ sincePet > WatchdogTimeout

(* runWatchdog's ticker: pet unless stalled.                               *)
WatchdogTick ==
    /\ TickDue
    /\ sinceTick' = 0
    /\ sincePet' = IF stalled THEN sincePet ELSE 0
    /\ UNCHANGED <<work, workFor, workProgress, heartbeat, blocked, armed, wedged, hung>>

(* systemd kills an agent that stopped petting and starts it again.        *)
Kill ==
    /\ KillDue /\ ~TickDue
    /\ work' = "recovering" /\ workFor' = 0 /\ workProgress' = 0
    /\ beat' = "off" /\ beatFor' = 0 /\ beatProgress' = Never
    /\ blocked' = FALSE /\ told' = FALSE /\ armed' = FALSE /\ sinceTick' = 0 /\ sincePet' = 0
    /\ wedged' = {} /\ hung' = 0

(* Time passes; a bounded step or wait does not outlast its bound, and the *)
(* watchdog's ticker and systemd act when they are due.                    *)
Time ==
    /\ ~TickDue /\ ~KillDue
    /\ work = "step" /\ "work" \notin wedged => workFor < StepMax
    /\ work = "waiting" => workFor < Interval
    /\ beat = "posting" /\ "beat" \notin wedged => beatFor < StepMax
    /\ beat = "waiting" => beatFor < Interval
    /\ workFor' = Longer(workFor) /\ beatFor' = Longer(beatFor)
    /\ workProgress' = Older(workProgress) /\ beatProgress' = Older(beatProgress)
    /\ sinceTick' = IF armed THEN sinceTick + 1 ELSE 0
    /\ sincePet' = IF armed THEN sincePet + 1 ELSE 0
    /\ hung' = IF armed /\ wedged # {} THEN Longer(hung) ELSE hung
    /\ UNCHANGED <<work, beat, blocked, told, armed, wedged>>

(* The wall clock is set forward: every stamp reads older than it is.      *)
ClockStep ==
    /\ workProgress' = Old
    /\ beatProgress' = IF beatProgress = Never THEN Never ELSE Old
    /\ UNCHANGED <<work, workFor, beat, beatFor, blocked, told, watchdog, wedged, hung>>

SuperviseNext ==
    \/ RecoveryBlocked \/ RecoverAgain
    \/ \E socket \in BOOLEAN : Recovered(socket)
    \/ \E b \in BOOLEAN : NextStep(b)
    \/ CycleEnd \/ CycleStart \/ BeatDone \/ Beat
    \/ \E l \in {"work", "beat"} : Wedge(l)
    \/ WatchdogTick \/ Kill \/ Time

-----------------------------------------------------------------------------
(* OnlyTheWedgedAreKilled: systemd "never [restarts] one that merely       *)
(* cannot reach the control plane": an agent is killed only when one of    *)
(* its loops hangs, however long recovery took and whatever fails.         *)
OnlyTheWedgedAreKilled == [][Kill => wedged # {}]_superviseVars

(* WedgeIsRestarted: a loop that hangs under an armed watchdog, the first  *)
(* beat included, gets the agent restarted within the stall bound and two  *)
(* watchdog timeouts.                                                      *)
WedgeIsRestarted == hung < Limit

(* StallMeansWedge: "Only a wedged step or a wedged heartbeat can trip     *)
(* it" (stalled).                                                          *)
StallMeansWedge == armed /\ stalled => wedged # {}

(* BlockedIsReported: a node whose recovery is blocked, at startup or in a *)
(* cycle, says so in a beat unless it is unblocked or restarted first.     *)
BlockedIsReported == blocked ~> (told \/ ~blocked \/ wedged # {})
=============================================================================
