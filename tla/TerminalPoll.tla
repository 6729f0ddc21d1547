---------------------------- MODULE TerminalPoll ---------------------------
(***************************************************************************)
(* cmd/lattice-agent/terminal.go and terminal_control.go: how a session    *)
(* the server opened gets its runner, pushed on the control stream or      *)
(* found by the fallback poll, and the runner of the poll transport, which *)
(* fetches the operator's inputs, writes them to the PTY and takes the     *)
(* shell down when the session ends.                                       *)
(***************************************************************************)
EXTENDS Integers, Sequences, FiniteSetsExt, FiniteSets
LOCAL INSTANCE SequencesExt

CONSTANTS
    Runners,     \* names of goroutines, used again once they end
    MaxInputs    \* bound on the operator's inputs

VARIABLES
    session,           \* the server's record: none, open or closed
    inputs,            \* the inputs it holds, by Seq
    control,           \* the control stream: down, up or broken
    controlConnected,  \* m.controlConnected
    push,              \* a terminal.open message is on its way
    listing,           \* the answer to a poll names the session
    active,            \* m.active holds the session
    runs,              \* the runners: place, inputCursor, inputs fetched, written, how it ended
    shell,             \* the shell of a runner: none, up, dead (not yet waited for) or reaped
    child,             \* a process of its group that ignores a hang-up
    stopping           \* ctx is done

managerVars0 == <<control, controlConnected, push, listing, active>>
serverVars == <<session, inputs>>
pollVars == <<session, inputs, control, controlConnected, push, listing, active, runs, shell, child, stopping>>

NoRun == [at |-> "none", cursor |-> 0, fetched |-> <<>>, wrote |-> <<>>, why |-> "none"]
Kinds == {"data", "resize", "close"}
Numbers == SeqOf(1..MaxInputs, MaxInputs)
Free == {r \in Runners : runs[r].at = "none"}

PollTypeOK ==
    /\ session \in {"none", "open", "closed"} /\ inputs \in SeqOf(Kinds, MaxInputs)
    /\ control \in {"down", "up", "broken"} /\ controlConnected \in BOOLEAN /\ push \in BOOLEAN
    /\ listing \in BOOLEAN /\ active \in BOOLEAN /\ stopping \in BOOLEAN
    /\ \A r \in Runners :
        /\ runs[r].at \in {"none", "loop", "closing", "reading"} /\ runs[r].cursor \in 0..MaxInputs
        /\ runs[r].fetched \in Numbers /\ runs[r].wrote \in Numbers
        /\ runs[r].why \in {"none", "exit", "gone", "closed", "stop", "failed"}
    /\ shell \in [Runners -> {"none", "up", "dead", "reaped"}] /\ child \in [Runners -> BOOLEAN]

PollInit ==
    /\ session = "none" /\ inputs = <<>> /\ control = "down" /\ controlConnected = FALSE /\ push = FALSE
    /\ listing = FALSE /\ active = FALSE /\ stopping = FALSE
    /\ runs = [r \in Runners |-> NoRun] /\ shell = [r \in Runners |-> "none"]
    /\ child = [r \in Runners |-> FALSE]

-----------------------------------------------------------------------------
(* The server opens the session, takes inputs and closes it.               *)
Opened ==
    /\ session = "none" /\ session' = "open" /\ push' = (control = "up")
    /\ UNCHANGED <<inputs, control, controlConnected, listing, active, runs, shell, child, stopping>>

Typed(kind) ==
    /\ session = "open" /\ Len(inputs) < MaxInputs /\ inputs' = Append(inputs, kind)
    /\ UNCHANGED <<session, runs, shell, child, stopping>> /\ UNCHANGED managerVars0

ClosedByServer ==
    /\ session = "open" /\ session' = "closed"
    /\ UNCHANGED <<inputs, runs, shell, child, stopping>> /\ UNCHANGED managerVars0

-----------------------------------------------------------------------------
newRunner(r, ok) ==
    IF ok THEN runs' = [runs EXCEPT ![r] = [NoRun EXCEPT !.at = "loop"]] /\ shell' = [shell EXCEPT ![r] = "up"]
    ELSE runs' = [runs EXCEPT ![r] = [NoRun EXCEPT !.at = "reading", !.why = "failed"]] /\ UNCHANGED shell

(* A session gets a runner unless it has one; ok if its shell starts.      *)
startSession(ok) ==
    IF active THEN UNCHANGED <<active, runs, shell>>
    ELSE active' = TRUE /\ \E r \in Free : newRunner(r, ok)

(* The control stream connects; the server pushes what it has open.        *)
Connects ==
    /\ control = "down" /\ ~stopping /\ control' = "up" /\ controlConnected' = TRUE
    /\ push' = (session = "open")
    /\ UNCHANGED <<listing, active, runs, shell, child, stopping>> /\ UNCHANGED serverVars

(* It breaks, with the message that was on it.                             *)
ControlBreaks ==
    /\ control = "up" /\ control' = "broken" /\ push' = FALSE
    /\ UNCHANGED <<controlConnected, listing, active, runs, shell, child, stopping>> /\ UNCHANGED serverVars

(* Faulty loop: the flag outlives the stream.                              *)
runControlLoopStuck ==
    /\ control = "broken" /\ control' = "down"
    /\ UNCHANGED <<controlConnected, push, listing, active, runs, shell, child, stopping>>
    /\ UNCHANGED serverVars

(* runControlOnce returned: the fallback poll takes over.                  *)
runControlLoop ==
    /\ control = "broken" /\ control' = "down" /\ controlConnected' = FALSE
    /\ UNCHANGED <<push, listing, active, runs, shell, child, stopping>> /\ UNCHANGED serverVars

(* The control stream hands over terminal.open.                            *)
runControlOnce(ok) ==
    /\ control = "up" /\ push /\ push' = FALSE /\ startSession(ok)
    /\ UNCHANGED <<control, controlConnected, listing, child, stopping>> /\ UNCHANGED serverVars

(* runTerminalLoop polls while the stream is down; the answer may be old   *)
(* when it is used.                                                        *)
poll ==
    /\ ~controlConnected /\ ~listing /\ ~stopping /\ session = "open" /\ listing' = TRUE
    /\ UNCHANGED <<control, controlConnected, push, active, runs, shell, child, stopping>>
    /\ UNCHANGED serverVars

PollStarts(ok) ==
    /\ listing /\ listing' = FALSE /\ startSession(ok)
    /\ UNCHANGED <<control, controlConnected, push, child, stopping>> /\ UNCHANGED serverVars

-----------------------------------------------------------------------------
InLoop(r) == runs[r].at = "loop" /\ runs[r].fetched = <<>>

(* What the server has beyond the runner's cursor.                         *)
Beyond(r) == [i \in 1..(Len(inputs) - runs[r].cursor) |-> runs[r].cursor + i]

(* The input ticker: what is beyond the cursor, or the session is gone.    *)
pollInputs(r) ==
    /\ InLoop(r)
    /\ runs' = [runs EXCEPT ![r] = IF session # "open" THEN [@ EXCEPT !.at = "closing", !.why = "gone"]
                                   ELSE [@ EXCEPT !.fetched = Beyond(r)]]
    /\ UNCHANGED <<shell, child, stopping>> /\ UNCHANGED managerVars0 /\ UNCHANGED serverVars

(* Faulty cursor: it passes the whole answer with its first input.         *)
ApplyInputAhead(r, ok) ==
    LET n == Head(runs[r].fetched)
        next == [runs[r] EXCEPT !.cursor = Last(runs[r].fetched),
                                !.fetched = IF ok THEN Tail(runs[r].fetched) ELSE <<>>]
    IN  runs' = [runs EXCEPT ![r] =
            IF inputs[n] = "close" THEN [next EXCEPT !.at = "closing", !.why = "closed", !.fetched = <<>>]
            ELSE IF inputs[n] = "data" /\ ok THEN [next EXCEPT !.wrote = Append(@, n)] ELSE next]

(* One input: the cursor moves first; data is written, a close hangs up.   *)
(* A failure leaves the rest of the answer to the next fetch.              *)
ApplyInput(r, ok) ==
    LET n == Head(runs[r].fetched)
        next == [runs[r] EXCEPT !.cursor = n, !.fetched = IF ok THEN Tail(@) ELSE <<>>]
    IN  runs' = [runs EXCEPT ![r] =
            IF inputs[n] = "close" THEN [next EXCEPT !.at = "closing", !.why = "closed", !.fetched = <<>>]
            ELSE IF inputs[n] = "data" /\ ok THEN [next EXCEPT !.wrote = Append(@, n)] ELSE next]

(* A write to the PTY of a live shell succeeds; a resize may fail.         *)
InputApplied(r, ok) ==
    /\ runs[r].at = "loop" /\ runs[r].fetched # <<>>
    /\ ok \/ shell[r] # "up" \/ inputs[Head(runs[r].fetched)] = "resize"
    /\ ApplyInput(r, ok)
    /\ UNCHANGED <<shell, child, stopping>> /\ UNCHANGED managerVars0 /\ UNCHANGED serverVars

(* The other cases of the select: the shell was waited for, ctx is done.   *)
SeesExit(r) ==
    /\ InLoop(r) /\ shell[r] = "reaped" /\ runs' = [runs EXCEPT ![r].at = "reading", ![r].why = "exit"]
    /\ UNCHANGED <<shell, child, stopping>> /\ UNCHANGED managerVars0 /\ UNCHANGED serverVars

SeesStop(r) ==
    /\ InLoop(r) /\ stopping /\ runs' = [runs EXCEPT ![r].at = "closing", ![r].why = "stop"]
    /\ UNCHANGED <<shell, child, stopping>> /\ UNCHANGED managerVars0 /\ UNCHANGED serverVars

(* The shell ends by itself, from the hang-up or, when ctx is done, killed *)
(* by os/exec; the goroutine of cmd.Wait reaps it.                         *)
ShellExits(r) ==
    /\ shell[r] = "up" /\ shell' = [shell EXCEPT ![r] = "dead"]
    /\ UNCHANGED <<runs, child, stopping>> /\ UNCHANGED managerVars0 /\ UNCHANGED serverVars

Waited(r) ==
    /\ shell[r] = "dead" /\ shell' = [shell EXCEPT ![r] = "reaped"]
    /\ UNCHANGED <<runs, child, stopping>> /\ UNCHANGED managerVars0 /\ UNCHANGED serverVars

Forks(r) ==
    /\ shell[r] = "up" /\ ~child[r] /\ child' = [child EXCEPT ![r] = TRUE]
    /\ UNCHANGED <<runs, shell, stopping>> /\ UNCHANGED managerVars0 /\ UNCHANGED serverVars

(* The group of a shell already waited for cannot be looked up any more,   *)
(* and only the shell itself is signalled.                                 *)
terminalKillProcessGroup(r) ==
    /\ runs[r].at = "closing" /\ runs' = [runs EXCEPT ![r].at = "reading"]
    /\ shell' = [shell EXCEPT ![r] = "reaped"] /\ child' = [child EXCEPT ![r] = @ /\ shell[r] = "reaped"]
    /\ UNCHANGED stopping /\ UNCHANGED managerVars0 /\ UNCHANGED serverVars

(* The reader is done, the closed status is posted (posted if it arrives)  *)
(* and the deferred remove makes room for another runner.                  *)
runPollEnds(r, posted) ==
    /\ runs[r].at = "reading"
    /\ session' = IF posted THEN "closed" ELSE session
    /\ active' = FALSE /\ runs' = [runs EXCEPT ![r] = NoRun]
    /\ shell' = [shell EXCEPT ![r] = "none"] /\ child' = [child EXCEPT ![r] = FALSE]
    /\ UNCHANGED <<inputs, control, controlConnected, push, listing, stopping>>

AgentStops ==
    /\ ~stopping /\ stopping' = TRUE
    /\ UNCHANGED <<runs, shell, child>> /\ UNCHANGED managerVars0 /\ UNCHANGED serverVars

Steps(r) ==
    \/ SeesExit(r) \/ SeesStop(r) \/ Waited(r) \/ terminalKillProcessGroup(r)
    \/ \E b \in BOOLEAN : InputApplied(r, b) \/ runPollEnds(r, b)

PollNext ==
    \/ Opened \/ ClosedByServer \/ Connects \/ ControlBreaks \/ runControlLoop \/ poll \/ AgentStops
    \/ \E kind \in Kinds : Typed(kind)
    \/ \E ok \in BOOLEAN : runControlOnce(ok) \/ PollStarts(ok)
    \/ \E r \in Runners : pollInputs(r) \/ ShellExits(r) \/ Forks(r) \/ Steps(r)

-----------------------------------------------------------------------------
(* OneShell: pushed and polled, a session never has two runners at a time. *)
OneShell == \A r, q \in Runners : (runs[r].at # "none" /\ runs[q].at # "none") => r = q

(* TypedOnce: a shell gets the operator's data in order and once each, and *)
(* only what failed at the PTY is left out, whatever failed on the way.    *)
TypedOnce ==
    \A r \in Runners : runs[r].at = "loop" /\ shell[r] = "up" =>
        runs[r].wrote = SelectSeq([i \in 1..runs[r].cursor |-> i], LAMBDA i : inputs[i] = "data")

(* ClosedEnds: once the server has closed the session its shell goes, even *)
(* if a poll answered earlier starts the session again.                    *)
ClosedEnds == (session = "closed") ~> [](\A r \in Runners : runs[r].at = "none")

(* SessionServed: a session that opens gets a runner, though the control   *)
(* stream may break with the message on it.                                *)
SessionServed ==
    (<>[][~Connects /\ ~AgentStops]_pollVars /\ [](~stopping))
        => (<>(session = "open") => <>(active \/ session = "closed"))

(* GroupIsKilled: "Every exit path that did not come from the shell        *)
(* exiting on its own kills the whole process group".                      *)
GroupIsKilled ==
    \A r \in Runners : (runs[r].at = "reading" /\ runs[r].why \in {"gone", "closed", "stop"}) => ~child[r]
=============================================================================
