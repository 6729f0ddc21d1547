------------------------------- MODULE TaskRun -------------------------------
(***************************************************************************)
(* taskexec.Runner.run (internal/taskexec): the gates, the work directory, *)
(* the cgroup, the script with the processes it leaves behind, the race of *)
(* the deadline with Wait, and the deferred cleanup.  Wait returns when    *)
(* the script has exited and nobody holds its output pipes any more.  A    *)
(* task's script is free to put a process of its own into the background,  *)
(* with or without its output and in or out of its process group.          *)
(***************************************************************************)
EXTENDS Integers, FiniteSets

CONSTANTS
    OutputLimit,   \* the clamped task.OutputLimit
    MaxOutput      \* bound: what the script writes

VARIABLES
    task,      \* what the host and the configuration decide about this run
    at,        \* how far run has come
    taskDir, cg,   \* the work directory and the task's cgroup exist
    alive,     \* processes of the task that are alive
    away,      \* processes that left the process group
    holds,     \* processes that hold the output pipes
    exec,      \* the child: still the "shim", or the script, "limited" or "bare"
    exit,      \* how the script ended: "none", "ok", "error", "killed"
    killed,    \* run took ctx.Done
    out,       \* cappedBuffer: its length and truncated, and what was written
    result     \* the TaskResult: "none", "refused", "ok", "error", "timeout"

runVars == <<task, at, taskDir, cg, alive, away, holds, exec, exit, killed, out, result>>

Script == "script"
Child == "child"
Facts == [allowed : BOOLEAN, cgroup : BOOLEAN, cgroupKill : BOOLEAN]

RunTypeOK ==
    /\ task \in Facts
    /\ at \in {"gates", "workdir", "script", "cgroup", "start", "race", "reap", "defer", "done"}
    /\ {taskDir, cg, killed} \subseteq BOOLEAN /\ exec \in {"shim", "limited", "bare"}
    /\ {alive, away, holds} \subseteq SUBSET {Script, Child}
    /\ exit \in {"none", "ok", "error", "killed"}
    /\ out \in [len : 0..OutputLimit, truncated : BOOLEAN, total : 0..MaxOutput]
    /\ result \in {"none", "refused", "ok", "error", "timeout"}

RunInit ==
    /\ task \in Facts
    /\ at = "gates" /\ taskDir = FALSE /\ cg = FALSE
    /\ alive = {} /\ away = {} /\ holds = {} /\ exec = "shim" /\ exit = "none" /\ killed = FALSE
    /\ out = [len |-> 0, truncated |-> FALSE, total |-> 0] /\ result = "none"

processes == <<alive, away, holds, exec, exit>>

-----------------------------------------------------------------------------
(* run gives up before the script: the deferred calls still run.           *)
Fails == at' = "defer" /\ result' = "refused"

(* AllowExec, root, the interpreter's allowlist and path.                  *)
Gates ==
    /\ at = "gates"
    /\ IF task.allowed THEN at' = "workdir" /\ UNCHANGED result
                       ELSE at' = "done" /\ result' = "refused"
    /\ UNCHANGED <<task, taskDir, cg, processes, killed, out>>

createTaskWorkdir(ok) ==
    /\ at = "workdir"
    /\ IF ok THEN at' = "script" /\ taskDir' = TRUE /\ UNCHANGED result
             ELSE at' = "done" /\ result' = "refused" /\ UNCHANGED taskDir
    /\ UNCHANGED <<task, cg, processes, killed, out>>

WriteScript(ok) ==
    /\ at = "script"
    /\ IF ok THEN at' = "cgroup" /\ UNCHANGED result ELSE Fails
    /\ UNCHANGED <<task, taskDir, cg, processes, killed, out>>

(* prepareTaskCgroup: an error after the directory was made removes it.    *)
prepareTaskCgroup(ok) ==
    /\ at = "cgroup"
    /\ IF ~task.cgroup THEN at' = "start" /\ UNCHANGED <<cg, result>>
       ELSE IF ok THEN at' = "start" /\ cg' = TRUE /\ UNCHANGED result
       ELSE Fails /\ UNCHANGED cg
    /\ UNCHANGED <<task, taskDir, processes, killed, out>>

Start(ok) ==
    /\ at = "start"
    /\ IF ok THEN /\ at' = "race" /\ alive' = {Script} /\ holds' = {Script} /\ UNCHANGED result
             ELSE Fails /\ UNCHANGED <<alive, holds>>
    /\ UNCHANGED <<task, taskDir, cg, away, exec, exit, killed, out>>

-----------------------------------------------------------------------------
(* MaybeRunChildShim: limits, no_new_privs, join the cgroup, exec; any of  *)
(* them failing exits.                                                     *)
Shim(ok) ==
    /\ Script \in alive /\ exec = "shim"
    /\ IF ok THEN exec' = "limited" /\ UNCHANGED <<alive, holds, exit>>
             ELSE /\ alive' = alive \ {Script} /\ holds' = holds \ {Script}
                  /\ exit' = "error" /\ UNCHANGED exec
    /\ UNCHANGED <<task, at, taskDir, cg, away, killed, out, result>>

(* The script puts a process into the background.                          *)
Fork(leaves, keeps) ==
    /\ Script \in alive /\ exec # "shim" /\ Child \notin alive
    /\ alive' = alive \cup {Child}
    /\ away' = IF leaves THEN away \cup {Child} ELSE away
    /\ holds' = IF keeps THEN holds \cup {Child} ELSE holds
    /\ UNCHANGED <<task, at, taskDir, cg, exec, exit, killed, out, result>>

Exits(p, how) ==
    /\ p \in alive /\ (p = Script => exec # "shim")
    /\ alive' = alive \ {p} /\ holds' = holds \ {p}
    /\ exit' = IF p = Script THEN how ELSE exit
    /\ UNCHANGED <<task, at, taskDir, cg, away, exec, killed, out, result>>

(* cappedBuffer.Write.                                                     *)
Write(n) ==
    LET room == OutputLimit - out.len
    IN  [len |-> IF n > room THEN OutputLimit ELSE out.len + n,
         truncated |-> out.truncated \/ n > room, total |-> out.total + n]

Prints(n) ==
    /\ exec # "shim" /\ alive \cap holds # {} /\ out.total + n <= MaxOutput
    /\ out' = Write(n)
    /\ UNCHANGED <<task, at, taskDir, cg, processes, killed, result>>

-----------------------------------------------------------------------------
(* cmd.Wait has returned.                                                  *)
Reaped == Script \notin alive /\ holds \cap alive = {}

(* Faulty kill: the direct child only.                                     *)
killDirectChild == alive \ {Script}

(* killProcessGroup: SIGKILL to the whole group.                           *)
killProcessGroup == alive \cap away

(* The deadline, or the agent's shutdown, wins the select.                 *)
Deadline ==
    /\ at = "race"
    /\ at' = "reap" /\ killed' = TRUE
    /\ alive' = killProcessGroup /\ holds' = holds \cap killProcessGroup
    /\ exit' = IF Script \in alive THEN "killed" ELSE exit
    /\ UNCHANGED <<task, taskDir, cg, away, exec, out, result>>

(* Wait returns, in the race or after the kill; the result is filled in.   *)
WaitReturns ==
    /\ at \in {"race", "reap"} /\ Reaped
    /\ at' = "defer"
    /\ result' = IF killed THEN "timeout" ELSE exit
    /\ UNCHANGED <<task, taskDir, cg, processes, killed, out>>

(* cgroup.Cleanup: kill the cgroup where the kernel can, then remove it if *)
(* it is empty.                                                            *)
Cleanup ==
    LET left == IF cg /\ task.cgroupKill THEN {} ELSE alive
    IN  alive' = left /\ holds' = holds \cap left /\ cg' = (cg /\ left # {})

(* The deferred calls: Cleanup, then RemoveAll of the work directory.      *)
Defers ==
    /\ at = "defer"
    /\ Cleanup
    /\ taskDir' = FALSE /\ at' = "done"
    /\ UNCHANGED <<task, away, exec, exit, killed, out, result>>

RunNext ==
    \/ Gates
    \/ \E ok \in BOOLEAN :
          \/ createTaskWorkdir(ok) \/ WriteScript(ok) \/ prepareTaskCgroup(ok) \/ Start(ok) \/ Shim(ok)
    \/ \E leaves, keeps \in BOOLEAN : Fork(leaves, keeps)
    \/ \E p \in {Script, Child}, how \in {"ok", "error"} : Exits(p, how)
    \/ \E n \in 1..MaxOutput : Prints(n)
    \/ Deadline \/ WaitReturns \/ Defers

-----------------------------------------------------------------------------
(* NothingLeftBehind: a run that returned has removed its directory, and   *)
(* in a cgroup on a kernel that can kill one nothing of it is alive; a run *)
(* that was cut short leaves nothing of its process group alive.           *)
NothingLeftBehind ==
    at = "done" =>
        /\ ~taskDir
        /\ task.cgroup /\ task.cgroupKill => alive = {} /\ ~cg
        /\ killed => alive \subseteq away

(* ResultIsTrue: a run is reported as successful only if the script ran    *)
(* under the limits asked for and exited by itself with success.           *)
ResultIsTrue ==
    result = "ok" => exit = "ok" /\ exec = "limited" /\ ~killed

(* TruncationIsSaid: the output kept is the longest prefix that fits, and  *)
(* the result says it was truncated exactly when something was cut.        *)
TruncationIsSaid ==
    /\ out.len = IF out.total < OutputLimit THEN out.total ELSE OutputLimit
    /\ out.truncated <=> out.total > OutputLimit
=============================================================================
