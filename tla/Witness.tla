------------------------------- MODULE Witness -------------------------------
(***************************************************************************)
(* The control-plane witness (internal/witness): a process of its own that *)
(* checks the control plane, and some references when it does not answer,  *)
(* and pushes one alert per outage and one per recovery through a Bark     *)
(* server.  It saves its state after every check and may be stopped,       *)
(* killed and started again at any moment.                                 *)
(*                                                                         *)
(* Time is counted in check intervals and capped where only "long enough"  *)
(* matters.  The wall clock may be stepped while the witness runs; across  *)
(* a restart the saved wall time is all the code has, and it is right.     *)
(***************************************************************************)
EXTENDS Integers, FiniteSetsExt

CONSTANTS
    Hold, Recover,   \* Config.Hold, Config.Recover, in intervals
    MaxGap,          \* Config.maxGap
    MaxLosses        \* bound: process ends, files and answers that lose something

VARIABLES
    w,        \* Witness.state
    saved,    \* the state file
    checked,  \* Witness.checked: this process has checked before
    pc,       \* where Tick is: "off", "idle", "push" or "save"
    owed,     \* the push observe asked for
    away,     \* real time since the check the file records
    bad,      \* ghost: for how long checks have failed without an answer, -1: no
    last,     \* ghost: the kind of the last push Bark delivered
    repeats,  \* ghost: pushes delivered twice in a row
    losses    \* ghost: process ends, files and answers that lost something

witnessVars == <<w, saved, checked, pc, owed, away, bad, last, repeats, losses>>

Alerts == {"down", "recovery"}
Cap(n, bound) == IF n < bound THEN n ELSE bound
Fresh == [failFor |-> 0, fails |-> 0, okFor |-> 0, oks |-> 0, started |-> FALSE,
          netDown |-> FALSE, alerted |-> FALSE]

WitnessTypeOK ==
    /\ {w, saved} \subseteq [failFor : 0..Hold, fails : 0..2, okFor : 0..Recover,
                             oks : 0..2, started : BOOLEAN, netDown : BOOLEAN,
                             alerted : BOOLEAN]
    /\ checked \in BOOLEAN
    /\ pc \in {"off", "idle", "push", "save"}
    /\ owed \in Alerts
    /\ away \in 0..(MaxGap + 1)
    /\ bad \in -1..Hold
    /\ last \in Alerts
    /\ repeats \in Nat /\ losses \in 0..MaxLosses

WitnessInit ==
    /\ w = Fresh /\ saved = Fresh /\ checked = FALSE
    /\ pc = "off" /\ owed = "down" /\ away = 0
    /\ bad = -1 /\ last = "recovery" /\ repeats = 0 /\ losses = 0

-----------------------------------------------------------------------------
(* sinceLastCheck: inside one process the monotonic clock counts and the   *)
(* wall clock can only break the runs; the first check of a process has    *)
(* the saved wall time.                                                    *)
sinceLastCheck(mono, wall) ==
    IF ~w.started THEN [step |-> 0, gap |-> FALSE]
    ELSE IF checked THEN [step |-> mono, gap |-> mono > MaxGap \/ wall > MaxGap]
    ELSE [step |-> wall, gap |-> wall < 0 \/ wall > MaxGap]

(* The runs after the time since the last check is added to them.          *)
Aged(t) ==
    IF t.gap
    THEN [w EXCEPT !.failFor = 0, !.fails = 0, !.okFor = 0, !.oks = 0, !.started = TRUE]
    ELSE [w EXCEPT !.failFor = IF w.fails > 0 THEN Cap(@ + t.step, Hold) ELSE @,
                   !.okFor = IF w.oks > 0 THEN Cap(@ + t.step, Recover) ELSE @,
                   !.started = TRUE]

Answered(s) ==
    [s EXCEPT !.netDown = FALSE, !.failFor = 0, !.fails = 0,
              !.okFor = IF s.oks = 0 THEN 0 ELSE @, !.oks = Cap(@ + 1, 2)]

NothingAnswers(s) == [s EXCEPT !.okFor = 0, !.oks = 0, !.netDown = TRUE]

(* Faulty run of failures: a network outage of this node ends it.          *)
FailedRestarts(s) ==
    LET fails == IF s.netDown THEN 0 ELSE s.fails
    IN  [s EXCEPT !.okFor = 0, !.oks = 0, !.netDown = FALSE,
                  !.failFor = IF fails = 0 THEN 0 ELSE @, !.fails = Cap(fails + 1, 2)]

Failed(s) ==
    [s EXCEPT !.okFor = 0, !.oks = 0, !.netDown = FALSE,
              !.failFor = IF s.fails = 0 THEN 0 ELSE @, !.fails = Cap(@ + 1, 2)]

(* observe: the new state s' and whether it owes a push of kind k.         *)
Owes(s, next, k) ==
    IF k = "recovery"
    THEN next.alerted /\ next.oks >= 2 /\ next.okFor >= Recover
    ELSE ~next.alerted /\ next.fails >= 2 /\ next.failFor >= Hold /\ ~s.netDown

Observed(s, next, kind) ==
    /\ w' = next
    /\ IF Owes(s, next, kind) THEN pc' = "push" /\ owed' = kind
                              ELSE pc' = "save" /\ UNCHANGED owed

(* One check, d intervals after the last one anybody made; the wall clock  *)
(* was stepped by j meanwhile.  Tick records nothing of a check that ctx   *)
(* cut short, which is Stop below.                                         *)
Check(d, j, answer) ==
    /\ pc = "idle"
    /\ checked' = TRUE
    /\ away' = Cap(away + d, MaxGap + 1)
    /\ LET s == Aged(sinceLastCheck(d, (IF checked THEN d + j ELSE away + d)))
       IN  \/ answer = "ok" /\ Observed(s, Answered(s), "recovery") /\ bad' = -1
           \/ /\ answer = "failed" /\ Observed(s, Failed(s), "down")
              /\ bad' = IF bad < 0 THEN 0 ELSE Cap(bad + d, Hold)
           \/ /\ answer = "nothing" /\ w' = NothingAnswers(s)
              /\ pc' = "save" /\ UNCHANGED owed
              /\ bad' = IF bad < 0 THEN bad ELSE Cap(bad + d, Hold)
    /\ UNCHANGED <<saved, last, repeats, losses>>

-----------------------------------------------------------------------------
Delivered(kind) ==
    /\ last' = kind
    /\ repeats' = IF last = kind THEN repeats + 1 ELSE repeats

(* pushed: only a delivered push moves the alert.                          *)
pushed(ok) ==
    IF ok THEN w' = [w EXCEPT !.alerted = (owed = "down")] /\ Delivered(owed)
          ELSE UNCHANGED <<w, last, repeats>>

(* Push answers; a push whose answer is lost may have arrived.             *)
PushEnds(ok) ==
    /\ pc = "push"
    /\ \/ pushed(ok) /\ UNCHANGED losses
       \/ /\ ~ok /\ UNCHANGED w /\ Delivered(owed)
          /\ losses < MaxLosses /\ losses' = losses + 1
    /\ pc' = "save"
    /\ UNCHANGED <<saved, checked, owed, away, bad>>

Save(ok) ==
    /\ pc = "save"
    /\ pc' = "idle"
    /\ IF ok THEN saved' = w /\ away' = 0 ELSE UNCHANGED <<saved, away>>
    /\ UNCHANGED <<w, checked, owed, bad, last, repeats, losses>>

(* The process ends; a check or a push the file misses is a loss.          *)
Ends(file, missed) ==
    /\ pc' = "off"
    /\ saved' = file
    /\ IF missed THEN losses < MaxLosses /\ losses' = losses + 1 ELSE UNCHANGED losses

(* ctx ends between two checks, or during one or a push: Run saves once    *)
(* more.  Whether a push that was cut short arrived is unknown.            *)
Stop(ok) ==
    /\ pc \in {"idle", "push"}
    /\ LET file == IF ok THEN w ELSE saved
       IN  \/ Ends(file, ~ok /\ away # 0) /\ UNCHANGED <<last, repeats>>
           \/ pc = "push" /\ Delivered(owed) /\ Ends(file, TRUE)
    /\ away' = IF ok THEN 0 ELSE away
    /\ UNCHANGED <<w, checked, owed, bad>>

(* The process is killed.                                                  *)
Crash ==
    /\ pc # "off"
    /\ \/ Ends(saved, away # 0) /\ UNCHANGED <<last, repeats>>
       \/ pc = "push" /\ Delivered(owed) /\ Ends(saved, TRUE)
    /\ UNCHANGED <<w, checked, owed, away, bad>>

(* LoadState: a file that cannot be read is a fresh state.                 *)
LoadState(ok) == IF ok THEN saved ELSE Fresh

(* Faulty adopt: a new configuration starts from nothing.                  *)
adoptFresh(st, changed) == IF changed THEN Fresh ELSE st

(* adopt: a new configuration restarts the runs and keeps the alert.       *)
adopt(st, changed) ==
    IF changed THEN [Fresh EXCEPT !.alerted = st.alerted] ELSE st

(* Start and New.  Losing the file is a loss.                              *)
WitnessStart(ok, changed) ==
    /\ pc = "off"
    /\ w' = adopt(LoadState(ok), changed)
    /\ checked' = FALSE
    /\ pc' = "idle"
    /\ IF ok THEN UNCHANGED losses ELSE losses < MaxLosses /\ losses' = losses + 1
    /\ UNCHANGED <<saved, owed, away, bad, last, repeats>>

Waits == 1..(MaxGap + 1)
Jumps == {-MaxGap - 2, 0, 1}
Answers == {"ok", "failed", "nothing"}

WitnessNext ==
    \/ \E d \in Waits, j \in Jumps, a \in Answers : Check(d, j, a)
    \/ \E ok \in BOOLEAN : PushEnds(ok) \/ Save(ok) \/ Stop(ok)
    \/ Crash
    \/ \E ok, changed \in BOOLEAN : WitnessStart(ok, changed)

-----------------------------------------------------------------------------
(* NoEarlyAlert: a "down" push is owed only when checks have really failed *)
(* for the hold time, whatever the wall clock did and however often the    *)
(* witness was restarted, as long as the file missed nothing.              *)
NoEarlyAlert == pc = "push" /\ owed = "down" /\ losses = 0 => bad >= Hold

(* NeitherTwiceNorForgotten: "a witness restarted in the middle of an      *)
(* outage neither pushes twice nor forgets to push the recovery": a push   *)
(* is repeated at most once per process end, file or answer that lost      *)
(* something, and otherwise the alert says what the operator was told last *)
NeitherTwiceNorForgotten ==
    /\ repeats <= losses
    /\ losses = 0 /\ pc # "off" => (w.alerted <=> last = "down")

(* A check per interval, by a process that keeps running.                  *)
Steady == pc = "idle" => \E a \in Answers : Check(1, 0, a)

(* OutageAnnounced: a control plane that never answers again is announced, *)
(* although this node's own network drops now and then, once the witness   *)
(* runs steadily and the network now and then lasts for two checks.        *)
OutageAnnounced ==
    /\ <>[][Steady /\ pc' # "off"]_witnessVars
    /\ <>[](bad >= 0)
    /\ []<><<~w.netDown /\ Check(1, 0, "failed")>>_witnessVars
    => <>(w.alerted)

(* RecoveryAnnounced: an announced outage is followed by its recovery      *)
(* push once the control plane answers steadily.                           *)
RecoveryAnnounced ==
    <>[][(pc = "idle" => Check(1, 0, "ok")) /\ pc' # "off"]_witnessVars
    => <>[]~w.alerted
=============================================================================
