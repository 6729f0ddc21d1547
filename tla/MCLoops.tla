------------------------------ MODULE MCLoops ------------------------------
(* The loops that must go on: the witness, the beacon responder, the       *)
(* supervised agent, and the terminals over the stream and over polls.     *)
(* The models share no state, so a behaviour takes the steps of one.       *)
EXTENDS Witness, BeaconResponder, Supervise, TerminalStream, TerminalPoll

VARIABLE part   \* the part whose steps a behaviour takes

Parts == {"witness", "beacon", "watchdog", "stream", "poll"}

MCInit ==
    /\ part \in Parts
    /\ WitnessInit /\ BeaconInit /\ SuperviseInit /\ TerminalInit /\ PollInit

MCNext ==
    \/ part = "witness" /\ WitnessNext
       /\ UNCHANGED <<part, beaconVars, superviseVars, terminalVars, pollVars>>
    \/ part = "beacon" /\ BeaconNext
       /\ UNCHANGED <<part, witnessVars, superviseVars, terminalVars, pollVars>>
    \/ part = "watchdog" /\ SuperviseNext
       /\ UNCHANGED <<part, witnessVars, beaconVars, terminalVars, pollVars>>
    \/ part = "stream" /\ TerminalNext
       /\ UNCHANGED <<part, witnessVars, beaconVars, superviseVars, pollVars>>
    \/ part = "poll" /\ PollNext
       /\ UNCHANGED <<part, witnessVars, beaconVars, superviseVars, terminalVars>>

mcVars == <<part, witnessVars, beaconVars, superviseVars, terminalVars, pollVars>>

MCSpec == MCInit /\ [][MCNext]_mcVars

(* Tick's steps follow each other, the service manager starts the process  *)
(* again, the ticker fires, and a push tried again and again is delivered. *)
WitnessFairness ==
    /\ WF_witnessVars(part = "witness" /\ \E ok \in BOOLEAN : PushEnds(ok) \/ Save(ok))
    /\ WF_witnessVars(part = "witness" /\ \E ok, changed \in BOOLEAN : WitnessStart(ok, changed))
    /\ WF_witnessVars(part = "witness" /\ \E a \in Answers : Check(1, 0, a))
    /\ SF_witnessVars(part = "witness" /\ PushEnds(TRUE))

(* Goroutines run, and the clock.                                          *)
BeaconFairness ==
    /\ \A s \in Sockets : WF_beaconVars(part = "beacon" /\ (LoopEnds(s) \/ LoopReturns(s, "closed")))
    /\ WF_beaconVars(part = "beacon" /\ BeaconTick)

(* The clock, the goroutines' timers and systemd go on.                    *)
SuperviseFairness ==
    /\ WF_superviseVars(part = "watchdog" /\ Time)
    /\ WF_superviseVars(part = "watchdog" /\ (BeatDone \/ Beat))
    /\ WF_superviseVars(part = "watchdog" /\ (WatchdogTick \/ Kill))
    /\ WF_superviseVars(part = "watchdog" /\ (CycleEnd \/ CycleStart))

(* Timers fire, frames arrive, goroutines go on and requests are answered. *)
TerminalFairness ==
    /\ WF_terminalVars(part = "stream" /\ (ServeReturns \/ Redials))
    /\ WF_terminalVars(part = "stream" /\ TerminalTick)
    /\ WF_terminalVars(part = "stream" /\ ((\E gone \in BOOLEAN : DialFails(gone))
                                            \/ \E c \in Conns, browser \in BOOLEAN : DialOK(c, browser)))
    /\ \A c \in Conns :
        /\ WF_terminalVars(part = "stream" /\ (pumpInput(c) \/ ResumeWait(c)))
        /\ WF_terminalVars(part = "stream" /\ Renders(c))
    /\ WF_pollVars(part = "poll" /\ runControlLoop) /\ WF_pollVars(part = "poll" /\ poll)
    /\ WF_pollVars(part = "poll" /\ \E ok \in BOOLEAN : runControlOnce(ok))
    /\ WF_pollVars(part = "poll" /\ \E ok \in BOOLEAN : PollStarts(ok))
    /\ \A r \in Runners :
        WF_pollVars(part = "poll" /\ pollInputs(r)) /\ WF_pollVars(part = "poll" /\ Steps(r))

MCFairSpec ==
    MCSpec /\ WitnessFairness /\ BeaconFairness /\ SuperviseFairness /\ TerminalFairness

(* LoopsTypeOK: the type invariant of the part at work.                    *)
LoopsTypeOK ==
    CASE part = "witness" -> WitnessTypeOK
      [] part = "beacon" -> BeaconTypeOK
      [] part = "watchdog" -> SuperviseTypeOK
      [] part = "stream" -> TerminalTypeOK
      [] part = "poll" -> PollTypeOK
=============================================================================
