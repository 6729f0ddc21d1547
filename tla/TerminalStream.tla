---------------------------- MODULE TerminalStream ---------------------------
(***************************************************************************)
(* One streamed terminal session (cmd/lattice-agent/terminal_stream.go:    *)
(* runStream, serveStreamConn, pumpInput, streamSink, outputRing; the      *)
(* manager's startSession in terminal.go).  The shell's output goes to a   *)
(* ring and to the attached connection; a connection that breaks takes     *)
(* with it what was on the wire, and the next one replays from the offset  *)
(* the browser has rendered.  Output is the sequence of bytes 1, 2, ...    *)
(* The browser is not part of the repository: it is taken to know the      *)
(* absolute offset it shows, as its resume frame claims.                   *)
(***************************************************************************)
EXTENDS Integers, Sequences, FiniteSetsExt, FiniteSets
LOCAL INSTANCE SequencesExt

CONSTANTS
    Conns,               \* connections, reused once they are over
    RingBytes,           \* terminalStreamRingBytes
    DetachCeiling,       \* terminalStreamDetachCeiling, in ticks
    MaxOutputBytes       \* bound: bytes the shell writes

VARIABLES
    runner,     \* runStream: none (the session is not in m.active), dial, serve, pause, over
    why,        \* why it is over: ended (shell, cap, shutdown), gone, ceiling
    offSince,   \* -1 while disconnectedSince is zero, else the ticks since then
    unseenFor, longest,  \* ticks since a browser was last on an open connection; the most so far
    written, headOff,    \* the ring: totalOff, headOff
    attached,   \* sink.conn, 0 for nil
    servedConn,    \* the connection in serveStreamConn, 0 for none
    conn,       \* the connections
    rendered,   \* bytes the browser shows, as it counts them
    torn        \* the browser passed over a byte unannounced

streamSinkVars == <<written, headOff, attached>>
screenVars == <<rendered, torn>>
terminalVars == <<runner, why, offSince, unseenFor, longest, written, headOff, attached,
                  servedConn, conn, rendered, torn>>

Gap == 0      \* the notice "earlier output was dropped" on the wire
Unused == [up |-> FALSE, browser |-> FALSE, frame |-> -1, timer |-> "off", resumed |-> FALSE, wire |-> <<>>]

TerminalTypeOK ==
    /\ runner \in {"none", "dial", "serve", "pause", "over"} /\ why \in {"", "ended", "gone", "ceiling"}
    /\ offSince \in -1..(DetachCeiling + 1) /\ {unseenFor, longest} \subseteq 0..(DetachCeiling + 1)
    /\ {written, headOff, rendered} \subseteq 0..MaxOutputBytes /\ written - headOff <= RingBytes
    /\ {attached, servedConn} \subseteq Conns \cup {0} /\ torn \in BOOLEAN
    /\ \A c \in Conns : /\ conn[c].timer \in {"off", "armed", "replayed"}
                        /\ conn[c].wire \in Seq(0..MaxOutputBytes)
                        /\ conn[c].frame \in -1..MaxOutputBytes

TerminalInit ==
    /\ runner = "none" /\ why = "" /\ offSince = -1 /\ unseenFor = 0 /\ longest = 0
    /\ written = 0 /\ headOff = 0
    /\ attached = 0 /\ servedConn = 0 /\ conn = [c \in Conns |-> Unused]
    /\ rendered = 0 /\ torn = FALSE

-----------------------------------------------------------------------------
(* startSession, from the poll or from the control stream, and runStream   *)
(* up to its loop.                                                         *)
startStream ==
    /\ runner = "none" /\ runner' = "dial"
    /\ UNCHANGED <<why, offSince, unseenFor, longest, servedConn, conn>>
    /\ UNCHANGED streamSinkVars /\ UNCHANGED screenVars

Running == runner \in {"dial", "serve", "pause"}

(* outputRing.append: what the ring begins with after byte n.              *)
append(n) == Max({headOff, n - RingBytes})

(* The PTY reader: sink.Write records a byte in the ring and forwards it;  *)
(* a write that fails detaches the connection.                             *)
Write ==
    /\ Running /\ written < MaxOutputBytes
    /\ written' = written + 1 /\ headOff' = append(written + 1)
    /\ IF attached # 0 /\ conn[attached].up
       THEN conn' = [conn EXCEPT ![attached].wire = Append(@, written + 1)] /\ UNCHANGED attached
       ELSE attached' = 0 /\ UNCHANGED conn
    /\ UNCHANGED <<runner, why, offSince, unseenFor, longest, servedConn>> /\ UNCHANGED screenVars

(* Faulty tailFrom: an evicted offset replays what there is, unannounced.  *)
tailFromSilent(off) == [i \in 1..(written - Max({off, headOff})) |-> Max({off, headOff}) + i]

(* outputRing.tailFrom, with resumeOnce's notice in front if there is a    *)
(* gap.                                                                    *)
tailFrom(off) ==
    LET tail == [i \in 1..(written - Max({off, headOff})) |-> Max({off, headOff}) + i]
    IN  IF off < headOff THEN <<Gap>> \o tail ELSE tail

(* resumeOnce(c, off): nothing if c is live already; a replay that fails   *)
(* leaves the sink detached, yet counts as a resume.                       *)
resumeOnce(c, off, framed) ==
    LET tail == IF off >= written THEN <<>> ELSE tailFrom(off)
    IN  IF attached = c
        THEN conn' = [conn EXCEPT ![c].frame = -1, ![c].timer = "off"] /\ UNCHANGED attached
        ELSE /\ attached' = IF conn[c].up \/ tail = <<>> THEN c ELSE attached
             /\ conn' = [conn EXCEPT ![c].frame = -1,
                            ![c].timer = IF framed THEN "off" ELSE "replayed",
                            ![c].resumed = @ \/ framed,
                            ![c].wire = IF conn[c].up THEN @ \o tail ELSE @]

(* dialTerminalStream succeeds and serveStreamConn starts; the server has  *)
(* a browser for it or waits for one.                                      *)
DialOK(c, browser) ==
    /\ runner = "dial" /\ ~conn[c].up /\ conn[c].timer # "armed"
    /\ \A d \in Conns : conn[d].timer = "armed" => conn[d].up
    /\ runner' = "serve" /\ servedConn' = c
    /\ conn' = [conn EXCEPT ![c] = [Unused EXCEPT !.up = TRUE, !.browser = browser, !.timer = "armed"]]
    /\ unseenFor' = IF browser THEN 0 ELSE unseenFor
    /\ UNCHANGED <<why, offSince, longest>> /\ UNCHANGED streamSinkVars /\ UNCHANGED screenVars

(* The dial fails: the session is gone on the server, or the ceiling of    *)
(* the disconnection is over, or it waits and dials again.                 *)
DialFails(gone) ==
    /\ runner = "dial"
    /\ offSince' = IF gone THEN offSince ELSE Max({offSince, 0})
    /\ IF gone \/ offSince > DetachCeiling
       THEN runner' = "over" /\ why' = IF gone THEN "gone" ELSE "ceiling"
       ELSE runner' = "pause" /\ UNCHANGED why
    /\ UNCHANGED <<unseenFor, longest, servedConn, conn>> /\ UNCHANGED streamSinkVars /\ UNCHANGED screenVars

(* The browser says what it has rendered.                                  *)
SendsResume(c) ==
    /\ conn[c].up /\ conn[c].browser /\ conn[c].frame = -1 /\ ~conn[c].resumed
    /\ conn' = [conn EXCEPT ![c].frame = rendered]
    /\ UNCHANGED <<runner, why, offSince, unseenFor, longest, servedConn>>
    /\ UNCHANGED streamSinkVars /\ UNCHANGED screenVars

(* pumpInput gets the resume frame.                                        *)
pumpInput(c) ==
    /\ servedConn = c /\ conn[c].up /\ conn[c].frame >= 0
    /\ resumeOnce(c, conn[c].frame, TRUE)
    /\ UNCHANGED <<runner, why, offSince, unseenFor, longest, servedConn, written, headOff>>
    /\ UNCHANGED screenVars

(* The resume wait is over before a frame came: the whole ring is          *)
(* replayed.  The goroutine may lose its connection first, but it acts     *)
(* before the next one is dialled (terminalStreamRedialMin).               *)
ResumeWait(c) ==
    /\ conn[c].timer = "armed" /\ ~conn[c].resumed
    /\ resumeOnce(c, 0, FALSE)
    /\ UNCHANGED <<runner, why, offSince, unseenFor, longest, servedConn, written, headOff>>
    /\ UNCHANGED screenVars

(* The goroutine of the wait sees a resume, or the end of the input.       *)
WaitEnds(c) ==
    /\ conn[c].timer = "armed" /\ (conn[c].resumed \/ ~conn[c].up)
    /\ conn' = [conn EXCEPT ![c].timer = "off"]
    /\ UNCHANGED <<runner, why, offSince, unseenFor, longest, servedConn>>
    /\ UNCHANGED streamSinkVars /\ UNCHANGED screenVars

(* The browser shows what arrives; a notice tells it to count anew.        *)
Renders(c) ==
    /\ conn[c].up /\ conn[c].browser /\ conn[c].wire # <<>>
    /\ LET b == Head(conn[c].wire)
       IN  /\ rendered' = IF b = Gap THEN headOff ELSE Max({b, rendered})
           /\ torn' = (torn \/ (b # Gap /\ b > rendered + 1))
    /\ conn' = [conn EXCEPT ![c].wire = Tail(@)]
    /\ UNCHANGED <<runner, why, offSince, unseenFor, longest, servedConn>> /\ UNCHANGED streamSinkVars

(* The connection breaks, and what is on the wire is lost.                 *)
Breaks(c) ==
    /\ conn[c].up
    /\ conn' = [conn EXCEPT ![c].up = FALSE, ![c].wire = <<>>, ![c].frame = -1]
    /\ UNCHANGED <<runner, why, offSince, unseenFor, longest, servedConn>>
    /\ UNCHANGED streamSinkVars /\ UNCHANGED screenVars

(* disconnectedSince after a connection: zero if a resume frame came.      *)
disconnected(c) == IF conn[c].resumed THEN -1 ELSE Max({offSince, 0})

(* serveStreamConn returns after the break, and runStream goes on.         *)
ServeReturns ==
    /\ runner = "serve" /\ ~conn[servedConn].up
    /\ attached' = IF attached = servedConn THEN 0 ELSE attached
    /\ servedConn' = 0 /\ offSince' = disconnected(servedConn)
    /\ IF disconnected(servedConn) > DetachCeiling
       THEN runner' = "over" /\ why' = "ceiling" ELSE runner' = "pause" /\ UNCHANGED why
    /\ UNCHANGED <<unseenFor, longest, written, headOff, conn>> /\ UNCHANGED screenVars

(* The backoff passes.                                                     *)
Redials ==
    /\ runner = "pause" /\ runner' = "dial"
    /\ UNCHANGED <<why, offSince, unseenFor, longest, servedConn, conn>>
    /\ UNCHANGED streamSinkVars /\ UNCHANGED screenVars

(* The shell exits, a cap is reached or the agent stops: the loop ends     *)
(* with finishStream.                                                      *)
Finishes ==
    /\ Running /\ runner' = "over" /\ why' = "ended"
    /\ attached' = 0 /\ servedConn' = 0 /\ conn' = [c \in Conns |-> Unused]
    /\ UNCHANGED <<offSince, unseenFor, longest, written, headOff>> /\ UNCHANGED screenVars

TerminalTick ==
    /\ Running
    /\ offSince' = IF offSince \in 0..DetachCeiling THEN offSince + 1 ELSE offSince
    /\ unseenFor' = IF \E c \in Conns : conn[c].up /\ conn[c].browser THEN 0
                    ELSE Min({unseenFor + 1, DetachCeiling + 1})
    /\ longest' = Max({longest, unseenFor'}) /\ (offSince' # offSince \/ unseenFor' # unseenFor)
    /\ UNCHANGED <<runner, why, servedConn, conn>> /\ UNCHANGED streamSinkVars /\ UNCHANGED screenVars

TerminalNext ==
    \/ startStream \/ Write \/ ServeReturns \/ Redials \/ Finishes \/ TerminalTick
    \/ \E gone \in BOOLEAN : DialFails(gone)
    \/ \E c \in Conns : \/ SendsResume(c) \/ pumpInput(c) \/ ResumeWait(c) \/ WaitEnds(c)
                        \/ Renders(c) \/ Breaks(c)
                        \/ \E browser \in BOOLEAN : DialOK(c, browser)

-----------------------------------------------------------------------------
(* NoSilentGap: however connections break and resume, the browser never    *)
(* passes over output without being told.                                  *)
NoSilentGap == ~torn

(* OutputFlows: while a browser stays on an open connection, all that the  *)
(* shell has written comes to be shown.                                    *)
OutputFlows ==
    (/\ \E c \in Conns : <>[](runner = "serve" /\ servedConn = c /\ conn[c].up /\ conn[c].browser)
     /\ <>[][~\E c \in Conns : SendsResume(c)]_terminalVars)
        => <>[](rendered = written)

(* AbandonedEnds: a session whose browser never comes back does not keep   *)
(* its shell for ever, even while the server goes on accepting dials.      *)
AbandonedEnds ==
    (<>[](\A c \in Conns : ~(conn[c].up /\ conn[c].browser)) /\ []<>(runner \in {"none", "dial", "over"}))
        => <>[](runner \in {"none", "over"})

(* NeverOnABlip: the shell is killed "never on a mere network blip": the   *)
(* ceiling ends a session only after that long without a browser in a row. *)
NeverOnABlip == (why = "ceiling") => (longest > DetachCeiling)
=============================================================================
