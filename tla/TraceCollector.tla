---------------------------- MODULE TraceCollector ---------------------------
(***************************************************************************)
(* The life of the trace collector (tracesource.go: applyConfig,           *)
(* startPipeline, restartStream, stop, driveAssembler,                     *)
(* expireSessionsLocally; tracepolicy.Build).  applyMu serialises the      *)
(* configs; the ticks of the pipelines, of which a stopped one may still   *)
(* be finishing its last, take only mu, so every step here is what one     *)
(* goroutine does between two of its mu sections.  The server asks for the *)
(* node floor (level 1) and for one session (level 2).                     *)
(***************************************************************************)
EXTENDS Integers, FiniteSets

CONSTANTS
    Pipes,       \* the pipelines that may exist at one time
    Addrs0,      \* Clash API addresses; 0 is none
    MaxLost,     \* bound: connections an assembler drops
    Width        \* the loss counters are modulo 2^Width (uint64)

VARIABLES
    asked,       \* what the server and the node's files ask for
    late,        \* the session's deadline has passed
    policy,      \* c.policy
    pipe,        \* the running pipeline, 0 for none: runCancel, asm, client, shipper
    pipeAddr,    \* c.addr
    sub,         \* level of the stream that streamCancel stops, 0 when it is stopped
    haveLevel,
    leaked,      \* a stream runs that no cancel func reaches
    raced,       \* a tick's restartStream met another goroutine's change of the stream
    ap,          \* applyConfig: its place and its locals
    dr,          \* driveAssembler of every pipeline: its place and its locals
    asmDropped,  \* asm.Stats().Dropped of every pipeline's assembler
    lastAsmDropped,
    reported, lost,  \* connections the shipper was told are dropped; dropped in truth
    runs         \* pipelines started, up to two

collectorVars == <<asked, late, policy, pipe, pipeAddr, sub, haveLevel, leaked, raced, ap, dr,
                   asmDropped, lastAsmDropped, reported, lost, runs>>
lossVars == <<asmDropped, lastAsmDropped, reported, lost>>
streamVars == <<sub, haveLevel, leaked>>

Modulus == 2 ^ Width
Sets == [floor : BOOLEAN, session : BOOLEAN]
Off == [floor |-> FALSE, session |-> FALSE]
Idle == [at |-> "idle", set |-> Off, up |-> FALSE, have |-> 0]

(* tracepolicy: Build, SubscribeLevel, Enabled.                            *)
Build(cfg) == [floor |-> cfg.floor, session |-> cfg.session /\ ~late]
SubscribeLevel(set) == IF set.session THEN 2 ELSE 1
Enabled(set) == set.floor \/ set.session

CollectorTypeOK ==
    /\ asked \in [floor : BOOLEAN, session : BOOLEAN, addr : Addrs0] /\ policy \in Sets
    /\ {late, leaked, raced} \subseteq BOOLEAN
    /\ pipe \in Pipes \cup {0} /\ pipeAddr \in Addrs0 /\ {sub, haveLevel} \subseteq 0..2
    /\ ap \in [at : {"idle", "decide", "start", "cut", "open"}, set : Sets, up : BOOLEAN, have : 0..2]
    /\ dr \in [Pipes -> [at : {"none", "idle", "write", "cut", "open", "tally"}, set : Sets]]
    /\ asmDropped \in [Pipes -> 0..MaxLost] /\ lastAsmDropped \in 0..MaxLost
    /\ reported \in 0..(Modulus - 1) /\ lost \in 0..MaxLost /\ runs \in 0..2
    /\ (pipe # 0) => dr[pipe].at # "none"

CollectorInit ==
    /\ asked = [floor |-> FALSE, session |-> FALSE, addr |-> 1] /\ late = FALSE /\ policy = Off
    /\ pipe = 0 /\ pipeAddr = 0 /\ sub = 0 /\ haveLevel = 0 /\ leaked = FALSE /\ raced = FALSE
    /\ ap = Idle /\ dr = [p \in Pipes |-> [at |-> "none", set |-> Off]]
    /\ asmDropped = [p \in Pipes |-> 0] /\ lastAsmDropped = 0 /\ reported = 0 /\ lost = 0 /\ runs = 0

-----------------------------------------------------------------------------
(* The server's config and the node's sing-box config change.              *)
Asks ==
    /\ asked' \in [floor : BOOLEAN, session : IF late THEN {FALSE} ELSE BOOLEAN, addr : Addrs0]
    /\ UNCHANGED <<late, policy, pipe, pipeAddr, raced, ap, dr, runs>>
    /\ UNCHANGED streamVars /\ UNCHANGED lossVars

(* The session's deadline passes.                                          *)
Deadline ==
    /\ asked.session /\ late' = TRUE /\ asked' = [asked EXCEPT !.session = FALSE]
    /\ UNCHANGED <<policy, pipe, pipeAddr, raced, ap, dr, runs>> /\ UNCHANGED streamVars /\ UNCHANGED lossVars

(* Some goroutine other than the asking one is between the two mu sections *)
(* of restartStream, or about to enter the first.                          *)
Ticking == {p \in Pipes : dr[p].at \in {"cut", "open"}}

(* stop, all of it: what follows its mu section touches no other state of  *)
(* this module.                                                            *)
stopPipeline ==
    /\ pipe' = 0 /\ pipeAddr' = 0 /\ sub' = 0 /\ haveLevel' = 0
    /\ raced' = (raced \/ Ticking # {})
    /\ UNCHANGED leaked

(* applyConfig's first mu section.                                         *)
ApplyPolicy ==
    /\ ap.at = "idle"
    /\ policy' = Build(asked)
    /\ ap' = [at |-> "decide", set |-> Build(asked), up |-> pipe # 0, have |-> haveLevel]
    /\ UNCHANGED <<asked, late, pipe, pipeAddr, raced, dr, runs>> /\ UNCHANGED streamVars /\ UNCHANGED lossVars

(* Faulty applyConfig: a running stream is right as it is.                 *)
ApplyDecideOnce ==
    /\ ap.at = "decide"
    /\ LET on == Enabled(ap.set) /\ asked.addr # 0
           moved == ap.up /\ pipeAddr # asked.addr
       IN  /\ IF ~on \/ moved THEN stopPipeline ELSE UNCHANGED <<pipe, pipeAddr, raced>> /\ UNCHANGED streamVars
           /\ ap' = IF ~on THEN Idle
                    ELSE IF ~ap.up \/ moved THEN [ap EXCEPT !.at = "start"]
                    ELSE Idle
    /\ UNCHANGED <<asked, late, policy, dr, runs>> /\ UNCHANGED lossVars

(* applyConfig decides: stop for good, stop and start elsewhere, start, or *)
(* renew the stream if its level is not the wanted one.                    *)
ApplyDecide ==
    /\ ap.at = "decide"
    /\ LET on == Enabled(ap.set) /\ asked.addr # 0
           moved == ap.up /\ pipeAddr # asked.addr
       IN  /\ IF ~on \/ moved THEN stopPipeline ELSE UNCHANGED <<pipe, pipeAddr, raced>> /\ UNCHANGED streamVars
           /\ ap' = IF ~on THEN Idle
                    ELSE IF ~ap.up \/ moved THEN [ap EXCEPT !.at = "start"]
                    ELSE IF ap.have = SubscribeLevel(ap.set) THEN Idle
                    ELSE [ap EXCEPT !.at = "cut"]
    /\ UNCHANGED <<asked, late, policy, dr, runs>> /\ UNCHANGED lossVars

(* startPipeline: a new assembler counts from zero; lastAsmDropped is the  *)
(* collector's, and stays.                                                 *)
startPipelineAt(p) ==
    /\ ap.at = "start" /\ dr[p].at = "none"
    /\ IF asked.addr = 0 THEN ap' = Idle /\ UNCHANGED <<pipe, pipeAddr, dr, asmDropped, runs>>
       ELSE /\ pipe' = p /\ pipeAddr' = asked.addr
            /\ dr' = [dr EXCEPT ![p].at = "idle"] /\ asmDropped' = [asmDropped EXCEPT ![p] = 0]
            /\ ap' = [ap EXCEPT !.at = "cut"]
            /\ runs' = IF runs < 2 THEN runs + 1 ELSE runs
    /\ UNCHANGED <<asked, late, policy, raced, lastAsmDropped, reported, lost>> /\ UNCHANGED streamVars

(* restartStream's first mu section: the old stream is cancelled.          *)
unsubscribe == sub' = 0 /\ UNCHANGED <<haveLevel, leaked>>

(* restartStream's second mu section, and the new stream.                  *)
subscribe(level) == sub' = level /\ haveLevel' = level /\ leaked' = (leaked \/ sub # 0)

ApplyCut ==
    /\ ap.at = "cut" /\ unsubscribe
    /\ ap' = IF pipe = 0 THEN Idle ELSE [ap EXCEPT !.at = "open"]
    /\ raced' = (raced \/ Ticking # {})
    /\ UNCHANGED <<asked, late, policy, pipe, pipeAddr, dr, runs>> /\ UNCHANGED lossVars

ApplyOpen ==
    /\ ap.at = "open" /\ subscribe(SubscribeLevel(ap.set)) /\ ap' = Idle
    /\ UNCHANGED <<asked, late, policy, pipe, pipeAddr, raced, dr, runs>> /\ UNCHANGED lossVars

-----------------------------------------------------------------------------
(* The tick of driveAssembler of pipeline p, which its cancellation does   *)
(* not interrupt.  First expireSessionsLocally reads the policy.           *)
TickReads(p) ==
    /\ dr[p].at = "idle" /\ pipe = p
    /\ dr' = [dr EXCEPT ![p] = IF policy.session /\ late THEN [at |-> "write", set |-> policy]
                               ELSE [at |-> "tally", set |-> Off]]
    /\ UNCHANGED <<asked, late, policy, pipe, pipeAddr, raced, ap, runs>>
    /\ UNCHANGED streamVars /\ UNCHANGED lossVars

(* ... then writes back what it rebuilt from it ...                        *)
TickWrites(p) ==
    /\ dr[p].at = "write"
    /\ policy' = Build(dr[p].set)
    /\ IF SubscribeLevel(Build(dr[p].set)) = haveLevel
       THEN dr' = [dr EXCEPT ![p] = [at |-> "tally", set |-> Off]] /\ UNCHANGED raced
       ELSE /\ dr' = [dr EXCEPT ![p] = [at |-> "cut", set |-> Build(dr[p].set)]]
            /\ raced' = (raced \/ Ticking # {} \/ ap.at \notin {"idle", "decide"} \/ pipe # p)
    /\ UNCHANGED <<asked, late, pipe, pipeAddr, ap, runs>> /\ UNCHANGED streamVars /\ UNCHANGED lossVars

(* ... and renews the stream, without applyMu, whoever's pipeline it is.   *)
TickCuts(p) ==
    /\ dr[p].at = "cut" /\ unsubscribe
    /\ dr' = [dr EXCEPT ![p] = IF pipe = 0 THEN [at |-> "tally", set |-> Off] ELSE [@ EXCEPT !.at = "open"]]
    /\ UNCHANGED <<asked, late, policy, pipe, pipeAddr, raced, ap, runs>> /\ UNCHANGED lossVars

TickOpens(p) ==
    /\ dr[p].at = "open" /\ subscribe(SubscribeLevel(dr[p].set))
    /\ dr' = [dr EXCEPT ![p] = [at |-> "tally", set |-> Off]]
    /\ UNCHANGED <<asked, late, policy, pipe, pipeAddr, raced, ap, runs>> /\ UNCHANGED lossVars

(* The delta of the assembler's counter goes to the shipper.               *)
forwarded(p) ==
    /\ reported' = (reported + asmDropped[p] - lastAsmDropped) % Modulus
    /\ lastAsmDropped' = asmDropped[p]

TickTallies(p) ==
    /\ dr[p].at = "tally" /\ forwarded(p)
    /\ dr' = [dr EXCEPT ![p] = [at |-> IF pipe = p THEN "idle" ELSE "none", set |-> Off]]
    /\ UNCHANGED <<asked, late, policy, pipe, pipeAddr, raced, ap, asmDropped, lost, runs>>
    /\ UNCHANGED streamVars

(* driveAssembler sees its context cancelled.                              *)
DriveEnds(p) ==
    /\ dr[p].at = "idle" /\ pipe # p
    /\ dr' = [dr EXCEPT ![p] = [at |-> "none", set |-> Off]]
    /\ UNCHANGED <<asked, late, policy, pipe, pipeAddr, raced, ap, runs>>
    /\ UNCHANGED streamVars /\ UNCHANGED lossVars

(* The assembler of the running pipeline drops a connection.               *)
AsmDrops ==
    /\ pipe # 0 /\ lost < MaxLost
    /\ asmDropped' = [asmDropped EXCEPT ![pipe] = @ + 1] /\ lost' = lost + 1
    /\ UNCHANGED <<asked, late, policy, pipe, pipeAddr, raced, ap, dr, lastAsmDropped, reported, runs>>
    /\ UNCHANGED streamVars

Ticks(p) == TickReads(p) \/ TickWrites(p) \/ TickCuts(p) \/ TickOpens(p) \/ TickTallies(p) \/ DriveEnds(p)
Applying == ApplyDecide \/ (\E p \in Pipes : startPipelineAt(p)) \/ ApplyCut \/ ApplyOpen

CollectorNext ==
    \/ Asks \/ Deadline \/ AsmDrops \/ ApplyPolicy \/ Applying
    \/ \E p \in Pipes : Ticks(p)

-----------------------------------------------------------------------------
(* OneSubscription: applyMu's reason.  Unless a tick renewed the stream    *)
(* while a config was being applied, no stream runs that cannot be         *)
(* cancelled, and none survives the pipeline it feeds.                     *)
OneSubscription == raced \/ (~leaked /\ (pipe = 0 => sub = 0))

(* FirstTally: as long as no second pipeline was started, the shipper is   *)
(* told of every dropped connection exactly once.                          *)
FirstTally ==
    (runs = 1 /\ pipe # 0) => (reported + asmDropped[pipe] - lastAsmDropped = lost)

(* OnlyDeltasTravel: "lastAsmDropped and lastAsmPartial are the assembler  *)
(* counters already forwarded, so only deltas travel": no tick tells the   *)
(* shipper of more dropped connections than were ever dropped.             *)
OnlyDeltasTravel == [][(reported' - reported) % Modulus <= lost]_collectorVars

(* ExpiryIsLocal: "a capture must stop even if the control plane           *)
(* disappears": a policy that holds an expired session loses it while the  *)
(* pipeline runs, heard from the server or not.                            *)
ExpiryIsLocal == (pipe # 0 /\ late /\ policy.session) ~> (pipe = 0 \/ ~policy.session)

(* LevelFollows: once what is asked for stays the same and configs keep    *)
(* coming, the collector runs exactly if it is asked to, with a stream at  *)
(* the wanted level.                                                       *)
LevelFollows ==
    (<>[][~(Asks \/ Deadline)]_collectorVars /\ []<><<ApplyPolicy>>_collectorVars)
        => <>[](/\ policy = Build(asked)
                /\ IF Enabled(policy) /\ asked.addr # 0
                   THEN pipe # 0 /\ pipeAddr = asked.addr /\ sub = SubscribeLevel(policy) /\ haveLevel = sub
                   ELSE pipe = 0)
=============================================================================
