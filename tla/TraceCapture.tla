----------------------------- MODULE TraceCapture ----------------------------
(***************************************************************************)
(* The capture of one session in the trace collector (tracesource.go:      *)
(* onEntry, bufferPending, claimPending, forgetConn; tracepolicy.Match).   *)
(* The session is filtered by user, and a connection's user is known only  *)
(* from some line on, so its opening lines wait in a bounded buffer.  A    *)
(* line is its number in its connection.                                   *)
(***************************************************************************)
EXTENDS Integers, Sequences, FiniteSets
LOCAL INSTANCE SequencesExt

CONSTANTS
    CapIds,              \* log ids
    TracePendingPerConn, TracePendingConns,  \* tracePendingPerConn, tracePendingConns
    MaxLines             \* bound: lines of a connection

VARIABLES
    active,     \* the policy still has the session
    linesSeen,      \* lines seen of every id's connection
    matched,    \* ids whose user is known to be the session's
    pending,    \* the buffered lines of every id
    pendingOrder,
    tagged,     \* ids the session claimed
    shipped,    \* the lines of the current connection sent under the session
    cut         \* ids that lost a buffered line to one of the bounds

captureVars == <<active, linesSeen, matched, pending, pendingOrder, tagged, shipped, cut>>

CaptureTypeOK ==
    /\ active \in BOOLEAN /\ linesSeen \in [CapIds -> 0..MaxLines]
    /\ {matched, tagged, cut} \subseteq SUBSET CapIds
    /\ pending \in [CapIds -> Seq(1..MaxLines)] /\ pendingOrder \in Seq(CapIds)
    /\ shipped \in [CapIds -> SUBSET (1..MaxLines)]

CaptureInit ==
    /\ active = TRUE /\ linesSeen = [i \in CapIds |-> 0] /\ matched = {}
    /\ pending = [i \in CapIds |-> <<>>] /\ pendingOrder = <<>> /\ tagged = {}
    /\ shipped = [i \in CapIds |-> {}] /\ cut = {}

Without(s, id) == SelectSeq(s, LAMBDA x : x # id)

-----------------------------------------------------------------------------
(* bufferPending: a new id beyond the bound evicts the oldest one, and a   *)
(* line beyond a connection's bound is not kept.                           *)
bufferPending(id, n) ==
    LET full == pending[id] = <<>> /\ Len(pendingOrder) >= TracePendingConns
        kept == IF full THEN [pending EXCEPT ![Head(pendingOrder)] = <<>>] ELSE pending
        lost == IF full THEN {Head(pendingOrder)} ELSE {}
    IN  /\ pendingOrder' = IF pending[id] # <<>> THEN pendingOrder
                           ELSE Append(IF full THEN Tail(pendingOrder) ELSE pendingOrder, id)
        /\ IF Len(pending[id]) >= TracePendingPerConn
           THEN pending' = kept /\ cut' = cut \cup lost \cup {id}
           ELSE pending' = [kept EXCEPT ![id] = Append(@, n)] /\ cut' = cut \cup lost

(* Faulty claimPending: the session gets the lines from here on.           *)
claimPendingNow(id, n) ==
    /\ tagged' = tagged \cup {id}
    /\ shipped' = [shipped EXCEPT ![id] = @ \cup {n}]
    /\ pending' = [pending EXCEPT ![id] = <<>>] /\ pendingOrder' = Without(pendingOrder, id)

(* claimPending: the session gets the lines that waited, and this one.     *)
claimPending(id, n) ==
    /\ tagged' = tagged \cup {id}
    /\ shipped' = [shipped EXCEPT ![id] = @ \cup ToSet(pending[id]) \cup {n}]
    /\ pending' = [pending EXCEPT ![id] = <<>>] /\ pendingOrder' = Without(pendingOrder, id)

(* onEntry for a kept line with a log id; named, the line or one before it *)
(* names the session's user.                                               *)
onEntry(id, named) ==
    LET n == linesSeen[id] + 1
        m == IF named THEN matched \cup {id} ELSE matched
    IN  /\ n <= MaxLines
        /\ linesSeen' = [linesSeen EXCEPT ![id] = n] /\ matched' = m
        /\ IF id \in tagged
           THEN /\ shipped' = [shipped EXCEPT ![id] = @ \cup {n}]
                /\ UNCHANGED <<pending, pendingOrder, tagged, cut>>
           ELSE IF active /\ id \in m THEN claimPending(id, n) /\ UNCHANGED cut
           ELSE bufferPending(id, n) /\ UNCHANGED <<shipped, tagged>>
        /\ UNCHANGED active

(* forgetConn: the connection's final record was drained.                  *)
forgetConn(id) ==
    /\ tagged' = tagged \ {id}
    /\ pending' = [pending EXCEPT ![id] = <<>>] /\ pendingOrder' = Without(pendingOrder, id)

(* A connection ends, and its id is free for another one.                  *)
Ended(id) ==
    /\ linesSeen[id] > 0
    /\ forgetConn(id)
    /\ linesSeen' = [linesSeen EXCEPT ![id] = 0] /\ matched' = matched \ {id}
    /\ shipped' = [shipped EXCEPT ![id] = {}] /\ cut' = cut \ {id}
    /\ UNCHANGED active

(* The session's deadline, or its end on the server, reaches the policy.   *)
SessionEnds ==
    /\ active /\ active' = FALSE
    /\ UNCHANGED <<linesSeen, matched, pending, pendingOrder, tagged, shipped, cut>>

CaptureNext ==
    \/ \E id \in CapIds : Ended(id) \/ \E named \in BOOLEAN : onEntry(id, named)
    \/ SessionEnds

-----------------------------------------------------------------------------
(* BufferAgrees: the buffer's order lists exactly the connections that     *)
(* have lines waiting, none twice, within the bounds, so that an eviction  *)
(* always frees what it counts; a claimed connection has none waiting.     *)
BufferAgrees ==
    /\ ToSet(pendingOrder) = {i \in CapIds : pending[i] # <<>>} /\ IsInjective(pendingOrder)
    /\ Len(pendingOrder) <= TracePendingConns
    /\ \A i \in CapIds : Len(pending[i]) <= TracePendingPerConn /\ (i \in tagged => pending[i] = <<>>)

(* WholeChain: the session gets every line of a connection it claims, from *)
(* the first on, unless a bound of the buffer cut its beginning.           *)
WholeChain == \A i \in tagged \ cut : shipped[i] = 1..linesSeen[i]

(* CaptureStops: "a capture must stop even if the control plane            *)
(* disappears": no line goes out under a session that has ended.           *)
CaptureStops ==
    [][active \/ \A i \in CapIds : shipped'[i] \subseteq shipped[i]]_captureVars
=============================================================================
