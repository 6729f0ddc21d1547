----------------------------- MODULE BeaconGuard -----------------------------
(***************************************************************************)
(* The receive loop of one beacon socket (loop.serve, loop.process) with   *)
(* its CPU guard and its circuit breaker (internal/beacon/guard.go).  Only *)
(* the number of datagrams per second and what became of them matter, so   *)
(* the budgets are small and a clock tick is one second.                   *)
(***************************************************************************)
EXTENDS Integers, Sequences, FiniteSets

CONSTANTS
    Buckets,       \* buckets of the guard that senders fall into
    GlobalBudget,  \* guardGlobalPerSecond
    BucketBudget,  \* guardPerBucketPerSecond
    HotDrops,      \* breakerDropsPerSecond
    Window,        \* breakerWindowSeconds
    HotSeconds,    \* breakerHotSeconds
    MaxReadErrors  \* maxReadErrors

VARIABLES
    guard,     \* guard.total and guard.buckets, of the second the loop last saw
    breaker,   \* breaker.drops, saturated and the closed seconds, newest first
    lag,       \* seconds since the one the loop last saw, capped at Window
    loop,      \* "reading", "paused" or the stopReason
    readErrs,  \* loop.serve's count of read errors in a row
    minute,    \* ghost: was each of the last Window - 1 seconds hot, newest first
    now,       \* ghost: what the loop read, and dropped past the guard, this second
    lonely     \* ghost: the only bucket that sent, below the global budget

guardVars == <<guard, breaker, lag, loop, readErrs, minute, now, lonely>>

Idle == [total |-> 0, bucket |-> [b \in Buckets |-> 0]]
Closed == Window - 1
Cold(n) == [i \in 1..n |-> FALSE]

GuardTypeOK ==
    /\ guard \in [total : 0..GlobalBudget, bucket : [Buckets -> 0..BucketBudget]]
    /\ breaker \in [drops : 0..GlobalBudget, saturated : BOOLEAN, hot : [1..Closed -> BOOLEAN]]
    /\ lag \in 0..Window
    /\ loop \in {"reading", "paused", "breaker", "failed"}
    /\ readErrs \in 0..MaxReadErrors
    /\ minute \in [1..Closed -> BOOLEAN]
    /\ now \in [read : 0..GlobalBudget, dropped : 0..GlobalBudget]
    /\ lonely \in Buckets \cup {"nobody", "crowd"}

GuardInit ==
    /\ guard = Idle
    /\ breaker = [drops |-> 0, saturated |-> FALSE, hot |-> Cold(Closed)]
    /\ lag = 0 /\ loop = "reading" /\ readErrs = 0
    /\ minute = Cold(Closed) /\ now = [read |-> 0, dropped |-> 0] /\ lonely = "nobody"

-----------------------------------------------------------------------------
isHot(b) == b.saturated \/ b.drops >= HotDrops

(* Faulty advance: quiet seconds are not shifted in.                       *)
advanceNoGap(b) ==
    IF lag = 0 THEN b
    ELSE [drops |-> 0, saturated |-> FALSE,
          hot |-> SubSeq(<<isHot(b)>> \o b.hot, 1, Closed)]

(* advance: the second the breaker counted and the quiet ones after it are *)
(* closed.                                                                 *)
advance(b) ==
    IF lag = 0 THEN b
    ELSE [drops |-> 0, saturated |-> FALSE,
          hot |-> SubSeq(Cold(lag - 1) \o <<isHot(b)>> \o b.hot, 1, Closed)]

record(dropped) == [advance(breaker) EXCEPT !.drops = @ + (IF dropped THEN 1 ELSE 0)]

saturate(b) == [b EXCEPT !.saturated = TRUE]

(* open: enough hot seconds in the window, the oldest of them included.    *)
breakerOpen(b) ==
    /\ b.hot[Closed]
    /\ Cardinality({i \in 1..Closed : b.hot[i]}) + (IF isHot(b) THEN 1 ELSE 0) >= HotSeconds

-----------------------------------------------------------------------------
(* The guard as the first look at a datagram in this second leaves it.     *)
rolled == IF lag = 0 THEN guard ELSE Idle

(* process: guard.allow, then the checks on sender, length and content,    *)
(* all of which (a panic too) count as a drop unless a reply goes out.     *)
process(b, replied) ==
    IF rolled.bucket[b] >= BucketBudget
    THEN [breaker |-> record(FALSE), guard |-> [rolled EXCEPT !.total = @ + 1], dropped |-> FALSE]
    ELSE [breaker |-> record(~replied), dropped |-> ~replied,
          guard |-> [total |-> rolled.total + 1, bucket |-> [rolled.bucket EXCEPT ![b] = @ + 1]]]

(* One turn of loop.serve with a datagram: process it, stop if the breaker *)
(* is open, pause until the next second if the budget is spent.            *)
Datagram(b, replied) ==
    /\ loop = "reading"
    /\ LET p == process(b, replied)
           full == p.guard.total >= GlobalBudget
       IN  /\ guard' = p.guard
           /\ breaker' = IF full /\ ~breakerOpen(p.breaker) THEN saturate(p.breaker) ELSE p.breaker
           /\ loop' = IF breakerOpen(p.breaker) THEN "breaker" ELSE IF full THEN "paused" ELSE "reading"
           /\ now' = [read |-> now.read + 1,
                      dropped |-> now.dropped + (IF p.dropped THEN 1 ELSE 0)]
           /\ lonely' = IF lonely \in {"nobody", b} /\ ~full THEN b ELSE "crowd"
    /\ lag' = 0 /\ readErrs' = 0
    /\ UNCHANGED minute

(* A read error: pause and go on, until there are too many in a row.       *)
ReadError ==
    /\ loop = "reading"
    /\ readErrs' = readErrs + 1
    /\ loop' = IF readErrs' >= MaxReadErrors THEN "failed" ELSE loop
    /\ UNCHANGED <<guard, breaker, lag, minute, now, lonely>>

(* The next second begins; a paused loop reads again.                      *)
Second ==
    /\ loop \in {"reading", "paused"}
    /\ lag' = IF lag < Window THEN lag + 1 ELSE lag
    /\ loop' = "reading"
    /\ minute' = SubSeq(<<now.read >= GlobalBudget \/ now.dropped >= HotDrops>> \o minute, 1, Closed)
    /\ now' = [read |-> 0, dropped |-> 0]
    /\ UNCHANGED <<guard, breaker, readErrs, lonely>>

GuardNext ==
    \/ \E b \in Buckets, replied \in BOOLEAN : Datagram(b, replied)
    \/ ReadError
    \/ Second

-----------------------------------------------------------------------------
(* TripsOnFlood: the socket is closed by the breaker exactly on a flood    *)
(* that has lasted the whole window: its oldest second was hot and so were *)
(* HotSeconds of all, quiet seconds without a datagram counted as such.    *)
TripsOnFlood ==
    LET hot == Cardinality({i \in 1..Closed : minute[i]})
                 + (IF now.dropped >= HotDrops THEN 1 ELSE 0)
    IN  /\ loop = "breaker" => minute[Closed] /\ hot >= HotSeconds
        /\ loop = "reading" /\ lag = 0 /\ now.read > 0 => ~(minute[Closed] /\ hot >= HotSeconds)

(* OneHostCannotTrip: "one host below the global budget cannot close the   *)
(* socket": the guard's refusals for one bucket never feed the breaker.    *)
OneHostCannotTrip == loop = "breaker" => lonely = "crowd"
=============================================================================
