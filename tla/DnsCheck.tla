------------------------------ MODULE DnsCheck ------------------------------
(***************************************************************************)
(* One dns check of a node (internal/prober: probeDNS, resolveTarget,      *)
(* addrContext, dialJudged and the exchanges): one question put to a       *)
(* resolver that may have several addresses, within the check's timeout.   *)
(* An address is whether it is public; what a resolver sends is a response *)
(* that echoes the query's id or not, with a header of a response or not,  *)
(* truncated or not, for the rest in order and about the question or not,  *)
(* with a code and values.                                                 *)
(***************************************************************************)
EXTENDS Integers, Sequences, FiniteSets
LOCAL INSTANCE FiniteSetsExt

CONSTANTS
    Transports,     \* a subset of {"udp", "tcp", "dot", "doh"}
    Questions,      \* checks: the rcode ("" or "NXDOMAIN") and values expected
    Responses,      \* what a resolver may send
    MaxAddrs,       \* bound: addresses of a resolver
    DnsTimeout,     \* monitorTimeout(m)
    MinDialSlice    \* minDialSlice

VARIABLES
    dnsAt,       \* where probeDNS is
    transport, question,
    addrs,       \* what the name resolved to
    dnsClock, exchangeAt,   \* time of the run, and when its exchange began
    cur, until,  \* the address being tried and the end of its share
    tried,       \* the addresses a packet was sent to
    answeredBy,        \* the address that answered or accepted (0: none)
    again,       \* the question is being asked again, over TCP
    reply,       \* the response that was decoded last
    dnsVerdict      \* the result: "" until there is one

dnsVars == <<dnsAt, transport, question, addrs, dnsClock, exchangeAt,
             cur, until, tried, answeredBy, again, reply, dnsVerdict>>

NoReply == [id |-> FALSE, head |-> FALSE, truncated |-> FALSE, body |-> FALSE, rcode |-> "", values |-> {}]
Failures == {"transport", "rcode", "no_answer", "mismatch"}

DnsTypeOK ==
    /\ dnsAt \in {"lookup", "ask", "dial", "stream", "done"}
    /\ transport \in Transports /\ question \in Questions
    /\ addrs \in Seq(BOOLEAN) /\ Len(addrs) <= MaxAddrs
    /\ {dnsClock, exchangeAt, until} \subseteq 0..DnsTimeout
    /\ cur \in 0..MaxAddrs /\ answeredBy \in 0..MaxAddrs /\ tried \subseteq 1..MaxAddrs
    /\ again \in BOOLEAN /\ reply \in Responses \cup {NoReply}
    /\ dnsVerdict \in {"", "success", "refused", "cancelled"} \cup Failures

DnsInit ==
    /\ dnsAt = "lookup" /\ transport \in Transports /\ question \in Questions
    /\ addrs = <<>> /\ dnsClock = 0 /\ exchangeAt = 0 /\ cur = 0 /\ until = DnsTimeout
    /\ tried = {} /\ answeredBy = 0 /\ again = FALSE /\ reply = NoReply /\ dnsVerdict = ""

check == <<transport, question>>
Ends(v) == dnsAt' = "done" /\ dnsVerdict' = v

-----------------------------------------------------------------------------
(* Faulty addrContext: every address gets all the time there is.           *)
addrContextAll(left) == DnsTimeout

(* addrContext: where the share ends that an address gets from now on, one *)
(* of left addresses to try.                                               *)
addrContext(left) ==
    LET rest == DnsTimeout - dnsClock
        slice == rest \div left
    IN  IF left = 1 THEN DnsTimeout
        ELSE dnsClock + (IF slice < MinDialSlice THEN Min({MinDialSlice, rest}) ELSE slice)

(* resolveTarget's rule: one address that is not public refuses the run.   *)
resolveTarget(found) == \A i \in DOMAIN found : found[i]

(* The name is looked up, once, and the exchange begins.                   *)
Resolved(found) ==
    /\ dnsAt = "lookup" /\ dnsClock < DnsTimeout
    /\ addrs' = found
    /\ IF resolveTarget(found)
       THEN /\ dnsAt' = IF transport = "udp" THEN "ask" ELSE "dial"
            /\ cur' = 1 /\ exchangeAt' = dnsClock /\ until' = addrContext(Len(found))
            /\ tried' = {1} /\ UNCHANGED dnsVerdict
       ELSE Ends("refused") /\ UNCHANGED <<cur, exchangeAt, until, tried>>
    /\ UNCHANGED <<check, dnsClock, answeredBy, again, reply>>

(* No such name, or no answer in time.                                     *)
LookupFails ==
    /\ dnsAt = "lookup" /\ Ends("transport")
    /\ UNCHANGED <<check, addrs, dnsClock, exchangeAt, cur, until, tried, answeredBy, again, reply>>

(* judge: the verdict on a whole answer.                                   *)
judgeAnswer(a) ==
    IF question.rcode = "NXDOMAIN" THEN (IF a.rcode = "NXDOMAIN" THEN "success" ELSE "rcode")
    ELSE IF a.rcode # "NOERROR" THEN "rcode"
    ELSE IF a.values = {} THEN "no_answer"
    ELSE IF ~(question.expect \subseteq a.values) THEN "mismatch"
    ELSE "success"

(* An address refuses, cannot be reached, or its share is over: the next   *)
(* one, unless the run's time is over or the TCP retry has only the one.   *)
TryNext ==
    /\ dnsAt \in {"ask", "dial"}
    /\ IF cur = Len(addrs) \/ again \/ dnsClock >= DnsTimeout
       THEN Ends("transport") /\ UNCHANGED <<cur, until, tried>>
       ELSE /\ cur' = cur + 1 /\ until' = addrContext(Len(addrs) - cur) /\ tried' = tried \cup {cur + 1}
            /\ UNCHANGED <<dnsAt, dnsVerdict>>
    /\ UNCHANGED <<check, addrs, dnsClock, exchangeAt, answeredBy, again, reply>>

(* dnsDecode and what probeDNS makes of it: a truncated UDP answer is the  *)
(* one thing that is asked again.                                          *)
Decoded(a, checkID) ==
    /\ reply' = a
    /\ IF a.head /\ (checkID => a.id) /\ a.truncated /\ dnsAt = "ask"
       THEN dnsAt' = "dial" /\ again' = TRUE /\ until' = DnsTimeout /\ UNCHANGED dnsVerdict
       ELSE /\ Ends(IF a.head /\ (checkID => a.id) /\ ~a.truncated /\ a.body
                    THEN judgeAnswer(a) ELSE "transport")
            /\ UNCHANGED <<until, again>>
    /\ UNCHANGED <<cur, tried>>

(* askUDP reads a datagram; one that does not echo the id is ignored.      *)
DnsDatagram(a) ==
    /\ dnsAt = "ask" /\ a.id /\ answeredBy' = cur
    /\ Decoded(a, TRUE)
    /\ UNCHANGED <<check, addrs, dnsClock, exchangeAt>>

(* dialJudged: the first address that accepts is the one that is asked.    *)
Accepts ==
    /\ dnsAt = "dial" /\ dnsClock < until
    /\ dnsAt' = "stream" /\ answeredBy' = cur /\ until' = DnsTimeout
    /\ UNCHANGED <<check, addrs, dnsClock, exchangeAt, cur, tried, again, reply, dnsVerdict>>

(* exchangeTCP, exchangeDoT, exchangeDoH: a response on the connection.    *)
StreamAnswers(a) ==
    /\ dnsAt = "stream"
    /\ Decoded(a, transport # "doh")
    /\ UNCHANGED <<check, addrs, dnsClock, exchangeAt, answeredBy>>

(* The handshake, the status, the connection or the wait fails.            *)
StreamFails ==
    /\ dnsAt = "stream" /\ Ends("transport")
    /\ UNCHANGED <<check, addrs, dnsClock, exchangeAt, cur, until, tried, answeredBy, again, reply>>

(* The run's context is cancelled: what it says is what ended it.          *)
Cancelled ==
    /\ dnsAt # "done" /\ Ends("cancelled")
    /\ UNCHANGED <<check, addrs, dnsClock, exchangeAt, cur, until, tried, answeredBy, again, reply>>

(* Time passes while the run waits.                                        *)
DnsWaits ==
    /\ dnsAt # "done" /\ dnsClock < until /\ dnsClock' = dnsClock + 1
    /\ UNCHANGED <<check, dnsAt, addrs, exchangeAt, cur, until, tried, answeredBy, again, reply, dnsVerdict>>

DnsNext ==
    \/ \E n \in 1..MaxAddrs : \E found \in [1..n -> BOOLEAN] : Resolved(found)
    \/ LookupFails \/ TryNext \/ Accepts \/ StreamFails \/ Cancelled \/ DnsWaits
    \/ \E a \in Responses : DnsDatagram(a) \/ StreamAnswers(a)

-----------------------------------------------------------------------------
(* AskedInTurn: silence of one address does not silence the others.  A run *)
(* that nobody answered has tried every address, or as many as the time it *)
(* had holds shares of MinDialSlice, the last perhaps a shorter one.       *)
AskedInTurn ==
    dnsVerdict = "transport" /\ answeredBy = 0 /\ addrs # <<>> =>
        \/ Cardinality(tried) = Len(addrs)
        \/ Cardinality(tried) * MinDialSlice >= DnsTimeout - exchangeAt

(* SuccessIsEarned: a check passes only on a whole answer to its question, *)
(* from an address of a resolver that has public addresses only, with the  *)
(* code and all values it expects; a truncated one never counts, not even  *)
(* when the retry over TCP fails.                                          *)
SuccessIsEarned ==
    dnsVerdict = "success" =>
        /\ answeredBy \in tried /\ \A i \in DOMAIN addrs : addrs[i]
        /\ reply.head /\ reply.body /\ ~reply.truncated /\ (reply.id \/ transport = "doh")
        /\ reply.rcode = (IF question.rcode = "" THEN "NOERROR" ELSE question.rcode)
        /\ question.rcode = "" => reply.values # {} /\ question.expect \subseteq reply.values
=============================================================================
