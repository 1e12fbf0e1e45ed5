----------------------------- MODULE ChainDial -----------------------------
(***************************************************************************)
(* Dialling through a chain of proxies: one TCP connection to the          *)
(* outermost node, then one tunnel handshake per node inside the tunnel of *)
(* the nodes before it.  connect_chain and connect_proxy take the socket   *)
(* and one permit per node from the pool; dial_chain and                   *)
(* connect_proxy_once dial without a pool; dial_chain_over runs the hops   *)
(* on a stream of the caller's.  A failure names the step it happened in,  *)
(* and that step decides which node is charged for it.  Nodes may be out   *)
(* of order from the start or fail while they are being dialled, and so    *)
(* may the machine that dials: its network, its resolver, its descriptors. *)
(*                                                                         *)
(* A node that works answers within the handshake budget, so a timeout     *)
(* means that somebody did not answer.                                     *)
(***************************************************************************)
EXTENDS Integers, Sequences, FiniteSets

CONSTANTS
    Upstream,   \* upstream identities
    Dial,       \* calls
    Protocol,   \* ProxyConfig::protocol of each node
    WithAuth,   \* the nodes configured with user and password
    Misnamed,   \* the HTTPS nodes whose host is no TLS server name
    Setups,     \* per call: entry point, chain (outermost first), target,
                \* total budget, whether a TLS connector was passed
    Sick,       \* the initial conditions of the nodes to consider
    Cap,        \* max_per_upstream
    MaxUsize,   \* usize::MAX
    MaxFaults   \* bound on failures, of nodes in use or of the machine

Condition == {"up", "down", "silent", "foreign", "denies"}

\* A slice holds fewer than usize::MAX nodes; connect_proxy and
\* connect_proxy_once take one node.
Sizes ==
    /\ Protocol \in [Upstream -> {"socks5", "http", "https"}]
    /\ Cap \in Nat /\ MaxFaults \in Nat /\ MaxUsize \in Nat \ {0}
    /\ IsFiniteSet(Dial) /\ Misnamed \subseteq Upstream
    /\ Sick \subseteq [Upstream -> Condition]
    /\ \A s \in Setups : \A d \in Dial :
          /\ s[d].chain \in Seq(Upstream) /\ s[d].chain # <<>> /\ Len(s[d].chain) < MaxUsize
          /\ s[d].via \in {"connect_proxy", "connect_proxy_once"} => Len(s[d].chain) = 1
ASSUME SizesAssumption == Sizes

VARIABLES
    setup,      \* the calls' parameters
    cond,       \* "up", "down", "silent", "foreign" (another protocol answers)
                \* or "denies" (rejects our credentials)
    here,       \* the machine that dials: "up" or "failing"
    faults,     \* failures so far
    free,       \* permits left in each node's semaphore
    dial        \* the state of each call

dialVars == <<setup, cond, here, faults, free, dial>>

\* ChainStage, encoded as the progress cell holds it.
Connect == 0
Hop(n) == n + 1
Target == MaxUsize

Chain(d) == setup[d].chain
Pooled(d) == setup[d].via \in {"connect_chain", "connect_proxy"}

\* pc: "start", "acquire", "dialling", "reserve", "hop", "up" or how it ended.
\* i: the node being dialled, reserved or spoken to; step: the exchange with
\* it; held: the positions of the chain whose permit the stream carries;
\* progress: the cell a total timeout reads; sent: how many nodes a
\* handshake has been started with (history).
Idle == [pc |-> "start", i |-> 1, step |-> "none", held |-> {},
         progress |-> Connect, sent |-> 0, stage |-> Connect, err |-> "none"]
Running(d) == dial[d].pc \notin {"up", "failed", "cancelled", "closed"}

DialInit ==
    /\ setup \in Setups
    /\ cond \in Sick
    /\ here = "up"
    /\ faults = 0
    /\ free = [n \in Upstream |-> Cap]
    /\ dial = [d \in Dial |-> Idle]

----------------------------------------------------------------------------
(* The errors, and what they say about the upstream.                       *)

Timeouts == {"TcpConnect", "Socks5Handshake", "HttpHandshake",
             "HttpsTlsHandshake", "HttpsConnectHandshake", "Total"}
Violations == {"BadVersion", "BadAuthVersion", "BadReply", "BadTarget"}
ConnectErrors == Timeouts \cup Violations \cup
    {"IoConnect", "IoHandshake", "ProxyRejected", "AuthFailed",
     "MethodUnsupported", "InvalidTarget", "Tls", "AtCapacity"}

\* Counts every timeout as a dead upstream.
IsUpstreamDownOnTimeout(e) ==
    e \in Timeouts \cup {"IoConnect", "AuthFailed", "MethodUnsupported", "BadVersion", "BadAuthVersion", "Tls"}
IsUpstreamDown(e) ==
    e \in {"TcpConnect", "HttpsTlsHandshake", "IoConnect", "AuthFailed",
           "MethodUnsupported", "BadVersion", "BadAuthVersion", "Tls"}
CountsAgainstUpstream(e) == e # "AtCapacity"

\* record_error: the charge on one upstream.
RecordError(e) ==
    IF ~CountsAgainstUpstream(e) THEN "none"
    ELSE IF IsUpstreamDown(e) THEN "hard" ELSE "soft"

\* record_failure: the positions of the chain charged hard for a failure.
HardCharged(chain, stage, e) ==
    IF RecordError(e) # "hard" THEN {}
    ELSE CASE stage = Connect -> {1}
           [] stage = Target -> {Len(chain)}
           [] stage \in 1 .. Len(chain) - 1 -> {stage}
           [] OTHER -> {}

----------------------------------------------------------------------------
(* What a step of a hop's handshake can bring back, given the condition of *)
(* the node that answers and of the place it is asked to reach.            *)

FirstStep(n) == CASE Protocol[n] = "socks5" -> "method"
                  [] Protocol[n] = "http" -> "request"
                  [] OTHER -> "tls"
NextStep(n, step) == IF step = "method" /\ n \in WithAuth THEN "auth" ELSE "request"

\* The timeout that expires when the answer does not come; TLS and CONNECT to
\* an HTTPS node share one deadline.
Socks5TimedOut == "Socks5Handshake"
HttpTimedOut == "HttpHandshake"
HttpsTimedOut(step) == IF step = "tls" THEN "HttpsTlsHandshake" ELSE "HttpsConnectHandshake"
TimedOut(n, step) == CASE Protocol[n] = "socks5" -> Socks5TimedOut
                       [] Protocol[n] = "http" -> HttpTimedOut
                       [] OTHER -> HttpsTimedOut(step)

\* The connection under the exchange breaks: an I/O error of the handshake,
\* the end of the stream for the response reader, a failed TLS handshake.
Broken(n, step) ==
    IF step = "tls" THEN {"Tls"}
    ELSE {"IoHandshake"} \cup (IF Protocol[n] = "socks5" THEN {} ELSE {"BadReply"})

\* socks5_handshake up to the method reply and the RFC 1929 reply: another
\* protocol's bytes may pass for either.
Socks5Method(n, step, c) ==
    CASE c = "foreign" -> IF step = "auth" THEN {"BadAuthVersion", "AuthFailed", "ok"}
                          ELSE {"BadVersion", "MethodUnsupported", "ok"}
      [] c = "denies" -> IF step = "auth" THEN {"AuthFailed"}
                         ELSE {"MethodUnsupported"} \cup (IF n \in WithAuth THEN {"ok"} ELSE {})
      [] OTHER -> {"ok"}

\* The node's answer to the CONNECT request: it reached the place or not.
\* Another version's reply is a hard BadVersion; a reserved byte, an address
\* type or a bound domain that is none makes a soft BadReply.
Socks5Reply(place, c) ==
    CASE c = "foreign" -> {"BadVersion", "ProxyRejected", "BadReply"}
      [] OTHER -> CASE place = "up" -> {"ok"}
                    [] place = "stalls" -> {Socks5TimedOut}
                    [] OTHER -> {"ProxyRejected"}
\* The CONNECT over TLS has no deadline.
HttpReplyForever(n, place, c) ==
    IF place = "stalls" THEN {}
    ELSE IF place = "up" /\ c \notin {"foreign", "denies"} THEN {"ok"} ELSE {"ProxyRejected"}
HttpReply(n, place, c) ==
    CASE c = "foreign" -> {"ProxyRejected", "BadReply"}
      [] c = "denies" -> {"ProxyRejected"}
      [] OTHER -> CASE place = "up" -> {"ok"}
                    [] place = "stalls" -> {TimedOut(n, "request")}
                    [] OTHER -> {"ProxyRejected"}

\* The TLS handshake with an HTTPS node, once its host has made a server name.
TlsReply(c) == IF c = "foreign" THEN {"Tls"} ELSE {"ok"}

\* A target no request can be made of is refused before the node is asked:
\* by socks5_handshake before its first byte; by write_connect_request, if
\* the text holds blanks, before the CONNECT.
BadTarget(d) ==
    LET n == Chain(d)[dial[d].i]
    IN  IF dial[d].i < Len(Chain(d)) \/ setup[d].target \notin {"unusable", "unparsable"} THEN {}
        ELSE IF Protocol[n] = "socks5" THEN {"InvalidTarget"}
        ELSE IF dial[d].step = "request" THEN {"BadTarget"} ELSE {}

\* https_hop makes the server name before a byte is sent.
NoServerName(d) == dial[d].step = "tls" /\ Chain(d)[dial[d].i] \in Misnamed

\* The place node i of the chain is asked to open a tunnel to.
Place(d, i) ==
    IF i = Len(Chain(d)) THEN {setup[d].target}
    ELSE IF cond[Chain(d)[i + 1]] = "down" THEN {"refuses", "stalls"} ELSE {"up"}

Reply(n, step, place) ==
    CASE step \in {"method", "auth"} -> Socks5Method(n, step, cond[n])
      [] step = "tls" -> TlsReply(cond[n])
      [] OTHER -> IF Protocol[n] = "socks5" THEN Socks5Reply(place, cond[n]) ELSE HttpReply(n, place, cond[n])

\* Everything the caller may see in this step: a refusal before the node is
\* asked, the answer of the node, or a fault on the way to it, which may be a
\* node before it or the caller's own machine.  Another protocol may also
\* answer too little or hang up.
Outcomes(d) ==
    LET n == Chain(d)[dial[d].i]
        step == dial[d].step
        way == {cond[Chain(d)[j]] : j \in 1 .. dial[d].i}
        lost == here = "failing" \/ cond[n] = "foreign"
    IN  IF BadTarget(d) = {"InvalidTarget"} THEN BadTarget(d)
        ELSE IF NoServerName(d) THEN {"Tls"}
        ELSE BadTarget(d)
          \cup (IF "silent" \in way \/ lost THEN {TimedOut(n, step)} ELSE {})
          \cup (IF "down" \in way \/ lost THEN Broken(n, step) ELSE {})
          \cup (IF way \cap {"silent", "down"} # {} THEN {}
                ELSE UNION {Reply(n, step, p) : p \in Place(d, dial[d].i)})

----------------------------------------------------------------------------
(* Ending a call.  Dropping the stream returns every permit attached to it.*)

Release(d) ==
    free' = [n \in Upstream |-> free[n] + Cardinality({i \in dial[d].held : Chain(d)[i] = n})]
Fail(d, stage, e) ==
    /\ dial' = [dial EXCEPT ![d].pc = "failed", ![d].stage = stage, ![d].err = e,
                            ![d].held = {}]
    /\ Release(d)
Drop(d, how) ==
    /\ dial' = [dial EXCEPT ![d].pc = how, ![d].held = {}]
    /\ Release(d)

\* chain_inner: a single node's TCP failure is Connect, all the rest Target.
StageOfSingle(e) == IF e \in {"TcpConnect", "IoConnect"} THEN Connect ELSE Target

----------------------------------------------------------------------------
(* Checks made before any socket is opened.                                *)

NeedsTls(chain) == \E i \in DOMAIN chain : Protocol[chain[i]] = "https"
CheckTls(d) == NeedsTls(Chain(d)) => setup[d].tls

Nothing == <<Connect, "none">>
WithoutTls(d, stage) == IF CheckTls(d) THEN Nothing ELSE <<stage, "Tls">>
ConnectChainRefuses(d) ==
    IF setup[d].target = "unparsable" THEN <<Target, "InvalidTarget">> ELSE WithoutTls(d, Connect)
ConnectProxyRefuses(d) == WithoutTls(d, Target)
ConnectProxyOnceRefuses(d) ==
    IF setup[d].target = "unparsable" THEN <<Target, "InvalidTarget">> ELSE WithoutTls(d, Target)
DialChainRefuses(d) == WithoutTls(d, IF Len(Chain(d)) = 1 THEN StageOfSingle("Tls") ELSE Connect)
DialChainOverRefuses(d) ==
    IF setup[d].total = "zero" THEN <<Connect, "Total">> ELSE WithoutTls(d, Connect)

Refusal(d) ==
    CASE setup[d].via = "connect_chain" -> ConnectChainRefuses(d)
      [] setup[d].via = "connect_proxy" -> ConnectProxyRefuses(d)
      [] setup[d].via = "connect_proxy_once" -> ConnectProxyOnceRefuses(d)
      [] setup[d].via = "dial_chain" -> DialChainRefuses(d)
      [] OTHER -> DialChainOverRefuses(d)

Refused(d) ==
    /\ dial[d].pc = "start"
    /\ Refusal(d)[2] # "none"
    /\ Fail(d, Refusal(d)[1], Refusal(d)[2])
    /\ UNCHANGED <<setup, cond, here, faults>>

\* Stores the stage of the hop before.
BeginHopLate(r, d, i) ==
    [r EXCEPT !.pc = "hop", !.i = i, !.step = FirstStep(Chain(d)[i]), !.sent = i,
              !.progress = IF i = 1 THEN Connect ELSE Hop(i - 2)]
\* Speaking to node i begins: run_chain_hops stores the stage first; for a
\* single node the cell is stored once TCP is up.
BeginHop(r, d, i) ==
    [r EXCEPT !.pc = "hop", !.i = i, !.step = FirstStep(Chain(d)[i]), !.sent = i,
              !.progress = IF i = Len(Chain(d)) THEN Target ELSE Hop(i - 1)]

Start(d) ==
    /\ dial[d].pc = "start"
    /\ Refusal(d)[2] = "none"
    /\ dial' = [dial EXCEPT ![d] =
                    CASE Pooled(d) -> [@ EXCEPT !.pc = "acquire"]
                      [] setup[d].via = "dial_chain_over" -> BeginHop(@, d, 1)
                      [] OTHER -> [@ EXCEPT !.pc = "dialling"]]
    /\ UNCHANGED <<setup, cond, here, faults, free>>

----------------------------------------------------------------------------
(* The socket and the permits.                                             *)

Take(d, n) ==
    /\ free[n] > 0
    /\ free' = [free EXCEPT ![n] = @ - 1]

\* ProxyPool::acquire: the permit before the socket, never waiting for one.
Acquire(d) ==
    /\ dial[d].pc = "acquire"
    /\ LET n == Chain(d)[1]
       IN  \/ /\ Take(d, n)
              /\ dial' = [dial EXCEPT ![d].pc = "dialling", ![d].held = {1}]
           \/ free[n] = 0 /\ Fail(d, Connect, "AtCapacity")
    /\ UNCHANGED <<setup, cond, here, faults>>

\* tcp_dial: a node that is not down accepts the connection.
TcpUp(d) ==
    /\ dial[d].pc = "dialling"
    /\ cond[Chain(d)[1]] # "down"
    /\ dial' = [dial EXCEPT ![d] = IF setup[d].via = "connect_chain" /\ Len(Chain(d)) > 1
                                   THEN [@ EXCEPT !.pc = "reserve", !.i = 2]
                                   ELSE BeginHop(@, d, 1)]
    /\ UNCHANGED <<setup, cond, here, faults, free>>

\* Every error of TcpStream::connect becomes Io{Connect}: the node's refusal,
\* and EMFILE, a failed lookup or a local network that is gone alike.
TcpFails(d) ==
    /\ dial[d].pc = "dialling"
    /\ cond[Chain(d)[1]] = "down" \/ here = "failing"
    /\ \E e \in {"IoConnect", "TcpConnect"} : Fail(d, StageOfSingle(e), e)
    /\ UNCHANGED <<setup, cond, here, faults>>

\* Forgets the permit of the last node.
ReserveAllButLast(d) ==
    /\ dial[d].pc = "reserve"
    /\ LET i == dial[d].i
           n == Chain(d)[i]
       IN  IF i = Len(Chain(d)) THEN dial' = [dial EXCEPT ![d] = BeginHop(@, d, 1)] /\ UNCHANGED free
           ELSE \/ Take(d, n) /\ dial' = [dial EXCEPT ![d].held = @ \cup {i}, ![d].i = i + 1]
                \/ free[n] = 0 /\ Fail(d, Hop(i - 2), "AtCapacity")
    /\ UNCHANGED <<setup, cond, here, faults>>
\* connect_chain's loop: a permit for every inner node, attached to the
\* stream, before the first handshake byte.
Reserve(d) ==
    /\ dial[d].pc = "reserve"
    /\ LET i == dial[d].i
           n == Chain(d)[i]
       IN  \/ /\ Take(d, n)
              /\ dial' = [dial EXCEPT ![d] =
                    LET paid == [dial[d] EXCEPT !.held = dial[d].held \cup {i}]
                    IN  IF i < Len(Chain(d)) THEN [paid EXCEPT !.i = i + 1]
                        ELSE BeginHop(paid, d, 1)]
           \/ free[n] = 0 /\ Fail(d, Hop(i - 2), "AtCapacity")
    /\ UNCHANGED <<setup, cond, here, faults>>

----------------------------------------------------------------------------
(* run_chain_hops.                                                         *)

HopStage(d) == IF dial[d].i = Len(Chain(d)) THEN Target ELSE Hop(dial[d].i - 1)

HopStep(d) ==
    /\ dial[d].pc = "hop"
    /\ \E o \in Outcomes(d) :
          LET i == dial[d].i
              n == Chain(d)[i]
          IN  IF o # "ok" THEN Fail(d, HopStage(d), o)
              ELSE /\ dial' = [dial EXCEPT ![d] =
                         IF dial[d].step # "request" THEN [@ EXCEPT !.step = NextStep(n, dial[d].step)]
                         ELSE IF i < Len(Chain(d)) THEN BeginHop(@, d, i + 1)
                         ELSE [@ EXCEPT !.pc = "up"]]
                   /\ UNCHANGED free
    /\ UNCHANGED <<setup, cond, here, faults>>

\* with_total_timeout: the budget of the whole call ends, in any step.
TotalElapsed(d) ==
    /\ dial[d].pc \in {"dialling", "hop"}
    /\ setup[d].total = "some" /\ setup[d].via \in {"dial_chain", "dial_chain_over"}
    /\ Fail(d, dial[d].progress, "Total")
    /\ UNCHANGED <<setup, cond, here, faults>>

\* The caller drops the future: a lost race, a client that went away.
Cancel(d) ==
    /\ dial[d].pc \in {"dialling", "hop"}
    /\ Drop(d, "cancelled")
    /\ UNCHANGED <<setup, cond, here, faults>>

\* The tunnel ends and the stream is dropped.
Close(d) ==
    /\ dial[d].pc = "up"
    /\ Drop(d, "closed")
    /\ UNCHANGED <<setup, cond, here, faults>>

\* A node that worked stops working.
Degrade(n) ==
    /\ cond[n] = "up" /\ faults < MaxFaults
    /\ \E c \in {"down", "silent"} : cond' = [cond EXCEPT ![n] = c]
    /\ faults' = faults + 1
    /\ UNCHANGED <<setup, here, free, dial>>

\* The machine that dials begins to fail.
HereFails ==
    /\ here = "up" /\ faults < MaxFaults
    /\ here' = "failing"
    /\ faults' = faults + 1
    /\ UNCHANGED <<setup, cond, free, dial>>

Step(d) == \/ Refused(d) \/ Start(d) \/ Acquire(d) \/ TcpUp(d) \/ TcpFails(d)
           \/ Reserve(d) \/ HopStep(d)
DialNext ==
    \/ \E d \in Dial : Step(d) \/ TotalElapsed(d) \/ Cancel(d) \/ Close(d)
    \/ \E n \in Upstream : Degrade(n)
    \/ HereFails

\* The runtime polls a call whose answer or timer is due.
DialSpec == DialInit /\ [][DialNext]_dialVars /\ \A d \in Dial : WF_dialVars(Step(d))

----------------------------------------------------------------------------
(* Properties.                                                             *)

Carries(d) == Pooled(d) /\ dial[d].pc \in {"hop", "up"}
\* The passages of pool calls through a node, one per position it has.
Through(n) ==
    UNION {{d} \X {i \in DOMAIN Chain(d) : Chain(d)[i] = n} : d \in {e \in Dial : Carries(e)}}

\* max_per_upstream bounds the tunnels through a node as an inner hop too: no
\* more handshakes and tunnels of pool calls run through a node, counted with
\* repetition, than its cap; and a call that has ended keeps no permit.
HopCapKept ==
    \A n \in Upstream :
        /\ Cardinality(Through(n)) <= Cap
        /\ (\A d \in Dial : ~Running(d) /\ dial[d].pc # "up") => free[n] = Cap

\* A failure that counts towards a quarantine falls on a node that is out of
\* order, except where the code cannot tell.  A host that is no server name is
\* a Tls error of the node.  A TLS handshake runs end to end inside the tunnel,
\* so there a fault of a node before it is charged to the node behind.  When
\* the dialling machine itself fails, connects and TLS handshakes are charged
\* to the node they were meant for.  A caller that passes no TLS connector gets
\* no right blame at all.
BlameIsDeserved ==
    \A d \in Dial : dial[d].pc = "failed" /\ CheckTls(d) =>
        \A i \in HardCharged(Chain(d), dial[d].stage, dial[d].err) :
            \/ cond[Chain(d)[i]] # "up"
            \/ Chain(d)[i] \in Misnamed /\ dial[d].err = "Tls"
            \/ /\ dial[d].err \in {"Tls", "HttpsTlsHandshake"}
               /\ \E j \in 1 .. i - 1 : cond[Chain(d)[j]] # "up"
            \/ /\ here = "failing"
               /\ dial[d].err \in {"IoConnect", "TcpConnect", "Tls", "HttpsTlsHandshake"}

\* A failure names the step the call was in: Connect before any handshake,
\* Hop(i) or Target when the nodes before it had opened their tunnels.  A
\* refused permit and a refused target name the hop they were meant for.
StageIsWhereItStopped ==
    \A d \in Dial : dial[d].pc = "failed" /\ dial[d].err \notin {"AtCapacity", "InvalidTarget"} =>
        LET s == dial[d].stage
        IN  CASE s = Connect -> dial[d].sent = 0
              [] s = Target -> dial[d].sent = Len(Chain(d)) \/ ~CheckTls(d)
              [] OTHER -> dial[d].sent = s

\* Every call ends, with silent nodes and with calls competing for permits in
\* opposite orders.
DialsEnd == \A d \in Dial : <>(~Running(d))

=============================================================================
