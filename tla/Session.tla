------------------------------ MODULE Session ------------------------------
(***************************************************************************)
(* A client's session from its accepted request to the end of its tunnel:  *)
(* handle_socks5_client and handle_http_client, which route it directly or *)
(* through the pool, and their recovery path, which answers first, learns  *)
(* the host from what the client then sends, and dials by it.  The tunnel  *)
(* is the one of module Tunnel.  Establishing a connection has an outcome  *)
(* only (module Establish models how it comes about); other sessions       *)
(* compete for the direct permits.                                         *)
(***************************************************************************)
EXTENDS Tunnel

CONSTANTS
    Setups,     \* the request, the two streams, the configuration
    PeekMax,    \* PEEK_MAX
    ReadMax,    \* one read of the recovery
    DirectCap   \* max_concurrent_direct

ASSUME SessionSizes == {PeekMax, ReadMax, DirectCap} \subseteq Nat \ {0}
\* What was read past the head is the beginning of what the client says.
ASSUME SetupsAssumption ==
    \A s \in Setups : /\ s.wire \in Seq(Nat) /\ s.pipeline \in 0 .. Len(s.wire)
                      /\ {s.upstreamSays, s.idle, s.life} \subseteq Nat

VARIABLES
    pc,         \* where the handler is
    expired,    \* the client deadline has passed
    replies,    \* the replies written, in order
    early,      \* whether the deadline was over when the first reply was due (history)
    permit,     \* this session holds a direct permit
    others,     \* permits held by other sessions
    dest        \* what the upstream connection in hand was dialled to

sessionVars == <<pc, expired, replies, early, permit, others, dest>>
vars == <<setup, tunnelVars, sessionVars>>

Init ==
    /\ setup \in Setups
    /\ TunnelInit
    /\ pc = "start" /\ expired = FALSE /\ replies = <<>> /\ early = FALSE
    /\ permit = FALSE /\ others = 0 /\ dest = None

\* reply_bytes: what the client sees of a reply.
SocksReply == [Established |-> 0, Forbidden |-> 2, UpstreamUnavailable |-> 4, Overloaded |-> 1]
HttpReply == [Established |-> 200, Forbidden |-> 403, UpstreamUnavailable |-> 502, Overloaded |-> 503]
Wire(r) == IF setup.proto = "socks" THEN SocksReply[r] ELSE HttpReply[r]

\* The session moves on; its return drops the streams and the permit.
Go(where) ==
    /\ pc' = where
    /\ permit' = (permit /\ where # "done")
    /\ UNCHANGED <<setup, expired, others>>
Finish(reply) ==
    /\ Go("done") /\ dest' = None
    /\ replies' = IF reply = None THEN replies ELSE Append(replies, Wire(reply))
    /\ UNCHANGED <<tunnelVars, early>>

----------------------------------------------------------------------------
(* Routing                                                                 *)

\* Anonymous clients never take the direct path.
IsDirect == setup.user = "direct"
Recovers == ~IsDirect /\ setup.recover /\ setup.target = "ip4"

\* Mutant: the bytes read past the head are dropped.
TakePipelineLost == taken' = setup.pipeline /\ held' = <<>>
\* The bytes accept read past an HTTP head are the first of the payload.
TakePipeline == taken' = setup.pipeline /\ held' = Span(0, setup.pipeline)

\* No direct permit is left: the client is refused, never queued.
OverCap == IsDirect /\ others >= DirectCap
Admit ==
    /\ pc = "start"
    /\ IF OverCap
       THEN Finish("Overloaded")
       ELSE /\ pc' = IF Recovers THEN "recover" ELSE "dial"
            /\ permit' = IsDirect
            /\ TakePipeline
            /\ UNCHANGED <<setup, up, wired, uTaken, back, down, phase, ended, chunk, timers, closing, quiet,
                           expired, replies, early, others, dest>>

----------------------------------------------------------------------------
(* The plain path: dial, reply, forward.                                   *)

\* Whether a dial to t can succeed: the ban list is asked first.
Banned(t) == t \in setup.banned
Reachable(t) == ~Banned(t) /\ t \in setup.reachable

EstablishDirect == IsDirect /\ Reachable(setup.target)
EstablishConnection == ~IsDirect /\ Reachable(setup.target)
Refusal == IF Banned(setup.target) THEN "Forbidden" ELSE "UpstreamUnavailable"

Handover(h, d) ==
    /\ pc' = "tunnel" /\ dest' = d
    /\ Forward(h)
    /\ UNCHANGED <<setup, up, wired, back, expired, early, permit, others>>

\* The dial also fails on its own.
Dial ==
    /\ pc = "dial"
    /\ \/ Finish(Refusal)
       \/ /\ EstablishDirect \/ EstablishConnection
          /\ Handover(held, setup.target)
          /\ replies' = Append(replies, Wire("Established"))
          /\ UNCHANGED <<taken, uTaken, down, quiet>>

----------------------------------------------------------------------------
(* recover_and_tunnel, recover_and_tunnel_http                             *)

\* run_phase_in_client_budget, then the early reply; with pipelined bytes the
\* prefix is read on at once.  A reply that fails is followed by ClientBreaks.
Recover ==
    /\ pc = "recover"
    /\ early' = expired
    /\ IF expired THEN Go("done") /\ dest' = None /\ UNCHANGED <<tunnelVars, replies>>
       ELSE /\ Go(IF held # <<>> THEN "prefix" ELSE "grace")
            /\ replies' = Append(replies, Wire("Established"))
            /\ UNCHANGED <<tunnelVars, dest>>

InRecovery == pc \in {"grace", "dialling", "listening", "prefix"}
\* Mutant: the deadline covers the peek and not the reading of the prefix.
RecoveryTimesOutEarly == pc \in {"grace", "dialling", "listening"} /\ expired /\ Finish(None)
RecoveryTimesOut == InRecovery /\ expired /\ Finish(None)
\* A read of the client fails, or the early reply or a banner cannot be written.
ClientBreaks == InRecovery /\ Finish(None)
DeadlinePasses ==
    /\ ~expired
    /\ pc \in {"start", "recover"} \/ InRecovery
    /\ expired' = TRUE
    /\ UNCHANGED <<setup, tunnelVars, pc, replies, early, permit, others, dest>>

\* peek_recovery: the first client bytes end every wait, and drop the
\* upstream that was being dialled or listened to.
ClientSpeaks ==
    /\ pc \in {"grace", "dialling", "listening"}
    /\ \/ \E n \in 1 .. ReadMax :
             /\ taken + n <= ClientSays
             /\ taken' = taken + n /\ held' = Span(taken, n)
             /\ Go("prefix") /\ dest' = None
             /\ UNCHANGED <<up, wired, uTaken, back, down, phase, ended, chunk, timers, closing, quiet, replies, early>>
       \/ ClientSays = 0 /\ setup.clientEnds /\ Finish(None)
GraceElapses ==
    /\ pc = "grace" /\ Go("dialling")
    /\ UNCHANGED <<tunnelVars, replies, early, dest>>
DialledByIp ==
    /\ pc = "dialling"
    /\ \/ Reachable(setup.target) /\ Go("listening") /\ dest' = setup.target
       \/ Go("prefix") /\ UNCHANGED dest
    /\ UNCHANGED <<tunnelVars, replies, early>>

\* The upstream greets, or closes.
Greets ==
    /\ pc = "listening"
    /\ \/ \E n \in 1 .. setup.upstreamSays :
             /\ uTaken' = n /\ down' = Span(0, n)
             /\ Handover(<<>>, dest)
             /\ UNCHANGED <<taken, replies, quiet>>
       \/ /\ Go("prefix") /\ dest' = None
          /\ UNCHANGED <<tunnelVars, replies, early>>

\* read_recovery_prefix: until the bytes decide, or no more can come.
PrefixStops(b) == Decided(b) \/ Len(b) >= PeekMax
ReadRecoveryPrefix ==
    /\ pc = "prefix"
    /\ IF PrefixStops(HeldBytes(held))
       THEN Go("redial") /\ UNCHANGED <<tunnelVars, replies, early, dest>>
       ELSE \/ \E n \in 1 .. LesserOf(ReadMax, PeekMax - Len(held)) :
                  /\ taken + n <= ClientSays
                  /\ taken' = taken + n /\ held' = held \o Span(taken, n)
                  /\ UNCHANGED <<setup, up, wired, uTaken, back, down, phase, ended, chunk, timers, closing, quiet, sessionVars>>
            \/ /\ taken = ClientSays /\ setup.clientEnds
               /\ IF held = <<>> THEN Finish(None)
                  ELSE Go("redial") /\ UNCHANGED <<tunnelVars, replies, early, dest>>

\* The host the client named, or the address it asked for.
EffectiveTarget ==
    IF Recovered(HeldBytes(held)) # None THEN Recovered(HeldBytes(held)) ELSE setup.target
\* Mutant: a failed dial is reported as on the plain path.
RedialReports ==
    /\ pc = "redial"
    /\ \/ Finish("UpstreamUnavailable")
       \/ /\ Reachable(EffectiveTarget)
          /\ Handover(held, EffectiveTarget)
          /\ UNCHANGED <<taken, uTaken, down, quiet, replies>>
Redial ==
    /\ pc = "redial"
    /\ \/ Finish(None)
       \/ /\ Reachable(EffectiveTarget)
          /\ Handover(held, EffectiveTarget)
          /\ UNCHANGED <<taken, uTaken, down, quiet, replies>>

----------------------------------------------------------------------------

InTunnel == pc = "tunnel" /\ TunnelNext /\ UNCHANGED <<setup, sessionVars>>
TunnelEnded == pc = "tunnel" /\ phase = "ended" /\ Finish(None)

OtherTakes ==
    /\ pc # "done" /\ IsDirect
    /\ others + (IF permit THEN 1 ELSE 0) < DirectCap
    /\ others' = others + 1
    /\ UNCHANGED <<setup, tunnelVars, pc, expired, replies, early, permit, dest>>
OtherReleases ==
    /\ others > 0 /\ others' = others - 1
    /\ UNCHANGED <<setup, tunnelVars, pc, expired, replies, early, permit, dest>>

Next ==
    \/ Admit \/ Dial
    \/ Recover \/ RecoveryTimesOut \/ ClientBreaks \/ DeadlinePasses \/ ClientSpeaks \/ GraceElapses
    \/ DialledByIp \/ Greets \/ ReadRecoveryPrefix \/ Redial
    \/ InTunnel \/ TunnelEnded \/ OtherTakes \/ OtherReleases

\* Time passes and due timers are polled; a dial has its own timeouts and
\* returns.  Neither peer owes anything.
Fairness ==
    /\ WF_vars(Admit) /\ WF_vars(Dial) /\ WF_vars(Recover) /\ WF_vars(Redial)
    /\ WF_vars(DeadlinePasses) /\ WF_vars(RecoveryTimesOut)
    /\ WF_vars(pc = "tunnel" /\ (Tick \/ IdleFires \/ LifetimeOver \/ PauseOver \/ TransferOver) /\ UNCHANGED <<setup, sessionVars>>)
    /\ WF_vars(TunnelEnded)

Spec == Init /\ [][Next]_vars /\ Fairness

----------------------------------------------------------------------------
(* Properties                                                              *)

\* The client is told the outcome exactly once, and before anything else: no
\* payload reaches it unless success was announced, a failure is announced only
\* where no success was, and a recovery that starts after the deadline announces
\* nothing, the only session that does.  (A reply is one the handler writes; the
\* client may be gone.)
Success == IF setup.proto = "socks" THEN <<0>> ELSE <<200>>
OneOutcome ==
    /\ Len(replies) <= 1
    /\ down # <<>> \/ phase # "off" => replies = Success
    /\ early => replies = <<>>
    /\ pc = "done" /\ replies = <<>> => early

\* A tunnel ends where the client meant to go, and never at a banned name: after
\* a recovery, at the name all the bytes that may be peeked at give, however the
\* reads cut them, and at the requested address when they give none.  One kind of
\* stream depends on the cuts.  parse_http_host takes a request with a bare LF, or
\* with one before the request line, for which http_host_might_still_appear gives
\* up: a read that ends in between goes to the address, one that does not to the
\* host.
Peekable == Prefix(setup.wire, LesserOf(PeekMax, ClientSays))
IrregularHttp(d) ==
    /\ ParseSni(d) = None /\ ParseHttpHost(d) # None
    /\ \/ d[1] \notin Words
       \/ \E k \in DOMAIN d \ {1} : d[k] = LF /\ d[k - 1] # CR
MeantByClient(d) ==
    IF Recovered(d) = None THEN {setup.target}
    ELSE {Recovered(d)} \cup (IF IrregularHttp(d) THEN {setup.target} ELSE {})
RightDestination ==
    [][pc # "tunnel" /\ pc' = "tunnel" =>
          /\ ~Banned(dest')
          /\ pc = "redial" => dest' \in MeantByClient(Peekable)]_vars

\* Every session ends, if an idle or a lifetime limit is configured, with
\* clients and upstreams that never say or accept anything.
SessionEnds == setup.idle > 0 \/ setup.life > 0 => <>(pc = "done")
=============================================================================
