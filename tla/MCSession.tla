----------------------------- MODULE MCSession -----------------------------
(* The setups: requests on every route with an opaque payload, recovery    *)
(* with streams that do and do not name a host, and tunnels with every     *)
(* combination of limits, fragmentation and TLS.                           *)
EXTENDS Session

Hello == <<22, 4, 1, 2, 0, 9>>
SplitHello == <<22, 2, 1, 1, 22, 1, 9>>
LateHello == <<22, 2, 1, 3, 22, 3, 0, 0, 9>>
MuteHello == <<22, 3, 1, 1, 0, 50>>
Other == <<22, 2, 2, 0>>
Get == <<101, 113, 110, 103, 113, 110>>
Bare == <<101, 113, 110, 113, 110>>
Opaque == <<50, 50>>
\* A bare LF before the Host line, and one before the request line.
LateFeed == <<101, 113, 110, 110, 103, 113, 110>>
EarlyFeed == <<110, 101, 113, 110, 103, 113, 110>>

Base == [proto |-> "socks", user |-> "pool", target |-> "name", recover |-> FALSE, pipeline |-> 0,
         banned |-> {}, reachable |-> {"name", "ip4", "sni", "host"},
         wire |-> Opaque, clientEnds |-> TRUE, upstreamSays |-> 1, upstreamEnds |-> TRUE,
         tls |-> FALSE, frag |-> FALSE, idle |-> 2, life |-> 0]

Routes == {[Base EXCEPT !.proto = p, !.user = u, !.target = t, !.banned = b, !.reachable = r, !.pipeline = q] :
              p \in {"socks", "http"}, u \in {"anonymous", "pool", "direct"}, t \in {"name", "ip4"},
              b \in {{}, {"name"}}, r \in {{}, {"name", "ip4"}}, q \in {0}}
          \cup {[Base EXCEPT !.proto = "http", !.pipeline = 1, !.user = u, !.frag = f] :
              u \in {"pool", "direct"}, f \in BOOLEAN}
Recoveries == {[Base EXCEPT !.proto = p, !.target = "ip4", !.recover = TRUE, !.wire = w, !.pipeline = q,
                            !.banned = b, !.clientEnds = e, !.frag = f, !.upstreamSays = 1, !.idle = 1] :
                  p \in {"http"}, w \in {Hello, SplitHello, LateHello, MuteHello, Other, Get, Bare, Opaque, LateFeed, EarlyFeed, <<>>},
                  q \in {0}, b \in {{}, {"sni", "host"}}, e \in BOOLEAN, f \in BOOLEAN}
              \cup {[Base EXCEPT !.proto = p, !.target = "ip4", !.recover = TRUE, !.wire = w,
                                 !.pipeline = IF p = "http" THEN 2 ELSE 0] :
                  p \in {"socks", "http"}, w \in {Hello, Get, Opaque}}
Tunnels == {[Base EXCEPT !.wire = w, !.tls = t, !.frag = f, !.idle = i, !.life = l,
                         !.clientEnds = ce, !.upstreamEnds = ue, !.upstreamSays = 2] :
               w \in {Hello, Opaque}, t \in BOOLEAN, f \in BOOLEAN, i \in {0, 2}, l \in {0, 3},
               ce \in BOOLEAN, ue \in BOOLEAN}

MCSetups == Routes \cup Recoveries \cup Tunnels
=============================================================================
