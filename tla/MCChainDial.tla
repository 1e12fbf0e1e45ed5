---------------------------- MODULE MCChainDial ----------------------------
(* One node per protocol, an HTTPS node whose host is no server name, and  *)
(* two calls.  One call enumerates the entry points, chains and targets;   *)
(* the other competes for the permits.                                     *)
EXTENDS ChainDial

Named == {"s", "h", "t"}
MCMisnamed == {"x"}
MCUpstream == Named \cup MCMisnamed
MCDial == {1, 2}
MCProtocol == [s |-> "socks5", h |-> "http", t |-> "https", x |-> "https"]
MCWithAuth == {"s"}

Chains == {<<n>> : n \in Named}
          \cup {<<"s", "h">>, <<"h", "s">>, <<"s", "t">>, <<"t", "h">>, <<"s", "x">>, <<"h", "s", "t">>, <<"s", "h", "s">>}
Call(via, chain, target, total, tls) ==
    [via |-> via, chain |-> chain, target |-> target, total |-> total, tls |-> tls]

\* The application's path always has a connector.
PoolCalls(targets) == {Call("connect_chain", c, t, "none", TRUE) : c \in Chains, t \in targets}
SingleCalls == {Call(v, <<n>>, t, "none", tls) :
                   v \in {"connect_proxy", "connect_proxy_once"}, n \in MCUpstream,
                   t \in {"up", "stalls", "unparsable"}, tls \in BOOLEAN}
BareCalls == {Call("dial_chain", c, t, tot, tls) :
                 c \in Chains, t \in {"up", "refuses", "unusable"}, tot \in {"none", "some"}, tls \in BOOLEAN}
OverCalls == {Call("dial_chain_over", c, "up", tot, tls) :
                 c \in {<<"t">>, <<"s", "t">>}, tot \in {"zero", "some"}, tls \in BOOLEAN}
Rivals == {Call("connect_chain", c, "up", "none", TRUE) : c \in {<<"t", "h", "s">>}}
Quiet == Call("dial_chain_over", <<"s">>, "up", "zero", TRUE)

MCSetups == {<<a, b>> : a \in PoolCalls({"up", "stalls"}), b \in Rivals}
            \cup {<<a, Quiet>> : a \in PoolCalls({"refuses", "unusable", "unparsable"})
                                      \cup SingleCalls \cup BareCalls \cup OverCalls}
MCSick == {[n \in MCUpstream |-> "up"]}
          \cup {[[n \in MCUpstream |-> "up"] EXCEPT ![m] = c] :
                   m \in Named, c \in {"down", "silent", "foreign", "denies"}}
=============================================================================
