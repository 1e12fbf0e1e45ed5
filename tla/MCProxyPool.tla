---------------------------- MODULE MCProxyPool ----------------------------
(* Model checking of ProxyPool: callers among themselves, or one caller     *)
(* while the endpoint is forgotten and spawned again.                       *)
EXTENDS ProxyPool

CONSTANTS c1, c2

MCScenes == {[callers |-> {c1, c2}, spare |-> 2, forgets |-> 0],
             [callers |-> {c1}, spare |-> 1, forgets |-> 1]}
=============================================================================
