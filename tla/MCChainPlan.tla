---------------------------- MODULE MCChainPlan ----------------------------
(* Three layers (two gate levels, one exit layer), a node offered twice, a *)
(* layer with nothing on offer, and a cached chain with a node that is     *)
(* quarantined and so in no layer.                                         *)
EXTENDS ChainPlan

Nodes == {"g1", "g2", "h1", "h2", "x1", "x2", "q1"}
Offered(a, b, c) == <<Deduplicate(a), Deduplicate(b), Deduplicate(c)>>

PlanLayouts == { Offered(<<"g1", "g2">>, <<"h1">>, <<"x1", "x2">>),
                 Offered(<<"g1">>, <<"h1", "h2", "h1">>, <<"x1", "x2", "x1">>),
                 Offered(<<"g1">>, <<>>, <<"x1", "x2">>),
                 <<Deduplicate(<<"x1", "x2", "x2">>)>>,
                 <<<<>>>> }
CachedChains == {<<"q1", "h1", "x2">>, <<"g1", "h1", "x2">>}
=============================================================================
