--------------------------- MODULE MCHealthSaver ---------------------------
(* Model checking of HealthSaver: one instance whose writes may hang, two  *)
(* instances with prompt writes and failing syncs, or two with slow writes. *)
EXTENDS HealthSaver

CONSTANTS s1, s2, alive, dead, due

\* All upstreams are alive, one is quarantined, or it is on probation: a start
\* finds a saved quarantine still running or run out.
RestoresAs == [v \in Pictures |-> IF v = dead THEN {dead, due} ELSE {v}]

Setting(ps, vs, slow, sync) ==
    [instances |-> ps, pictures |-> vs, slow |-> slow, syncFails |-> sync]
AloneOrPrompt == {Setting({s1}, Pictures, TRUE, FALSE), Setting({s1, s2}, {alive, due}, FALSE, TRUE)}
TwoSlow == {Setting({s1, s2}, {alive, due}, TRUE, FALSE)}
=============================================================================
