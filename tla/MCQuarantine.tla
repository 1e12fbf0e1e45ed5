---------------------------- MODULE MCQuarantine ----------------------------
(* Model checking of Quarantine, with the code's own lengths. *)
EXTENDS Quarantine

\* A Duration is far wider than MaxLen.
DurationTable == [t \in 0 .. MaxCount |-> DurationFor(Initial, MaxLen, 2 * MaxLen, t)]

\* duration_for is `initial` doubled trips - 1 times and capped at `max`, also
\* where the doubling saturates or overshoots the cap before the loop ends.
Policies == {p \in [initial : 1 .. 9, max : 1 .. 9, sat : 1 .. 18] :
                p.initial <= p.max /\ p.max <= p.sat}
ASSUME DurationMatches ==
    \A p \in Policies, t \in 1 .. 8 :
        DurationFor(p.initial, p.max, p.sat, t) = AtMost(p.initial * 2 ^ (t - 1), p.max)
=============================================================================
