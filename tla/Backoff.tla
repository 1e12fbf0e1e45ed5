------------------------------ MODULE Backoff ------------------------------
(***************************************************************************)
(* The length of a quarantine: QuarantinePolicy::duration_for.             *)
(***************************************************************************)
EXTENDS Integers

AtLeast(x, y) == IF x >= y THEN x ELSE y
AtMost(x, y)  == IF x <= y THEN x ELSE y

(* duration_for: `initial` doubled t - 1 times in a type that saturates at  *)
(* `sat`, leaving the loop once `max` is reached or nothing changes.        *)

DoublingLoop(initial, max, sat) ==
    LET loop[n \in Nat] ==   \* <<length, finished>> after n rounds
            IF n = 0 THEN <<initial, FALSE>>
            ELSE IF loop[n - 1][2] THEN loop[n - 1]
            ELSE LET len == loop[n - 1][1]
                     doubled == AtMost(len * 2, sat)
                 IN  <<doubled, doubled = len \/ doubled >= max>>
    IN  loop

DurationFor(initial, max, sat, t) ==
    AtMost(DoublingLoop(initial, max, sat)[AtLeast(t - 1, 0)][1], max)
=============================================================================
