----------------------------- MODULE OneTunnel -----------------------------
(***************************************************************************)
(* What `connect_hedged` promises its caller, without saying how: the      *)
(* candidates settle one by one, at most one of them ever gets a tunnel to *)
(* the target, a candidate is given up without a try only because another  *)
(* one has the tunnel, and the call fails only after every candidate did.  *)
(***************************************************************************)
CONSTANT Candidates

VARIABLES
    fate,     \* "open", or how the candidate's attempt ended
    verdict   \* "none", "tunnel", "error" or "cancelled"

vars == <<fate, verdict>>

Tunnels == {i \in Candidates : fate[i] = "tunnel"}

Init == /\ fate = [i \in Candidates |-> "open"]
        /\ verdict = "none"

Settle(i, f) == /\ fate[i] = "open"
                /\ fate' = [fate EXCEPT ![i] = f]
                /\ verdict' = verdict

Succeed(i) == Tunnels = {} /\ Settle(i, "tunnel")
Fail(i)    == Settle(i, "failed")
Lose(i)    == Tunnels # {} /\ Settle(i, "lost")

ReturnTunnel == /\ verdict = "none" /\ Tunnels # {}
                /\ verdict' = "tunnel" /\ fate' = fate
ReturnError  == /\ verdict = "none" /\ \A i \in Candidates : fate[i] = "failed"
                /\ verdict' = "error" /\ fate' = fate
Cancel       == /\ verdict = "none"
                /\ verdict' = "cancelled" /\ fate' = fate

Next == \/ \E i \in Candidates : Succeed(i) \/ Fail(i) \/ Lose(i)
        \/ ReturnTunnel \/ ReturnError \/ Cancel

Spec == Init /\ [][Next]_vars
=============================================================================
