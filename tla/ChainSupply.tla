---------------------------- MODULE ChainSupply ----------------------------
(***************************************************************************)
(* What a ChainPlan promises the request that walks it, without saying     *)
(* how: every chain of the supply is offered once, in some order, unless   *)
(* it is withdrawn or one of its nodes is struck first, and the plan says  *)
(* it is exhausted only when nothing is left.                              *)
(***************************************************************************)
EXTENDS Sequences

CONSTANT Supplies    \* the sets of chains a plan may start with

VARIABLES
    left,   \* chains still to be offered
    last    \* the last answer: a chain, or NoPick

vars == <<left, last>>

NoPick == <<>>
HasNode(chain, n) == \E h \in DOMAIN chain : chain[h] = n

Init == left \in Supplies /\ last = NoPick

Offer(chain)    == chain \in left /\ left' = left \ {chain} /\ last' = chain
Exhausted       == left = {} /\ last' = NoPick /\ left' = left
Strike(n)       == left' = {c \in left : ~HasNode(c, n)} /\ last' = last
Withdraw(chain) == left' = left \ {chain} /\ last' = last

Next == \/ \E chain \in left : Offer(chain)
        \/ Exhausted
        \/ \E n \in UNION {{c[h] : h \in DOMAIN c} : c \in left} : Strike(n)
        \/ \E chain \in left : Withdraw(chain)

Spec == Init /\ [][Next]_vars
=============================================================================
