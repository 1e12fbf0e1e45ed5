---------------------------- MODULE MCInitClaim ----------------------------
(* Model checking of InitClaim: two clients with different passwords, for  *)
(* one account or for one each.                                            *)
EXTENDS InitClaim, TLC

CONSTANTS c1, c2, a1, a2, p1, p2

Login(a, p) == [account |-> a, password |-> p]
RivalsOrStrangers == { c1 :> Login(a1, p1) @@ c2 :> Login(a1, p2),
                       c1 :> Login(a1, p1) @@ c2 :> Login(a2, p2) }
=============================================================================
