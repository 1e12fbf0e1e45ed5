---------------------------- MODULE MCEstablish ----------------------------
(* An exit shared by both rotators, two gates, budgets from none to more   *)
(* than there is to dial; no gates; a single exit; a banned target.        *)
EXTENDS Establish

Nodes == {"g", "h", "a", "b"}
Setup(gates, exits, max) == [gates |-> gates, exits |-> exits, max |-> max, banned |-> FALSE]
AllSetups ==
    {Setup(<<{"g"}>>, <<{"a"}, {"a", "b"}>>, m) : m \in {1, 3}}
      \cup {Setup(<<{"g"}>>, <<{"a"}, {"a"}>>, m) : m \in {0, 2, 4}}
      \cup {Setup(<<{"g", "h"}>>, <<{"a"}>>, 3), Setup(<<{"g"}, {"h"}>>, <<{"a"}>>, 2)}
      \cup {Setup(<<>>, <<{"a"}, {"a", "b"}>>, 2)}
      \cup {[gates |-> <<>>, exits |-> <<{"a"}>>, max |-> 1, banned |-> TRUE]}
=============================================================================
