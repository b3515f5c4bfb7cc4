------------------------------ MODULE MCGossip ------------------------------
(***************************************************************************)
(* Instances of Gossip for TLC: a router r1 and a worker w1.               *)
(***************************************************************************)
EXTENDS Gossip, TLC

CONSTANTS r1, w1

\* Bounds on the rounds of each node; 0 is no bound.
TwoRounds == [n \in Nodes |-> 2]
FewRounds == [n \in Nodes |-> IF n = r1 THEN 1 ELSE 2]
RouterUnbounded == [n \in Nodes |-> IF n = r1 THEN 0 ELSE 1]
=============================================================================
