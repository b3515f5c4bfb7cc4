---------------------------- MODULE MCExecution ----------------------------
(***************************************************************************)
(* Instances of Execution for TLC.                                         *)
(***************************************************************************)
EXTENDS Execution, TLC

CONSTANTS n1, n2, t1, t2, d1, d2

\* A hybrid node: it executes what it accepts, and has no peers.
LocalPool == [n \in Nodes |-> {}]

\* An ingress node n1 and a compute node n2, connected both ways.
RoutedPool == [n \in Nodes |-> Nodes \ {n}]
RoutedChannels == {<<n1, n2>>, <<n2, n1>>}

\* The executor threads are interchangeable.
ExecutorSymmetry == Permutations(Executors)
============================================================================
