---------------------------- MODULE MCDagStore ----------------------------
(***************************************************************************)
(* An instance of DagStore for TLC.                                        *)
(***************************************************************************)
EXTENDS DagStore, TLC

CONSTANTS w1, w2

S(i, deps) == [id |-> i, deps |-> deps]

\* DAG 1 with its steps in the wrong order and two of one id, and a version of it
\* without steps; a DAG 2 with a cycle that shows after the first step; a DAG 3 of
\* one step, the only one small enough to be sent, and one that depends on a step
\* it does not have.  The second and the last are not valid: no client can
\* register them, but another node can send them.
MCDefinitions ==
  {[id |-> 1, steps |-> <<S(1, {2}), S(2, {}), S(2, {1, 2})>>],
   [id |-> 1, steps |-> <<>>],
   [id |-> 2, steps |-> <<S(1, {}), S(2, {2})>>],
   [id |-> 3, steps |-> <<S(1, {})>>],
   [id |-> 3, steps |-> <<S(1, {3})>>]}
===========================================================================
