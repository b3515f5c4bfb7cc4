--------------------------- MODULE MCRpcReactor ---------------------------
(***************************************************************************)
(* Instances of RpcReactor for TLC: c1 reads its responses, as the clients *)
(* under test/ do, c2 does not, as a peer on its DATA channel.             *)
(***************************************************************************)
EXTENDS RpcReactor, TLC

CONSTANTS c1, c2

F(e, f) == [end |-> e, func |-> f]

\* c1: requests that fill the buffer with more behind them, or one that nobody
\* serves and one that does not fit in the buffer; c2: a peer that only connects.
MCPlans ==
  [c \in Conns |->
     IF c = c1
     THEN {<<F(1, "PROCESS_MESSAGE"), F(2, "EXECUTION_UPDATE"), F(4, "SYNC_CATALOG")>>,
           <<F(1, "HEARTBEAT"), F(4, "SYNC_CATALOG")>>}
     ELSE {<<>>}]

\* A router whose worker c2 reports one execution after the other.
PeerPlans ==
  [c \in Conns |->
     IF c = c1 THEN {<<F(1, "SUBMIT_MESSAGE")>>}
     ELSE {<<F(1, "EXECUTION_UPDATE"), F(2, "EXECUTION_UPDATE")>>}]

MCPort == [c \in Conns |-> IF c = c1 THEN "INGRESS" ELSE "DATA"]
DataPort == [c \in Conns |-> "DATA"]
===========================================================================
