---------------------------- MODULE ClusterView ----------------------------
(***************************************************************************)
(* The cluster view of membership.c: a table of the members a node knows.  *)
(* A view is a function from node ids to members; NoMember stands for an   *)
(* id that is not in the table.  Every operator is one critical section    *)
(* under the view's write lock.                                            *)
(*                                                                         *)
(* A member keeps its status, its incarnation and whether an address is    *)
(* known for it; last_seen_ms, ports and type carry no decision here.      *)
(***************************************************************************)
EXTENDS Integers, FiniteSets

CONSTANTS
  Nodes,         \* node ids
  NoMember,      \* an id the view does not hold
  ViewCapacity   \* view->capacity, MAX_CLUSTER_NODES

NodeStatus == {"ALIVE", "SUSPECT", "DEAD"}

Member == [status : NodeStatus, inc : Nat, addr : BOOLEAN]

ASSUME ViewAssumption == NoMember \notin Member /\ ViewCapacity \in Nat

Known(v) == {m \in DOMAIN v : v[m] # NoMember}

\* Mutant: an entry is replaced however old the new one is.
ViewAdd_stale(v, m, mem) ==
  IF v[m] = NoMember
  THEN IF Cardinality(Known(v)) < ViewCapacity THEN [v EXCEPT ![m] = mem] ELSE v
  ELSE IF mem.status = "ALIVE" /\ v[m].status = "DEAD"
  THEN [v EXCEPT ![m] = [mem EXCEPT !.inc = @ + 1]]
  ELSE [v EXCEPT ![m] = mem]

\* cluster_view_add.  A dead member that comes back alive is replaced whatever
\* its incarnation, and the incarnation is raised by one; otherwise an entry is
\* replaced by one that is at least as recent.  A full table takes no new member.
ViewAdd(v, m, mem) ==
  IF v[m] = NoMember
  THEN IF Cardinality(Known(v)) < ViewCapacity THEN [v EXCEPT ![m] = mem] ELSE v
  ELSE IF mem.status = "ALIVE" /\ v[m].status = "DEAD"
  THEN [v EXCEPT ![m] = [mem EXCEPT !.inc = @ + 1]]
  ELSE IF mem.inc >= v[m].inc THEN [v EXCEPT ![m] = mem] ELSE v

\* Mutant: information of the same incarnation does not count.
ViewUpdateStatus_strict(v, m, st, i) ==
  IF v[m] # NoMember /\ i > v[m].inc
  THEN [v EXCEPT ![m] = [@ EXCEPT !.status = st, !.inc = i]]
  ELSE v

\* cluster_view_update_status: only information that is at least as recent as
\* the entry counts; the address stays as it is.
ViewUpdateStatus(v, m, st, i) ==
  IF v[m] # NoMember /\ i >= v[m].inc
  THEN [v EXCEPT ![m] = [@ EXCEPT !.status = st, !.inc = i]]
  ELSE v
=============================================================================
