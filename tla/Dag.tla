-------------------------------- MODULE Dag --------------------------------
(***************************************************************************)
(* Workflow definitions and what it means to run one of them.  A DAG is a  *)
(* record [id, steps]; steps is the array of its steps, each with an id    *)
(* and the set of the ids it depends on.  Ids are chosen by the client:    *)
(* nothing makes them different.                                           *)
(***************************************************************************)
EXTENDS Integers, SequencesExt

CONSTANT MaxSteps    \* MAX_DAG_STEPS

ASSUME StepsAssumption == MaxSteps \in Nat \ {0}

Steps(d) == DOMAIN d.steps

\* step_count and the array it counts
IsArray(d) == Len(d.steps) \in Nat /\ Steps(d) = 1 .. Len(d.steps)

\* Every id a step depends on is the id of some step.
DependenciesExist(d) ==
  \A i \in Steps(d) : \A dep \in d.steps[i].deps : \E k \in Steps(d) : d.steps[k].id = dep

\* The number of steps is in range and dependencies exist; cycles are not looked
\* for.
dag_validate(d) == Len(d.steps) \in 1 .. MaxSteps /\ DependenciesExist(d)

\* dag_deserialize takes any DAG that has room in a dag_t.
dag_deserialize(d) == Len(d.steps) <= MaxSteps

\* The step a dependency stands for: the first one with its id.
Resolves(d, dep, j) ==
  /\ d.steps[j].id = dep
  /\ \A k \in 1 .. (j - 1) : d.steps[k].id # dep

\* Mutant: a dependency that no step has is met.
step_dependencies_met_missing(d, completed, i) ==
  \A dep \in d.steps[i].deps : \A j \in Steps(d) : Resolves(d, dep, j) => j \in completed

\* Mutant: one dependency is enough.
step_dependencies_met_some(d, completed, i) ==
  \/ d.steps[i].deps = {}
  \/ \E dep \in d.steps[i].deps : \E j \in Steps(d) : Resolves(d, dep, j) /\ j \in completed

step_dependencies_met(d, completed, i) ==
  \A dep \in d.steps[i].deps :
    \E j \in Steps(d) : Resolves(d, dep, j) /\ j \in completed

-----------------------------------------------------------------------------
(***************************************************************************)
(* What dag_execute should do                                              *)
(***************************************************************************)

DependsOn(d, i, j) == \E dep \in d.steps[i].deps : Resolves(d, dep, j)

\* Every set of steps has one that depends on none of them.
Acyclic(d) ==
  \A S \in (SUBSET Steps(d)) \ {{}} : \E i \in S : \A j \in S : ~DependsOn(d, i, j)

\* A DAG that can be run to its end.
Executable(d) == DependenciesExist(d) /\ Acyclic(d)

\* An order that the steps may run in: none twice, and none before a step it
\* depends on.
RespectsDependencies(d, order) ==
  /\ IsInjective(order)
  /\ \A i \in DOMAIN order : \A j \in Steps(d) :
       DependsOn(d, order[i], j) => \E k \in 1 .. (i - 1) : order[k] = j
=============================================================================
