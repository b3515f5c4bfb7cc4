--------------------------- MODULE DagStoreProofs ---------------------------
(***************************************************************************)
(* Machine-checked proofs about DagStore, for every set of executors,      *)
(* peers and definitions, and every capacity of the catalog and the pool.  *)
(***************************************************************************)
EXTENDS DagStore, FiniteSetTheorems, TLAPS

\* The RPC thread has a definition in its hands between the request and the
\* end of the distribution, and it has room in a dag_t before the catalog gets it.
RpcHasDefinition ==
  /\ rpc.pc \in {"add", "sync", "update", "list"} => rpc.def \in Definitions
  /\ rpc.pc \in {"add", "sync", "update"} => dag_deserialize(rpc.def)

\* The listener has a peer in its hands while it handles a join.
ListenerHasPeer == lst.pc # "idle" => lst.peer \in Peers

\* A thread that a lookup in the pool gave an entry owns the mutex, until some
\* thread unlocks what it does not hold.
InsideOwnsMutex ==
  ~stray => /\ \A t \in Executors : exec[t].pc = "hold" => mutex = t
            /\ rpc.pc = "hold" => mutex = RPC
            /\ lst.pc = "hold" => mutex = Listener

\* Lookups are current, and all that dag_catalog_get can give an executor has room
\* in a dag_t.
CatalogOK == LookupIsLatest /\ \A k \in DOMAIN catalog : dag_deserialize(catalog[k])

\* The dependencies of steps that have run exist.
RanWithDependencies(d, order) ==
  \A i \in Range(order) : \A dep \in d.steps[i].deps : \E k \in Steps(d) : d.steps[k].id = dep

\* Where dag_execute is: the steps that are complete have run in an order that
\* respects the dependencies, all of which exist, and a loop that has made no
\* progress yet has started at the first step.
InLoop(E) ==
  /\ E.def \in Definitions /\ dag_deserialize(E.def)
  /\ E.order \in Seq(Steps(E.def))
  /\ RespectsDependencies(E.def, E.order) /\ RanWithDependencies(E.def, E.order)
  /\ ~E.progress => E.next = 1

\* The state of an executor that is to run a DAG, runs it, or has its outcome.
ExecOK(E) ==
  /\ E.pc = "get" => E.order = <<>> /\ E.next = 1
  /\ E.pc = "run" => InLoop(E)
  /\ E.pc = "report" /\ E.def # NoDag => (E.status = "COMPLETED" <=> Executable(E.def))

RunsOK == RunIsStable /\ \A t \in Executors : ExecOK(exec[t])

Inductive ==
  /\ TypeOK /\ RpcHasDefinition /\ ListenerHasPeer
  /\ CatalogOK /\ RunsOK /\ InsideOwnsMutex

-----------------------------------------------------------------------------
(***************************************************************************)
(* Lemmas about dependencies                                               *)
(***************************************************************************)

\* A set of natural numbers that is not empty has a least member.
LEMMA LeastNumber ==
  ASSUME NEW S \in SUBSET Nat, S # {}
  PROVE  \E m \in S : \A k \in S : m <= k
<1> DEFINE R == OpToRel(<, Nat)
<1>1. \E m \in S : \A k \in S : ~(<<k, m>> \in R)
  <2>1. IsWellFoundedOn(R, Nat)
    BY NatLessThanWellFounded
  <2> HIDE DEF R
  <2> QED
    BY <2>1, WFMin
<1>2. ASSUME NEW m \in Nat, NEW k \in Nat, k < m PROVE <<k, m>> \in R
  BY <1>2 DEF OpToRel
<1> HIDE DEF R
<1>3. PICK m \in S : \A k \in S : ~(<<k, m>> \in R)
  BY <1>1
<1>4. ASSUME NEW k \in S PROVE m <= k
  <2>1. m \in Nat /\ k \in Nat
    BY <1>3
  <2>2. ~(k < m)
    BY <1>2, <1>3, <2>1
  <2> QED
    BY <2>1, <2>2
<1> QED
  BY <1>4

\* The search for a dependency that exists stops at a step.
LEMMA DependencyFound ==
  ASSUME NEW d, IsArray(d), NEW dep, \E k \in Steps(d) : d.steps[k].id = dep
  PROVE  \E j \in Steps(d) : Resolves(d, dep, j)
<1> DEFINE K == {k \in Steps(d) : d.steps[k].id = dep}
<1>1. K \in SUBSET Nat /\ K # {}
  BY DEF IsArray
<1>2. PICK j \in K : \A k \in K : j <= k
  <2> HIDE DEF K
  <2> QED
    BY <1>1, LeastNumber
<1>3. ASSUME NEW k \in 1 .. (j - 1) PROVE d.steps[k].id # dep
  <2>1. k \in Steps(d) /\ ~(j <= k)
    BY <1>2 DEF IsArray
  <2> QED
    BY <1>2, <2>1
<1> QED
  BY <1>2, <1>3 DEF Resolves

\* It stops at one step only.
LEMMA DependencyUnique ==
  ASSUME NEW d, IsArray(d), NEW dep, NEW i \in Steps(d), NEW j \in Steps(d),
         Resolves(d, dep, i), Resolves(d, dep, j)
  PROVE  i = j
<1>1. CASE i < j
  <2>1. i \in 1 .. (j - 1)
    BY <1>1 DEF IsArray
  <2> QED
    BY <2>1 DEF Resolves
<1>2. CASE j < i
  <2>1. j \in 1 .. (i - 1)
    BY <1>2 DEF IsArray
  <2> QED
    BY <2>1 DEF Resolves
<1> QED
  BY <1>1, <1>2 DEF IsArray

\* A step whose dependencies are met may run next.
LEMMA RunsNext ==
  ASSUME NEW d, IsArray(d), NEW o \in Seq(Steps(d)), RespectsDependencies(d, o),
         NEW i \in Steps(d), i \notin Range(o), step_dependencies_met(d, Range(o), i)
  PROVE  Append(o, i) \in Seq(Steps(d)) /\ RespectsDependencies(d, Append(o, i))
<1> DEFINE p == Append(o, i)
<1>1. /\ p \in Seq(Steps(d)) /\ Len(o) \in Nat
      /\ DOMAIN o = 1 .. Len(o) /\ DOMAIN p = 1 .. (Len(o) + 1)
      /\ p[Len(o) + 1] = i
      /\ \A m \in 1 .. Len(o) : p[m] = o[m]
  OBVIOUS
<1> HIDE DEF p
<1>2. \A m \in 1 .. Len(o) : o[m] # i
  BY <1>1 DEF Range
<1>3. IsInjective(o)
  BY DEF RespectsDependencies
<1>4. IsInjective(p)
  BY <1>1, <1>2, <1>3 DEF IsInjective
<1>5. ASSUME NEW m \in DOMAIN p, NEW j \in Steps(d), DependsOn(d, p[m], j)
      PROVE  \E k \in 1 .. (m - 1) : p[k] = j
  <2>1. CASE m \in 1 .. Len(o)
    <3>1. PICK k \in 1 .. (m - 1) : o[k] = j
      BY <1>1, <1>5, <2>1 DEF RespectsDependencies
    <3>2. k \in 1 .. Len(o)
      BY <2>1, <1>1
    <3> QED
      BY <1>1, <3>1, <3>2
  <2>2. CASE m = Len(o) + 1
    <3>1. PICK dep \in d.steps[i].deps : Resolves(d, dep, j)
      BY <1>1, <1>5, <2>2 DEF DependsOn
    <3>2. PICK l \in Steps(d) : Resolves(d, dep, l) /\ l \in Range(o)
      BY <3>1 DEF step_dependencies_met
    <3>3. l = j
      BY <3>1, <3>2, DependencyUnique
    <3>4. PICK k \in 1 .. Len(o) : o[k] = j
      BY <1>1, <3>2, <3>3 DEF Range
    <3> QED
      BY <1>1, <2>2, <3>4
  <2> QED
    BY <1>1, <2>1, <2>2
<1> QED
  BY <1>1, <1>4, <1>5 DEF RespectsDependencies, p

\* The dependencies of a step exist when they are met.
LEMMA MetMeansExist ==
  ASSUME NEW d, NEW o \in Seq(Steps(d)), RanWithDependencies(d, o),
         NEW i \in Steps(d), step_dependencies_met(d, Range(o), i)
  PROVE  RanWithDependencies(d, Append(o, i))
<1>1. Range(Append(o, i)) = Range(o) \cup {i}
  <2> DEFINE p == Append(o, i)
  <2>1. /\ Len(o) \in Nat /\ DOMAIN o = 1 .. Len(o) /\ DOMAIN p = 1 .. (Len(o) + 1)
        /\ p[Len(o) + 1] = i /\ \A m \in 1 .. Len(o) : p[m] = o[m]
    OBVIOUS
  <2> HIDE DEF p
  <2>2. Range(p) = Range(o) \cup {i}
    BY <2>1 DEF Range
  <2> QED
    BY <2>2 DEF p
<1>2. \A dep \in d.steps[i].deps : \E k \in Steps(d) : d.steps[k].id = dep
  BY DEF step_dependencies_met, Resolves
<1> QED
  BY <1>1, <1>2 DEF RanWithDependencies

\* A pass over a DAG that is not complete finds a step to run when dependencies
\* exist and have no cycle: there is one that depends only on steps that are
\* complete.
LEMMA ExecutableGoesOn ==
  ASSUME NEW d, IsArray(d), Executable(d), NEW C \in SUBSET Steps(d), C # Steps(d)
  PROVE  \E i \in Steps(d) \ C : step_dependencies_met(d, C, i)
<1> DEFINE S == Steps(d) \ C
<1>1. PICK i \in S : \A j \in S : ~DependsOn(d, i, j)
  BY DEF Executable, Acyclic
<1>2. ASSUME NEW dep \in d.steps[i].deps
      PROVE  \E j \in Steps(d) : Resolves(d, dep, j) /\ j \in C
  <2>1. PICK j \in Steps(d) : Resolves(d, dep, j)
    BY DependencyFound DEF Executable, DependenciesExist
  <2>2. j \notin S
    BY <1>1, <2>1 DEF DependsOn
  <2> QED
    BY <2>1, <2>2
<1> QED
  BY <1>1, <1>2 DEF step_dependencies_met

\* As many steps as there are, none twice, are all of them.
LEMMA CompleteIsAll ==
  ASSUME NEW d, IsArray(d), NEW o \in Seq(Steps(d)), IsInjective(o)
  PROVE  /\ Range(o) \in SUBSET Steps(d)
         /\ Range(o) = Steps(d) <=> Len(o) = Len(d.steps)
<1>1. /\ Len(o) \in Nat /\ DOMAIN o = 1 .. Len(o) /\ o \in [1 .. Len(o) -> Steps(d)]
      /\ Len(d.steps) \in Nat /\ Steps(d) = 1 .. Len(d.steps)
  BY DEF IsArray
<1>2. ASSUME NEW n \in Nat PROVE IsFiniteSet(1 .. n) /\ Cardinality(1 .. n) = n
  BY FS_Interval
<1>3. o \in Injection(1 .. Len(o), Steps(d))
  BY <1>1 DEF Injection, IsInjective
<1>4. Len(o) = Len(d.steps) <=> o \in Surjection(1 .. Len(o), Steps(d))
  BY <1>1, <1>2, <1>3, FS_Injection
<1>5. Range(o) = Steps(d) <=> o \in Surjection(1 .. Len(o), Steps(d))
  BY <1>1 DEF Range, Surjection
<1>6. Range(o) \in SUBSET Steps(d)
  BY <1>1 DEF Range
<1> QED
  BY <1>4, <1>5, <1>6

\* A DAG all of whose steps have run was executable: their dependencies exist, and
\* of any steps the one that ran first depends on none of the others.
LEMMA CompleteIsExecutable ==
  ASSUME NEW d, IsArray(d), NEW o \in Seq(Steps(d)), RespectsDependencies(d, o),
         RanWithDependencies(d, o), Len(o) = Len(d.steps)
  PROVE  Executable(d)
<1>1. Range(o) = Steps(d)
  BY CompleteIsAll DEF RespectsDependencies
<1>2. ASSUME NEW S \in SUBSET Steps(d), S # {} PROVE \E i \in S : \A j \in S : ~DependsOn(d, i, j)
  <2> DEFINE P == {m \in DOMAIN o : o[m] \in S}
  <2>1. DOMAIN o = 1 .. Len(o) /\ Len(o) \in Nat
    OBVIOUS
  <2>2. P \in SUBSET Nat /\ P # {}
    BY <1>1, <1>2, <2>1 DEF Range
  <2>3. PICK m \in P : \A k \in P : m <= k
    <3> HIDE DEF P
    <3> QED
      BY <2>2, LeastNumber
  <2>4. ASSUME NEW j \in S, DependsOn(d, o[m], j) PROVE FALSE
    <3>1. PICK k \in 1 .. (m - 1) : o[k] = j
      BY <2>3, <2>4 DEF RespectsDependencies
    <3>2. k \in P /\ ~(m <= k)
      BY <2>1, <2>3, <3>1
    <3> QED
      BY <2>3, <3>2
  <2> QED
    BY <2>3, <2>4
<1>3. DependenciesExist(d)
  BY <1>1 DEF RanWithDependencies, DependenciesExist
<1> QED
  BY <1>2, <1>3 DEF Acyclic, Executable

USE StoreAssumption

-----------------------------------------------------------------------------
(***************************************************************************)
(* Lemmas about the operators of the model                                 *)
(***************************************************************************)

\* Definitions that occur in the catalog are filed under an id of theirs.
LEMMA DefinitionId == \A d \in Definitions : d.id \in Ids
BY DEF Ids

\* A pointer into the catalog stays good when dag_catalog_add appends.
LEMMA AddKeeps ==
  ASSUME catalog \in Seq(Definitions), NEW d \in Definitions, catalog' = Append(catalog, d)
  PROVE  /\ catalog' \in Seq(Definitions)
         /\ Len(catalog') = Len(catalog) + 1
         /\ DOMAIN catalog' = 1 .. Len(catalog) + 1
         /\ \A k \in DOMAIN catalog : k \in DOMAIN catalog' /\ catalog'[k] = catalog[k]
         /\ catalog'[Len(catalog) + 1] = d
OBVIOUS

\* dag_catalog_add of an id that is not there keeps one entry for each id, the
\* one accepted last, and the capacity.
LEMMA AddCatalog ==
  ASSUME CatalogTypeOK, CatalogOK, NEW d \in Definitions, dag_deserialize(d), Add(d)
  PROVE  CatalogTypeOK' /\ CatalogOK'
<1>1. /\ ~Known(d.id) /\ Len(catalog) < Capacity
      /\ catalog' = Append(catalog, d)
      /\ latest' = [latest EXCEPT ![d.id] = d]
  BY DEF Add
<1>2. catalog \in Seq(Definitions) /\ latest \in [Ids -> Definitions \cup {NoDag}]
  BY DEF CatalogTypeOK
<1>3. \A k \in DOMAIN catalog : catalog[k] \in Definitions /\ catalog[k].id \in Ids /\ catalog[k].id # d.id
  BY <1>1, <1>2, DefinitionId DEF Known
<1>4. d.id \in Ids
  BY DefinitionId
<1>5. latest' \in [Ids -> Definitions \cup {NoDag}]
  BY <1>1, <1>2, <1>4
<1>6. /\ latest'[d.id] = d
      /\ \A i \in Ids : i # d.id => latest'[i] = latest[i]
  BY <1>1, <1>2, <1>4
<1>7. /\ catalog' \in Seq(Definitions)
      /\ Len(catalog') = Len(catalog) + 1
      /\ DOMAIN catalog' = 1 .. Len(catalog) + 1
      /\ DOMAIN catalog = 1 .. Len(catalog)
      /\ \A k \in DOMAIN catalog : catalog'[k] = catalog[k]
      /\ catalog'[Len(catalog) + 1] = d
      /\ Len(catalog) \in Nat
  BY <1>1, <1>2, AddKeeps
<1>8. LookupIsLatest'
  <2>1. ASSUME NEW k \in DOMAIN catalog' PROVE catalog'[k] = latest'[catalog'[k].id]
    <3>1. CASE k \in DOMAIN catalog
      BY <3>1, <1>3, <1>6, <1>7 DEF CatalogOK, LookupIsLatest
    <3>2. CASE k = Len(catalog) + 1
      BY <3>2, <1>6, <1>7
    <3> QED
      BY <1>7, <3>1, <3>2
  <2>2. ASSUME NEW j \in DOMAIN catalog', NEW k \in DOMAIN catalog', catalog'[j].id = catalog'[k].id
        PROVE  j = k
    <3>1. CASE j \in DOMAIN catalog /\ k \in DOMAIN catalog
      BY <3>1, <2>2, <1>7 DEF CatalogOK, LookupIsLatest
    <3>2. CASE j = Len(catalog) + 1 /\ k \in DOMAIN catalog
      BY <3>2, <2>2, <1>3, <1>7
    <3>3. CASE k = Len(catalog) + 1 /\ j \in DOMAIN catalog
      BY <3>3, <2>2, <1>3, <1>7
    <3> QED
      BY <1>7, <3>1, <3>2, <3>3
  <2> QED
    BY <2>1, <2>2 DEF LookupIsLatest
<1>9. \A k \in DOMAIN catalog' : dag_deserialize(catalog'[k])
  BY <1>7 DEF CatalogOK
<1> QED
  BY <1>1, <1>5, <1>7, <1>8, <1>9 DEF CatalogTypeOK, CatalogOK

\* dag_catalog_update overwrites the one entry with the id of the definition.
LEMMA UpdateCatalog ==
  ASSUME CatalogTypeOK, CatalogOK, NEW d \in Definitions, dag_deserialize(d), NEW k \in DOMAIN catalog,
         IndexOf(d.id, k), catalog' = [catalog EXCEPT ![k] = d],
         latest' = [latest EXCEPT ![d.id] = d]
  PROVE  CatalogTypeOK' /\ CatalogOK'
<1>1. catalog \in Seq(Definitions) /\ latest \in [Ids -> Definitions \cup {NoDag}]
  BY DEF CatalogTypeOK
<1>2. d.id \in Ids /\ catalog[k].id = d.id
  BY DefinitionId DEF IndexOf
<1>3. /\ latest' \in [Ids -> Definitions \cup {NoDag}]
      /\ latest'[d.id] = d
      /\ \A i \in Ids : i # d.id => latest'[i] = latest[i]
  BY <1>1, <1>2
<1>4. /\ catalog' \in Seq(Definitions)
      /\ Len(catalog') = Len(catalog)
      /\ DOMAIN catalog' = DOMAIN catalog
      /\ catalog'[k] = d
      /\ \A j \in DOMAIN catalog : j # k => catalog'[j] = catalog[j]
  BY <1>1
<1>5. \A j \in DOMAIN catalog : catalog[j].id \in Ids
  BY <1>1, DefinitionId
<1>6. \A j \in DOMAIN catalog : j # k => catalog[j].id # d.id
  BY <1>2 DEF CatalogOK, LookupIsLatest
<1>7. LookupIsLatest'
  BY <1>2, <1>3, <1>4, <1>5, <1>6 DEF CatalogOK, LookupIsLatest
<1>8. \A j \in DOMAIN catalog' : dag_deserialize(catalog'[j])
  BY <1>4 DEF CatalogOK
<1> QED
  BY <1>3, <1>4, <1>7, <1>8 DEF CatalogTypeOK, CatalogOK

-----------------------------------------------------------------------------
(***************************************************************************)
(* The inductive invariant                                                 *)
(***************************************************************************)

\* The state of an executor between two messages.
LEMMA IdleExecOK == IdleExec \in ExecStates /\ IdleExec.pc = "idle" /\ ExecOK(IdleExec)
<1>1. 1 \in 1 .. MaxSteps + 1
  BY StepsAssumption
<1> QED
  BY <1>1 DEF ExecStates, IdleExec, ExecOK

\* The state the node starts in satisfies the inductive invariant.
LEMMA InitInductive == Init => Inductive
<1>1. Init => rpc \in RpcStates
  BY DEF Init, IdleRpc, RpcStates
<1>2. Init => exec \in [Executors -> ExecStates]
  BY IdleExecOK DEF Init
<1>3. Init => lst \in ListenerStates
  BY DEF Init, IdleListener, ListenerStates
<1>4. Init => CatalogTypeOK /\ PoolTypeOK
  BY DEF Init, CatalogTypeOK, PoolTypeOK
<1>5. Init => RpcHasDefinition /\ ListenerHasPeer /\ CatalogOK
  BY DEF Init, RpcHasDefinition, ListenerHasPeer, CatalogOK, LookupIsLatest, IdleRpc, IdleListener
<1>6. Init => RunsOK /\ InsideOwnsMutex
  BY DEF Init, RunsOK, RunIsStable, ExecOK, InsideOwnsMutex, IdleRpc, IdleExec, IdleListener
<1> QED
  BY <1>1, <1>2, <1>3, <1>4, <1>5, <1>6 DEF Init, Inductive, TypeOK

\* An executor moves to a well-typed state, the others stay where they are.
LEMMA ExecSet ==
  ASSUME exec \in [Executors -> ExecStates], NEW t \in Executors, NEW E \in ExecStates,
         exec' = [exec EXCEPT ![t] = E]
  PROVE  /\ exec' \in [Executors -> ExecStates]
         /\ \A u \in Executors : exec'[u] = IF u = t THEN E ELSE exec[u]
OBVIOUS

\* What holds of the catalog goes on to hold in a step that does not write to it.
LEMMA CatalogFrame ==
  ASSUME CatalogTypeOK, CatalogOK, UNCHANGED <<catalog, latest>>
  PROVE  CatalogTypeOK' /\ CatalogOK'
BY DEF CatalogTypeOK, CatalogOK, LookupIsLatest

\* An executor's pointer into the catalog is good in a step of another thread
\* that does not write to the catalog.
LEMMA RunFrame ==
  ASSUME RunsOK, UNCHANGED <<catalog, exec>>
  PROVE  RunsOK'
BY DEF RunsOK, RunIsStable

\* The pool keeps its shape in a step that does not write to it.
LEMMA PoolFrame ==
  ASSUME PoolTypeOK, UNCHANGED pool
  PROVE  PoolTypeOK'
BY DEF PoolTypeOK

\* An executor that is not running a DAG afterwards leaves the others theirs.
LEMMA RunStops ==
  ASSUME RunsOK, exec \in [Executors -> ExecStates], NEW t \in Executors, NEW E \in ExecStates,
         exec' = [exec EXCEPT ![t] = E], E.pc # "run", ExecOK(E), UNCHANGED catalog
  PROVE  RunsOK'
BY ExecSet DEF RunsOK, RunIsStable

\* A step of an executor that takes no lock of the pool: it is enough to look at
\* the state the executor moves to.
LEMMA ExecMoves ==
  ASSUME Inductive, NEW t \in Executors, NEW E \in ExecStates, ExecOK(E), E.pc # "hold",
         E.pc = "run" => E.at \in DOMAIN catalog /\ catalog[E.at] = E.def,
         exec' = [exec EXCEPT ![t] = E],
         UNCHANGED <<catalog, view, pool, mutex, rpc, lst, latest, stray>>
  PROVE  Inductive'
<1>1. /\ exec' \in [Executors -> ExecStates]
      /\ \A u \in Executors : exec'[u] = IF u = t THEN E ELSE exec[u]
  BY ExecSet DEF Inductive, TypeOK
<1>2. RunsOK'
  BY <1>1 DEF Inductive, RunsOK, RunIsStable
<1>3. CatalogTypeOK' /\ CatalogOK' /\ PoolTypeOK'
  BY CatalogFrame, PoolFrame DEF Inductive, TypeOK
<1>4. InsideOwnsMutex'
  BY <1>1 DEF Inductive, InsideOwnsMutex
<1> QED
  BY <1>1, <1>2, <1>3, <1>4 DEF Inductive, TypeOK, RpcHasDefinition, ListenerHasPeer

\* An executor that has released the catalog has an outcome that is true of the
\* definition it has run, or has run none.
LEMMA ReleaseInductive ==
  ASSUME Inductive, NEW t \in Executors, NEW st \in {"COMPLETED", "FAILED"},
         NEW d \in Definitions \cup {NoDag}, d # NoDag => (st = "COMPLETED" <=> Executable(d)),
         Release(t, st, d)
  PROVE  Inductive'
<1> DEFINE R == [IdleExec EXCEPT !.pc = "report", !.sender = exec[t].sender, !.status = st, !.def = d]
           E == IF exec[t].sender = Self THEN IdleExec ELSE R
<1>1. exec[t].sender \in Peers \cup {Self}
  BY DEF Inductive, TypeOK, ExecStates
<1>2. R \in ExecStates /\ R.pc = "report" /\ R.status = st /\ R.def = d
  BY <1>1, IdleExecOK DEF ExecStates
<1>3. exec' = [exec EXCEPT ![t] = E]
  BY DEF Release
<1> HIDE DEF R
<1>4. ExecOK(R)
  BY <1>2 DEF ExecOK
<1>5. E \in ExecStates /\ ExecOK(E) /\ E.pc \in {"idle", "report"}
  BY <1>2, <1>4, IdleExecOK
<1> HIDE DEF E
<1> QED
  BY <1>3, <1>5, ExecMoves DEF Release

\* What an executor knows while it runs a DAG.
LEMMA WhileRunning ==
  ASSUME Inductive, NEW t \in Executors, exec[t].pc = "run"
  PROVE  /\ exec[t] \in ExecStates /\ exec[t].at \in DOMAIN catalog
         /\ catalog[exec[t].at] = exec[t].def
         /\ exec[t].def \in Definitions /\ exec[t].def # NoDag /\ IsArray(exec[t].def)
         /\ InLoop(exec[t])
<1>1. exec[t] \in ExecStates
  BY DEF Inductive, TypeOK
<1>2. exec[t].at \in DOMAIN catalog /\ catalog[exec[t].at] = exec[t].def
  BY DEF Inductive, RunsOK, RunIsStable
<1>3. InLoop(exec[t])
  BY DEF Inductive, RunsOK, ExecOK
<1>4. exec[t].def \in Definitions
  BY <1>3 DEF InLoop
<1> QED
  BY <1>1, <1>2, <1>3, <1>4

\* Every step of every thread keeps it.
LEMMA NextInductive == Inductive /\ [Next]_vars => Inductive'
<1> SUFFICES ASSUME Inductive, [Next]_vars PROVE Inductive'
  OBVIOUS
<1> USE DEF Inductive
<1>1. ASSUME NEW d \in Definitions, AddDag(d) PROVE Inductive'
  <2>3. dag_validate(d) => dag_deserialize(d)
    BY StepsAssumption DEF dag_validate, dag_deserialize
  <2>1. rpc' \in RpcStates /\ RpcHasDefinition' /\ rpc'.pc # "hold"
    BY <1>1, <2>3 DEF AddDag, IdleRpc, TypeOK, RpcStates, RpcHasDefinition
  <2>2. CatalogTypeOK' /\ CatalogOK' /\ RunsOK' /\ PoolTypeOK'
    BY <1>1, CatalogFrame, RunFrame, PoolFrame DEF AddDag, TypeOK
  <2> QED
    BY <1>1, <2>1, <2>2 DEF AddDag, TypeOK, ListenerHasPeer, InsideOwnsMutex
<1>2. ASSUME NEW d \in Definitions, SyncCatalog(d) PROVE Inductive'
  <2>1. rpc' \in RpcStates /\ RpcHasDefinition' /\ rpc'.pc # "hold"
    BY <1>2 DEF SyncCatalog, IdleRpc, TypeOK, RpcStates, RpcHasDefinition
  <2>2. CatalogTypeOK' /\ CatalogOK' /\ RunsOK' /\ PoolTypeOK'
    BY <1>2, CatalogFrame, RunFrame, PoolFrame DEF SyncCatalog, TypeOK
  <2> QED
    BY <1>2, <2>1, <2>2 DEF SyncCatalog, TypeOK, ListenerHasPeer, InsideOwnsMutex
<1>3. ASSUME NEW t \in Executors, NEW i \in Ids, NEW s \in Peers \cup {Self}, TakeMessage(t, i, s)
      PROVE  Inductive'
  <2> DEFINE E == [IdleExec EXCEPT !.pc = "get", !.id = i, !.sender = s]
  <2>1. E \in ExecStates /\ E.pc = "get" /\ E.order = IdleExec.order /\ E.next = IdleExec.next
    BY IdleExecOK DEF ExecStates
  <2>2. exec' = [exec EXCEPT ![t] = E]
    BY <1>3 DEF TakeMessage
  <2> HIDE DEF E
  <2>3. ExecOK(E)
    BY <2>1 DEF ExecOK, IdleExec
  <2> QED
    BY <1>3, <2>1, <2>2, <2>3, ExecMoves DEF TakeMessage
<1>4. ASSUME NEW w \in Peers, WorkerJoin(w) PROVE Inductive'
  <2>1. CatalogTypeOK' /\ CatalogOK' /\ RunsOK' /\ PoolTypeOK'
    BY <1>4, CatalogFrame, RunFrame, PoolFrame DEF WorkerJoin, TypeOK
  <2>2. lst' \in ListenerStates /\ ListenerHasPeer' /\ lst'.pc # "hold"
    BY <1>4 DEF WorkerJoin, ListenerStates, ListenerHasPeer
  <2> QED
    BY <1>4, <2>1, <2>2 DEF WorkerJoin, TypeOK, RpcHasDefinition, InsideOwnsMutex
<1>5. ASSUME NEW w \in Peers, Rumour(w) PROVE Inductive'
  <2>1. CatalogTypeOK' /\ CatalogOK' /\ RunsOK' /\ PoolTypeOK'
    BY <1>5, CatalogFrame, RunFrame, PoolFrame DEF Rumour, TypeOK
  <2> QED
    BY <1>5, <2>1 DEF Rumour, TypeOK, RpcHasDefinition, ListenerHasPeer, InsideOwnsMutex
<1>6. ASSUME RegisterDag PROVE Inductive'
  <2>1. rpc.def \in Definitions /\ dag_deserialize(rpc.def)
    BY <1>6 DEF RegisterDag, RpcHasDefinition
  <2>2. CatalogTypeOK' /\ CatalogOK'
    BY <1>6, <2>1, AddCatalog, CatalogFrame DEF RegisterDag, TypeOK
  <2>3. RunsOK' /\ PoolTypeOK'
    BY <1>6, PoolFrame DEF RegisterDag, CatalogWritable, Readers, RunsOK, RunIsStable, TypeOK
  <2>4. rpc' \in RpcStates /\ RpcHasDefinition' /\ rpc'.pc # "hold"
    BY <1>6, <2>1 DEF RegisterDag, TypeOK, RpcStates, RpcHasDefinition, IdleRpc
  <2> QED
    BY <1>6, <2>2, <2>3, <2>4 DEF RegisterDag, TypeOK, ListenerHasPeer, InsideOwnsMutex
<1>7. ASSUME SyncAdd PROVE Inductive'
  <2>1. rpc.def \in Definitions /\ dag_deserialize(rpc.def)
    BY <1>7 DEF SyncAdd, RpcHasDefinition
  <2>2. CatalogTypeOK' /\ CatalogOK'
    BY <1>7, <2>1, AddCatalog, CatalogFrame DEF SyncAdd, TypeOK
  <2>3. RunsOK' /\ PoolTypeOK'
    BY <1>7, PoolFrame DEF SyncAdd, CatalogWritable, Readers, RunsOK, RunIsStable, TypeOK
  <2>4. rpc' \in RpcStates /\ RpcHasDefinition' /\ rpc'.pc # "hold"
    BY <1>7, <2>1 DEF SyncAdd, TypeOK, RpcStates, RpcHasDefinition, IdleRpc
  <2> QED
    BY <1>7, <2>2, <2>3, <2>4 DEF SyncAdd, TypeOK, ListenerHasPeer, InsideOwnsMutex
<1>8. ASSUME SyncUpdate PROVE Inductive'
  <2>1. rpc.def \in Definitions /\ dag_deserialize(rpc.def)
    BY <1>8 DEF SyncUpdate, RpcHasDefinition
  <2>2. CatalogTypeOK' /\ CatalogOK'
    BY <1>8, <2>1, UpdateCatalog DEF SyncUpdate, TypeOK
  <2>3. RunsOK' /\ PoolTypeOK'
    BY <1>8, PoolFrame DEF SyncUpdate, CatalogWritable, Readers, RunsOK, RunIsStable, TypeOK
  <2>4. rpc' \in RpcStates /\ RpcHasDefinition' /\ rpc'.pc # "hold"
    BY <1>8, <2>1 DEF SyncUpdate, TypeOK, RpcStates, RpcHasDefinition, IdleRpc
  <2> QED
    BY <1>8, <2>2, <2>3, <2>4 DEF SyncUpdate, TypeOK, ListenerHasPeer, InsideOwnsMutex
<1>9. ASSUME ListWorkers PROVE Inductive'
  <2>1. rpc' \in RpcStates /\ RpcHasDefinition' /\ rpc'.pc # "hold"
    BY <1>9 DEF ListWorkers, TypeOK, RpcStates, RpcHasDefinition
  <2>2. CatalogTypeOK' /\ CatalogOK' /\ RunsOK' /\ PoolTypeOK'
    BY <1>9, CatalogFrame, RunFrame, PoolFrame DEF ListWorkers, TypeOK
  <2> QED
    BY <1>9, <2>1, <2>2 DEF ListWorkers, TypeOK, ListenerHasPeer, InsideOwnsMutex
<1>10. ASSUME NEW w \in Peers, SyncPeer(w) PROVE Inductive'
  <2>1. rpc' \in RpcStates /\ RpcHasDefinition' /\ rpc'.pc = Found(w)
    BY <1>10 DEF SyncPeer, Found, TypeOK, RpcStates, RpcHasDefinition
  <2>2. CatalogTypeOK' /\ CatalogOK' /\ RunsOK' /\ PoolTypeOK'
    BY <1>10, CatalogFrame, RunFrame, PoolFrame DEF SyncPeer, TypeOK
  <2>3. InsideOwnsMutex' /\ mutex' \in Threads \cup {NoThread}
    BY <1>10, <2>1 DEF SyncPeer, PoolGet, Found, Threads, InsideOwnsMutex
  <2> QED
    BY <1>10, <2>1, <2>2, <2>3 DEF SyncPeer, TypeOK, ListenerHasPeer
<1>11. ASSUME SendSync PROVE Inductive'
  <2>1. rpc' \in RpcStates /\ RpcHasDefinition' /\ rpc'.pc = "each"
    BY <1>11 DEF SendSync, TypeOK, RpcStates, RpcHasDefinition
  <2>2. CatalogTypeOK' /\ CatalogOK' /\ RunsOK' /\ PoolTypeOK'
    BY <1>11, CatalogFrame, RunFrame, PoolFrame DEF SendSync, TypeOK
  <2>3. InsideOwnsMutex' /\ mutex' \in Threads \cup {NoThread} /\ stray' \in BOOLEAN
    BY <1>11, <2>1 DEF SendSync, PoolRelease, InsideOwnsMutex
  <2> QED
    BY <1>11, <2>1, <2>2, <2>3 DEF SendSync, TypeOK, ListenerHasPeer
<1>12. ASSUME AddDone PROVE Inductive'
  <2>1. rpc' \in RpcStates /\ RpcHasDefinition' /\ rpc'.pc # "hold"
    BY <1>12 DEF AddDone, IdleRpc, RpcStates, RpcHasDefinition
  <2>2. CatalogTypeOK' /\ CatalogOK' /\ RunsOK' /\ PoolTypeOK'
    BY <1>12, CatalogFrame, RunFrame, PoolFrame DEF AddDone, TypeOK
  <2> QED
    BY <1>12, <2>1, <2>2 DEF AddDone, TypeOK, ListenerHasPeer, InsideOwnsMutex
<1>13. ASSUME NEW t \in Executors, LookUp(t) PROVE Inductive'
  <2>1. CASE ~Known(exec[t].id) /\ exec' = [exec EXCEPT ![t] = IdleExec]
    BY <1>13, <2>1, IdleExecOK, ExecMoves DEF LookUp
  <2>2. ASSUME NEW k \in DOMAIN catalog,
               exec' = [exec EXCEPT ![t].pc = "run", ![t].at = k, ![t].def = catalog[k]]
        PROVE  Inductive'
    <3> DEFINE E == [exec[t] EXCEPT !.pc = "run", !.at = k, !.def = catalog[k]]
    <3>1. exec' = [exec EXCEPT ![t] = E]
      BY <2>2 DEF TypeOK
    <3>2. k \in 0 .. Capacity /\ catalog[k] \in Definitions /\ dag_deserialize(catalog[k])
      BY DEF TypeOK, CatalogTypeOK, CatalogOK
    <3>3. /\ E \in ExecStates /\ E.pc = "run" /\ E.at = k /\ E.def = catalog[k]
          /\ E.order = exec[t].order /\ E.next = exec[t].next /\ E.progress = exec[t].progress
      BY <3>2 DEF TypeOK, ExecStates
    <3>4. exec[t].order = <<>> /\ exec[t].next = 1
      BY <1>13 DEF LookUp, RunsOK, ExecOK
    <3> HIDE DEF E
    <3>5. /\ E.order \in Seq(Steps(E.def))
          /\ RespectsDependencies(E.def, E.order) /\ RanWithDependencies(E.def, E.order)
      <4>1. <<>> \in Seq(Steps(E.def)) /\ DOMAIN <<>> = {}
        OBVIOUS
      <4>2. RespectsDependencies(E.def, <<>>) /\ RanWithDependencies(E.def, <<>>)
        BY <4>1 DEF RespectsDependencies, RanWithDependencies, IsInjective, Range
      <4> QED
        BY <3>3, <3>4, <4>1, <4>2
    <3>6. ExecOK(E)
      BY <3>2, <3>3, <3>4, <3>5 DEF ExecOK, InLoop
    <3> QED
      BY <1>13, <3>1, <3>3, <3>6, ExecMoves DEF LookUp
  <2> QED
    BY <1>13, <2>1, <2>2 DEF LookUp
<1>14. ASSUME NEW t \in Executors, Ran(t) PROVE Inductive'
  <2> DEFINE d == exec[t].def
             o == exec[t].order
  <2>1. /\ catalog[exec[t].at] = d /\ d \in Definitions /\ IsArray(d) /\ InLoop(exec[t])
    BY <1>14, WhileRunning DEF Ran
  <2>2. /\ dag_deserialize(d) /\ o \in Seq(Steps(d))
        /\ RespectsDependencies(d, o) /\ RanWithDependencies(d, o)
    BY <2>1 DEF InLoop
  <2>3. CASE AllComplete(t) /\ Release(t, "COMPLETED", d)
    <3>1. Executable(d)
      BY <2>1, <2>2, <2>3, CompleteIsExecutable DEF AllComplete
    <3> QED
      BY <2>1, <2>3, <3>1, ReleaseInductive
  <2>4. CASE Runnable(t) = {} /\ ~AllComplete(t) /\ ~exec[t].progress /\ Release(t, "FAILED", d)
    <3>1. Range(o) \in SUBSET Steps(d) /\ Range(o) # Steps(d)
      BY <2>1, <2>2, <2>4, CompleteIsAll DEF AllComplete, RespectsDependencies
    <3>2. exec[t].next = 1
      BY <2>1, <2>4 DEF InLoop
    <3>3. ASSUME NEW i \in Steps(d) \ Range(o), step_dependencies_met(d, Range(o), i) PROVE FALSE
      <4>1. i >= exec[t].next
        BY <2>1, <3>2 DEF IsArray
      <4>2. i \in Runnable(t)
        BY <2>1, <3>3, <4>1 DEF Runnable
      <4> QED
        BY <2>4, <4>2
    <3>4. ~Executable(d)
      BY <2>1, <2>2, <3>1, <3>3, ExecutableGoesOn
    <3> QED
      BY <2>1, <2>4, <3>4, ReleaseInductive
  <2> QED
    BY <1>14, <2>3, <2>4 DEF Ran
<1>15. ASSUME NEW t \in Executors, NoMemory(t) PROVE Inductive'
  BY <1>15, ReleaseInductive DEF NoMemory
<1>16. ASSUME NEW t \in Executors, ExecuteStep(t) PROVE Inductive'
  <2> DEFINE d == exec[t].def
             o == exec[t].order
  <2>1. /\ exec[t] \in ExecStates /\ exec[t].pc = "run" /\ exec[t].at \in DOMAIN catalog
        /\ catalog[exec[t].at] = d /\ d \in Definitions /\ IsArray(d) /\ InLoop(exec[t])
    BY <1>16, WhileRunning DEF ExecuteStep
  <2>2. /\ dag_deserialize(d) /\ o \in Seq(Steps(d))
        /\ RespectsDependencies(d, o) /\ RanWithDependencies(d, o)
    BY <2>1 DEF InLoop
  <2>3. PICK i \in Runnable(t) :
          exec' = [exec EXCEPT ![t].next = i + 1, ![t].order = Append(@, i), ![t].progress = TRUE]
    BY <1>16 DEF ExecuteStep
  <2>4. i \in Steps(d) /\ i \notin Range(o) /\ step_dependencies_met(d, Range(o), i)
    BY <2>1, <2>3 DEF Runnable
  <2>5. /\ Append(o, i) \in Seq(Steps(d)) /\ RespectsDependencies(d, Append(o, i))
        /\ RanWithDependencies(d, Append(o, i))
    BY <2>1, <2>2, <2>4, RunsNext, MetMeansExist
  <2>6. i \in 1 .. MaxSteps
    BY <2>1, <2>2, <2>4, StepsAssumption DEF IsArray, dag_deserialize
  <2>7. Append(o, i) \in Seq(1 .. MaxSteps) /\ i + 1 \in 1 .. MaxSteps + 1
    BY <2>1, <2>6, StepsAssumption DEF ExecStates
  <2> DEFINE E == [exec[t] EXCEPT !.next = i + 1, !.order = Append(o, i), !.progress = TRUE]
  <2>8. exec' = [exec EXCEPT ![t] = E]
    BY <2>3 DEF TypeOK
  <2>9. /\ E \in ExecStates /\ E.pc = "run" /\ E.at = exec[t].at /\ E.def = d
        /\ E.order = Append(o, i) /\ E.progress = TRUE
    BY <2>1, <2>7 DEF ExecStates
  <2> HIDE DEF E
  <2>10. ExecOK(E)
    BY <2>1, <2>2, <2>5, <2>9 DEF ExecOK, InLoop
  <2> QED
    BY <1>16, <2>1, <2>8, <2>9, <2>10, ExecMoves DEF ExecuteStep
<1>21. ASSUME NEW t \in Executors, NextPass(t) PROVE Inductive'
  <2> DEFINE E == [exec[t] EXCEPT !.next = 1, !.progress = FALSE]
  <2>1. /\ exec[t] \in ExecStates /\ exec[t].pc = "run" /\ exec[t].at \in DOMAIN catalog
        /\ catalog[exec[t].at] = exec[t].def /\ InLoop(exec[t])
    BY <1>21, WhileRunning DEF NextPass
  <2>2. exec' = [exec EXCEPT ![t] = E]
    BY <1>21 DEF NextPass, TypeOK
  <2>3. /\ E \in ExecStates /\ E.pc = "run" /\ E.at = exec[t].at /\ E.def = exec[t].def
        /\ E.order = exec[t].order /\ E.next = 1
    <3>1. 1 \in 1 .. MaxSteps + 1
      BY StepsAssumption
    <3> QED
      BY <2>1, <3>1 DEF ExecStates
  <2> HIDE DEF E
  <2>4. ExecOK(E)
    BY <2>1, <2>3 DEF ExecOK, InLoop
  <2> QED
    BY <1>21, <2>1, <2>2, <2>3, <2>4, ExecMoves DEF NextPass
<1>22. ASSUME NEW t \in Executors, Report(t) PROVE Inductive'
  <2> DEFINE E == [exec[t] EXCEPT !.pc = Found(exec[t].sender), !.def = NoDag]
  <2>1. E \in ExecStates /\ E.pc = Found(exec[t].sender) /\ E.pc \in {"hold", "miss"}
    BY DEF ExecStates, Found, TypeOK
  <2>2. exec' = [exec EXCEPT ![t] = E]
    BY <1>22 DEF Report, TypeOK
  <2> HIDE DEF E
  <2>3. /\ exec' \in [Executors -> ExecStates]
        /\ \A u \in Executors : exec'[u] = IF u = t THEN E ELSE exec[u]
    BY <2>1, <2>2, ExecSet DEF TypeOK
  <2>4. CatalogTypeOK' /\ CatalogOK' /\ RunsOK' /\ PoolTypeOK'
    <3>1. ExecOK(E)
      BY <2>1 DEF ExecOK
    <3> QED
      BY <1>22, <2>1, <2>2, <3>1, CatalogFrame, RunStops, PoolFrame DEF Report, TypeOK
  <2>5. InsideOwnsMutex' /\ mutex' \in Threads \cup {NoThread}
    BY <1>22, <2>1, <2>3 DEF Report, PoolGet, Found, Threads, InsideOwnsMutex
  <2> QED
    BY <1>22, <2>3, <2>4, <2>5 DEF Report, TypeOK, RpcHasDefinition, ListenerHasPeer
<1>23. ASSUME NEW t \in Executors, Reported(t) PROVE Inductive'
  <2>1. IdleExec \in ExecStates /\ IdleExec.pc = "idle" /\ ExecOK(IdleExec)
    BY IdleExecOK
  <2>2. /\ exec' \in [Executors -> ExecStates]
        /\ \A u \in Executors : exec'[u] = IF u = t THEN IdleExec ELSE exec[u]
    BY <1>23, <2>1, ExecSet DEF Reported, TypeOK
  <2>3. CatalogTypeOK' /\ CatalogOK' /\ RunsOK' /\ PoolTypeOK'
    BY <1>23, <2>1, CatalogFrame, RunStops, PoolFrame DEF Reported, TypeOK
  <2>4. InsideOwnsMutex' /\ mutex' \in Threads \cup {NoThread} /\ stray' \in BOOLEAN
    BY <1>23, <2>1, <2>2 DEF Reported, PoolRelease, InsideOwnsMutex
  <2> QED
    BY <1>23, <2>2, <2>3, <2>4 DEF Reported, TypeOK, RpcHasDefinition, ListenerHasPeer
<1>17. ASSUME JoinAdd PROVE Inductive'
  <2>1. lst' \in ListenerStates /\ ListenerHasPeer' /\ lst'.pc # "hold"
    BY <1>17 DEF JoinAdd, TypeOK, ListenerStates, ListenerHasPeer, IdleListener
  <2>2. PoolTypeOK'
    <3>1. CASE pool' = pool
      BY <3>1, PoolFrame DEF TypeOK
    <3>2. CASE pool' = Append(pool, [node |-> lst.peer, channel |-> FALSE])
               /\ ~InPool(lst.peer) /\ Len(pool) < PoolCapacity
      <4>1. [node |-> lst.peer, channel |-> FALSE] \in [node : Peers, channel : BOOLEAN]
        BY <1>17 DEF JoinAdd, ListenerHasPeer
      <4> QED
        BY <3>2, <4>1 DEF TypeOK, PoolTypeOK, InPool
    <3> QED
      BY <1>17, <3>1, <3>2 DEF JoinAdd, TypeOK, PoolTypeOK
  <2>3. CatalogTypeOK' /\ CatalogOK' /\ RunsOK'
    BY <1>17, CatalogFrame, RunFrame DEF JoinAdd, TypeOK
  <2> QED
    BY <1>17, <2>1, <2>2, <2>3 DEF JoinAdd, TypeOK, RpcHasDefinition, InsideOwnsMutex
<1>18. ASSUME JoinGet PROVE Inductive'
  <2>1. lst' \in ListenerStates /\ ListenerHasPeer' /\ lst'.pc = Found(lst.peer)
    BY <1>18 DEF JoinGet, Found, TypeOK, ListenerStates, ListenerHasPeer
  <2>2. CatalogTypeOK' /\ CatalogOK' /\ RunsOK' /\ PoolTypeOK'
    BY <1>18, CatalogFrame, RunFrame, PoolFrame DEF JoinGet, TypeOK
  <2>3. InsideOwnsMutex' /\ mutex' \in Threads \cup {NoThread}
    BY <1>18, <2>1 DEF JoinGet, PoolGet, Found, Threads, InsideOwnsMutex
  <2> QED
    BY <1>18, <2>1, <2>2, <2>3 DEF JoinGet, TypeOK, RpcHasDefinition
<1>19. ASSUME JoinConnect PROVE Inductive'
  <2>1. lst' \in ListenerStates /\ ListenerHasPeer' /\ lst'.pc = "idle"
    BY <1>19 DEF JoinConnect, ListenerStates, ListenerHasPeer, IdleListener
  <2>2. CatalogTypeOK' /\ CatalogOK' /\ RunsOK'
    BY <1>19, CatalogFrame, RunFrame DEF JoinConnect, TypeOK
  <2>3. PoolTypeOK'
    <3>1. CASE pool' = pool
      BY <3>1, PoolFrame DEF TypeOK
    <3>2. ASSUME NEW i \in DOMAIN pool, pool' = [pool EXCEPT ![i].channel = TRUE]
          PROVE  PoolTypeOK'
      <4> DEFINE Entry == [node : Peers, channel : BOOLEAN]
                 P == [pool[i] EXCEPT !.channel = TRUE]
      <4>1. pool \in Seq(Entry)
        BY DEF TypeOK, PoolTypeOK
      <4> HIDE DEF Entry
      <4>2. pool[i] \in Entry
        BY <4>1
      <4>3. P \in Entry /\ P.node = pool[i].node
        BY <4>2 DEF Entry
      <4>4. pool' = [pool EXCEPT ![i] = P]
        BY <3>2
      <4> HIDE DEF P
      <4>5. /\ pool' \in Seq(Entry) /\ Len(pool') = Len(pool)
            /\ DOMAIN pool' = DOMAIN pool
            /\ \A j \in DOMAIN pool : pool'[j] = IF j = i THEN P ELSE pool[j]
        BY <4>1, <4>3, <4>4
      <4> QED
        BY <4>3, <4>5 DEF TypeOK, PoolTypeOK, Entry
    <3> QED
      BY <1>19, <3>1, <3>2 DEF JoinConnect
  <2>4. InsideOwnsMutex' /\ mutex' \in Threads \cup {NoThread} /\ stray' \in BOOLEAN
    BY <1>19, <2>1 DEF JoinConnect, PoolRelease, InsideOwnsMutex
  <2> QED
    BY <1>19, <2>1, <2>2, <2>3, <2>4 DEF JoinConnect, TypeOK, RpcHasDefinition
<1>20. CASE UNCHANGED vars
  <2>1. CatalogTypeOK' /\ CatalogOK' /\ RunsOK' /\ PoolTypeOK'
    BY <1>20, CatalogFrame, RunFrame, PoolFrame DEF vars, TypeOK
  <2> QED
    BY <1>20, <2>1 DEF vars, TypeOK, RpcHasDefinition, ListenerHasPeer, InsideOwnsMutex
<1> QED
  BY <1>1, <1>2, <1>3, <1>4, <1>5, <1>6, <1>7, <1>8, <1>9, <1>10, <1>11, <1>12, <1>13, <1>14, <1>15,
     <1>16, <1>17, <1>18, <1>19, <1>20, <1>21, <1>22, <1>23 DEF Next, RpcStep, ExecStep, ListenerStep

-----------------------------------------------------------------------------
(***************************************************************************)
(* Theorems                                                                *)
(***************************************************************************)

\* The inductive invariant holds of every reachable state.
LEMMA AlwaysInductive == Spec => []Inductive
BY InitInductive, NextInductive, PTL DEF Spec

\* Catalog and peer pool keep their capacity, no peer is pooled twice, and all of
\* the node's state has its type, whatever clients, routers and gossip ask for.
THEOREM TypeCorrect == Spec => []TypeOK
<1>1. Inductive => TypeOK
  BY DEF Inductive
<1> QED
  BY <1>1, AlwaysInductive, PTL

\* dag_catalog_get finds the definition that was accepted last, and there is one
\* entry for each id.
THEOREM LookupsAreLatest == Spec => []LookupIsLatest
<1>1. Inductive => LookupIsLatest
  BY DEF Inductive, CatalogOK
<1> QED
  BY <1>1, AlwaysInductive, PTL

\* The definition an executor got from dag_catalog_get is not changed, moved or
\* replaced until dag_catalog_release: the read lock keeps every writer out.
THEOREM RunsAreStable == Spec => []RunIsStable
<1>1. Inductive => RunIsStable
  BY DEF Inductive, RunsOK
<1> QED
  BY <1>1, AlwaysInductive, PTL

\* A set all of whose members are one and the same has at most one.
LEMMA AtMostOne ==
  ASSUME NEW S, \E x : \A y \in S : y = x
  PROVE  Cardinality(S) <= 1
<1> PICK x : \A y \in S : y = x
  OBVIOUS
<1>1. CASE S = {}
  BY <1>1, FS_EmptySet
<1>2. CASE S = {x}
  <2>1. Cardinality({x}) = 1
    BY FS_Singleton
  <2> QED
    BY <1>2, <2>1
<1> QED
  BY <1>1, <1>2

\* At most one thread at a time is between a peer_pool_get that found its peer
\* and the peer_pool_release after it, as long as no thread has released a pool
\* it did not hold.
THEOREM PoolIsExclusive == Spec => []PoolExclusive
<1>1. Inductive => PoolExclusive
  <2> SUFFICES ASSUME Inductive, ~stray PROVE Cardinality(Inside) <= 1
    BY DEF PoolExclusive
  <2>1. \A th \in Inside : th = mutex
    BY DEF Inductive, InsideOwnsMutex, Inside
  <2> QED
    BY <2>1, AtMostOne
<1> QED
  BY <1>1, AlwaysInductive, PTL

\* dag_execute runs no step twice and none before a step it depends on, for every
\* definition with any number of steps, shared ids and any order of the array.
THEOREM StepsRunInOrder == Spec => []DependenciesFirst
<1>1. Inductive => DependenciesFirst
  BY DEF Inductive, RunsOK, ExecOK, InLoop, DependenciesFirst
<1> QED
  BY <1>1, AlwaysInductive, PTL

\* dag_execute ends COMPLETED on every DAG whose dependencies exist and have no
\* cycle and FAILED on every other one, also on those that handle_sync_catalog
\* takes from another node and nobody has validated.
THEOREM CompletesIffExecutable == Spec => []CompletedIffExecutable
<1>1. Inductive => CompletedIffExecutable
  BY DEF Inductive, RunsOK, ExecOK, CompletedIffExecutable
<1> QED
  BY <1>1, AlwaysInductive, PTL

\* Whatever a thread does, the mutex goes to one that uses an entry of the pool.
LEMMA NextLock == Inductive /\ NoLockKept /\ [Next]_vars => NoLockKept'
<1> SUFFICES ASSUME Inductive, NoLockKept, [Next]_vars PROVE NoLockKept'
  OBVIOUS
<1> USE DEF NoLockKept, Inside
<1>1. exec \in [Executors -> ExecStates]
  BY DEF Inductive, TypeOK
<1>2. ASSUME \E d \in Definitions : AddDag(d) \/ SyncCatalog(d) PROVE NoLockKept'
  BY <1>2 DEF AddDag, SyncCatalog
<1>3. ASSUME NEW t \in Executors, \E i \in Ids, s \in Peers \cup {Self} : TakeMessage(t, i, s)
      PROVE  NoLockKept'
  BY <1>1, <1>3 DEF TakeMessage
<1>4. ASSUME NEW w \in Peers, WorkerJoin(w) \/ Rumour(w) PROVE NoLockKept'
  BY <1>4 DEF WorkerJoin, Rumour
<1>5. ASSUME RegisterDag \/ SyncAdd \/ SyncUpdate \/ ListWorkers \/ AddDone PROVE NoLockKept'
  BY <1>5 DEF RegisterDag, SyncAdd, SyncUpdate, ListWorkers, AddDone
<1>6. ASSUME NEW w \in Peers, SyncPeer(w) PROVE NoLockKept'
  BY <1>6 DEF SyncPeer, PoolGet, Found, Inductive, TypeOK, RpcStates
<1>7. ASSUME SendSync PROVE NoLockKept'
  BY <1>7 DEF SendSync, PoolRelease
<1>8. ASSUME NEW t \in Executors, LookUp(t) \/ ExecuteStep(t) \/ NextPass(t) \/ Ran(t) \/ NoMemory(t)
      PROVE  NoLockKept'
  <2>1. exec[t].pc # "hold" /\ UNCHANGED <<mutex, rpc, lst>>
    BY <1>8 DEF LookUp, ExecuteStep, NextPass, Ran, NoMemory, Release
  <2>2. \A u \in Executors : u # t => exec'[u] = exec[u]
    BY <1>1, <1>8 DEF LookUp, ExecuteStep, NextPass, Ran, NoMemory, Release
  <2> QED
    BY <2>1, <2>2
<1>9. ASSUME NEW t \in Executors, Report(t) PROVE NoLockKept'
  <2>1. exec'[t].pc = Found(exec[t].sender)
    BY <1>1, <1>9 DEF Report, ExecStates
  <2> QED
    BY <1>9, <2>1 DEF Report, PoolGet, Found
<1>10. ASSUME NEW t \in Executors, Reported(t) PROVE NoLockKept'
  BY <1>10 DEF Reported, PoolRelease
<1>11. ASSUME JoinAdd PROVE NoLockKept'
  BY <1>11 DEF JoinAdd
<1>12. ASSUME JoinGet PROVE NoLockKept'
  BY <1>12 DEF JoinGet, PoolGet, Found, Inductive, TypeOK, ListenerStates
<1>13. ASSUME JoinConnect PROVE NoLockKept'
  BY <1>13 DEF JoinConnect, PoolRelease
<1>14. CASE UNCHANGED vars
  BY <1>14 DEF vars
<1> QED
  BY <1>2, <1>3, <1>4, <1>5, <1>6, <1>7, <1>8, <1>9, <1>10, <1>11, <1>12, <1>13, <1>14
     DEF Next, RpcStep, ExecStep, ListenerStep

\* The mutex that peer_pool_get keeps is given back by every path of its three
\* callers: whoever holds it is about to release it.
THEOREM LocksAreReturned == Spec => []NoLockKept
<1>1. Init => NoLockKept
  BY DEF Init, NoLockKept
<1> QED
  BY <1>1, NextLock, AlwaysInductive, PTL DEF Spec
=============================================================================
