------------------------ MODULE WorkerManagerProofs -------------------------
(***************************************************************************)
(* Proofs about WorkerManager for any number of workers, tasks and         *)
(* indices: its type invariant and the exclusive ownership of the network  *)
(* indices.                                                                *)
(***************************************************************************)
EXTENDS WorkerManagerSteps, FunctionTheorems, FiniteSetTheorems, TLAPS

(* Counting *)

\* A part of a finite set is finite and can be counted.
LEMMA SubsetFacts ==
  ASSUME NEW S, IsFiniteSet(S), NEW T \in SUBSET S
  PROVE  IsFiniteSet(T) /\ Cardinality(T) \in Nat
BY FS_Subset, FS_CardinalityType

\* One element less.
LEMMA RemoveFacts ==
  ASSUME NEW S, IsFiniteSet(S), NEW x \in S
  PROVE  /\ IsFiniteSet(S \ {x}) /\ Cardinality(S) \in Nat
         /\ Cardinality(S \ {x}) = Cardinality(S) - 1
BY FS_RemoveElement, FS_CardinalityType

\* A function has at most as many values as arguments.
LEMMA ImageFacts ==
  ASSUME NEW S, IsFiniteSet(S), NEW f, f = [x \in S |-> f[x]]
  PROVE  /\ IsFiniteSet({f[x] : x \in S})
         /\ Cardinality({f[x] : x \in S}) <= Cardinality(S)
<1> DEFINE T == {f[x] : x \in S}
<1>1. f \in Surjection(S, T)
  BY DEF Surjection
<1>2. IsFiniteSet(T) /\ Cardinality(T) <= Cardinality(S)
  BY <1>1, FS_Surjection
<1> QED  BY <1>2

\* The pigeonhole argument: numbers that are all values of two functions are
\* at most as many as the arguments of the two together.
LEMMA Pigeonhole ==
  ASSUME NEW n \in Nat,
         NEW S, IsFiniteSet(S), NEW f, f = [x \in S |-> f[x]],
         NEW T, IsFiniteSet(T), NEW g, g = [y \in T |-> g[y]],
         1 .. n \subseteq {f[x] : x \in S} \union {g[y] : y \in T}
  PROVE  n <= Cardinality(S) + Cardinality(T)
<1> DEFINE F == {f[x] : x \in S}
           G == {g[y] : y \in T}
<1>1. /\ IsFiniteSet(F) /\ Cardinality(F) <= Cardinality(S)
      /\ IsFiniteSet(G) /\ Cardinality(G) <= Cardinality(T)
      /\ 1 .. n \subseteq F \union G
  BY ImageFacts
<1> HIDE DEF F, G
<1>2. /\ Cardinality(F) \in Nat /\ Cardinality(G) \in Nat
      /\ Cardinality(S) \in Nat /\ Cardinality(T) \in Nat
  BY <1>1, FS_CardinalityType
<1>3. IsFiniteSet(F \cap G) /\ Cardinality(F \cap G) \in Nat
  BY <1>1, FS_Subset, FS_CardinalityType
<1>4. /\ IsFiniteSet(F \union G)
      /\ Cardinality(F \union G) = Cardinality(F) + Cardinality(G) - Cardinality(F \cap G)
  BY <1>1, FS_Union
<1>5. Cardinality(1 .. n) <= Cardinality(F \union G)
  BY <1>1, <1>4, FS_Subset
<1>6. Cardinality(1 .. n) = n
  BY FS_Interval
<1> QED  BY <1>1, <1>2, <1>3, <1>4, <1>5, <1>6

-----------------------------------------------------------------------------
(* The counter never leaves the usable range *)

\* When the free stack is empty every index below the counter is held by
\* another task or by a worker, so allocate_network finds the counter in range.
LEMMA FreshIndexInRange ==
  ASSUME IInv, free = <<>>, NEW t \in Task, lease[t] = 0
  PROVE  next \in 1 .. MaxIndex
<1> DEFINE L == [u \in Task \ {t} |-> lease[u]]
           W == [w \in Worker |-> IF workers[w] # 0 THEN workers[w] ELSE doomed[w]]
           LS == {L[u] : u \in Task \ {t}}
           WS == {W[w] : w \in Worker}
<1>1. next \in 1 .. MaxIndex + 1 /\ MaxIndex \in Nat
  BY BoundAssumption DEF IInv, TypeOK
<1>2. 1 .. next - 1 \subseteq LS \union WS
  <2> SUFFICES ASSUME NEW i \in 1 .. next - 1
               PROVE  i \in LS \union WS
    OBVIOUS
  <2>1. i # 0 /\ Len(free) = 0
    BY <1>1
  <2>2. \/ \E u \in Task : lease[u] = i
        \/ \E w \in Worker : workers[w] = i \/ doomed[w] = i
    BY <2>1 DEF IInv, LeaseExclusive, NoneLost, HasHolder
  <2>3. ASSUME NEW u \in Task, lease[u] = i  PROVE i \in LS
    BY <2>1, <2>3
  <2>4. ASSUME NEW w \in Worker, workers[w] = i \/ doomed[w] = i  PROVE i \in WS
    <3>1. workers[w] # 0 => doomed[w] = 0
      BY DEF IInv, LeaseExclusive, OneHolder
    <3> QED  BY <2>1, <2>4, <3>1
  <2> QED  BY <2>2, <2>3, <2>4
<1>3. L = [u \in Task \ {t} |-> L[u]] /\ W = [w \in Worker |-> W[w]]
  OBVIOUS
<1>4. /\ IsFiniteSet(Task \ {t}) /\ Cardinality(Task) \in Nat
      /\ Cardinality(Task \ {t}) = Cardinality(Task) - 1
  BY PoolAssumption, RemoveFacts
<1>5. next - 1 \in Nat /\ IsFiniteSet(Worker)
  BY <1>1, PoolAssumption
<1> HIDE DEF L, W
<1>6. next - 1 <= Cardinality(Task \ {t}) + Cardinality(Worker)
  BY <1>2, <1>3, <1>4, <1>5, Pigeonhole
<1>7. Cardinality(Worker) \in Nat
  BY PoolAssumption, SubsetFacts
<1> QED  BY <1>1, <1>4, <1>6, <1>7, PoolAssumption

-----------------------------------------------------------------------------
(* The theorems *)

LEMMA NextIInv == IInv /\ [Next]_vars => IInv'
<1> SUFFICES ASSUME IInv, [Next]_vars PROVE IInv'
  OBVIOUS
<1>1. ASSUME NEW t \in Task, TaskStep(t) PROVE IInv'
  <2>1. Cardinality(Registered) \in Nat
    BY PoolAssumption, SubsetFacts DEF Registered
  <2>2. CASE Allocate(t)
    <3>1. lease[t] = 0
      BY <2>2 DEF IInv, LeaseMatchesStep, Allocate, HoldingSteps, CleanupSteps
    <3> QED  BY <2>2, <3>1, FreshIndexInRange, AllocateStep
  <2> QED
    BY <1>1, <2>1, <2>2, QuietTaskStep, InsertStep, StopStep, ReleaseStep
       DEF TaskStep, TimedStep, CommandStep
<1>2. CASE ServerStep
  BY <1>2, OtherStep, BeginStopAllStep, StopOneStep DEF ServerStep, ServerCommand
<1>3. CASE \E t \in Task, w \in Worker, request \in Requests : Accept(t, w, request)
  BY <1>3, AcceptStep
<1>4. CASE AcceptFails
  BY <1>4, AcceptFailsStep
<1> QED  BY <1>1, <1>2, <1>3, <1>4, OtherStep DEF Next

\* The variables of netd keep their types whatever requests, failures and
\* cancellations come: in particular the index counter never passes the usable
\* range, so allocate_network never refuses for want of an index.
THEOREM TypeCorrect == Spec => []TypeOK
<1>1. IInv => TypeOK
  BY DEF IInv
<1> QED  BY InitIInv, NextIInv, <1>1, PTL DEF Spec

\* Every index leased by allocate_network has exactly one holder, through
\* failed starts, stops, stop_all and the error exit of run_netd.
THEOREM LeasesExclusive == Spec => []LeaseExclusive
<1>1. IInv => LeaseExclusive
  BY DEF IInv
<1> QED  BY InitIInv, NextIInv, <1>1, PTL DEF Spec
=============================================================================
