------------------------- MODULE WorkerManagerSteps -------------------------
(***************************************************************************)
(* The inductive invariant behind the theorems of WorkerManagerProofs, and *)
(* one lemma per kind of step of WorkerManager that shows it is kept.  Two  *)
(* facts that need counting are hypotheses here: the number of registered  *)
(* workers is a number, and an index taken from the counter is in range.   *)
(***************************************************************************)
EXTENDS WorkerManager, TLAPS

\* Steps at which a task owns a NetworkAllocation.
HoldingSteps == {"mkdir", "files", "network", "spawn", "tunnel", "routes",
                 "socks", "listen", "insert"} \union CleanupSteps

\* A task owns an index exactly between the allocation and its release.
LeaseMatchesStep == \A t \in Task : lease[t] # 0 <=> pc[t] \in HoldingSteps

\* A task at work has a worker id.
TargetKnown == \A t \in Task : pc[t] # "idle" => target[t] \in Worker

\* stop_all runs alone: only it has drained workers, and no task is left.
ServerPhase ==
  /\ server # "drain" => \A w \in Worker : doomed[w] = 0
  /\ server \notin {"serve", "join"} => \A t \in Task : pc[t] = "idle"

IInv == TypeOK /\ LeaseExclusive /\ LeaseMatchesStep /\ TargetKnown /\ ServerPhase

-----------------------------------------------------------------------------
(* The free stack *)

\* What push does to the free stack.
LEMMA PushFacts ==
  ASSUME NEW S, NEW s \in Seq(S), NEW e \in S
  PROVE  /\ Append(s, e) \in Seq(S)
         /\ Len(s) \in Nat
         /\ Len(Append(s, e)) = Len(s) + 1
         /\ \A i \in 1 .. Len(s) : Append(s, e)[i] = s[i]
         /\ Append(s, e)[Len(s) + 1] = e
OBVIOUS

\* What is on the free stack.
LEMMA StackFacts ==
  ASSUME NEW S, NEW s \in Seq(S)
  PROVE  Len(s) \in Nat /\ \A i \in 1 .. Len(s) : s[i] \in S
OBVIOUS

\* What pop does to the free stack.
LEMMA PopFacts ==
  ASSUME NEW S, NEW s \in Seq(S), s # <<>>
  PROVE  /\ Len(s) \in Nat \ {0}
         /\ s[Len(s)] \in S
         /\ SubSeq(s, 1, Len(s) - 1) \in Seq(S)
         /\ Len(SubSeq(s, 1, Len(s) - 1)) = Len(s) - 1
         /\ \A i \in 1 .. Len(s) - 1 : SubSeq(s, 1, Len(s) - 1)[i] = s[i]
<1>1. Len(s) \in Nat \ {0} /\ s[Len(s)] \in S
  OBVIOUS
<1>2. SubSeq(s, 1, Len(s) - 1) \in Seq(S)
  BY <1>1
<1>3. Len(SubSeq(s, 1, Len(s) - 1)) = Len(s) - 1
  <2> DEFINE n == Len(s) - 1
  <2>1. n \in Nat
    BY <1>1
  <2> HIDE DEF n
  <2>2. Len(SubSeq(s, 1, n)) = n
    BY <2>1
  <2> QED  BY Zenon, <2>2 DEF n
<1>4. \A i \in 1 .. Len(s) - 1 : SubSeq(s, 1, Len(s) - 1)[i] = s[i]
  BY <1>1
<1> QED  BY Zenon, <1>1, <1>2, <1>3, <1>4

-----------------------------------------------------------------------------
(* The invariant is inductive *)

LEMMA InitIInv == Init => IInv
<1> SUFFICES ASSUME Init PROVE IInv
  BY Zenon
<1>1. <<>> \in Seq(Index) /\ Len(<<>>) = 0
  OBVIOUS
<1>2. TypeOK
  <2>1. 0 \in 0 .. MaxIndex /\ next \in 1 .. MaxIndex + 1
    BY BoundAssumption DEF Init
  <2>2. /\ free \in Seq(Index) /\ server \in Server /\ shutdown \in BOOLEAN
        /\ reserved \in [Task -> BOOLEAN] /\ pc \in [Task -> Step]
        /\ seen \in [Task -> Nat] /\ target \in [Task -> Worker \union {NoWorker}]
    BY ZenonT(30), <1>1 DEF Init, Server, Step
  <2>3. /\ doomed \in [Worker -> 0 .. MaxIndex] /\ workers \in [Worker -> 0 .. MaxIndex]
        /\ lease \in [Task -> 0 .. MaxIndex]
    BY Zenon, <2>1 DEF Init
  <2> QED  BY Zenon, <2>1, <2>2, <2>3 DEF Init, TypeOK
<1>3. LeaseExclusive
  BY <1>1 DEF Init, LeaseExclusive, OneHolder, FreeUnheld, NoneLost, HasHolder, BelowCounter
<1>4. LeaseMatchesStep /\ TargetKnown /\ ServerPhase
  BY Zenon DEF Init, LeaseMatchesStep, TargetKnown, ServerPhase, HoldingSteps, CleanupSteps
<1> QED  BY Zenon, <1>2, <1>3, <1>4 DEF IInv

\* Ownership only depends on the variables that hold indices.
LEMMA HoldersUnchanged ==
  ASSUME LeaseExclusive, UNCHANGED <<lease, workers, doomed, poolVars>>
  PROVE  LeaseExclusive'
BY DEF LeaseExclusive, OneHolder, FreeUnheld, NoneLost, HasHolder, BelowCounter, poolVars

\* Steps of a task that move no index between holders.
LEMMA QuietTaskStep ==
  ASSUME IInv, Cardinality(Registered) \in Nat, NEW t \in Task,
         \/ BeginStart(t) \/ CountRunning(t) \/ Admit(t) \/ MakeDirectory(t)
         \/ WriteFiles(t) \/ PrepareNetwork(t) \/ SpawnOpenVpn(t) \/ AwaitTunnel(t)
         \/ AwaitRoutes(t) \/ SpawnSocks(t) \/ AwaitSocket(t) \/ Kill(t)
         \/ CleanupNetwork(t) \/ CleanupDirectory(t) \/ CheckReady(t) \/ Return(t)
  PROVE  IInv'
<1> USE DEF IInv, Goto, serverVars, mapVars, poolVars, kernelVars, childVars
<1>1. LeaseExclusive'
  BY Zenon, HoldersUnchanged DEF BeginStart, CountRunning, Admit, MakeDirectory, WriteFiles, PrepareNetwork, SpawnOpenVpn, AwaitTunnel, AwaitRoutes, SpawnSocks, AwaitSocket, Kill, CleanupNetwork, CleanupDirectory, CheckReady, Return
<1>2. UNCHANGED <<serverVars, lease, workers, poolVars>>
  BY SMTT(30) DEF BeginStart, CountRunning, Admit, MakeDirectory, WriteFiles, PrepareNetwork,
         SpawnOpenVpn, AwaitTunnel, AwaitRoutes, SpawnSocks, AwaitSocket, Kill, CleanupNetwork,
         CleanupDirectory, CheckReady, Return
<1>3. \E step \in Step :
        /\ pc' = [pc EXCEPT ![t] = step]
        /\ pc[t] # "idle"
        /\ pc[t] \in HoldingSteps <=> step \in HoldingSteps
        /\ \/ target' = target
           \/ step = "idle" /\ target' = [target EXCEPT ![t] = NoWorker]
  BY Zenon DEF BeginStart, CountRunning, Admit, MakeDirectory, WriteFiles, PrepareNetwork,
         SpawnOpenVpn, AwaitTunnel, AwaitRoutes, SpawnSocks, AwaitSocket, Kill, CleanupNetwork,
         CleanupDirectory, CheckReady, Return, HoldingSteps, CleanupSteps, StartSteps, Step, TypeOK
<1>4. PICK step \in Step :
        /\ pc' = [pc EXCEPT ![t] = step]
        /\ pc[t] # "idle"
        /\ pc[t] \in HoldingSteps <=> step \in HoldingSteps
        /\ \/ target' = target
           \/ step = "idle" /\ target' = [target EXCEPT ![t] = NoWorker]
  BY ZenonT(30), <1>3
<1>5. LeaseMatchesStep'
  BY Zenon, <1>2, <1>4 DEF LeaseMatchesStep, TypeOK
<1>6. TargetKnown'
  BY Zenon, <1>4 DEF TargetKnown, TypeOK
<1>7. ServerPhase'
  BY Zenon, <1>2, <1>4 DEF ServerPhase, TypeOK
<1>8. target[t] \in Worker
  BY Zenon, <1>4 DEF TargetKnown
<1>9. lease[t] \in Index \/ pc[t] \notin HoldingSteps
  BY BoundAssumption DEF LeaseMatchesStep, TypeOK, Index
<1>10. /\ server' \in Server /\ shutdown' \in BOOLEAN
       /\ doomed' \in [Worker -> 0 .. MaxIndex] /\ lease' \in [Task -> 0 .. MaxIndex]
       /\ workers' \in [Worker -> 0 .. MaxIndex]
       /\ free' \in Seq(Index) /\ next' \in 1 .. MaxIndex + 1
  BY Zenon, <1>2 DEF TypeOK
<1>11. pc' \in [Task -> Step] /\ target' \in [Task -> Worker \union {NoWorker}]
  BY ZenonT(30), <1>4 DEF TypeOK
<1>12. starting' \subseteq Worker /\ reserved' \in [Task -> BOOLEAN]
  BY ZenonT(30), <1>8 DEF TypeOK, BeginStart, CountRunning, Admit, MakeDirectory, WriteFiles,
         PrepareNetwork, SpawnOpenVpn, AwaitTunnel, AwaitRoutes, SpawnSocks, AwaitSocket, Kill,
         CleanupNetwork, CleanupDirectory, CheckReady, Return
<1>13. seen' \in [Task -> Nat]
  <2>1. \/ seen' = seen
        \/ seen' = [seen EXCEPT ![t] = Cardinality(Registered)]
        \/ seen' = [seen EXCEPT ![t] = 0]
    BY ZenonT(30) DEF BeginStart, CountRunning, Admit, MakeDirectory, WriteFiles, PrepareNetwork,
           SpawnOpenVpn, AwaitTunnel, AwaitRoutes, SpawnSocks, AwaitSocket, Kill, CleanupNetwork,
           CleanupDirectory, CheckReady, Return
  <2>2. seen \in [Task -> Nat]
    BY Zenon DEF TypeOK
  <2> QED  BY <2>1, <2>2
<1>14. netns' \subseteq Index /\ leaked' \subseteq Index
  <2>1. CASE PrepareNetwork(t) \/ CleanupNetwork(t)
    <3>1. lease[t] \in Index
      BY Zenon, <1>9, <2>1 DEF PrepareNetwork, CleanupNetwork, HoldingSteps, CleanupSteps
    <3> QED  BY Zenon, <2>1, <3>1 DEF TypeOK, PrepareNetwork, CleanupNetwork, DeleteNetwork
  <2>2. CASE ~ (PrepareNetwork(t) \/ CleanupNetwork(t))
    <3>1. netns' = netns /\ leaked' = leaked
      BY ZenonT(30), <2>2 DEF BeginStart, CountRunning, Admit, MakeDirectory, WriteFiles, PrepareNetwork,
           SpawnOpenVpn, AwaitTunnel, AwaitRoutes, SpawnSocks, AwaitSocket, Kill, CleanupNetwork,
           CleanupDirectory, CheckReady, Return
    <3> QED  BY Zenon, <3>1 DEF TypeOK
  <2> QED  BY Zenon, <2>1, <2>2
<1>15. dirs' \subseteq Worker /\ openvpn' \subseteq Index /\ socks' \subseteq Index
  BY Zenon, <1>8, <1>9 DEF TypeOK, HoldingSteps, CleanupSteps, BeginStart, CountRunning, Admit,
         MakeDirectory, WriteFiles, PrepareNetwork, SpawnOpenVpn, AwaitTunnel, AwaitRoutes, SpawnSocks,
         AwaitSocket, Kill, CleanupNetwork, CleanupDirectory, CheckReady, Return
<1>16. lingering' \subseteq Index
  BY Zenon, <1>9 DEF TypeOK, HoldingSteps, CleanupSteps, BeginStart, CountRunning, Admit,
         MakeDirectory, WriteFiles, PrepareNetwork, SpawnOpenVpn, AwaitTunnel, AwaitRoutes,
         SpawnSocks, AwaitSocket, Kill, Outlived, CleanupNetwork, DeleteNetwork,
         CleanupDirectory, CheckReady, Return
<1> QED
  BY SMTT(30), <1>1, <1>5, <1>6, <1>7, <1>10, <1>11, <1>12, <1>13, <1>14, <1>15, <1>16 DEF TypeOK

\* The stack holds usable indices.
LEMMA FreeUsable ==
  ASSUME TypeOK, NEW i \in 1 .. Len(free)
  PROVE  free[i] \in Index /\ free[i] # 0
<1>1. free[i] \in Index
  BY Zenon, StackFacts DEF TypeOK
<1> QED  BY <1>1, BoundAssumption DEF Index

\* An allocation that finds the free stack empty takes a new index.
LEMMA AllocateFresh ==
  ASSUME IInv, NEW t \in Task, pc[t] = "allocate", free = <<>>, next \in 1 .. MaxIndex,
         TakeIndex(t),
         UNCHANGED <<target, reserved, seen, serverVars, mapVars, kernelVars>>
  PROVE  IInv'
<1> USE DEF IInv, serverVars, mapVars, kernelVars, childVars
<1>1. lease[t] = 0
  BY Zenon DEF LeaseMatchesStep, HoldingSteps, CleanupSteps
<1>2. next \in 1 .. MaxIndex
  BY Zenon
<1>3. (next + 1) % Wrap = next + 1
  BY <1>2, BoundAssumption
<1>4. /\ next' = next + 1 /\ free' = free
      /\ lease' = [lease EXCEPT ![t] = next]
      /\ pc' = [pc EXCEPT ![t] = "mkdir"]
  BY <1>2, <1>3, BoundAssumption DEF TakeIndex, Goto
<1>5. TypeOK'
  BY <1>2, <1>4, BoundAssumption DEF TypeOK, Step, StartSteps
<1>6. LeaseMatchesStep' /\ TargetKnown' /\ ServerPhase'
  BY <1>2, <1>4 DEF LeaseMatchesStep, TargetKnown, ServerPhase, TypeOK, HoldingSteps
<1>7. LeaseExclusive'
  <2>1. OneHolder'
    BY <1>1, <1>2, <1>4 DEF LeaseExclusive, OneHolder, BelowCounter, TypeOK
  <2>2. FreeUnheld'
    BY <1>4 DEF LeaseExclusive, FreeUnheld, BelowCounter, TypeOK
  <2>3. NoneLost'
    <3> SUFFICES ASSUME NEW i \in 1 .. next' - 1
                 PROVE  HasHolder(i)'
      BY Zenon DEF NoneLost
    <3>1. CASE i = next
      BY Zenon, <1>4, <3>1 DEF HasHolder, TypeOK
    <3>2. CASE i # next
      <4>1. HasHolder(i) /\ i # 0
        BY <1>2, <1>4, <3>2 DEF LeaseExclusive, NoneLost
      <4> QED  BY Zenon, <1>1, <1>4, <4>1 DEF HasHolder, TypeOK
    <3> QED  BY Zenon, <3>1, <3>2
  <2>4. BelowCounter'
    BY SMTT(30), <1>2, <1>4, BoundAssumption DEF LeaseExclusive, BelowCounter, TypeOK, Index
  <2> QED  BY Zenon, <2>1, <2>2, <2>3, <2>4 DEF LeaseExclusive
<1> QED  BY Zenon, <1>5, <1>6, <1>7

\* An allocation that finds the free stack non-empty pops it.
LEMMA AllocateReused ==
  ASSUME IInv, NEW t \in Task, pc[t] = "allocate", free # <<>>, TakeIndex(t),
         UNCHANGED <<target, reserved, seen, serverVars, mapVars, kernelVars>>
  PROVE  IInv'
<1> USE DEF IInv, serverVars, mapVars, kernelVars, childVars
<1> DEFINE n == Len(free)  popped == SubSeq(free, 1, Len(free) - 1)
<1>1. lease[t] = 0
  BY Zenon DEF LeaseMatchesStep, HoldingSteps, CleanupSteps
<1>2. /\ n \in Nat \ {0} /\ free[n] \in Index
      /\ popped \in Seq(Index) /\ Len(popped) = n - 1
      /\ \A i \in 1 .. n - 1 : popped[i] = free[i]
  BY Zenon, PopFacts DEF TypeOK
<1>3. /\ next' = next /\ free' = popped
      /\ lease' = [lease EXCEPT ![t] = free[n]]
      /\ pc' = [pc EXCEPT ![t] = "mkdir"]
  BY <1>2, BoundAssumption DEF TakeIndex, Goto, Index
<1> HIDE DEF popped
<1>4. TypeOK'
  BY SMTT(40), <1>2, <1>3, BoundAssumption DEF TypeOK, Step, StartSteps, Index
<1>5. LeaseMatchesStep' /\ TargetKnown' /\ ServerPhase'
  BY <1>2, <1>3, BoundAssumption
     DEF LeaseMatchesStep, TargetKnown, ServerPhase, TypeOK, HoldingSteps, Index
<1>6. LeaseExclusive'
  <2>1. OneHolder'
    BY <1>1, <1>2, <1>3 DEF LeaseExclusive, OneHolder, FreeUnheld, TypeOK
  <2>2. FreeUnheld'
    <3>1. Len(free') = n - 1 /\ \A i \in 1 .. n - 1 : free'[i] = free[i]
      BY Zenon, <1>2, <1>3
    <3>2. \A i \in 1 .. n - 1 : i \in 1 .. n /\ i # n
      BY <1>2
    <3>3. \A u \in Task : lease'[u] = IF u = t THEN free[n] ELSE lease[u]
      BY Zenon, <1>3 DEF TypeOK
    <3>4. n \in 1 .. n
      BY <1>2
    <3>5. FreeUnheld
      BY Zenon DEF LeaseExclusive
    <3> SUFFICES ASSUME NEW i \in 1 .. n - 1
                 PROVE  /\ \A j \in 1 .. n - 1 : free'[i] = free'[j] => i = j
                        /\ \A u \in Task : lease'[u] # free'[i]
                        /\ \A v \in Worker : workers'[v] # free'[i] /\ doomed'[v] # free'[i]
      BY Zenon, <3>1 DEF FreeUnheld
    <3>6. free'[i] = free[i] /\ free[i] # free[n]
      BY ONLY Zenon, <3>1, <3>2, <3>4, <3>5, i \in 1 .. n - 1 DEF FreeUnheld
    <3>7. \A j \in 1 .. n - 1 : free'[i] = free'[j] => i = j
      BY ONLY ZenonT(30), <3>1, <3>2, <3>5, <3>6, i \in 1 .. n - 1 DEF FreeUnheld
    <3>8. \A u \in Task : lease'[u] # free'[i]
      BY ONLY Zenon, <3>2, <3>3, <3>5, <3>6, i \in 1 .. n - 1 DEF FreeUnheld
    <3>9. \A v \in Worker : workers'[v] # free'[i] /\ doomed'[v] # free'[i]
      BY Zenon, <3>2, <3>5, <3>6 DEF FreeUnheld
    <3> QED  BY ONLY Zenon, <3>7, <3>8, <3>9
  <2>3. NoneLost'
    <3> SUFFICES ASSUME NEW i \in 1 .. next - 1
                 PROVE  HasHolder(i)'
      BY Zenon, <1>3 DEF NoneLost
    <3>1. HasHolder(i) /\ i # 0
      BY DEF LeaseExclusive, NoneLost, TypeOK
    <3>2. CASE \E u \in Task : lease[u] = i
      BY Zenon, <1>1, <1>3, <3>1, <3>2 DEF HasHolder, TypeOK
    <3>3. CASE \E w \in Worker : workers[w] = i \/ doomed[w] = i
      BY Zenon, <3>3 DEF HasHolder
    <3>4. CASE \E k \in 1 .. n : free[k] = i
      <4> PICK k \in 1 .. n : free[k] = i
        BY Zenon, <3>4
      <4>1. CASE k = n
        BY Zenon, <1>3, <4>1 DEF HasHolder, TypeOK
      <4>2. CASE k # n
        <5>1. k \in 1 .. Len(free') /\ free'[k] = i
          BY <1>2, <1>3, <4>2
        <5> QED  BY Zenon, <5>1 DEF HasHolder
      <4> QED  BY Zenon, <4>1, <4>2
    <3> QED  BY Zenon, <3>1, <3>2, <3>3, <3>4 DEF HasHolder
  <2>4. BelowCounter'
    BY SMTT(30), <1>2, <1>3 DEF LeaseExclusive, BelowCounter, TypeOK
  <2> QED  BY Zenon, <2>1, <2>2, <2>3, <2>4 DEF LeaseExclusive
<1> QED  BY Zenon, <1>4, <1>5, <1>6

\* insert moves the index of the task into the map.
LEMMA InsertStep ==
  ASSUME IInv, NEW t \in Task, Insert(t)
  PROVE  IInv'
<1> DEFINE w == target[t]
<1> USE DEF IInv, Goto, serverVars, poolVars, kernelVars, childVars
<1>1. w \in Worker /\ lease[t] \in Index /\ server # "drain"
  BY BoundAssumption DEF Insert, TargetKnown, LeaseMatchesStep, ServerPhase, HoldingSteps,
                         TypeOK, Index
<1>2. TypeOK'
  BY ZenonT(30), <1>1, BoundAssumption DEF Insert, TypeOK, Step, CleanupSteps, Index
<1>3. LeaseMatchesStep' /\ TargetKnown' /\ ServerPhase'
  BY ZenonT(60), <1>1 DEF Insert, LeaseMatchesStep, TargetKnown, ServerPhase, TypeOK, HoldingSteps,
              CleanupSteps
<1>4. CASE workers[w] # 0
  BY Zenon, <1>2, <1>3, <1>4, HoldersUnchanged DEF Insert
<1>5. CASE workers[w] = 0
  <2>1. /\ workers' = [workers EXCEPT ![w] = lease[t]]
        /\ lease' = [lease EXCEPT ![t] = 0]
        /\ UNCHANGED <<doomed, free, next>>
    BY Zenon, <1>5 DEF Insert
  <2>2. /\ \A v \in Worker : workers'[v] = IF v = w THEN lease[t] ELSE workers[v]
        /\ \A u \in Task : lease'[u] = IF u = t THEN 0 ELSE lease[u]
        /\ \A v \in Worker : doomed[v] = 0
        /\ lease[t] # 0
    BY <1>1, <2>1, BoundAssumption DEF TypeOK, ServerPhase, Index
  <2> HIDE DEF w
  <2>3. OneHolder'
    BY <1>1, <2>1, <2>2 DEF LeaseExclusive, OneHolder
  <2>4. FreeUnheld'
    BY <1>1, <2>1, <2>2, BoundAssumption DEF LeaseExclusive, FreeUnheld, TypeOK, Index
  <2>5. NoneLost'
    <3> SUFFICES ASSUME NEW i \in 1 .. next - 1
                 PROVE  HasHolder(i)'
      BY Zenon, <2>1 DEF NoneLost
    <3>1. HasHolder(i) /\ i # 0
      BY DEF LeaseExclusive, NoneLost, TypeOK
    <3> QED  BY ZenonT(60), <1>1, <1>5, <2>1, <2>2, <3>1 DEF HasHolder
  <2>6. BelowCounter'
    BY Zenon, <1>1, <2>1, <2>2 DEF LeaseExclusive, BelowCounter, TypeOK
  <2> QED  BY Zenon, <1>2, <1>3, <2>3, <2>4, <2>5, <2>6 DEF LeaseExclusive
<1> QED  BY Zenon, <1>4, <1>5

\* stop moves the index of the worker to the task.
LEMMA StopStep ==
  ASSUME IInv, NEW t \in Task, Stop(t)
  PROVE  IInv'
<1> DEFINE w == target[t]
<1> USE DEF IInv, Goto, serverVars, poolVars, kernelVars, childVars
<1>1. w \in Worker /\ lease[t] = 0 /\ workers[w] \in 0 .. MaxIndex /\ 0 \in 0 .. MaxIndex
  <2>1. w \in Worker /\ lease[t] = 0
    BY Zenon DEF Stop, TargetKnown, LeaseMatchesStep, HoldingSteps, CleanupSteps
  <2>2. workers[w] \in 0 .. MaxIndex
    BY Zenon, <2>1 DEF TypeOK
  <2>3. 0 \in 0 .. MaxIndex
    BY BoundAssumption
  <2> QED  BY ONLY Zenon, <2>1, <2>2, <2>3
<1>2. TypeOK'
  <2>1. pc' \in [Task -> Step]
    BY ZenonT(30) DEF Stop, TypeOK, Step, CleanupSteps
  <2>2. lease' \in [Task -> 0 .. MaxIndex] /\ workers' \in [Worker -> 0 .. MaxIndex]
    <3> DEFINE R == 0 .. MaxIndex
    <3>1. /\ lease \in [Task -> R] /\ workers \in [Worker -> R]
          /\ workers[w] \in R /\ 0 \in R
      BY Zenon, <1>1 DEF TypeOK
    <3> HIDE DEF R
    <3>2. lease' \in [Task -> R] /\ workers' \in [Worker -> R]
      BY Zenon, <3>1 DEF Stop
    <3> QED  BY Zenon, <3>2 DEF R
  <2> QED  BY Zenon, <2>1, <2>2 DEF Stop, TypeOK
<1>3. LeaseMatchesStep' /\ TargetKnown' /\ ServerPhase'
  <2>1. LeaseMatchesStep'
    BY Zenon, <1>1 DEF Stop, LeaseMatchesStep, TypeOK, HoldingSteps, CleanupSteps
  <2>2. TargetKnown'
    BY Zenon, <1>1 DEF Stop, TargetKnown, TypeOK
  <2>3. ServerPhase'
    BY Zenon, <1>1 DEF Stop, ServerPhase, TypeOK
  <2> QED  BY Zenon, <2>1, <2>2, <2>3
<1>4. CASE workers[w] = 0
  BY Zenon, <1>2, <1>3, <1>4, HoldersUnchanged DEF Stop
<1>5. CASE workers[w] # 0
  <2>1. /\ workers' = [workers EXCEPT ![w] = 0]
        /\ lease' = [lease EXCEPT ![t] = workers[w]]
        /\ UNCHANGED <<doomed, free, next>>
    BY Zenon, <1>5 DEF Stop
  <2>2. /\ \A v \in Worker : workers'[v] = IF v = w THEN 0 ELSE workers[v]
        /\ \A u \in Task : lease'[u] = IF u = t THEN workers[w] ELSE lease[u]
    BY Zenon, <1>1, <2>1 DEF TypeOK
  <2> HIDE DEF w
  <2>3. OneHolder'
    <3>1. OneHolder
      BY Zenon DEF LeaseExclusive
    <3>2. \A u \in Task, v \in Worker :
            lease'[u] # 0 => lease'[u] # workers'[v] /\ lease'[u] # doomed[v]
      BY ONLY <1>1, <1>5, <2>2, <3>1 DEF OneHolder
    <3>3. \A u, v \in Task : lease'[u] = lease'[v] /\ lease'[u] # 0 => u = v
      BY ONLY <1>1, <1>5, <2>2, <3>1 DEF OneHolder
    <3>4. \A v, x \in Worker : workers'[v] # 0 => workers'[v] # doomed[x]
      BY ONLY <2>2, <3>1 DEF OneHolder
    <3>5. \A v, x \in Worker : workers'[v] = workers'[x] /\ workers'[v] # 0 => v = x
      BY ONLY Zenon, <2>2, <3>1 DEF OneHolder
    <3>6. \A v, x \in Worker : doomed[v] = doomed[x] /\ doomed[v] # 0 => v = x
      BY ONLY Zenon, <3>1 DEF OneHolder
    <3>7. \A v \in Worker : workers'[v] # 0 => doomed[v] = 0
      BY ONLY Zenon, <2>2, <3>1 DEF OneHolder
    <3> QED  BY ONLY <2>1, <3>2, <3>3, <3>4, <3>5, <3>6, <3>7 DEF OneHolder
  <2>4. FreeUnheld'
    <3>1. \A i \in 1 .. Len(free) : free[i] # 0
      BY Zenon, FreeUsable
    <3> QED  BY <1>1, <2>1, <2>2, <3>1 DEF LeaseExclusive, FreeUnheld
  <2>5. NoneLost'
    <3> SUFFICES ASSUME NEW i \in 1 .. next - 1
                 PROVE  HasHolder(i)'
      BY Zenon, <2>1 DEF NoneLost
    <3>1. HasHolder(i) /\ i # 0
      BY DEF LeaseExclusive, NoneLost, TypeOK
    <3> QED  BY Zenon, <1>1, <2>1, <2>2, <3>1 DEF HasHolder
  <2>6. BelowCounter'
    BY Zenon, <1>1, <2>1, <2>2 DEF LeaseExclusive, BelowCounter, TypeOK
  <2> QED  BY Zenon, <1>2, <1>3, <2>3, <2>4, <2>5, <2>6 DEF LeaseExclusive
<1> QED  BY Zenon, <1>4, <1>5

\* The Drop of a lease pushes its index.
LEMMA ReleaseStep ==
  ASSUME IInv, NEW t \in Task, ReleaseLease(t)
  PROVE  IInv'
<1> USE DEF IInv, Goto, serverVars, mapVars, kernelVars, childVars
<1> DEFINE n == Len(free)
<1>1. lease[t] \in Index
  BY BoundAssumption DEF ReleaseLease, LeaseMatchesStep, HoldingSteps, CleanupSteps, TypeOK, Index
<1>2. /\ n \in Nat /\ free' \in Seq(Index) /\ Len(free') = n + 1
      /\ \A i \in 1 .. n : free'[i] = free[i]
      /\ free'[n + 1] = lease[t]
  BY <1>1, PushFacts DEF ReleaseLease, TypeOK
<1>3. \A u \in Task : lease'[u] = IF u = t THEN 0 ELSE lease[u]
  BY Zenon DEF ReleaseLease, TypeOK
<1>4. UNCHANGED <<workers, doomed, next>>
  BY Zenon DEF ReleaseLease
<1>5. TypeOK'
  BY <1>2, BoundAssumption DEF ReleaseLease, TypeOK, Step
<1>6. LeaseMatchesStep' /\ TargetKnown' /\ ServerPhase'
  BY Zenon DEF ReleaseLease, LeaseMatchesStep, TargetKnown, ServerPhase, TypeOK, HoldingSteps,
         CleanupSteps
<1>7. OneHolder'
  BY <1>3, <1>4 DEF LeaseExclusive, OneHolder
<1>8. FreeUnheld'
  <2> SUFFICES ASSUME NEW i \in 1 .. n + 1
               PROVE  /\ \A j \in 1 .. n + 1 : free'[i] = free'[j] => i = j
                      /\ \A u \in Task : lease'[u] # free'[i]
                      /\ \A v \in Worker : workers'[v] # free'[i] /\ doomed'[v] # free'[i]
    BY Zenon, <1>2 DEF FreeUnheld
  <2>1. lease[t] # 0
    BY <1>1 DEF Index
  <2>2. CASE i = n + 1
    <3>1. \A j \in 1 .. n : free'[j] # free'[i]
      BY SMTT(30), <1>2, <2>2 DEF LeaseExclusive, FreeUnheld
    <3> QED  BY <1>2, <1>3, <1>4, <2>1, <2>2, <3>1 DEF LeaseExclusive, OneHolder
  <2>3. CASE i # n + 1
    <3>1. i \in 1 .. n /\ free'[i] = free[i] /\ free[i] # 0
      BY <1>2, <2>3, FreeUsable
    <3>2. free'[i] # free'[n + 1]
      BY Zenon, <1>2, <3>1 DEF LeaseExclusive, FreeUnheld
    <3>3. \A j \in 1 .. n : free'[i] = free'[j] => i = j
      BY Zenon, <1>2, <3>1 DEF LeaseExclusive, FreeUnheld
    <3> QED  BY SMTT(40), <1>2, <1>3, <1>4, <3>1, <3>2, <3>3 DEF LeaseExclusive, FreeUnheld
  <2> QED  BY Zenon, <2>2, <2>3
<1>9. NoneLost'
  <2> SUFFICES ASSUME NEW i \in 1 .. next - 1
               PROVE  HasHolder(i)'
    BY Zenon, <1>4 DEF NoneLost
  <2>1. HasHolder(i)
    BY Zenon DEF LeaseExclusive, NoneLost
  <2>2. 1 .. n \subseteq 1 .. Len(free') /\ n + 1 \in 1 .. Len(free')
    BY <1>2
  <2>3. CASE lease[t] = i
    BY Zenon, <1>2, <2>2, <2>3 DEF HasHolder
  <2>4. CASE \E k \in 1 .. n : free[k] = i
    BY SMTT(30), <1>2, <2>2, <2>4 DEF HasHolder
  <2> QED  BY Zenon, <1>3, <1>4, <2>1, <2>3, <2>4 DEF HasHolder
<1>10. BelowCounter'
  <2>1. \A k \in 1 .. n + 1 : free'[k] < next
    <3> SUFFICES ASSUME NEW k \in 1 .. n + 1 PROVE free'[k] < next
      BY Zenon
    <3>1. k \in 1 .. n \/ k = n + 1
      BY <1>2
    <3> QED  BY Zenon, <1>2, <3>1 DEF LeaseExclusive, BelowCounter
  <2>2. 0 < next
    BY BoundAssumption DEF TypeOK
  <2>3. \A u \in Task : lease'[u] < next
    BY Zenon, <1>3, <2>2 DEF LeaseExclusive, BelowCounter
  <2> QED  BY Zenon, <1>2, <1>4, <2>1, <2>3 DEF LeaseExclusive, BelowCounter
<1> QED  BY Zenon, <1>5, <1>6, <1>7, <1>8, <1>9, <1>10 DEF LeaseExclusive

LEMMA AllocateStep ==
  ASSUME IInv, NEW t \in Task, Allocate(t),
         free = <<>> => next \in 1 .. MaxIndex
  PROVE  IInv'
<1> USE DEF IInv, serverVars, mapVars, kernelVars, childVars
<1>1. CASE TakeIndex(t)
  BY Zenon, <1>1, AllocateFresh, AllocateReused DEF Allocate
<1>2. CASE Goto(t, "return") /\ UNCHANGED <<lease, poolVars>>
  <2>1. LeaseExclusive'
    BY Zenon, <1>2, HoldersUnchanged DEF Allocate, poolVars
  <2>2. TypeOK'
    BY Zenon, <1>2 DEF Allocate, Goto, poolVars, TypeOK, Step
  <2>3. LeaseMatchesStep' /\ TargetKnown' /\ ServerPhase'
    BY Zenon, <1>2 DEF Allocate, Goto, poolVars, LeaseMatchesStep, TargetKnown, ServerPhase, TypeOK,
                HoldingSteps, CleanupSteps
  <2> QED  BY Zenon, <2>1, <2>2, <2>3
<1> QED  BY Zenon, <1>1, <1>2 DEF Allocate

LEMMA AcceptStep ==
  ASSUME IInv, NEW t \in Task, NEW w \in Worker, NEW request \in Requests,
         Accept(t, w, request)
  PROVE  IInv'
<1> USE DEF IInv, Accept, Goto, serverVars, mapVars, poolVars, kernelVars, childVars
<1>1. LeaseExclusive'
  BY SMTT(30), HoldersUnchanged
<1>2. TypeOK'
  BY SMTT(30), RequestAssumption DEF TypeOK, Step, StartSteps
<1>3. LeaseMatchesStep' /\ TargetKnown' /\ ServerPhase'
  BY Zenon, RequestAssumption
     DEF LeaseMatchesStep, TargetKnown, ServerPhase, TypeOK, HoldingSteps, CleanupSteps
<1> QED  BY Zenon, <1>1, <1>2, <1>3

\* stop_all takes every worker out of the map at once.
LEMMA BeginStopAllStep ==
  ASSUME IInv, BeginStopAll
  PROVE  IInv'
<1> USE DEF IInv, taskVars, poolVars, kernelVars, childVars
<1>1. /\ \A w \in Worker : doomed[w] = 0 /\ doomed'[w] = workers[w] /\ workers'[w] = 0
      /\ UNCHANGED <<lease, free, next>>
  BY Zenon DEF BeginStopAll, ServerPhase, TypeOK
<1>2. TypeOK'
  BY SMTT(30), BoundAssumption DEF BeginStopAll, TypeOK, Server
<1>3. LeaseMatchesStep' /\ TargetKnown' /\ ServerPhase'
  BY ZenonT(30) DEF BeginStopAll, LeaseMatchesStep, TargetKnown, ServerPhase
<1>4. OneHolder'
  BY <1>1 DEF LeaseExclusive, OneHolder
<1>5. FreeUnheld'
  <2>1. \A i \in 1 .. Len(free) : free[i] # 0
    BY Zenon, FreeUsable
  <2> QED  BY <1>1, <2>1 DEF LeaseExclusive, FreeUnheld
<1>6. NoneLost'
  <2> SUFFICES ASSUME NEW i \in 1 .. next - 1
               PROVE  HasHolder(i)'
    BY Zenon, <1>1 DEF NoneLost
  <2>1. HasHolder(i) /\ i # 0
    BY SMTT(30) DEF LeaseExclusive, NoneLost, TypeOK
  <2> QED  BY Zenon, <1>1, <2>1 DEF HasHolder
<1>7. BelowCounter'
  BY Zenon, <1>1 DEF LeaseExclusive, BelowCounter, TypeOK
<1> QED  BY SMTT(30), <1>2, <1>3, <1>4, <1>5, <1>6, <1>7 DEF LeaseExclusive

\* One iteration of stop_all pushes the index of the worker.
LEMMA StopOneStep ==
  ASSUME IInv, NEW w \in Worker, StopOne(w)
  PROVE  IInv'
<1> USE DEF IInv, taskVars, mapVars
<1> DEFINE n == Len(free)
<1>1. doomed[w] \in Index /\ doomed[w] # 0
  BY SMTT(30), BoundAssumption DEF StopOne, TypeOK, Index
<1>2. /\ n \in Nat /\ free' \in Seq(Index) /\ Len(free') = n + 1
      /\ \A i \in 1 .. n : free'[i] = free[i]
      /\ free'[n + 1] = doomed[w]
  <2>1. free \in Seq(Index) /\ free' = Append(free, doomed[w])
    BY Zenon DEF StopOne, TypeOK
  <2> QED  BY <1>1, <2>1, PushFacts
<1>3. \A v \in Worker : doomed'[v] = IF v = w THEN 0 ELSE doomed[v]
  BY Zenon DEF StopOne, TypeOK
<1>4. UNCHANGED <<workers, lease, next, pc, target, server>>
  BY Zenon DEF StopOne
<1>5. TypeOK'
  <2>1. doomed' \in [Worker -> 0 .. MaxIndex]
    BY BoundAssumption DEF StopOne, TypeOK
  <2>2. /\ netns' \subseteq Index /\ leaked' \subseteq Index /\ dirs' \subseteq Worker
        /\ openvpn' \subseteq Index /\ socks' \subseteq Index
        /\ lingering' \subseteq Index
    BY SMTT(30), <1>1 DEF StopOne, Outlived, DeleteNetwork, TypeOK
  <2> QED  BY Zenon, <1>2, <2>1, <2>2 DEF StopOne, TypeOK
<1>6. LeaseMatchesStep' /\ TargetKnown' /\ ServerPhase'
  <2>1. LeaseMatchesStep' /\ TargetKnown'
    BY Zenon, <1>4 DEF LeaseMatchesStep, TargetKnown
  <2>2. ServerPhase'
    BY Zenon, <1>3, <1>4 DEF ServerPhase
  <2> QED  BY Zenon, <2>1, <2>2
<1>7. OneHolder'
  <2>1. OneHolder
    BY Zenon DEF LeaseExclusive
  <2>2. \A t \in Task, v \in Worker :
          lease[t] # 0 => lease[t] # workers[v] /\ lease[t] # doomed'[v]
    BY ONLY ZenonT(120), <1>3, <2>1 DEF OneHolder
  <2>3. \A t, u \in Task : lease[t] = lease[u] /\ lease[t] # 0 => t = u
    BY ONLY Zenon, <2>1 DEF OneHolder
  <2>4. \A v, x \in Worker : workers[v] # 0 => workers[v] # doomed'[x]
    BY ONLY Zenon, <1>3, <2>1 DEF OneHolder
  <2>5. \A v, x \in Worker : workers[v] = workers[x] /\ workers[v] # 0 => v = x
    BY ONLY Zenon, <2>1 DEF OneHolder
  <2>6. \A v, x \in Worker : doomed'[v] = doomed'[x] /\ doomed'[v] # 0 => v = x
    BY ONLY Zenon, <1>3, <2>1 DEF OneHolder
  <2>7. \A v \in Worker : workers[v] # 0 => doomed'[v] = 0
    BY ONLY Zenon, <1>3, <2>1 DEF OneHolder
  <2> QED  BY ONLY Zenon, <1>4, <2>2, <2>3, <2>4, <2>5, <2>6, <2>7 DEF OneHolder
<1>8. FreeUnheld'
  <2> SUFFICES ASSUME NEW i \in 1 .. n + 1
               PROVE  /\ \A j \in 1 .. n + 1 : free'[i] = free'[j] => i = j
                      /\ \A u \in Task : lease'[u] # free'[i]
                      /\ \A v \in Worker : workers'[v] # free'[i] /\ doomed'[v] # free'[i]
    BY Zenon, <1>2 DEF FreeUnheld
  <2>1. CASE i = n + 1
    <3>1. free'[i] = doomed[w] /\ doomed[w] # 0
      BY Zenon, <1>1, <1>2, <2>1
    <3>2. \A j \in 1 .. n : free'[j] # free'[i]
      BY Zenon, <1>2, <2>1 DEF LeaseExclusive, FreeUnheld
    <3>3. OneHolder
      BY Zenon DEF LeaseExclusive
    <3>4. \A u \in Task : lease'[u] # free'[i]
      BY ONLY Zenon, <1>4, <3>1, <3>3, w \in Worker DEF OneHolder
    <3>5. \A v \in Worker : workers'[v] # free'[i] /\ doomed'[v] # free'[i]
      BY ONLY <1>3, <1>4, <3>1, <3>3, w \in Worker DEF OneHolder
    <3> QED  BY ONLY <1>2, <2>1, <3>2, <3>4, <3>5
  <2>2. CASE i # n + 1
    <3>1. i \in 1 .. n /\ free'[i] = free[i] /\ free[i] # 0
      BY <1>2, <2>2, FreeUsable
    <3>2. free'[i] # free'[n + 1]
      BY Zenon, <1>2, <3>1 DEF LeaseExclusive, FreeUnheld
    <3>3. \A j \in 1 .. n : free'[i] = free'[j] => i = j
      BY Zenon, <1>2, <3>1 DEF LeaseExclusive, FreeUnheld
    <3> QED  BY <1>2, <1>3, <1>4, <3>1, <3>2, <3>3 DEF LeaseExclusive, FreeUnheld
  <2> QED  BY Zenon, <2>1, <2>2
<1>9. NoneLost'
  <2> SUFFICES ASSUME NEW i \in 1 .. next - 1
               PROVE  HasHolder(i)'
    BY Zenon, <1>4 DEF NoneLost
  <2>1. HasHolder(i)
    BY Zenon DEF LeaseExclusive, NoneLost
  <2>2. 1 .. n \subseteq 1 .. Len(free') /\ n + 1 \in 1 .. Len(free')
    BY <1>2
  <2>3. CASE doomed[w] = i
    BY Zenon, <1>2, <2>2, <2>3 DEF HasHolder
  <2>4. CASE \E k \in 1 .. n : free[k] = i
    BY SMTT(30), <1>2, <2>2, <2>4 DEF HasHolder
  <2> QED  BY Zenon, <1>3, <1>4, <2>1, <2>3, <2>4 DEF HasHolder
<1>10. BelowCounter'
  <2>1. \A k \in 1 .. n + 1 : free'[k] < next
    <3> SUFFICES ASSUME NEW k \in 1 .. n + 1 PROVE free'[k] < next
      BY Zenon
    <3>1. k \in 1 .. n \/ k = n + 1
      BY <1>2
    <3> QED  BY Zenon, <1>2, <3>1 DEF LeaseExclusive, BelowCounter
  <2>2. 0 < next
    BY BoundAssumption DEF TypeOK
  <2>3. \A v \in Worker : doomed'[v] < next
    BY Zenon, <1>3, <2>2 DEF LeaseExclusive, BelowCounter
  <2> QED  BY Zenon, <1>2, <1>4, <2>1, <2>3 DEF LeaseExclusive, BelowCounter
<1> QED  BY Zenon, <1>5, <1>6, <1>7, <1>8, <1>9, <1>10 DEF LeaseExclusive

\* Leaving run_netd by the error of accept drops every owner and the pool.
LEMMA AcceptFailsStep ==
  ASSUME IInv, AcceptFails
  PROVE  IInv'
<1> USE DEF IInv, AcceptFails
<1>1. <<>> \in Seq(Index) /\ Len(<<>>) = 0
  OBVIOUS
<1>2. \A w \in Worker : doomed[w] = 0
  BY Zenon DEF ServerPhase
<1>3. TypeOK'
  BY SMTT(30), <1>1, BoundAssumption DEF TypeOK, Server, Step
<1>4. LeaseMatchesStep' /\ TargetKnown' /\ ServerPhase'
  BY Zenon, <1>2 DEF LeaseMatchesStep, TargetKnown, ServerPhase, HoldingSteps, CleanupSteps
<1>5. OneHolder'
  BY Zenon, <1>2 DEF OneHolder
<1>6. FreeUnheld'
  BY <1>1 DEF FreeUnheld
<1>7. NoneLost'
  BY DEF NoneLost
<1>8. BelowCounter'
  BY <1>1, <1>2 DEF BelowCounter
<1> QED  BY Zenon, <1>3, <1>4, <1>5, <1>6, <1>7, <1>8 DEF LeaseExclusive

\* The other steps touch neither tasks nor indices.
LEMMA OtherStep ==
  ASSUME IInv,
         \/ StopListening \/ Exit \/ CancelToken
         \/ \E index \in openvpn : OpenVpnExits(index)
         \/ \E index \in socks : SocksExits(index)
         \/ \E index \in lingering : ChildDies(index)
         \/ UNCHANGED vars
  PROVE  IInv'
<1> USE DEF IInv, StopListening, Exit, CancelToken, OpenVpnExits, SocksExits, ChildDies,
            vars, serverVars, taskVars, mapVars, poolVars, kernelVars, childVars
<1>1. LeaseExclusive'
  BY SMTT(30), HoldersUnchanged
<1>2. TypeOK'
  BY ZenonT(30) DEF TypeOK, Server
<1>3. LeaseMatchesStep' /\ TargetKnown'
  BY Zenon DEF LeaseMatchesStep, TargetKnown
<1>4. ServerPhase'
  BY Zenon DEF ServerPhase
<1> QED  BY SMTT(30), <1>1, <1>2, <1>3, <1>4
=============================================================================
