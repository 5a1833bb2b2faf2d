--------------------------- MODULE WorkerClients ---------------------------
(***************************************************************************)
(* The control plane's users of workers (src/service.rs) composed with     *)
(* the admission of netd (module Admission): the connection actor, which   *)
(* switches and drains, and the IPPure tests, each of which asks for a     *)
(* worker with an id of its own and has to give it back.  Requests time    *)
(* out at the client while netd goes on, and stops fail.                   *)
(***************************************************************************)
EXTENDS Integers, FiniteSets, FiniteSetsExt

CONSTANTS
  Worker,       \* worker ids; an id is reused once nobody knows it any more
  NoWorker,
  Task,         \* netd client tasks
  NoTask,
  Switcher,     \* the connection actor
  Tester,       \* permits of test_dispatcher
  MaxDraining,  \* MAX_DRAINING_WORKERS
  MaxManaged,   \* MAX_MANAGED_WORKERS
  MaxLost       \* bound: workers given up and still there at one time

\* max_parallel_tests is at most 32, the reserve 8 and the cap 64: the cap is
\* never reached.
ASSUME PermitAssumption ==
  /\ IsFiniteSet(Tester) /\ MaxDraining \in Nat /\ MaxManaged \in Nat
  /\ Cardinality(Tester) + MaxDraining <= MaxManaged

VARIABLES
  registered, starting, phase, claim, seen,  \* netd, see Admission
  slot,      \* the start each client waits for or the worker it got
  active,    \* the actor's connection
  draining,  \* replaced workers whose drain task sleeps
  givenUp,   \* workers whose start was not waited for or whose stop failed
  counted    \* history: the workers each start found in the map

netdVars == <<registered, starting, phase, claim, seen>>
userVars == <<slot, active, draining, givenUp>>
vars     == <<netdVars, userVars, counted>>

Client == {Switcher} \union Tester

\* Mutant: the limit leaves no room for the connection actor's workers.
MaxWorkers_TestsOnly == Min({Cardinality(Tester), MaxManaged})
MaxWorkers == Min({Cardinality(Tester) + MaxDraining, MaxManaged})

Netd == INSTANCE Admission

Idle == [at |-> "idle", worker |-> NoWorker, task |-> NoTask]

Init ==
  /\ Netd!Init
  /\ slot = [c \in Client |-> Idle]
  /\ active = NoWorker
  /\ draining = {}
  /\ givenUp = {}
  /\ counted = [t \in Task |-> {}]

\* Workers somebody in the control plane will stop.
Owned == ({slot[c].worker : c \in Client} \union {active} \union draining) \ {NoWorker}

\* Workers netd has with nobody left to stop them.
Orphans == (registered \union starting) \ Owned

-----------------------------------------------------------------------------
(* Starting *)

\* start_worker with a new id.  A request that never reaches netd only makes
\* the client wait.
AskStart(c, t, w) ==
  /\ slot[c] = Idle
  /\ w \notin registered \union starting \union Owned
  /\ Netd!Reserve(t, w)
  /\ slot' = [slot EXCEPT ![c] = [at |-> "waiting", worker |-> w, task |-> t]]
  /\ givenUp' = givenUp \ {w}
  /\ UNCHANGED <<active, draining, counted>>

\* Steps of netd before it answers.
NetdWorks(t) ==
  /\ \/ /\ Netd!Count(t)
        /\ counted' = [counted EXCEPT ![t] = registered]
     \/ /\ Netd!Admit(t)
        /\ counted' = [counted EXCEPT ![t] = {}]
     \/ /\ Netd!Register(t) \/ Netd!Abort(t)
        /\ UNCHANGED counted
  /\ UNCHANGED userVars

\* The reservation is dropped, then the answer is written, if anyone waits.
NetdAnswers(t) ==
  /\ Netd!Leave(t)
  /\ slot' = [c \in Client |->
       IF slot[c].task # t THEN slot[c]
       ELSE IF claim[t] \in registered
            THEN [slot[c] EXCEPT !.at = "started", !.task = NoTask] ELSE Idle]
  /\ givenUp' = IF claim[t] \in registered THEN givenUp ELSE givenUp \ {claim[t]}
  /\ UNCHANGED <<active, draining, counted>>

\* The client's timeout passes, or the answer is lost.
GiveUp(c) ==
  /\ slot[c].at = "waiting"
  /\ Cardinality(givenUp) < MaxLost
  /\ slot' = [slot EXCEPT ![c] = Idle]
  /\ givenUp' = givenUp \union {slot[c].worker}
  /\ UNCHANGED <<netdVars, active, draining, counted>>

-----------------------------------------------------------------------------
(* Using and stopping *)

\* stop_worker: netd removes the worker, or an error is logged.
StopWorker(w, ok) ==
  IF ok
  THEN Netd!Unregister({w}) /\ UNCHANGED givenUp
  ELSE /\ Cardinality(givenUp) < MaxLost
       /\ givenUp' = givenUp \union {w}
       /\ UNCHANGED netdVars

\* Mutant: a failed measurement returns before the worker is stopped.
EndTest_Early(c, ok) ==
  /\ c \in Tester /\ slot[c].at = "started"
  /\ slot' = [slot EXCEPT ![c] = Idle]
  /\ IF ok THEN StopWorker(slot[c].worker, TRUE) ELSE UNCHANGED <<netdVars, givenUp>>
  /\ UNCHANGED <<active, draining, counted>>

\* The worker of a test is stopped whatever was measured.
EndTest(c, ok) ==
  /\ c \in Tester /\ slot[c].at = "started"
  /\ slot' = [slot EXCEPT ![c] = Idle]
  /\ StopWorker(slot[c].worker, ok)
  /\ UNCHANGED <<active, draining, counted>>

\* The started worker becomes the active one and the old one drains.
FinishSwitch ==
  /\ slot[Switcher].at = "started"
  /\ slot' = [slot EXCEPT ![Switcher] = Idle]
  /\ active' = slot[Switcher].worker
  /\ draining' = draining \union ({active} \ {NoWorker})
  /\ UNCHANGED <<netdVars, givenUp, counted>>

DrainEnds(w, ok) ==
  /\ w \in draining
  /\ draining' = draining \ {w}
  /\ StopWorker(w, ok)
  /\ UNCHANGED <<slot, active, counted>>

\* A disconnect or a broken tunnel, between two switches.
DropActive(ok) ==
  /\ active # NoWorker /\ slot[Switcher] = Idle
  /\ active' = NoWorker
  /\ StopWorker(active, ok)
  /\ UNCHANGED <<slot, draining, counted>>

-----------------------------------------------------------------------------
Next ==
  \/ \E c \in Client, t \in Task, w \in Worker : AskStart(c, t, w)
  \/ \E t \in Task : NetdWorks(t) \/ NetdAnswers(t)
  \/ \E c \in Client : GiveUp(c)
  \/ \E c \in Tester, ok \in BOOLEAN : EndTest(c, ok)
  \/ FinishSwitch
  \/ \E w \in draining, ok \in BOOLEAN : DrainEnds(w, ok)
  \/ \E ok \in BOOLEAN : DropActive(ok)

Spec == Init /\ [][Next]_vars

-----------------------------------------------------------------------------
(* Properties *)

\* No silent leak: a worker that netd has and nobody in the control plane will
\* ever stop is one whose start timed out at the client or whose stop failed.
\* run_test and switch_connection have no other way to lose one.
NoSilentLeak == Orphans \subseteq givenUp

\* Workers that the two reads of reserve count once too often for t: those found
\* in the map that still hold their reservation, and those stopped since.
CountedTwice(t) == counted[t] \ (registered \ starting)

\* What a refusal for want of capacity means.  The tests and the two workers of a
\* switch alone never exhaust max_workers: a start is refused only if draining
\* workers, workers nobody owns and workers counted twice have used up what
\* MAX_DRAINING_WORKERS leaves beyond the two of a switch.  A worker is counted
\* twice between its insertion and the drop of its reservation, and when it is
\* stopped, and the next test started, between the two reads.
RoomForEveryone ==
  [][\A t \in Task : phase[t] = "admit" /\ phase'[t] = "leaving" =>
       Cardinality(draining) + Cardinality(Orphans) + Cardinality(CountedTwice(t))
         > MaxDraining - 2]_vars
=============================================================================
