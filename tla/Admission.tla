----------------------------- MODULE Admission -----------------------------
(***************************************************************************)
(* What WorkerManager promises about admission: at most one start per      *)
(* worker id at a time, and a limit on the number of workers that is       *)
(* enforced by two separate reads (reserve in src/netd/system.rs).         *)
(* Everything between admission and registration is one step here;         *)
(* WorkerManager refines this specification.                               *)
(***************************************************************************)
EXTENDS Integers, FiniteSets

CONSTANTS
  Worker,      \* worker ids that requests may name
  NoWorker,    \* claim of a task that holds no reservation
  Task,        \* tasks that can run at the same time
  MaxWorkers   \* WorkerManager.max_workers

VARIABLES
  registered,  \* keys of the workers map
  starting,    \* ids being started
  phase,       \* how far each task's start has come
  claim,       \* id reserved by each task
  seen         \* workers.len() as read by a task about to be admitted

vars == <<registered, starting, phase, claim, seen>>

Phase == {"out", "count", "admit", "admitted", "leaving"}

Init ==
  /\ registered = {}
  /\ starting = {}
  /\ phase = [t \in Task |-> "out"]
  /\ claim = [t \in Task |-> NoWorker]
  /\ seen = [t \in Task |-> 0]

Reserve(t, w) ==
  /\ phase[t] = "out"
  /\ w \notin starting
  /\ starting' = starting \union {w}
  /\ claim' = [claim EXCEPT ![t] = w]
  /\ phase' = [phase EXCEPT ![t] = "count"]
  /\ UNCHANGED <<registered, seen>>

Count(t) ==
  /\ phase[t] = "count"
  /\ IF claim[t] \in registered
     THEN /\ phase' = [phase EXCEPT ![t] = "leaving"]
          /\ UNCHANGED seen
     ELSE /\ phase' = [phase EXCEPT ![t] = "admit"]
          /\ seen' = [seen EXCEPT ![t] = Cardinality(registered)]
  /\ UNCHANGED <<registered, starting, claim>>

\* Mutant: only the registered workers are compared with the limit.
Admit_IgnoresStarting(t) ==
  /\ phase[t] = "admit"
  /\ phase' = [phase EXCEPT ![t] = IF seen[t] >= MaxWorkers THEN "leaving" ELSE "admitted"]
  /\ seen' = [seen EXCEPT ![t] = 0]
  /\ UNCHANGED <<registered, starting, claim>>

Admit(t) ==
  /\ phase[t] = "admit"
  /\ phase' = [phase EXCEPT ![t] =
                 IF seen[t] + Cardinality(starting) > MaxWorkers
                 THEN "leaving" ELSE "admitted"]
  /\ seen' = [seen EXCEPT ![t] = 0]
  /\ UNCHANGED <<registered, starting, claim>>

Register(t) ==
  /\ phase[t] = "admitted"
  /\ registered' = registered \union {claim[t]}
  /\ phase' = [phase EXCEPT ![t] = "leaving"]
  /\ UNCHANGED <<starting, claim, seen>>

Abort(t) ==
  /\ phase[t] = "admitted"
  /\ phase' = [phase EXCEPT ![t] = "leaving"]
  /\ UNCHANGED <<registered, starting, claim, seen>>

Leave(t) ==
  /\ phase[t] = "leaving"
  /\ starting' = starting \ {claim[t]}
  /\ claim' = [claim EXCEPT ![t] = NoWorker]
  /\ phase' = [phase EXCEPT ![t] = "out"]
  /\ UNCHANGED <<registered, seen>>

\* A stop takes one worker out of the map, stop_all takes all of them.
Unregister(gone) ==
  /\ gone # {}
  /\ registered' = registered \ gone
  /\ UNCHANGED <<starting, phase, claim, seen>>

\* The manager is dropped because run_netd returned early.
Drop ==
  /\ registered' = {}
  /\ starting' = {}
  /\ phase' = [t \in Task |-> "out"]
  /\ claim' = [t \in Task |-> NoWorker]
  /\ seen' = [t \in Task |-> 0]

Next ==
  \/ \E t \in Task, w \in Worker : Reserve(t, w)
  \/ \E t \in Task : Count(t) \/ Admit(t) \/ Register(t) \/ Abort(t) \/ Leave(t)
  \/ \E gone \in {registered} \union {{w} : w \in registered} : Unregister(gone)
  \/ Drop

Spec == Init /\ [][Next]_vars

-----------------------------------------------------------------------------
\* reserve reads workers.len() and starting.len() under different locks, so a
\* start that registers between the two reads is counted in neither.  The
\* limit can be overshot, but the map never holds more than twice max_workers.
CapacityOvershoot == Cardinality(registered) <= 2 * MaxWorkers
=============================================================================
