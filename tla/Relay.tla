------------------------------- MODULE Relay -------------------------------
(***************************************************************************)
(* What the connection actor promises to those who use the published       *)
(* relay: a worker is published only while netd has it, a replaced worker  *)
(* is handed to a drain task and stays until that task stops it, and the   *)
(* published worker is stopped by nobody.  ConnectionActor implements this *)
(* specification, and Gateway is composed with it.                         *)
(***************************************************************************)
CONSTANTS
  Worker,    \* worker ids
  NoWorker

VARIABLES
  relay,     \* active_worker: the worker whose socket is published
  present,   \* workers netd has
  draining   \* replaced workers whose drain task sleeps

vars == <<relay, present, draining>>

Init ==
  /\ relay = NoWorker
  /\ present = {}
  /\ draining = {}

\* netd registers a worker, for a switch or for one that was given up.
Arrive(w) ==
  /\ w \notin present \union draining
  /\ present' = present \union {w}
  /\ UNCHANGED <<relay, draining>>

\* switch_connection succeeded.
Publish(w) ==
  /\ w \in present \ draining
  /\ w # relay
  /\ relay' = w
  /\ draining' = draining \union ({relay} \ {NoWorker})
  /\ UNCHANGED present

\* A disconnect, a broken tunnel or the end of the actor, which stops the
\* worker in the same step if stop_worker succeeds.
Withdraw(gone) ==
  /\ relay # NoWorker
  /\ gone \subseteq {relay}
  /\ relay' = NoWorker
  /\ present' = present \ gone
  /\ UNCHANGED draining

\* A worker that is neither published nor draining is stopped.
StopUnused(w) ==
  /\ w \in present \ draining
  /\ w # relay
  /\ present' = present \ {w}
  /\ UNCHANGED <<relay, draining>>

\* The drain task wakes up and asks netd to stop its worker, perhaps in vain.
DrainEnds(w, gone) ==
  /\ w \in draining
  /\ gone \subseteq {w}
  /\ draining' = draining \ {w}
  /\ present' = present \ gone
  /\ UNCHANGED relay

Next ==
  \/ \E w \in Worker : Arrive(w) \/ Publish(w) \/ StopUnused(w)
  \/ \E gone \in SUBSET {relay} : Withdraw(gone)
  \/ \E w \in draining : \E gone \in SUBSET {w} : DrainEnds(w, gone)

Spec == Init /\ [][Next]_vars
=============================================================================
