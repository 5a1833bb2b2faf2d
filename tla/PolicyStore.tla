---------------------------- MODULE PolicyStore ----------------------------
(***************************************************************************)
(* The automatic-connection policy in memory and in the database           *)
(* (src/service.rs, src/storage.rs).  A change of the policy is saved      *)
(* first and takes effect afterwards; a manual connect or disconnect       *)
(* switches the policy off at once and saves that afterwards.  Both hold   *)
(* one lock.  A save may fail, the client of a call may go away, which     *)
(* drops the call wherever it waits, and the process may be restarted.     *)
(*                                                                         *)
(* The database runs statements on threads of its own, over several        *)
(* connections: the save of a dropped call may still be carried out, even  *)
(* after the lock has been taken by another call.                          *)
(***************************************************************************)
EXTENDS Naturals, FiniteSets

CONSTANTS
  Rule,     \* regions and classifications a policy may ask for
  AnyRule,  \* no region and no classification
  Caller,   \* calls of the Web API under way
  NoCaller,
  MaxLate   \* bound on dropped calls whose save is open

Policy == [enabled : BOOLEAN, rule : Rule]

VARIABLES
  stored,    \* the row of auto_connect_config
  live,      \* the watch channel auto_connect
  lock,      \* auto_connect_update
  call,      \* what each caller does and the policy it saves
  late,      \* saves of dropped calls that may still be carried out
  \* history: whether a save has failed or was given up since the last change
  \* that was carried out to its end
  unsettled

vars == <<stored, live, lock, call, late, unsettled>>

\* The policy of the migration, and of a caller that does nothing.
Off  == [enabled |-> FALSE, rule |-> AnyRule]
Idle == [at |-> "idle", policy |-> Off]

Init ==
  /\ stored = Off /\ live = Off
  /\ lock = NoCaller
  /\ call = [c \in Caller |-> Idle]
  /\ late = {} /\ unsettled = FALSE

-----------------------------------------------------------------------------
(* set_auto_connect_config *)

\* The policy is valid: an invalid one is refused before the lock.
AskSet(c, p) ==
  /\ call[c].at = "idle"
  /\ call' = [call EXCEPT ![c] = [at |-> "set", policy |-> p]]
  /\ UNCHANGED <<stored, live, lock, late, unsettled>>

\* Mutant: the lock is not taken.
BeginSet_Unlocked(c) ==
  /\ call[c].at = "set"
  /\ call' = [call EXCEPT ![c].at = "saveSet"]
  /\ UNCHANGED <<stored, live, lock, late, unsettled>>

BeginSet(c) ==
  /\ call[c].at = "set" /\ lock = NoCaller
  /\ lock' = c
  /\ call' = [call EXCEPT ![c].at = "saveSet"]
  /\ UNCHANGED <<stored, live, late, unsettled>>

-----------------------------------------------------------------------------
(* disable_auto_connect, in connect and disconnect *)

AskDisable(c) ==
  /\ call[c].at = "idle"
  /\ call' = [call EXCEPT ![c] = [at |-> "disable", policy |-> Off]]
  /\ UNCHANGED <<stored, live, lock, late, unsettled>>

\* Nothing is done when the policy is off.
BeginDisable(c) ==
  /\ call[c].at = "disable" /\ lock = NoCaller
  /\ IF live.enabled
     THEN LET off == [live EXCEPT !.enabled = FALSE]
          IN /\ live' = off
             /\ lock' = c
             /\ call' = [call EXCEPT ![c] = [at |-> "saveOff", policy |-> off]]
     ELSE /\ call' = [call EXCEPT ![c] = Idle]
          /\ UNCHANGED <<live, lock>>
  /\ UNCHANGED <<stored, late, unsettled>>

-----------------------------------------------------------------------------
(* save_auto_connect_config *)

Unlock(c) == lock' = IF lock = c THEN NoCaller ELSE lock

\* One statement: the row changes as a whole.
Commit(c) ==
  /\ call[c].at \in {"saveSet", "saveOff"}
  /\ stored' = call[c].policy
  /\ call' = [call EXCEPT ![c].at = IF @ = "saveSet" THEN "savedSet" ELSE "savedOff"]
  /\ unsettled' = (late # {})
  /\ UNCHANGED <<live, lock, late>>

\* A change that is answered takes effect here.
Return(c) ==
  /\ call[c].at \in {"savedSet", "savedOff"}
  /\ live' = IF call[c].at = "savedSet" THEN call[c].policy ELSE live
  /\ call' = [call EXCEPT ![c] = Idle]
  /\ Unlock(c)
  /\ UNCHANGED <<stored, late, unsettled>>

\* A change is refused; a policy that was switched off stays off, with a warning.
SaveFails(c) ==
  /\ call[c].at \in {"saveSet", "saveOff"}
  /\ call' = [call EXCEPT ![c] = Idle]
  /\ unsettled' = (unsettled \/ call[c].at = "saveOff")
  /\ Unlock(c)
  /\ UNCHANGED <<stored, live, late>>

\* The client goes away.
ClientGone(c) ==
  /\ call[c].at # "idle"
  /\ call' = [call EXCEPT ![c] = Idle]
  /\ LET saving == call[c].at \in {"saveSet", "saveOff"}
         begun  == saving \/ call[c].at \in {"savedSet", "savedOff"}
     IN /\ saving => Cardinality(late) < MaxLate
        /\ late' = IF saving THEN late \union {call[c].policy} ELSE late
        /\ unsettled' = (unsettled \/ begun)
  /\ Unlock(c)
  /\ UNCHANGED <<stored, live>>

LateSave(p) ==
  /\ p \in late
  /\ late' = late \ {p}
  /\ unsettled' = TRUE
  /\ stored' \in {stored, p}
  /\ UNCHANGED <<live, lock, call>>

\* Either process ends and the container is started again:
\* run_control_plane reads the row before it serves anyone.
Restart ==
  /\ live' = stored
  /\ call' = [c \in Caller |-> Idle]
  /\ lock' = NoCaller /\ late' = {} /\ unsettled' = FALSE
  /\ UNCHANGED stored

Next ==
  \/ \E c \in Caller :
       \/ \E p \in Policy : AskSet(c, p)
       \/ BeginSet(c) \/ AskDisable(c) \/ BeginDisable(c)
       \/ Commit(c) \/ Return(c) \/ SaveFails(c) \/ ClientGone(c)
  \/ \E p \in Policy : LateSave(p)
  \/ Restart

Spec == Init /\ [][Next]_vars

-----------------------------------------------------------------------------
(* Properties *)

\* Unless a save failed or was given up since, the policy in force is the one
\* in the database whenever no call holds the lock: changes and switch-offs
\* of several clients do not mix.
StoreFollowsLive == lock = NoCaller /\ ~ unsettled => stored = live
=============================================================================
