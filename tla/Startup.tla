------------------------------ MODULE Startup ------------------------------
(***************************************************************************)
(* The two processes of an instance coming up and going down: the          *)
(* entrypoint (deploy/entrypoint.sh), netd up to its accept loop and from  *)
(* there to its end (run_netd in src/netd/system.rs), and the control      *)
(* plane (run_control_plane in src/lib.rs).  The name of the upstream      *)
(* proxy is looked up by netd alone, once per start, and its addresses     *)
(* may change at any time.  Every step may fail, either process may be     *)
(* killed, and the entrypoint may be started again, in a fresh namespace   *)
(* and runtime directory or in the old ones.                               *)
(***************************************************************************)
EXTENDS Naturals, FiniteSets, FiniteSetsExt

CONSTANTS
  Address,      \* IPv4 addresses, in their order
  Unusable,     \* those is_valid_upstream_ipv4 refuses
  NoAddress,
  MaxLaunch     \* bound on starts of the entrypoint

VARIABLES
  names,      \* what the host name of the upstream resolves to
  entry,      \* the entrypoint
  launches,
  netd,       \* where netd is and the address it pinned
  rootGuard,  \* the upstream address the root firewall lets through
  socketFile, \* "none", "dead" (left behind) or "live" (netd listens)
  app         \* where the control plane is and the address it pinned

vars == <<names, entry, launches, netd, rootGuard, socketFile, app>>

Gone == [at |-> "none", pin |-> NoAddress]

Init ==
  /\ names = Address
  /\ entry = "ended" /\ launches = 0
  /\ netd = Gone /\ app = Gone
  /\ rootGuard = NoAddress /\ socketFile = "none"

NamesChange ==
  /\ names' \in SUBSET Address
  /\ UNCHANGED <<entry, launches, netd, rootGuard, socketFile, app>>

-----------------------------------------------------------------------------
(* deploy/entrypoint.sh *)

\* A container starts with a fresh /run and network namespace.
Launch(fresh) ==
  /\ entry = "ended" /\ launches < MaxLaunch
  /\ launches' = launches + 1
  /\ entry' = "waiting"
  /\ netd' = [at |-> "resolve", pin |-> NoAddress]
  /\ rootGuard' = IF fresh THEN NoAddress ELSE rootGuard
  /\ socketFile' = IF fresh THEN "none" ELSE socketFile
  /\ UNCHANGED <<names, app>>

\* A socket file is all it waits for.
SocketSeen ==
  /\ entry = "waiting" /\ socketFile # "none"
  /\ entry' = "running"
  /\ app' = [at |-> "ping", pin |-> NoAddress]
  /\ UNCHANGED <<names, launches, netd, rootGuard, socketFile>>

\* netd is gone, or no socket for 400 tries.  The script exits at once: the trap
\* signals netd, nobody waits for it, and it dies with the container.
WaitFails ==
  /\ entry = "waiting" /\ socketFile = "none"
  /\ entry' = "ended" /\ netd' = Gone
  /\ UNCHANGED <<names, launches, rootGuard, socketFile, app>>

\* wait -n: one of them has ended, or the container is being stopped.
EntryStops ==
  /\ entry = "running"
  /\ entry' = "stopping"
  /\ UNCHANGED <<names, launches, netd, rootGuard, socketFile, app>>

\* Both processes have been waited for.
EntryEnds ==
  /\ entry = "stopping" /\ netd.at = "none" /\ app.at = "none"
  /\ entry' = "ended"
  /\ UNCHANGED <<names, launches, netd, rootGuard, socketFile, app>>

-----------------------------------------------------------------------------
(* run_netd *)

NetdGoes(from, to) ==
  /\ netd.at = from
  /\ netd' = [netd EXCEPT !.at = to]

\* UpstreamEndpoint::resolve_ipv4: the smallest usable address.
Resolve ==
  /\ netd.at = "resolve"
  /\ names \ Unusable # {}
  /\ netd' = [at |-> "unguard", pin |-> Min(names \ Unusable)]
  /\ UNCHANGED <<names, entry, launches, rootGuard, socketFile, app>>

\* prepare_root_network: a table left behind is deleted, then the new one is loaded.
Unguard ==
  /\ NetdGoes("unguard", "guard")
  /\ rootGuard' = NoAddress
  /\ UNCHANGED <<names, entry, launches, socketFile, app>>

Guard ==
  /\ NetdGoes("guard", "unlink")
  /\ rootGuard' = netd.pin
  /\ UNCHANGED <<names, entry, launches, socketFile, app>>

Unlink ==
  /\ NetdGoes("unlink", "bind")
  /\ socketFile' = "none"
  /\ UNCHANGED <<names, entry, launches, rootGuard, app>>

Bind ==
  /\ NetdGoes("bind", "serve")
  /\ socketFile' = "live"
  /\ UNCHANGED <<names, entry, launches, rootGuard, app>>

\* A shutdown signal: no more requests are accepted, the workers are stopped.
NetdDrains ==
  /\ NetdGoes("serve", "drain")
  /\ socketFile' = "dead"
  /\ UNCHANGED <<names, entry, launches, rootGuard, app>>

\* The workers are gone; the firewall is removed, or a failure is logged.
NetdUnguards ==
  /\ NetdGoes("drain", "unguarded")
  /\ rootGuard' \in {rootGuard, NoAddress}
  /\ UNCHANGED <<names, entry, launches, socketFile, app>>

\* The socket is removed, or a failure is logged, and the process ends.
NetdEnds ==
  /\ netd.at = "unguarded"
  /\ netd' = Gone
  /\ socketFile' \in {"dead", "none"}
  /\ UNCHANGED <<names, entry, launches, rootGuard, app>>

\* Any step fails, or the process is killed: everything is left as it is.
NetdDies ==
  /\ netd.at # "none"
  /\ netd' = Gone
  /\ socketFile' = IF socketFile = "live" THEN "dead" ELSE socketFile
  /\ UNCHANGED <<names, entry, launches, rootGuard, app>>

-----------------------------------------------------------------------------
(* run_control_plane *)

\* Mutant: the control plane looks the name up itself.
Ping_Resolves ==
  /\ app.at = "ping" /\ netd.at = "serve" /\ names \ Unusable # {}
  /\ app' = [at |-> "open", pin |-> Min(names \ Unusable)]
  /\ UNCHANGED <<names, entry, launches, netd, rootGuard, socketFile>>

\* The pinned address of the netd that answers.
Ping ==
  /\ app.at = "ping" /\ netd.at \in {"serve", "drain"}
  /\ app' = [at |-> "open", pin |-> netd.pin]
  /\ UNCHANGED <<names, entry, launches, netd, rootGuard, socketFile>>

\* The database is opened, the policy loaded, the listeners started.
AppServes ==
  /\ app.at = "open"
  /\ app' = [app EXCEPT !.at = "serve"]
  /\ UNCHANGED <<names, entry, launches, netd, rootGuard, socketFile>>

\* No answer, any step fails, a listener ends, a signal, or the process is killed.
AppEnds ==
  /\ app.at # "none"
  /\ app' = Gone
  /\ UNCHANGED <<names, entry, launches, netd, rootGuard, socketFile>>

Next ==
  \/ NamesChange
  \/ \E fresh \in BOOLEAN : Launch(fresh)
  \/ SocketSeen \/ WaitFails \/ EntryStops \/ EntryEnds
  \/ Resolve \/ Unguard \/ Guard \/ Unlink \/ Bind \/ NetdDrains \/ NetdUnguards \/ NetdEnds
  \/ NetdDies
  \/ Ping \/ AppServes \/ AppEnds

Spec == Init /\ [][Next]_vars

-----------------------------------------------------------------------------
(* Properties *)

\* From the moment the control plane has an address, the root firewall lets
\* exactly that one through, netd uses no other, and it never changes while
\* the control plane lives, however the name resolves later (README.md:63: it
\* is resolved once and pinned).  The one exception is the firewall that an
\* orderly end of netd removes while the control plane is still being stopped.
OneUpstreamAddress ==
  app.at \in {"open", "serve"} =>
    /\ app.pin \notin Unusable \union {NoAddress}
    /\ netd.at # "none" => netd.pin = app.pin
    /\ rootGuard = app.pin \/ (rootGuard = NoAddress /\ netd.at \in {"unguarded", "none"})
=============================================================================
