------------------------------ MODULE Gateway ------------------------------
(***************************************************************************)
(* The SOCKS data path (src/socks.rs): the user-facing gateway, and the    *)
(* SOCKS endpoint that netd runs inside the namespace of each worker.  A   *)
(* session reads the published relay once and uses it later, while the     *)
(* connection actor (module Relay) switches, withdraws and stops workers,  *)
(* tunnels break and endpoints die.                                        *)
(*                                                                         *)
(* Time is counted in ticks of 15 seconds; a task whose deadline has come  *)
(* acts before time goes on.                                               *)
(***************************************************************************)
EXTENDS Integers, FiniteSets

CONSTANTS
  Worker,          \* worker ids, never used twice
  NoWorker,
  Session,         \* client connections
  GatewayPermits,  \* size of run_gateway's semaphore
  WorkerPermits    \* size of run_worker's semaphore

HandshakeTimeout == 1   \* HANDSHAKE_TIMEOUT, 15 s
ConnectTimeout   == 1   \* CONNECT_TIMEOUT, 15 s
\* Mutant: the drain is no longer than a connection attempt.
OldWorkerDrain_Short == 1
OldWorkerDrain   == 2   \* OLD_WORKER_DRAIN, 30 s

VARIABLES
  relay, present, draining,  \* see Relay
  drain,     \* ticks each drain task still sleeps
  retired,   \* workers that were published and no longer are
  serving,   \* workers whose SOCKS endpoint runs
  tun,       \* workers whose tun0 routes cover the public addresses
  gw,        \* the gateway's task for each session
  wk         \* the worker endpoint's task for each session

relayVars == <<relay, present, draining, drain, retired>>
workVars  == <<serving, tun>>
vars      == <<relayVars, workVars, gw, wk>>

R == INSTANCE Relay

\* A name, the address of the upstream proxy, or any other address.
Target == {"name", "upstream", "other"}

NoTask == [at |-> "free", via |-> NoWorker, wait |-> 0, late |-> {}]
\* tunnel: history, the tunnel was up when the endpoint took the session.
NoLink == [at |-> "none", on |-> NoWorker, wait |-> 0, target |-> "none",
           route |-> "none", tunnel |-> FALSE]

Init ==
  /\ R!Init
  /\ drain = [w \in Worker |-> 0]
  /\ retired = {} /\ serving = {} /\ tun = {}
  /\ gw = [s \in Session |-> NoTask]
  /\ wk = [s \in Session |-> NoLink]

-----------------------------------------------------------------------------
(* The gateway's task *)

Task(s, at, via, wait) == [gw[s] EXCEPT !.at = at, !.via = via, !.wait = wait]
Holding == {s \in Session : gw[s].at # "free"}
\* The stages before the stream is bridged, each under a timeout of its own.
Handshaking == {"greet", "request", "connect"}

\* Without a permit the connection is closed at once.  After the shutdown
\* nothing is accepted, and the tasks that run go on.
Accept(s) ==
  /\ gw[s] = NoTask /\ wk[s] = NoLink
  /\ Cardinality(Holding) < GatewayPermits
  /\ gw' = [gw EXCEPT ![s] = [NoTask EXCEPT !.at = "greet", !.wait = HandshakeTimeout,
                                            !.late = retired]]
  /\ UNCHANGED <<relayVars, workVars, wk>>

\* The task returns.  The endpoint's task notices at its next read or write.
Closed(s) ==
  /\ gw' = [gw EXCEPT ![s] = NoTask]
  /\ wk' = [wk EXCEPT ![s] = IF @.at = "closed" THEN NoLink ELSE @]

\* negotiate_method: method and credentials are accepted, or the task ends.
Negotiate(s, accepted) ==
  /\ gw[s].at = "greet"
  /\ IF accepted
     THEN gw' = [gw EXCEPT ![s] = Task(s, "request", NoWorker, HandshakeTimeout)] /\ UNCHANGED wk
     ELSE Closed(s)
  /\ UNCHANGED <<relayVars, workVars>>

\* read_request or validate_target refuses: a reply, then the end.
Refuse(s) ==
  /\ gw[s].at = "request"
  /\ Closed(s)
  /\ UNCHANGED <<relayVars, workVars>>

Borrow == relay

\* A valid request: the relay is read, once.
Request(s) ==
  /\ gw[s].at = "request"
  /\ IF Borrow = NoWorker
     THEN Closed(s)
     ELSE gw' = [gw EXCEPT ![s] = Task(s, "connect", Borrow, ConnectTimeout)] /\ UNCHANGED wk
  /\ UNCHANGED <<relayVars, workVars>>

Linked(w) == {s \in Session : wk[s].on = w}

\* connect_worker reaches the socket and the endpoint has a permit, or not.
ConnectWorker(s, target) ==
  /\ gw[s].at = "connect" /\ wk[s] = NoLink
  /\ IF gw[s].via \in serving /\ Cardinality(Linked(gw[s].via)) < WorkerPermits
     THEN /\ wk' = [wk EXCEPT ![s] = [at |-> "asked", on |-> gw[s].via, target |-> target,
                                      wait |-> 2 * HandshakeTimeout, route |-> "none",
                                      tunnel |-> gw[s].via \in tun]]
          /\ UNCHANGED gw
     ELSE Closed(s)
  /\ UNCHANGED <<relayVars, workVars>>

\* Mutant: the client is told of success once the endpoint has the request.
Establish_Early(s, told) ==
  /\ gw[s].at = "connect" /\ wk[s].at = "asked"
  /\ gw' = [gw EXCEPT ![s] = Task(s, "forward", gw[s].via, 0)]
  /\ UNCHANGED <<relayVars, workVars, wk>>

\* The endpoint replied with success, and the client is told so if it is still
\* there.
Establish(s, told) ==
  /\ gw[s].at = "connect" /\ wk[s].at = "up"
  /\ IF told
     THEN /\ gw' = [gw EXCEPT ![s] = Task(s, "forward", gw[s].via, 0)]
          /\ UNCHANGED wk
     ELSE Closed(s)
  /\ UNCHANGED <<relayVars, workVars>>

\* The endpoint refused or died: general failure, or the end of the copy.
WorkerLost(s) ==
  /\ gw[s].at \in {"connect", "forward"} /\ wk[s].at = "closed"
  /\ Closed(s)
  /\ UNCHANGED <<relayVars, workVars>>

TimedOut(s) == gw[s].at \in Handshaking /\ gw[s].wait = 0

GatewayTimesOut(s) ==
  /\ TimedOut(s)
  /\ Closed(s)
  /\ UNCHANGED <<relayVars, workVars>>

-----------------------------------------------------------------------------
(* The endpoint's task, inside the worker's namespace *)

Link(s, at, wait) == [wk EXCEPT ![s] = [@ EXCEPT !.at = at, !.wait = wait]]
\* The stream is closed; the gateway reads that if it is still there.
Hangup(s) ==
  wk' = [wk EXCEPT ![s] = IF gw[s].at \in {"connect", "forward"}
                          THEN [NoLink EXCEPT !.at = "closed"] ELSE NoLink]

\* Mutant: the endpoint runs without --require-tun.
Serve_AnyRoute(s) ==
  /\ wk[s].at = "asked"
  /\ IF gw[s].at = "connect"
     THEN wk' = Link(s, "resolve", ConnectTimeout)
     ELSE Hangup(s)
  /\ UNCHANGED <<relayVars, workVars, gw>>

\* The gateway's request is read, and the routes are looked at before
\* anything is resolved.  A gateway that left is seen as the end of the stream.
Serve(s) ==
  /\ wk[s].at = "asked"
  /\ IF gw[s].at = "connect" /\ wk[s].on \in tun
     THEN wk' = Link(s, "resolve", ConnectTimeout)
     ELSE Hangup(s)
  /\ UNCHANGED <<relayVars, workVars, gw>>

\* An address needs no query.  A name does, and DNS servers are reached through
\* the tunnel only; its address may turn out to be the upstream's.
Resolve(s, found) ==
  /\ wk[s].at = "resolve"
  /\ \/ /\ wk[s].target # "name" /\ found = wk[s].target
        /\ wk' = Link(s, "dial", ConnectTimeout)
     \/ /\ wk[s].target = "name" /\ found # "name" /\ wk[s].on \in tun
        /\ wk' = [Link(s, "dial", ConnectTimeout) EXCEPT ![s].target = found]
     \/ wk[s].target = "name" /\ found = "name" /\ Hangup(s)
  /\ UNCHANGED <<relayVars, workVars, gw>>

Route(w) == IF w \in tun THEN "tun" ELSE "veth"

\* Output chain of worker_guard_script.
GuardAccepts(route, target) == route = "tun" \/ target = "upstream"

Dial(s, ok) ==
  /\ wk[s].at = "dial"
  /\ ok => GuardAccepts(Route(wk[s].on), wk[s].target)
  /\ IF ok
     THEN wk' = [wk EXCEPT ![s] = [@ EXCEPT !.at = "up", !.wait = 0,
                                            !.route = Route(wk[s].on)]]
     ELSE Hangup(s)
  /\ UNCHANGED <<relayVars, workVars, gw>>

WorkerTimesOut(s) ==
  /\ wk[s].at \in {"asked", "resolve", "dial"} /\ wk[s].wait = 0
  /\ Hangup(s)
  /\ UNCHANGED <<relayVars, workVars, gw>>

\* copy_bidirectional returns on both sides: both directions ended, or one failed.
CopyEnds(s) ==
  /\ wk[s].at = "up" /\ gw[s].at # "connect"
  /\ wk' = [wk EXCEPT ![s] = NoLink]
  /\ gw' = IF gw[s].at = "forward" THEN [gw EXCEPT ![s] = NoTask] ELSE gw
  /\ UNCHANGED <<relayVars, workVars>>

-----------------------------------------------------------------------------
(* The actor and netd, as Relay promises them, and what fails by itself *)

\* Endpoints that end take their tasks with them.
Ended(gone) ==
  /\ serving' = serving \ gone
  /\ wk' = [s \in Session |->
       CASE wk[s].on \notin gone -> wk[s]
         [] gw[s].at \in {"connect", "forward"} -> [NoLink EXCEPT !.at = "closed"]
         [] OTHER -> NoLink]

\* netd answers only when the routes are there and the socket accepts.
WorkerArrives(w) ==
  /\ w \notin retired
  /\ R!Arrive(w)
  /\ serving' = serving \union {w} /\ tun' = tun \union {w}
  /\ UNCHANGED <<drain, retired, gw, wk>>

Switch(w) ==
  /\ w \notin retired
  /\ R!Publish(w)
  /\ drain' = [v \in Worker |-> IF v = relay THEN OldWorkerDrain ELSE drain[v]]
  /\ retired' = retired \union ({relay} \ {NoWorker})
  /\ UNCHANGED <<workVars, gw, wk>>

Withdraw(gone) ==
  /\ R!Withdraw(gone)
  /\ retired' = retired \union {relay}
  /\ Ended(gone)
  /\ tun' = tun \ gone
  /\ UNCHANGED <<drain, gw>>

StopUnused(w) ==
  /\ R!StopUnused(w)
  /\ Ended({w})
  /\ tun' = tun \ {w}
  /\ UNCHANGED <<drain, retired, gw>>

DrainEnds(w, gone) ==
  /\ drain[w] = 0
  /\ R!DrainEnds(w, gone)
  /\ Ended(gone)
  /\ tun' = tun \ gone
  /\ UNCHANGED <<drain, retired, gw>>

TunnelDrops(w) ==
  /\ w \in tun
  /\ tun' = tun \ {w}
  /\ UNCHANGED <<relayVars, serving, gw, wk>>

EndpointDies(w) ==
  /\ w \in serving
  /\ Ended({w})
  /\ UNCHANGED <<relayVars, tun, gw>>

Tick ==
  /\ \A s \in Session : ~TimedOut(s)
  /\ \A s \in Session : wk[s].at \in {"asked", "resolve", "dial"} => wk[s].wait > 0
  /\ \E s \in Session : gw[s] # NoTask \/ wk[s] # NoLink
     \/ \E w \in Worker : drain[w] > 0
  /\ drain' = [w \in Worker |-> IF drain[w] > 0 THEN drain[w] - 1 ELSE 0]
  /\ gw' = [s \in Session |->
       IF gw[s].at \in Handshaking
       THEN [gw[s] EXCEPT !.wait = IF @ > 0 THEN @ - 1 ELSE 0] ELSE gw[s]]
  /\ wk' = [s \in Session |-> [wk[s] EXCEPT !.wait = IF @ > 0 THEN @ - 1 ELSE 0]]
  /\ UNCHANGED <<relay, present, draining, retired, workVars>>

-----------------------------------------------------------------------------
GatewayStep(s) ==
  \/ Accept(s) \/ Refuse(s) \/ Request(s) \/ WorkerLost(s) \/ GatewayTimesOut(s)
  \/ \E told \in BOOLEAN : Establish(s, told)
  \/ \E accepted \in BOOLEAN : Negotiate(s, accepted)
  \/ \E target \in Target : ConnectWorker(s, target)

EndpointStep(s) ==
  \/ Serve(s) \/ WorkerTimesOut(s) \/ CopyEnds(s)
  \/ \E found \in Target : Resolve(s, found)
  \/ \E ok \in BOOLEAN : Dial(s, ok)

RelayStep ==
  \/ \E w \in Worker : WorkerArrives(w) \/ Switch(w) \/ StopUnused(w)
  \/ \E gone \in SUBSET {relay} : Withdraw(gone)
  \/ \E w \in draining : \E gone \in SUBSET {w} : DrainEnds(w, gone)

Next ==
  \/ \E s \in Session : GatewayStep(s) \/ EndpointStep(s)
  \/ RelayStep
  \/ \E w \in Worker : TunnelDrops(w) \/ EndpointDies(w)
  \/ Tick

Spec == Init /\ [][Next]_vars

-----------------------------------------------------------------------------
(* Properties *)

\* Make before break as a client sees it: a session that read the old relay
\* just before a switch has connected or given up when the drain task stops
\* the old worker, because the drain outlasts the connection attempt.
SwitchSparesConnecting ==
  [][\A s \in Session :
       gw[s].at = "connect" /\ gw[s].via \in draining => gw[s].via \in present']_vars

\* A client is told of success only when the endpoint of the worker that was
\* read for this very session has reached the target, whoever timed out or
\* died in between; and a session never uses a worker that was replaced or
\* withdrawn before the client connected.
SuccessIsReal ==
  \A s \in Session :
    /\ gw[s].at \in {"connect", "forward"} => gw[s].via \notin gw[s].late
    /\ gw[s].at = "forward" /\ wk[s].at # "closed" => wk[s].at = "up" /\ wk[s].on = gw[s].via

\* Two layers keep a connection from leaving beside the tunnel, and each covers
\* what the other cannot: the filter of the namespace lets the upstream proxy
\* through, and the route check is made before the name is resolved and the
\* target is dialled.  Only the upstream is ever reached beside the tunnel, and
\* only if the tunnel broke while this very session was being set up.
NothingBypassesTunnel ==
  \A s \in Session :
    wk[s].at = "up" /\ wk[s].route = "veth" => wk[s].target = "upstream" /\ wk[s].tunnel
=============================================================================
