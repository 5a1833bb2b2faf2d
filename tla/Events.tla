------------------------------- MODULE Events -------------------------------
(***************************************************************************)
(* What clients of the Web API see of the state: GET /status, which reads  *)
(* field after field, and the stream of events that tells them to look     *)
(* again (src/api/mod.rs, src/service.rs).  The connection actor and the   *)
(* upstream monitor write the fields one by one and announce the change    *)
(* last.  The broadcast channel keeps a limited number of events: a slow   *)
(* subscriber skips the oldest and gets a "resync" in their place.         *)
(*                                                                         *)
(* A client subscribes, then loads the status, and loads it again for      *)
(* every event and every resync it gets, one load at a time.               *)
(***************************************************************************)
EXTENDS Naturals, Sequences, FiniteSets

CONSTANTS
  Client,
  Capacity,   \* of the broadcast channel, 256
  MaxEvents   \* bound on events

VARIABLES
  field,      \* connection_state, active_worker (set or not) and upstream_state
  todo,       \* writes that each writer still has to do, in order
  sent,       \* events sent so far
  client      \* where each client is

vars == <<field, todo, sent, client>>

Writer == {"actor", "monitor"}

Set(f, v) == [op |-> "set", field |-> f, value |-> v]
Emit      == [op |-> "emit", field |-> "connection", value |-> "disconnected"]
Halt      == [op |-> "halt", field |-> "connection", value |-> "disconnected"]

\* A client that has not subscribed has next = 0.
NewClient == [next |-> 0, stale |-> FALSE, loading |-> << >>, view |-> << >>]

Init ==
  /\ field = [connection |-> "disconnected", proxy |-> "none", upstream |-> "checking"]
  /\ todo = [w \in Writer |-> << >>]
  /\ sent = 0
  /\ client = [c \in Client |-> NewClient]

-----------------------------------------------------------------------------
(* Writers *)

\* Mutant: the change is announced before the gateway is switched.
ActorChanges_Early ==
  {<<Set("connection", "connecting"), Emit>>,
   <<Set("connection", "connected"), Emit, Set("proxy", "set")>>,
   <<Set("proxy", "none"), Set("connection", "disconnected"), Emit>>}

\* The stretches of the connection actor between two awaits: a switch begins,
\* succeeds, fails with and without a worker in use; the worker is lost or
\* the client disconnects.
ActorChanges ==
  {<<Set("connection", "connecting"), Emit>>,
   <<Set("proxy", "set"), Set("connection", "connected"), Emit>>,
   <<Set("connection", "connected"), Emit>>,
   <<Set("connection", "failed"), Emit>>,
   <<Set("proxy", "none"), Set("connection", "failed"), Emit>>,
   <<Set("proxy", "none"), Set("connection", "disconnected"), Emit>>}

\* In the order of the actor: an attempt ends, then a new one may begin.
ActorMay(change) ==
  LET result == change[Len(change) - 1].value
  IN IF field["connection"] = "connecting"
     THEN \/ result = "connected" /\ (change[1].field = "proxy" \/ field["proxy"] = "set")
          \/ result = "failed" /\ change[1].field = "connection" /\ field["proxy"] = "none"
     ELSE \/ result = "connecting"
          \/ result = "failed" /\ change[1].field = "proxy" /\ field["proxy"] = "set"
          \/ result = "disconnected"

ActorBegins ==
  /\ todo["actor"] = << >> /\ sent < MaxEvents
  /\ \E change \in ActorChanges :
       ActorMay(change) /\ todo' = [todo EXCEPT !["actor"] = change]
  /\ UNCHANGED <<field, sent, client>>

\* The shutdown is seen at the top of the loop: the gateway loses its worker,
\* which is not announced, and the actor is gone.
ActorEnds ==
  /\ todo["actor"] = << >> /\ field["connection"] # "connecting"
  /\ todo' = [todo EXCEPT !["actor"] = <<Set("proxy", "none"), Halt>>]
  /\ UNCHANGED <<field, sent, client>>

\* probe_upstream: what the endpoint answers to the greeting and to the
\* credentials, which are sent if there are any and it asks for them.
Answer == {"refused", "timeout", "otherVersion", "noMethod", "none", "password", "unknownMethod"}

ProbeResult(answer, credentials, accepted) ==
  CASE answer = "none" -> "ready"
    [] answer = "noMethod" -> "authenticationFailed"
    [] answer = "password" -> IF credentials /\ accepted THEN "ready" ELSE "authenticationFailed"
    [] OTHER -> "unreachable"

\* upstream_monitor: only a different outcome is written and announced.
MonitorProbes ==
  /\ todo["monitor"] = << >> /\ sent < MaxEvents
  /\ \E answer \in Answer, credentials, accepted \in BOOLEAN :
       LET next == ProbeResult(answer, credentials, accepted)
       IN /\ next # field["upstream"]
          /\ todo' = [todo EXCEPT !["monitor"] = <<Set("upstream", next), Emit>>]
  /\ UNCHANGED <<field, sent, client>>

\* The next write or event of a writer, on its own thread.
Write(w) ==
  /\ todo[w] \notin {<< >>, <<Halt>>}
  /\ LET op == Head(todo[w])
     IN IF op.op = "set" THEN field' = [field EXCEPT ![op.field] = op.value] /\ UNCHANGED sent
                         ELSE sent' = sent + 1 /\ UNCHANGED field
  /\ todo' = [todo EXCEPT ![w] = Tail(@)]
  /\ UNCHANGED client

-----------------------------------------------------------------------------
(* Clients *)

\* GET /events: events sent from now on.
Subscribe(c) ==
  /\ client[c].next = 0
  /\ client' = [client EXCEPT ![c].next = sent + 1, ![c].stale = TRUE]
  /\ UNCHANGED <<field, todo, sent>>

\* The next event, or a resync when it is no longer kept.
Receive(c) ==
  /\ client[c].next \in 1 .. sent
  /\ client' = [client EXCEPT
       ![c].next = IF sent - Capacity + 1 > @ THEN sent - Capacity + 1 ELSE @ + 1,
       ![c].stale = TRUE]
  /\ UNCHANGED <<field, todo, sent>>

\* status() reads the upstream state, which it replaces when netd does not
\* answer its ping, then the connection, then the gateway.
ReadOrder == <<"upstream", "connection", "proxy">>

BeginLoad(c, ping) ==
  /\ client[c].stale /\ client[c].loading = << >>
  /\ client' = [client EXCEPT
       ![c].stale = FALSE,
       ![c].loading = <<IF ping THEN field[ReadOrder[1]] ELSE "netdUnavailable">>]
  /\ UNCHANGED <<field, todo, sent>>

ReadField(c) ==
  LET n == Len(client[c].loading)
  IN /\ n \in 1 .. 2
     /\ client' = [client EXCEPT ![c].loading = Append(@, field[ReadOrder[n + 1]])]
     /\ UNCHANGED <<field, todo, sent>>

EndLoad(c) ==
  /\ Len(client[c].loading) = 3
  /\ client' = [client EXCEPT ![c].view = client[c].loading, ![c].loading = << >>]
  /\ UNCHANGED <<field, todo, sent>>

Next ==
  \/ ActorBegins \/ ActorEnds \/ MonitorProbes
  \/ \E w \in Writer : Write(w)
  \/ \E c \in Client : Subscribe(c) \/ Receive(c) \/ ReadField(c) \/ EndLoad(c)
  \/ \E c \in Client, ping \in BOOLEAN : BeginLoad(c, ping)

Spec == Init /\ [][Next]_vars

-----------------------------------------------------------------------------
(* Properties *)

\* A client that has taken every event and has nothing left to load shows the
\* state as it is, unless a writer is in the middle of a change it will still
\* announce: no change is announced before it can be read, and skipped events
\* lose nothing.  A ping that failed during the load is not announced when netd
\* answers again, nor that the actor has ended and the gateway is closed, so
\* these parts of the view may stay behind.
ViewIsCurrent ==
  \A c \in Client :
    /\ client[c].next = sent + 1 /\ ~ client[c].stale /\ client[c].loading = << >>
    /\ \A w \in Writer : todo[w] \in {<< >>, <<Halt>>}
    => \A i \in 1 .. 3 :
         \/ client[c].view[i] = field[ReadOrder[i]]
         \/ i = 1 /\ client[c].view[i] = "netdUnavailable"
         \/ i = 3 /\ todo["actor"] = <<Halt>>
=============================================================================
