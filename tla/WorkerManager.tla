--------------------------- MODULE WorkerManager ---------------------------
(***************************************************************************)
(* The privileged helper netd: WorkerManager and the accept loop around    *)
(* it (src/netd/system.rs).                                                *)
(*                                                                         *)
(* Every accepted connection is one task holding one of the 32 client      *)
(* permits and serving one request.  A start request reserves the worker   *)
(* id, leases a network index, builds a directory, a network namespace,    *)
(* an OpenVPN child and a SOCKS child, and registers the worker.  A stop   *)
(* request takes the worker out of the map and dismantles it.  Failed      *)
(* starts and stops share the same cleanup tail, which is also where the   *)
(* guards _reservation and _lease are dropped.                             *)
(***************************************************************************)
EXTENDS Integers, Sequences, FiniteSets

CONSTANTS
  Worker,      \* worker ids that requests may name
  NoWorker,    \* target of a task that serves no request
  Task,        \* client permits: tasks that can run at the same time
  Requests,    \* kinds of requests that arrive
  MaxWorkers,  \* WorkerManager.max_workers
  Exits,       \* which children exit by themselves
  MaxLeaked,   \* bound: namespaces left behind at one time
  MaxIndex,    \* largest usable network index, 16383 in the code
  Wrap         \* modulus of the index counter, 2^16 in the code

ASSUME WorkerAssumption == NoWorker \notin Worker
ASSUME RequestAssumption == Requests \subseteq {"start", "stop", "status"}
ASSUME ExitAssumption == Exits \subseteq {"openvpn", "socks", "killed"}
ASSUME BoundAssumption ==
  /\ MaxWorkers \in Nat /\ MaxIndex \in Nat /\ Wrap \in Nat
  /\ MaxIndex + 1 < Wrap
ASSUME PoolAssumption ==
  /\ IsFiniteSet(Worker) /\ IsFiniteSet(Task)
  /\ Cardinality(Worker) + Cardinality(Task) <= MaxIndex

VARIABLES
  shutdown,   \* the cancellation token
  server,     \* where run_netd is
  doomed,     \* index of each worker that stop_all has drained, 0 if none
  pc,         \* where each task is
  target,     \* worker id of each task's request
  reserved,   \* does the task hold a WorkerReservation?
  seen,       \* workers.len() as read by the task in reserve
  lease,      \* index of the NetworkAllocation owned by the task, 0 if none
  workers,    \* index of each registered worker, 0 if it is not in the map
  starting,   \* ids being started
  free,       \* free_networks, a stack
  next,       \* next_network
  netns,      \* indices whose namespace and veth pair exist
  leaked,     \* indices whose deletion failed and was only logged
  dirs,       \* worker ids whose runtime directory exists
  openvpn,    \* indices with an OpenVPN child that runs and was not killed
  socks,      \* indices with a SOCKS child that runs and was not killed
  lingering   \* indices in whose named namespace a killed child still runs

serverVars == <<shutdown, server, doomed>>
taskVars   == <<pc, target, reserved, seen, lease>>
mapVars    == <<workers, starting>>
poolVars   == <<free, next>>
childVars  == <<openvpn, socks, lingering>>
kernelVars == <<netns, leaked, dirs, childVars>>
vars       == <<serverVars, taskVars, mapVars, poolVars, kernelVars>>

Server == {"serve", "join", "drain", "exited", "failed"}
StartSteps == {"start", "count", "admit", "allocate", "mkdir", "files",
               "network", "spawn", "tunnel", "routes", "socks", "listen", "insert"}
CleanupSteps == {"kill", "rmnet", "rmdir", "release"}
Step == StartSteps \union CleanupSteps \union {"idle", "stop", "status", "return"}

Registered == {w \in Worker : workers[w] # 0}

Init ==
  /\ shutdown = FALSE
  /\ server = "serve"
  /\ doomed = [w \in Worker |-> 0]
  /\ pc = [t \in Task |-> "idle"]
  /\ target = [t \in Task |-> NoWorker]
  /\ reserved = [t \in Task |-> FALSE]
  /\ seen = [t \in Task |-> 0]
  /\ lease = [t \in Task |-> 0]
  /\ workers = [w \in Worker |-> 0]
  /\ starting = {}
  /\ free = <<>>
  /\ next = 1
  /\ netns = {}
  /\ leaked = {}
  /\ dirs = {}
  /\ openvpn = {}
  /\ socks = {}
  /\ lingering = {}

-----------------------------------------------------------------------------
(* Requests *)

Goto(t, step) == pc' = [pc EXCEPT ![t] = step]

\* The accept loop spawns a task for a request while a permit is free; beyond
\* the limit the connection is dropped, which changes nothing here.  select!
\* may still accept after the token is cancelled.
Accept(t, w, request) ==
  /\ server = "serve"
  /\ pc[t] = "idle"
  /\ Goto(t, request)
  /\ target' = [target EXCEPT ![t] = w]
  /\ UNCHANGED <<reserved, seen, lease, serverVars, mapVars, poolVars, kernelVars>>

-----------------------------------------------------------------------------
(* start: reservation *)

\* Mutant: the reservation guard is built before the duplicate test.
BeginStart_GuardFirst(t) ==
  /\ pc[t] = "start"
  /\ IF shutdown \/ target[t] \in starting
     THEN Goto(t, "return") /\ UNCHANGED starting
     ELSE Goto(t, "count") /\ starting' = starting \union {target[t]}
  /\ reserved' = [reserved EXCEPT ![t] = TRUE]
  /\ UNCHANGED <<target, seen, lease, workers, serverVars, poolVars, kernelVars>>

BeginStart(t) ==
  /\ pc[t] = "start"
  /\ IF shutdown \/ target[t] \in starting
     THEN /\ Goto(t, "return")
          /\ UNCHANGED <<starting, reserved>>
     ELSE /\ Goto(t, "count")
          /\ starting' = starting \union {target[t]}
          /\ reserved' = [reserved EXCEPT ![t] = TRUE]
  /\ UNCHANGED <<target, seen, lease, workers, serverVars, poolVars, kernelVars>>

\* Mutant: stop keeps the lock of the map while the worker is dismantled.
CountRunning_Locked(t) ==
  /\ pc[t] = "count"
  /\ \A u \in Task : pc[u] # "rmnet"
  /\ IF workers[target[t]] # 0
     THEN Goto(t, "return") /\ UNCHANGED seen
     ELSE /\ Goto(t, "admit")
          /\ seen' = [seen EXCEPT ![t] = Cardinality(Registered)]
  /\ UNCHANGED <<target, reserved, lease, serverVars, mapVars, poolVars, kernelVars>>

\* First half of the capacity check: workers is read and its lock released.
CountRunning(t) ==
  /\ pc[t] = "count"
  /\ IF workers[target[t]] # 0
     THEN Goto(t, "return") /\ UNCHANGED seen
     ELSE /\ Goto(t, "admit")
          /\ seen' = [seen EXCEPT ![t] = Cardinality(Registered)]
  /\ UNCHANGED <<target, reserved, lease, serverVars, mapVars, poolVars, kernelVars>>

\* Second half: starting is read under its own lock, some time later.
Admit(t) ==
  /\ pc[t] = "admit"
  /\ Goto(t, IF seen[t] + Cardinality(starting) > MaxWorkers
             THEN "return" ELSE "allocate")
  /\ UNCHANGED <<target, reserved, seen, lease, serverVars, mapVars, poolVars,
                 kernelVars>>

-----------------------------------------------------------------------------
(* start: resources *)

\* Mutant: the free stack is read with last() instead of pop().
TakeIndex_Peek(t) ==
  LET index == IF free = <<>> THEN next ELSE free[Len(free)] IN
  /\ next' = IF free = <<>> THEN next + 1 ELSE next
  /\ lease' = [lease EXCEPT ![t] = index]
  /\ Goto(t, "mkdir")
  /\ UNCHANGED free

\* pop() on the free stack, or fetch_add on the counter when it is empty.  An
\* index out of range is refused before a lease exists, so nothing returns it.
TakeIndex(t) ==
  LET fresh == free = <<>>
      index == IF fresh THEN next ELSE free[Len(free)]
  IN  /\ IF fresh
         THEN next' = (next + 1) % Wrap /\ UNCHANGED free
         ELSE free' = SubSeq(free, 1, Len(free) - 1) /\ UNCHANGED next
      /\ IF index = 0 \/ index > MaxIndex
         THEN Goto(t, "return") /\ UNCHANGED lease
         ELSE Goto(t, "mkdir") /\ lease' = [lease EXCEPT ![t] = index]

\* The remote address and the profile are validated before the allocation.
Allocate(t) ==
  /\ pc[t] = "allocate"
  /\ \/ Goto(t, "return") /\ UNCHANGED <<lease, poolVars>>
     \/ TakeIndex(t)
  /\ UNCHANGED <<target, reserved, seen, serverVars, mapVars, kernelVars>>

\* Mutant: a directory that already exists is removed like any other failure.
MakeDirectory_AlwaysClean(t) ==
  /\ pc[t] = "mkdir"
  /\ \/ Goto(t, "rmdir") /\ UNCHANGED dirs
     \/ /\ target[t] \notin dirs
        /\ Goto(t, "files")
        /\ dirs' = dirs \union {target[t]}
  /\ UNCHANGED <<target, reserved, seen, lease, netns, leaked, childVars,
                 serverVars, mapVars, poolVars>>

MakeDirectory(t) ==
  /\ pc[t] = "mkdir"
  /\ \/ Goto(t, "release") /\ UNCHANGED dirs
     \/ /\ target[t] \notin dirs
        /\ Goto(t, "files")
        /\ dirs' = dirs \union {target[t]}
  /\ UNCHANGED <<target, reserved, seen, lease, netns, leaked, childVars,
                 serverVars, mapVars, poolVars>>

\* file_setup, then ensure_running.
WriteFiles(t) ==
  /\ pc[t] = "files"
  /\ \/ Goto(t, "rmdir")
     \/ ~shutdown /\ Goto(t, "network")
  /\ UNCHANGED <<target, reserved, seen, lease, serverVars, mapVars, poolVars,
                 kernelVars>>

\* `ip netns add` fails when the namespace exists; any later command may fail
\* and leave it behind.
PrepareNetwork(t) ==
  LET index == lease[t] IN
  /\ pc[t] = "network"
  /\ \/ Goto(t, "rmnet") /\ netns' \in {netns, netns \union {index}}
     \/ /\ index \notin netns
        /\ Goto(t, "spawn")
        /\ netns' = netns \union {index}
  /\ UNCHANGED <<target, reserved, seen, lease, leaked, dirs, childVars,
                 serverVars, mapVars, poolVars>>

SpawnOpenVpn(t) ==
  /\ pc[t] = "spawn"
  /\ \/ Goto(t, "rmnet") /\ UNCHANGED openvpn
     \/ /\ ~shutdown
        /\ Goto(t, "tunnel")
        /\ openvpn' = openvpn \union {lease[t]}
  /\ UNCHANGED <<target, reserved, seen, lease, netns, leaked, dirs, socks,
                 lingering, serverVars, mapVars, poolVars>>

\* Mutant: a tunnel that does not come up is cleaned without stop_child.
AwaitTunnel_NoKill(t) ==
  /\ pc[t] = "tunnel"
  /\ \/ Goto(t, "rmnet")
     \/ lease[t] \in openvpn /\ Goto(t, "routes")
  /\ UNCHANGED <<target, reserved, seen, lease, serverVars, mapVars, poolVars,
                 kernelVars>>

\* Mutant: the wait for the tunnel ignores its deadline and the token.
AwaitTunnel_NoDeadline(t) ==
  /\ pc[t] = "tunnel"
  /\ lease[t] \in openvpn
  /\ Goto(t, "routes")
  /\ UNCHANGED <<target, reserved, seen, lease, serverVars, mapVars, poolVars,
                 kernelVars>>

\* wait_for_openvpn gives up on exit of the child, at its deadline, and on
\* shutdown.
AwaitTunnel(t) ==
  /\ pc[t] = "tunnel"
  /\ \/ Goto(t, "kill")
     \/ lease[t] \in openvpn /\ Goto(t, "routes")
  /\ UNCHANGED <<target, reserved, seen, lease, serverVars, mapVars, poolVars,
                 kernelVars>>

\* wait_for_tunnel_routes gives up on the same three occasions, but looks at
\* its deadline and at the token only between two runs of `ip route`.
AwaitRoutes(t) ==
  /\ pc[t] = "routes"
  /\ \/ Goto(t, "kill")
     \/ lease[t] \in openvpn /\ Goto(t, "socks")
  /\ UNCHANGED <<target, reserved, seen, lease, serverVars, mapVars, poolVars,
                 kernelVars>>

SpawnSocks(t) ==
  /\ pc[t] = "socks"
  /\ \/ Goto(t, "kill") /\ UNCHANGED socks
     \/ Goto(t, "listen") /\ socks' = socks \union {lease[t]}
  /\ UNCHANGED <<target, reserved, seen, lease, netns, leaked, dirs, openvpn,
                 lingering, serverVars, mapVars, poolVars>>

\* wait_for_socket, then ensure_running.
AwaitSocket(t) ==
  /\ pc[t] = "listen"
  /\ \/ Goto(t, "kill")
     \/ ~shutdown /\ lease[t] \in socks /\ Goto(t, "insert")
  /\ UNCHANGED <<target, reserved, seen, lease, serverVars, mapVars, poolVars,
                 kernelVars>>

\* The allocation moves into the map; the reservation is dropped on return.
Insert(t) ==
  /\ pc[t] = "insert"
  /\ IF workers[target[t]] # 0
     THEN Goto(t, "kill") /\ UNCHANGED <<workers, lease>>
     ELSE /\ Goto(t, "return")
          /\ workers' = [workers EXCEPT ![target[t]] = lease[t]]
          /\ lease' = [lease EXCEPT ![t] = 0]
  /\ UNCHANGED <<target, reserved, seen, starting, serverVars, poolVars, kernelVars>>

-----------------------------------------------------------------------------
(* stop, and the cleanup shared by stop_process and every failed start *)

\* Mutant: stop does not test whether the id was in the map.
Stop_Unchecked(t) ==
  /\ pc[t] = "stop"
  /\ Goto(t, "kill")
  /\ lease' = [lease EXCEPT ![t] = workers[target[t]]]
  /\ workers' = [workers EXCEPT ![target[t]] = 0]
  /\ UNCHANGED <<target, reserved, seen, starting, serverVars, poolVars, kernelVars>>

Stop(t) ==
  LET w == target[t] IN
  /\ pc[t] = "stop"
  /\ IF workers[w] = 0
     THEN Goto(t, "return") /\ UNCHANGED <<workers, lease>>
     ELSE /\ Goto(t, "kill")
          /\ lease' = [lease EXCEPT ![t] = workers[w]]
          /\ workers' = [workers EXCEPT ![w] = 0]
  /\ UNCHANGED <<target, reserved, seen, starting, serverVars, poolVars, kernelVars>>

\* stop_child sends SIGKILL and waits three seconds; a child that has not died
\* by then is left behind.
Outlived(index) ==
  {lingering, lingering \union ({index} \intersect (openvpn \union socks))}

Kill(t) ==
  /\ pc[t] = "kill"
  /\ Goto(t, "rmnet")
  /\ openvpn' = openvpn \ {lease[t]}
  /\ socks' = socks \ {lease[t]}
  /\ lingering' \in Outlived(lease[t])
  /\ UNCHANGED <<target, reserved, seen, lease, netns, leaked, dirs,
                 serverVars, mapVars, poolVars>>

\* A namespace that cannot be deleted is logged and left behind.  Deleting one
\* takes its name away: a child that still runs in it keeps a namespace nobody
\* can enter, and the next `ip netns add` makes another.
DeleteNetwork(index, dying) ==
  \/ /\ netns' = netns \ {index}
     /\ leaked' = leaked \ {index}
     /\ lingering' = dying \ {index}
  \/ /\ index \in netns
     /\ leaked' = leaked \union {index}
     /\ Cardinality(leaked') <= MaxLeaked
     /\ lingering' = dying
     /\ UNCHANGED netns

CleanupNetwork(t) ==
  /\ pc[t] = "rmnet"
  /\ Goto(t, "rmdir")
  /\ DeleteNetwork(lease[t], lingering)
  /\ UNCHANGED <<target, reserved, seen, lease, dirs, openvpn, socks, serverVars,
                 mapVars, poolVars>>

CleanupDirectory(t) ==
  /\ pc[t] = "rmdir"
  /\ Goto(t, "release")
  /\ dirs' \in {dirs, dirs \ {target[t]}}
  /\ UNCHANGED <<target, reserved, seen, lease, netns, leaked, childVars,
                 serverVars, mapVars, poolVars>>

\* Drop for NetworkLease.
ReleaseLease(t) ==
  /\ pc[t] = "release"
  /\ Goto(t, "return")
  /\ free' = Append(free, lease[t])
  /\ lease' = [lease EXCEPT ![t] = 0]
  /\ UNCHANGED <<target, reserved, seen, next, serverVars, mapVars, kernelVars>>

\* is_ready looks the worker up and runs two commands in its namespace; what it
\* finds is only answered.
CheckReady(t) ==
  /\ pc[t] = "status"
  /\ Goto(t, "return")
  /\ UNCHANGED <<target, reserved, seen, lease, serverVars, mapVars, poolVars,
                 kernelVars>>

\* Drop for WorkerReservation, and the end of serve_client.
Return(t) ==
  /\ pc[t] = "return"
  /\ Goto(t, "idle")
  /\ starting' = IF reserved[t] THEN starting \ {target[t]} ELSE starting
  /\ reserved' = [reserved EXCEPT ![t] = FALSE]
  /\ target' = [target EXCEPT ![t] = NoWorker]
  /\ seen' = [seen EXCEPT ![t] = 0]
  /\ UNCHANGED <<lease, workers, serverVars, poolVars, kernelVars>>

\* Steps whose waits, if they have any, end at a deadline.
TimedStep(t) ==
  \/ BeginStart(t) \/ CountRunning(t) \/ Admit(t) \/ Allocate(t)
  \/ MakeDirectory(t) \/ WriteFiles(t) \/ SpawnOpenVpn(t)
  \/ AwaitTunnel(t) \/ SpawnSocks(t) \/ AwaitSocket(t) \/ Insert(t)
  \/ Stop(t) \/ Kill(t) \/ CleanupDirectory(t)
  \/ ReleaseLease(t) \/ Return(t)

\* Steps that end when ip, nft or nsenter does: run_command and its kin wait
\* for the exit of the command without a deadline, and not for the token.
CommandStep(t) ==
  PrepareNetwork(t) \/ AwaitRoutes(t) \/ CleanupNetwork(t) \/ CheckReady(t)

TaskStep(t) == TimedStep(t) \/ CommandStep(t)

-----------------------------------------------------------------------------
(* run_netd *)

\* The loop notices the token and drops the listener.
StopListening ==
  /\ server = "serve"
  /\ shutdown
  /\ server' = "join"
  /\ UNCHANGED <<shutdown, doomed, taskVars, mapVars, poolVars, kernelVars>>

\* Mutant: stop_all runs before the client tasks have been joined.
BeginStopAll_NoJoin ==
  /\ server = "join"
  /\ server' = "drain"
  /\ doomed' = workers
  /\ workers' = [w \in Worker |-> 0]
  /\ UNCHANGED <<shutdown, starting, taskVars, poolVars, kernelVars>>

\* client_tasks is joined to the end before stop_all drains the map.
BeginStopAll ==
  /\ server = "join"
  /\ \A t \in Task : pc[t] = "idle"
  /\ server' = "drain"
  /\ doomed' = workers
  /\ workers' = [w \in Worker |-> 0]
  /\ UNCHANGED <<shutdown, starting, taskVars, poolVars, kernelVars>>

\* One iteration of stop_all: stop_process runs with no other task left.
StopOne(w) ==
  LET index == doomed[w] IN
  /\ server = "drain"
  /\ index # 0
  /\ doomed' = [doomed EXCEPT ![w] = 0]
  /\ openvpn' = openvpn \ {index}
  /\ socks' = socks \ {index}
  /\ \E dying \in Outlived(index) : DeleteNetwork(index, dying)
  /\ dirs' \in {dirs, dirs \ {w}}
  /\ free' = Append(free, index)
  /\ UNCHANGED <<shutdown, server, next, taskVars, mapVars>>

\* Removes the root nftables guard and the socket, and returns.
Exit ==
  /\ server = "drain"
  /\ \A w \in Worker : doomed[w] = 0
  /\ server' = "exited"
  /\ UNCHANGED <<shutdown, doomed, taskVars, mapVars, poolVars, kernelVars>>

\* accept() fails and `?` leaves run_netd at once: the join set aborts its
\* tasks, the manager is dropped with the map and the pool, and kill_on_drop
\* kills the children without waiting for them.
AcceptFails ==
  /\ server = "serve"
  /\ server' = "failed"
  /\ pc' = [t \in Task |-> "idle"]
  /\ target' = [t \in Task |-> NoWorker]
  /\ reserved' = [t \in Task |-> FALSE]
  /\ seen' = [t \in Task |-> 0]
  /\ lease' = [t \in Task |-> 0]
  /\ workers' = [w \in Worker |-> 0]
  /\ starting' = {}
  /\ free' = <<>>
  /\ next' = 1
  /\ openvpn' = {}
  /\ socks' = {}
  /\ lingering' = lingering \union openvpn \union socks
  /\ UNCHANGED <<shutdown, doomed, netns, leaked, dirs>>

\* stop_all and the removal of the nftables guard run commands like the tasks.
ServerCommand == (\E w \in Worker : StopOne(w)) \/ Exit

ServerStep == StopListening \/ BeginStopAll \/ ServerCommand

-----------------------------------------------------------------------------
(* Environment *)

CancelToken ==
  /\ ~shutdown
  /\ shutdown' = TRUE
  /\ UNCHANGED <<server, doomed, taskVars, mapVars, poolVars, kernelVars>>

OpenVpnExits(index) ==
  /\ "openvpn" \in Exits
  /\ openvpn' = openvpn \ {index}
  /\ UNCHANGED <<serverVars, taskVars, mapVars, poolVars, netns, leaked, dirs,
                 socks, lingering>>

SocksExits(index) ==
  /\ "socks" \in Exits
  /\ socks' = socks \ {index}
  /\ UNCHANGED <<serverVars, taskVars, mapVars, poolVars, netns, leaked, dirs,
                 openvpn, lingering>>

\* A killed child dies after all.
ChildDies(index) ==
  /\ "killed" \in Exits
  /\ lingering' = lingering \ {index}
  /\ UNCHANGED <<serverVars, taskVars, mapVars, poolVars, netns, leaked, dirs,
                 openvpn, socks>>

Next ==
  \/ \E t \in Task, w \in Worker, request \in Requests : Accept(t, w, request)
  \/ \E t \in Task : TaskStep(t)
  \/ ServerStep
  \/ AcceptFails
  \/ CancelToken
  \/ \E index \in openvpn : OpenVpnExits(index)
  \/ \E index \in socks : SocksExits(index)
  \/ \E index \in lingering : ChildDies(index)

\* Tasks and the accept loop are scheduled by tokio.  Commands are not fair:
\* one may hang for ever.  Neither are requests, crashes and the cancellation.
Fairness ==
  /\ \A t \in Task : WF_vars(TimedStep(t))
  /\ WF_vars(StopListening \/ BeginStopAll)

Spec == Init /\ [][Next]_vars
FairSpec == Spec /\ Fairness

-----------------------------------------------------------------------------
(* Properties *)

Index == 1 .. MaxIndex

TypeOK ==
  /\ shutdown \in BOOLEAN
  /\ server \in Server
  /\ doomed \in [Worker -> 0 .. MaxIndex]
  /\ pc \in [Task -> Step]
  /\ target \in [Task -> Worker \union {NoWorker}]
  /\ reserved \in [Task -> BOOLEAN]
  /\ seen \in [Task -> Nat]
  /\ lease \in [Task -> 0 .. MaxIndex]
  /\ workers \in [Worker -> 0 .. MaxIndex]
  /\ starting \subseteq Worker
  /\ free \in Seq(Index)
  /\ next \in 1 .. MaxIndex + 1
  /\ netns \subseteq Index
  /\ leaked \subseteq Index
  /\ dirs \subseteq Worker
  /\ openvpn \subseteq Index
  /\ socks \subseteq Index
  /\ lingering \subseteq Index

\* No two tasks or workers hold the same index.
OneHolder ==
  /\ \A t \in Task, w \in Worker :
       lease[t] # 0 => lease[t] # workers[w] /\ lease[t] # doomed[w]
  /\ \A t, u \in Task : lease[t] = lease[u] /\ lease[t] # 0 => t = u
  /\ \A v, w \in Worker :
       /\ workers[v] # 0 => workers[v] # doomed[w]
       /\ workers[v] = workers[w] /\ workers[v] # 0 => v = w
       /\ doomed[v] = doomed[w] /\ doomed[v] # 0 => v = w
  /\ \A w \in Worker : workers[w] # 0 => doomed[w] = 0

\* An index is on the free stack at most once, and only if nobody holds it.
FreeUnheld ==
  \A i \in 1 .. Len(free) :
    /\ \A j \in 1 .. Len(free) : free[i] = free[j] => i = j
    /\ \A t \in Task : lease[t] # free[i]
    /\ \A w \in Worker : workers[w] # free[i] /\ doomed[w] # free[i]

HasHolder(i) ==
  \/ \E t \in Task : lease[t] = i
  \/ \E w \in Worker : workers[w] = i \/ doomed[w] = i
  \/ \E k \in 1 .. Len(free) : free[k] = i

\* Every index ever taken from the counter is held or free.
NoneLost == \A i \in 1 .. next - 1 : HasHolder(i)

\* Nothing beyond the counter is in use.
BelowCounter ==
  /\ \A t \in Task : lease[t] < next
  /\ \A w \in Worker : workers[w] < next /\ doomed[w] < next
  /\ \A k \in 1 .. Len(free) : free[k] < next

\* A network index taken from next_network has exactly one holder for ever:
\* one task, one registered or drained worker, or one place on the free stack.
\* No index is shared by two namespaces and none is lost.
LeaseExclusive == OneHolder /\ FreeUnheld /\ NoneLost /\ BelowCounter

\* A registered worker keeps its namespace and its runtime directory until its
\* own stop: no cleanup of a failed start, of a duplicate start with the same
\* id, or of another worker's stop removes them.  It has that namespace to
\* itself: no child that outlived the kill of an earlier owner of the index is
\* in it, although stop_child does not wait for the death of a child for ever.
WorkerIntact ==
  \A w \in Registered : workers[w] \in netns \ (leaked \union lingering) /\ w \in dirs

\* An index on the free stack is clean: every child of its former owner has been
\* sent SIGKILL, and its namespace, with the children that outlived the three
\* seconds of stop_child, is out of the next owner's reach unless deleting it
\* failed and was logged.
FreeIndexClean ==
  \A k \in 1 .. Len(free) :
    /\ free[k] \notin openvpn \union socks
    /\ free[k] \in netns \union lingering => free[k] \in leaked

\* When run_netd returns after a shutdown, no worker survives, every child has
\* been sent SIGKILL, and the only namespaces left, with or without a child that
\* outlived the kill, are those whose deletion failed, even when a start was in
\* flight when the token was cancelled.
ShutdownLeavesNothing ==
  server = "exited" =>
    /\ Registered = {} /\ starting = {}
    /\ openvpn = {} /\ socks = {}
    /\ netns \union lingering \subseteq leaked

\* The doc of run_netd (system.rs:551): it runs "until shutdown, cleaning
\* every owned worker".  Stated for every way out of the function.
CleansEveryOwnedWorker ==
  server \in {"exited", "failed"} => netns \subseteq leaked

\* Refinement: seen through its reservations and its map alone, the manager is
\* the two-read admission protocol of module Admission.
AdmissionPhase(t) ==
  IF ~reserved[t] THEN "out"
  ELSE IF pc[t] \in {"count", "admit"} THEN pc[t]
  ELSE IF pc[t] \in StartSteps THEN "admitted"
  ELSE "leaving"

Admissions == INSTANCE Admission WITH
  registered <- Registered,
  phase <- [t \in Task |-> AdmissionPhase(t)],
  claim <- [t \in Task |-> IF reserved[t] THEN target[t] ELSE NoWorker],
  seen <- [t \in Task |-> IF pc[t] = "admit" THEN seen[t] ELSE 0]

\* reserve, insert and the Drop of the reservation implement the admission
\* protocol: one start per id, and the limit tested by two separate reads.
ImplementsAdmission == Admissions!Spec

\* Every accepted request whose own commands return ends and gives its permit
\* back.  A command that hangs holds up the request that runs it, for ever and
\* with its permit, but no other request: nothing waits for it under a lock.
RequestsEnd ==
  \A t \in Task : WF_vars(CommandStep(t)) => (pc[t] # "idle" ~> pc[t] = "idle")

\* A cancelled token makes run_netd return, provided that commands return: the
\* join of the client tasks and stop_all wait for them without a deadline.
ShutdownCompletes ==
  (\A t \in Task : WF_vars(CommandStep(t))) /\ WF_vars(ServerCommand)
    => (shutdown ~> server \in {"exited", "failed"})
=============================================================================
