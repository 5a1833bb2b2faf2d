-------------------------- MODULE ConnectionActor --------------------------
(***************************************************************************)
(* The connection actor of the control plane (src/service.rs): one task    *)
(* that owns the active connection, publishes the relay the SOCKS gateway  *)
(* uses, switches make-before-break, watches the tunnel, and follows the   *)
(* automatic connection policy.  Around it: API callers, the refresh loop, *)
(* finished tests, the drain tasks of replaced workers, and netd seen      *)
(* through a client whose requests can be lost or time out.                *)
(*                                                                         *)
(* Nodes are numbered in the order in which select_node prefers them.      *)
(* Instants are abstracted to "not yet" and "due".                         *)
(***************************************************************************)
EXTENDS Integers, Sequences, FiniteSets

CONSTANTS
  Node,     \* nodes, a set of positive numbers: the smaller the better
  Worker,   \* worker ids; an id is reused once nothing refers to it
  NoWorker,
  Client,   \* concurrent callers of connect and disconnect
  Policy,   \* values of auto_connect.enabled that are ever set
  Writer    \* who changes what an attempt reads: "refresh", "test" or both

ASSUME NodeAssumption == Node \subseteq Nat \ {0}
ASSUME PolicyAssumption == Policy \subseteq BOOLEAN
ASSUME WriterAssumption == Writer \subseteq {"refresh", "test"}
ASSUME WorkerAssumption == NoWorker \notin Worker

VARIABLES
  enabled,     \* auto_connect.enabled
  changed,     \* the actor has an unseen value of auto_connect
  trigger,     \* a token is in the auto_connect_trigger channel
  avail,       \* nodes of the snapshot that are Available
  suitable,    \* nodes whose region and stored test satisfy the policy
  untold,      \* kinds of writers of avail or suitable that have yet to trigger
  call,        \* the API call each client is in
  queue,       \* connection_commands
  pc,          \* where the actor is
  job,         \* locals of the handler in progress
  loaded,      \* tests read by the attempt in progress
  active,      \* the actor's ActiveConnection
  failures,    \* keys of auto_failures
  retry,       \* auto_retry_at: "none", after a "delay", at the end of a "cooldown"
  relay,       \* the published worker socket, active_worker
  conn,        \* connection_state
  draining,    \* replaced workers whose drain task sleeps
  wstate,      \* each worker as netd knows it
  released,    \* history: a disconnect was answered and nothing since asked
               \* for a connection
  missed       \* history: what an enabled policy was not told of since the
               \* last attempt began: the outcome of a "command" that cleared
               \* the retry time, the list of a "refresh" that was dropped

inputVars  == <<avail, suitable, untold>>
policyVars == <<enabled, changed, trigger>>
callVars   == <<call, queue, released, missed>>
actorVars  == <<pc, job, loaded, failures, retry>>
viewVars   == <<active, relay, conn>>
netdVars   == <<draining, wstate>>
vars       == <<inputVars, policyVars, callVars, actorVars, viewVars, netdVars>>

NoNode   == 0
NoActive == [worker |-> NoWorker, node |-> NoNode]
NoJob    == [why |-> "none", node |-> NoNode, worker |-> NoWorker]
NoCall   == [op |-> "none", node |-> NoNode, clean |-> FALSE, at |-> "idle"]

Conn(kind, node, worker) == [kind |-> kind, node |-> node, worker |-> worker]
Best(nodes) == CHOOSE n \in nodes : \A m \in nodes : n <= m

\* Workers netd has in its map.
Present == {w \in Worker : wstate[w] = "up"}
\* Workers the control plane still refers to.
Referred == draining \union {active.worker, job.worker}
Fresh == {w \in Worker : wstate[w] = "absent"} \ Referred

Init ==
  /\ enabled \in Policy
  /\ changed = FALSE /\ trigger = FALSE
  /\ avail = {} /\ suitable \in SUBSET Node /\ untold = {}
  /\ call = [c \in Client |-> NoCall]
  /\ queue = <<>>
  /\ pc = "select" /\ job = NoJob /\ loaded = {}
  /\ active = NoActive
  /\ failures = {} /\ retry = "none"
  /\ relay = NoWorker
  /\ conn = Conn("disconnected", NoNode, NoWorker)
  /\ draining = {}
  /\ wstate = [w \in Worker |-> "absent"]
  /\ released = FALSE /\ missed = {}

-----------------------------------------------------------------------------
(* netd as its client sees it: a stop that fails is only logged. *)

StopWorker(w) ==
  \/ wstate' = [wstate EXCEPT ![w] = IF @ = "up" THEN "absent" ELSE @]
  \/ UNCHANGED wstate

NetdStarts(w, outcome) ==
  /\ wstate[w] = "starting"
  /\ wstate' = [wstate EXCEPT ![w] = outcome]
  /\ UNCHANGED <<draining, inputVars, policyVars, callVars, actorVars, viewVars>>

-----------------------------------------------------------------------------
(* API calls *)

\* Mutant: the policy is left enabled.
BeginCall_KeepsPolicy(c, op, node) ==
  /\ call[c].at = "idle"
  /\ op = "connect" => node \in avail
  /\ enabled' = enabled
  /\ changed' = changed
  /\ call' = [d \in Client |->
       IF d = c
       THEN [op |-> op, node |-> node, at |-> "disabled",
             clean |-> op = "disconnect" /\ \A e \in Client : call[e].op # "connect"]
       ELSE IF op = "connect" THEN [call[d] EXCEPT !.clean = FALSE] ELSE call[d]]
  /\ released' = (released /\ op # "connect")
  /\ UNCHANGED <<trigger, queue, missed, inputVars, actorVars, viewVars, netdVars>>

\* connect and disconnect disable the policy first; connect has checked that
\* the node is available.
BeginCall(c, op, node) ==
  /\ call[c].at = "idle"
  /\ op = "connect" => node \in avail
  /\ enabled' = FALSE
  /\ changed' = (changed \/ enabled)
  /\ call' = [d \in Client |->
       IF d = c
       THEN [op |-> op, node |-> node, at |-> "disabled",
             clean |-> op = "disconnect" /\ \A e \in Client : call[e].op # "connect"]
       ELSE IF op = "connect" THEN [call[d] EXCEPT !.clean = FALSE] ELSE call[d]]
  /\ released' = (released /\ op # "connect")
  /\ UNCHANGED <<trigger, queue, missed, inputVars, actorVars, viewVars, netdVars>>

\* The channel is closed once the actor has returned.
SendCommand(c) ==
  /\ call[c].at = "disabled"
  /\ IF pc = "done"
     THEN call' = [call EXCEPT ![c] = NoCall] /\ UNCHANGED queue
     ELSE /\ call' = [call EXCEPT ![c].at = "queued"]
          /\ queue' = Append(queue, c)
  /\ UNCHANGED <<released, missed, inputVars, policyVars, actorVars, viewVars, netdVars>>

\* set_auto_connect_config, once the store has accepted the new policy, which
\* may also ask for other regions and IP traits.
SetPolicy(enable, matching) ==
  /\ enabled' = enable
  /\ suitable' = matching
  /\ changed' = TRUE
  /\ trigger' = TRUE
  /\ released' = (released /\ ~enable)
  /\ call' = IF enable THEN [c \in Client |-> [call[c] EXCEPT !.clean = FALSE]]
                       ELSE call
  /\ UNCHANGED <<queue, missed, avail, untold, actorVars, viewVars, netdVars>>

\* The oneshot response of the command being handled.
Answer == call' = [c \in Client |-> IF call[c].at = "serving" THEN NoCall ELSE call[c]]

-----------------------------------------------------------------------------
(* Writers of what an attempt reads: each one triggers after its write,     *)
(* unless it is dropped in between.                                         *)

Miss(what) == missed' = IF enabled THEN missed \union {what} ELSE missed

\* The refreshing flag keeps a second refresh out until the first has ended.
RefreshNodes(nodes) ==
  /\ "refresh" \in Writer \ untold
  /\ avail' = nodes
  /\ untold' = untold \union {"refresh"}
  /\ UNCHANGED <<suitable, policyVars, callVars, actorVars, viewVars, netdVars>>

FinishTest(n, satisfies) ==
  /\ "test" \in Writer
  /\ suitable' = IF satisfies THEN suitable \union {n} ELSE suitable \ {n}
  /\ untold' = untold \union {"test"}
  /\ UNCHANGED <<avail, policyVars, callVars, actorVars, viewVars, netdVars>>

\* Tests run in parallel: others may have written and not triggered yet.
TriggerAutoConnect(who) ==
  /\ who \in untold
  /\ untold' \in {untold \ {who}} \union IF who = "test" THEN {untold} ELSE {}
  /\ trigger' = TRUE
  /\ UNCHANGED <<avail, suitable, enabled, changed, callVars, actorVars, viewVars,
                 netdVars>>

\* The caller of the API goes away between the write of the list and the
\* trigger: the refresh is dropped at one of its awaits with its handler.
RefreshDropped ==
  /\ "refresh" \in untold
  /\ untold' = untold \ {"refresh"}
  /\ Miss("refresh")
  /\ UNCHANGED <<avail, suitable, call, queue, released, policyVars, actorVars,
                 viewVars, netdVars>>

-----------------------------------------------------------------------------
(* attempt_auto_connect *)

\* Mutant: failures are never forgotten.
BeginAttempt_NeverCools(kept) ==
  /\ missed' = {}
  /\ IF enabled
     THEN pc' = "load" /\ failures' = failures /\ UNCHANGED retry
     ELSE pc' = "select" /\ failures' = {} /\ retry' = "none"

\* Entered from a select! branch; kept are the failures still cooling down.
BeginAttempt(kept) ==
  /\ missed' = {}
  /\ IF enabled
     THEN pc' = "load" /\ failures' = kept /\ UNCHANGED retry
     ELSE pc' = "select" /\ failures' = {} /\ retry' = "none"

\* The earliest cooldown is over when the retry that waited for it fires.
RetryFires ==
  /\ pc = "select"
  /\ retry # "none"
  /\ \E kept \in SUBSET failures :
       /\ retry = "cooldown" => kept # failures
       /\ BeginAttempt(kept)
  /\ UNCHANGED <<job, loaded, inputVars, policyVars, call, queue, released, viewVars,
                 netdVars>>

PolicyChanged ==
  /\ pc = "select"
  /\ changed
  /\ changed' = FALSE
  /\ BeginAttempt({})
  /\ UNCHANGED <<job, loaded, enabled, trigger, inputVars, call, queue, released, viewVars, netdVars>>

Triggered ==
  /\ pc = "select"
  /\ trigger
  /\ trigger' = FALSE
  /\ \E kept \in SUBSET failures : BeginAttempt(kept)
  /\ UNCHANGED <<job, loaded, enabled, changed, inputVars, call, queue, released, viewVars, netdVars>>

\* The policy was read when the attempt began: if it was replaced since, the
\* nodes that match are those of the old one.
LoadTests ==
  /\ pc = "load"
  /\ pc' = "choose"
  /\ loaded' \in IF changed THEN SUBSET Node ELSE {suitable}
  /\ UNCHANGED <<job, failures, retry, inputVars, policyVars, callVars, viewVars,
                 netdVars>>

\* Mutant: a store error schedules no retry.
LoadFails_NoRetry ==
  /\ pc = "load"
  /\ pc' = "select"
  /\ retry' = "none"
  /\ UNCHANGED <<job, loaded, failures, inputVars, policyVars, callVars, viewVars,
                 netdVars>>

LoadFails ==
  /\ pc = "load"
  /\ pc' = "select"
  /\ retry' = "delay"
  /\ UNCHANGED <<job, loaded, failures, inputVars, policyVars, callVars, viewVars,
                 netdVars>>

EarliestCooldown == IF failures = {} THEN "none" ELSE "cooldown"

Matching == avail \intersect loaded
Candidates == Matching \ failures

ChooseNode ==
  /\ pc = "choose"
  /\ loaded' = {}
  /\ IF Candidates = {} \/ Best(Candidates) = active.node
     THEN /\ pc' = "select"
          /\ retry' = IF Matching = {} THEN "none" ELSE EarliestCooldown
          /\ UNCHANGED job
     ELSE /\ pc' = "lookup"
          /\ job' = [NoJob EXCEPT !.why = "auto", !.node = Best(Candidates)]
          /\ UNCHANGED retry
  /\ UNCHANGED <<failures, inputVars, policyVars, callVars, viewVars, netdVars>>

-----------------------------------------------------------------------------
(* switch_connection, and what its callers do with the result *)

\* A manual command forgets the automatic state whatever the result.
AfterManual ==
  /\ retry' = "none"
  /\ failures' = {}
  /\ Miss("command")
  /\ Answer

FinishOk ==
  /\ pc' = "select"
  /\ job' = NoJob
  /\ \/ /\ job.why = "auto"
        /\ retry' = EarliestCooldown
        /\ UNCHANGED <<failures, call, missed>>
     \/ job.why = "manual" /\ AfterManual

FinishErr ==
  /\ pc' = "select"
  /\ job' = NoJob
  /\ \/ /\ job.why = "auto"
        /\ failures' = failures \union {job.node}
        /\ retry' = "delay"
        /\ UNCHANGED <<call, missed>>
     \/ job.why = "manual" /\ AfterManual

\* A command for the node in use is answered from the current connection.
AlreadyActive ==
  /\ pc = "lookup"
  /\ job.node = active.node
  /\ FinishOk
  /\ UNCHANGED <<loaded, queue, released, inputVars, policyVars, viewVars, netdVars>>

NodeGone ==
  /\ pc = "lookup"
  /\ job.node # active.node
  /\ job.node \notin avail
  /\ FinishErr
  /\ UNCHANGED <<loaded, queue, released, inputVars, policyVars, viewVars, netdVars>>

\* A fresh worker id; the request is delivered ("starting") or lost ("absent").
RequestStart(w, fate) ==
  /\ pc = "lookup"
  /\ job.node # active.node
  /\ job.node \in avail
  /\ w \in Fresh
  /\ pc' = "await"
  /\ job' = [job EXCEPT !.worker = w]
  /\ conn' = Conn("connecting", job.node, w)
  /\ wstate' = [wstate EXCEPT ![w] = fate]
  /\ UNCHANGED <<loaded, failures, retry, active, relay, draining, inputVars,
                 policyVars, callVars>>

\* Mutant: a failed switch is reported as a lost connection.
Fallback_Failed ==
  conn' = Conn("failed", job.node, NoWorker)

Fallback ==
  conn' = IF active = NoActive THEN Conn("failed", job.node, NoWorker)
          ELSE Conn("connected", active.node, active.worker)

\* Every id of the model is in use: netd answers capacityExhausted.
StartRefused ==
  /\ pc = "lookup"
  /\ job.node # active.node
  /\ job.node \in avail
  /\ Fresh = {}
  /\ Fallback
  /\ FinishErr
  /\ UNCHANGED <<loaded, queue, released, active, relay, inputVars, policyVars, netdVars>>

\* Mutant: the new worker is drained.
Replaced_New == {job.worker}
Replaced == {active.worker} \ {NoWorker}

\* Mutant: the worker is published before netd has answered.
StartSucceeds_Unanswered ==
  /\ pc = "await"
  /\ wstate[job.worker] # "absent"
  /\ relay' = job.worker
  /\ conn' = Conn("connected", job.node, job.worker)
  /\ active' = [worker |-> job.worker, node |-> job.node]
  /\ draining' = draining \union Replaced
  /\ FinishOk
  /\ UNCHANGED <<loaded, queue, released, wstate, inputVars, policyVars>>

\* netd answered WorkerStarted: the relay is replaced and the old worker is
\* left to its drain task.
StartSucceeds ==
  /\ pc = "await"
  /\ job.worker \in Present
  /\ relay' = job.worker
  /\ conn' = Conn("connected", job.node, job.worker)
  /\ active' = [worker |-> job.worker, node |-> job.node]
  /\ draining' = draining \union Replaced
  /\ FinishOk
  /\ UNCHANGED <<loaded, queue, released, wstate, inputVars, policyVars>>

\* netd refused, or the client gave up: the worker may still come up later.
StartFails ==
  /\ pc = "await"
  /\ Fallback
  /\ FinishErr
  /\ UNCHANGED <<loaded, queue, released, active, relay, inputVars, policyVars, netdVars>>

\* Sleeps OLD_WORKER_DRAIN, then stops the worker.
DrainElapses(w) ==
  /\ w \in draining
  /\ draining' = draining \ {w}
  /\ StopWorker(w)
  /\ UNCHANGED <<inputVars, policyVars, callVars, actorVars, viewVars>>

-----------------------------------------------------------------------------
(* The other branches of the actor's select! *)

\* worker_ready answered false or did not answer in time.  A check that
\* answers true changes nothing.
HealthCheckFails ==
  /\ pc = "select"
  /\ active # NoActive
  /\ pc' = "bury"
  /\ job' = [NoJob EXCEPT !.worker = active.worker]
  /\ failures' = failures \union {active.node}
  /\ active' = NoActive
  /\ relay' = NoWorker
  /\ conn' = Conn("failed", active.node, NoWorker)
  /\ UNCHANGED <<loaded, retry, inputVars, policyVars, callVars, netdVars>>

\* stop_worker returns, then the policy decides about a retry.
BuryWorker ==
  /\ pc = "bury"
  /\ pc' = "select"
  /\ job' = NoJob
  /\ StopWorker(job.worker)
  /\ retry' = IF enabled THEN "delay" ELSE retry
  /\ UNCHANGED <<loaded, failures, draining, inputVars, policyVars, callVars,
                 viewVars>>

TakeCommand(op) ==
  /\ pc = "select"
  /\ queue # <<>>
  /\ call[Head(queue)].op = op
  /\ queue' = Tail(queue)
  /\ call' = [call EXCEPT ![Head(queue)].at = "serving"]

TakeConnect ==
  /\ TakeCommand("connect")
  /\ pc' = "lookup"
  /\ job' = [NoJob EXCEPT !.why = "manual", !.node = call[Head(queue)].node]
  /\ UNCHANGED <<released, missed, loaded, failures, retry, inputVars, policyVars,
                 viewVars, netdVars>>

TakeDisconnect ==
  /\ TakeCommand("disconnect")
  /\ pc' = "close"
  /\ job' = [NoJob EXCEPT !.worker = active.worker]
  /\ retry' = "none"
  /\ failures' = {}
  /\ active' = NoActive
  /\ relay' = NoWorker
  /\ conn' = Conn("disconnected", NoNode, NoWorker)
  /\ UNCHANGED <<released, missed, loaded, inputVars, policyVars, netdVars>>

\* stop_worker returns and the caller is answered, whatever it returned.
CloseWorker ==
  /\ pc = "close"
  /\ pc' = "select"
  /\ job' = NoJob
  /\ IF job.worker = NoWorker THEN UNCHANGED wstate ELSE StopWorker(job.worker)
  /\ released' = \E c \in Client : call[c].at = "serving" /\ call[c].clean
  /\ Miss("command")
  /\ Answer
  /\ UNCHANGED <<queue, loaded, failures, retry, draining, inputVars,
                 policyVars, viewVars>>

\* Mutant: the command receiver outlives the loop.
Quit_KeepsReceiver ==
  /\ pc = "select"
  /\ pc' = "done"
  /\ IF active = NoActive THEN UNCHANGED wstate ELSE StopWorker(active.worker)
  /\ active' = NoActive
  /\ relay' = NoWorker
  /\ failures' = {}
  /\ retry' = "none"
  /\ UNCHANGED <<call, queue, released, missed, job, loaded, conn, draining,
                 inputVars, policyVars>>

\* The token may be cancelled at any time, and the loop breaks; dropping the receiver fails every caller.
Quit ==
  /\ pc = "select"
  /\ pc' = "done"
  /\ IF active = NoActive THEN UNCHANGED wstate ELSE StopWorker(active.worker)
  /\ active' = NoActive
  /\ relay' = NoWorker
  /\ failures' = {}
  /\ retry' = "none"
  /\ queue' = <<>>
  /\ call' = [c \in Client |-> NoCall]
  /\ UNCHANGED <<released, missed, job, loaded, conn, draining,
                 inputVars, policyVars>>

-----------------------------------------------------------------------------
(* Specification *)

\* Steps inside a handler, after its select! branch was taken.
Handler ==
  \/ LoadTests \/ LoadFails \/ ChooseNode
  \/ AlreadyActive \/ NodeGone \/ StartRefused
  \/ \E w \in Worker, fate \in {"starting", "absent"} : RequestStart(w, fate)
  \/ StartSucceeds \/ StartFails \/ BuryWorker \/ CloseWorker

Select ==
  \/ RetryFires \/ PolicyChanged \/ Triggered \/ HealthCheckFails
  \/ TakeConnect \/ TakeDisconnect \/ Quit

Environment ==
  \/ \E c \in Client : SendCommand(c)
  \/ \E c \in Client, n \in Node : BeginCall(c, "connect", n)
  \/ \E c \in Client : BeginCall(c, "disconnect", NoNode)
  \/ \E enable \in Policy, matching \in SUBSET Node : SetPolicy(enable, matching)
  \/ \E nodes \in SUBSET Node : RefreshNodes(nodes)
  \/ \E n \in Node, satisfies \in BOOLEAN : FinishTest(n, satisfies)
  \/ \E who \in Writer : TriggerAutoConnect(who)
  \/ RefreshDropped
  \/ \E w \in draining : DrainElapses(w)
  \/ \E w \in Worker, outcome \in {"up", "absent"} : NetdStarts(w, outcome)

Next == Handler \/ Select \/ Environment

Spec == Init /\ [][Next]_vars

\* Handlers run to their end: netd's answers are awaited with a timeout, and the
\* store's operations are taken to end.  select! picks among its ready
\* branches at random, hence strong fairness.
Fairness ==
  /\ WF_vars(Handler)
  /\ SF_vars(TakeConnect \/ TakeDisconnect)
  /\ \A c \in Client : WF_vars(SendCommand(c))

\* An attempt finds the cooldown of n over.
CoolsDown(n) == (RetryFires \/ Triggered) /\ n \in failures \ failures'

\* What the actor's own code and its timers provide for an automatic
\* connection: some ready branch for it is taken in the end, cooldowns end, and
\* a writer that goes on triggers.  Nothing says that there is a writer: no
\* refresh need ever succeed and no test need ever finish.  The
\* surroundings are not always against it: the store is sometimes read, and of
\* infinitely many starts some reach netd, come up and are answered in time.
AutoFairness ==
  /\ WF_vars(Handler)
  /\ SF_vars(RetryFires \/ PolicyChanged \/ Triggered)
  /\ \A n \in Node : SF_vars(CoolsDown(n))
  /\ WF_vars(TriggerAutoConnect("test"))
  /\ WF_vars(TriggerAutoConnect("refresh") \/ RefreshDropped)
  /\ SF_vars(LoadTests)
  /\ SF_vars(\E w \in Worker : RequestStart(w, "starting"))
  /\ SF_vars(pc = "await" /\ \E w \in {job.worker} \intersect Worker : NetdStarts(w, "up"))
  /\ SF_vars(StartSucceeds)

FairSpec == Spec /\ Fairness
AutoFairSpec == Spec /\ AutoFairness

-----------------------------------------------------------------------------
(* Properties *)

WorkerOrNone == Worker \union {NoWorker}
NodeOrNone == Node \union {NoNode}

TypeOK ==
  /\ enabled \in BOOLEAN /\ changed \in BOOLEAN /\ trigger \in BOOLEAN
  /\ avail \subseteq Node /\ suitable \subseteq Node
  /\ untold \subseteq Writer
  /\ call \in [Client -> [op : {"none", "connect", "disconnect"}, node : NodeOrNone,
                          clean : BOOLEAN, at : {"idle", "disabled", "queued", "serving"}]]
  /\ queue \in Seq(Client)
  /\ released \in BOOLEAN /\ missed \subseteq {"command", "refresh"}
  /\ pc \in {"select", "load", "choose", "lookup", "await", "bury", "close", "done"}
  /\ job \in [why : {"none", "auto", "manual"}, node : NodeOrNone, worker : WorkerOrNone]
  /\ loaded \subseteq Node
  /\ active \in [worker : WorkerOrNone, node : NodeOrNone]
  /\ failures \subseteq Node
  /\ retry \in {"none", "delay", "cooldown"}
  /\ relay \in WorkerOrNone
  /\ conn \in [kind : {"disconnected", "connecting", "connected", "failed"},
               node : NodeOrNone, worker : WorkerOrNone]
  /\ draining \subseteq Worker
  /\ wstate \in [Worker -> {"absent", "starting", "up"}]

\* What the UI is told agrees with what the gateway may use, through failed
\* switches, fallbacks and broken tunnels: "connected" names the very worker
\* that is published, "disconnected" and "failed" mean the exit is closed, and
\* "connecting" lasts only while a start is awaited.
StateMatchesRelay ==
  /\ relay = active.worker
  /\ pc # "done" =>
       CASE conn.kind = "connected" -> conn.worker = relay /\ conn.node = active.node
                                       /\ relay # NoWorker
         [] conn.kind = "connecting" -> pc = "await" /\ conn.worker = job.worker
         [] OTHER -> relay = NoWorker

\* The worker behind the published relay is never stopped under it: netd still
\* has it, and no drain task of an earlier switch will stop it.
RelayWorkerKept ==
  relay # NoWorker => relay \in Present /\ relay \notin draining

ActorRelay == INSTANCE Relay WITH present <- Present

\* The actor, with all its failures, late answers and drain tasks, keeps the
\* promise that the SOCKS gateway is checked against.
ImplementsRelay == ActorRelay!Spec

\* An explicit disconnect stays in force: once it is answered the automatic
\* policy does not reconnect until somebody asks for a connection or enables
\* the policy again.
DisconnectHolds == released => active = NoActive /\ pc \notin {"lookup", "await"}

\* No lost wakeup: if the policy is enabled, a matching node exists and there
\* is no connection, the idle actor has a reason to wake, or a writer is about
\* to give it one.  The code has two exceptions, which last until the next
\* attempt begins: a command that was handled under an enabled policy cleared
\* the retry time, or the refresh that brought the node was dropped before its
\* trigger.
NoLostWakeup ==
  /\ pc = "select" /\ enabled /\ active = NoActive
  /\ avail \intersect suitable # {}
  => changed \/ trigger \/ retry # "none" \/ untold # {} \/ missed # {}

\* Every connect and disconnect call is answered.
CallsAnswered == \A c \in Client : call[c].at # "idle" ~> call[c].at = "idle"

\* From the time on when the policy stays as it is and enabled, one node keeps
\* matching, netd has room for a start, no commands come in and no refresh is
\* dropped, a lost tunnel is always replaced, even if no list and no test ever
\* comes again: the actor's own timers bring it out of every cooldown, backoff
\* and failed read.
AutoReconnects ==
  (\E n \in Node :
     <>[](/\ enabled /\ ~changed /\ pc # "done"
          /\ pc = "lookup" => Fresh # {}
          /\ n \in avail \intersect suitable
          /\ missed = {}
          /\ \A c \in Client : call[c].at = "idle"))
    => []<>(active # NoActive)

\* The doc of disconnect (service.rs:382): it "stops its worker".
DisconnectStopsWorker ==
  [][pc = "close" /\ pc' = "select" => job.worker \notin Present']_vars
=============================================================================
