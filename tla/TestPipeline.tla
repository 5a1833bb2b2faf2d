---------------------------- MODULE TestPipeline ----------------------------
(***************************************************************************)
(* IPPure tests of nodes in the control plane: the registry of operations  *)
(* (src/test_registry.rs), the bounded queue with its dispatcher, the      *)
(* tests themselves and the automatic scheduler (src/service.rs), the      *)
(* refresh of the node list that feeds it, and the stored results          *)
(* (src/storage.rs).                                                       *)
(*                                                                         *)
(* Only nodes with a usable profile matter: a node's id is a digest of its *)
(* profile, so an id is usable whenever it is listed, or never.  Nodes are *)
(* numbered in the order in which the scheduler prefers them.              *)
(***************************************************************************)
EXTENDS Integers, Sequences, FiniteSets

CONSTANTS
  Node,           \* usable nodes, positive numbers: the smaller the better
  Op,             \* operation ids; an id is reused once nothing refers to it
  NoOp,
  AnyId,          \* whether a new id is any unused one, or one that stands for all
  QueueCapacity,  \* TEST_QUEUE_CAPACITY
  MaxParallel,    \* config.max_parallel_tests
  HistoryLimit,   \* COMPLETED_OPERATION_HISTORY
  Snapshots,      \* what a download of the list may return
  Asked,          \* nodes whose test the API may ask for
  Events          \* outside events that may happen: "age", "drop", "shutdown",
                  \* "unreadable" (the store cannot be read)

ASSUME NodeAssumption == Node \subseteq Nat \ {0} /\ IsFiniteSet(Node)
ASSUME OpAssumption ==
  /\ NoOp \notin Op /\ IsFiniteSet(Op)
  /\ Cardinality(Op) >= Cardinality(Node) + HistoryLimit + MaxParallel
ASSUME IdAssumption == AnyId \in BOOLEAN
ASSUME LimitAssumption ==
  /\ QueueCapacity \in Nat \ {0} /\ MaxParallel \in Nat \ {0}
  /\ HistoryLimit \in Nat \ {0}
ASSUME OutsideAssumption ==
  /\ Snapshots \subseteq SUBSET Node /\ Asked \subseteq Node
  /\ Events \subseteq {"age", "drop", "shutdown", "unreadable"}

VARIABLES
  listed,      \* usable nodes of the current snapshot
  refresh,     \* where the refresh in progress is
  stale,       \* results cleanup_stale has selected for deletion
  stored,      \* the stored result of each node: none, fresh, or found to be old
  pending,     \* registry: pending_by_node
  operation,   \* registry: operations
  observed,    \* registry: observed_nodes
  older,       \* pairs of operations: the record of the first has the smaller tested_at
  queue,       \* the test_queue channel
  dispatcher,  \* "open", or "closed" after the shutdown
  job,         \* the job of each operation
  queued,      \* the queued_tests counter
  running,     \* the running_tests counter
  trigger,     \* a token is in the automatic_test_trigger channel
  scheduler,   \* where the automatic scheduler is
  tested,      \* its local: nodes with a stored result
  seen,        \* its local: the snapshot
  todo         \* its local: candidates still to be enqueued

listVars     == <<listed, refresh, stale>>
registryVars == <<pending, operation, observed, older>>
queueVars    == <<queue, dispatcher, job, queued, running>>
schedVars    == <<scheduler, tested, seen, todo>>
vars == <<listVars, stored, registryVars, queueVars, trigger, schedVars>>

NoNode == 0
NoJob == [at |-> "none", node |-> NoNode]

InQueue   == {"queue", "held", "lost"}
InTest    == {"spawned", "lookup", "measuring", "saving", "completing"}
Live      == InQueue \union InTest
Permitted == InTest \union {"leaving", "permit"}

JobsAt(places) == {o \in Op : job[o].at \in places}
Unused == {o \in JobsAt({"none"}) : operation[o] = "absent"}

\* The ids a new operation may get; they are opaque, so one stands for all.
Fresh == IF AnyId \/ Unused = {} THEN Unused ELSE {CHOOSE o \in Unused : TRUE}

Init ==
  /\ listed = {} /\ refresh = "idle" /\ stale = {}
  /\ stored \in [Node -> {"none", "fresh"}]
  /\ pending = [n \in Node |-> NoOp]
  /\ operation = [o \in Op |-> "absent"]
  /\ observed = {} /\ older = {}
  /\ queue = <<>> /\ dispatcher = "open"
  /\ job = [o \in Op |-> NoJob]
  /\ queued = 0 /\ running = 0
  /\ trigger = FALSE
  /\ scheduler = "wait" /\ tested = {} /\ seen = {} /\ todo = <<>>

-----------------------------------------------------------------------------
(* Enqueueing: one critical section of the registry lock *)

\* try_send fails on a full queue and on a closed one.
Room == dispatcher = "open" /\ Len(queue) < QueueCapacity

\* The operation of a pending test is returned again.  Without room the
\* registration and the counter are rolled back before the lock is released.
EnqueueJob(n) ==
  \/ pending[n] # NoOp /\ UNCHANGED <<pending, operation, queue, job, queued>>
  \/ pending[n] = NoOp /\ ~Room /\ UNCHANGED <<pending, operation, queue, job, queued>>
  \/ /\ pending[n] = NoOp /\ Room
     /\ \E o \in Fresh :
          /\ pending' = [pending EXCEPT ![n] = o]
          /\ operation' = [operation EXCEPT ![o] = "queued"]
          /\ queued' = queued + 1
          /\ job' = [job EXCEPT ![o] = [at |-> "queue", node |-> n]]
          /\ queue' = Append(queue, o)

\* enqueue_test from the API: the node is looked up and registered.
EnqueueTest(n) ==
  /\ n \in Asked \intersect listed
  /\ EnqueueJob(n)
  /\ UNCHANGED <<dispatcher, running, observed, older, listVars, stored, trigger,
                 schedVars>>

-----------------------------------------------------------------------------
(* test_dispatcher *)

Receive ==
  /\ dispatcher = "open"
  /\ queue # <<>>
  /\ JobsAt({"held"}) = {}
  /\ queue' = Tail(queue)
  /\ job' = [job EXCEPT ![Head(queue)].at = "held"]
  /\ UNCHANGED <<dispatcher, queued, running, listVars, stored, registryVars,
                 trigger, schedVars>>

\* Mutant: the permit is not awaited.
Spawn_NoPermit(o) ==
  /\ job[o].at = "held"
  /\ job' = [job EXCEPT ![o].at = "spawned"]
  /\ queued' = queued - 1
  /\ running' = running + 1
  /\ UNCHANGED <<queue, dispatcher, listVars, stored, registryVars, trigger,
                 schedVars>>

\* A permit is free: the counters move and the test's task is spawned.
Spawn(o) ==
  /\ job[o].at = "held"
  /\ Cardinality(JobsAt(Permitted)) < MaxParallel
  /\ job' = [job EXCEPT ![o].at = "spawned"]
  /\ queued' = queued - 1
  /\ running' = running + 1
  /\ UNCHANGED <<queue, dispatcher, listVars, stored, registryVars, trigger,
                 schedVars>>

\* The token is cancelled: the jobs in the channel and in hand are dropped.
DispatcherQuits ==
  /\ "shutdown" \in Events
  /\ dispatcher = "open"
  /\ dispatcher' = "closed"
  /\ queue' = <<>>
  /\ job' = [o \in Op |-> IF job[o].at \in InQueue THEN [job[o] EXCEPT !.at = "lost"]
                          ELSE job[o]]
  /\ UNCHANGED <<queued, running, listVars, stored, registryVars, trigger,
                 schedVars>>

-----------------------------------------------------------------------------
(* run_test *)

\* Mutant: the operation is removed from the pending ones when it starts.
MarkRunning_NotPending(o) ==
  /\ job[o].at = "spawned"
  /\ job' = [job EXCEPT ![o].at = "lookup"]
  /\ operation' = [operation EXCEPT ![o] = "running"]
  /\ pending' = [pending EXCEPT ![job[o].node] = NoOp]
  /\ UNCHANGED <<observed, older, queue, dispatcher, queued, running,
                 listVars, stored, trigger, schedVars>>

MarkRunning(o) ==
  /\ job[o].at = "spawned"
  /\ job' = [job EXCEPT ![o].at = "lookup"]
  /\ operation' = [operation EXCEPT ![o] = "running"]
  /\ UNCHANGED <<pending, observed, older, queue, dispatcher, queued, running,
                 listVars, stored, trigger, schedVars>>

\* The node is looked up again; a start of its worker follows.
FindNode(o) ==
  /\ job[o].at = "lookup"
  /\ job[o].node \in listed
  /\ job' = [job EXCEPT ![o].at = "measuring"]
  /\ UNCHANGED <<queue, dispatcher, queued, running, listVars, stored,
                 registryVars, trigger, schedVars>>

\* Operations whose record, with its tested_at, exists.
Recorded == JobsAt({"saving", "completing"}) \union {o \in Op : operation[o] = "completed"}

\* The record, with its tested_at, is made.
Record(o) ==
  /\ job' = [job EXCEPT ![o].at = "saving"]
  /\ older' = older \union {<<p, o>> : p \in Recorded}
  /\ UNCHANGED <<pending, operation, observed, queue, dispatcher, queued,
                 running, listVars, stored, trigger, schedVars>>

\* The node has left the list: the test fails.
NodeGone(o) ==
  /\ job[o].at = "lookup"
  /\ job[o].node \notin listed
  /\ Record(o)

\* start_worker, fetch_ippure and stop_worker have ended, each either way: the
\* record says whether the test succeeded, which nothing here depends on.
Measure(o) ==
  /\ job[o].at = "measuring"
  /\ Record(o)

\* An error of save_test is only logged.
Save(o) ==
  /\ job[o].at = "saving"
  /\ job' = [job EXCEPT ![o].at = "completing"]
  /\ \/ stored' = [stored EXCEPT ![job[o].node] = "fresh"]
     \/ UNCHANGED stored
  /\ UNCHANGED <<queue, dispatcher, queued, running, listVars, registryVars,
                 trigger, schedVars>>

\* Mutant: the history is pruned before the operation is entered into it.
Excess_BeforeInsert(ops) ==
  {o \in Op : operation[o] = "completed" /\
     Cardinality({p \in Op : operation[p] = "completed" /\ <<o, p>> \in older}) >= HistoryLimit}

\* prune_completed: the completed operations with the oldest records, those
\* that have as many newer ones as the limit allows to stay.
Excess(ops) ==
  {o \in Op : ops[o] = "completed" /\
     Cardinality({p \in Op : ops[p] = "completed" /\ <<o, p>> \in older}) >= HistoryLimit}

\* Mutant: a completed test is not remembered.
Complete_NotObserved(o) ==
  LET n == job[o].node
      ops == [operation EXCEPT ![o] = "completed"]
      pruned == Excess(ops)
  IN  /\ job[o].at = "completing"
      /\ job' = [job EXCEPT ![o].at = "leaving"]
      /\ pending' = [pending EXCEPT ![n] = IF @ = o THEN NoOp ELSE @]
      /\ operation' = [p \in Op |-> IF p \in pruned THEN "absent" ELSE ops[p]]
      /\ older' = older \intersect ((Op \ pruned) \X (Op \ pruned))
      /\ UNCHANGED <<observed, queue, dispatcher, queued, running, listVars, stored,
                     trigger, schedVars>>

Complete(o) ==
  LET n == job[o].node
      ops == [operation EXCEPT ![o] = "completed"]
      pruned == Excess(ops)
  IN  /\ job[o].at = "completing"
      /\ job' = [job EXCEPT ![o].at = "leaving"]
      /\ pending' = [pending EXCEPT ![n] = IF @ = o THEN NoOp ELSE @]
      /\ observed' = observed \union {n}
      /\ operation' = [p \in Op |-> IF p \in pruned THEN "absent" ELSE ops[p]]
      /\ older' = older \intersect ((Op \ pruned) \X (Op \ pruned))
      /\ UNCHANGED <<queue, dispatcher, queued, running, listVars, stored,
                     trigger, schedVars>>

\* Mutant: the scheduler is not told.
Leave_NoTrigger(o) ==
  /\ job[o].at = "leaving"
  /\ job' = [job EXCEPT ![o].at = "permit"]
  /\ running' = running - 1
  /\ UNCHANGED <<trigger, queue, dispatcher, queued, listVars, stored, registryVars,
                 schedVars>>

\* Triggers the scheduler; the task counts itself out before its permit drops.
Leave(o) ==
  /\ job[o].at = "leaving"
  /\ job' = [job EXCEPT ![o].at = "permit"]
  /\ running' = running - 1
  /\ trigger' = TRUE
  /\ UNCHANGED <<queue, dispatcher, queued, listVars, stored, registryVars,
                 schedVars>>

\* Mutant: the permit of a finished test is never given back.
DropPermit_Leaked(o) == job[o].at = "permit" /\ UNCHANGED vars

\* The permit is given back when the task ends.
DropPermit(o) ==
  /\ job[o].at = "permit"
  /\ job' = [job EXCEPT ![o] = NoJob]
  /\ UNCHANGED <<queue, dispatcher, queued, running, listVars, stored,
                 registryVars, trigger, schedVars>>

TestStep(o) ==
  \/ Spawn(o) \/ MarkRunning(o) \/ FindNode(o) \/ NodeGone(o) \/ Measure(o) \/ Save(o)
  \/ Complete(o) \/ Leave(o) \/ DropPermit(o)

-----------------------------------------------------------------------------
(* automatic_test_scheduler *)

TakeTrigger ==
  /\ scheduler = "wait" /\ trigger
  /\ trigger' = FALSE
  /\ scheduler' = "load"
  /\ UNCHANGED <<tested, seen, todo, listVars, stored, registryVars, queueVars>>

LoadTested ==
  /\ scheduler = "load"
  /\ scheduler' = "nodes"
  /\ tested' = {n \in Node : stored[n] # "none"}
  /\ UNCHANGED <<seen, todo, listVars, stored, registryVars, queueVars, trigger>>

\* A store error is logged; nothing is retried before the next trigger.
LoadTestedFails ==
  /\ "unreadable" \in Events
  /\ scheduler = "load"
  /\ scheduler' = "wait"
  /\ UNCHANGED <<tested, seen, todo, listVars, stored, registryVars, queueVars, trigger>>

ReadNodes ==
  /\ scheduler = "nodes"
  /\ scheduler' = "select"
  /\ seen' = listed
  /\ UNCHANGED <<tested, todo, listVars, stored, registryVars, queueVars, trigger>>

KnownNodes == observed \union {n \in Node : pending[n] # NoOp}

\* The nodes as sort_unstable_by leaves them.
InOrder(S) == [i \in 1 .. Cardinality(S) |-> CHOOSE n \in S : Cardinality({m \in S : m <= n}) = i]

\* select_automatic_tests: the best unknown nodes, as many as the queue has
\* room for.
AutomaticTests ==
  LET best == InOrder(seen \ (tested \union KnownNodes))
      room == QueueCapacity - Len(queue)
  IN  SubSeq(best, 1, IF room < Len(best) THEN room ELSE Len(best))

SelectTests ==
  /\ scheduler = "select"
  /\ todo' = AutomaticTests
  /\ scheduler' = IF todo' = <<>> THEN "wait" ELSE "enqueue"
  /\ tested' = {} /\ seen' = {}
  /\ UNCHANGED <<listVars, stored, registryVars, queueVars, trigger>>

\* A node that left the list is skipped; a full queue ends the pass.
EnqueueAutomatic ==
  LET n == Head(todo)
      full == n \in listed /\ pending[n] = NoOp /\ ~Room
  IN  /\ scheduler = "enqueue"
      /\ IF n \in listed THEN EnqueueJob(n)
         ELSE UNCHANGED <<pending, operation, queue, job, queued>>
      /\ todo' = IF full THEN <<>> ELSE Tail(todo)
      /\ scheduler' = IF todo' = <<>> THEN "wait" ELSE "enqueue"
      /\ UNCHANGED <<tested, seen, dispatcher, running, observed, older,
                     listVars, stored, trigger>>

SchedulerQuits ==
  /\ "shutdown" \in Events
  /\ scheduler = "wait"
  /\ scheduler' = "closed"
  /\ UNCHANGED <<tested, seen, todo, listVars, stored, registryVars, queueVars, trigger>>

SchedulerStep ==
  TakeTrigger \/ LoadTested \/ LoadTestedFails \/ ReadNodes \/ SelectTests
    \/ EnqueueAutomatic

-----------------------------------------------------------------------------
(* refresh_nodes: at most one at a time, guarded by `refreshing` *)

RefreshNodes(nodes) ==
  /\ refresh = "idle"
  /\ refresh' = "retain"
  /\ listed' = nodes
  /\ UNCHANGED <<stale, stored, registryVars, queueVars, trigger, schedVars>>

RetainObserved ==
  /\ refresh = "retain"
  /\ refresh' = "select"
  /\ observed' = observed \intersect listed
  /\ UNCHANGED <<listed, stale, stored, pending, operation, older, queueVars, trigger,
                 schedVars>>

\* cleanup_stale reads, outside of its transaction, which results are older than
\* thirty days.  Any result of an unlisted node may be by now ("age"); a query
\* that fails finds none.
SelectStale ==
  /\ refresh = "select"
  /\ refresh' = "delete"
  /\ \E old \in SUBSET {n \in Node \ listed : "age" \in Events /\ stored[n] # "none"} :
       /\ stale' = old
       /\ stored' = [n \in Node |-> IF n \in old THEN "old" ELSE stored[n]]
  /\ UNCHANGED <<listed, registryVars, queueVars, trigger, schedVars>>

\* The transaction deletes the results of these nodes, or fails as a whole.
DeleteStale ==
  /\ refresh = "delete"
  /\ refresh' = "trigger"
  /\ stale' = {}
  /\ \/ stored' = [n \in Node |-> IF n \in stale THEN "none" ELSE stored[n]]
     \/ UNCHANGED stored
  /\ UNCHANGED <<listed, registryVars, queueVars, trigger, schedVars>>

FinishRefresh ==
  /\ refresh = "trigger"
  /\ refresh' = "idle"
  /\ trigger' = TRUE
  /\ UNCHANGED <<listed, stale, stored, registryVars, queueVars, schedVars>>

\* The caller of the API goes away: its refresh is dropped at an await, with a
\* transaction that was not committed, and triggers nothing.
RefreshDropped ==
  /\ "drop" \in Events
  /\ refresh # "idle"
  /\ refresh' = "idle"
  /\ stale' = {}
  /\ UNCHANGED <<listed, stored, registryVars, queueVars, trigger, schedVars>>

RefreshStep == RetainObserved \/ SelectStale \/ DeleteStale \/ FinishRefresh

-----------------------------------------------------------------------------
(* Specification *)

Next ==
  \/ \E n \in Node : EnqueueTest(n)
  \/ Receive \/ DispatcherQuits
  \/ \E o \in Op : TestStep(o)
  \/ SchedulerStep \/ SchedulerQuits
  \/ \E nodes \in Snapshots : RefreshNodes(nodes)
  \/ RefreshStep \/ RefreshDropped

Spec == Init /\ [][Next]_vars

\* tokio runs every ready task; the answers of netd and of IPPure are awaited
\* with a timeout, and the store's operations are taken to end.  API calls,
\* refreshes and the shutdown come when they come, and a refresh that has begun
\* need not reach its end.
Fairness ==
  /\ WF_vars(Receive)
  /\ \A o \in Op : WF_vars(TestStep(o))
  /\ WF_vars(SchedulerStep)

FairSpec == Spec /\ Fairness

-----------------------------------------------------------------------------
(* Properties *)

TypeOK ==
  /\ listed \subseteq Node
  /\ refresh \in {"idle", "retain", "select", "delete", "trigger"}
  /\ stale \subseteq Node
  /\ stored \in [Node -> {"none", "fresh", "old"}]
  /\ pending \in [Node -> Op \union {NoOp}]
  /\ operation \in [Op -> {"absent", "queued", "running", "completed"}]
  /\ observed \subseteq Node
  /\ older \subseteq Op \X Op
  /\ queue \in Seq(Op)
  /\ dispatcher \in {"open", "closed"}
  /\ job \in [Op -> [at : Live \union Permitted \union {"none"},
                     node : Node \union {NoNode}]]
  /\ queued \in Nat /\ running \in Nat
  /\ trigger \in BOOLEAN
  /\ scheduler \in {"wait", "load", "nodes", "select", "enqueue", "closed"}
  /\ tested \subseteq Node /\ seen \subseteq Node
  /\ todo \in Seq(Node)

\* The registry's "one-in-flight-test-per-node invariant" (test_registry.rs):
\* the pending operation of a node is exactly the one job for it between the
\* queue and its completion, through rollbacks, duplicates and manual and
\* automatic requests that meet.
OneTestPerNode ==
  /\ \A n \in Node : pending[n] # NoOp =>
       job[pending[n]].at \in Live /\ job[pending[n]].node = n
  /\ \A o \in JobsAt(Live) : pending[job[o].node] = o

\* The two counters of the status page, kept by other code than the queue and
\* the permits, agree with them, and max_parallel_tests is never exceeded.
CountersAgree ==
  /\ queued = Cardinality(JobsAt(InQueue))
  /\ running = Cardinality(JobsAt(InTest \union {"leaving"}))
  /\ running <= MaxParallel

\* A caller can follow its operation: while its job is on its way the registry
\* has it as queued or running, whatever was pruned meanwhile, and the history
\* of completed operations stays bounded.
OperationsVisible ==
  /\ \A o \in JobsAt(Live) :
       operation[o] = IF job[o].at \in InQueue \union {"spawned"} THEN "queued"
                      ELSE "running"
  /\ Cardinality({o \in Op : operation[o] = "completed"}) <= HistoryLimit

\* An accepted test comes to its end, and its node can be tested again, unless
\* the process shuts down.
OperationsEnd ==
  \A n \in Node : pending[n] # NoOp ~> pending[n] = NoOp \/ dispatcher = "closed"

\* In the end no more tests are asked for through the API.
NobodyAsks == <>[][\A n \in Node : ~EnqueueTest(n)]_vars

\* A failing node is not tested for ever: once the list stays as it is and
\* nobody asks, the pipeline falls silent, even if no result can be saved.
AutomaticTestsEnd ==
  NobodyAsks /\ (\E nodes \in Snapshots : <>[](listed = nodes))
    => <>[](JobsAt(Live \ {"lost"}) = {})

\* The scheduler forgets nobody: once it is triggered, every node that is
\* listed by then and stays so is tested, also when the queue had no room for
\* it: each finished test makes the scheduler look again.  A pass that cannot
\* read the store gives up without a retry, so this holds where the store can
\* be read; a refresh that is dropped before its trigger promises nothing.
EveryNodeTested ==
  NobodyAsks =>
    \A n \in Node :
      trigger /\ n \in listed ~>
        \/ stored[n] # "none" \/ n \in observed \/ n \notin listed
        \/ dispatcher = "closed" \/ scheduler = "closed"

\* The doc of cleanup_stale (storage.rs:236): it "removes old results only".
CleanupRemovesOnlyOld ==
  [][\A n \in Node : stored'[n] = "none" => stored[n] # "fresh"]_vars
=============================================================================
