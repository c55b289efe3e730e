------------------------- MODULE NumaThreadPoolProps -------------------------
(***************************************************************************)
(* Properties of NumaThreadPool.                                           *)
(***************************************************************************)
EXTENDS NumaThreadPool

Fates == {"new", "inflight", "rejected", "queued", "running", "finished",
          "threw", "discarded"}

(* Every variable has its type; in particular workers_ never outgrows the  *)
(* sum of the limits of the nodes, although the slots of workers that have *)
(* ended are never used again, and valid_thread_count_ does not wrap.      *)
TypeOK ==
  /\ running \in BOOLEAN /\ monitoring \in BOOLEAN /\ crashed \in BOOLEAN
  /\ validThreadCount \in Nat
  /\ queue \in [Nodes -> Seq(Tasks)] /\ threadCount \in [Nodes -> Nat]
  /\ size \in 0 .. MaxWorkers /\ capacity \in Nat
  /\ node \in [Slots -> Nodes]
  /\ valid \subseteq Slots /\ exiting \subseteq Slots /\ idle \subseteq Slots
  /\ joinable \subseteq Slots /\ stale \subseteq Slots
  /\ wpc \in [Slots -> WorkerPCs] /\ held \in [Slots -> Tasks \cup {NoTask}]
  /\ mpc \in {"none", "top", "node", "expand", "spawn", "push", "shrink", "wait",
              "parking", "blocked", "done", "dead"}
  /\ mnode \in Nodes /\ need \in Nat
  /\ ppc \in [Producers -> {"idle", "route", "push", "notify"}]
  /\ hand \in [Producers -> Tasks \cup {NoTask}] /\ dest \in [Producers -> Nodes]
  /\ cpc \in {"idle", "spawn", "push", "signal", "joinmon", "halt", "wake", "poll",
              "lock", "join", "joining", "drop"}
  /\ policy \in {"WaitForAll", "WaitForTimeout", "Immediate"}
  /\ at \in Nat /\ starts \in Nat
  /\ fate \in [Tasks -> Fates] /\ target \in [Tasks -> Nodes]

-----------------------------------------------------------------------------
(* A task lies at most once in a queue, in that of the node it was sent    *)
(* to, and is run by one worker, bound to that node: a worker never serves *)
(* another node, whatever slots the nodes' workers have come to occupy     *)
(* through growth, failed starts and restarts of the pool.                 *)
QueuedAtTarget ==
  /\ \A n \in Nodes : \A k \in 1 .. Len(queue[n]) :
       /\ fate[queue[n][k]] = "queued" /\ target[queue[n][k]] = n
       /\ \A j \in 1 .. Len(queue[n]) : queue[n][j] = queue[n][k] => j = k
  /\ \A t \in Tasks :
       fate[t] = "queued" => \E k \in 1 .. Len(queue[target[t]]) : queue[target[t]][k] = t

RunAtTarget ==
  \A t \in Tasks : fate[t] = "running" =>
    Cardinality({i \in Slots : wpc[i] = "run" /\ held[i] = t /\ node[i] = target[t]}) = 1

TasksStayOnNode == QueuedAtTarget /\ RunAtTarget

-----------------------------------------------------------------------------
(* When no call of the controller is under way and the pool is stopped, no *)
(* worker and no monitor is left and the count is 0: the workers that Stop *)
(* skips, because they are not valid, are joined by their destructors.     *)
Quiescent ==
  /\ size = 0 /\ validThreadCount = 0
  /\ valid = {} /\ exiting = {} /\ idle = {} /\ joinable = {}
  /\ \A i \in Slots : wpc[i] = "none" /\ held[i] = NoTask
  /\ mpc = "none" /\ ~monitoring

StoppedIsQuiescent == cpc = "idle" /\ ~running => Quiescent

(* valid_thread_count_ counts the workers between fetch_add and fetch_sub, *)
(* those an exception removed included; those that found no slot or could  *)
(* not be bound are never in it.                                           *)
Counted == {"test", "lock", "parking", "waiting", "woke", "pop", "run", "retire",
            "uncount", "threw"}

CountExact == validThreadCount = Cardinality({i \in Slots : wpc[i] \in Counted})

(* thread_count of a node counts every worker pushed for it since the pool *)
(* was constructed, so it bounds the workers that the node has; and a node *)
(* never has more than max_threads_per_node_ workers.                      *)
WorkersOf(n) == {i \in 1 .. size : node[i] = n}

NodeWithinLimit ==
  \A n \in Nodes : /\ Cardinality(WorkersOf(n)) <= threadCount[n]
                   /\ Cardinality(WorkersOf(n)) <= MaxPerNode

-----------------------------------------------------------------------------
(* Each node by itself is a TaskExecutor of the tasks sent to it: FIFO, at *)
(* most once, nothing discarded while a task of the node runs.             *)
FateAt(n) ==
  [t \in Tasks |-> IF target[t] # n \/ fate[t] = "inflight" THEN "new" ELSE fate[t]]

Executor(n) == INSTANCE TaskExecutor WITH queue <- queue[n], fate <- FateAt(n)

NodesImplementExecutor ==
  /\ \A n \in Nodes : Executor(n)!Init
  /\ [][\/ UNCHANGED <<queue, fate, target>>
        \/ \A n \in Nodes : UNCHANGED <<queue[n], FateAt(n)>> \/ Executor(n)!Next]_taskVars

(* No wakeup of Enqueue is lost: while a worker of a node sleeps, the node *)
(* has no more queued tasks than notifications still to be sent to it and  *)
(* workers awake that will look into its queue.  A worker that was told to *)
(* leave gives up the task it was woken for and does not count; it is told *)
(* under the tasks_mutex of its node, and all its workers are notified.    *)
NotifiersOf(n) == {p \in Producers : ppc[p] = "notify" /\ dest[p] = n}
AwakeOn(n) ==
  {i \in Slots : node[i] = n /\ wpc[i] \in {"lock", "woke", "pop"} /\ i \notin exiting}

NoWakeupLost ==
  running => \A n \in Nodes : WaitingOn(n) # {} =>
    Len(queue[n]) <= Cardinality(NotifiersOf(n)) + Cardinality(AwakeOn(n))

(* Stop notifies node after node without their mutexes.  Once it has been  *)
(* at a node, at most one worker of that node sleeps or is about to: the   *)
(* one that had tested its predicate and not yet blocked.                  *)
StopNotified(n) == (cpc = "wake" /\ n < at) \/ cpc \in {"poll", "lock", "join", "joining"}
AsleepOn(n) == {i \in Slots : node[i] = n /\ wpc[i] \in {"parking", "waiting"}}

OneMissesStop == \A n \in Nodes : StopNotified(n) => \A i, j \in AsleepOn(n) : i = j

(* Stop(WaitForAll) sums the queues node by node, and a task may be pushed *)
(* behind its back to a node that it has counted as empty.  Only a client  *)
(* that tested running_ before Stop cleared it can do so: after the poll   *)
(* at most one queued task for each client is left, on all nodes together. *)
Pushers == {p \in Producers : ppc[p] = "push"}
Queued == {t \in Tasks : fate[t] = "queued"}

LateTasksBounded ==
  cpc \in {"lock", "join", "joining", "drop"} /\ policy = "WaitForAll"
    => Cardinality(Queued) + Cardinality(Pushers) <= Cardinality(Producers)

(* Between a Stop and the next Start, at most one task for each client is  *)
(* left on all nodes together, whatever the policy: the queues are emptied *)
(* one after the other, and a client that found the pool running may push  *)
(* behind that, but only once; one that has still to repeat the test, in   *)
(* EnqueueToNumaNode, may not.                                             *)
LeftoverTasksBounded ==
  cpc = "idle" /\ ~running
    => Cardinality(Queued) + Cardinality(Pushers) <= Cardinality(Producers)

(* No Thread object is destroyed or started anew while its thread runs:    *)
(* workers_.clear() destroys the Threads of ended workers only, although   *)
(* Stop joined some of them and skipped the others; a slot that receives a *)
(* thread has none, whoever creates it, and so has the monitor's Thread.   *)
ThreadsKept ==
  /\ \A i \in Slots : /\ wpc'[i] = "none" => wpc[i] \in Ended \cup {"none"}
                      /\ wpc'[i] = "entry" => wpc[i] \in {"none", "entry"}
  /\ cpc = "spawn" /\ mpc' = "top" => mpc = "none"

NoThreadAbandoned == [][ThreadsKept]_<<wpc, mpc>>

(* A worker reads workers_ without global_mutex_ and may hold a buffer     *)
(* that push_back has freed.  Since it has found its own slot under the    *)
(* mutex before, this worker lies in the first half of the vector, which   *)
(* was there before it doubled: the buffer it reads is one that once held  *)
(* its Worker, and nothing is stale any more when it has bound itself.     *)
StaleInOldBuffer == \A i \in stale : wpc[i] = "bind" /\ 2 * i <= capacity

(* Stop marks and joins only the workers that are valid when it reaches    *)
(* them; workers_.clear() waits for the others, which nobody has told to   *)
(* leave.  They never get as far as tasks_cond or a task: a worker that    *)
(* Stop has passed is over, is on its way out, or will find running_ false *)
(* at its first test.  The one it can wait for in vain is at its entry,    *)
(* where it needs the global_mutex_ that Stop holds.                       *)
SkippedWorkersLeave ==
  cpc \in {"join", "joining"} =>
    \A i \in joinable : i < at =>
      wpc[i] \in Ended \cup {"entry", "bind", "count", "test", "retire", "uncount"}

(* While nobody calls Stop and some worker of the node has not been told   *)
(* to leave, every task queued at the node is started: a worker that was   *)
(* told to leave gives up the task it was woken for, but whoever told it   *)
(* notifies all workers of the node afterwards.                            *)
Serving(n) == {i \in WorkersOf(n) : wpc[i] \notin Ended /\ i \notin exiting}

QueuedTaskStarts ==
  \A t \in Tasks :
    fate[t] = "queued" /\ running
      ~> fate[t] # "queued" \/ cpc # "idle" \/ crashed \/ Serving(target[t]) = {}

-----------------------------------------------------------------------------
(* "Init minimum threads for each NUMA node": once a Start that could      *)
(* create every thread is over, and until Stop is called, every node has   *)
(* min_threads_per_node_ workers that serve it.                            *)
NodeHasWorkers ==
  running /\ monitoring /\ cpc = "idle"
    => \A n \in Nodes : Cardinality(Serving(n)) >= MinPerNode
=============================================================================
