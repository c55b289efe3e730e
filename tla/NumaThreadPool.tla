--------------------------- MODULE NumaThreadPool ---------------------------
(***************************************************************************)
(* NumaThreadPool of thread_pool.hpp: a task queue with its mutex and      *)
(* condition variable per NUMA node, one vector of workers that are bound  *)
(* to nodes, a monitor that grows and shrinks the nodes one after the      *)
(* other, a controller that calls Start and Stop, and the producers.       *)
(*                                                                         *)
(* Locks.  tasks_mutex of node n is held across steps by a worker of n     *)
(* whose wait predicate was false and that has not blocked yet, and by the *)
(* monitor from its comparison of the queue of n with thread_count until   *)
(* it has expanded or shrunk n.  global_mutex_ is held across steps by     *)
(* Stop, from the first join until it returns.                             *)
(*                                                                         *)
(* Time is abstracted as in NormalThreadPool.  The binding of a thread to  *)
(* a node is modelled by its outcome.                                      *)
(***************************************************************************)
EXTENDS Integers, Sequences, FiniteSets

CONSTANTS
  Tasks, Producers, NoTask,
  NodeCount,            \* NumaNodeCount()
  HardwareConcurrency,  \* Thread::HardwareConcurrency()
  ExpandThreshold,      \* expand_threshold_, 5 in the code
  Policies,             \* the shutdown policies the controller may pass
  TasksMayThrow, BindMayFail, SpawnMayFail, SpuriousWakeups,
  MaxStarts             \* bound: how often the controller calls Start

ASSUME NumaAssumption ==
  /\ NoTask \notin Tasks
  /\ NodeCount \in Nat \ {0}
  /\ HardwareConcurrency \in Nat /\ ExpandThreshold \in Nat /\ MaxStarts \in Nat
  /\ Policies \subseteq {"WaitForAll", "WaitForTimeout", "Immediate"}
  /\ {TasksMayThrow, BindMayFail, SpawnMayFail, SpuriousWakeups} \subseteq BOOLEAN

ExpandFactor == 2
Nodes == 0 .. NodeCount - 1
LastNode == NodeCount - 1
MinPerNode == HardwareConcurrency \div NodeCount
MaxPerNode == (ExpandFactor * HardwareConcurrency) \div NodeCount
InitialWorkers == NodeCount * MinPerNode
MaxWorkers == NodeCount * MaxPerNode
Slots == 1 .. MaxWorkers

VARIABLES
  (* the members of the pool *)
  running, monitoring, validThreadCount,
  queue, threadCount,   \* node_data_: tasks and thread_count of each node
  size, capacity,       \* workers_.size(), workers_.capacity()
  (* the Worker objects *)
  node,                 \* numa_node of each slot
  valid, exiting, idle, \* the slots whose flag is true
  joinable,             \* the slots whose Thread is in state JOINABLE
  stale,                \* the slots whose worker reads a buffer that was freed
  (* the threads *)
  wpc, held,            \* each worker: where it is, the task it runs
  mpc, mnode, need,     \* the monitor, the node it is at, threads still to create
  ppc, hand, dest,      \* each producer, its task and the task's node
  cpc, policy, at,      \* the controller, Stop's argument, the index of its loop
  starts, crashed,
  fate, target          \* history: the fate of each task, the node it was sent to

poolVars   == <<running, monitoring>>
nodeVars   == <<threadCount, node>>
workerVars == <<size, capacity, joinable, stale>>
flagVars   == <<valid, exiting, idle>>
monVars    == <<mpc, mnode, need>>
prodVars   == <<ppc, hand, dest>>
ctlVars    == <<cpc, policy, at, starts>>
taskVars   == <<queue, held, fate, target>>
vars == <<poolVars, validThreadCount, nodeVars, workerVars, flagVars, wpc,
          monVars, prodVars, ctlVars, taskVars, crashed>>

Ended == {"returned", "threw"}
WorkerPCs == Ended \cup
  {"none", "entry", "bind", "count", "test", "lock", "parking", "waiting",
   "woke", "pop", "run", "retire", "uncount"}

Init ==
  /\ running = FALSE /\ monitoring = FALSE /\ validThreadCount = 0
  /\ queue = [n \in Nodes |-> <<>>] /\ threadCount = [n \in Nodes |-> 0]
  /\ size = 0 /\ capacity = 0
  /\ node = [i \in Slots |-> 0]
  /\ valid = {} /\ exiting = {} /\ idle = {} /\ joinable = {} /\ stale = {}
  /\ wpc = [i \in Slots |-> "none"] /\ held = [i \in Slots |-> NoTask]
  /\ mpc = "none" /\ mnode = 0 /\ need = 0
  /\ ppc = [p \in Producers |-> "idle"] /\ hand = [p \in Producers |-> NoTask]
  /\ dest = [p \in Producers |-> 0]
  /\ cpc = "idle" /\ policy = "WaitForAll" /\ at = 0
  /\ starts = 0 /\ crashed = FALSE
  /\ fate = [t \in Tasks |-> "new"] /\ target = [t \in Tasks |-> 0]

-----------------------------------------------------------------------------
(* Locks and condition variables *)

GlobalMutexFree == cpc \notin {"join", "joining", "drop"}

NodeMutexFree(n) ==
  /\ \A i \in Slots : node[i] = n => wpc[i] # "parking"
  /\ mnode = n => mpc \notin {"expand", "spawn", "push", "shrink"}

WaitingOn(n) == {i \in Slots : wpc[i] = "waiting" /\ node[i] = n}

NotifyAllOn(n) ==
  wpc' = [i \in Slots |-> IF i \in WaitingOn(n) THEN "lock" ELSE wpc[i]]

NotifyOneOn(n) ==
  IF WaitingOn(n) = {} THEN UNCHANGED wpc
  ELSE \E i \in WaitingOn(n) : wpc' = [wpc EXCEPT ![i] = "lock"]

NotifyMonitor == mpc' = IF mpc = "blocked" THEN "wait" ELSE mpc

Go(i, from, to) == wpc[i] = from /\ wpc' = [wpc EXCEPT ![i] = to]

-----------------------------------------------------------------------------
(* WorkerLoop.  Everything a worker leaves alone in most of its steps: *)
Elsewhere == <<poolVars, nodeVars, workerVars, monVars, prodVars, ctlVars, crashed>>

(* Mutant: the slot is not looked for. *)
WorkerEnterUnchecked(i) ==
  /\ GlobalMutexFree
  /\ Go(i, "entry", "bind")
  /\ UNCHANGED <<Elsewhere, validThreadCount, flagVars, taskVars>>

(* Mutant: without a slot it leaves through the end of the function, with  *)
(* its fetch_sub.                                                          *)
WorkerEnterUncounts(i) ==
  /\ GlobalMutexFree
  /\ Go(i, "entry", IF i > size THEN "uncount" ELSE "bind")
  /\ UNCHANGED <<Elsewhere, validThreadCount, flagVars, taskVars>>

(* A thread that takes global_mutex_ before its Worker has been pushed     *)
(* finds no slot at its index and returns.                                 *)
WorkerEnter(i) ==
  /\ GlobalMutexFree
  /\ Go(i, "entry", IF i > size THEN "returned" ELSE "bind")
  /\ UNCHANGED <<Elsewhere, validThreadCount, flagVars, taskVars>>

(* *workers_[worker_index] is read without the mutex: the buffer of the    *)
(* vector first, then the element, from a buffer that may have been freed. *)
(* The rest of this step touches the worker's own Worker only.             *)
WorkerBind(i) ==
  /\ Go(i, "bind", "count")
  /\ valid' = valid \cup {i} /\ stale' = stale \ {i}
  /\ UNCHANGED <<poolVars, validThreadCount, nodeVars, size, capacity, joinable, exiting,
                 idle, monVars, prodVars, ctlVars, taskVars, crashed>>

(* BindThreadToNumaNode throws: the worker returns uncounted. *)
WorkerBindFails(i) ==
  /\ BindMayFail
  /\ Go(i, "bind", "returned")
  /\ valid' = valid \ {i} /\ stale' = stale \ {i}
  /\ UNCHANGED <<poolVars, validThreadCount, nodeVars, size, capacity, joinable, exiting,
                 idle, monVars, prodVars, ctlVars, taskVars, crashed>>

WorkerFault(i) ==
  /\ i \in stale /\ wpc[i] = "bind"
  /\ crashed' = TRUE
  /\ UNCHANGED <<poolVars, validThreadCount, nodeVars, workerVars, flagVars, wpc,
                 monVars, prodVars, ctlVars, taskVars>>

WorkerCount(i) ==
  /\ Go(i, "count", "test")
  /\ validThreadCount' = validThreadCount + 1
  /\ UNCHANGED <<Elsewhere, flagVars, taskVars>>

(* Mutant: running_ is not tested. *)
ToldToLeave(i) == i \in exiting
ShallLeave(i) == i \in exiting \/ ~running

WorkerTest(i) ==
  /\ Go(i, "test", IF ShallLeave(i) THEN "retire" ELSE "lock")
  /\ idle' = IF ShallLeave(i) THEN idle ELSE idle \cup {i}
  /\ UNCHANGED <<Elsewhere, validThreadCount, valid, exiting, taskVars>>

(* Mutant: the worker takes node_data_[0] whatever its node. *)
QueueOfZero(i) == 0
QueueOf(i) == node[i]

WorkerCheck(i) ==
  /\ NodeMutexFree(QueueOf(i))
  /\ Go(i, "lock", IF queue[QueueOf(i)] # <<>> \/ ShallLeave(i) THEN "woke" ELSE "parking")
  /\ UNCHANGED <<Elsewhere, validThreadCount, flagVars, taskVars>>

WorkerPark(i) ==
  /\ Go(i, "parking", "waiting")
  /\ UNCHANGED <<Elsewhere, validThreadCount, flagVars, taskVars>>

WorkerSpuriousWakeup(i) ==
  /\ SpuriousWakeups
  /\ Go(i, "waiting", "lock")
  /\ UNCHANGED <<Elsewhere, validThreadCount, flagVars, taskVars>>

(* Unlike the worker of NormalThreadPool, this one leaves without a task   *)
(* when it has been told to.  Until it has cleared is_idle, the monitor    *)
(* may still tell it to, after this test; it clears the flag on its way to *)
(* the mutex, so the steps that take the mutex do it here.                 *)
WorkerWake(i) ==
  /\ Go(i, "woke", IF ShallLeave(i) THEN "retire" ELSE "pop")
  /\ UNCHANGED <<Elsewhere, validThreadCount, flagVars, taskVars>>

(* Mutant: the task at the back of the queue is taken. *)
NewestTask(n) == queue[n][Len(queue[n])]
NextTask(n) == Head(queue[n])

(* Mutant: the front task is moved out and not popped. *)
QueueNotPopped(n) == queue[n]
QueueAfterPop(n) == Tail(queue[n])

WorkerPop(i) ==
  LET n == QueueOf(i) IN
  /\ NodeMutexFree(n)
  /\ queue[n] # <<>>
  /\ Go(i, "pop", "run")
  /\ held' = [held EXCEPT ![i] = NextTask(n)]
  /\ queue' = [queue EXCEPT ![n] = QueueAfterPop(n)]
  /\ fate' = [fate EXCEPT ![NextTask(n)] = "running"]
  /\ idle' = idle \ {i}
  /\ UNCHANGED <<Elsewhere, validThreadCount, valid, exiting, target>>

WorkerPopNothing(i) ==
  /\ NodeMutexFree(QueueOf(i))
  /\ queue[QueueOf(i)] = <<>>
  /\ Go(i, "pop", "test")
  /\ idle' = idle \ {i}
  /\ UNCHANGED <<Elsewhere, validThreadCount, valid, exiting, taskVars>>

EndTask(i, how) ==
  /\ held' = [held EXCEPT ![i] = NoTask]
  /\ fate' = [fate EXCEPT ![held[i]] = how]
  /\ UNCHANGED <<Elsewhere, validThreadCount, flagVars, queue, target>>

WorkerFinish(i) == Go(i, "run", "test") /\ EndTask(i, "finished")

WorkerThrow(i) == TasksMayThrow /\ Go(i, "run", "threw") /\ EndTask(i, "threw")

WorkerRetire(i) ==
  /\ Go(i, "retire", "uncount")
  /\ valid' = valid \ {i} /\ idle' = idle \ {i}
  /\ UNCHANGED <<Elsewhere, validThreadCount, exiting, taskVars>>

(* Mutant: fetch_sub is missing. *)
WorkerStaysCounted(i) ==
  /\ Go(i, "uncount", "returned")
  /\ UNCHANGED <<Elsewhere, validThreadCount, flagVars, taskVars>>

WorkerUncount(i) ==
  /\ Go(i, "uncount", "returned")
  /\ validThreadCount' = validThreadCount - 1
  /\ UNCHANGED <<Elsewhere, flagVars, taskVars>>

WorkerStep(i) ==
  \/ WorkerEnter(i) \/ WorkerBind(i) \/ WorkerBindFails(i)
  \/ WorkerCount(i) \/ WorkerTest(i) \/ WorkerCheck(i) \/ WorkerPark(i)
  \/ WorkerWake(i) \/ WorkerPop(i) \/ WorkerPopNothing(i)
  \/ WorkerFinish(i) \/ WorkerThrow(i) \/ WorkerRetire(i) \/ WorkerUncount(i)

-----------------------------------------------------------------------------
(* Creating a worker takes two steps, in Start and in ExpandThreadsOnNode: *)
(* its thread is started, and then its Worker is pushed.                   *)

StartThread == wpc' = [wpc EXCEPT ![size + 1] = "entry"]

(* push_back under global_mutex_; a full vector doubles its buffer. *)
PushWorker(n) ==
  LET full == size = capacity IN
  /\ GlobalMutexFree
  /\ size' = size + 1
  /\ node' = [node EXCEPT ![size + 1] = n]
  /\ joinable' = joinable \cup {size + 1}
  /\ threadCount' = [threadCount EXCEPT ![n] = @ + 1]
  /\ capacity' = IF full THEN (IF capacity = 0 THEN 1 ELSE 2 * capacity) ELSE capacity
  /\ stale' = IF full THEN stale \cup {i \in Slots : wpc[i] = "bind"} ELSE stale

-----------------------------------------------------------------------------
(* MonitorLoop, ExpandThreadsOnNode, ShrinkThreadsOnNode *)

MonitorTop ==
  /\ mpc = "top"
  /\ mpc' = IF monitoring /\ running THEN "node" ELSE "done"
  /\ mnode' = 0
  /\ UNCHANGED <<poolVars, validThreadCount, nodeVars, workerVars, flagVars, wpc,
                 need, prodVars, ctlVars, taskVars, crashed>>

(* The monitor takes the tasks_mutex of its node and compares. *)
MonitorNode ==
  /\ mpc = "node"
  /\ NodeMutexFree(mnode)
  /\ mpc' = IF Len(queue[mnode]) > threadCount[mnode] * ExpandThreshold
              THEN "expand" ELSE "shrink"
  /\ UNCHANGED <<poolVars, validThreadCount, nodeVars, workerVars, flagVars, wpc,
                 mnode, need, prodVars, ctlVars, taskVars, crashed>>

(* It releases the mutex and goes on to the next node, or to its wait. *)
NextNode ==
  IF mnode = LastNode THEN mpc' = "wait" /\ UNCHANGED mnode
                      ELSE mpc' = "node" /\ mnode' = mnode + 1

Smaller(a, b) == IF a < b THEN a ELSE b

(* Mutant: the limit is per pool and not per node. *)
TargetPerPool(n) == Smaller(threadCount[n] * ExpandFactor, MaxWorkers)
Target(n) == Smaller(threadCount[n] * ExpandFactor, MaxPerNode)

(* Mutant: the threads that the node already has are not subtracted. *)
DeficitIsTarget(n) == Target(n)
Deficit(n) == Target(n) - threadCount[n]

MonitorExpand ==
  /\ mpc = "expand"
  /\ IF Target(mnode) <= threadCount[mnode]
       THEN NextNode /\ UNCHANGED need
       ELSE /\ mpc' = "spawn" /\ UNCHANGED mnode
            /\ need' = Deficit(mnode)
  /\ UNCHANGED <<poolVars, validThreadCount, nodeVars, workerVars, flagVars, wpc,
                 prodVars, ctlVars, taskVars, crashed>>

MonitorSpawn ==
  /\ mpc = "spawn"
  /\ StartThread
  /\ mpc' = "push"
  /\ UNCHANGED <<poolVars, validThreadCount, nodeVars, workerVars, flagVars, mnode,
                 need, prodVars, ctlVars, taskVars, crashed>>

(* pthread_create fails; nothing in MonitorLoop catches the exception. *)
MonitorSpawnFails ==
  /\ SpawnMayFail
  /\ mpc = "spawn"
  /\ mpc' = "dead"
  /\ UNCHANGED <<poolVars, validThreadCount, nodeVars, workerVars, flagVars, wpc,
                 mnode, need, prodVars, ctlVars, taskVars, crashed>>

MonitorPush ==
  /\ mpc = "push"
  /\ PushWorker(mnode)
  /\ need' = need - 1
  /\ IF need = 1 THEN NextNode ELSE mpc' = "spawn" /\ UNCHANGED mnode
  /\ UNCHANGED <<poolVars, validThreadCount, flagVars, wpc, prodVars, ctlVars,
                 taskVars, crashed>>

(* The surplus is that of thread_count, which no leaving worker decrements.*)
MonitorShrink ==
  /\ mpc = "shrink"
  /\ IF threadCount[mnode] <= MinPerNode THEN UNCHANGED <<exiting, wpc>>
     ELSE /\ GlobalMutexFree
          /\ \E S \in SUBSET {i \in valid \cap idle : i <= size /\ node[i] = mnode} :
               /\ Cardinality(S) <= threadCount[mnode] - MinPerNode
               /\ exiting' = exiting \cup S
          /\ NotifyAllOn(mnode)
  /\ NextNode
  /\ UNCHANGED <<poolVars, validThreadCount, nodeVars, workerVars, valid, idle,
                 need, prodVars, ctlVars, taskVars, crashed>>

(* The predicate of WaitFor sums the queues node by node while clients and *)
(* workers change them: whether the sum exceeds the threshold is left open.*)
(* AdjustCheckInterval before it only chooses the timeout.                 *)
MonitorCheck ==
  /\ mpc = "wait"
  /\ mpc' \in IF ~monitoring \/ ~running THEN {"top"} ELSE {"top", "parking"}
  /\ UNCHANGED <<poolVars, validThreadCount, nodeVars, workerVars, flagVars, wpc,
                 mnode, need, prodVars, ctlVars, taskVars, crashed>>

MonitorPark ==
  /\ mpc = "parking"
  /\ mpc' = "blocked"
  /\ UNCHANGED <<poolVars, validThreadCount, nodeVars, workerVars, flagVars, wpc,
                 mnode, need, prodVars, ctlVars, taskVars, crashed>>

MonitorTimeout ==
  /\ mpc = "blocked"
  /\ mpc' = "top"
  /\ UNCHANGED <<poolVars, validThreadCount, nodeVars, workerVars, flagVars, wpc,
                 mnode, need, prodVars, ctlVars, taskVars, crashed>>

MonitorStep ==
  \/ MonitorTop \/ MonitorNode \/ MonitorExpand \/ MonitorSpawn \/ MonitorSpawnFails
  \/ MonitorPush \/ MonitorShrink \/ MonitorCheck \/ MonitorPark \/ MonitorTimeout

-----------------------------------------------------------------------------
(* Enqueue and EnqueueToNumaNode *)

(* Mutant: running_ is not tested. *)
AdmitUntested(p, t) ==
  /\ ppc' = [ppc EXCEPT ![p] = "push"]
  /\ fate' = [fate EXCEPT ![t] = "inflight"]

(* EnqueueToNumaNode tests running_ and goes on to the push, or throws. *)
Admit(p, t) ==
  IF running THEN ppc' = [ppc EXCEPT ![p] = "push"]
                  /\ fate' = [fate EXCEPT ![t] = "inflight"]
             ELSE ppc' = [ppc EXCEPT ![p] = "idle"]
                  /\ fate' = [fate EXCEPT ![t] = "rejected"]

EnqueueToNumaNode(p, t, n) ==
  /\ ppc[p] = "idle" /\ fate[t] = "new"
  /\ hand' = [hand EXCEPT ![p] = t]
  /\ dest' = [dest EXCEPT ![p] = n]
  /\ target' = [target EXCEPT ![t] = n]
  /\ Admit(p, t)
  /\ UNCHANGED <<poolVars, validThreadCount, nodeVars, workerVars, flagVars, wpc,
                 monVars, ctlVars, queue, held, crashed>>

(* Enqueue tests running_ itself, asks for the node of the calling thread  *)
(* (node 0 when that is none of the pool's) and calls EnqueueToNumaNode.   *)
Enqueue(p, t, n) ==
  /\ ppc[p] = "idle" /\ fate[t] = "new"
  /\ hand' = [hand EXCEPT ![p] = t]
  /\ dest' = [dest EXCEPT ![p] = n]
  /\ target' = [target EXCEPT ![t] = n]
  /\ IF running THEN ppc' = [ppc EXCEPT ![p] = "route"]
                     /\ fate' = [fate EXCEPT ![t] = "inflight"]
                ELSE UNCHANGED ppc /\ fate' = [fate EXCEPT ![t] = "rejected"]
  /\ UNCHANGED <<poolVars, validThreadCount, nodeVars, workerVars, flagVars, wpc,
                 monVars, ctlVars, queue, held, crashed>>

EnqueueRoute(p) ==
  /\ ppc[p] = "route"
  /\ Admit(p, hand[p])
  /\ UNCHANGED <<poolVars, validThreadCount, nodeVars, workerVars, flagVars, wpc,
                 monVars, hand, dest, ctlVars, queue, held, target, crashed>>

EnqueuePush(p) ==
  LET n == dest[p] IN
  /\ ppc[p] = "push"
  /\ NodeMutexFree(n)
  /\ queue' = [queue EXCEPT ![n] = Append(@, hand[p])]
  /\ fate' = [fate EXCEPT ![hand[p]] = "queued"]
  /\ ppc' = [ppc EXCEPT ![p] = "notify"]
  /\ UNCHANGED <<poolVars, validThreadCount, nodeVars, workerVars, flagVars, wpc,
                 monVars, hand, dest, ctlVars, held, target, crashed>>

(* Mutant: the condition variable of node 0 is notified. *)
NotifiedZero(p) == 0
Notified(p) == dest[p]

EnqueueNotify(p) ==
  /\ ppc[p] = "notify"
  /\ NotifyOneOn(Notified(p))
  /\ ppc' = [ppc EXCEPT ![p] = "idle"]
  /\ UNCHANGED <<poolVars, validThreadCount, nodeVars, workerVars, flagVars,
                 monVars, hand, dest, ctlVars, taskVars, crashed>>

EnqueueStep(p) == EnqueueRoute(p) \/ EnqueuePush(p) \/ EnqueueNotify(p)

-----------------------------------------------------------------------------
(* Start; at counts the workers created so far. *)

StartCall ==
  /\ cpc = "idle" /\ ~running /\ starts < MaxStarts
  /\ running' = TRUE
  /\ starts' = starts + 1
  /\ cpc' = "spawn" /\ at' = 0
  /\ UNCHANGED <<monitoring, validThreadCount, nodeVars, workerVars, flagVars, wpc,
                 monVars, prodVars, policy, taskVars, crashed>>

StartWorker ==
  /\ cpc = "spawn" /\ at < InitialWorkers
  /\ StartThread
  /\ cpc' = "push"
  /\ UNCHANGED <<poolVars, validThreadCount, nodeVars, workerVars, flagVars, monVars,
                 prodVars, policy, at, starts, taskVars, crashed>>

StartPush ==
  /\ cpc = "push"
  /\ PushWorker(at \div MinPerNode)
  /\ cpc' = "spawn" /\ at' = at + 1
  /\ UNCHANGED <<poolVars, validThreadCount, flagVars, wpc, monVars, prodVars,
                 policy, starts, taskVars, crashed>>

StartMonitor ==
  /\ cpc = "spawn" /\ at = InitialWorkers
  /\ monitoring' = TRUE
  /\ mpc' = "top"
  /\ cpc' = "idle" /\ at' = 0
  /\ UNCHANGED <<running, validThreadCount, nodeVars, workerVars, flagVars, wpc,
                 mnode, need, prodVars, policy, starts, taskVars, crashed>>

(* pthread_create fails for a worker or for the monitor. *)
StartFails ==
  /\ SpawnMayFail
  /\ cpc = "spawn"
  /\ monitoring' = (at = InitialWorkers)
  /\ cpc' = "idle" /\ at' = 0
  /\ UNCHANGED <<running, validThreadCount, nodeVars, workerVars, flagVars, wpc,
                 monVars, prodVars, policy, starts, taskVars, crashed>>

StartStep == StartWorker \/ StartPush \/ StartMonitor

-----------------------------------------------------------------------------
(* Stop; at is the node or the slot its loop is at. *)

StopCall(pol) ==
  /\ cpc = "idle" /\ running
  /\ monitoring' = FALSE
  /\ policy' = pol
  /\ cpc' = "signal"
  /\ UNCHANGED <<running, validThreadCount, nodeVars, workerVars, flagVars, wpc,
                 monVars, prodVars, at, starts, taskVars, crashed>>

StopSignalMonitor ==
  /\ cpc = "signal"
  /\ NotifyMonitor
  /\ cpc' = "joinmon"
  /\ UNCHANGED <<poolVars, validThreadCount, nodeVars, workerVars, flagVars, wpc,
                 mnode, need, prodVars, policy, at, starts, taskVars, crashed>>

(* Mutant: the monitor is not joined. *)
StopLeavesMonitor ==
  /\ cpc = "joinmon"
  /\ cpc' = "halt"
  /\ UNCHANGED <<poolVars, validThreadCount, nodeVars, workerVars, flagVars, wpc,
                 monVars, prodVars, policy, at, starts, taskVars, crashed>>

StopJoinMonitor ==
  /\ cpc = "joinmon"
  /\ mpc \in {"none", "done", "dead"}
  /\ mpc' = "none"
  /\ cpc' = "halt"
  /\ UNCHANGED <<poolVars, validThreadCount, nodeVars, workerVars, flagVars, wpc,
                 mnode, need, prodVars, policy, at, starts, taskVars, crashed>>

StopHalt ==
  /\ cpc = "halt"
  /\ running' = FALSE
  /\ cpc' = "wake" /\ at' = 0
  /\ UNCHANGED <<monitoring, validThreadCount, nodeVars, workerVars, flagVars, wpc,
                 monVars, prodVars, policy, starts, taskVars, crashed>>

(* Mutant: the nodes are gone through without NotifyAll. *)
StopForgetsWake ==
  /\ cpc = "wake"
  /\ IF at = LastNode THEN cpc' = "poll" /\ at' = 0 ELSE UNCHANGED cpc /\ at' = at + 1
  /\ UNCHANGED <<poolVars, validThreadCount, nodeVars, workerVars, flagVars, wpc,
                 monVars, prodVars, policy, starts, taskVars, crashed>>

(* One node after the other is notified, without its tasks_mutex. *)
StopWake ==
  /\ cpc = "wake"
  /\ NotifyAllOn(at)
  /\ IF at = LastNode THEN cpc' = "poll" /\ at' = 0 ELSE UNCHANGED cpc /\ at' = at + 1
  /\ UNCHANGED <<poolVars, validThreadCount, nodeVars, workerVars, flagVars, monVars,
                 prodVars, policy, starts, taskVars, crashed>>

(* TaskCount() sums the queues node by node, each under its mutex; the     *)
(* poll starts again when the sum is positive, unless the timeout is over. *)
StopPoll ==
  /\ cpc = "poll" /\ (policy # "Immediate" => NodeMutexFree(at))
  /\ IF policy = "Immediate" THEN cpc' = "lock" /\ UNCHANGED at
     ELSE IF queue[at] # <<>>
       THEN /\ cpc' \in IF policy = "WaitForTimeout" THEN {"poll", "lock"} ELSE {"poll"}
            /\ at' = 0
     ELSE IF at = LastNode THEN cpc' = "lock" /\ at' = 0
                           ELSE UNCHANGED cpc /\ at' = at + 1
  /\ UNCHANGED <<poolVars, validThreadCount, nodeVars, workerVars, flagVars, wpc,
                 monVars, prodVars, policy, starts, taskVars, crashed>>

StopLock ==
  /\ cpc = "lock"
  /\ cpc' = "join" /\ at' = 1
  /\ UNCHANGED <<poolVars, validThreadCount, nodeVars, workerVars, flagVars, wpc,
                 monVars, prodVars, policy, starts, taskVars, crashed>>

(* Only a worker that is valid at this moment is marked and joined. *)
StopMark ==
  /\ cpc = "join" /\ at <= size
  /\ IF at \in valid \cap joinable
       THEN cpc' = "joining" /\ exiting' = exiting \cup {at} /\ UNCHANGED at
       ELSE at' = at + 1 /\ UNCHANGED <<cpc, exiting>>
  /\ UNCHANGED <<poolVars, validThreadCount, nodeVars, workerVars, valid, idle, wpc,
                 monVars, prodVars, policy, starts, taskVars, crashed>>

JoinReturns == wpc[at] \in Ended

StopJoin ==
  /\ cpc = "joining"
  /\ JoinReturns
  /\ joinable' = joinable \ {at}
  /\ cpc' = "join" /\ at' = at + 1
  /\ UNCHANGED <<poolVars, validThreadCount, nodeVars, size, capacity, stale, flagVars,
                 wpc, monVars, prodVars, policy, starts, taskVars, crashed>>

(* Mutant: ~Thread does not join. *)
DestructorsSkip == TRUE

(* ~Thread joins what is still JOINABLE, in workers_.clear(). *)
DestructorsReturn == \A i \in joinable : wpc[i] \in Ended

StopClear ==
  /\ cpc = "join" /\ at > size
  /\ DestructorsReturn
  /\ size' = 0
  /\ valid' = {} /\ exiting' = {} /\ idle' = {} /\ joinable' = {} /\ stale' = {}
  /\ wpc' = [i \in Slots |-> "none"]
  /\ validThreadCount' = 0
  /\ cpc' = "drop" /\ at' = 0
  /\ UNCHANGED <<poolVars, nodeVars, capacity, monVars, prodVars, policy, starts,
                 taskVars, crashed>>

(* The tasks of one node after the other are popped. *)
StopDrop ==
  /\ cpc = "drop"
  /\ NodeMutexFree(at)
  /\ queue' = [queue EXCEPT ![at] = <<>>]
  /\ fate' = [t \in Tasks |-> IF fate[t] = "queued" /\ target[t] = at
                                THEN "discarded" ELSE fate[t]]
  /\ IF at = LastNode THEN cpc' = "idle" /\ at' = 0 ELSE UNCHANGED cpc /\ at' = at + 1
  /\ UNCHANGED <<poolVars, validThreadCount, nodeVars, workerVars, flagVars, wpc,
                 monVars, prodVars, policy, starts, held, target, crashed>>

StopStep ==
  \/ StopSignalMonitor \/ StopJoinMonitor \/ StopHalt \/ StopWake
  \/ StopPoll \/ StopLock \/ StopMark \/ StopJoin \/ StopClear
  \/ StopDrop

-----------------------------------------------------------------------------
Next ==
  /\ ~crashed
  /\ \/ \E i \in Slots : WorkerStep(i) \/ WorkerSpuriousWakeup(i) \/ WorkerFault(i)
     \/ MonitorStep
     \/ \E p \in Producers :
          \/ \E t \in Tasks, n \in Nodes : Enqueue(p, t, n) \/ EnqueueToNumaNode(p, t, n)
          \/ EnqueueStep(p)
     \/ StartCall \/ StartStep \/ StartFails
     \/ \E pol \in Policies : StopCall(pol)
     \/ StopStep

Spec == Init /\ [][Next]_vars

(* Every thread is scheduled, calls that have begun go on, tasks end and   *)
(* timeouts expire.  A monitor that finds a node overloaded does not sleep *)
(* and takes the tasks_mutex of that node again and again, so a worker or  *)
(* producer needs the mutex to be granted at some time to a thread that    *)
(* keeps asking for it.  Nobody must call Start, Stop or Enqueue.          *)
FairSpec == /\ Spec
            /\ \A i \in Slots : SF_vars(~crashed /\ WorkerStep(i))
            /\ WF_vars(~crashed /\ MonitorStep)
            /\ \A p \in Producers : SF_vars(~crashed /\ EnqueueStep(p))
            /\ WF_vars(~crashed /\ StartStep)
            /\ WF_vars(~crashed /\ StopStep)
=============================================================================
