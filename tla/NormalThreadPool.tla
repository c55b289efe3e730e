-------------------------- MODULE NormalThreadPool --------------------------
(***************************************************************************)
(* NormalThreadPool of thread_pool.hpp: one task queue, a vector of worker *)
(* slots, a monitor thread that grows and shrinks the pool, the thread     *)
(* that calls Start and Stop (the controller) and the threads that call    *)
(* Enqueue (the producers).                                                *)
(*                                                                         *)
(* Locks.  A critical section whose body touches the shared state once is  *)
(* one action guarded by the mutex being free.  The two mutexes that are   *)
(* held across several steps are free unless their holder is at one of     *)
(* those steps:                                                            *)
(*   global_mutex_  by a worker whose wait predicate was false and that    *)
(*                  has not yet blocked in pthread_cond_wait ("parking");  *)
(*   worker_mutex_  by Stop, from the first join until it returns.         *)
(* monitor_mutex_ is taken by the monitor alone.                           *)
(*                                                                         *)
(* Time is abstracted: any timeout may expire, and any idle worker may     *)
(* have been idle for idle_threshold_, at any moment.                      *)
(***************************************************************************)
EXTENDS Integers, Sequences, FiniteSets

CONSTANTS
  Tasks,                \* the tasks the producers enqueue, each once
  Producers,            \* the threads that call Enqueue
  NoTask,               \* an empty std::function
  HardwareConcurrency,  \* Thread::HardwareConcurrency(), 0 when sysconf fails
  ExpandThreshold,      \* expand_threshold_, 5 in the code
  Policies,             \* the shutdown policies the controller may pass
  TasksMayThrow,        \* may an exception derived from std::exception leave a task?
  SpawnMayFail,         \* may pthread_create fail?
  SpuriousWakeups,      \* may pthread_cond_wait return without a signal?
  MaxStarts             \* bound: how often the controller calls Start

ASSUME PoolAssumption ==
  /\ NoTask \notin Tasks
  /\ HardwareConcurrency \in Nat
  /\ ExpandThreshold \in Nat
  /\ Policies \subseteq {"WaitForAll", "WaitForTimeout", "Immediate"}
  /\ {TasksMayThrow, SpawnMayFail, SpuriousWakeups} \subseteq BOOLEAN
  /\ MaxStarts \in Nat

ExpandFactor == 2
MinThreads == HardwareConcurrency
MaxThreads == ExpandFactor * HardwareConcurrency
Slots == 1 .. MaxThreads

VARIABLES
  (* the members of the pool *)
  running, monitoring,  \* running_, monitoring_
  tasks,                \* tasks_
  validThreadCount,     \* valid_thread_count_
  size, capacity,       \* workers_.size(), workers_.capacity()
  (* the Worker objects: the slots whose flag is true *)
  valid, exiting, idle, \* is_valid, should_exit, is_idle
  joinable,             \* the slots whose Thread is in state JOINABLE
  stale,                \* the slots whose worker holds a reference into a freed buffer
  (* the threads *)
  wpc, held,            \* each worker: where it is, the task it runs
  mpc, need,            \* the monitor, and its count of threads to remove or create
  ppc, hand,            \* each producer, and the task it is enqueueing
  cpc, policy, joinIdx, \* the controller, Stop's argument and its loop index
  starts,               \* how often Start was called (for MaxStarts)
  crashed,              \* a stale reference brought the process down
  fate                  \* history: what has become of each task

poolVars   == <<running, monitoring>>
workerVars == <<size, capacity, joinable, stale>>
flagVars   == <<valid, exiting, idle>>
monVars    == <<mpc, need>>
prodVars   == <<ppc, hand>>
ctlVars    == <<cpc, policy, joinIdx, starts>>
taskVars   == <<tasks, held, fate>>
vars == <<poolVars, validThreadCount, workerVars, flagVars, wpc, monVars,
          prodVars, ctlVars, taskVars, crashed>>

(* Worker positions after its Thread's entry function has returned, those  *)
(* at which it holds its reference into workers_, and those at which the   *)
(* next step goes through the reference.                                   *)
Ended == {"returned", "threw"}
Bound == {"count", "test", "lock", "parking", "waiting", "woke", "pop", "run",
          "retire"}
Derefs == {"test", "lock", "woke", "retire"}
WorkerPCs == Bound \cup Ended \cup {"none", "entry", "bind", "uncount"}

(* Mutant: the constructor does not reserve. *)
NoReserve == 0
Reserved == MinThreads

Init ==
  /\ running = FALSE /\ monitoring = FALSE
  /\ tasks = <<>>
  /\ validThreadCount = 0
  /\ size = 0 /\ capacity = Reserved
  /\ valid = {} /\ exiting = {} /\ idle = {}
  /\ joinable = {} /\ stale = {}
  /\ wpc = [i \in Slots |-> "none"]
  /\ held = [i \in Slots |-> NoTask]
  /\ mpc = "none" /\ need = 0
  /\ ppc = [p \in Producers |-> "idle"]
  /\ hand = [p \in Producers |-> NoTask]
  /\ cpc = "idle" /\ policy = "WaitForAll" /\ joinIdx = 1
  /\ starts = 0
  /\ crashed = FALSE
  /\ fate = [t \in Tasks |-> "new"]

-----------------------------------------------------------------------------
(* Locks and condition variables *)

GlobalMutexFree == \A i \in Slots : wpc[i] # "parking"
WorkerMutexFree == cpc \notin {"join", "drop"}

Waiting == {i \in Slots : wpc[i] = "waiting"}

(* global_cond_.NotifyAll(): every waiter goes on to reacquire the mutex. *)
NotifyAllWorkers ==
  wpc' = [i \in Slots |-> IF wpc[i] = "waiting" THEN "lock" ELSE wpc[i]]

(* global_cond_.NotifyOne(): one waiter does, and nothing is remembered    *)
(* when there is none.                                                     *)
NotifyOneWorker ==
  IF Waiting = {} THEN UNCHANGED wpc
  ELSE \E i \in Waiting : wpc' = [wpc EXCEPT ![i] = "lock"]

(* monitor_cond_.NotifyOne() *)
NotifyMonitor == mpc' = IF mpc = "blocked" THEN "wait" ELSE mpc

Go(i, from, to) == wpc[i] = from /\ wpc' = [wpc EXCEPT ![i] = to]

-----------------------------------------------------------------------------
(* WorkerLoop, and ThreadEntry around it *)

(* The check under worker_mutex_ that the slot of this worker exists. *)
WorkerEnter(i) ==
  /\ WorkerMutexFree
  /\ Go(i, "entry", IF i > size THEN "returned" ELSE "bind")
  /\ UNCHANGED <<poolVars, validThreadCount, workerVars, flagVars, monVars,
                 prodVars, ctlVars, taskVars, crashed>>

(* The reference to workers_[worker_index] is bound without the mutex. *)
WorkerRegister(i) ==
  /\ Go(i, "bind", "count")
  /\ valid' = valid \cup {i}
  /\ UNCHANGED <<poolVars, validThreadCount, workerVars, exiting, idle, monVars,
                 prodVars, ctlVars, taskVars, crashed>>

WorkerCount(i) ==
  /\ Go(i, "count", "test")
  /\ validThreadCount' = validThreadCount + 1
  /\ UNCHANGED <<poolVars, workerVars, flagVars, monVars, prodVars, ctlVars,
                 taskVars, crashed>>

(* The condition of the while loop, then is_idle = true. *)
WorkerStay(i) ==
  /\ i \notin exiting /\ running
  /\ Go(i, "test", "lock")
  /\ idle' = idle \cup {i}
  /\ UNCHANGED <<poolVars, validThreadCount, workerVars, valid, exiting,
                 monVars, prodVars, ctlVars, taskVars, crashed>>

WorkerLeave(i) ==
  /\ i \in exiting \/ ~running
  /\ Go(i, "test", "retire")
  /\ UNCHANGED <<poolVars, validThreadCount, workerVars, flagVars, monVars,
                 prodVars, ctlVars, taskVars, crashed>>

WaitPredicate(i) == tasks # <<>> \/ i \in exiting \/ ~running

(* One evaluation of the predicate of Wait under global_mutex_: the mutex  *)
(* is released when it holds and kept on the way to pthread_cond_wait when *)
(* it does not.                                                            *)
WorkerCheck(i) ==
  /\ GlobalMutexFree
  /\ Go(i, "lock", IF WaitPredicate(i) THEN "woke" ELSE "parking")
  /\ UNCHANGED <<poolVars, validThreadCount, workerVars, flagVars, monVars,
                 prodVars, ctlVars, taskVars, crashed>>

(* pthread_cond_wait releases global_mutex_ and enters the wait set. *)
WorkerPark(i) ==
  /\ Go(i, "parking", "waiting")
  /\ UNCHANGED <<poolVars, validThreadCount, workerVars, flagVars, monVars,
                 prodVars, ctlVars, taskVars, crashed>>

WorkerSpuriousWakeup(i) ==
  /\ SpuriousWakeups
  /\ Go(i, "waiting", "lock")
  /\ UNCHANGED <<poolVars, validThreadCount, workerVars, flagVars, monVars,
                 prodVars, ctlVars, taskVars, crashed>>

WorkerBusy(i) ==
  /\ Go(i, "woke", "pop")
  /\ idle' = idle \ {i}
  /\ UNCHANGED <<poolVars, validThreadCount, workerVars, valid, exiting,
                 monVars, prodVars, ctlVars, taskVars, crashed>>

NextTask == Head(tasks)

(* Mutant: the front task is moved out and not popped. *)
TasksNotPopped == tasks
TasksAfterPop == Tail(tasks)

WorkerPop(i) ==
  /\ GlobalMutexFree
  /\ tasks # <<>>
  /\ Go(i, "pop", "run")
  /\ held' = [held EXCEPT ![i] = NextTask]
  /\ tasks' = TasksAfterPop
  /\ fate' = [fate EXCEPT ![NextTask] = "running"]
  /\ UNCHANGED <<poolVars, validThreadCount, workerVars, flagVars, monVars,
                 prodVars, ctlVars, crashed>>

(* Another worker took the task: task stays empty and is not called. *)
WorkerPopNothing(i) ==
  /\ GlobalMutexFree
  /\ tasks = <<>>
  /\ Go(i, "pop", "test")
  /\ UNCHANGED <<poolVars, validThreadCount, workerVars, flagVars, monVars,
                 prodVars, ctlVars, taskVars, crashed>>

(* The call of the task ends with outcome how. *)
EndTask(i, how) ==
  /\ held' = [held EXCEPT ![i] = NoTask]
  /\ fate' = [fate EXCEPT ![held[i]] = how]
  /\ UNCHANGED <<poolVars, tasks, validThreadCount, workerVars, flagVars,
                 monVars, prodVars, ctlVars, crashed>>

WorkerFinish(i) == Go(i, "run", "test") /\ EndTask(i, "finished")

(* The exception leaves WorkerLoop, so is_valid stays true and the count   *)
(* is not decremented; ThreadEntry catches it and the thread ends.         *)
WorkerThrow(i) ==
  /\ TasksMayThrow
  /\ Go(i, "run", "threw")
  /\ EndTask(i, "threw")

(* Mutant: the worker leaves without fetch_sub. *)
WorkerRetireCounted(i) ==
  /\ Go(i, "retire", "returned")
  /\ valid' = valid \ {i}
  /\ idle' = idle \ {i}
  /\ UNCHANGED <<poolVars, validThreadCount, workerVars, exiting, monVars,
                 prodVars, ctlVars, taskVars, crashed>>

WorkerRetire(i) ==
  /\ Go(i, "retire", "uncount")
  /\ valid' = valid \ {i}
  /\ idle' = idle \ {i}
  /\ UNCHANGED <<poolVars, validThreadCount, workerVars, exiting, monVars,
                 prodVars, ctlVars, taskVars, crashed>>

WorkerUncount(i) ==
  /\ Go(i, "uncount", "returned")
  /\ validThreadCount' = validThreadCount - 1
  /\ UNCHANGED <<poolVars, workerVars, flagVars, monVars, prodVars, ctlVars,
                 taskVars, crashed>>

(* A worker goes through its reference after push_back has moved the       *)
(* vector.  The build may still find the old pointer in the freed buffer   *)
(* (the other actions) or fault.                                           *)
WorkerFault(i) ==
  /\ i \in stale
  /\ wpc[i] \in Derefs
  /\ crashed' = TRUE
  /\ UNCHANGED <<poolVars, validThreadCount, workerVars, flagVars, wpc, monVars,
                 prodVars, ctlVars, taskVars>>

(* What the scheduler runs for the thread in slot i. *)
WorkerStep(i) ==
  \/ WorkerEnter(i) \/ WorkerRegister(i) \/ WorkerCount(i)
  \/ WorkerStay(i) \/ WorkerLeave(i)
  \/ WorkerCheck(i) \/ WorkerPark(i) \/ WorkerBusy(i)
  \/ WorkerPop(i) \/ WorkerPopNothing(i)
  \/ WorkerFinish(i) \/ WorkerThrow(i)
  \/ WorkerRetire(i) \/ WorkerUncount(i)

-----------------------------------------------------------------------------
(* Creating workers: Start and ExpandThreads *)

(* k times: create a Worker, start its thread, push it to workers_.  The   *)
(* vector doubles when it is full, which leaves every reference into the   *)
(* old buffer stale.                                                       *)
AddWorkers(k) ==
  LET new == size + 1 .. size + k
      moves == size + k > capacity
  IN /\ size' = size + k
     /\ joinable' = joinable \cup new
     /\ wpc' = [i \in Slots |-> IF i \in new THEN "entry" ELSE wpc[i]]
     /\ capacity' = IF moves THEN 2 * capacity ELSE capacity
     /\ stale' = IF moves THEN stale \cup {i \in Slots : wpc[i] \in Bound}
                          ELSE stale

-----------------------------------------------------------------------------
(* MonitorLoop, ShrinkThreads, ExpandThreads.  AdjustCheckInterval only    *)
(* chooses the timeout of the wait; MonitorInterval models it.             *)

Overloaded == Len(tasks) > validThreadCount * ExpandThreshold

MonitorTop ==
  /\ mpc = "top"
  /\ mpc' = IF monitoring /\ running THEN "shrink" ELSE "done"
  /\ UNCHANGED <<poolVars, validThreadCount, workerVars, flagVars, wpc, need,
                 prodVars, ctlVars, taskVars, crashed>>

(* ShrinkThreads reads valid_thread_count_ before it takes worker_mutex_. *)
MonitorReadSurplus ==
  /\ mpc = "shrink"
  /\ IF validThreadCount <= MinThreads
       THEN mpc' = "decide" /\ UNCHANGED need
       ELSE mpc' = "mark" /\ need' = validThreadCount - MinThreads
  /\ UNCHANGED <<poolVars, validThreadCount, workerVars, flagVars, wpc,
                 prodVars, ctlVars, taskVars, crashed>>

(* The marking loop stops after need workers; which of the idle workers    *)
(* have been idle for long enough is left open.                            *)
MonitorMark ==
  /\ mpc = "mark"
  /\ WorkerMutexFree
  /\ \E S \in SUBSET {i \in 1 .. size : i \in valid /\ i \in idle} :
       /\ Cardinality(S) <= need
       /\ exiting' = exiting \cup S
  /\ NotifyAllWorkers
  /\ mpc' = "decide"
  /\ UNCHANGED <<poolVars, validThreadCount, workerVars, valid, idle, need,
                 prodVars, ctlVars, taskVars, crashed>>

MonitorDecide ==
  /\ mpc = "decide"
  /\ GlobalMutexFree
  /\ mpc' = IF Overloaded THEN "expand" ELSE "wait"
  /\ UNCHANGED <<poolVars, validThreadCount, workerVars, flagVars, wpc, need,
                 prodVars, ctlVars, taskVars, crashed>>

Smaller(a, b) == IF a < b THEN a ELSE b

(* ExpandThreads computes the number of threads to create before it takes  *)
(* worker_mutex_; with no counted thread, or with the maximum, it returns. *)
MonitorReadDeficit ==
  /\ mpc = "expand"
  /\ LET target == Smaller(validThreadCount * ExpandFactor, MaxThreads)
     IN IF validThreadCount >= MaxThreads \/ target <= validThreadCount
          THEN mpc' = "wait" /\ UNCHANGED need
          ELSE mpc' = "grow" /\ need' = target - validThreadCount
  /\ UNCHANGED <<poolVars, validThreadCount, workerVars, flagVars, wpc,
                 prodVars, ctlVars, taskVars, crashed>>

InvalidSlots == (1 .. size) \ valid

(* The first slot that is not valid is to be restarted.  Its Thread is     *)
(* still JOINABLE (SlotsJoinable below), so Thread::Start throws; nothing  *)
(* in MonitorLoop catches it and the monitor thread ends.                  *)
MonitorRestartSlot ==
  /\ mpc = "grow"
  /\ WorkerMutexFree
  /\ \E i \in InvalidSlots :
       /\ \A j \in InvalidSlots : i <= j
       /\ i \in joinable
       /\ exiting' = exiting \ {i}
  /\ mpc' = "dead"
  /\ UNCHANGED <<poolVars, validThreadCount, workerVars, valid, idle, wpc, need,
                 prodVars, ctlVars, taskVars, crashed>>

(* Mutant: the comparison of workers_.size() with max_threads_ is missing. *)
AppendCountUnbounded(n) == n
AppendCount(n) == Smaller(n, MaxThreads - size)

(* Every slot is valid: new workers are appended while there is room. *)
MonitorAppend ==
  /\ mpc = "grow"
  /\ WorkerMutexFree
  /\ InvalidSlots = {}
  /\ AddWorkers(AppendCount(need))
  /\ mpc' = "wait"
  /\ UNCHANGED <<poolVars, validThreadCount, flagVars, need, prodVars, ctlVars,
                 taskVars, crashed>>

(* Mutant: a Worker is pushed before its thread is started. *)
MonitorPushesFirst ==
  /\ SpawnMayFail
  /\ mpc = "grow"
  /\ WorkerMutexFree
  /\ InvalidSlots = {}
  /\ AppendCount(need) > 0
  /\ size' = size + 1
  /\ mpc' = "dead"
  /\ UNCHANGED <<poolVars, validThreadCount, capacity, joinable, stale, flagVars,
                 wpc, need, prodVars, ctlVars, taskVars, crashed>>

(* The same, but pthread_create fails for the worker after the k-th. *)
MonitorAppendFails ==
  /\ SpawnMayFail
  /\ mpc = "grow"
  /\ WorkerMutexFree
  /\ InvalidSlots = {}
  /\ \E k \in 0 .. AppendCount(need) - 1 : AddWorkers(k)
  /\ mpc' = "dead"
  /\ UNCHANGED <<poolVars, validThreadCount, flagVars, need, prodVars, ctlVars,
                 taskVars, crashed>>

(* The predicate of WaitFor. *)
MonitorCheck ==
  /\ mpc = "wait"
  /\ GlobalMutexFree
  /\ mpc' = IF ~monitoring \/ ~running \/ Overloaded THEN "top" ELSE "parking"
  /\ UNCHANGED <<poolVars, validThreadCount, workerVars, flagVars, wpc, need,
                 prodVars, ctlVars, taskVars, crashed>>

MonitorPark ==
  /\ mpc = "parking"
  /\ mpc' = "blocked"
  /\ UNCHANGED <<poolVars, validThreadCount, workerVars, flagVars, wpc, need,
                 prodVars, ctlVars, taskVars, crashed>>

(* Mutant: Wait instead of WaitFor. *)
MonitorNoTimeout == FALSE /\ UNCHANGED vars

MonitorTimeout ==
  /\ mpc = "blocked"
  /\ mpc' = "top"
  /\ UNCHANGED <<poolVars, validThreadCount, workerVars, flagVars, wpc, need,
                 prodVars, ctlVars, taskVars, crashed>>

MonitorSpuriousWakeup ==
  /\ SpuriousWakeups
  /\ mpc = "blocked"
  /\ mpc' = "wait"
  /\ UNCHANGED <<poolVars, validThreadCount, workerVars, flagVars, wpc, need,
                 prodVars, ctlVars, taskVars, crashed>>

MonitorStep ==
  \/ MonitorTop \/ MonitorReadSurplus \/ MonitorMark \/ MonitorDecide
  \/ MonitorReadDeficit \/ MonitorRestartSlot \/ MonitorAppend
  \/ MonitorAppendFails \/ MonitorCheck \/ MonitorPark \/ MonitorTimeout

-----------------------------------------------------------------------------
(* Enqueue *)

(* Mutant: the test of running_ is missing. *)
EnqueueUntested(p, t) ==
  /\ ppc[p] = "idle"
  /\ fate[t] = "new"
  /\ ppc' = [ppc EXCEPT ![p] = "push"]
  /\ hand' = [hand EXCEPT ![p] = t]
  /\ fate' = [fate EXCEPT ![t] = "inflight"]
  /\ UNCHANGED <<poolVars, tasks, held, validThreadCount, workerVars, flagVars,
                 wpc, monVars, ctlVars, crashed>>

(* running_ is tested without a lock. *)
EnqueueCall(p, t) ==
  /\ ppc[p] = "idle"
  /\ fate[t] = "new"
  /\ running
  /\ ppc' = [ppc EXCEPT ![p] = "push"]
  /\ hand' = [hand EXCEPT ![p] = t]
  /\ fate' = [fate EXCEPT ![t] = "inflight"]
  /\ UNCHANGED <<poolVars, tasks, held, validThreadCount, workerVars, flagVars,
                 wpc, monVars, ctlVars, crashed>>

EnqueueThrows(p, t) ==
  /\ ppc[p] = "idle"
  /\ fate[t] = "new"
  /\ ~running
  /\ fate' = [fate EXCEPT ![t] = "rejected"]
  /\ UNCHANGED <<poolVars, tasks, held, validThreadCount, workerVars, flagVars,
                 wpc, monVars, prodVars, ctlVars, crashed>>

EnqueuePush(p) ==
  /\ ppc[p] = "push"
  /\ GlobalMutexFree
  /\ tasks' = Append(tasks, hand[p])
  /\ fate' = [fate EXCEPT ![hand[p]] = "queued"]
  /\ hand' = [hand EXCEPT ![p] = NoTask]
  /\ ppc' = [ppc EXCEPT ![p] = "notify"]
  /\ UNCHANGED <<poolVars, held, validThreadCount, workerVars, flagVars, wpc,
                 monVars, ctlVars, crashed>>

(* Mutant: Enqueue does not notify. *)
EnqueueForgetsNotify(p) ==
  /\ ppc[p] = "notify"
  /\ ppc' = [ppc EXCEPT ![p] = "hint"]
  /\ UNCHANGED <<poolVars, validThreadCount, workerVars, flagVars, wpc, monVars,
                 hand, ctlVars, taskVars, crashed>>

EnqueueNotify(p) ==
  /\ ppc[p] = "notify"
  /\ NotifyOneWorker
  /\ ppc' = [ppc EXCEPT ![p] = "hint"]
  /\ UNCHANGED <<poolVars, validThreadCount, workerVars, flagVars, monVars,
                 hand, ctlVars, taskVars, crashed>>

(* tasks_.size() is read without a lock while others write: either outcome *)
(* of the comparison is possible.                                          *)
EnqueueHint(p) ==
  /\ ppc[p] = "hint"
  /\ NotifyMonitor \/ UNCHANGED mpc
  /\ ppc' = [ppc EXCEPT ![p] = "idle"]
  /\ UNCHANGED <<poolVars, validThreadCount, workerVars, flagVars, wpc, need,
                 hand, ctlVars, taskVars, crashed>>

EnqueueStep(p) == EnqueuePush(p) \/ EnqueueNotify(p) \/ EnqueueHint(p)

-----------------------------------------------------------------------------
(* Start and Stop, called by one controller.  A call that throws at once   *)
(* because of running_ changes nothing and is not a step.                  *)

StartCall ==
  /\ cpc = "idle" /\ ~running /\ starts < MaxStarts
  /\ running' = TRUE
  /\ starts' = starts + 1
  /\ cpc' = "spawn"
  /\ UNCHANGED <<monitoring, validThreadCount, workerVars, flagVars, wpc,
                 monVars, prodVars, policy, joinIdx, taskVars, crashed>>

(* The new workers are kept at their entry by worker_mutex_ until Start    *)
(* has also started the monitor.                                           *)
StartSpawn ==
  /\ cpc = "spawn"
  /\ WorkerMutexFree
  /\ AddWorkers(MinThreads)
  /\ monitoring' = TRUE
  /\ mpc' = "top"
  /\ cpc' = "idle"
  /\ UNCHANGED <<running, validThreadCount, flagVars, need, prodVars, policy,
                 joinIdx, starts, taskVars, crashed>>

(* pthread_create fails after k workers, or for the monitor: Start throws  *)
(* and leaves what it has done.                                            *)
StartFails ==
  /\ SpawnMayFail
  /\ cpc = "spawn"
  /\ WorkerMutexFree
  /\ \E k \in 0 .. MinThreads : AddWorkers(k) /\ monitoring' = (k = MinThreads)
  /\ cpc' = "idle"
  /\ UNCHANGED <<running, validThreadCount, flagVars, monVars, prodVars, policy,
                 joinIdx, starts, taskVars, crashed>>

StopCall(pol) ==
  /\ cpc = "idle" /\ running
  /\ monitoring' = FALSE
  /\ policy' = pol
  /\ cpc' = "signal"
  /\ UNCHANGED <<running, validThreadCount, workerVars, flagVars, wpc, monVars,
                 prodVars, joinIdx, starts, taskVars, crashed>>

(* monitor_cond_.NotifyOne() without monitor_mutex_. *)
StopSignalMonitor ==
  /\ cpc = "signal"
  /\ NotifyMonitor
  /\ cpc' = "joinmon"
  /\ UNCHANGED <<poolVars, validThreadCount, workerVars, flagVars, wpc, need,
                 prodVars, policy, joinIdx, starts, taskVars, crashed>>

(* A monitor that was never started is not joined. *)
StopJoinMonitor ==
  /\ cpc = "joinmon"
  /\ mpc \in {"none", "done", "dead"}
  /\ mpc' = "none"
  /\ cpc' = "halt"
  /\ UNCHANGED <<poolVars, validThreadCount, workerVars, flagVars, wpc, need,
                 prodVars, policy, joinIdx, starts, taskVars, crashed>>

StopHalt ==
  /\ cpc = "halt"
  /\ running' = FALSE
  /\ cpc' = "wakeall"
  /\ UNCHANGED <<monitoring, validThreadCount, workerVars, flagVars, wpc,
                 monVars, prodVars, policy, joinIdx, starts, taskVars, crashed>>

(* Mutant: NotifyAll is missing. *)
StopForgetsWake ==
  /\ cpc = "wakeall"
  /\ cpc' = "poll"
  /\ UNCHANGED <<poolVars, validThreadCount, workerVars, flagVars, wpc, monVars,
                 prodVars, policy, joinIdx, starts, taskVars, crashed>>

(* global_cond_.NotifyAll() without global_mutex_. *)
StopWakeAll ==
  /\ cpc = "wakeall"
  /\ NotifyAllWorkers
  /\ cpc' = "poll"
  /\ UNCHANGED <<poolVars, validThreadCount, workerVars, flagVars, monVars,
                 prodVars, policy, joinIdx, starts, taskVars, crashed>>

(* WaitForAll polls until the queue is empty, WaitForTimeout until it is   *)
(* or the timeout has elapsed, Immediate does not poll.                    *)
PollEnds ==
  \/ policy = "Immediate"
  \/ GlobalMutexFree /\ (tasks = <<>> \/ policy = "WaitForTimeout")

StopPoll ==
  /\ cpc = "poll"
  /\ PollEnds
  /\ cpc' = "lock"
  /\ UNCHANGED <<poolVars, validThreadCount, workerVars, flagVars, wpc, monVars,
                 prodVars, policy, joinIdx, starts, taskVars, crashed>>

StopLock ==
  /\ cpc = "lock"
  /\ WorkerMutexFree
  /\ cpc' = "join"
  /\ joinIdx' = 1
  /\ UNCHANGED <<poolVars, validThreadCount, workerVars, flagVars, wpc, monVars,
                 prodVars, policy, starts, taskVars, crashed>>

(* Mutant: pthread_join is skipped. *)
JoinSkipped(i) == TRUE
JoinReturns(i) == i \in joinable => wpc[i] \in Ended

(* One worker is joined, in the order of the vector. *)
StopJoin ==
  /\ cpc = "join" /\ joinIdx <= size
  /\ JoinReturns(joinIdx)
  /\ joinable' = joinable \ {joinIdx}
  /\ exiting' = exiting \cup ({joinIdx} \cap joinable)
  /\ joinIdx' = joinIdx + 1
  /\ UNCHANGED <<poolVars, validThreadCount, size, capacity, stale, valid, idle,
                 wpc, monVars, prodVars, cpc, policy, starts, taskVars, crashed>>

(* Mutant: valid_thread_count_ is not reset. *)
CountKept == validThreadCount
CountAfterClear == 0

(* workers_.clear() keeps the buffer; no destructor finds a joinable       *)
(* thread.                                                                 *)
StopClear ==
  /\ cpc = "join" /\ joinIdx > size
  /\ size' = 0
  /\ valid' = {} /\ exiting' = {} /\ idle' = {}
  /\ joinable' = {} /\ stale' = {}
  /\ wpc' = [i \in Slots |-> "none"]
  /\ validThreadCount' = CountAfterClear
  /\ cpc' = "drop"
  /\ UNCHANGED <<poolVars, capacity, monVars, prodVars, policy, joinIdx, starts,
                 taskVars, crashed>>

(* The queue is replaced by an empty one and Stop returns. *)
StopDrop ==
  /\ cpc = "drop"
  /\ GlobalMutexFree
  /\ tasks' = <<>>
  /\ fate' = [t \in Tasks |-> IF fate[t] = "queued" THEN "discarded" ELSE fate[t]]
  /\ cpc' = "idle"
  /\ UNCHANGED <<poolVars, held, validThreadCount, workerVars, flagVars, wpc,
                 monVars, prodVars, policy, joinIdx, starts, crashed>>

StopStep ==
  \/ StopSignalMonitor \/ StopJoinMonitor \/ StopHalt \/ StopWakeAll
  \/ StopPoll \/ StopLock \/ StopJoin \/ StopClear \/ StopDrop

-----------------------------------------------------------------------------
Next ==
  /\ ~crashed
  /\ \/ \E i \in Slots : \/ WorkerStep(i)
                         \/ WorkerSpuriousWakeup(i)
                         \/ WorkerFault(i)
     \/ MonitorStep \/ MonitorSpuriousWakeup
     \/ \E p \in Producers : \/ \E t \in Tasks : EnqueueCall(p, t) \/ EnqueueThrows(p, t)
                             \/ EnqueueStep(p)
     \/ StartCall \/ StartSpawn \/ StartFails
     \/ \E pol \in Policies : StopCall(pol)
     \/ StopStep

Spec == Init /\ [][Next]_vars

(* Every thread that can take a step is eventually scheduled, a call that  *)
(* has begun goes on, every task ends and every timeout expires; nobody is *)
(* obliged to call Start, Stop or Enqueue.                                 *)
FairSpec == /\ Spec
            /\ \A i \in Slots : WF_vars(~crashed /\ WorkerStep(i))
            /\ WF_vars(~crashed /\ MonitorStep)
            /\ \A p \in Producers : WF_vars(~crashed /\ EnqueueStep(p))
            /\ WF_vars(~crashed /\ StartSpawn)
            /\ WF_vars(~crashed /\ StopStep)
=============================================================================
