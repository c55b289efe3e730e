# Verification of the congzhi thread pools

This directory models, in TLA+, the two thread pools of `src/thread_pool.hpp`,
the `Thread` of `src/pthread_wrapper.hpp` and the memory functions of
`src/numa_namespace.hpp`.  TLC checks small instances; TLAPS proves the safety of
both pools, of the monitor's interval, of what a `Thread` records and reclaims and
of the memory functions, for every number of tasks, producers, hardware threads,
nodes, objects and callers and for every page size.
`PROJECT.json` maps every definition to the lines it stands for and lists the
runs, the hazards, the findings and the theorems.

## 1. The system

All of the library is in headers: `thread_pool.hpp` (the pools),
`pthread_wrapper.hpp` (mutexes, condition variables, threads) and
`numa_namespace.hpp` (libnuma queries and page rounding).

| Component | State | Operations | What must be true |
|---|---|---|---|
| `ThreadPool` (interface) | none | `Start`, `Stop(policy, timeout)`, `Enqueue`, `Submit` | an accepted task is started at most once and in order, or discarded by `Stop` when nothing runs |
| `NormalThreadPool` | `tasks_`, `workers_` (each with `is_valid`, `should_exit`, `is_idle`, a `Thread`), `valid_thread_count_`, `running_`, `monitoring_`, three mutexes, two condition variables | the interface, `WorkerLoop`, `MonitorLoop`, `ShrinkThreads`, `ExpandThreads`, `AdjustCheckInterval` | no task lost, doubled or reordered; exact count; bounded vector; `Stop` leaves nothing; the monitor is joined |
| `NumaThreadPool` | per node a queue, its mutex, its condition variable, `thread_count`; one vector of workers | the same, and `EnqueueToNumaNode` | the same per node; tasks run on the node they were sent to; limits per node |
| `Thread` | a shared `ThreadProperty`: state INVALID / JOINABLE / DETACHED / TERMINATED, `is_complete`, destructor action, handle, mutex | `Start`, `SetDtorAction`, `Join`, `Detach`, `Cancel`, `Terminate`, moves, `Swap`, destructor; `ThreadEntry` in the new thread | every thread is joined once or detached, no dead handle is used, the recorded state agrees with the thread, joins return |
| `Mutex`, `SharedMutex`, `LockGuard`, `ConditionVariable` | the pthread objects | lock, wait with predicate, timed wait, notify | a waiter rechecks its predicate; notifications are not remembered |
| `ThreadAttribute`, `this_thread` | a `pthread_attr_t`; none | getters, setters, sleep, yield | - |
| `numa` namespace | none of its own; pages and their node in the kernel | node queries, binding, allocation, migration, release, `RoundUpToPageSize` | pages mapped are those of live blocks, migration moves nothing else, only usable nodes |

How they interact.  Producers, the controller (whoever calls `Start` and
`Stop`), the monitor thread and the workers share the members of the pool.
Some are atomics that are read without a lock (`running_`, `monitoring_`,
`valid_thread_count_`, the flags of a Worker), the queue is under
`global_mutex_` (per node: `tasks_mutex`), the vector is meant to be under
`worker_mutex_` (NUMA: `global_mutex_`).  Workers sleep on `global_cond_`
(`tasks_cond`), the monitor on `monitor_cond_` with a timeout.

What is hard here: a worker tests the queue in one critical section and pops in
another; `Enqueue` tests `running_` long before it pushes; `Stop` clears
`running_` and notifies without the mutex of the waiters; `Stop` joins while it
holds the mutex that entering workers need; the monitor decides on counters it
read before it took the lock; the vector moves under the workers; a thread is
running before its slot exists; a task throws; `pthread_create` fails; the pool
is started again.  A `Thread` releases its mutex before every pthread call, reads
its state again without it, and may be restarted, moved or destroyed while the
thread it started goes on.  Page sizes are rounded in arithmetic that wraps.
`PROJECT.json` "hazards" gives each with its line.

The pool header does not compile as it is at this commit (non-static
`constexpr` members at 134-138 and 565-569, argument order of `WaitFor` at 316
and 778 against `pthread_wrapper.hpp` 446, `Joinable()` for `IsJoinable()` at
910, a missing `;` at 625).  The models give these lines the meaning that the
text and its sibling pool leave no doubt about.

## 2. Modules

| Module | What it is |
|---|---|
| `TaskExecutor` | abstract: what a task may experience in any pool (FIFO, started at most once, discarded only when nothing runs) |
| `NormalThreadPool` | the pool, one action per critical section or atomic access of the code |
| `NormalThreadPoolProps` | its properties, and the refinement mapping to `TaskExecutor` |
| `NormalThreadPoolProofs`, `NormalThreadPoolBounds` | theorems and proofs |
| `NumaThreadPool`, `NumaThreadPoolProps` | the same for the NUMA pool; every node is a `TaskExecutor` |
| `NumaThreadPoolProofs` | theorems and proofs |
| `MCNormalThreadPool`, `MCNumaThreadPool` | symmetry for TLC |
| `MonitorInterval`, `MonitorIntervalProofs` | the arithmetic of `AdjustCheckInterval` under changing counts; its bound and its direction proved |
| `ThreadLifecycle`, `ThreadLifecycleProps` | `Thread` objects, their properties and the POSIX threads they started |
| `ThreadLifecycleProofs`, `ThreadOwnershipProofs` | theorems for any use of the objects, and for objects each used by one caller at a time |
| `NumaMemory`, `NumaMemoryProofs` | page rounding, allocation, migration and release |
| `DivisionLemmas` | facts about `\div` that the proofs cite |

The pools use of a `Thread` what `ThreadLifecycle` has in more detail: `Start`
refuses a JOINABLE one, `Join` returns when the entry function has returned, the
destructor joins.  They never detach, cancel or share one, so the pool modules
keep of it only the set `joinable`.

### Correspondence with the code: the pools

A variable `wpc[i]`, `mpc`, `ppc[p]`, `cpc` says where a worker, the monitor, a
producer and the controller are; every value is a point at which another
thread may run.  Actions bear the name of the thread and of what the code does
there: `WorkerEnter` is the check of the slot at the top of `WorkerLoop`,
`WorkerCheck` one evaluation of the predicate of `Wait`, `MonitorMark` the
marking loop of `ShrinkThreads`, `StopJoin` one iteration of the join loop.

* A critical section that touches shared state once is one action, guarded by
  its mutex being free.  A mutex is held across steps only where the code does
  more than one thing under it, and then the holder's position says so
  (`GlobalMutexFree`, `WorkerMutexFree`, `NodeMutexFree`).
* A wait is a test of the predicate, then the step that releases the mutex and
  blocks.  Between the two the mutex is held, but `running_` may change and a
  notification sent without the mutex is lost.  Notified threads go back to the
  test.  Spurious wakeups are actions of their own.
* The atomics `is_valid`, `should_exit`, `is_idle` are sets of slots.
* `joinable` is the set of slots whose `Thread` is in state JOINABLE.
  `Thread::Start` on such a slot throws; `Join` returns when the thread's entry
  function has returned.
* `stale` holds the workers whose reference into the vector was left behind by a
  reallocation.  Using it is undefined behaviour: it goes on as if nothing had
  happened, or the process ends (`crashed`).
* A task that lets a `std::exception` escape ends its worker
  (`ThreadEntry` catches it) between the two updates of the counter.  Any other
  exception ends the process and is not modelled.
* `fate` and `target` are history: what became of each task and which node it
  was sent to.
* In the NUMA pool a worker clears `is_idle` only after it has tested
  `should_exit` again (`WorkerWake`, then `WorkerPop` or `WorkerPopNothing`), so
  one that was notified still looks idle.
* In the NUMA pool a thread is started (`StartThread`) before its Worker is
  pushed (`PushWorker`), as in the code; a worker that runs in between returns.
* `NumaThreadPool::Stop` marks and joins valid workers only; the others are
  joined by their destructors in `workers_.clear()` (`DestructorsReturn`), since
  the default destructor action of `Thread` is to join.

Abstractions.  Time: every timeout may expire at any moment and any idle worker
may be idle for long enough to be marked.  Which node the calling thread of
`Enqueue` is on is left open.  `TaskCount()` in the predicate of the NUMA
monitor sums queues that change meanwhile, so its comparison is left open; in
`StopPoll` the queues are visited one by one.  One controller calls `Start` and
`Stop`; the destructor of a pool is one more `Stop(WaitForAll)`.  `Submit` wraps
a task whose exceptions stay in its future, so it is `Enqueue` of a task that
does not throw.  Getters and `Info` change nothing.

### Correspondence with the code: `Thread`

`prop[o]` is the `ThreadProperty` that object `o` holds, `property[p]` its
members, `thread[r]` the r-th POSIX thread: where it is in `ThreadEntry`, the
property its `weak_ptr` names (`NoObject` once expired), and whether it will be
joined, was joined or was detached.  `call[c]` is the call caller `c` is in; its
`pc` names the point between two of the steps of a method:

| `pc` | The method is about to |
|---|---|
| `check` | take the mutex and test the state and the destructor action |
| `join`, `detach`, `signal` | make the pthread call on the handle it read, without the mutex |
| `reread` | read `thread_state` a second time, without the mutex (`Cancel`, `Terminate`) |
| `record` | take the mutex and write the new state |
| `rebind` | let go of the property (destructor) or exchange it (move assignment) |

`Cleanup` is the start of the destructor and of the move assignment, whose
`catch (...)` ignores what the called method throws (`Finish` with a `from`).
`doomed` holds the threads with a cancellation or a SIGTERM pending; `Unwind`
is the forced unwinding that skips the update of the state at the end of
`ThreadEntry`.  SIGTERM is taken to have a handler that leaves by
`pthread_exit`: without one it ends the process.  A `pthread_t` that was joined,
or whose detached thread has ended, is dead; a call on it (`DeadHandle`) crashes,
fails, or acts on a younger thread, and `abused` remembers that it happened.
`EndedIsGone` chooses between the two behaviours of glibc for a thread that has
ended and was not joined; `Shared` says whether callers use one object at the
same time.

### Correspondence with the code: memory

`place` has for each page the node of its policy, `blocks` what callers hold,
`sent` where they last asked each byte to be.  Each function of the namespace
is one action over a `size_t` of `WordSize` values.  libnuma is external:
`numa_alloc_*` maps fresh pages and gives null for no bytes or no room,
`numa_tonode_memory` sets the policy of every page the range touches (pages
already in use stay where they are, so `place` is not where the data lies),
`numa_free` unmaps every page the range touches.

Names of bounds: `MaxStarts` (calls of `Start`), `MaxRuns` (threads created),
`PageCount`, the sets `Tasks`, `Producers`, `Objects` and `Callers`, and in
`MonitorInterval` `MaxTasks` and `MaxWorkers`.  Operators under a comment
"Mutant:" are not part of a specification; each replaces one definition to show
that a property depends on it.

## 3. Runs

Passing runs.

| Run | Instance | Question |
|---|---|---|
| `core` | 2 tasks, 1 producer, 1 hardware thread (so up to 2 workers), threshold 1, `WaitForAll` and `WaitForTimeout`, exceptions, failed thread creation, spurious wakeups, 2 starts; 1.8 million states up to symmetry | are tasks, slots, the counter and the stopped pool consistent, which tasks are left in it, is a running thread ever abandoned, when do references into the vector dangle, are notifications lost, and is the pool a `TaskExecutor`? |
| `liveness` | the same with one policy, one start, no exceptions and no spurious wakeups, under `FairSpec` | is the monitor always joined, is a queued task always started? |
| `interval` | the code's 100 ms, 5000 ms and threshold 5; up to 12 tasks and 6 workers | when does the interval leave its range, how far, does it fall with the load? |
| `numa` | 2 nodes, 2 hardware threads (1 to 2 workers per node), 2 tasks, threshold 1, `WaitForAll`, spurious wakeups, 1 start; 1.7 million states | do tasks stay on their node and in order, do limits and the counter hold, are notifications lost, which workers read a freed buffer, which workers and tasks does `Stop` miss, and does it leave nothing behind and abandon no thread? |
| `numa_liveness` | 1 task, threshold 0, nobody stops, exceptions, failed binding and failed thread creation, under `FairSpec` | is a task queued at a node started? |
| `thread` | 2 objects, 1 caller, 2 threads, tasks that return, exit or are cancelled, ended threads that pthread functions refuse, under `FairSpec`; 0.7 million states | what does the recorded state say of the thread, is every thread reclaimed, do joins return? |
| `memory` | a word of 32 values, 4 pages of 4 bytes, sparse node ids, a node without memory; 5749 states | are the pages mapped those of the blocks held, does migration keep to its range? |

Why the bounds are enough.  With one hardware thread a pool has one worker at
first and grows to two: doubling, the limit, marking, two workers that race for
one task and the move of the vector all happen.  Two tasks over a threshold of
1 make the pool overloaded; with one task per run the threshold is 0.  A second
start meets what the first left (`core`).  `WaitForTimeout` may end its poll at
any time, so it stands for `Immediate`, whose only difference is that it does not
look at the queues; `WaitForAll` is listed in `core` and `numa` because
`LateTasksBounded` is about it.  The instance `numa` is at the limit of what is
checked in minutes.  Restarts, the other policies, exceptions and failures to
bind or to create a thread are left to the theorems, which state every safety
property of the run for all of them.  Together `core`,
`numa` and `numa_liveness` take every action of the two pools; what no instance
reaches is a NUMA node that grows by two workers in one round, which needs two
hardware threads per node: the theorems cover it.  Two `Thread` objects suffice
for a move and a swap, a second thread for a restart and for a handle that comes
back; the third destructor action, TERMINATE, takes the path of CANCEL but for
the pthread function called.  A word of 32 leaves room for sizes near its top,
whose rounding wraps, and for blocks of one to four pages.
Deadlock is not checked where the system really may stop: with the hazards below
`Stop` may wait for ever, a crashed process does nothing, and a pool that was
stopped after its last permitted start may rest.

Runs that find a disagreement between a comment and the code (details and
quotations in `PROJECT.json` "findings").

| Run | The code does |
|---|---|
| `waitforall_hangs` | `Stop(WaitForAll)` first clears `running_`, which sends the workers home, then polls for an empty queue: for ever if a task was left |
| `stop_joins_stuck` | `Stop` joins a worker that missed the notification, or that needs the mutex `Stop` holds |
| `below_min_threads` | marked workers still count, so the next round marks more, down to none |
| `monitor_dies` | `ExpandThreads` restarts a slot whose thread is not joined; the exception ends the monitor |
| `numa_worker_lost` | a worker that runs before it is pushed returns, and its node stays without it |

What the models also show, without a run of their own:

* The first growth of a pool moves the vector, since only `min_threads_` was
  reserved: from then on the reference that each older worker took at 168
  dangles.  It happens once in the life of the pool (`StaleAfterFirstGrowth`):
  no later growth, and no restart, moves the vector again.
* `Stop(WaitForAll)` may discard tasks that an `Enqueue` in flight pushes after
  the last poll, one per producer at most (`LateTasksBounded`).  In the NUMA
  pool the bound is the same although the poll visits the nodes one by one and
  tasks may be pushed to nodes it has passed: it is one per producer over all
  nodes, not per node.
* A stopped pool may hold tasks, whatever the policy, and the next `Start` runs
  them: a client that found the pool running may push after the queue was
  emptied, but only once (`LeftoverTasksBounded`).
* No `Thread` is destroyed or assigned to while its thread runs, although the
  workers are joined partly by `Stop` and partly by their destructors
  (`NoThreadAbandoned`).
* A worker of the NUMA pool can read a freed buffer only between the test of its
  slot, which is under the mutex, and its binding, and only in the first half of
  the vector, since the buffer it reads once held its Worker
  (`StaleInOldBuffer`).
* `Stop` notifies sleeping workers without their mutex.  At most one worker, in
  the NUMA pool one per node, can miss it (`OneMissesStop`); it is then joined
  until a spurious wakeup comes.  `Enqueue` has no such gap (`NoWakeupLost`),
  although it too notifies without the mutex, because it pushes under it.
* `NumaThreadPool::Stop` skips workers that are not valid and tells them nothing;
  they leave by themselves when they next test `running_`
  (`SkippedWorkersLeave`), all but one at its entry, which waits for the
  `global_mutex_` that `Stop` holds while it waits for the worker.
* Two loads less than 1 ms apart may give the same interval, and a quotient that
  is no integer may lose 1 ms to rounding, so `HeavierLoadSleepsLess` promises a
  shorter sleep only for more than 1 ms: with limits closer than the
  number of workers "always shorter" is false.
* A task that throws leaves its worker counted and valid (`CountExact` counts
  position "threw"), so the monitor believes in more workers than there are.
* The check interval is negative for more than about one task per worker
  (`IntervalBounded` says exactly when and how far).
* With `HardwareConcurrency()` = 0, or below the number of nodes, a pool has no
  workers.
* An overloaded NUMA pool at its limit makes its monitor spin: the predicate of
  `WaitFor` is true at once, and every round takes the mutex of every node.
* `Start` does not reset `is_complete`, so a restarted `Thread` that is detached
  is recorded as TERMINATED while it runs (`EarlierRunCompleted` in
  `TerminatedIsOver`), and so is a detached one that is cancelled or terminated.
* If two callers use one `Thread` at the same time (`Shared` = TRUE),
  `NoThreadLost`, `JoinedOnce` and `TerminatedIsOver` fail: both pass the test
  for JOINABLE before either joins.  The class has a mutex but no comment or
  test promises such use, so this is no finding.
* `RoundUpToPageSize` refuses every odd size as negative and accepts sizes with
  the top bit set; the latter wrap to 0 or find no room, so no block is wrong.
* Node ids are compared with a count, so with sparse ids the last nodes are
  never available.

### Fairness

`FairSpec` of a pool asks for weak fairness of each worker, of the monitor, of
calls of `Enqueue`, `Start` and `Stop` that have begun: the operating system
schedules every runnable thread, tasks end, and timed waits time out.  Nobody is
obliged to call anything, and the occurrence of failures and of spurious wakeups
is never assumed, nor is a crash.  In the NUMA pool weak fairness is not enough:
TLC shows a worker that never gets the `tasks_mutex` of its node because a
spinning monitor always has it first.  There the fairness of workers and
producers is strong: a mutex that is released again and again is eventually
granted to a thread that keeps asking.  pthread mutexes do not promise that in
writing; the futex-based implementations behave so in practice.

`QueuedTaskStarts` claims nothing once no serving worker is left (the case of
`below_min_threads`, `numa_worker_lost` and of exceptions), while a call of the
controller is under way, or after a crash.

`FairSpec` of `ThreadLifecycle` asks for weak fairness of every call that has
begun and of every thread's way to the end of `ThreadEntry`: threads are
scheduled and tasks end.  Cancellation and `pthread_exit` are never assumed.

## 4. Proofs

Every theorem holds for all values of the constants that meet the named
assumption of its module: `PoolAssumption`, `NumaAssumption` (naturals, booleans,
at least one node, `NoTask` is no task), `ThreadAssumption`,
`MemoryAssumption` (whole pages, all addressable) and `IntervalAssumption`.  The last one asks `MinInterval < MaxInterval` and a
threshold of at least 1, as the code has them: for equal limits or a threshold of
0 the bound is false.

| Module | Theorem | States |
|---|---|---|
| `NormalThreadPoolProofs` | `InvHolds` | `Spec => []Inv`, on which the others rest |
| | `TypeCorrect` | the vector never outgrows `max_threads_`, the `size_t` counter never wraps |
| | `CountIsExact` | the counter is the number of workers between `fetch_add` and `fetch_sub` |
| | `EveryTaskIsAccountedFor` | every task is at exactly one place |
| | `StopLeavesQuiescence` | a stopped pool is as constructed |
| | `SlotsStayJoinable` | every slot has a joinable `Thread` until `Stop` joins it, so `ExpandThreads` can never restart one |
| | `PoolImplementsExecutor` | every behaviour implements `TaskExecutor` |
| `NormalThreadPoolBounds` | `VectorMovesOnce` | references go stale at the first growth in the life of a pool and at no other time |
| | `LateTasks` | `Stop(WaitForAll)` discards at most one task per producer |
| | `FewTasksAreLeftOver` | a stopped pool holds at most one task per producer |
| | `ThreadsAreNotAbandoned` | an action property: no live thread's object is destroyed or started anew |
| | `AtMostOneMissesStop` | at most one worker sleeps once `Stop` has notified |
| | `NoWakeupIsLost` | while a worker sleeps, every queued task has a notification to come or a worker awake |
| `NumaThreadPoolProofs` | `InvHolds` | `Spec => []Inv`, on which the others rest |
| | `TypeCorrect`, `CountIsExact`, `StopLeavesQuiescence` | as above |
| | `NodesStayWithinLimit` | no node has more workers than its share of the hardware threads, after any number of starts |
| | `TasksStay` | a task runs on its node, by one worker |
| | `NodesAreExecutors` | every node implements `TaskExecutor` |
| | `AtMostOneMissesStop`, `NoWakeupIsLost` | as above, for each node |
| | `LateTasks`, `FewTasksAreLeftOver` | as above, over all nodes together |
| | `ThreadsAreNotAbandoned` | as above |
| | `OnlyOldBuffersGoStale` | a freed buffer is read only before binding, and only by workers of the old half of the vector |
| | `SkippedLeave` | a worker that `Stop` skipped neither sleeps nor runs a task |
| `MonitorIntervalProofs` | `IntervalStaysBounded` | when and how far the interval leaves its range |
| | `HeavierLoadNeverSleepsLonger` | an action property: more tasks never lengthen the sleep, and shorten it when they are worth more than 1 ms |
| `ThreadLifecycleProofs` | `TypeCorrect` | types; each property belongs to one object |
| | `DetachedCanReport` | a property recorded as DETACHED has a thread that can still report, even when callers share objects |
| `ThreadOwnershipProofs` | `OwnerInvHolds` | `~Shared => (Spec => []OwnerInv)`, on which the next three rest |
| | `EveryThreadIsReclaimed` | `NoThreadLost`, until a dead handle is used |
| | `NobodyJoinsTwice` | `JoinedOnce` |
| | `TerminatedMeansOver` | `TerminatedIsOver`, until a dead handle is used |
| `NumaMemoryProofs` | `MemoryTypeCorrect` | only nodes with memory that the process may use are given pages |
| | `BlocksStayBacked` | the mapped pages are those of the live blocks, for every page size and word width |
| | `BytesStayWhereSent` | migration moves the bytes it was given and no other |

`NormalThreadPool`.  None of these is inductive alone.  `Inv` is `TypeOK`,
`SlotState` (threads exist exactly in the slots below `size`; during the joins
those below `joinIdx` have ended), `PhaseState` (which position of the
controller goes with which state of the pool: the monitor is gone from its join
on, `running_` is false from `StopHalt` on, the pool is quiescent before `Start`
creates workers and after `StopClear`), `CountExact` and `TasksAccounted`.
`SlotState` gives that at `StopClear` every worker has ended, which is why the
assignment of 0 to the counter is right although nothing waits for the
decrements, why no task runs when the queue is dropped, and why the abstract
`DiscardAll` is enabled.  `PhaseState` gives that nobody but the monitor or
`Start` appends slots, hence the bound on `size`.  `CountExact` gives that a
worker about to decrement is counted, hence the counter is positive.  One lemma
per conjunct (`TypeStep`, `SlotStep`, `PhaseStep`, `CountStep`, `TasksStep`) has
a case for each action; the refinement has one step lemma over `Inv`.
`NormalThreadPoolBounds` adds six results, each inductive relative to `Inv`.

Lost wakeups.  Both pools need one more invariant, `ParkState`: at most one worker
(of a node) is between its test and its wait, and the queue is empty then, since
it holds the mutex.  From it follows `OneMissesStop`: when `Stop` notifies,
everybody who sleeps is woken, the one about to sleep is alone, and nobody else
gets there, because `running_` is false.  `NoWakeupLost` counts: a push adds a
task and a notifier; a notifier that finds a sleeper turns it into a worker awake;
a worker that pops takes a task with it; a worker that goes to sleep has found
the queue empty.  What remains is that nobody awake leaves the count: a worker of
`NormalThreadPool` takes a task whenever there is one, even when it was told to
leave.  In the NUMA pool it does not; there the monitor marks only idle workers,
under the mutex of the node, and then wakes all workers of the node, so that its
step leaves no sleeper for which anything would have to be counted (`CoverStep`).
`Spared` and `EasilyCovered` deal with the steps of other nodes and threads.  Both
theorems about counts assume a finite set of producers, without which cardinalities
mean nothing; tasks may be infinitely many.

`NumaThreadPool`.  `Inv` is built the same way, with three differences.  A thread
runs before its Worker is pushed, so `SlotState` allows one slot beyond `size`
while somebody is at `push` (`Pushing`).  That the vector has room is a pigeonhole
argument (`Room`): while no node has more than its limit and one has less, the
workers inject into the pairs of a node and a rank.  The limit per node
(`NodeWithinLimit`) is inductive with `LimitState`: `thread_count` bounds the
workers of a node from above, the monitor creates what lacks to the target, and
`Start` fills the nodes in order, each with `MinPerNode` (`StartPushLayout` and the
lemmas about `\div`).  `TaskState` follows each task from the hand of a producer
to a queue and a worker.  The refinement is proved node by node (`StepRefines`):
an action on another node leaves `FateAt(n)` unchanged.

Late tasks of the NUMA pool.  `LateTasksBounded` says nothing during the poll, so it
is not inductive; `LateState` is: the tasks queued at nodes that the poll has
passed (`Behind`), and the clients that are past their last test of `running_`, are
together no more than the clients.  A push turns one of the latter into one of the
former, nobody joins the latter since `running_` is false, and the poll passes only
empty queues.

Tasks left over.  `LeftoverTasksBounded` is about the time after `Stop`, while the
clients it counts have been under way since before.  In the normal pool the queue
is dropped in one step, and from there on a push turns a client at `push` into a
task (`LeftoverStep`).  The NUMA pool empties its queues one after the other, so
its invariant (`LeftState`) counts, as `LateState` does, the tasks at the nodes
already emptied and the clients past their last test.  Both assume a finite set of
producers.

Abandoned threads.  `ThreadsKept` is a property of single steps under `Inv`: whoever
destroys the workers has joined them or waits for them (`SlotState`), whoever
creates one finds the slot after the last empty, since only one thread appends
(`PhaseState`, and `~Pushing` in the NUMA pool), and the monitor's `Thread` was
joined by the `Stop` before.

Freed buffers.  A worker that binds itself has found its slot, so its slot is at most
`size`.  The vector moves when `size` equals the old capacity, and doubles; hence
`2 * i <= capacity` from then on (`PushKeepsStale`).

Skipped workers.  `SkippedWorkersLeave` needs `ValidState`: from the start of its
loop until it retires a worker is valid.  So one that is not valid when `Stop` looks
at it has not begun its loop, or has left it; `running_` is false, and the
first test of a worker that begins sends it out (`HarmlessStays`).

`MonitorInterval`.  `IntervalBounded` is inductive with the types (`Inv`).  The action
property needs that the interval belongs to the counts that it was computed
from (`Adjusted`), and that it is the integer part of the exact quotient or the
number before it (`WithinOne`): two quotients more than 1 apart cannot change order.

`ThreadLifecycle`.  `Inv` is `TypeOK`, `CallState` (what a call in progress has
been told), `Alone` (who destroys or moves an object uses it alone) and
`HandleState` (the thread of a property reports to it, and has not ended unless it
did); it needs no promise of the callers, so it holds with `Shared`.

`ThreadOwnershipProofs` assumes `~Shared`: each object is used by one caller at a
time (otherwise the three properties fail, see section 3).
`OwnerInv` adds `Exclusive` and `AllHeld` (no two calls have an object in common,
every property has an object) and, while `~abused`, `Threads` (which threads may
have ended or been joined), `Records` (what INVALID to TERMINATED say of the
thread), `Knowledge` (what a call still knows after each unlocked step: the handle
is the property's, the state is still JOINABLE, the signal is pending) and
`Ownership` (a joinable thread has an object).  `Knowledge` is the point: no
method holds the mutex across its pthread call, and exclusion makes up for that.
The restriction to `~abused` is needed once there are two callers: a dead handle
may by then belong to a younger thread of another object, whose own `Join` then
fails with EINVAL, and the destructor that ignores this loses the thread.  The
run `thread`, with one caller, shows the properties without it.

`NumaMemory`.  The three invariants are inductive together (`MemoryInv`).  The
argument is in the arithmetic: a sum that wraps leaves less than a page and is
rounded to 0, which the allocation refuses (`Rounding`); otherwise the rounded
size touches the pages that the size asked for touches (`RoundedPages`), so that
`FreeMemory` may pass the latter; and a range of whole pages shares no page with
a byte outside of it (`WholePages`), which is why `MigrateMemoryToNode` insists on
aligned sizes.

Only model-checked: liveness (`MonitorIsJoined`, both `QueuedTaskStarts`,
`JoinsReturn`, `DetachedIsReported`), which is beyond the prover.  Every invariant
and every action property of a passing run is proved.

## 5. Not modelled

* `this_thread` and the members of `ThreadAttribute` other than the detach state:
  wrappers without interaction.
* `Mutex`, `SharedMutex` and `LockGuard` by themselves: their effect is in the
  guards of the actions; `SharedMutex` and `TryLock` are not used by the rest.
* The getters and the queries of `numa_namespace.hpp` (CPUs, distances, sizes):
  input from the operating system.
* The `__APPLE__` branch of `Terminate`, and SIGTERM without a handler, which
  ends the process.
* Exceptions that are not `std::exception`, failures of mutex operations,
  memory exhaustion other than a failed thread: they end the process.
* Two controllers that call `Start` or `Stop` at once: nothing in the code or its
  tests does so.

## 6. Plan

What is left: what the order of `TaskExecutor` promises of both pools, which
inherit it through their refinements, as theorems about the pools; an account of
which tasks `Stop(WaitForAll)` may discard, not only how many; a model of
`SharedMutex` should the library come to use it.
