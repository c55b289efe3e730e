----------------------- MODULE NormalThreadPoolProps -----------------------
(***************************************************************************)
(* Properties of NormalThreadPool.  The first part holds of the code; the  *)
(* second states what comments of thread_pool.hpp say of it and the code   *)
(* does not keep.                                                          *)
(***************************************************************************)
EXTENDS NormalThreadPool

Fates == {"new", "inflight", "rejected", "queued", "running", "finished",
          "threw", "discarded"}

(* Every variable has its type: in particular workers_ never outgrows      *)
(* max_threads_ and the size_t valid_thread_count_ never wraps below 0.    *)
TypeOK ==
  /\ running \in BOOLEAN /\ monitoring \in BOOLEAN /\ crashed \in BOOLEAN
  /\ tasks \in Seq(Tasks)
  /\ validThreadCount \in Nat
  /\ size \in 0 .. MaxThreads
  /\ capacity \in Nat
  /\ valid \subseteq Slots /\ exiting \subseteq Slots /\ idle \subseteq Slots
  /\ joinable \subseteq Slots /\ stale \subseteq Slots
  /\ wpc \in [Slots -> WorkerPCs]
  /\ held \in [Slots -> Tasks \cup {NoTask}]
  /\ mpc \in {"none", "top", "shrink", "mark", "decide", "expand", "grow",
              "wait", "parking", "blocked", "done", "dead"}
  /\ need \in Nat
  /\ ppc \in [Producers -> {"idle", "push", "notify", "hint"}]
  /\ hand \in [Producers -> Tasks \cup {NoTask}]
  /\ cpc \in {"idle", "spawn", "signal", "joinmon", "halt", "wakeall", "poll",
              "lock", "join", "drop"}
  /\ policy \in {"WaitForAll", "WaitForTimeout", "Immediate"}
  /\ joinIdx \in 1 .. MaxThreads + 1
  /\ starts \in Nat
  /\ fate \in [Tasks -> Fates]

-----------------------------------------------------------------------------
(* Every task handed to the pool is at exactly one place: in the hand of   *)
(* one producer, once in tasks_, at one worker, or finished, discarded or  *)
(* rejected.  WorkerLoop tests tasks_ in one critical section and pops in  *)
(* a later one, and any worker may have emptied the queue in between.      *)
QueuedOnce ==
  /\ \A n \in 1 .. Len(tasks) : fate[tasks[n]] = "queued"
  /\ \A m, n \in 1 .. Len(tasks) : tasks[m] = tasks[n] => m = n
  /\ \A t \in Tasks : fate[t] = "queued" => \E n \in 1 .. Len(tasks) : tasks[n] = t

RunByOne ==
  /\ \A i \in Slots : wpc[i] = "run" => held[i] \in Tasks /\ fate[held[i]] = "running"
  /\ \A i, j \in Slots :
       wpc[i] = "run" /\ wpc[j] = "run" /\ held[i] = held[j] => i = j
  /\ \A t \in Tasks : fate[t] = "running" => \E i \in Slots : wpc[i] = "run" /\ held[i] = t

InOneHand ==
  /\ \A p \in Producers : ppc[p] = "push" => hand[p] \in Tasks /\ fate[hand[p]] = "inflight"
  /\ \A p, q \in Producers :
       ppc[p] = "push" /\ ppc[q] = "push" /\ hand[p] = hand[q] => p = q

TasksAccounted == QueuedOnce /\ RunByOne /\ InOneHand

-----------------------------------------------------------------------------
(* When no Start or Stop is under way and running_ is false, the pool is   *)
(* as the constructor left it: no worker, no monitor, no slot, no flag, a  *)
(* zero count; whatever shutdown policy was used, however many of its      *)
(* threads had not even entered WorkerLoop, had died of an exception or    *)
(* could not be created.                                                   *)
Quiescent ==
  /\ size = 0 /\ validThreadCount = 0
  /\ valid = {} /\ exiting = {} /\ idle = {} /\ joinable = {} /\ stale = {}
  /\ \A i \in Slots : wpc[i] = "none"
  /\ mpc = "none" /\ ~monitoring

StoppedIsQuiescent == cpc = "idle" /\ ~running => Quiescent

(* valid_thread_count_ is exactly the number of workers that have passed   *)
(* their fetch_add and not their fetch_sub, those an exception removed     *)
(* included; so it never exceeds max_threads_ nor drops below zero, and    *)
(* Stop's assignment of 0 never races with a worker's decrement.           *)
Counted == {"test", "lock", "parking", "waiting", "woke", "pop", "run", "retire",
            "uncount", "threw"}

CountExact ==
  validThreadCount = Cardinality({i \in Slots : wpc[i] \in Counted})

(* Until Stop joins it, the Thread of every slot is JOINABLE, whether its  *)
(* worker still runs or has returned; a slot that ExpandThreads wants to   *)
(* restart is therefore always one that Thread::Start refuses.             *)
SlotsJoinable ==
  /\ \A i \in Slots : wpc[i] # "none" <=> i <= size
  /\ cpc # "join" => joinable = 1 .. size

-----------------------------------------------------------------------------
(* References into workers_ go stale only when ExpandThreads first grows    *)
(* the pool beyond the reserved min_threads_.  max_threads_ is twice that, *)
(* so the vector moves once in the life of the pool: no later growth, and  *)
(* no Stop and Start, takes a Worker away from under its thread.           *)
StaleAfterFirstGrowth ==
  /\ capacity \in {MinThreads, MaxThreads}
  /\ stale # {} => capacity = MaxThreads /\ size > MinThreads

(* The pool implements the task life cycle of TaskExecutor: FIFO start     *)
(* order, at most one start, nothing discarded while a task runs.          *)
AbstractFate == [t \in Tasks |-> IF fate[t] = "inflight" THEN "new" ELSE fate[t]]

Executor == INSTANCE TaskExecutor WITH queue <- tasks, fate <- AbstractFate

ImplementsExecutor == Executor!Spec

(* Stop(WaitForAll) does discard tasks: those of an Enqueue that tested    *)
(* running_ before Stop cleared it and pushes after the last poll.  There  *)
(* is at most one of them for each client thread.                          *)
LateTasksBounded ==
  cpc \in {"lock", "join", "drop"} /\ policy = "WaitForAll"
    => Len(tasks) + Cardinality({p \in Producers : ppc[p] = "push"})
         <= Cardinality(Producers)

(* Between a Stop and the next Start the pool holds, whatever the policy,  *)
(* at most one task for each client: a client that tested running_ before  *)
(* Stop cleared it may still push behind StopDrop, but only once.  The     *)
(* workers of the next Start run these tasks.                              *)
LeftoverTasksBounded ==
  cpc = "idle" /\ ~running
    => Len(tasks) + Cardinality({p \in Producers : ppc[p] = "push"})
         <= Cardinality(Producers)

(* No Thread object is destroyed or started anew while its thread runs:    *)
(* workers_.clear() and the destructors in it find only ended threads,     *)
(* whether Stop joined them, an exception ended them or they were created  *)
(* by a Start that failed; a slot that receives a thread has none, and     *)
(* neither has monitor_thread_ when Start assigns to it.                   *)
ThreadsKept ==
  /\ \A i \in Slots : /\ wpc'[i] = "none" => wpc[i] \in Ended \cup {"none"}
                      /\ wpc'[i] = "entry" => wpc[i] \in {"none", "entry"}
  /\ cpc = "spawn" /\ mpc' = "top" => mpc = "none"

NoThreadAbandoned == [][ThreadsKept]_<<wpc, mpc>>

(* No wakeup of Enqueue is lost: while a worker sleeps on global_cond_,    *)
(* there are no more queued tasks than notifications still to be sent and  *)
(* workers awake that will look into tasks_ before they sleep again.       *)
(* Enqueue notifies after it has released global_mutex_, a notification is *)
(* lost when nobody sleeps, and a woken worker may find that another has   *)
(* taken its task.                                                         *)
Notifiers == {p \in Producers : ppc[p] = "notify"}
Awake == {i \in Slots : wpc[i] \in {"lock", "woke", "pop"}}

NoWakeupLost ==
  Waiting # {} => Len(tasks) <= Cardinality(Notifiers) + Cardinality(Awake)

(* Stop clears running_ and notifies the workers without global_mutex_, so *)
(* a worker that has just evaluated its predicate misses both.  There is   *)
(* never more than one such worker: all the others are awake or awakened   *)
(* by Stop, and none goes to sleep again.                                  *)
Asleep == {i \in Slots : wpc[i] \in {"parking", "waiting"}}

OneMissesStop ==
  cpc \in {"poll", "lock", "join", "drop"} => \A i, j \in Asleep : i = j

(* Stop's notification of the monitor may be lost, since it is sent        *)
(* without monitor_mutex_; the timeout of the wait still lets Stop get     *)
(* past the join of the monitor.                                           *)
MonitorIsJoined == cpc = "joinmon" ~> cpc # "joinmon" \/ crashed

(* The workers that are there and have not been told to leave. *)
Serving == {i \in Slots : wpc[i] \notin Ended \cup {"none"} /\ i \notin exiting}

(* While nobody calls Stop and some worker has not been told to leave,     *)
(* every queued task is started: Enqueue notifies after it has released    *)
(* global_mutex_, a worker that was told to leave still pops before it     *)
(* does, and no interleaving of the tests of the queue with the blocking   *)
(* of the workers loses a task.                                            *)
QueuedTaskStarts ==
  \A t \in Tasks :
    fate[t] = "queued" /\ running
      ~> fate[t] # "queued" \/ cpc # "idle" \/ crashed \/ Serving = {}

-----------------------------------------------------------------------------
(* "Wait for all tasks to complete" (ShutdownPolicy::WaitForAll): while    *)
(* Stop polls for an empty queue, some thread is left that may empty it.   *)
(* Workers leave their loop once running_ is false.                        *)
WaitForAllCanFinish ==
  cpc = "poll" /\ policy = "WaitForAll" /\ tasks # <<>>
    => \E i \in Slots : wpc[i] \notin Ended \cup {"none"}

(* "Wait for all worker threads to finish": the worker that Stop joins is  *)
(* able to end.  It is not while it waits for worker_mutex_, which Stop    *)
(* holds, nor while it sleeps on global_cond_, whose last notification it  *)
(* missed because running_ was not cleared under global_mutex_.            *)
JoinedWorkerCanEnd ==
  cpc = "join" /\ joinIdx <= size => wpc[joinIdx] \notin {"entry", "waiting"}

(* "Minimum number of threads in the pool": while the pool runs and no     *)
(* call to Stop is under way, min_threads_ workers stay that have not been *)
(* told to exit.  A marked worker is counted until it has left, and the    *)
(* next round of ShrinkThreads marks another one for the same surplus.     *)
MinThreadsKept == running /\ cpc = "idle" => Cardinality(Serving) >= MinThreads

(* "Monitoring loop that runs in a separate thread to manage thread        *)
(* expansion and shrinking": the monitor of a running pool is alive.       *)
MonitorSurvives == running /\ monitoring => mpc # "dead"
=============================================================================
