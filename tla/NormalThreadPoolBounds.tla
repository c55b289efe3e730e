----------------------- MODULE NormalThreadPoolBounds -----------------------
(***************************************************************************)
(* More theorems of NormalThreadPool, on top of its inductive invariant:   *)
(* when references into workers_ go stale, how many tasks                  *)
(* Stop(WaitForAll) may discard and a stopped pool may hold, that no       *)
(* Thread is abandoned while it runs, how many workers may miss the        *)
(* notification of Stop, and that none of Enqueue is missed.               *)
(***************************************************************************)
EXTENDS NormalThreadPoolProofs

-----------------------------------------------------------------------------
(* The buffer of workers_ *)

LEMMA AddWorkersMovesOnce ==
  ASSUME TypeOK, StaleAfterFirstGrowth, NEW k \in Nat, size + k <= MaxThreads,
         AddWorkers(k)
  PROVE  StaleAfterFirstGrowth'
<1>1. size \in Nat /\ MinThreads \in Nat /\ MaxThreads = 2 * MinThreads
  BY PoolAssumption DEF TypeOK, MinThreads, MaxThreads, ExpandFactor
<1>2. /\ size' = size + k
      /\ capacity' = IF size + k > capacity THEN 2 * capacity ELSE capacity
      /\ size + k <= capacity => stale' = stale
  BY <1>1 DEF AddWorkers, TypeOK
<1>3. CASE size + k <= capacity
  BY <1>1, <1>2, <1>3 DEF StaleAfterFirstGrowth
<1>4. CASE size + k > capacity
  <2>1. capacity = MinThreads
    BY <1>1, <1>4 DEF StaleAfterFirstGrowth
  <2> QED BY <1>1, <1>2, <1>4, <2>1 DEF StaleAfterFirstGrowth
<1> QED BY <1>1, <1>3, <1>4 DEF StaleAfterFirstGrowth

LEMMA StaleStep ==
  Inv /\ StaleAfterFirstGrowth /\ [Next]_vars => StaleAfterFirstGrowth'
<1> SUFFICES ASSUME Inv, StaleAfterFirstGrowth, [Next]_vars
             PROVE  StaleAfterFirstGrowth'
  OBVIOUS
<1> DEFINE Same == UNCHANGED <<size, capacity, stale>>
<1>1. Same => StaleAfterFirstGrowth'
  BY DEF StaleAfterFirstGrowth
<1>2. ASSUME NEW i \in Slots,
             WorkerStep(i) \/ WorkerSpuriousWakeup(i) \/ WorkerFault(i)
      PROVE  Same
  BY <1>2 DEF WorkerStep, WorkerEnter, WorkerRegister, WorkerCount, WorkerStay, WorkerLeave,
    WorkerCheck, WorkerPark, WorkerBusy, WorkerPop, WorkerPopNothing, WorkerFinish,
    WorkerThrow, EndTask, WorkerRetire, WorkerUncount, WorkerSpuriousWakeup, WorkerFault,
    workerVars
<1>3. ASSUME MonitorTop \/ MonitorReadSurplus \/ MonitorMark \/ MonitorDecide
             \/ MonitorReadDeficit \/ MonitorRestartSlot \/ MonitorCheck \/ MonitorPark
             \/ MonitorTimeout \/ MonitorSpuriousWakeup
      PROVE  Same
  BY <1>3 DEF MonitorTop, MonitorReadSurplus, MonitorMark, MonitorDecide, MonitorReadDeficit,
    MonitorRestartSlot, MonitorCheck, MonitorPark, MonitorTimeout, MonitorSpuriousWakeup,
    workerVars
<1>4. ASSUME MonitorAppend PROVE StaleAfterFirstGrowth'
  BY <1>4, AppendCountType, AddWorkersMovesOnce DEF MonitorAppend, Inv
<1>5. ASSUME MonitorAppendFails PROVE StaleAfterFirstGrowth'
  <2>1. PICK k \in 0 .. AppendCount(need) - 1 : AddWorkers(k)
    BY <1>5 DEF MonitorAppendFails
  <2>2. k \in Nat /\ size + k <= MaxThreads
    BY <2>1, AppendCountType, Constants DEF Inv, TypeOK
  <2> QED BY <2>1, <2>2, AddWorkersMovesOnce DEF Inv
<1>6. ASSUME NEW p \in Producers,
             EnqueueStep(p) \/ \E t \in Tasks : EnqueueCall(p, t) \/ EnqueueThrows(p, t)
      PROVE  Same
  BY <1>6 DEF EnqueueStep, EnqueueCall, EnqueueThrows, EnqueuePush, EnqueueNotify,
    EnqueueHint, workerVars
<1>7. ASSUME StartSpawn PROVE StaleAfterFirstGrowth'
  <2>1. size + MinThreads <= MaxThreads /\ AddWorkers(MinThreads) /\ MinThreads \in Nat
    BY <1>7, Constants DEF StartSpawn, Inv, PhaseState, Quiescent
  <2> QED BY <2>1, AddWorkersMovesOnce DEF Inv
<1>8. ASSUME StartFails PROVE StaleAfterFirstGrowth'
  <2>1. PICK k \in 0 .. MinThreads : AddWorkers(k)
    BY <1>8 DEF StartFails
  <2>2. k \in Nat /\ size + k <= MaxThreads
    BY <1>8, <2>1, Constants DEF StartFails, Inv, PhaseState, Quiescent
  <2> QED BY <2>1, <2>2, AddWorkersMovesOnce DEF Inv
<1>9. ASSUME StartCall \/ \E pol \in Policies : StopCall(pol) PROVE Same
  BY <1>9 DEF StartCall, StopCall, workerVars
<1>10. ASSUME StopSignalMonitor \/ StopJoinMonitor \/ StopHalt \/ StopWakeAll \/ StopPoll
              \/ StopLock \/ StopJoin \/ StopDrop
       PROVE  Same
  BY <1>10 DEF StopSignalMonitor, StopJoinMonitor, StopHalt, StopWakeAll, StopPoll,
    StopLock, StopJoin, StopDrop, workerVars
<1>11. ASSUME StopClear PROVE StaleAfterFirstGrowth'
  BY <1>11 DEF StopClear, StaleAfterFirstGrowth
<1>12. CASE UNCHANGED vars
  BY <1>1, <1>12 DEF vars, workerVars
<1> QED BY <1>1, <1>2, <1>3, <1>4, <1>5, <1>6, <1>7, <1>8, <1>9, <1>10, <1>11, <1>12
  DEF Next, MonitorStep, StopStep

(* The vector moves once in the life of the pool: references into workers_ *)
(* go stale only when ExpandThreads first outgrows the reserved capacity.  *)
THEOREM VectorMovesOnce == Spec => []StaleAfterFirstGrowth
<1>1. Init => StaleAfterFirstGrowth
  BY DEF Init, Reserved, StaleAfterFirstGrowth
<1> QED BY InvHolds, <1>1, StaleStep, PTL DEF Spec

-----------------------------------------------------------------------------
(* Late tasks *)

Pushers == {p \in Producers : ppc[p] = "push"}

LEMMA SamePushers ==
  ASSUME LateTasksBounded, tasks' = tasks, UNCHANGED <<ppc, cpc, policy>>
  PROVE  LateTasksBounded'
<1>1. Pushers' = Pushers
  BY DEF Pushers
<1> QED BY <1>1 DEF LateTasksBounded, Pushers

LEMMA Few ==
  ASSUME IsFiniteSet(Producers), NEW S \in SUBSET Producers
  PROVE  /\ IsFiniteSet(S) /\ Cardinality(S) \in Nat
         /\ Cardinality(Producers) \in Nat /\ Cardinality(S) <= Cardinality(Producers)
BY FS_Subset, FS_CardinalityType

LEMMA LateStep ==
  ASSUME IsFiniteSet(Producers)
  PROVE  Inv /\ LateTasksBounded /\ [Next]_vars => LateTasksBounded'
<1> SUFFICES ASSUME Inv, LateTasksBounded, [Next]_vars PROVE LateTasksBounded'
  OBVIOUS
<1> DEFINE Same == UNCHANGED <<tasks, ppc, cpc, policy>>
<1>1. Same => LateTasksBounded'
  BY SamePushers
<1>2. ASSUME NEW i \in Slots,
             \/ WorkerEnter(i) \/ WorkerRegister(i) \/ WorkerCount(i) \/ WorkerStay(i)
             \/ WorkerLeave(i) \/ WorkerCheck(i) \/ WorkerPark(i) \/ WorkerBusy(i)
             \/ WorkerPopNothing(i) \/ WorkerFinish(i) \/ WorkerThrow(i) \/ WorkerRetire(i)
             \/ WorkerUncount(i) \/ WorkerSpuriousWakeup(i) \/ WorkerFault(i)
      PROVE  Same
  BY <1>2 DEF WorkerEnter, WorkerRegister, WorkerCount, WorkerStay, WorkerLeave,
    WorkerCheck, WorkerPark, WorkerBusy, WorkerPopNothing, WorkerFinish, WorkerThrow,
    EndTask, WorkerRetire, WorkerUncount, WorkerSpuriousWakeup, WorkerFault, taskVars,
    prodVars, ctlVars
<1>3. ASSUME NEW i \in Slots, WorkerPop(i) PROVE LateTasksBounded'
  <2>1. tasks' = Tail(tasks) /\ tasks # <<>> /\ UNCHANGED <<ppc, cpc, policy>>
    BY <1>3 DEF WorkerPop, TasksAfterPop, prodVars, ctlVars
  <2>2. Len(tasks') = Len(tasks) - 1
    BY <2>1 DEF Inv, TypeOK
  <2>3. Pushers' = Pushers
    BY <2>1 DEF Pushers
  <2>4. Len(tasks) \in Nat /\ Cardinality(Pushers) \in Nat /\ Cardinality(Producers) \in Nat
    BY Few DEF Pushers, Inv, TypeOK
  <2> QED BY <2>1, <2>2, <2>3, <2>4 DEF LateTasksBounded, Pushers
<1>4. ASSUME MonitorStep \/ MonitorSpuriousWakeup PROVE Same
  BY <1>4 DEF MonitorStep, MonitorTop, MonitorReadSurplus, MonitorMark, MonitorDecide,
    MonitorReadDeficit, MonitorRestartSlot, MonitorAppend, MonitorAppendFails, MonitorCheck,
    MonitorPark, MonitorTimeout, MonitorSpuriousWakeup, taskVars, prodVars, ctlVars
<1>5. ASSUME NEW p \in Producers, NEW t \in Tasks, EnqueueCall(p, t)
      PROVE  LateTasksBounded'
  BY <1>5 DEF EnqueueCall, Inv, PhaseState, LateTasksBounded, ctlVars
<1>6. ASSUME NEW p \in Producers, NEW t \in Tasks, EnqueueThrows(p, t) PROVE Same
  BY <1>6 DEF EnqueueThrows, prodVars, ctlVars
<1>7. ASSUME NEW p \in Producers, EnqueuePush(p) PROVE LateTasksBounded'
  <2>1. /\ tasks' = Append(tasks, hand[p]) /\ ppc[p] = "push"
        /\ ppc' = [ppc EXCEPT ![p] = "notify"] /\ UNCHANGED <<cpc, policy>>
    BY <1>7 DEF EnqueuePush, ctlVars
  <2>2. Len(tasks') = Len(tasks) + 1 /\ Len(tasks) \in Nat
    BY <2>1, <1>7 DEF Inv, TypeOK, TasksAccounted, InOneHand
  <2>3. Pushers' = Pushers \ {p} /\ p \in Pushers
    BY <2>1 DEF Pushers, Inv, TypeOK
  <2>4. Cardinality(Pushers') = Cardinality(Pushers) - 1 /\ Cardinality(Pushers) \in Nat
        /\ Cardinality(Producers) \in Nat
    BY <2>3, Few, FS_RemoveElement DEF Pushers
  <2> QED BY <2>1, <2>2, <2>4 DEF LateTasksBounded, Pushers
<1>8. ASSUME NEW p \in Producers, EnqueueNotify(p) \/ EnqueueHint(p)
      PROVE  LateTasksBounded'
  <2>1. UNCHANGED <<tasks, cpc, policy>>
    BY <1>8 DEF EnqueueNotify, EnqueueHint, taskVars, ctlVars
  <2>2. Pushers' = Pushers
    BY <1>8 DEF EnqueueNotify, EnqueueHint, Pushers, Inv, TypeOK
  <2> QED BY <2>1, <2>2 DEF LateTasksBounded, Pushers
<1>9. ASSUME \/ StartCall \/ StartSpawn \/ StartFails \/ \E pol \in Policies : StopCall(pol)
             \/ StopSignalMonitor \/ StopJoinMonitor \/ StopHalt \/ StopWakeAll \/ StopDrop
      PROVE  LateTasksBounded'
  BY <1>9 DEF StartCall, StartSpawn, StartFails, StopCall, StopSignalMonitor,
    StopJoinMonitor, StopHalt, StopWakeAll, StopDrop, LateTasksBounded
<1>10. ASSUME StopPoll PROVE LateTasksBounded'
  <2>1. cpc' = "lock" /\ PollEnds /\ UNCHANGED <<tasks, ppc, policy>>
    BY <1>10 DEF StopPoll, taskVars, prodVars
  <2>2. policy = "WaitForAll" => Len(tasks) = 0
    BY <2>1 DEF PollEnds
  <2>3. Pushers' = Pushers /\ Cardinality(Pushers) \in Nat /\ Cardinality(Producers) \in Nat
        /\ Cardinality(Pushers) <= Cardinality(Producers)
    BY <2>1, Few DEF Pushers
  <2> QED BY <2>1, <2>2, <2>3 DEF LateTasksBounded, Pushers
<1>11. ASSUME StopLock \/ StopJoin \/ StopClear PROVE LateTasksBounded'
  <2>1. UNCHANGED <<tasks, ppc, policy>> /\ cpc \in {"lock", "join"}
    BY <1>11 DEF StopLock, StopJoin, StopClear, taskVars, prodVars
  <2>2. Pushers' = Pushers
    BY <2>1 DEF Pushers
  <2> QED BY <2>1, <2>2 DEF LateTasksBounded, Pushers
<1>12. CASE UNCHANGED vars
  BY <1>1, <1>12 DEF vars, taskVars, prodVars, ctlVars
<1> QED BY <1>1, <1>2, <1>3, <1>4, <1>5, <1>6, <1>7, <1>8, <1>9, <1>10, <1>11, <1>12
  DEF Next, WorkerStep, EnqueueStep, StopStep

(* Stop(WaitForAll) discards at most one task for each client thread.      *)
THEOREM LateTasks ==
  ASSUME IsFiniteSet(Producers)
  PROVE  Spec => []LateTasksBounded
<1>1. Init => LateTasksBounded
  BY DEF Init, LateTasksBounded
<1>2. Inv /\ LateTasksBounded /\ [Next]_vars => LateTasksBounded'
  BY LateStep
<1> QED BY InvHolds, <1>1, <1>2, PTL DEF Spec

(* A stopped pool: the bound for the tasks that wait for the next Start.   *)
LEMMA SameLeftover ==
  ASSUME LeftoverTasksBounded, UNCHANGED <<tasks, ppc>>,
         cpc' = "idle" /\ ~running' => cpc = "idle" /\ ~running
  PROVE  LeftoverTasksBounded'
<1>1. Pushers' = Pushers
  BY DEF Pushers
<1> QED BY <1>1 DEF LeftoverTasksBounded, Pushers

LEMMA LeftoverStep ==
  ASSUME IsFiniteSet(Producers)
  PROVE  Inv /\ LeftoverTasksBounded /\ [Next]_vars => LeftoverTasksBounded'
<1> SUFFICES ASSUME Inv, LeftoverTasksBounded, [Next]_vars PROVE LeftoverTasksBounded'
  OBVIOUS
<1> DEFINE Same == UNCHANGED <<tasks, ppc, cpc, running>>
<1>1. Same => LeftoverTasksBounded'
  BY SameLeftover
<1>2. ASSUME NEW i \in Slots,
             \/ WorkerEnter(i) \/ WorkerRegister(i) \/ WorkerCount(i) \/ WorkerStay(i)
             \/ WorkerLeave(i) \/ WorkerCheck(i) \/ WorkerPark(i) \/ WorkerBusy(i)
             \/ WorkerPopNothing(i) \/ WorkerFinish(i) \/ WorkerThrow(i) \/ WorkerRetire(i)
             \/ WorkerUncount(i) \/ WorkerSpuriousWakeup(i) \/ WorkerFault(i)
      PROVE  Same
  BY <1>2 DEF WorkerEnter, WorkerRegister, WorkerCount, WorkerStay, WorkerLeave,
    WorkerCheck, WorkerPark, WorkerBusy, WorkerPopNothing, WorkerFinish, WorkerThrow,
    EndTask, WorkerRetire, WorkerUncount, WorkerSpuriousWakeup, WorkerFault, taskVars,
    prodVars, ctlVars, poolVars
<1>3. ASSUME NEW i \in Slots, WorkerPop(i) PROVE LeftoverTasksBounded'
  <2>1. tasks' = Tail(tasks) /\ tasks # <<>> /\ UNCHANGED <<ppc, cpc, running>>
    BY <1>3 DEF WorkerPop, TasksAfterPop, prodVars, ctlVars, poolVars
  <2>2. Len(tasks') = Len(tasks) - 1
    BY <2>1 DEF Inv, TypeOK
  <2>3. Pushers' = Pushers
    BY <2>1 DEF Pushers
  <2>4. Len(tasks) \in Nat /\ Cardinality(Pushers) \in Nat /\ Cardinality(Producers) \in Nat
    BY Few DEF Pushers, Inv, TypeOK
  <2> QED BY <2>1, <2>2, <2>3, <2>4 DEF LeftoverTasksBounded, Pushers
<1>4. ASSUME MonitorStep \/ MonitorSpuriousWakeup PROVE Same
  BY <1>4 DEF MonitorStep, MonitorTop, MonitorReadSurplus, MonitorMark, MonitorDecide,
    MonitorReadDeficit, MonitorRestartSlot, MonitorAppend, MonitorAppendFails, MonitorCheck,
    MonitorPark, MonitorTimeout, MonitorSpuriousWakeup, taskVars, prodVars, ctlVars, poolVars
<1>5. ASSUME NEW p \in Producers, NEW t \in Tasks, EnqueueCall(p, t)
      PROVE  LeftoverTasksBounded'
  BY <1>5 DEF EnqueueCall, LeftoverTasksBounded, poolVars
<1>6. ASSUME NEW p \in Producers, NEW t \in Tasks, EnqueueThrows(p, t) PROVE Same
  BY <1>6 DEF EnqueueThrows, prodVars, ctlVars, poolVars
<1>7. ASSUME NEW p \in Producers, EnqueuePush(p) PROVE LeftoverTasksBounded'
  <2>1. /\ tasks' = Append(tasks, hand[p]) /\ ppc[p] = "push"
        /\ ppc' = [ppc EXCEPT ![p] = "notify"] /\ UNCHANGED <<cpc, running>>
    BY <1>7 DEF EnqueuePush, ctlVars, poolVars
  <2>2. Len(tasks') = Len(tasks) + 1 /\ Len(tasks) \in Nat
    BY <2>1, <1>7 DEF Inv, TypeOK, TasksAccounted, InOneHand
  <2>3. Pushers' = Pushers \ {p} /\ p \in Pushers
    BY <2>1 DEF Pushers, Inv, TypeOK
  <2>4. Cardinality(Pushers') = Cardinality(Pushers) - 1 /\ Cardinality(Pushers) \in Nat
        /\ Cardinality(Producers) \in Nat
    BY <2>3, Few, FS_RemoveElement DEF Pushers
  <2> QED BY <2>1, <2>2, <2>4 DEF LeftoverTasksBounded, Pushers
<1>8. ASSUME NEW p \in Producers, EnqueueNotify(p) \/ EnqueueHint(p)
      PROVE  LeftoverTasksBounded'
  <2>1. UNCHANGED <<tasks, cpc, running>>
    BY <1>8 DEF EnqueueNotify, EnqueueHint, taskVars, ctlVars, poolVars
  <2>2. Pushers' = Pushers
    BY <1>8 DEF EnqueueNotify, EnqueueHint, Pushers, Inv, TypeOK
  <2> QED BY <2>1, <2>2 DEF LeftoverTasksBounded, Pushers
<1>9. ASSUME \/ StartCall \/ StartSpawn \/ StartFails \/ \E pol \in Policies : StopCall(pol)
             \/ StopSignalMonitor \/ StopJoinMonitor \/ StopHalt \/ StopWakeAll \/ StopPoll
             \/ StopLock \/ StopJoin \/ StopClear
      PROVE  LeftoverTasksBounded'
  <2>1. ~(cpc' = "idle" /\ ~running')
    BY <1>9 DEF StartCall, StartSpawn, StartFails, StopCall, StopSignalMonitor,
      StopJoinMonitor, StopHalt, StopWakeAll, StopPoll, StopLock, StopJoin, StopClear,
      Inv, PhaseState
  <2> QED BY <2>1 DEF LeftoverTasksBounded
(* Stop empties the queue; a client about to push is counted by itself. *)
<1>10. ASSUME StopDrop PROVE LeftoverTasksBounded'
  <2>1. Len(tasks') = 0 /\ ppc' = ppc
    BY <1>10 DEF StopDrop, prodVars
  <2>2. Pushers' = Pushers /\ Cardinality(Pushers) \in Nat /\ Cardinality(Producers) \in Nat
        /\ Cardinality(Pushers) <= Cardinality(Producers)
    BY <2>1, Few DEF Pushers
  <2> QED BY <2>1, <2>2 DEF LeftoverTasksBounded, Pushers
<1>11. CASE UNCHANGED vars
  BY <1>1, <1>11 DEF vars, taskVars, prodVars, ctlVars, poolVars
<1> QED BY <1>1, <1>2, <1>3, <1>4, <1>5, <1>6, <1>7, <1>8, <1>9, <1>10, <1>11
  DEF Next, WorkerStep, EnqueueStep, StopStep

(* Between a Stop, whatever its policy, and the next Start the pool holds  *)
(* at most one task for each client.                                       *)
THEOREM FewTasksAreLeftOver ==
  ASSUME IsFiniteSet(Producers)
  PROVE  Spec => []LeftoverTasksBounded
<1>1. Init => LeftoverTasksBounded
  <2> SUFFICES ASSUME Init PROVE LeftoverTasksBounded
    OBVIOUS
  <2>1. Len(tasks) = 0 /\ Pushers = {}
    BY DEF Init, Pushers
  <2>2. Cardinality(Pushers) = 0 /\ Cardinality(Producers) \in Nat
    BY <2>1, Few, FS_EmptySet
  <2> QED BY <2>1, <2>2 DEF LeftoverTasksBounded, Pushers
<1>2. Inv /\ LeftoverTasksBounded /\ [Next]_vars => LeftoverTasksBounded'
  BY LeftoverStep
<1> QED BY InvHolds, <1>1, <1>2, PTL DEF Spec

-----------------------------------------------------------------------------
(* The threads of the pool *)

(* Start runs in an empty pool. *)
LEMMA MonitorIsNew == Inv => (cpc = "spawn" => mpc = "none")
BY DEF Inv, PhaseState, Quiescent

LEMMA AddWorkersKeeps ==
  ASSUME Inv, NEW k \in Nat, size + k <= MaxThreads, AddWorkers(k)
  PROVE  ThreadsKept
<1>1. size \in Nat /\ Slots = 1 .. MaxThreads /\ MaxThreads \in Nat
  BY Constants DEF Inv, TypeOK
<1>2. wpc' = [i \in Slots |-> IF i \in size + 1 .. size + k THEN "entry" ELSE wpc[i]]
  BY DEF AddWorkers
<1>3. \A i \in size + 1 .. size + k : i \in Slots => wpc[i] = "none"
  BY <1>1 DEF Inv, SlotState
<1> QED BY <1>2, <1>3, MonitorIsNew DEF ThreadsKept

LEMMA ThreadsKeptStep == Inv /\ [Next]_vars => ThreadsKept
<1> SUFFICES ASSUME Inv, [Next]_vars PROVE ThreadsKept
  OBVIOUS
<1>1. wpc' = wpc => ThreadsKept
  BY MonitorIsNew DEF ThreadsKept
<1>2. ASSUME NEW i \in Slots, WorkerStep(i) \/ WorkerSpuriousWakeup(i) PROVE ThreadsKept
  <2>1. \E to \in WorkerPCs \ {"none", "entry"} : wpc' = [wpc EXCEPT ![i] = to]
    BY <1>2 DEF WorkerStep, WorkerEnter, WorkerRegister, WorkerCount, WorkerStay,
      WorkerLeave, WorkerCheck, WorkerPark, WorkerBusy, WorkerPop, WorkerPopNothing,
      WorkerFinish, WorkerThrow, WorkerRetire, WorkerUncount, WorkerSpuriousWakeup, Go,
      WorkerPCs, Bound, Ended
  <2>2. PICK to \in WorkerPCs \ {"none", "entry"} : wpc' = [wpc EXCEPT ![i] = to]
    BY <2>1
  <2> QED BY <2>2, MonitorIsNew DEF ThreadsKept, Inv, TypeOK
<1>3. ASSUME NEW i \in Slots, WorkerFault(i) PROVE ThreadsKept
  BY <1>1, <1>3 DEF WorkerFault
<1>4. NotifyAllWorkers \/ NotifyOneWorker => ThreadsKept
  BY MonitorIsNew DEF NotifyAllWorkers, NotifyOneWorker, Waiting, ThreadsKept, Inv, TypeOK
<1>5. ASSUME MonitorAppend PROVE ThreadsKept
  <2>1. AddWorkers(AppendCount(need))
    BY <1>5 DEF MonitorAppend
  <2> QED BY <2>1, AppendCountType, AddWorkersKeeps DEF Inv
<1>6. ASSUME MonitorAppendFails PROVE ThreadsKept
  <2>1. PICK k \in 0 .. AppendCount(need) - 1 : AddWorkers(k)
    BY <1>6 DEF MonitorAppendFails
  <2>2. k \in Nat /\ size + k <= MaxThreads
    BY <2>1, AppendCountType, Constants DEF Inv, TypeOK
  <2> QED BY <2>1, <2>2, AddWorkersKeeps
<1>7. ASSUME MonitorStep \/ MonitorSpuriousWakeup PROVE ThreadsKept
  BY <1>1, <1>4, <1>5, <1>6, <1>7 DEF MonitorStep, MonitorTop, MonitorReadSurplus,
    MonitorMark, MonitorDecide, MonitorReadDeficit, MonitorRestartSlot, MonitorCheck,
    MonitorPark, MonitorTimeout, MonitorSpuriousWakeup
<1>8. ASSUME NEW p \in Producers,
             EnqueueStep(p) \/ \E t \in Tasks : EnqueueCall(p, t) \/ EnqueueThrows(p, t)
      PROVE  ThreadsKept
  BY <1>1, <1>4, <1>8 DEF EnqueueStep, EnqueueCall, EnqueueThrows, EnqueuePush,
    EnqueueNotify, EnqueueHint
<1>9. ASSUME StartSpawn PROVE ThreadsKept
  <2>1. size + MinThreads <= MaxThreads /\ AddWorkers(MinThreads) /\ MinThreads \in Nat
    BY <1>9, Constants DEF StartSpawn, Inv, PhaseState, Quiescent
  <2> QED BY <2>1, AddWorkersKeeps
<1>10. ASSUME StartFails PROVE ThreadsKept
  <2>1. PICK k \in 0 .. MinThreads : AddWorkers(k)
    BY <1>10 DEF StartFails
  <2>2. k \in Nat /\ size + k <= MaxThreads
    BY <1>10, <2>1, Constants DEF StartFails, Inv, PhaseState, Quiescent
  <2> QED BY <2>1, <2>2, AddWorkersKeeps
(* By then Stop has joined every slot of the vector. *)
<1>11. ASSUME StopClear PROVE ThreadsKept
  <2>1. cpc = "join" /\ joinIdx > size /\ wpc' = [i \in Slots |-> "none"]
    BY <1>11 DEF StopClear
  <2>2. \A i \in Slots : wpc[i] \in Ended \cup {"none"}
    <3> SUFFICES ASSUME NEW i \in Slots, wpc[i] # "none" PROVE wpc[i] \in Ended
      OBVIOUS
    <3>1. i <= size /\ i \in Nat /\ size \in Nat /\ joinIdx \in Nat
      BY Constants DEF Inv, SlotState, TypeOK, Slots
    <3>2. i < joinIdx
      BY <2>1, <3>1
    <3> QED BY <2>1, <3>1, <3>2 DEF Inv, SlotState
  <2> QED BY <2>1, <2>2, MonitorIsNew DEF ThreadsKept
<1>12. ASSUME StartCall \/ (\E pol \in Policies : StopCall(pol)) \/ StopStep
       PROVE  ThreadsKept
  BY <1>1, <1>4, <1>11, <1>12 DEF StartCall, StopCall, StopStep, StopSignalMonitor,
    StopJoinMonitor, StopHalt, StopWakeAll, StopPoll, StopLock, StopJoin, StopDrop
<1>13. CASE UNCHANGED vars
  BY <1>1, <1>13 DEF vars
<1> QED BY <1>2, <1>3, <1>7, <1>8, <1>9, <1>10, <1>12, <1>13 DEF Next

(* However many workers exceptions, failed calls of pthread_create and     *)
(* shrinking have left behind, Stop destroys no Thread object before its   *)
(* thread has ended, and no thread is started over a live one.             *)
THEOREM ThreadsAreNotAbandoned == Spec => NoThreadAbandoned
<1>1. Inv /\ [Next]_vars => [ThreadsKept]_<<wpc, mpc>>
  BY ThreadsKeptStep
<1> QED BY InvHolds, <1>1, PTL DEF Spec, NoThreadAbandoned

-----------------------------------------------------------------------------
(* Lost wakeups *)

(* global_mutex_ is held by at most one worker on its way to sleep, which  *)
(* has found tasks_ empty; nobody can push a task until it sleeps.         *)
ParkState ==
  /\ \A i, j \in Slots : wpc[i] = "parking" /\ wpc[j] = "parking" => i = j
  /\ \A i \in Slots : wpc[i] = "parking" => tasks = <<>>

(* AddWorkers and the notifications: nobody goes to sleep by them, and     *)
(* nobody who was awake in the loop disappears.                            *)
LEMMA AddWorkersWakes ==
  ASSUME Inv, NEW k \in Nat, size + k <= MaxThreads, AddWorkers(k)
  PROVE  /\ \A i \in Slots : wpc'[i] \in {"parking", "waiting"} => wpc'[i] = wpc[i]
         /\ Awake \subseteq Awake'
<1>1. size \in Nat /\ Slots = 1 .. MaxThreads /\ MaxThreads \in Nat
  BY Constants DEF Inv, TypeOK
<1>2. wpc' = [i \in Slots |-> IF i \in size + 1 .. size + k THEN "entry" ELSE wpc[i]]
  BY DEF AddWorkers
<1>3. \A i \in size + 1 .. size + k : i \in Slots => wpc[i] = "none"
  BY <1>1 DEF Inv, SlotState
<1> QED BY <1>2, <1>3 DEF Awake

LEMMA SleepersLeave ==
  ASSUME TypeOK, NotifyAllWorkers \/ NotifyOneWorker
  PROVE  /\ \A i \in Slots : wpc'[i] \in {"parking", "waiting"} => wpc'[i] = wpc[i]
         /\ Awake \subseteq Awake'
BY NotifyMoves DEF Awake

(* The positions of the workers after a step that is not one of the        *)
(* critical sections below: nobody new sleeps, everybody awake stays so.   *)
Undisturbed ==
  /\ \A i \in Slots : wpc'[i] \in {"parking", "waiting"} => wpc'[i] = wpc[i]
  /\ Awake \subseteq Awake'

LEMMA WorkerUndisturbed ==
  ASSUME TypeOK, NEW i \in Slots,
         \/ WorkerEnter(i) \/ WorkerRegister(i) \/ WorkerCount(i) \/ WorkerStay(i)
         \/ WorkerLeave(i) \/ WorkerBusy(i) \/ WorkerFinish(i) \/ WorkerThrow(i)
         \/ WorkerRetire(i) \/ WorkerUncount(i) \/ WorkerSpuriousWakeup(i) \/ WorkerFault(i)
  PROVE  Undisturbed /\ UNCHANGED <<tasks, ppc, cpc>>
<1>1. UNCHANGED <<tasks, ppc, cpc>>
  BY DEF WorkerEnter, WorkerRegister, WorkerCount, WorkerStay, WorkerLeave, WorkerBusy,
    WorkerFinish, WorkerThrow, EndTask, WorkerRetire, WorkerUncount, WorkerSpuriousWakeup,
    WorkerFault, taskVars, prodVars, ctlVars
<1>2. CASE WorkerFault(i)
  BY <1>1, <1>2 DEF WorkerFault, Undisturbed, Awake
<1>3. CASE ~WorkerFault(i)
  <2>1. \E to \in WorkerPCs \ {"parking", "waiting"} :
          /\ wpc' = [wpc EXCEPT ![i] = to]
          /\ wpc[i] \notin {"lock", "pop", "woke"} \/ to = "pop"
    BY <1>3 DEF WorkerEnter, WorkerRegister, WorkerCount, WorkerStay, WorkerLeave, WorkerBusy,
      WorkerFinish, WorkerThrow, WorkerRetire, WorkerUncount, WorkerSpuriousWakeup, Go,
      WorkerPCs, Bound, Ended
  <2>2. PICK to \in WorkerPCs \ {"parking", "waiting"} :
          /\ wpc' = [wpc EXCEPT ![i] = to]
          /\ wpc[i] \notin {"lock", "pop", "woke"} \/ to = "pop"
    BY <2>1
  <2> QED BY <1>1, <2>2 DEF Undisturbed, Awake, TypeOK
<1> QED BY <1>2, <1>3

LEMMA OtherUndisturbed ==
  ASSUME Inv,
         \/ MonitorStep \/ MonitorSpuriousWakeup
         \/ StartCall \/ StartSpawn \/ StartFails \/ \E pol \in Policies : StopCall(pol)
         \/ StopSignalMonitor \/ StopJoinMonitor \/ StopHalt \/ StopWakeAll \/ StopPoll
         \/ StopLock \/ StopJoin \/ UNCHANGED vars
  PROVE  Undisturbed /\ UNCHANGED <<tasks, ppc>>
<1>1. UNCHANGED <<tasks, ppc>>
  BY DEF MonitorStep, MonitorTop, MonitorReadSurplus, MonitorMark, MonitorDecide,
    MonitorReadDeficit, MonitorRestartSlot, MonitorAppend, MonitorAppendFails, MonitorCheck,
    MonitorPark, MonitorTimeout, MonitorSpuriousWakeup, StartCall, StartSpawn, StartFails,
    StopCall, StopSignalMonitor, StopJoinMonitor, StopHalt, StopWakeAll, StopPoll, StopLock,
    StopJoin, vars, taskVars, prodVars
<1>2. wpc' = wpc => Undisturbed
  BY DEF Undisturbed, Awake
<1>3. ASSUME \/ MonitorTop \/ MonitorReadSurplus \/ MonitorDecide \/ MonitorReadDeficit
             \/ MonitorRestartSlot \/ MonitorCheck \/ MonitorPark \/ MonitorTimeout
             \/ MonitorSpuriousWakeup
             \/ StartCall \/ \E pol \in Policies : StopCall(pol)
             \/ StopSignalMonitor \/ StopJoinMonitor \/ StopHalt \/ StopPoll
             \/ StopLock \/ StopJoin \/ UNCHANGED vars
      PROVE  wpc' = wpc
  BY <1>3 DEF MonitorTop, MonitorReadSurplus, MonitorDecide, MonitorReadDeficit,
    MonitorRestartSlot, MonitorCheck, MonitorPark, MonitorTimeout, MonitorSpuriousWakeup,
    StartCall, StopCall, StopSignalMonitor, StopJoinMonitor, StopHalt, StopPoll, StopLock,
    StopJoin, vars
<1>4. ASSUME MonitorMark \/ StopWakeAll PROVE Undisturbed
  BY <1>4, SleepersLeave DEF MonitorMark, StopWakeAll, Inv, Undisturbed
<1>5. ASSUME MonitorAppend PROVE Undisturbed
  <2>1. AddWorkers(AppendCount(need))
    BY <1>5 DEF MonitorAppend
  <2> QED BY <2>1, AppendCountType, AddWorkersWakes DEF Inv, Undisturbed
<1>6. ASSUME MonitorAppendFails PROVE Undisturbed
  <2>1. PICK k \in 0 .. AppendCount(need) - 1 : AddWorkers(k)
    BY <1>6 DEF MonitorAppendFails
  <2>2. k \in Nat /\ size + k <= MaxThreads
    BY <2>1, AppendCountType, Constants DEF Inv, TypeOK
  <2> QED BY <2>1, <2>2, AddWorkersWakes DEF Undisturbed
<1>7. ASSUME StartSpawn PROVE Undisturbed
  <2>1. size + MinThreads <= MaxThreads /\ AddWorkers(MinThreads) /\ MinThreads \in Nat
    BY <1>7, Constants DEF StartSpawn, Inv, PhaseState, Quiescent
  <2> QED BY <2>1, AddWorkersWakes DEF Undisturbed
<1>8. ASSUME StartFails PROVE Undisturbed
  <2>1. PICK k \in 0 .. MinThreads : AddWorkers(k)
    BY <1>8 DEF StartFails
  <2>2. k \in Nat /\ size + k <= MaxThreads
    BY <1>8, <2>1, Constants DEF StartFails, Inv, PhaseState, Quiescent
  <2> QED BY <2>1, <2>2, AddWorkersWakes DEF Undisturbed
<1> QED BY <1>1, <1>2, <1>3, <1>4, <1>5, <1>6, <1>7, <1>8 DEF MonitorStep

LEMMA ParkStep == Inv /\ ParkState /\ [Next]_vars => ParkState'
<1> SUFFICES ASSUME Inv, ParkState, [Next]_vars PROVE ParkState'
  OBVIOUS
<1>1. Undisturbed /\ tasks' = tasks => ParkState'
  BY DEF Undisturbed, ParkState
<1>2. ASSUME NEW i \in Slots, WorkerCheck(i) PROVE ParkState'
  <2>1. \A j \in Slots : wpc[j] # "parking"
    BY <1>2 DEF WorkerCheck, GlobalMutexFree
  <2>2. tasks' = tasks /\ (wpc'[i] = "parking" => tasks = <<>>)
    BY <1>2 DEF WorkerCheck, Go, WaitPredicate, taskVars, Inv, TypeOK
  <2>3. \A j \in Slots : j # i => wpc'[j] = wpc[j]
    BY <1>2 DEF WorkerCheck, Go, Inv, TypeOK
  <2> QED BY <2>1, <2>2, <2>3 DEF ParkState
<1>3. ASSUME NEW i \in Slots, WorkerPark(i) \/ WorkerPopNothing(i) PROVE ParkState'
  BY <1>3 DEF WorkerPark, WorkerPopNothing, Go, ParkState, taskVars, Inv, TypeOK
<1>4. ASSUME NEW i \in Slots, WorkerPop(i) PROVE ParkState'
  <2>1. \A j \in Slots : wpc'[j] # "parking"
    BY <1>4 DEF WorkerPop, GlobalMutexFree, Go, Inv, TypeOK
  <2> QED BY <2>1 DEF ParkState
<1>5. ASSUME NEW p \in Producers, EnqueuePush(p) PROVE ParkState'
  BY <1>5 DEF EnqueuePush, GlobalMutexFree, ParkState
<1>6. ASSUME NEW p \in Producers, EnqueueNotify(p) PROVE ParkState'
  BY <1>6, SleepersLeave DEF EnqueueNotify, ParkState, taskVars, Inv
<1>7. ASSUME NEW p \in Producers,
             EnqueueHint(p) \/ \E t \in Tasks : EnqueueCall(p, t) \/ EnqueueThrows(p, t)
      PROVE  ParkState'
  BY <1>7 DEF EnqueueHint, EnqueueCall, EnqueueThrows, ParkState, taskVars
<1>8. ASSUME StopClear PROVE ParkState'
  BY <1>8 DEF StopClear, ParkState
<1>9. ASSUME StopDrop PROVE ParkState'
  BY <1>9 DEF StopDrop, GlobalMutexFree, ParkState
<1> QED BY <1>1, <1>2, <1>3, <1>4, <1>5, <1>6, <1>7, <1>8, <1>9, WorkerUndisturbed,
           OtherUndisturbed
  DEF Next, WorkerStep, EnqueueStep, StopStep, Inv

LEMMA MissStep == Inv /\ ParkState /\ OneMissesStop /\ [Next]_vars => OneMissesStop'
<1> SUFFICES ASSUME Inv, ParkState, OneMissesStop, [Next]_vars PROVE OneMissesStop'
  OBVIOUS
<1> DEFINE After == cpc \in {"poll", "lock", "join", "drop"}
<1>1. (\A i \in Slots : wpc'[i] \in {"parking", "waiting"}
                          => wpc[i] \in {"parking", "waiting"})
      /\ (After' => After) => OneMissesStop'
  BY DEF OneMissesStop, Asleep
<1>2. Undisturbed /\ (After' => After) => OneMissesStop'
  BY <1>1 DEF Undisturbed
<1>3. ASSUME NEW i \in Slots, WorkerCheck(i) PROVE OneMissesStop'
  <2>1. After => ~running
    BY DEF Inv, PhaseState
  <2>2. cpc' = cpc /\ (~running => wpc' = [wpc EXCEPT ![i] = "woke"])
    BY <1>3 DEF WorkerCheck, Go, WaitPredicate, ctlVars
  <2> QED BY <1>1, <2>1, <2>2 DEF Inv, TypeOK, OneMissesStop, Asleep
<1>4. ASSUME NEW i \in Slots, WorkerPark(i) PROVE OneMissesStop'
  BY <1>1, <1>4 DEF WorkerPark, Go, ctlVars, Inv, TypeOK
<1>5. ASSUME NEW i \in Slots, WorkerPop(i) \/ WorkerPopNothing(i) PROVE OneMissesStop'
  BY <1>1, <1>5 DEF WorkerPop, WorkerPopNothing, Go, ctlVars, Inv, TypeOK
<1>6. ASSUME NEW p \in Producers, EnqueueNotify(p) PROVE OneMissesStop'
  BY <1>1, <1>6, SleepersLeave DEF EnqueueNotify, ctlVars, Inv
<1>7. ASSUME NEW p \in Producers,
             \/ EnqueuePush(p) \/ EnqueueHint(p)
             \/ \E t \in Tasks : EnqueueCall(p, t) \/ EnqueueThrows(p, t)
      PROVE  OneMissesStop'
  BY <1>1, <1>7 DEF EnqueuePush, EnqueueHint, EnqueueCall, EnqueueThrows, ctlVars
<1>8. ASSUME StopWakeAll PROVE OneMissesStop'
  <2>1. \A i \in Slots : wpc'[i] \in {"parking", "waiting"} => wpc[i] = "parking"
    BY <1>8 DEF StopWakeAll, NotifyAllWorkers
  <2> QED BY <2>1 DEF ParkState, OneMissesStop, Asleep
<1>9. ASSUME StopClear \/ StopDrop PROVE OneMissesStop'
  BY <1>1, <1>9 DEF StopClear, StopDrop
<1>10. ASSUME \/ MonitorStep \/ MonitorSpuriousWakeup
              \/ StartCall \/ StartSpawn \/ StartFails \/ \E pol \in Policies : StopCall(pol)
              \/ StopSignalMonitor \/ StopJoinMonitor \/ StopHalt \/ StopPoll
              \/ StopLock \/ StopJoin \/ UNCHANGED vars
       PROVE  OneMissesStop'
  <2>1. After' => After
    BY <1>10 DEF MonitorStep, MonitorTop, MonitorReadSurplus, MonitorMark, MonitorDecide,
      MonitorReadDeficit, MonitorRestartSlot, MonitorAppend, MonitorAppendFails, MonitorCheck,
      MonitorPark, MonitorTimeout, MonitorSpuriousWakeup, StartCall, StartSpawn, StartFails,
      StopCall, StopSignalMonitor, StopJoinMonitor, StopHalt, StopPoll, StopLock, StopJoin,
      vars, ctlVars
  <2>2. Undisturbed
    BY <1>10, OtherUndisturbed
  <2> QED BY <1>2, <2>1, <2>2
<1>11. ASSUME NEW i \in Slots,
              \/ WorkerEnter(i) \/ WorkerRegister(i) \/ WorkerCount(i) \/ WorkerStay(i)
              \/ WorkerLeave(i) \/ WorkerBusy(i) \/ WorkerFinish(i) \/ WorkerThrow(i)
              \/ WorkerRetire(i) \/ WorkerUncount(i) \/ WorkerSpuriousWakeup(i)
              \/ WorkerFault(i)
       PROVE  OneMissesStop'
  BY <1>2, <1>11, WorkerUndisturbed DEF Inv
<1> QED BY <1>3, <1>4, <1>5, <1>6, <1>7, <1>8, <1>9, <1>10, <1>11
  DEF Next, WorkerStep, EnqueueStep, StopStep

(* At most one worker sleeps through Stop's notification.                  *)
THEOREM AtMostOneMissesStop == Spec => []OneMissesStop
<1>1. Init => ParkState /\ OneMissesStop
  BY DEF Init, ParkState, OneMissesStop
<1> QED BY InvHolds, <1>1, ParkStep, MissStep, PTL DEF Spec

LEMMA AwakeFinite ==
  ASSUME IsFiniteSet(Producers)
  PROVE  /\ IsFiniteSet(Notifiers) /\ Cardinality(Notifiers) \in Nat
         /\ IsFiniteSet(Awake) /\ Cardinality(Awake) \in Nat
BY SlotsFinite, FS_Subset, FS_CardinalityType DEF Notifiers, Awake

LEMMA AwakeFinitePrime ==
  ASSUME IsFiniteSet(Producers)
  PROVE  /\ IsFiniteSet(Notifiers') /\ Cardinality(Notifiers') \in Nat
         /\ IsFiniteSet(Awake') /\ Cardinality(Awake') \in Nat
BY SlotsFinite, FS_Subset, FS_CardinalityType DEF Notifiers, Awake

LEMMA WakeStep ==
  ASSUME IsFiniteSet(Producers)
  PROVE  Inv /\ ParkState /\ NoWakeupLost /\ [Next]_vars => NoWakeupLost'
<1> SUFFICES ASSUME Inv, ParkState, NoWakeupLost, [Next]_vars PROVE NoWakeupLost'
  OBVIOUS
<1>0. Len(tasks) \in Nat
  BY DEF Inv, TypeOK
(* With more workers awake, no new sleeper and the same queue. *)
<1>1. Undisturbed /\ tasks' = tasks /\ Notifiers' = Notifiers => NoWakeupLost'
  <2> SUFFICES ASSUME Undisturbed, tasks' = tasks, Notifiers' = Notifiers
               PROVE  NoWakeupLost'
    OBVIOUS
  <2>1. Waiting' \subseteq Waiting
    BY DEF Undisturbed, Waiting
  <2>2. Cardinality(Awake) <= Cardinality(Awake')
    BY AwakeFinitePrime, FS_Subset DEF Undisturbed
  <2> QED BY <1>0, <2>1, <2>2, AwakeFinite, AwakeFinitePrime DEF NoWakeupLost
<1>2. ppc' = ppc => Notifiers' = Notifiers
  BY DEF Notifiers
<1>3. tasks' = <<>> => NoWakeupLost'
  BY AwakeFinitePrime DEF NoWakeupLost
<1>4. Waiting' = {} => NoWakeupLost'
  BY DEF NoWakeupLost
<1>5. ASSUME NEW i \in Slots, WorkerCheck(i) PROVE NoWakeupLost'
  <2>1. CASE WaitPredicate(i)
    <3>1. wpc' = [wpc EXCEPT ![i] = "woke"] /\ UNCHANGED <<tasks, ppc>>
      BY <1>5, <2>1 DEF WorkerCheck, Go, taskVars, prodVars
    <3>2. Undisturbed
      BY <3>1 DEF Undisturbed, Awake, Inv, TypeOK
    <3> QED BY <1>1, <1>2, <3>1, <3>2
  <2>2. CASE ~WaitPredicate(i)
    BY <1>3, <1>5, <2>2 DEF WorkerCheck, WaitPredicate, taskVars
  <2> QED BY <2>1, <2>2
<1>6. ASSUME NEW i \in Slots, WorkerPark(i) PROVE NoWakeupLost'
  BY <1>3, <1>6 DEF WorkerPark, Go, ParkState, taskVars
<1>7. ASSUME NEW i \in Slots, WorkerPop(i) PROVE NoWakeupLost'
  <2>1. /\ tasks' = Tail(tasks) /\ tasks # <<>> /\ ppc' = ppc
        /\ wpc[i] = "pop" /\ wpc' = [wpc EXCEPT ![i] = "run"]
    BY <1>7 DEF WorkerPop, TasksAfterPop, Go, prodVars
  <2>2. Len(tasks') = Len(tasks) - 1
    BY <2>1 DEF Inv, TypeOK
  <2>3. Awake' = Awake \ {i} /\ i \in Awake /\ Waiting' = Waiting
    BY <2>1 DEF Awake, Waiting, Inv, TypeOK
  <2>4. Cardinality(Awake') = Cardinality(Awake) - 1
    BY <2>3, AwakeFinite, FS_RemoveElement
  <2> QED BY <1>0, <1>2, <2>1, <2>2, <2>3, <2>4, AwakeFinite DEF NoWakeupLost
<1>8. ASSUME NEW i \in Slots, WorkerPopNothing(i) PROVE NoWakeupLost'
  BY <1>3, <1>8 DEF WorkerPopNothing, taskVars
<1>9. ASSUME NEW p \in Producers, EnqueuePush(p) PROVE NoWakeupLost'
  <2>1. /\ tasks' = Append(tasks, hand[p]) /\ ppc[p] = "push" /\ wpc' = wpc
        /\ ppc' = [ppc EXCEPT ![p] = "notify"]
    BY <1>9 DEF EnqueuePush
  <2>2. Len(tasks') = Len(tasks) + 1
    BY <2>1 DEF Inv, TypeOK, TasksAccounted, InOneHand
  <2>3. Notifiers' = Notifiers \cup {p} /\ p \notin Notifiers
    BY <2>1 DEF Notifiers, Inv, TypeOK
  <2>4. Cardinality(Notifiers') = Cardinality(Notifiers) + 1
    BY <2>3, AwakeFinite, FS_AddElement
  <2>5. Awake' = Awake /\ Waiting' = Waiting
    BY <2>1 DEF Awake, Waiting
  <2> QED BY <1>0, <2>2, <2>4, <2>5, AwakeFinite DEF NoWakeupLost
<1>10. ASSUME NEW p \in Producers, EnqueueNotify(p) PROVE NoWakeupLost'
  <2>1. /\ tasks' = tasks /\ ppc[p] = "notify" /\ NotifyOneWorker
        /\ ppc' = [ppc EXCEPT ![p] = "hint"]
    BY <1>10 DEF EnqueueNotify, taskVars
  <2>2. Notifiers' = Notifiers \ {p} /\ p \in Notifiers
    BY <2>1 DEF Notifiers, Inv, TypeOK
  <2>3. Cardinality(Notifiers') = Cardinality(Notifiers) - 1
    BY <2>2, AwakeFinite, FS_RemoveElement
  <2>4. CASE Waiting = {}
    BY <1>4, <2>1, <2>4 DEF NotifyOneWorker, Waiting
  <2>5. CASE Waiting # {}
    <3>1. PICK i \in Waiting : wpc' = [wpc EXCEPT ![i] = "lock"]
      BY <2>1, <2>5 DEF NotifyOneWorker
    <3>2. Awake' = Awake \cup {i} /\ i \notin Awake
      BY <3>1 DEF Awake, Waiting, Inv, TypeOK
    <3>3. Cardinality(Awake') = Cardinality(Awake) + 1
      BY <3>2, AwakeFinite, FS_AddElement
    <3> QED BY <1>0, <2>1, <2>3, <2>5, <3>3, AwakeFinite DEF NoWakeupLost
  <2> QED BY <2>4, <2>5
<1>11. ASSUME NEW p \in Producers,
              EnqueueHint(p) \/ \E t \in Tasks : EnqueueCall(p, t) \/ EnqueueThrows(p, t)
       PROVE  NoWakeupLost'
  <2>1. UNCHANGED <<tasks, wpc>>
    BY <1>11 DEF EnqueueHint, EnqueueCall, EnqueueThrows, taskVars
  <2>2. Notifiers' = Notifiers
    BY <1>11 DEF EnqueueHint, EnqueueCall, EnqueueThrows, prodVars, Notifiers, Inv, TypeOK
  <2>3. Undisturbed
    BY <2>1 DEF Undisturbed, Awake
  <2> QED BY <1>1, <2>1, <2>2, <2>3
<1>12. ASSUME StopClear PROVE NoWakeupLost'
  BY <1>4, <1>12 DEF StopClear, Waiting
<1>13. ASSUME StopDrop PROVE NoWakeupLost'
  BY <1>3, <1>13 DEF StopDrop
<1>14. ASSUME \/ MonitorStep \/ MonitorSpuriousWakeup
              \/ StartCall \/ StartSpawn \/ StartFails \/ \E pol \in Policies : StopCall(pol)
              \/ StopSignalMonitor \/ StopJoinMonitor \/ StopHalt \/ StopWakeAll \/ StopPoll
              \/ StopLock \/ StopJoin \/ UNCHANGED vars
       PROVE  NoWakeupLost'
  BY <1>1, <1>2, <1>14, OtherUndisturbed
<1>15. ASSUME NEW i \in Slots,
              \/ WorkerEnter(i) \/ WorkerRegister(i) \/ WorkerCount(i) \/ WorkerStay(i)
              \/ WorkerLeave(i) \/ WorkerBusy(i) \/ WorkerFinish(i) \/ WorkerThrow(i)
              \/ WorkerRetire(i) \/ WorkerUncount(i) \/ WorkerSpuriousWakeup(i)
              \/ WorkerFault(i)
       PROVE  NoWakeupLost'
  BY <1>1, <1>2, <1>15, WorkerUndisturbed DEF Inv
<1> QED BY <1>5, <1>6, <1>7, <1>8, <1>9, <1>10, <1>11, <1>12, <1>13, <1>14, <1>15
  DEF Next, WorkerStep, EnqueueStep, StopStep

(* While a worker sleeps, every queued task has a notification that is     *)
(* still to come or a worker that is awake to look for it.                 *)
THEOREM NoWakeupIsLost ==
  ASSUME IsFiniteSet(Producers)
  PROVE  Spec => []NoWakeupLost
<1>1. Init => ParkState /\ NoWakeupLost
  BY DEF Init, ParkState, NoWakeupLost, Waiting
<1>2. Inv /\ ParkState /\ NoWakeupLost /\ [Next]_vars => NoWakeupLost'
  BY WakeStep
<1> QED BY InvHolds, <1>1, ParkStep, <1>2, PTL DEF Spec
=============================================================================
