----------------------- MODULE NormalThreadPoolProofs -----------------------
(***************************************************************************)
(* Theorems of NormalThreadPool for every number of tasks, producers and   *)
(* hardware threads, with the proofs that TLAPS checks.                    *)
(***************************************************************************)
EXTENDS NormalThreadPoolProps, FiniteSetTheorems, TLAPS

(* The slots, their threads and the progress of Stop's joins. *)
SlotState ==
  /\ \A i \in Slots : wpc[i] # "none" <=> i <= size
  /\ cpc # "join" => joinable = 1 .. size
  /\ cpc = "join" => /\ joinable = joinIdx .. size
                     /\ \A i \in Slots : i < joinIdx /\ i <= size => wpc[i] \in Ended

(* Which positions of the controller go with which state of the pool: in   *)
(* particular the monitor is alive only between Start and its join.        *)
PhaseState ==
  /\ cpc = "idle" /\ ~running => Quiescent
  /\ cpc = "spawn" => running /\ Quiescent
  /\ cpc = "drop" => Quiescent
  /\ cpc \in {"signal", "joinmon"} => running /\ ~monitoring
  /\ cpc \in {"halt", "wakeall", "poll", "lock", "join", "drop"}
       => mpc = "none" /\ ~monitoring
  /\ cpc \in {"wakeall", "poll", "lock", "join", "drop"} => ~running

(* The inductive invariant behind the theorems. *)
Inv == TypeOK /\ SlotState /\ PhaseState /\ CountExact /\ TasksAccounted

-----------------------------------------------------------------------------
(* The constants, and the helpers that several actions share *)

LEMMA Constants == /\ MaxThreads \in Nat /\ MinThreads \in Nat
                   /\ MinThreads <= MaxThreads /\ Slots = 1 .. MaxThreads
<1> QED BY PoolAssumption DEF MaxThreads, MinThreads, ExpandFactor, Slots

(* What AddWorkers does to the slots it appends. *)
LEMMA AddWorkersType ==
  ASSUME TypeOK, NEW k \in Nat, size + k <= MaxThreads, AddWorkers(k)
  PROVE  /\ size' \in 0 .. MaxThreads /\ capacity' \in Nat
         /\ joinable' \subseteq Slots /\ stale' \subseteq Slots
         /\ wpc' \in [Slots -> WorkerPCs]
<1>1. size \in 0 .. MaxThreads /\ capacity \in Nat /\ MaxThreads \in Nat
  BY Constants DEF TypeOK
<1>2. size' \in 0 .. MaxThreads /\ capacity' \in Nat
  BY <1>1 DEF AddWorkers
<1>3. size + 1 .. size + k \subseteq Slots
  BY <1>1, Constants
<1>4. joinable' \subseteq Slots /\ stale' \subseteq Slots
  BY <1>3 DEF AddWorkers, TypeOK
<1>5. wpc' \in [Slots -> WorkerPCs]
  BY DEF AddWorkers, TypeOK, WorkerPCs
<1> QED BY <1>2, <1>4, <1>5

(* A notification moves waiters to the reacquisition of the mutex only. *)
LEMMA NotifyMoves ==
  ASSUME TypeOK, NotifyAllWorkers \/ NotifyOneWorker
  PROVE  /\ wpc' \in [Slots -> WorkerPCs]
         /\ \A i \in Slots : wpc'[i] = wpc[i] \/ (wpc[i] = "waiting" /\ wpc'[i] = "lock")
<1>1. CASE NotifyAllWorkers
  BY <1>1 DEF NotifyAllWorkers, TypeOK, WorkerPCs, Bound
<1>2. CASE NotifyOneWorker
  BY <1>2 DEF NotifyOneWorker, Waiting, TypeOK, WorkerPCs, Bound
<1> QED BY <1>1, <1>2

LEMMA AppendCountType ==
  ASSUME TypeOK PROVE AppendCount(need) \in Nat /\ size + AppendCount(need) <= MaxThreads
<1> QED BY Constants DEF TypeOK, AppendCount, Smaller

LEMMA EndTaskType ==
  ASSUME TypeOK, NEW i \in Slots, NEW how \in Fates, EndTask(i, how)
  PROVE  /\ held' \in [Slots -> Tasks \cup {NoTask}]
         /\ fate' \in [Tasks -> Fates]
<1>1. held \in [Slots -> Tasks \cup {NoTask}] /\ fate \in [Tasks -> Fates]
  BY DEF TypeOK
<1> QED BY <1>1 DEF EndTask

LEMMA SlotsFinite == IsFiniteSet(Slots)
<1> QED BY FS_Interval, Constants

(* A worker that is about to uncount itself is one of those counted. *)
LEMMA CountPositive ==
  ASSUME CountExact, NEW i \in Slots, wpc[i] \in Counted
  PROVE  validThreadCount \in Nat \ {0}
<1> DEFINE C == {j \in Slots : wpc[j] \in Counted}
<1>1. IsFiniteSet(C)
  BY SlotsFinite, FS_Subset
<1>2. Cardinality(C) \in Nat /\ C # {}
  BY <1>1, FS_CardinalityType
<1>3. Cardinality(C) # 0
  BY <1>1, <1>2, FS_EmptySet
<1> QED BY <1>2, <1>3 DEF CountExact

-----------------------------------------------------------------------------
(* TypeOK: one step per action *)

LEMMA TypeStep == Inv /\ [Next]_vars => TypeOK'
<1> SUFFICES ASSUME Inv, [Next]_vars PROVE TypeOK'
  OBVIOUS
<1> USE Constants DEF Inv, TypeOK, poolVars, workerVars, flagVars, monVars,
        prodVars, ctlVars, taskVars
<1>1. ASSUME NEW i \in Slots, WorkerEnter(i) PROVE TypeOK'
  BY <1>1 DEF WorkerEnter, Go, WorkerPCs, Bound, Ended
<1>2. ASSUME NEW i \in Slots, WorkerRegister(i) PROVE TypeOK'
  BY <1>2 DEF WorkerRegister, Go, WorkerPCs, Bound, Ended
<1>3. ASSUME NEW i \in Slots, WorkerCount(i) PROVE TypeOK'
  BY <1>3 DEF WorkerCount, Go, WorkerPCs, Bound, Ended
<1>4. ASSUME NEW i \in Slots, WorkerStay(i) PROVE TypeOK'
  BY <1>4 DEF WorkerStay, Go, WorkerPCs, Bound, Ended
<1>5. ASSUME NEW i \in Slots, WorkerLeave(i) PROVE TypeOK'
  BY <1>5 DEF WorkerLeave, Go, WorkerPCs, Bound, Ended
<1>6. ASSUME NEW i \in Slots, WorkerCheck(i) PROVE TypeOK'
  BY <1>6 DEF WorkerCheck, Go, WorkerPCs, Bound, Ended
<1>7. ASSUME NEW i \in Slots, WorkerPark(i) PROVE TypeOK'
  BY <1>7 DEF WorkerPark, Go, WorkerPCs, Bound, Ended
<1>8. ASSUME NEW i \in Slots, WorkerBusy(i) PROVE TypeOK'
  BY <1>8 DEF WorkerBusy, Go, WorkerPCs, Bound, Ended
<1>9. ASSUME NEW i \in Slots, WorkerPop(i) PROVE TypeOK'
  BY <1>9 DEF WorkerPop, NextTask, TasksAfterPop, Fates, Go, WorkerPCs, Bound, Ended
<1>10. ASSUME NEW i \in Slots, WorkerPopNothing(i) PROVE TypeOK'
  BY <1>10 DEF WorkerPopNothing, Go, WorkerPCs, Bound, Ended
<1>11. ASSUME NEW i \in Slots, WorkerFinish(i) PROVE TypeOK'
  <2>1. EndTask(i, "finished") /\ "finished" \in Fates
    BY <1>11 DEF WorkerFinish, Fates
  <2>2. held' \in [Slots -> Tasks \cup {NoTask}] /\ fate' \in [Tasks -> Fates]
    BY <2>1, EndTaskType
  <2> QED BY <1>11, <2>2 DEF WorkerFinish, EndTask, Go, WorkerPCs, Bound, Ended
<1>12. ASSUME NEW i \in Slots, WorkerThrow(i) PROVE TypeOK'
  <2>1. EndTask(i, "threw") /\ "threw" \in Fates
    BY <1>12 DEF WorkerThrow, Fates
  <2>2. held' \in [Slots -> Tasks \cup {NoTask}] /\ fate' \in [Tasks -> Fates]
    BY <2>1, EndTaskType
  <2> QED BY <1>12, <2>2 DEF WorkerThrow, EndTask, Go, WorkerPCs, Bound, Ended
<1>13. ASSUME NEW i \in Slots, WorkerRetire(i) PROVE TypeOK'
  BY <1>13 DEF WorkerRetire, Go, WorkerPCs, Bound, Ended
<1>14. ASSUME NEW i \in Slots, WorkerUncount(i) PROVE TypeOK'
  <2>1. validThreadCount - 1 \in Nat
    BY <1>14, CountPositive DEF WorkerUncount, Go, Counted
  <2> QED BY <1>14, <2>1 DEF WorkerUncount, Go, WorkerPCs, Bound, Ended
<1>15. ASSUME NEW i \in Slots, WorkerSpuriousWakeup(i) PROVE TypeOK'
  BY <1>15 DEF WorkerSpuriousWakeup, Go, WorkerPCs, Bound, Ended
<1>16. ASSUME NEW i \in Slots, WorkerFault(i) PROVE TypeOK'
  BY <1>16 DEF WorkerFault, Go, WorkerPCs, Bound, Ended
<1>17. ASSUME MonitorTop PROVE TypeOK'
  BY <1>17 DEF MonitorTop
<1>18. ASSUME MonitorReadSurplus PROVE TypeOK'
  BY <1>18 DEF MonitorReadSurplus
<1>19. ASSUME MonitorMark PROVE TypeOK'
  BY <1>19, NotifyMoves DEF MonitorMark
<1>20. ASSUME MonitorDecide PROVE TypeOK'
  BY <1>20 DEF MonitorDecide
<1>21. ASSUME MonitorReadDeficit PROVE TypeOK'
  BY <1>21 DEF MonitorReadDeficit, Smaller, ExpandFactor
<1>22. ASSUME MonitorRestartSlot PROVE TypeOK'
  BY <1>22 DEF MonitorRestartSlot
<1>23. ASSUME MonitorAppend PROVE TypeOK'
  <2>1. AddWorkers(AppendCount(need))
    BY <1>23 DEF MonitorAppend
  <2> QED BY <1>23, <2>1, AddWorkersType, AppendCountType DEF MonitorAppend
<1>24. ASSUME MonitorAppendFails PROVE TypeOK'
  <2>1. PICK k \in 0 .. AppendCount(need) - 1 : AddWorkers(k)
    BY <1>24 DEF MonitorAppendFails
  <2>2. k \in Nat /\ size + k <= MaxThreads
    BY <2>1, AppendCountType
  <2> QED BY <1>24, <2>1, <2>2, AddWorkersType DEF MonitorAppendFails
<1>25. ASSUME MonitorCheck PROVE TypeOK'
  BY <1>25 DEF MonitorCheck
<1>26. ASSUME MonitorPark PROVE TypeOK'
  BY <1>26 DEF MonitorPark
<1>27. ASSUME MonitorTimeout PROVE TypeOK'
  BY <1>27 DEF MonitorTimeout
<1>28. ASSUME MonitorSpuriousWakeup PROVE TypeOK'
  BY <1>28 DEF MonitorSpuriousWakeup
<1>29. ASSUME NEW p \in Producers, EnqueuePush(p) PROVE TypeOK'
  <2>1. hand[p] \in Tasks
    BY <1>29 DEF EnqueuePush, TasksAccounted, InOneHand
  <2> QED BY <1>29, <2>1 DEF EnqueuePush, Fates
<1>30. ASSUME NEW p \in Producers, EnqueueNotify(p) PROVE TypeOK'
  BY <1>30, NotifyMoves DEF EnqueueNotify
<1>31. ASSUME NEW p \in Producers, EnqueueHint(p) PROVE TypeOK'
  BY <1>31 DEF EnqueueHint, NotifyMonitor
<1>32. ASSUME NEW p \in Producers, NEW t \in Tasks, EnqueueCall(p, t) PROVE TypeOK'
  BY <1>32 DEF EnqueueCall, Fates
<1>33. ASSUME NEW p \in Producers, NEW t \in Tasks, EnqueueThrows(p, t) PROVE TypeOK'
  BY <1>33 DEF EnqueueThrows, Fates
<1>34. ASSUME StartCall PROVE TypeOK'
  BY <1>34 DEF StartCall
<1>35. ASSUME StartSpawn PROVE TypeOK'
  <2>1. size + MinThreads <= MaxThreads /\ AddWorkers(MinThreads)
    BY <1>35 DEF StartSpawn, PhaseState, Quiescent
  <2> QED BY <1>35, <2>1, AddWorkersType DEF StartSpawn
<1>36. ASSUME StartFails PROVE TypeOK'
  <2>1. PICK k \in 0 .. MinThreads : AddWorkers(k) /\ monitoring' = (k = MinThreads)
    BY <1>36 DEF StartFails
  <2>2. k \in Nat /\ size + k <= MaxThreads
    BY <1>36, <2>1 DEF StartFails, PhaseState, Quiescent
  <2>3. monitoring' \in BOOLEAN
    BY <2>1
  <2> QED BY <1>36, <2>1, <2>2, <2>3, AddWorkersType DEF StartFails
<1>37. ASSUME StopSignalMonitor PROVE TypeOK'
  BY <1>37 DEF StopSignalMonitor, NotifyMonitor
<1>38. ASSUME StopJoinMonitor PROVE TypeOK'
  BY <1>38 DEF StopJoinMonitor
<1>39. ASSUME StopHalt PROVE TypeOK'
  BY <1>39 DEF StopHalt
<1>40. ASSUME StopWakeAll PROVE TypeOK'
  BY <1>40, NotifyMoves DEF StopWakeAll
<1>41. ASSUME StopPoll PROVE TypeOK'
  BY <1>41 DEF StopPoll
<1>42. ASSUME StopLock PROVE TypeOK'
  BY <1>42 DEF StopLock
<1>43. ASSUME StopJoin PROVE TypeOK'
  BY <1>43 DEF StopJoin
<1>44. ASSUME StopClear PROVE TypeOK'
  BY <1>44 DEF StopClear, CountAfterClear, WorkerPCs
<1>45. ASSUME StopDrop PROVE TypeOK'
  BY <1>45 DEF StopDrop, Fates
<1>46. ASSUME NEW pol \in Policies, StopCall(pol) PROVE TypeOK'
  BY <1>46, PoolAssumption DEF StopCall
<1>47. CASE UNCHANGED vars
  BY <1>47 DEF vars
<1> QED BY <1>1, <1>2, <1>3, <1>4, <1>5, <1>6, <1>7, <1>8, <1>9, <1>10,
         <1>11, <1>12, <1>13, <1>14, <1>15, <1>16, <1>17, <1>18, <1>19,
         <1>20, <1>21, <1>22, <1>23, <1>24, <1>25, <1>26, <1>27, <1>28,
         <1>29, <1>30, <1>31, <1>32, <1>33, <1>34, <1>35, <1>36, <1>37,
         <1>38, <1>39, <1>40, <1>41, <1>42, <1>43, <1>44, <1>45, <1>46,
         <1>47
  DEF Next, WorkerStep, MonitorStep, EnqueueStep, StopStep

-----------------------------------------------------------------------------
(* SlotState: slots are added by AddWorkers and removed by StopClear only,  *)
(* and a thread that has been started never becomes "none" again.          *)

(* AddWorkers fills exactly the next k slots and counts nobody. *)
LEMMA AddWorkersSlots ==
  ASSUME TypeOK, \A i \in Slots : wpc[i] # "none" <=> i <= size,
         NEW k \in Nat, size + k <= MaxThreads, AddWorkers(k)
  PROVE  /\ \A i \in Slots : wpc'[i] # "none" <=> i <= size'
         /\ joinable = 1 .. size => joinable' = 1 .. size'
         /\ \A i \in Slots : wpc'[i] \in Counted <=> wpc[i] \in Counted
         /\ \A i \in Slots : wpc'[i] = "run" <=> wpc[i] = "run"
<1>1. size \in Nat /\ Slots = 1 .. MaxThreads /\ MaxThreads \in Nat
  BY Constants DEF TypeOK
<1>2. wpc' = [i \in Slots |-> IF i \in size + 1 .. size + k THEN "entry" ELSE wpc[i]]
  BY DEF AddWorkers
<1>3. size' = size + k
  BY DEF AddWorkers
<1>4. joinable' = joinable \cup (size + 1 .. size + k)
  BY DEF AddWorkers
<1>5. \A i \in Slots : wpc'[i] # "none" <=> i <= size'
  BY <1>1, <1>2, <1>3
<1>6. joinable = 1 .. size => joinable' = 1 .. size'
  BY <1>1, <1>3, <1>4
<1>7. /\ \A i \in Slots : wpc'[i] \in Counted <=> wpc[i] \in Counted
      /\ \A i \in Slots : wpc'[i] = "run" <=> wpc[i] = "run"
  BY <1>1, <1>2 DEF Counted
<1> QED BY <1>5, <1>6, <1>7

LEMMA SlotStep == Inv /\ [Next]_vars => SlotState'
<1> SUFFICES ASSUME Inv, [Next]_vars PROVE SlotState'
  OBVIOUS
<1> USE Constants DEF Inv, TypeOK, SlotState, poolVars, workerVars, flagVars, monVars,
        prodVars, ctlVars, taskVars
<1>1. ASSUME NEW i \in Slots, WorkerEnter(i) PROVE SlotState'
  BY <1>1 DEF WorkerEnter, Go, Ended
<1>2. ASSUME NEW i \in Slots, WorkerRegister(i) PROVE SlotState'
  BY <1>2 DEF WorkerRegister, Go, Ended
<1>3. ASSUME NEW i \in Slots, WorkerCount(i) PROVE SlotState'
  BY <1>3 DEF WorkerCount, Go, Ended
<1>4. ASSUME NEW i \in Slots, WorkerStay(i) PROVE SlotState'
  BY <1>4 DEF WorkerStay, Go, Ended
<1>5. ASSUME NEW i \in Slots, WorkerLeave(i) PROVE SlotState'
  BY <1>5 DEF WorkerLeave, Go, Ended
<1>6. ASSUME NEW i \in Slots, WorkerCheck(i) PROVE SlotState'
  BY <1>6 DEF WorkerCheck, Go, Ended
<1>7. ASSUME NEW i \in Slots, WorkerPark(i) PROVE SlotState'
  BY <1>7 DEF WorkerPark, Go, Ended
<1>8. ASSUME NEW i \in Slots, WorkerBusy(i) PROVE SlotState'
  BY <1>8 DEF WorkerBusy, Go, Ended
<1>9. ASSUME NEW i \in Slots, WorkerPop(i) PROVE SlotState'
  BY <1>9 DEF WorkerPop, Go, Ended
<1>10. ASSUME NEW i \in Slots, WorkerPopNothing(i) PROVE SlotState'
  BY <1>10 DEF WorkerPopNothing, Go, Ended
<1>11. ASSUME NEW i \in Slots, WorkerFinish(i) PROVE SlotState'
  BY <1>11 DEF WorkerFinish, EndTask, Go, Ended
<1>12. ASSUME NEW i \in Slots, WorkerThrow(i) PROVE SlotState'
  BY <1>12 DEF WorkerThrow, EndTask, Go, Ended
<1>13. ASSUME NEW i \in Slots, WorkerRetire(i) PROVE SlotState'
  BY <1>13 DEF WorkerRetire, Go, Ended
<1>14. ASSUME NEW i \in Slots, WorkerUncount(i) PROVE SlotState'
  BY <1>14 DEF WorkerUncount, Go, Ended
<1>15. ASSUME NEW i \in Slots, WorkerSpuriousWakeup(i) PROVE SlotState'
  BY <1>15 DEF WorkerSpuriousWakeup, Go, Ended
<1>16. ASSUME NEW i \in Slots, WorkerFault(i) PROVE SlotState'
  BY <1>16 DEF WorkerFault, Go, Ended
<1>17. ASSUME MonitorTop PROVE SlotState'
  BY <1>17 DEF MonitorTop
<1>18. ASSUME MonitorReadSurplus PROVE SlotState'
  BY <1>18 DEF MonitorReadSurplus
<1>19. ASSUME MonitorMark PROVE SlotState'
  BY <1>19, NotifyMoves DEF MonitorMark, Ended
<1>20. ASSUME MonitorDecide PROVE SlotState'
  BY <1>20 DEF MonitorDecide
<1>21. ASSUME MonitorReadDeficit PROVE SlotState'
  BY <1>21 DEF MonitorReadDeficit
<1>22. ASSUME MonitorRestartSlot PROVE SlotState'
  BY <1>22 DEF MonitorRestartSlot
<1>23. ASSUME MonitorAppend PROVE SlotState'
  <2>1. AddWorkers(AppendCount(need)) /\ cpc # "join" /\ cpc' = cpc
    BY <1>23 DEF MonitorAppend, WorkerMutexFree
  <2> QED BY <2>1, AddWorkersSlots, AppendCountType
<1>24. ASSUME MonitorAppendFails PROVE SlotState'
  <2>1. PICK k \in 0 .. AppendCount(need) - 1 : AddWorkers(k)
    BY <1>24 DEF MonitorAppendFails
  <2>2. k \in Nat /\ size + k <= MaxThreads
    BY <2>1, AppendCountType
  <2>3. cpc # "join" /\ cpc' = cpc
    BY <1>24 DEF MonitorAppendFails, WorkerMutexFree
  <2> QED BY <2>1, <2>2, <2>3, AddWorkersSlots
<1>25. ASSUME MonitorCheck PROVE SlotState'
  BY <1>25 DEF MonitorCheck
<1>26. ASSUME MonitorPark PROVE SlotState'
  BY <1>26 DEF MonitorPark
<1>27. ASSUME MonitorTimeout PROVE SlotState'
  BY <1>27 DEF MonitorTimeout
<1>28. ASSUME MonitorSpuriousWakeup PROVE SlotState'
  BY <1>28 DEF MonitorSpuriousWakeup
<1>29. ASSUME NEW p \in Producers, EnqueuePush(p) PROVE SlotState'
  BY <1>29 DEF EnqueuePush
<1>30. ASSUME NEW p \in Producers, EnqueueNotify(p) PROVE SlotState'
  BY <1>30, NotifyMoves DEF EnqueueNotify, Ended
<1>31. ASSUME NEW p \in Producers, EnqueueHint(p) PROVE SlotState'
  BY <1>31 DEF EnqueueHint
<1>32. ASSUME NEW p \in Producers, NEW t \in Tasks, EnqueueCall(p, t) PROVE SlotState'
  BY <1>32 DEF EnqueueCall
<1>33. ASSUME NEW p \in Producers, NEW t \in Tasks, EnqueueThrows(p, t) PROVE SlotState'
  BY <1>33 DEF EnqueueThrows
<1>34. ASSUME StartCall PROVE SlotState'
  BY <1>34 DEF StartCall
<1>35. ASSUME StartSpawn PROVE SlotState'
  <2>1. size + MinThreads <= MaxThreads /\ AddWorkers(MinThreads)
    BY <1>35 DEF StartSpawn, PhaseState, Quiescent
  <2> QED BY <1>35, <2>1, AddWorkersSlots DEF StartSpawn
<1>36. ASSUME StartFails PROVE SlotState'
  <2>1. PICK k \in 0 .. MinThreads : AddWorkers(k)
    BY <1>36 DEF StartFails
  <2>2. k \in Nat /\ size + k <= MaxThreads
    BY <1>36, <2>1 DEF StartFails, PhaseState, Quiescent
  <2> QED BY <1>36, <2>1, <2>2, AddWorkersSlots DEF StartFails
<1>37. ASSUME StopSignalMonitor PROVE SlotState'
  BY <1>37 DEF StopSignalMonitor
<1>38. ASSUME StopJoinMonitor PROVE SlotState'
  BY <1>38 DEF StopJoinMonitor
<1>39. ASSUME StopHalt PROVE SlotState'
  BY <1>39 DEF StopHalt
<1>40. ASSUME StopWakeAll PROVE SlotState'
  BY <1>40, NotifyMoves DEF StopWakeAll, Ended
<1>41. ASSUME StopPoll PROVE SlotState'
  BY <1>41 DEF StopPoll
<1>42. ASSUME StopLock PROVE SlotState'
  BY <1>42 DEF StopLock
<1>43. ASSUME StopJoin PROVE SlotState'
  BY <1>43 DEF StopJoin, JoinReturns, Ended
<1>44. ASSUME StopClear PROVE SlotState'
  BY <1>44 DEF StopClear
<1>45. ASSUME StopDrop PROVE SlotState'
  BY <1>45 DEF StopDrop
<1>46. ASSUME NEW pol \in Policies, StopCall(pol) PROVE SlotState'
  BY <1>46 DEF StopCall
<1>47. CASE UNCHANGED vars
  BY <1>47 DEF vars
<1> QED BY <1>1, <1>2, <1>3, <1>4, <1>5, <1>6, <1>7, <1>8, <1>9, <1>10,
         <1>11, <1>12, <1>13, <1>14, <1>15, <1>16, <1>17, <1>18, <1>19,
         <1>20, <1>21, <1>22, <1>23, <1>24, <1>25, <1>26, <1>27, <1>28,
         <1>29, <1>30, <1>31, <1>32, <1>33, <1>34, <1>35, <1>36, <1>37,
         <1>38, <1>39, <1>40, <1>41, <1>42, <1>43, <1>44, <1>45, <1>46,
         <1>47
  DEF Next, WorkerStep, MonitorStep, EnqueueStep, StopStep

-----------------------------------------------------------------------------
(* PhaseState: a worker or a monitor that takes a step shows that the pool  *)
(* is not quiescent, and the controller's own steps go through the phases. *)

LEMMA PhaseStep == Inv /\ [Next]_vars => PhaseState'
<1> SUFFICES ASSUME Inv, [Next]_vars PROVE PhaseState'
  OBVIOUS
<1> USE Constants DEF Inv, PhaseState, Quiescent, poolVars, workerVars, flagVars, monVars,
        prodVars, ctlVars, taskVars
<1>1. ASSUME NEW i \in Slots, WorkerEnter(i) PROVE PhaseState'
  BY <1>1 DEF WorkerEnter, Go
<1>2. ASSUME NEW i \in Slots, WorkerRegister(i) PROVE PhaseState'
  BY <1>2 DEF WorkerRegister, Go
<1>3. ASSUME NEW i \in Slots, WorkerCount(i) PROVE PhaseState'
  BY <1>3 DEF WorkerCount, Go
<1>4. ASSUME NEW i \in Slots, WorkerStay(i) PROVE PhaseState'
  BY <1>4 DEF WorkerStay, Go
<1>5. ASSUME NEW i \in Slots, WorkerLeave(i) PROVE PhaseState'
  BY <1>5 DEF WorkerLeave, Go
<1>6. ASSUME NEW i \in Slots, WorkerCheck(i) PROVE PhaseState'
  BY <1>6 DEF WorkerCheck, Go
<1>7. ASSUME NEW i \in Slots, WorkerPark(i) PROVE PhaseState'
  BY <1>7 DEF WorkerPark, Go
<1>8. ASSUME NEW i \in Slots, WorkerBusy(i) PROVE PhaseState'
  BY <1>8 DEF WorkerBusy, Go
<1>9. ASSUME NEW i \in Slots, WorkerPop(i) PROVE PhaseState'
  BY <1>9 DEF WorkerPop, Go
<1>10. ASSUME NEW i \in Slots, WorkerPopNothing(i) PROVE PhaseState'
  BY <1>10 DEF WorkerPopNothing, Go
<1>11. ASSUME NEW i \in Slots, WorkerFinish(i) PROVE PhaseState'
  BY <1>11 DEF WorkerFinish, EndTask, Go
<1>12. ASSUME NEW i \in Slots, WorkerThrow(i) PROVE PhaseState'
  BY <1>12 DEF WorkerThrow, EndTask, Go
<1>13. ASSUME NEW i \in Slots, WorkerRetire(i) PROVE PhaseState'
  BY <1>13 DEF WorkerRetire, Go
<1>14. ASSUME NEW i \in Slots, WorkerUncount(i) PROVE PhaseState'
  BY <1>14 DEF WorkerUncount, Go
<1>15. ASSUME NEW i \in Slots, WorkerSpuriousWakeup(i) PROVE PhaseState'
  BY <1>15 DEF WorkerSpuriousWakeup, Go
<1>16. ASSUME NEW i \in Slots, WorkerFault(i) PROVE PhaseState'
  BY <1>16 DEF WorkerFault
<1>17. ASSUME MonitorTop PROVE PhaseState'
  BY <1>17 DEF MonitorTop
<1>18. ASSUME MonitorReadSurplus PROVE PhaseState'
  BY <1>18 DEF MonitorReadSurplus
<1>19. ASSUME MonitorMark PROVE PhaseState'
  BY <1>19 DEF MonitorMark
<1>20. ASSUME MonitorDecide PROVE PhaseState'
  BY <1>20 DEF MonitorDecide
<1>21. ASSUME MonitorReadDeficit PROVE PhaseState'
  BY <1>21 DEF MonitorReadDeficit
<1>22. ASSUME MonitorRestartSlot PROVE PhaseState'
  BY <1>22 DEF MonitorRestartSlot
<1>23. ASSUME MonitorAppend PROVE PhaseState'
  BY <1>23 DEF MonitorAppend
<1>24. ASSUME MonitorAppendFails PROVE PhaseState'
  BY <1>24 DEF MonitorAppendFails
<1>25. ASSUME MonitorCheck PROVE PhaseState'
  BY <1>25 DEF MonitorCheck
<1>26. ASSUME MonitorPark PROVE PhaseState'
  BY <1>26 DEF MonitorPark
<1>27. ASSUME MonitorTimeout PROVE PhaseState'
  BY <1>27 DEF MonitorTimeout
<1>28. ASSUME MonitorSpuriousWakeup PROVE PhaseState'
  BY <1>28 DEF MonitorSpuriousWakeup
<1>29. ASSUME NEW p \in Producers, EnqueuePush(p) PROVE PhaseState'
  BY <1>29 DEF EnqueuePush
<1>30. ASSUME NEW p \in Producers, EnqueueNotify(p) PROVE PhaseState'
  <2>1. \A i \in Slots : wpc[i] = "none" => wpc'[i] = "none"
    BY <1>30, NotifyMoves DEF EnqueueNotify
  <2> QED BY <1>30, <2>1 DEF EnqueueNotify
<1>31. ASSUME NEW p \in Producers, EnqueueHint(p) PROVE PhaseState'
  BY <1>31 DEF EnqueueHint, NotifyMonitor
<1>32. ASSUME NEW p \in Producers, NEW t \in Tasks, EnqueueCall(p, t) PROVE PhaseState'
  BY <1>32 DEF EnqueueCall
<1>33. ASSUME NEW p \in Producers, NEW t \in Tasks, EnqueueThrows(p, t) PROVE PhaseState'
  BY <1>33 DEF EnqueueThrows
<1>34. ASSUME StartCall PROVE PhaseState'
  BY <1>34 DEF StartCall
<1>35. ASSUME StartSpawn PROVE PhaseState'
  BY <1>35 DEF StartSpawn
<1>36. ASSUME StartFails PROVE PhaseState'
  BY <1>36 DEF StartFails
<1>37. ASSUME StopSignalMonitor PROVE PhaseState'
  BY <1>37 DEF StopSignalMonitor, NotifyMonitor
<1>38. ASSUME StopJoinMonitor PROVE PhaseState'
  BY <1>38 DEF StopJoinMonitor
<1>39. ASSUME StopHalt PROVE PhaseState'
  BY <1>39 DEF StopHalt
<1>40. ASSUME StopWakeAll PROVE PhaseState'
  BY <1>40 DEF StopWakeAll
<1>41. ASSUME StopPoll PROVE PhaseState'
  BY <1>41 DEF StopPoll
<1>42. ASSUME StopLock PROVE PhaseState'
  BY <1>42 DEF StopLock
<1>43. ASSUME StopJoin PROVE PhaseState'
  BY <1>43 DEF StopJoin
<1>44. ASSUME StopClear PROVE PhaseState'
  BY <1>44 DEF StopClear, CountAfterClear
<1>45. ASSUME StopDrop PROVE PhaseState'
  BY <1>45 DEF StopDrop
<1>46. ASSUME NEW pol \in Policies, StopCall(pol) PROVE PhaseState'
  BY <1>46 DEF StopCall
<1>47. CASE UNCHANGED vars
  BY <1>47 DEF vars
<1> QED BY <1>1, <1>2, <1>3, <1>4, <1>5, <1>6, <1>7, <1>8, <1>9, <1>10,
         <1>11, <1>12, <1>13, <1>14, <1>15, <1>16, <1>17, <1>18, <1>19,
         <1>20, <1>21, <1>22, <1>23, <1>24, <1>25, <1>26, <1>27, <1>28,
         <1>29, <1>30, <1>31, <1>32, <1>33, <1>34, <1>35, <1>36, <1>37,
         <1>38, <1>39, <1>40, <1>41, <1>42, <1>43, <1>44, <1>45, <1>46,
         <1>47
  DEF Next, WorkerStep, MonitorStep, EnqueueStep, StopStep

-----------------------------------------------------------------------------
(* CountExact: only fetch_add, fetch_sub and the reset in Stop change the  *)
(* counter, and only the workers at those steps change sides.              *)

CountedSlots == {i \in Slots : wpc[i] \in Counted}

LEMMA SameCount ==
  ASSUME CountExact, validThreadCount' = validThreadCount,
         \A i \in Slots : wpc'[i] \in Counted <=> wpc[i] \in Counted
  PROVE  CountExact'
<1>1. CountedSlots' = CountedSlots
  BY DEF CountedSlots
<1> QED BY <1>1 DEF CountExact, CountedSlots

LEMMA CountStep == Inv /\ [Next]_vars => CountExact'
<1> SUFFICES ASSUME Inv, [Next]_vars PROVE CountExact'
  OBVIOUS
<1> USE Constants DEF Inv, TypeOK, poolVars, workerVars, flagVars, monVars,
        prodVars, ctlVars, taskVars
<1>1. ASSUME NEW i \in Slots, WorkerEnter(i) PROVE CountExact'
  BY <1>1, SameCount DEF WorkerEnter, Go, Counted
<1>2. ASSUME NEW i \in Slots, WorkerRegister(i) PROVE CountExact'
  BY <1>2, SameCount DEF WorkerRegister, Go, Counted
<1>3. ASSUME NEW i \in Slots, WorkerCount(i) PROVE CountExact'
  <2>1. CountedSlots' = CountedSlots \cup {i} /\ i \notin CountedSlots
    BY <1>3 DEF WorkerCount, Go, CountedSlots, Counted
  <2>2. IsFiniteSet(CountedSlots)
    BY SlotsFinite, FS_Subset DEF CountedSlots
  <2>3. Cardinality(CountedSlots') = Cardinality(CountedSlots) + 1
    BY <2>1, <2>2, FS_AddElement
  <2> QED BY <1>3, <2>3 DEF WorkerCount, CountExact, CountedSlots
<1>4. ASSUME NEW i \in Slots, WorkerStay(i) PROVE CountExact'
  BY <1>4, SameCount DEF WorkerStay, Go, Counted
<1>5. ASSUME NEW i \in Slots, WorkerLeave(i) PROVE CountExact'
  BY <1>5, SameCount DEF WorkerLeave, Go, Counted
<1>6. ASSUME NEW i \in Slots, WorkerCheck(i) PROVE CountExact'
  BY <1>6, SameCount DEF WorkerCheck, Go, Counted
<1>7. ASSUME NEW i \in Slots, WorkerPark(i) PROVE CountExact'
  BY <1>7, SameCount DEF WorkerPark, Go, Counted
<1>8. ASSUME NEW i \in Slots, WorkerBusy(i) PROVE CountExact'
  BY <1>8, SameCount DEF WorkerBusy, Go, Counted
<1>9. ASSUME NEW i \in Slots, WorkerPop(i) PROVE CountExact'
  BY <1>9, SameCount DEF WorkerPop, Go, Counted
<1>10. ASSUME NEW i \in Slots, WorkerPopNothing(i) PROVE CountExact'
  BY <1>10, SameCount DEF WorkerPopNothing, Go, Counted
<1>11. ASSUME NEW i \in Slots, WorkerFinish(i) PROVE CountExact'
  BY <1>11, SameCount DEF WorkerFinish, EndTask, Go, Counted
<1>12. ASSUME NEW i \in Slots, WorkerThrow(i) PROVE CountExact'
  BY <1>12, SameCount DEF WorkerThrow, EndTask, Go, Counted
<1>13. ASSUME NEW i \in Slots, WorkerRetire(i) PROVE CountExact'
  BY <1>13, SameCount DEF WorkerRetire, Go, Counted
<1>14. ASSUME NEW i \in Slots, WorkerUncount(i) PROVE CountExact'
  <2>1. CountedSlots' = CountedSlots \ {i} /\ i \in CountedSlots
    BY <1>14 DEF WorkerUncount, Go, CountedSlots, Counted
  <2>2. IsFiniteSet(CountedSlots)
    BY SlotsFinite, FS_Subset DEF CountedSlots
  <2>3. Cardinality(CountedSlots') = Cardinality(CountedSlots) - 1
    BY <2>1, <2>2, FS_RemoveElement
  <2> QED BY <1>14, <2>3 DEF WorkerUncount, CountExact, CountedSlots
<1>15. ASSUME NEW i \in Slots, WorkerSpuriousWakeup(i) PROVE CountExact'
  BY <1>15, SameCount DEF WorkerSpuriousWakeup, Go, Counted
<1>16. ASSUME NEW i \in Slots, WorkerFault(i) PROVE CountExact'
  BY <1>16, SameCount DEF WorkerFault, Go, Counted
<1>17. ASSUME MonitorTop PROVE CountExact'
  BY <1>17, SameCount DEF MonitorTop
<1>18. ASSUME MonitorReadSurplus PROVE CountExact'
  BY <1>18, SameCount DEF MonitorReadSurplus
<1>19. ASSUME MonitorMark PROVE CountExact'
  BY <1>19, NotifyMoves, SameCount DEF MonitorMark, Counted
<1>20. ASSUME MonitorDecide PROVE CountExact'
  BY <1>20, SameCount DEF MonitorDecide
<1>21. ASSUME MonitorReadDeficit PROVE CountExact'
  BY <1>21, SameCount DEF MonitorReadDeficit
<1>22. ASSUME MonitorRestartSlot PROVE CountExact'
  BY <1>22, SameCount DEF MonitorRestartSlot
<1>23. ASSUME MonitorAppend PROVE CountExact'
  <2>1. AddWorkers(AppendCount(need)) /\ validThreadCount' = validThreadCount
    BY <1>23 DEF MonitorAppend
  <2> QED BY <2>1, AddWorkersSlots, AppendCountType, SameCount DEF SlotState
<1>24. ASSUME MonitorAppendFails PROVE CountExact'
  <2>1. PICK k \in 0 .. AppendCount(need) - 1 : AddWorkers(k)
    BY <1>24 DEF MonitorAppendFails
  <2>2. k \in Nat /\ size + k <= MaxThreads
    BY <2>1, AppendCountType
  <2>3. validThreadCount' = validThreadCount
    BY <1>24 DEF MonitorAppendFails
  <2> QED BY <2>1, <2>2, <2>3, AddWorkersSlots, SameCount DEF SlotState
<1>25. ASSUME MonitorCheck PROVE CountExact'
  BY <1>25, SameCount DEF MonitorCheck
<1>26. ASSUME MonitorPark PROVE CountExact'
  BY <1>26, SameCount DEF MonitorPark
<1>27. ASSUME MonitorTimeout PROVE CountExact'
  BY <1>27, SameCount DEF MonitorTimeout
<1>28. ASSUME MonitorSpuriousWakeup PROVE CountExact'
  BY <1>28, SameCount DEF MonitorSpuriousWakeup
<1>29. ASSUME NEW p \in Producers, EnqueuePush(p) PROVE CountExact'
  BY <1>29, SameCount DEF EnqueuePush
<1>30. ASSUME NEW p \in Producers, EnqueueNotify(p) PROVE CountExact'
  BY <1>30, NotifyMoves, SameCount DEF EnqueueNotify, Counted
<1>31. ASSUME NEW p \in Producers, EnqueueHint(p) PROVE CountExact'
  BY <1>31, SameCount DEF EnqueueHint
<1>32. ASSUME NEW p \in Producers, NEW t \in Tasks, EnqueueCall(p, t) PROVE CountExact'
  BY <1>32, SameCount DEF EnqueueCall
<1>33. ASSUME NEW p \in Producers, NEW t \in Tasks, EnqueueThrows(p, t) PROVE CountExact'
  BY <1>33, SameCount DEF EnqueueThrows
<1>34. ASSUME StartCall PROVE CountExact'
  BY <1>34, SameCount DEF StartCall
<1>35. ASSUME StartSpawn PROVE CountExact'
  <2>1. size + MinThreads <= MaxThreads /\ AddWorkers(MinThreads)
    BY <1>35 DEF StartSpawn, PhaseState, Quiescent
  <2>2. validThreadCount' = validThreadCount
    BY <1>35 DEF StartSpawn
  <2> QED BY <2>1, <2>2, AddWorkersSlots, SameCount DEF SlotState
<1>36. ASSUME StartFails PROVE CountExact'
  <2>1. PICK k \in 0 .. MinThreads : AddWorkers(k)
    BY <1>36 DEF StartFails
  <2>2. k \in Nat /\ size + k <= MaxThreads
    BY <1>36, <2>1 DEF StartFails, PhaseState, Quiescent
  <2>3. validThreadCount' = validThreadCount
    BY <1>36 DEF StartFails
  <2> QED BY <2>1, <2>2, <2>3, AddWorkersSlots, SameCount DEF SlotState
<1>37. ASSUME StopSignalMonitor PROVE CountExact'
  BY <1>37, SameCount DEF StopSignalMonitor
<1>38. ASSUME StopJoinMonitor PROVE CountExact'
  BY <1>38, SameCount DEF StopJoinMonitor
<1>39. ASSUME StopHalt PROVE CountExact'
  BY <1>39, SameCount DEF StopHalt
<1>40. ASSUME StopWakeAll PROVE CountExact'
  BY <1>40, NotifyMoves, SameCount DEF StopWakeAll, Counted
<1>41. ASSUME StopPoll PROVE CountExact'
  BY <1>41, SameCount DEF StopPoll
<1>42. ASSUME StopLock PROVE CountExact'
  BY <1>42, SameCount DEF StopLock
<1>43. ASSUME StopJoin PROVE CountExact'
  BY <1>43, SameCount DEF StopJoin
<1>44. ASSUME StopClear PROVE CountExact'
  <2>1. CountedSlots' = {} /\ validThreadCount' = 0
    BY <1>44 DEF StopClear, CountAfterClear, CountedSlots, Counted
  <2> QED BY <2>1, FS_EmptySet DEF CountExact, CountedSlots
<1>45. ASSUME StopDrop PROVE CountExact'
  BY <1>45, SameCount DEF StopDrop
<1>46. ASSUME NEW pol \in Policies, StopCall(pol) PROVE CountExact'
  BY <1>46, SameCount DEF StopCall
<1>47. CASE UNCHANGED vars
  BY SameCount, <1>47 DEF vars
<1> QED BY <1>1, <1>2, <1>3, <1>4, <1>5, <1>6, <1>7, <1>8, <1>9, <1>10,
         <1>11, <1>12, <1>13, <1>14, <1>15, <1>16, <1>17, <1>18, <1>19,
         <1>20, <1>21, <1>22, <1>23, <1>24, <1>25, <1>26, <1>27, <1>28,
         <1>29, <1>30, <1>31, <1>32, <1>33, <1>34, <1>35, <1>36, <1>37,
         <1>38, <1>39, <1>40, <1>41, <1>42, <1>43, <1>44, <1>45, <1>46,
         <1>47
  DEF Next, WorkerStep, MonitorStep, EnqueueStep, StopStep

-----------------------------------------------------------------------------
(* TasksAccounted: a task moves from the hand of one producer to tasks_,   *)
(* to one worker and to its end.                                           *)

(* The steps that move no task. *)
LEMMA SameTasks ==
  ASSUME TypeOK, TasksAccounted, UNCHANGED <<taskVars, hand>>,
         \A p \in Producers : ppc'[p] = "push" <=> ppc[p] = "push",
         \A i \in Slots : wpc'[i] = "run" <=> wpc[i] = "run"
  PROVE  TasksAccounted'
<1> USE DEF TasksAccounted, taskVars
<1>1. QueuedOnce'
  BY DEF QueuedOnce
<1>2. RunByOne'
  BY DEF RunByOne
<1>3. InOneHand'
  BY DEF InOneHand
<1> QED BY <1>1, <1>2, <1>3

LEMMA PopStep ==
  ASSUME TypeOK, TasksAccounted, NEW i \in Slots, WorkerPop(i)
  PROVE  TasksAccounted'
<1> DEFINE h == Head(tasks)
<1>1. tasks \in Seq(Tasks) /\ tasks # <<>> /\ Len(tasks) \in Nat \ {0}
  BY DEF WorkerPop, TypeOK
<1>2. /\ h = tasks[1] /\ h \in Tasks /\ Len(tasks') = Len(tasks) - 1
      /\ \A n \in 1 .. Len(tasks) - 1 : tasks'[n] = tasks[n + 1]
  BY <1>1 DEF WorkerPop, TasksAfterPop
<1>3. /\ \A n \in 1 .. Len(tasks) : fate[tasks[n]] = "queued"
      /\ \A m, n \in 1 .. Len(tasks) : tasks[m] = tasks[n] => m = n
      /\ \A t \in Tasks : fate[t] = "queued" => \E n \in 1 .. Len(tasks) : tasks[n] = t
  BY DEF TasksAccounted, QueuedOnce
<1>4. fate' = [fate EXCEPT ![h] = "running"] /\ fate \in [Tasks -> Fates]
  BY DEF WorkerPop, NextTask, TypeOK
<1>5. fate[h] = "queued"
  BY <1>1, <1>2, <1>3
<1>6. QueuedOnce'
  <2>1. \A n \in 1 .. Len(tasks') :
          /\ n + 1 \in 1 .. Len(tasks) /\ tasks'[n] = tasks[n + 1] /\ tasks'[n] \in Tasks
    BY <1>1, <1>2
  <2>2. \A n \in 1 .. Len(tasks') : tasks'[n] # h
    BY <1>1, <1>2, <1>3, <2>1
  <2>3. \A n \in 1 .. Len(tasks') : fate'[tasks'[n]] = "queued"
    BY <1>3, <1>4, <2>1, <2>2
  <2>4. \A m, n \in 1 .. Len(tasks') : tasks'[m] = tasks'[n] => m = n
    BY <1>1, <1>2, <1>3, <2>1
  <2>5. ASSUME NEW t \in Tasks, fate'[t] = "queued"
        PROVE  \E n \in 1 .. Len(tasks') : tasks'[n] = t
    <3>1. t # h /\ fate[t] = "queued"
      BY <1>2, <1>4, <2>5
    <3>2. PICK n \in 1 .. Len(tasks) : tasks[n] = t
      BY <1>3, <3>1
    <3>3. n - 1 \in 1 .. Len(tasks') /\ tasks'[n - 1] = t
      BY <1>1, <1>2, <3>1, <3>2
    <3> QED BY <3>3
  <2> QED BY <2>3, <2>4, <2>5 DEF QueuedOnce
<1>7. RunByOne'
  <2>1. /\ wpc[i] = "pop" /\ wpc' = [wpc EXCEPT ![i] = "run"]
        /\ held' = [held EXCEPT ![i] = h]
    BY DEF WorkerPop, Go, NextTask
  <2>2. wpc \in [Slots -> WorkerPCs] /\ held \in [Slots -> Tasks \cup {NoTask}]
    BY DEF TypeOK
  <2>3. RunByOne
    BY DEF TasksAccounted
  <2> QED BY <1>2, <1>4, <1>5, <2>1, <2>2, <2>3 DEF RunByOne
<1>8. InOneHand'
  BY <1>4, <1>5 DEF WorkerPop, TasksAccounted, InOneHand, prodVars
<1> QED BY <1>6, <1>7, <1>8 DEF TasksAccounted

LEMMA EndStep ==
  ASSUME TypeOK, TasksAccounted, NEW i \in Slots, NEW how \in {"finished", "threw"},
         NEW to \in WorkerPCs \ {"run"}, Go(i, "run", to), EndTask(i, how)
  PROVE  TasksAccounted'
<1>1. /\ held[i] \in Tasks /\ fate[held[i]] = "running" /\ wpc[i] = "run"
      /\ fate' = [fate EXCEPT ![held[i]] = how] /\ fate \in [Tasks -> Fates]
      /\ held' = [held EXCEPT ![i] = NoTask] /\ held \in [Slots -> Tasks \cup {NoTask}]
      /\ wpc' = [wpc EXCEPT ![i] = to] /\ wpc \in [Slots -> WorkerPCs]
      /\ tasks' = tasks /\ UNCHANGED prodVars
  BY DEF EndTask, Go, TypeOK, TasksAccounted, RunByOne
<1>2. QueuedOnce'
  BY <1>1 DEF TasksAccounted, QueuedOnce, TypeOK
<1>3. RunByOne'
  BY <1>1 DEF TasksAccounted, RunByOne
<1>4. InOneHand'
  BY <1>1 DEF TasksAccounted, InOneHand, prodVars
<1> QED BY <1>2, <1>3, <1>4 DEF TasksAccounted

LEMMA PushStep ==
  ASSUME TypeOK, TasksAccounted, NEW p \in Producers, EnqueuePush(p)
  PROVE  TasksAccounted'
<1> DEFINE t == hand[p]
<1>1. /\ t \in Tasks /\ fate[t] = "inflight" /\ ppc[p] = "push"
      /\ fate' = [fate EXCEPT ![t] = "queued"] /\ fate \in [Tasks -> Fates]
      /\ tasks' = Append(tasks, t) /\ tasks \in Seq(Tasks)
  BY DEF EnqueuePush, TypeOK, TasksAccounted, InOneHand
<1>2. /\ Len(tasks) \in Nat /\ Len(tasks') = Len(tasks) + 1
      /\ tasks'[Len(tasks) + 1] = t
      /\ \A n \in 1 .. Len(tasks) : tasks'[n] = tasks[n] /\ tasks[n] \in Tasks
  BY <1>1
<1>3. QueuedOnce'
  <2>1. \A n \in 1 .. Len(tasks) : fate[tasks[n]] = "queued" /\ tasks[n] # t
    BY <1>1 DEF TasksAccounted, QueuedOnce
  <2>2. \A n \in 1 .. Len(tasks') : fate'[tasks'[n]] = "queued"
    BY <1>1, <1>2, <2>1
  <2>3. \A m, n \in 1 .. Len(tasks') : tasks'[m] = tasks'[n] => m = n
    BY <1>2, <2>1 DEF TasksAccounted, QueuedOnce
  <2>4. ASSUME NEW u \in Tasks, fate'[u] = "queued"
        PROVE  \E n \in 1 .. Len(tasks') : tasks'[n] = u
    <3>1. CASE u = t
      BY <1>2, <3>1
    <3>2. CASE u # t
      <4>1. PICK n \in 1 .. Len(tasks) : tasks[n] = u
        BY <1>1, <2>4, <3>2 DEF TasksAccounted, QueuedOnce
      <4> QED BY <1>2, <4>1
    <3> QED BY <3>1, <3>2
  <2> QED BY <2>2, <2>3, <2>4 DEF QueuedOnce
<1>4. RunByOne'
  <2>1. held' = held /\ wpc' = wpc
    BY DEF EnqueuePush
  <2> QED BY <1>1, <2>1 DEF TasksAccounted, RunByOne, TypeOK
<1>5. InOneHand'
  BY <1>1 DEF EnqueuePush, TasksAccounted, InOneHand, TypeOK
<1> QED BY <1>3, <1>4, <1>5 DEF TasksAccounted

(* Enqueue takes a new task in hand, or rejects it. *)
LEMMA CallStep ==
  ASSUME TypeOK, TasksAccounted, NEW p \in Producers, NEW t \in Tasks,
         EnqueueCall(p, t) \/ EnqueueThrows(p, t)
  PROVE  TasksAccounted'
<1>1. /\ fate[t] = "new" /\ ppc[p] = "idle" /\ fate \in [Tasks -> Fates]
      /\ \E f \in {"inflight", "rejected"} : fate' = [fate EXCEPT ![t] = f]
      /\ tasks' = tasks /\ tasks \in Seq(Tasks) /\ held' = held /\ wpc' = wpc
  BY DEF EnqueueCall, EnqueueThrows, TypeOK
<1>2. QueuedOnce'
  BY <1>1 DEF TasksAccounted, QueuedOnce
<1>3. RunByOne'
  BY <1>1 DEF TasksAccounted, RunByOne, TypeOK
<1>4. InOneHand'
  BY <1>1 DEF EnqueueCall, EnqueueThrows, TasksAccounted, InOneHand, TypeOK, prodVars
<1> QED BY <1>2, <1>3, <1>4 DEF TasksAccounted

(* Stop clears the workers when none of them runs a task, and then drops   *)
(* what is queued.                                                         *)
LEMMA ClearStep == ASSUME Inv, StopClear PROVE TasksAccounted'
<1>1. \A i \in Slots : wpc[i] # "run"
  BY Constants DEF StopClear, Inv, SlotState, Ended, TypeOK
<1>2. \A i \in Slots : wpc'[i] # "run"
  BY DEF StopClear
<1>3. UNCHANGED <<taskVars, hand, ppc>>
  BY DEF StopClear, prodVars
<1> QED BY <1>1, <1>2, <1>3, SameTasks DEF Inv

LEMMA DropStep == ASSUME TypeOK, TasksAccounted, StopDrop PROVE TasksAccounted'
<1>1. /\ tasks' = <<>>
      /\ \A t \in Tasks : fate'[t] = IF fate[t] = "queued" THEN "discarded" ELSE fate[t]
      /\ held' = held /\ wpc' = wpc /\ ppc' = ppc /\ hand' = hand
  BY DEF StopDrop, prodVars
<1>2. QueuedOnce'
  BY <1>1 DEF QueuedOnce
<1>3. RunByOne'
  BY <1>1 DEF TasksAccounted, RunByOne, TypeOK
<1>4. InOneHand'
  BY <1>1 DEF TasksAccounted, InOneHand
<1> QED BY <1>2, <1>3, <1>4 DEF TasksAccounted

LEMMA TasksStep == Inv /\ [Next]_vars => TasksAccounted'
<1> SUFFICES ASSUME Inv, [Next]_vars PROVE TasksAccounted'
  OBVIOUS
<1> USE Constants DEF Inv, TypeOK, prodVars
<1>1. ASSUME NEW i \in Slots, WorkerEnter(i) PROVE TasksAccounted'
  BY <1>1, SameTasks DEF WorkerEnter, Go
<1>2. ASSUME NEW i \in Slots, WorkerRegister(i) PROVE TasksAccounted'
  BY <1>2, SameTasks DEF WorkerRegister, Go
<1>3. ASSUME NEW i \in Slots, WorkerCount(i) PROVE TasksAccounted'
  BY <1>3, SameTasks DEF WorkerCount, Go
<1>4. ASSUME NEW i \in Slots, WorkerStay(i) PROVE TasksAccounted'
  BY <1>4, SameTasks DEF WorkerStay, Go
<1>5. ASSUME NEW i \in Slots, WorkerLeave(i) PROVE TasksAccounted'
  BY <1>5, SameTasks DEF WorkerLeave, Go
<1>6. ASSUME NEW i \in Slots, WorkerCheck(i) PROVE TasksAccounted'
  BY <1>6, SameTasks DEF WorkerCheck, Go
<1>7. ASSUME NEW i \in Slots, WorkerPark(i) PROVE TasksAccounted'
  BY <1>7, SameTasks DEF WorkerPark, Go
<1>8. ASSUME NEW i \in Slots, WorkerBusy(i) PROVE TasksAccounted'
  BY <1>8, SameTasks DEF WorkerBusy, Go
<1>9. ASSUME NEW i \in Slots, WorkerPop(i) PROVE TasksAccounted'
  BY <1>9, PopStep
<1>10. ASSUME NEW i \in Slots, WorkerPopNothing(i) PROVE TasksAccounted'
  BY <1>10, SameTasks DEF WorkerPopNothing, Go
<1>11. ASSUME NEW i \in Slots, WorkerFinish(i) PROVE TasksAccounted'
  BY <1>11, EndStep DEF WorkerFinish, WorkerPCs, Bound
<1>12. ASSUME NEW i \in Slots, WorkerThrow(i) PROVE TasksAccounted'
  BY <1>12, EndStep DEF WorkerThrow, WorkerPCs, Ended
<1>13. ASSUME NEW i \in Slots, WorkerRetire(i) PROVE TasksAccounted'
  BY <1>13, SameTasks DEF WorkerRetire, Go
<1>14. ASSUME NEW i \in Slots, WorkerUncount(i) PROVE TasksAccounted'
  BY <1>14, SameTasks DEF WorkerUncount, Go
<1>15. ASSUME NEW i \in Slots, WorkerSpuriousWakeup(i) PROVE TasksAccounted'
  BY <1>15, SameTasks DEF WorkerSpuriousWakeup, Go
<1>16. ASSUME NEW i \in Slots, WorkerFault(i) PROVE TasksAccounted'
  BY <1>16, SameTasks DEF WorkerFault, Go
<1>17. ASSUME MonitorTop PROVE TasksAccounted'
  BY <1>17, SameTasks DEF MonitorTop
<1>18. ASSUME MonitorReadSurplus PROVE TasksAccounted'
  BY <1>18, SameTasks DEF MonitorReadSurplus
<1>19. ASSUME MonitorMark PROVE TasksAccounted'
  BY <1>19, NotifyMoves, SameTasks DEF MonitorMark
<1>20. ASSUME MonitorDecide PROVE TasksAccounted'
  BY <1>20, SameTasks DEF MonitorDecide
<1>21. ASSUME MonitorReadDeficit PROVE TasksAccounted'
  BY <1>21, SameTasks DEF MonitorReadDeficit
<1>22. ASSUME MonitorRestartSlot PROVE TasksAccounted'
  BY <1>22, SameTasks DEF MonitorRestartSlot
<1>23. ASSUME MonitorAppend PROVE TasksAccounted'
  <2>1. AddWorkers(AppendCount(need)) /\ UNCHANGED <<taskVars, hand, ppc>>
    BY <1>23 DEF MonitorAppend
  <2> QED BY <2>1, AddWorkersSlots, AppendCountType, SameTasks DEF SlotState
<1>24. ASSUME MonitorAppendFails PROVE TasksAccounted'
  <2>1. PICK k \in 0 .. AppendCount(need) - 1 : AddWorkers(k)
    BY <1>24 DEF MonitorAppendFails
  <2>2. k \in Nat /\ size + k <= MaxThreads
    BY <2>1, AppendCountType
  <2>3. UNCHANGED <<taskVars, hand, ppc>>
    BY <1>24 DEF MonitorAppendFails
  <2> QED BY <2>1, <2>2, <2>3, AddWorkersSlots, SameTasks DEF SlotState
<1>25. ASSUME MonitorCheck PROVE TasksAccounted'
  BY <1>25, SameTasks DEF MonitorCheck
<1>26. ASSUME MonitorPark PROVE TasksAccounted'
  BY <1>26, SameTasks DEF MonitorPark
<1>27. ASSUME MonitorTimeout PROVE TasksAccounted'
  BY <1>27, SameTasks DEF MonitorTimeout
<1>28. ASSUME MonitorSpuriousWakeup PROVE TasksAccounted'
  BY <1>28, SameTasks DEF MonitorSpuriousWakeup
<1>29. ASSUME NEW p \in Producers, EnqueuePush(p) PROVE TasksAccounted'
  BY <1>29, PushStep
<1>30. ASSUME NEW p \in Producers, EnqueueNotify(p) PROVE TasksAccounted'
  BY <1>30, NotifyMoves, SameTasks DEF EnqueueNotify
<1>31. ASSUME NEW p \in Producers, EnqueueHint(p) PROVE TasksAccounted'
  BY <1>31, SameTasks DEF EnqueueHint
<1>32. ASSUME NEW p \in Producers, NEW t \in Tasks, EnqueueCall(p, t) PROVE TasksAccounted'
  BY <1>32, CallStep
<1>33. ASSUME NEW p \in Producers, NEW t \in Tasks, EnqueueThrows(p, t) PROVE TasksAccounted'
  BY <1>33, CallStep
<1>34. ASSUME StartCall PROVE TasksAccounted'
  BY <1>34, SameTasks DEF StartCall
<1>35. ASSUME StartSpawn PROVE TasksAccounted'
  <2>1. size + MinThreads <= MaxThreads /\ AddWorkers(MinThreads)
    BY <1>35 DEF StartSpawn, PhaseState, Quiescent
  <2>2. UNCHANGED <<taskVars, hand, ppc>>
    BY <1>35 DEF StartSpawn
  <2> QED BY <2>1, <2>2, AddWorkersSlots, SameTasks DEF SlotState
<1>36. ASSUME StartFails PROVE TasksAccounted'
  <2>1. PICK k \in 0 .. MinThreads : AddWorkers(k)
    BY <1>36 DEF StartFails
  <2>2. k \in Nat /\ size + k <= MaxThreads
    BY <1>36, <2>1 DEF StartFails, PhaseState, Quiescent
  <2>3. UNCHANGED <<taskVars, hand, ppc>>
    BY <1>36 DEF StartFails
  <2> QED BY <2>1, <2>2, <2>3, AddWorkersSlots, SameTasks DEF SlotState
<1>37. ASSUME StopSignalMonitor PROVE TasksAccounted'
  BY <1>37, SameTasks DEF StopSignalMonitor
<1>38. ASSUME StopJoinMonitor PROVE TasksAccounted'
  BY <1>38, SameTasks DEF StopJoinMonitor
<1>39. ASSUME StopHalt PROVE TasksAccounted'
  BY <1>39, SameTasks DEF StopHalt
<1>40. ASSUME StopWakeAll PROVE TasksAccounted'
  BY <1>40, NotifyMoves, SameTasks DEF StopWakeAll
<1>41. ASSUME StopPoll PROVE TasksAccounted'
  BY <1>41, SameTasks DEF StopPoll
<1>42. ASSUME StopLock PROVE TasksAccounted'
  BY <1>42, SameTasks DEF StopLock
<1>43. ASSUME StopJoin PROVE TasksAccounted'
  BY <1>43, SameTasks DEF StopJoin
<1>44. ASSUME StopClear PROVE TasksAccounted'
  BY <1>44, ClearStep
<1>45. ASSUME StopDrop PROVE TasksAccounted'
  BY <1>45, DropStep
<1>46. ASSUME NEW pol \in Policies, StopCall(pol) PROVE TasksAccounted'
  BY <1>46, SameTasks DEF StopCall
<1>47. CASE UNCHANGED vars
  BY SameTasks, <1>47 DEF vars
<1> QED BY <1>1, <1>2, <1>3, <1>4, <1>5, <1>6, <1>7, <1>8, <1>9, <1>10,
         <1>11, <1>12, <1>13, <1>14, <1>15, <1>16, <1>17, <1>18, <1>19,
         <1>20, <1>21, <1>22, <1>23, <1>24, <1>25, <1>26, <1>27, <1>28,
         <1>29, <1>30, <1>31, <1>32, <1>33, <1>34, <1>35, <1>36, <1>37,
         <1>38, <1>39, <1>40, <1>41, <1>42, <1>43, <1>44, <1>45, <1>46,
         <1>47
  DEF Next, WorkerStep, MonitorStep, EnqueueStep, StopStep

-----------------------------------------------------------------------------
LEMMA InvInit == Init => Inv
<1> SUFFICES ASSUME Init PROVE Inv
  OBVIOUS
<1>1. TypeOK
  <2>1. /\ wpc \in [Slots -> WorkerPCs] /\ held \in [Slots -> Tasks \cup {NoTask}]
        /\ fate \in [Tasks -> Fates]
    BY DEF Init, WorkerPCs, Fates
  <2>2. /\ ppc \in [Producers -> {"idle", "push", "notify", "hint"}]
        /\ hand \in [Producers -> Tasks \cup {NoTask}]
    BY DEF Init
  <2>3. size \in 0 .. MaxThreads /\ capacity \in Nat /\ joinIdx \in 1 .. MaxThreads + 1
    BY Constants DEF Init, Reserved
  <2>4. tasks \in Seq(Tasks)
    BY DEF Init
  <2> QED BY <2>1, <2>2, <2>3, <2>4 DEF Init, TypeOK
<1>2. SlotState
  BY Constants DEF Init, SlotState
<1>3. PhaseState
  BY DEF Init, PhaseState, Quiescent
<1>4. CountExact
  <2>1. {i \in Slots : wpc[i] \in Counted} = {}
    BY DEF Init, Counted
  <2> QED BY <2>1, FS_EmptySet DEF Init, CountExact
<1>5. TasksAccounted
  BY DEF Init, TasksAccounted, QueuedOnce, RunByOne, InOneHand
<1> QED BY <1>1, <1>2, <1>3, <1>4, <1>5 DEF Inv

(* Inv is an invariant of the pool. *)
THEOREM InvHolds == Spec => []Inv
<1>1. Inv /\ [Next]_vars => Inv'
  BY TypeStep, SlotStep, PhaseStep, CountStep, TasksStep DEF Inv
<1> QED BY InvInit, <1>1, PTL DEF Spec

(* Every variable keeps its type: workers_ never outgrows max_threads_ and *)
(* valid_thread_count_ never wraps below 0.                                *)
THEOREM TypeCorrect == Spec => []TypeOK
<1>1. Inv => TypeOK
  BY DEF Inv
<1> QED BY InvHolds, <1>1, PTL

(* valid_thread_count_ is the number of workers between their fetch_add    *)
(* and their fetch_sub, those an exception removed included.               *)
THEOREM CountIsExact == Spec => []CountExact
<1>1. Inv => CountExact
  BY DEF Inv
<1> QED BY InvHolds, <1>1, PTL

(* Every task handed to the pool is at exactly one place.                  *)
THEOREM EveryTaskIsAccountedFor == Spec => []TasksAccounted
<1>1. Inv => TasksAccounted
  BY DEF Inv
<1> QED BY InvHolds, <1>1, PTL

(* After Stop has returned the pool is as the constructor left it.         *)
THEOREM StopLeavesQuiescence == Spec => []StoppedIsQuiescent
<1>1. Inv => StoppedIsQuiescent
  BY DEF Inv, PhaseState, StoppedIsQuiescent
<1> QED BY InvHolds, <1>1, PTL

(* A slot that ExpandThreads wants to restart still has a JOINABLE thread. *)
THEOREM SlotsStayJoinable == Spec => []SlotsJoinable
<1>1. Inv => SlotsJoinable
  BY DEF Inv, SlotState, SlotsJoinable
<1> QED BY InvHolds, <1>1, PTL

-----------------------------------------------------------------------------
(* The refinement of TaskExecutor *)

(* The steps that leave tasks_ and the visible fate of every task alone. *)
LEMMA Stutters ==
  ASSUME UNCHANGED tasks, UNCHANGED fate
  PROVE  UNCHANGED Executor!execVars
<1> QED BY DEF Executor!execVars, AbstractFate

(* A queued task is never also in the hand of a worker or a producer, so   *)
(* the pop of tasks_.front() is the executor's start of its oldest task.   *)
LEMMA PopStarts ==
  ASSUME TypeOK, TasksAccounted, NEW i \in Slots, WorkerPop(i)
  PROVE  Executor!StartOldest
<1>1. /\ tasks \in Seq(Tasks) /\ tasks # <<>> /\ tasks' = Tail(tasks)
      /\ fate' = [fate EXCEPT ![Head(tasks)] = "running"] /\ fate \in [Tasks -> Fates]
  BY DEF WorkerPop, NextTask, TasksAfterPop, TypeOK
<1>2. Head(tasks) \in Tasks /\ Head(tasks) = tasks[1] /\ 1 \in 1 .. Len(tasks)
  BY <1>1
<1>3. fate[Head(tasks)] = "queued"
  BY <1>2 DEF TasksAccounted, QueuedOnce
<1>4. AbstractFate' = [AbstractFate EXCEPT ![Head(tasks)] = "running"]
  BY <1>1, <1>2 DEF AbstractFate
<1> QED BY <1>1, <1>2, <1>3, <1>4 DEF Executor!StartOldest, AbstractFate

LEMMA EndEnds ==
  ASSUME TypeOK, TasksAccounted, NEW i \in Slots, WorkerFinish(i) \/ WorkerThrow(i)
  PROVE  \E t \in Tasks : Executor!End(t)
<1>1. PICK how \in {"finished", "threw"} : EndTask(i, how) /\ wpc[i] = "run"
  BY DEF WorkerFinish, WorkerThrow, Go
<1> DEFINE t == held[i]
<1>2. /\ t \in Tasks /\ fate[t] = "running" /\ fate \in [Tasks -> Fates]
      /\ fate' = [fate EXCEPT ![t] = how] /\ tasks' = tasks
  BY <1>1 DEF EndTask, TypeOK, TasksAccounted, RunByOne
<1>3. AbstractFate' = [AbstractFate EXCEPT ![t] = how]
  BY <1>1, <1>2 DEF AbstractFate
<1>4. AbstractFate[t] = "running"
  BY <1>2 DEF AbstractFate
<1>5. Executor!End(t)
  BY <1>2, <1>3, <1>4 DEF Executor!End
<1> QED BY <1>2, <1>5

LEMMA PushAccepts ==
  ASSUME TypeOK, TasksAccounted, NEW p \in Producers, EnqueuePush(p)
  PROVE  \E t \in Tasks : Executor!Accept(t)
<1> DEFINE t == hand[p]
<1>1. /\ t \in Tasks /\ fate[t] = "inflight" /\ fate \in [Tasks -> Fates]
      /\ fate' = [fate EXCEPT ![t] = "queued"] /\ tasks' = Append(tasks, t)
  BY DEF EnqueuePush, TypeOK, TasksAccounted, InOneHand
<1>2. AbstractFate' = [AbstractFate EXCEPT ![t] = "queued"] /\ AbstractFate[t] = "new"
  BY <1>1 DEF AbstractFate
<1>3. Executor!Accept(t)
  BY <1>1, <1>2 DEF Executor!Accept
<1> QED BY <1>1, <1>3

(* A task in flight is still new to the executor; one that Enqueue refuses *)
(* is rejected.                                                            *)
LEMMA CallStutters ==
  ASSUME TypeOK, NEW p \in Producers, NEW t \in Tasks, EnqueueCall(p, t)
  PROVE  UNCHANGED Executor!execVars
<1>1. /\ fate[t] = "new" /\ fate \in [Tasks -> Fates] /\ tasks' = tasks
      /\ fate' = [fate EXCEPT ![t] = "inflight"]
  BY DEF EnqueueCall, TypeOK
<1>2. AbstractFate' = AbstractFate
  BY <1>1 DEF AbstractFate
<1> QED BY <1>1, <1>2 DEF Executor!execVars

LEMMA ThrowRejects ==
  ASSUME TypeOK, NEW p \in Producers, NEW t \in Tasks, EnqueueThrows(p, t)
  PROVE  Executor!Reject(t)
<1>1. /\ fate[t] = "new" /\ fate \in [Tasks -> Fates] /\ tasks' = tasks
      /\ fate' = [fate EXCEPT ![t] = "rejected"]
  BY DEF EnqueueThrows, TypeOK
<1>2. AbstractFate' = [AbstractFate EXCEPT ![t] = "rejected"] /\ AbstractFate[t] = "new"
  BY <1>1 DEF AbstractFate
<1> QED BY <1>1, <1>2 DEF Executor!Reject

(* Stop has joined every worker when it drops the queue. *)
LEMMA DropDiscards == ASSUME Inv, StopDrop PROVE Executor!DiscardAll
<1>1. \A t \in Tasks : fate[t] # "running"
  <2>1. \A i \in Slots : wpc[i] = "none"
    BY DEF StopDrop, Inv, PhaseState, Quiescent
  <2> QED BY <2>1 DEF Inv, TasksAccounted, RunByOne
<1>2. /\ tasks' = <<>> /\ fate \in [Tasks -> Fates]
      /\ fate' = [t \in Tasks |-> IF fate[t] = "queued" THEN "discarded" ELSE fate[t]]
  BY DEF StopDrop, Inv, TypeOK
<1>3. AbstractFate' = [t \in Tasks |-> IF AbstractFate[t] = "queued" THEN "discarded"
                                                             ELSE AbstractFate[t]]
  BY <1>2 DEF AbstractFate
<1>4. \A t \in Tasks : AbstractFate[t] # "running"
  BY <1>1 DEF AbstractFate
<1> QED BY <1>2, <1>3, <1>4 DEF Executor!DiscardAll

LEMMA StepRefines == Inv /\ [Next]_vars => [Executor!Next]_(Executor!execVars)
<1> SUFFICES ASSUME Inv, [Next]_vars
             PROVE  Executor!Next \/ UNCHANGED Executor!execVars
  OBVIOUS
<1> USE DEF Inv, taskVars
<1>1. ASSUME NEW i \in Slots, WorkerEnter(i) PROVE Executor!Next \/ UNCHANGED Executor!execVars
  BY <1>1, Stutters DEF WorkerEnter
<1>2. ASSUME NEW i \in Slots, WorkerRegister(i) PROVE Executor!Next \/ UNCHANGED Executor!execVars
  BY <1>2, Stutters DEF WorkerRegister
<1>3. ASSUME NEW i \in Slots, WorkerCount(i) PROVE Executor!Next \/ UNCHANGED Executor!execVars
  BY <1>3, Stutters DEF WorkerCount
<1>4. ASSUME NEW i \in Slots, WorkerStay(i) PROVE Executor!Next \/ UNCHANGED Executor!execVars
  BY <1>4, Stutters DEF WorkerStay
<1>5. ASSUME NEW i \in Slots, WorkerLeave(i) PROVE Executor!Next \/ UNCHANGED Executor!execVars
  BY <1>5, Stutters DEF WorkerLeave
<1>6. ASSUME NEW i \in Slots, WorkerCheck(i) PROVE Executor!Next \/ UNCHANGED Executor!execVars
  BY <1>6, Stutters DEF WorkerCheck
<1>7. ASSUME NEW i \in Slots, WorkerPark(i) PROVE Executor!Next \/ UNCHANGED Executor!execVars
  BY <1>7, Stutters DEF WorkerPark
<1>8. ASSUME NEW i \in Slots, WorkerBusy(i) PROVE Executor!Next \/ UNCHANGED Executor!execVars
  BY <1>8, Stutters DEF WorkerBusy
<1>9. ASSUME NEW i \in Slots, WorkerPop(i) PROVE Executor!Next \/ UNCHANGED Executor!execVars
  BY <1>9, PopStarts DEF Executor!Next
<1>10. ASSUME NEW i \in Slots, WorkerPopNothing(i) PROVE Executor!Next \/ UNCHANGED Executor!execVars
  BY <1>10, Stutters DEF WorkerPopNothing
<1>11. ASSUME NEW i \in Slots, WorkerFinish(i) PROVE Executor!Next \/ UNCHANGED Executor!execVars
  BY <1>11, EndEnds DEF Executor!Next
<1>12. ASSUME NEW i \in Slots, WorkerThrow(i) PROVE Executor!Next \/ UNCHANGED Executor!execVars
  BY <1>12, EndEnds DEF Executor!Next
<1>13. ASSUME NEW i \in Slots, WorkerRetire(i) PROVE Executor!Next \/ UNCHANGED Executor!execVars
  BY <1>13, Stutters DEF WorkerRetire
<1>14. ASSUME NEW i \in Slots, WorkerUncount(i) PROVE Executor!Next \/ UNCHANGED Executor!execVars
  BY <1>14, Stutters DEF WorkerUncount
<1>15. ASSUME NEW i \in Slots, WorkerSpuriousWakeup(i) PROVE Executor!Next \/ UNCHANGED Executor!execVars
  BY <1>15, Stutters DEF WorkerSpuriousWakeup
<1>16. ASSUME NEW i \in Slots, WorkerFault(i) PROVE Executor!Next \/ UNCHANGED Executor!execVars
  BY <1>16, Stutters DEF WorkerFault
<1>17. ASSUME MonitorTop PROVE Executor!Next \/ UNCHANGED Executor!execVars
  BY <1>17, Stutters DEF MonitorTop
<1>18. ASSUME MonitorReadSurplus PROVE Executor!Next \/ UNCHANGED Executor!execVars
  BY <1>18, Stutters DEF MonitorReadSurplus
<1>19. ASSUME MonitorMark PROVE Executor!Next \/ UNCHANGED Executor!execVars
  BY <1>19, Stutters DEF MonitorMark
<1>20. ASSUME MonitorDecide PROVE Executor!Next \/ UNCHANGED Executor!execVars
  BY <1>20, Stutters DEF MonitorDecide
<1>21. ASSUME MonitorReadDeficit PROVE Executor!Next \/ UNCHANGED Executor!execVars
  BY <1>21, Stutters DEF MonitorReadDeficit
<1>22. ASSUME MonitorRestartSlot PROVE Executor!Next \/ UNCHANGED Executor!execVars
  BY <1>22, Stutters DEF MonitorRestartSlot
<1>23. ASSUME MonitorAppend PROVE Executor!Next \/ UNCHANGED Executor!execVars
  BY <1>23, Stutters DEF MonitorAppend
<1>24. ASSUME MonitorAppendFails PROVE Executor!Next \/ UNCHANGED Executor!execVars
  BY <1>24, Stutters DEF MonitorAppendFails
<1>25. ASSUME MonitorCheck PROVE Executor!Next \/ UNCHANGED Executor!execVars
  BY <1>25, Stutters DEF MonitorCheck
<1>26. ASSUME MonitorPark PROVE Executor!Next \/ UNCHANGED Executor!execVars
  BY <1>26, Stutters DEF MonitorPark
<1>27. ASSUME MonitorTimeout PROVE Executor!Next \/ UNCHANGED Executor!execVars
  BY <1>27, Stutters DEF MonitorTimeout
<1>28. ASSUME MonitorSpuriousWakeup PROVE Executor!Next \/ UNCHANGED Executor!execVars
  BY <1>28, Stutters DEF MonitorSpuriousWakeup
<1>29. ASSUME NEW p \in Producers, EnqueuePush(p) PROVE Executor!Next \/ UNCHANGED Executor!execVars
  BY <1>29, PushAccepts DEF Executor!Next
<1>30. ASSUME NEW p \in Producers, EnqueueNotify(p) PROVE Executor!Next \/ UNCHANGED Executor!execVars
  BY <1>30, Stutters DEF EnqueueNotify
<1>31. ASSUME NEW p \in Producers, EnqueueHint(p) PROVE Executor!Next \/ UNCHANGED Executor!execVars
  BY <1>31, Stutters DEF EnqueueHint
<1>32. ASSUME NEW p \in Producers, NEW t \in Tasks, EnqueueCall(p, t) PROVE Executor!Next \/ UNCHANGED Executor!execVars
  BY <1>32, CallStutters
<1>33. ASSUME NEW p \in Producers, NEW t \in Tasks, EnqueueThrows(p, t) PROVE Executor!Next \/ UNCHANGED Executor!execVars
  BY <1>33, ThrowRejects DEF Executor!Next
<1>34. ASSUME StartCall PROVE Executor!Next \/ UNCHANGED Executor!execVars
  BY <1>34, Stutters DEF StartCall
<1>35. ASSUME StartSpawn PROVE Executor!Next \/ UNCHANGED Executor!execVars
  BY <1>35, Stutters DEF StartSpawn
<1>36. ASSUME StartFails PROVE Executor!Next \/ UNCHANGED Executor!execVars
  BY <1>36, Stutters DEF StartFails
<1>37. ASSUME StopSignalMonitor PROVE Executor!Next \/ UNCHANGED Executor!execVars
  BY <1>37, Stutters DEF StopSignalMonitor
<1>38. ASSUME StopJoinMonitor PROVE Executor!Next \/ UNCHANGED Executor!execVars
  BY <1>38, Stutters DEF StopJoinMonitor
<1>39. ASSUME StopHalt PROVE Executor!Next \/ UNCHANGED Executor!execVars
  BY <1>39, Stutters DEF StopHalt
<1>40. ASSUME StopWakeAll PROVE Executor!Next \/ UNCHANGED Executor!execVars
  BY <1>40, Stutters DEF StopWakeAll
<1>41. ASSUME StopPoll PROVE Executor!Next \/ UNCHANGED Executor!execVars
  BY <1>41, Stutters DEF StopPoll
<1>42. ASSUME StopLock PROVE Executor!Next \/ UNCHANGED Executor!execVars
  BY <1>42, Stutters DEF StopLock
<1>43. ASSUME StopJoin PROVE Executor!Next \/ UNCHANGED Executor!execVars
  BY <1>43, Stutters DEF StopJoin
<1>44. ASSUME StopClear PROVE Executor!Next \/ UNCHANGED Executor!execVars
  BY <1>44, Stutters DEF StopClear
<1>45. ASSUME StopDrop PROVE Executor!Next \/ UNCHANGED Executor!execVars
  BY <1>45, DropDiscards DEF Executor!Next
<1>46. ASSUME NEW pol \in Policies, StopCall(pol) PROVE Executor!Next \/ UNCHANGED Executor!execVars
  BY <1>46, Stutters DEF StopCall
<1>47. CASE UNCHANGED vars
  BY Stutters, <1>47 DEF vars
<1> QED BY <1>1, <1>2, <1>3, <1>4, <1>5, <1>6, <1>7, <1>8, <1>9, <1>10,
         <1>11, <1>12, <1>13, <1>14, <1>15, <1>16, <1>17, <1>18, <1>19,
         <1>20, <1>21, <1>22, <1>23, <1>24, <1>25, <1>26, <1>27, <1>28,
         <1>29, <1>30, <1>31, <1>32, <1>33, <1>34, <1>35, <1>36, <1>37,
         <1>38, <1>39, <1>40, <1>41, <1>42, <1>43, <1>44, <1>45, <1>46,
         <1>47
  DEF Next, WorkerStep, MonitorStep, EnqueueStep, StopStep

LEMMA InitRefines == Init => Executor!Init
<1> SUFFICES ASSUME Init PROVE Executor!Init
  OBVIOUS
<1>1. AbstractFate = [t \in Tasks |-> "new"]
  BY DEF Init, AbstractFate
<1> QED BY <1>1 DEF Init, Executor!Init

(* The pool implements the abstract executor: FIFO, at most one start, and *)
(* nothing discarded while a task runs, for any number of threads.         *)
THEOREM PoolImplementsExecutor == Spec => ImplementsExecutor
<1> QED BY InvHolds, InitRefines, StepRefines, PTL
        DEF Spec, ImplementsExecutor, Executor!Spec
=============================================================================
