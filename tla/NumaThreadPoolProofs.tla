------------------------ MODULE NumaThreadPoolProofs ------------------------
(***************************************************************************)
(* Theorems of NumaThreadPool for every number of nodes, hardware threads, *)
(* tasks and producers, with the proofs that TLAPS checks.                 *)
(***************************************************************************)
EXTENDS NumaThreadPoolProps, DivisionLemmas, FiniteSetTheorems, TLAPS

(* A worker has been started whose Worker is not in workers_ yet. *)
Pushing == cpc = "push" \/ mpc = "push"

(* The slots, their threads and the progress of Stop's joins: a thread     *)
(* beyond the end of workers_ is the one about to be pushed, and a worker  *)
(* that is not joinable any more has ended.                                *)
SlotState ==
  /\ \A i \in Slots : i <= size => wpc[i] # "none"
  /\ Pushing => size + 1 \in Slots /\ wpc[size + 1] \in {"entry", "returned"}
  /\ \A i \in Slots : i > size /\ wpc[i] # "none" => i = size + 1 /\ Pushing
  /\ joinable \subseteq 1 .. size
  /\ \A i \in Slots : i <= size /\ i \notin joinable => wpc[i] \in Ended

(* Which positions of the controller go with which state of the pool: in   *)
(* particular the monitor is alive only between Start and its join.        *)
PhaseState ==
  /\ cpc = "idle" /\ ~running => Quiescent
  /\ cpc = "drop" => Quiescent /\ ~running
  /\ cpc \in {"spawn", "push"} => running /\ ~monitoring /\ mpc = "none"
  /\ cpc \in {"signal", "joinmon"} => running /\ ~monitoring
  /\ cpc \in {"halt", "wake", "poll", "lock", "join", "joining"} => mpc = "none" /\ ~monitoring
  /\ cpc \in {"wake", "poll", "lock", "join", "joining"} => ~running
  /\ cpc \in {"wake", "poll", "drop"} => at \in Nodes
  /\ cpc = "join" => at >= 1
  /\ cpc = "joining" => at \in joinable

(* Start fills the nodes in order; the monitor creates for a node what it  *)
(* lacks to its target.                                                    *)
LimitState ==
  /\ cpc \in {"spawn", "push"} =>
       /\ size = at /\ at <= InitialWorkers
       /\ \A i \in 1 .. size : node[i] = (i - 1) \div MinPerNode
  /\ cpc = "push" => at < InitialWorkers
  /\ mpc \in {"spawn", "push"} => need >= 1 /\ threadCount[mnode] + need <= MaxPerNode

(* A running task is in the hand of one worker, which is bound to the      *)
(* task's node; a worker holds a task only while it runs it.               *)
RunState ==
  /\ \A i \in Slots : wpc[i] = "run" =>
       held[i] \in Tasks /\ fate[held[i]] = "running" /\ target[held[i]] = node[i]
  /\ \A i, j \in Slots : wpc[i] = "run" /\ wpc[j] = "run" /\ held[i] = held[j] => i = j
  /\ \A i \in Slots : wpc[i] # "run" => held[i] = NoTask
  /\ \A t \in Tasks : fate[t] = "running" => \E i \in Slots : wpc[i] = "run" /\ held[i] = t

(* A task in flight is in the hand of one producer, with its node. *)
HandState ==
  /\ \A p \in Producers : ppc[p] \in {"route", "push"} =>
       hand[p] \in Tasks /\ fate[hand[p]] = "inflight" /\ dest[p] = target[hand[p]]
  /\ \A p, q \in Producers : ppc[p] \in {"route", "push"} /\ ppc[q] \in {"route", "push"}
       /\ hand[p] = hand[q] => p = q

TaskState == QueuedAtTarget /\ RunState /\ HandState

(* The inductive invariant behind the theorems. *)
Inv == /\ TypeOK /\ SlotState /\ PhaseState /\ LimitState
       /\ NodeWithinLimit /\ CountExact /\ TaskState

-----------------------------------------------------------------------------
(* The constants *)

LEMMA Constants ==
  /\ NodeCount \in Nat \ {0} /\ LastNode \in Nodes /\ 0 \in Nodes
  /\ MinPerNode \in Nat /\ MaxPerNode \in Nat /\ MinPerNode <= MaxPerNode
  /\ InitialWorkers \in Nat /\ MaxWorkers \in Nat /\ InitialWorkers <= MaxWorkers
<1> DEFINE H == HardwareConcurrency
           D == ExpandFactor * HardwareConcurrency
<1>1. /\ NodeCount \in Nat \ {0} /\ H \in Nat /\ D \in Nat /\ H <= D
      /\ LastNode \in Nodes /\ 0 \in Nodes
  BY NumaAssumption DEF ExpandFactor, Nodes, LastNode
<1>2. /\ H \div NodeCount \in Nat /\ H % NodeCount \in 0 .. NodeCount - 1
      /\ H = NodeCount * (H \div NodeCount) + (H % NodeCount)
  BY <1>1, DivFacts, Zenon
<1>3. /\ D \div NodeCount \in Nat /\ D % NodeCount \in 0 .. NodeCount - 1
      /\ D = NodeCount * (D \div NodeCount) + (D % NodeCount)
  BY <1>1, DivFacts, Zenon
<1>4. PICK q \in Nat, r \in 0 .. NodeCount - 1 :
        q = MinPerNode /\ H = NodeCount * q + r
  BY <1>2 DEF MinPerNode
<1>5. PICK u \in Nat, v \in 0 .. NodeCount - 1 :
        u = MaxPerNode /\ D = NodeCount * u + v
  BY <1>3 DEF MaxPerNode
<1>6. NodeCount * q < NodeCount * u + NodeCount
  BY <1>1, <1>4, <1>5
<1>7. q <= u
  BY <1>1, <1>6, AtLeast
<1>8. NodeCount * q \in Nat /\ NodeCount * u \in Nat /\ NodeCount * q <= NodeCount * u
  BY <1>1, <1>7
<1> QED BY <1>1, <1>4, <1>5, <1>7, <1>8 DEF InitialWorkers, MaxWorkers

LEMMA SlotsFinite == IsFiniteSet(Slots)
<1> QED BY FS_Interval, Constants DEF Slots

(* Start fills node after node: the quotient of at is a node, and the      *)
(* slots of one node are MinPerNode consecutive ones.                      *)
LEMMA NodeOfSlot ==
  ASSUME NEW k \in Nat, k < InitialWorkers
  PROVE  /\ MinPerNode \in Nat \ {0}
         /\ k \div MinPerNode \in Nodes
         /\ k + 1 \in MinPerNode * (k \div MinPerNode) + 1
                      .. MinPerNode * (k \div MinPerNode) + MinPerNode
<1>1. PICK m \in Nat : m = MinPerNode /\ k < NodeCount * m /\ NodeCount * m \in Nat
  BY Constants DEF InitialWorkers
<1>2. m \in Nat \ {0} /\ NodeCount \in Nat \ {0}
  BY <1>1, Constants
<1>3. /\ k \div m \in Nat /\ k % m \in 0 .. m - 1
      /\ k = m * (k \div m) + (k % m)
  BY <1>2, DivFacts, Zenon
<1>4. PICK q \in Nat, r \in 0 .. m - 1 : q = k \div m /\ k = m * q + r
  BY <1>3
<1>5. /\ m * q \in Nat /\ m * (NodeCount - 1) \in Int
      /\ m * (NodeCount - 1) = m * NodeCount - m /\ m * NodeCount = NodeCount * m
  <2>1. m * (NodeCount - 1) = m * NodeCount - m * 1
    BY <1>2, Distributes
  <2> QED BY <1>2, <1>4, <2>1
<1>6. m * q < m * (NodeCount - 1) + m
  BY <1>1, <1>2, <1>4, <1>5
<1>7. q <= NodeCount - 1
  BY <1>2, <1>6, AtLeast
<1>8. k + 1 \in m * q + 1 .. m * q + m
  BY <1>2, <1>4, <1>5
<1> QED BY <1>1, <1>2, <1>4, <1>7, <1>8 DEF Nodes

-----------------------------------------------------------------------------
(* The workers of a node *)

LEMMA WorkersFinite ==
  ASSUME TypeOK, NEW n
  PROVE  /\ IsFiniteSet(WorkersOf(n)) /\ Cardinality(WorkersOf(n)) \in Nat
         /\ WorkersOf(n) \subseteq 1 .. size
<1>1. IsFiniteSet(1 .. size) /\ WorkersOf(n) \subseteq 1 .. size
  BY FS_Interval DEF TypeOK, WorkersOf
<1> QED BY <1>1, FS_Subset, FS_CardinalityType

(* Pigeonholes: while no node has more than its limit and one has less,    *)
(* workers_ has room for one more.  A worker's hole is its node and its    *)
(* rank among the workers of the node.                                     *)
LEMMA Room ==
  ASSUME TypeOK, NEW n \in Nodes, Cardinality(WorkersOf(n)) < MaxPerNode,
         \A k \in Nodes : Cardinality(WorkersOf(k)) <= MaxPerNode
  PROVE  size + 1 \in Slots
<1> DEFINE Upto(i) == {j \in 1 .. i : node[j] = node[i]}
           Holes == Nodes \X (1 .. MaxPerNode)
           Taken == Holes \ {<<n, MaxPerNode>>}
<1>1. /\ size \in 0 .. MaxWorkers /\ size \in Nat /\ MaxPerNode \in Nat \ {0}
      /\ MaxWorkers \in Nat /\ Slots = 1 .. MaxWorkers
      /\ \A i \in 1 .. size : node[i] \in Nodes
  <2>1. Cardinality(WorkersOf(n)) \in Nat
    BY WorkersFinite
  <2>2. MaxPerNode \in Nat \ {0}
    BY <2>1, Constants
  <2> QED BY <2>2, Constants DEF TypeOK, Slots
<1>2. ASSUME NEW i \in 1 .. size
      PROVE  /\ IsFiniteSet(Upto(i)) /\ Upto(i) \subseteq WorkersOf(node[i])
             /\ Cardinality(Upto(i)) \in 1 .. MaxPerNode
             /\ node[i] = n => Cardinality(Upto(i)) < MaxPerNode
  <2>1. Upto(i) \subseteq WorkersOf(node[i]) /\ i \in Upto(i) /\ node[i] \in Nodes
    BY <1>1 DEF WorkersOf
  <2>2. /\ IsFiniteSet(Upto(i))
        /\ Cardinality(Upto(i)) <= Cardinality(WorkersOf(node[i]))
    BY <2>1, WorkersFinite, FS_Subset
  <2>3. Cardinality(Upto(i)) \in Nat /\ Cardinality(Upto(i)) # 0
    BY <2>1, <2>2, FS_CardinalityType, FS_EmptySet
  <2>4. Cardinality(WorkersOf(node[i])) \in Nat
        /\ Cardinality(WorkersOf(node[i])) <= MaxPerNode
    BY <2>1, WorkersFinite
  <2> QED BY <1>1, <2>1, <2>2, <2>3, <2>4
<1>3. PICK hole \in [1 .. size -> Taken] :
        \A i \in 1 .. size : hole[i] = <<node[i], Cardinality(Upto(i))>>
  <2> DEFINE h == [i \in 1 .. size |-> <<node[i], Cardinality(Upto(i))>>]
  <2>1. ASSUME NEW i \in 1 .. size PROVE h[i] \in Taken
    <3>1. PICK r \in 1 .. MaxPerNode :
            r = Cardinality(Upto(i)) /\ (node[i] = n => r < MaxPerNode)
      BY <1>2
    <3>2. <<node[i], r>> \in Holes /\ <<node[i], r>> # <<n, MaxPerNode>>
      BY <1>1, <3>1
    <3> QED BY <3>1, <3>2
  <2>2. h \in [1 .. size -> Taken]
    BY <2>1, Zenon
  <2> QED BY <2>2
<1>4. IsFiniteSet(Taken) /\ Cardinality(Taken) = MaxWorkers - 1
  <2>1. /\ IsFiniteSet(Nodes) /\ Cardinality(Nodes) = NodeCount
        /\ IsFiniteSet(1 .. MaxPerNode) /\ Cardinality(1 .. MaxPerNode) = MaxPerNode
    BY <1>1, Constants, FS_Interval DEF Nodes
  <2>2. IsFiniteSet(Holes) /\ Cardinality(Holes) = MaxWorkers
    BY <2>1, FS_Product DEF MaxWorkers
  <2>3. <<n, MaxPerNode>> \in Holes
    BY <1>1
  <2> QED BY <2>2, <2>3, FS_RemoveElement
<1>5. ASSUME NEW i \in 1 .. size, NEW j \in 1 .. size, i < j, hole[i] = hole[j]
      PROVE  FALSE
  <2>1. node[i] = node[j] /\ Cardinality(Upto(i)) = Cardinality(Upto(j))
    BY <1>3, <1>5
  <2>2. Upto(i) \cup {j} \subseteq Upto(j) /\ j \notin Upto(i)
    BY <1>1, <1>5, <2>1
  <2>3. Cardinality(Upto(i) \cup {j}) = Cardinality(Upto(i)) + 1
    BY <1>2, <2>2, FS_AddElement
  <2>4. Cardinality(Upto(i) \cup {j}) <= Cardinality(Upto(j))
    BY <1>2, <2>2, FS_Subset
  <2>5. Cardinality(Upto(i)) \in Nat
    BY <1>2, FS_CardinalityType
  <2> QED BY <2>1, <2>3, <2>4, <2>5
<1>6. ASSUME size = MaxWorkers PROVE FALSE
  <2>1. IsFiniteSet(1 .. size) /\ Cardinality(1 .. size) = MaxWorkers
    BY <1>1, <1>6, FS_Interval
  <2>2. Cardinality(Taken) < Cardinality(1 .. size)
    BY <1>1, <1>4, <2>1
  <2>3. PICK i \in 1 .. size, j \in 1 .. size : i # j /\ hole[i] = hole[j]
    <3> HIDE DEF Taken
    <3> QED BY <1>4, <2>1, <2>2, FS_PigeonHole
  <2>4. i < j \/ j < i
    BY <1>1, <2>3
  <2> QED BY <1>5, <2>3, <2>4
<1> QED BY <1>1, <1>6

-----------------------------------------------------------------------------
(* What the helpers of several actions do *)

(* A notification moves waiters to the reacquisition of the mutex only. *)
LEMMA NotifyMoves ==
  ASSUME TypeOK, NEW n, NotifyAllOn(n) \/ NotifyOneOn(n)
  PROVE  /\ wpc' \in [Slots -> WorkerPCs]
         /\ \A i \in Slots : wpc'[i] = wpc[i] \/ (wpc[i] = "waiting" /\ wpc'[i] = "lock")
<1>1. CASE NotifyAllOn(n)
  BY <1>1 DEF NotifyAllOn, WaitingOn, TypeOK, WorkerPCs
<1>2. CASE NotifyOneOn(n)
  BY <1>2 DEF NotifyOneOn, WaitingOn, TypeOK, WorkerPCs
<1> QED BY <1>1, <1>2

(* A thread is started for the slot after the last one, which has none. *)
LEMMA StartThreadSlot ==
  ASSUME TypeOK, SlotState, ~Pushing, size + 1 \in Slots, StartThread
  PROVE  /\ wpc' \in [Slots -> WorkerPCs]
         /\ wpc[size + 1] = "none" /\ wpc'[size + 1] = "entry"
         /\ \A i \in Slots : i # size + 1 => wpc'[i] = wpc[i]
<1>1. size \in Nat /\ wpc \in [Slots -> WorkerPCs]
  BY DEF TypeOK
<1>2. wpc[size + 1] = "none"
  BY <1>1 DEF SlotState
<1> QED BY <1>1, <1>2 DEF StartThread, WorkerPCs

LEMMA PushFields ==
  ASSUME TypeOK, SlotState, Pushing, NEW n \in Nodes, PushWorker(n)
  PROVE  /\ size + 1 \in Slots /\ size' = size + 1 /\ size' \in 0 .. MaxWorkers
         /\ wpc[size + 1] \in {"entry", "returned"}
         /\ node' \in [Slots -> Nodes] /\ node'[size + 1] = n
         /\ \A i \in Slots : i # size + 1 => node'[i] = node[i]
         /\ joinable' = joinable \cup {size + 1}
         /\ joinable' \subseteq Slots /\ stale' \subseteq Slots /\ capacity' \in Nat
         /\ threadCount' \in [Nodes -> Nat] /\ threadCount'[n] = threadCount[n] + 1
         /\ \A k \in Nodes : k # n => threadCount'[k] = threadCount[k]
<1>1. size + 1 \in Slots /\ wpc[size + 1] \in {"entry", "returned"}
  BY DEF SlotState
<1>2. size' = size + 1 /\ size' \in 0 .. MaxWorkers
  BY <1>1, Constants DEF PushWorker, TypeOK, Slots
<1>3. /\ node' \in [Slots -> Nodes] /\ node'[size + 1] = n
      /\ \A i \in Slots : i # size + 1 => node'[i] = node[i]
  BY <1>1 DEF PushWorker, TypeOK
<1>4. /\ joinable' = joinable \cup {size + 1}
      /\ joinable' \subseteq Slots /\ stale' \subseteq Slots
  BY <1>1 DEF PushWorker, TypeOK
<1>5. capacity' \in Nat
  BY DEF PushWorker, TypeOK
<1>6. /\ threadCount' \in [Nodes -> Nat] /\ threadCount'[n] = threadCount[n] + 1
      /\ \A k \in Nodes : k # n => threadCount'[k] = threadCount[k]
  BY DEF PushWorker, TypeOK
<1> QED BY <1>1, <1>2, <1>3, <1>4, <1>5, <1>6

LEMMA EndTaskType ==
  ASSUME TypeOK, NEW i \in Slots, NEW how \in Fates, EndTask(i, how)
  PROVE  /\ held' \in [Slots -> Tasks \cup {NoTask}]
         /\ fate' \in [Tasks -> Fates]
<1>1. held \in [Slots -> Tasks \cup {NoTask}] /\ fate \in [Tasks -> Fates]
  BY DEF TypeOK
<1> QED BY <1>1 DEF EndTask

(* A worker that is about to uncount itself is one of those counted. *)
LEMMA CountPositive ==
  ASSUME CountExact, NEW i \in Slots, wpc[i] \in Counted
  PROVE  validThreadCount - 1 \in Nat
<1> DEFINE C == {j \in Slots : wpc[j] \in Counted}
<1>1. IsFiniteSet(C)
  BY SlotsFinite, FS_Subset
<1>2. Cardinality(C) \in Nat /\ C # {}
  BY <1>1, FS_CardinalityType
<1>3. Cardinality(C) # 0
  BY <1>1, <1>2, FS_EmptySet
<1> QED BY <1>2, <1>3 DEF CountExact

LEMMA AdmitType ==
  ASSUME TypeOK, NEW p \in Producers, NEW t, Admit(p, t)
  PROVE  /\ ppc' \in [Producers -> {"idle", "route", "push", "notify"}]
         /\ fate' \in [Tasks -> Fates]
<1>1. CASE running
  <2>1. ppc' = [ppc EXCEPT ![p] = "push"] /\ fate' = [fate EXCEPT ![t] = "inflight"]
    BY <1>1 DEF Admit
  <2> QED BY <2>1 DEF TypeOK, Fates
<1>2. CASE ~running
  <2>1. ppc' = [ppc EXCEPT ![p] = "idle"] /\ fate' = [fate EXCEPT ![t] = "rejected"]
    BY <1>2 DEF Admit
  <2> QED BY <2>1 DEF TypeOK, Fates
<1> QED BY <1>1, <1>2

LEMMA NextNodeType ==
  ASSUME TypeOK, NextNode PROVE mnode' \in Nodes /\ mpc' \in {"wait", "node"}
<1> QED BY Constants DEF NextNode, TypeOK, Nodes, LastNode

(* The node for which the monitor is about to create a worker has room. *)
LEMMA MonitorRoom ==
  ASSUME Inv, mpc \in {"spawn", "push"} PROVE size + 1 \in Slots
<1>1. mnode \in Nodes /\ need \in Nat /\ threadCount[mnode] \in Nat
  BY DEF Inv, TypeOK
<1>2. need >= 1 /\ threadCount[mnode] + need <= MaxPerNode
  BY DEF Inv, LimitState
<1>3. /\ Cardinality(WorkersOf(mnode)) <= threadCount[mnode]
      /\ \A n \in Nodes : Cardinality(WorkersOf(n)) <= MaxPerNode
  BY <1>1 DEF Inv, NodeWithinLimit
<1>4. Cardinality(WorkersOf(mnode)) \in Nat /\ MaxPerNode \in Nat
  BY WorkersFinite, Constants DEF Inv
<1>5. Cardinality(WorkersOf(mnode)) < MaxPerNode
  BY <1>1, <1>2, <1>3, <1>4
<1> QED BY <1>1, <1>3, <1>5, Room DEF Inv

LEMMA StartRoom ==
  ASSUME Inv, cpc \in {"spawn", "push"}, at < InitialWorkers PROVE size + 1 \in Slots
<1>1. size = at /\ at \in Nat
  BY DEF Inv, LimitState, TypeOK
<1> QED BY <1>1, Constants DEF Slots

-----------------------------------------------------------------------------
(* TypeOK: one step per action *)

LEMMA TypeStep == Inv /\ [Next]_vars => TypeOK'
<1> SUFFICES ASSUME Inv, [Next]_vars PROVE TypeOK'
  OBVIOUS
<1> USE DEF Inv, TypeOK, poolVars, nodeVars, workerVars, flagVars,
        monVars, prodVars, ctlVars, taskVars, Elsewhere
<1>1. ASSUME NEW i \in Slots, WorkerEnter(i) PROVE TypeOK'
  BY <1>1 DEF WorkerEnter, Go, WorkerPCs, Ended
<1>2. ASSUME NEW i \in Slots, WorkerBind(i) PROVE TypeOK'
  BY <1>2 DEF WorkerBind, Go, WorkerPCs, Ended
<1>3. ASSUME NEW i \in Slots, WorkerBindFails(i) PROVE TypeOK'
  BY <1>3 DEF WorkerBindFails, Go, WorkerPCs, Ended
<1>4. ASSUME NEW i \in Slots, WorkerCount(i) PROVE TypeOK'
  BY <1>4 DEF WorkerCount, Go, WorkerPCs, Ended
<1>5. ASSUME NEW i \in Slots, WorkerTest(i) PROVE TypeOK'
  <2>1. wpc' \in [Slots -> WorkerPCs]
    BY <1>5 DEF WorkerTest, Go, WorkerPCs
  <2>2. idle' \subseteq Slots
    BY <1>5 DEF WorkerTest
  <2> QED BY <1>5, <2>1, <2>2 DEF WorkerTest
<1>6. ASSUME NEW i \in Slots, WorkerCheck(i) PROVE TypeOK'
  BY <1>6 DEF WorkerCheck, Go, WorkerPCs, Ended
<1>7. ASSUME NEW i \in Slots, WorkerPark(i) PROVE TypeOK'
  BY <1>7 DEF WorkerPark, Go, WorkerPCs, Ended
<1>8. ASSUME NEW i \in Slots, WorkerWake(i) PROVE TypeOK'
  BY <1>8 DEF WorkerWake, Go, WorkerPCs, Ended
<1>9. ASSUME NEW i \in Slots, WorkerPop(i) PROVE TypeOK'
  <2>1. /\ node[i] \in Nodes /\ queue[node[i]] \in Seq(Tasks) /\ queue[node[i]] # <<>>
    BY <1>9 DEF WorkerPop, QueueOf
  <2>2. Head(queue[node[i]]) \in Tasks /\ Tail(queue[node[i]]) \in Seq(Tasks)
    BY <2>1
  <2>3. queue' \in [Nodes -> Seq(Tasks)]
    BY <1>9, <2>1, <2>2 DEF WorkerPop, QueueOf, QueueAfterPop
  <2>4. held' \in [Slots -> Tasks \cup {NoTask}] /\ fate' \in [Tasks -> Fates]
    BY <1>9, <2>1, <2>2 DEF WorkerPop, QueueOf, NextTask, Fates
  <2>5. wpc' \in [Slots -> WorkerPCs]
    BY <1>9 DEF WorkerPop, Go, WorkerPCs
  <2>6. idle' \subseteq Slots /\ UNCHANGED <<Elsewhere, validThreadCount, valid, exiting, target>>
    BY <1>9 DEF WorkerPop
  <2> QED BY <2>3, <2>4, <2>5, <2>6
<1>10. ASSUME NEW i \in Slots, WorkerPopNothing(i) PROVE TypeOK'
  BY <1>10 DEF WorkerPopNothing, Go, WorkerPCs, Ended
<1>11. ASSUME NEW i \in Slots, WorkerFinish(i) PROVE TypeOK'
  <2>1. EndTask(i, "finished") /\ "finished" \in Fates
    BY <1>11 DEF WorkerFinish, Fates
  <2>2. held' \in [Slots -> Tasks \cup {NoTask}] /\ fate' \in [Tasks -> Fates]
    BY <2>1, EndTaskType
  <2>3. wpc' \in [Slots -> WorkerPCs]
    BY <1>11 DEF WorkerFinish, Go, WorkerPCs, Ended
  <2> QED BY <1>11, <2>2, <2>3 DEF WorkerFinish, EndTask
<1>12. ASSUME NEW i \in Slots, WorkerThrow(i) PROVE TypeOK'
  <2>1. EndTask(i, "threw") /\ "threw" \in Fates
    BY <1>12 DEF WorkerThrow, Fates
  <2>2. held' \in [Slots -> Tasks \cup {NoTask}] /\ fate' \in [Tasks -> Fates]
    BY <2>1, EndTaskType
  <2>3. wpc' \in [Slots -> WorkerPCs]
    BY <1>12 DEF WorkerThrow, Go, WorkerPCs, Ended
  <2> QED BY <1>12, <2>2, <2>3 DEF WorkerThrow, EndTask
<1>13. ASSUME NEW i \in Slots, WorkerRetire(i) PROVE TypeOK'
  BY <1>13 DEF WorkerRetire, Go, WorkerPCs, Ended
<1>14. ASSUME NEW i \in Slots, WorkerUncount(i) PROVE TypeOK'
  <2>1. validThreadCount - 1 \in Nat
    BY <1>14, CountPositive DEF WorkerUncount, Go, Counted
  <2> QED BY <1>14, <2>1 DEF WorkerUncount, Go, WorkerPCs, Ended
<1>15. ASSUME NEW i \in Slots, WorkerSpuriousWakeup(i) PROVE TypeOK'
  BY <1>15 DEF WorkerSpuriousWakeup, Go, WorkerPCs, Ended
<1>16. ASSUME NEW i \in Slots, WorkerFault(i) PROVE TypeOK'
  BY <1>16 DEF WorkerFault, Go, WorkerPCs, Ended
<1>17. ASSUME MonitorTop PROVE TypeOK'
  BY <1>17, Constants DEF MonitorTop
<1>18. ASSUME MonitorNode PROVE TypeOK'
  BY <1>18 DEF MonitorNode
<1>19. ASSUME MonitorExpand PROVE TypeOK'
  <2>1. CASE Target(mnode) <= threadCount[mnode]
    BY <1>19, <2>1, NextNodeType DEF MonitorExpand
  <2>2. CASE ~(Target(mnode) <= threadCount[mnode])
    <3>1. Target(mnode) \in Int /\ threadCount[mnode] \in Nat
      BY Constants DEF Target, Smaller, ExpandFactor
    <3>2. Deficit(mnode) \in Nat
      BY <2>2, <3>1 DEF Deficit
    <3> QED BY <1>19, <2>2, <3>2 DEF MonitorExpand
  <2> QED BY <2>1, <2>2
<1>20. ASSUME MonitorSpawn PROVE TypeOK'
  <2>1. /\ mpc = "spawn" /\ mpc' = "push" /\ StartThread
        /\ UNCHANGED <<poolVars, validThreadCount, nodeVars, workerVars, flagVars,
                       mnode, need, prodVars, ctlVars, taskVars, crashed>>
    BY <1>20 DEF MonitorSpawn
  <2>2. ~Pushing
    BY <2>1 DEF Pushing, PhaseState
  <2>3. wpc' \in [Slots -> WorkerPCs]
    BY <2>1, <2>2, MonitorRoom, StartThreadSlot
  <2> QED BY <2>1, <2>3
<1>21. ASSUME MonitorSpawnFails PROVE TypeOK'
  BY <1>21 DEF MonitorSpawnFails
<1>22. ASSUME MonitorPush PROVE TypeOK'
  <2>1. Pushing /\ mnode \in Nodes /\ PushWorker(mnode) /\ need - 1 \in Nat
    BY <1>22 DEF MonitorPush, Pushing, LimitState
  <2>2. mnode' \in Nodes /\ mpc' \in {"wait", "node", "spawn"}
    BY <1>22, NextNodeType DEF MonitorPush
  <2> QED BY <1>22, <2>1, <2>2, PushFields DEF MonitorPush
<1>23. ASSUME MonitorShrink PROVE TypeOK'
  <2>1. mnode' \in Nodes /\ mpc' \in {"wait", "node"}
    BY <1>23, NextNodeType DEF MonitorShrink
  <2>2. wpc' \in [Slots -> WorkerPCs] /\ exiting' \subseteq Slots
    BY <1>23, NotifyMoves DEF MonitorShrink
  <2> QED BY <1>23, <2>1, <2>2 DEF MonitorShrink
<1>24. ASSUME MonitorCheck PROVE TypeOK'
  BY <1>24 DEF MonitorCheck
<1>25. ASSUME MonitorPark PROVE TypeOK'
  BY <1>25 DEF MonitorPark
<1>26. ASSUME MonitorTimeout PROVE TypeOK'
  BY <1>26 DEF MonitorTimeout
<1>27. ASSUME NEW p \in Producers, NEW t \in Tasks, NEW n \in Nodes,
             Enqueue(p, t, n)
      PROVE  TypeOK'
  <2>1. ppc' \in [Producers -> {"idle", "route", "push", "notify"}]
    BY <1>27 DEF Enqueue
  <2>2. fate' \in [Tasks -> Fates]
    BY <1>27 DEF Enqueue, Fates
  <2>3. hand' \in [Producers -> Tasks \cup {NoTask}]
    BY <1>27 DEF Enqueue
  <2>4. dest' \in [Producers -> Nodes] /\ target' \in [Tasks -> Nodes]
    BY <1>27 DEF Enqueue
  <2> QED BY <1>27, <2>1, <2>2, <2>3, <2>4 DEF Enqueue
<1>28. ASSUME NEW p \in Producers, NEW t \in Tasks, NEW n \in Nodes,
             EnqueueToNumaNode(p, t, n)
      PROVE  TypeOK'
  <2>1. /\ ppc' \in [Producers -> {"idle", "route", "push", "notify"}]
        /\ fate' \in [Tasks -> Fates]
    BY <1>28, AdmitType DEF EnqueueToNumaNode
  <2>2. hand' \in [Producers -> Tasks \cup {NoTask}]
    BY <1>28 DEF EnqueueToNumaNode
  <2>3. dest' \in [Producers -> Nodes] /\ target' \in [Tasks -> Nodes]
    BY <1>28 DEF EnqueueToNumaNode
  <2> QED BY <1>28, <2>1, <2>2, <2>3 DEF EnqueueToNumaNode
<1>29. ASSUME NEW p \in Producers, EnqueueRoute(p) PROVE TypeOK'
  <2>1. /\ ppc' \in [Producers -> {"idle", "route", "push", "notify"}]
        /\ fate' \in [Tasks -> Fates]
    BY <1>29, AdmitType DEF EnqueueRoute
  <2> QED BY <1>29, <2>1 DEF EnqueueRoute
<1>30. ASSUME NEW p \in Producers, EnqueuePush(p) PROVE TypeOK'
  <2>1. hand[p] \in Tasks /\ dest[p] \in Nodes /\ queue[dest[p]] \in Seq(Tasks)
    BY <1>30 DEF EnqueuePush, TaskState, HandState
  <2>2. Append(queue[dest[p]], hand[p]) \in Seq(Tasks)
    BY <2>1
  <2>3. queue' \in [Nodes -> Seq(Tasks)]
    BY <1>30, <2>1, <2>2 DEF EnqueuePush
  <2> QED BY <1>30, <2>3 DEF EnqueuePush, Fates
<1>31. ASSUME NEW p \in Producers, EnqueueNotify(p) PROVE TypeOK'
  BY <1>31, NotifyMoves DEF EnqueueNotify
<1>32. ASSUME StartCall PROVE TypeOK'
  BY <1>32 DEF StartCall
<1>33. ASSUME StartWorker PROVE TypeOK'
  <2>1. /\ cpc = "spawn" /\ cpc' = "push" /\ StartThread /\ at < InitialWorkers
        /\ UNCHANGED <<poolVars, validThreadCount, nodeVars, workerVars, flagVars,
                       monVars, prodVars, policy, at, starts, taskVars, crashed>>
    BY <1>33 DEF StartWorker
  <2>2. ~Pushing
    BY <2>1 DEF Pushing, PhaseState
  <2>3. wpc' \in [Slots -> WorkerPCs]
    BY <2>1, <2>2, StartRoom, StartThreadSlot
  <2> QED BY <2>1, <2>3
<1>34. ASSUME StartPush PROVE TypeOK'
  <2>1. /\ Pushing /\ at < InitialWorkers /\ at \in Nat
        /\ PushWorker(at \div MinPerNode)
    BY <1>34 DEF StartPush, Pushing, LimitState
  <2>2. at \div MinPerNode \in Nodes
    BY <2>1, NodeOfSlot
  <2>3. /\ size' \in 0 .. MaxWorkers /\ node' \in [Slots -> Nodes]
        /\ joinable' \subseteq Slots /\ stale' \subseteq Slots /\ capacity' \in Nat
        /\ threadCount' \in [Nodes -> Nat]
    BY <2>1, <2>2, PushFields
  <2> QED BY <1>34, <2>3 DEF StartPush
<1>35. ASSUME StartMonitor PROVE TypeOK'
  BY <1>35 DEF StartMonitor
<1>36. ASSUME StartFails PROVE TypeOK'
  <2>1. monitoring' \in BOOLEAN
    BY <1>36 DEF StartFails
  <2> QED BY <1>36, <2>1 DEF StartFails
<1>37. ASSUME NEW pol \in Policies, StopCall(pol) PROVE TypeOK'
  BY <1>37, NumaAssumption DEF StopCall
<1>38. ASSUME StopSignalMonitor PROVE TypeOK'
  BY <1>38 DEF StopSignalMonitor, NotifyMonitor
<1>39. ASSUME StopJoinMonitor PROVE TypeOK'
  BY <1>39 DEF StopJoinMonitor
<1>40. ASSUME StopHalt PROVE TypeOK'
  BY <1>40 DEF StopHalt
<1>41. ASSUME StopWake PROVE TypeOK'
  BY <1>41, NotifyMoves DEF StopWake
<1>42. ASSUME StopPoll PROVE TypeOK'
  BY <1>42 DEF StopPoll
<1>43. ASSUME StopLock PROVE TypeOK'
  BY <1>43 DEF StopLock
<1>44. ASSUME StopMark PROVE TypeOK'
  BY <1>44 DEF StopMark
<1>45. ASSUME StopJoin PROVE TypeOK'
  BY <1>45 DEF StopJoin
<1>46. ASSUME StopClear PROVE TypeOK'
  BY <1>46, Constants DEF StopClear, WorkerPCs
<1>47. ASSUME StopDrop PROVE TypeOK'
  <2>1. fate' \in [Tasks -> Fates]
    BY <1>47 DEF StopDrop, Fates
  <2>2. queue' \in [Nodes -> Seq(Tasks)]
    <3>1. <<>> \in Seq(Tasks)
      OBVIOUS
    <3>2. queue' = [queue EXCEPT ![at] = <<>>]
      BY <1>47 DEF StopDrop
    <3> QED BY <3>1, <3>2, Zenon
  <2> QED BY <1>47, <2>1, <2>2 DEF StopDrop
<1>48. CASE UNCHANGED vars
  BY <1>48 DEF vars
<1> QED BY <1>1, <1>2, <1>3, <1>4, <1>5, <1>6, <1>7, <1>8, <1>9, <1>10, <1>11, <1>12,
         <1>13, <1>14, <1>15, <1>16, <1>17, <1>18, <1>19, <1>20, <1>21, <1>22, <1>23,
         <1>24, <1>25, <1>26, <1>27, <1>28, <1>29, <1>30, <1>31, <1>32, <1>33, <1>34,
         <1>35, <1>36, <1>37, <1>38, <1>39, <1>40, <1>41, <1>42, <1>43, <1>44, <1>45,
         <1>46, <1>47, <1>48
  DEF Next, WorkerStep, MonitorStep, EnqueueStep, StartStep, StopStep

-----------------------------------------------------------------------------
(* SlotState: threads are started and pushed one by one, nothing but       *)
(* StopClear takes a worker out of workers_, and an ended thread stays so. *)

(* The steps that start, push, join and clear nothing. *)
LEMMA SameSlots ==
  ASSUME TypeOK, SlotState, UNCHANGED <<size, joinable>>, Pushing' <=> Pushing,
         \A i \in Slots :
           /\ wpc'[i] = "none" <=> wpc[i] = "none"
           /\ wpc[i] \in Ended => wpc'[i] \in Ended
           /\ wpc[i] \in {"entry", "returned"} /\ wpc'[i] # wpc[i] =>
                i <= size \/ wpc'[i] = "returned"
  PROVE  SlotState'
<1>1. size' = size /\ joinable' = joinable
  OBVIOUS
<1>2. size + 1 \in Slots /\ wpc[size + 1] \in {"entry", "returned"}
        => wpc'[size + 1] \in {"entry", "returned"}
  <2>1. size \in Nat
    BY DEF TypeOK
  <2>2. ~(size + 1 <= size)
    BY <2>1
  <2> QED BY <2>2
<1> QED BY <1>1, <1>2 DEF SlotState

(* A worker of a slot beyond the end of workers_ has nothing to do but to  *)
(* find that out.                                                          *)
LEMMA ActiveSlot ==
  ASSUME Inv, NEW i \in Slots, wpc[i] \notin {"none", "entry", "returned"}
  PROVE  i <= size
<1>1. size \in Nat /\ i \in Nat
  BY DEF Inv, TypeOK, Slots
<1> QED BY <1>1 DEF Inv, SlotState

LEMMA PushSlots ==
  ASSUME Inv, Pushing, ~Pushing', NEW n \in Nodes, PushWorker(n), UNCHANGED wpc
  PROVE  SlotState'
<1>1. /\ size + 1 \in Slots /\ size' = size + 1 /\ size \in Nat
      /\ wpc[size + 1] \in {"entry", "returned"} /\ joinable' = joinable \cup {size + 1}
  BY PushFields DEF Inv, TypeOK
<1>2. \A i \in Slots : i \in Nat
  BY DEF Slots
<1>3. ASSUME NEW i \in Slots PROVE i <= size' => wpc[i] # "none"
  BY <1>1, <1>2 DEF Inv, SlotState
<1>4. ASSUME NEW i \in Slots PROVE ~(i > size' /\ wpc[i] # "none")
  BY <1>1, <1>2 DEF Inv, SlotState
<1>5. joinable' \subseteq 1 .. size'
  BY <1>1 DEF Inv, SlotState
<1>6. ASSUME NEW i \in Slots PROVE i <= size' /\ i \notin joinable' => wpc[i] \in Ended
  BY <1>1, <1>2 DEF Inv, SlotState
<1> QED BY <1>3, <1>4, <1>5, <1>6 DEF SlotState

LEMMA StartThreadSlots ==
  ASSUME Inv, ~Pushing, Pushing', size + 1 \in Slots, StartThread,
         UNCHANGED <<size, joinable>>
  PROVE  SlotState'
<1>1. /\ wpc'[size + 1] = "entry"
      /\ \A i \in Slots : i # size + 1 => wpc'[i] = wpc[i]
  BY StartThreadSlot DEF Inv
<1>2. size \in Nat /\ size' = size /\ joinable' = joinable /\ \A i \in Slots : i \in Nat
  BY DEF Inv, TypeOK, Slots
<1> QED BY <1>1, <1>2 DEF Inv, SlotState

LEMMA SlotStep == Inv /\ [Next]_vars => SlotState'
<1> SUFFICES ASSUME Inv, [Next]_vars PROVE SlotState'
  OBVIOUS
<1> USE Constants DEF poolVars, nodeVars, workerVars, flagVars,
        monVars, prodVars, ctlVars, taskVars, Elsewhere
<1>1. ASSUME NEW i \in Slots, WorkerEnter(i) PROVE SlotState'
  <2>1. \A j \in Slots : j # i => wpc'[j] = wpc[j]
    BY <1>1 DEF WorkerEnter, Go
  <2>2. wpc[i] = "entry" /\ wpc'[i] = IF i > size THEN "returned" ELSE "bind"
    BY <1>1 DEF WorkerEnter, Go, Inv, TypeOK
  <2>3. size \in Nat /\ i \in Nat
    BY DEF Inv, TypeOK, Slots
  <2> QED BY <1>1, <2>1, <2>2, <2>3, SameSlots DEF WorkerEnter, Ended, Pushing, Inv
<1>2. ASSUME NEW i \in Slots, WorkerBind(i) PROVE SlotState'
  BY <1>2, SameSlots, ActiveSlot DEF WorkerBind, Go, Ended, Pushing, Inv, TypeOK
<1>3. ASSUME NEW i \in Slots, WorkerBindFails(i) PROVE SlotState'
  BY <1>3, SameSlots, ActiveSlot DEF WorkerBindFails, Go, Ended, Pushing, Inv,
    TypeOK
<1>4. ASSUME NEW i \in Slots, WorkerCount(i) PROVE SlotState'
  BY <1>4, SameSlots, ActiveSlot DEF WorkerCount, Go, Ended, Pushing, Inv, TypeOK
<1>5. ASSUME NEW i \in Slots, WorkerTest(i) PROVE SlotState'
  BY <1>5, SameSlots, ActiveSlot DEF WorkerTest, Go, Ended, Pushing, Inv, TypeOK
<1>6. ASSUME NEW i \in Slots, WorkerCheck(i) PROVE SlotState'
  BY <1>6, SameSlots, ActiveSlot DEF WorkerCheck, Go, Ended, Pushing, Inv, TypeOK
<1>7. ASSUME NEW i \in Slots, WorkerPark(i) PROVE SlotState'
  BY <1>7, SameSlots, ActiveSlot DEF WorkerPark, Go, Ended, Pushing, Inv, TypeOK
<1>8. ASSUME NEW i \in Slots, WorkerWake(i) PROVE SlotState'
  BY <1>8, SameSlots, ActiveSlot DEF WorkerWake, Go, Ended, Pushing, Inv, TypeOK
<1>9. ASSUME NEW i \in Slots, WorkerPop(i) PROVE SlotState'
  BY <1>9, SameSlots, ActiveSlot DEF WorkerPop, Go, Ended, Pushing, Inv, TypeOK
<1>10. ASSUME NEW i \in Slots, WorkerPopNothing(i) PROVE SlotState'
  BY <1>10, SameSlots, ActiveSlot DEF WorkerPopNothing, Go, Ended, Pushing, Inv,
    TypeOK
<1>11. ASSUME NEW i \in Slots, WorkerFinish(i) PROVE SlotState'
  BY <1>11, SameSlots, ActiveSlot DEF WorkerFinish, EndTask, Go, Ended, Pushing, Inv,
    TypeOK
<1>12. ASSUME NEW i \in Slots, WorkerThrow(i) PROVE SlotState'
  BY <1>12, SameSlots, ActiveSlot DEF WorkerThrow, EndTask, Go, Ended, Pushing, Inv,
    TypeOK
<1>13. ASSUME NEW i \in Slots, WorkerRetire(i) PROVE SlotState'
  BY <1>13, SameSlots, ActiveSlot DEF WorkerRetire, Go, Ended, Pushing, Inv, TypeOK
<1>14. ASSUME NEW i \in Slots, WorkerUncount(i) PROVE SlotState'
  BY <1>14, SameSlots, ActiveSlot DEF WorkerUncount, Go, Ended, Pushing, Inv, TypeOK
<1>15. ASSUME NEW i \in Slots, WorkerSpuriousWakeup(i) PROVE SlotState'
  BY <1>15, SameSlots, ActiveSlot DEF WorkerSpuriousWakeup, Go, Ended, Pushing, Inv,
    TypeOK
<1>16. ASSUME NEW i \in Slots, WorkerFault(i) PROVE SlotState'
  BY <1>16, SameSlots DEF WorkerFault, Pushing, Inv
<1>17. ASSUME MonitorTop PROVE SlotState'
  BY <1>17, SameSlots DEF MonitorTop, Pushing, Inv
<1>18. ASSUME MonitorNode PROVE SlotState'
  BY <1>18, SameSlots DEF MonitorNode, Pushing, Inv
<1>19. ASSUME MonitorExpand PROVE SlotState'
  <2>1. mpc = "expand" /\ wpc' = wpc /\ UNCHANGED <<size, joinable, cpc>>
    BY <1>19 DEF MonitorExpand
  <2>2. mpc' # "push"
    BY <1>19 DEF MonitorExpand, NextNode
  <2> QED BY <2>1, <2>2, SameSlots DEF Pushing, Inv
<1>20. ASSUME MonitorSpawn PROVE SlotState'
  <2>1. /\ mpc = "spawn" /\ mpc' = "push" /\ StartThread
        /\ UNCHANGED <<size, joinable, cpc>>
    BY <1>20 DEF MonitorSpawn
  <2>2. ~Pushing /\ Pushing'
    BY <2>1 DEF Pushing, Inv, PhaseState
  <2> QED BY <2>1, <2>2, MonitorRoom, StartThreadSlots
<1>21. ASSUME MonitorSpawnFails PROVE SlotState'
  BY <1>21, SameSlots DEF MonitorSpawnFails, Pushing, Inv
<1>22. ASSUME MonitorPush PROVE SlotState'
  <2>1. mpc = "push" /\ mnode \in Nodes /\ PushWorker(mnode) /\ UNCHANGED <<wpc, cpc>>
    BY <1>22 DEF MonitorPush, Inv, TypeOK
  <2>2. mpc' # "push"
    BY <1>22 DEF MonitorPush, NextNode
  <2>3. Pushing /\ ~Pushing'
    BY <2>1, <2>2 DEF Pushing, Inv, PhaseState
  <2> QED BY <2>1, <2>3, PushSlots
<1>23. ASSUME MonitorShrink PROVE SlotState'
  <2>1. mpc = "shrink" /\ UNCHANGED <<size, joinable, cpc>>
    BY <1>23 DEF MonitorShrink
  <2>2. mpc' # "push"
    BY <1>23 DEF MonitorShrink, NextNode
  <2>3. wpc' = wpc \/ NotifyAllOn(mnode)
    BY <1>23 DEF MonitorShrink
  <2>4. \A i \in Slots : wpc'[i] = wpc[i] \/ (wpc[i] = "waiting" /\ wpc'[i] = "lock")
    BY <2>3, NotifyMoves DEF Inv
  <2> QED BY <2>1, <2>2, <2>4, SameSlots DEF Pushing, Inv, Ended
<1>24. ASSUME MonitorCheck PROVE SlotState'
  <2>1. mpc = "wait" /\ mpc' # "push"
    BY <1>24 DEF MonitorCheck
  <2> QED BY <1>24, <2>1, SameSlots DEF MonitorCheck, Pushing, Inv
<1>25. ASSUME MonitorPark PROVE SlotState'
  BY <1>25, SameSlots DEF MonitorPark, Pushing, Inv
<1>26. ASSUME MonitorTimeout PROVE SlotState'
  BY <1>26, SameSlots DEF MonitorTimeout, Pushing, Inv
<1>27. ASSUME NEW p \in Producers, NEW t \in Tasks, NEW n \in Nodes,
             Enqueue(p, t, n)
      PROVE  SlotState'
  BY <1>27, SameSlots DEF Enqueue, Pushing, Inv
<1>28. ASSUME NEW p \in Producers, NEW t \in Tasks, NEW n \in Nodes,
             EnqueueToNumaNode(p, t, n)
      PROVE  SlotState'
  BY <1>28, SameSlots DEF EnqueueToNumaNode, Pushing, Inv
<1>29. ASSUME NEW p \in Producers, EnqueueRoute(p) PROVE SlotState'
  BY <1>29, SameSlots DEF EnqueueRoute, Pushing, Inv
<1>30. ASSUME NEW p \in Producers, EnqueuePush(p) PROVE SlotState'
  BY <1>30, SameSlots DEF EnqueuePush, Pushing, Inv
<1>31. ASSUME NEW p \in Producers, EnqueueNotify(p) PROVE SlotState'
  <2>1. \A i \in Slots : wpc'[i] = wpc[i] \/ (wpc[i] = "waiting" /\ wpc'[i] = "lock")
    BY <1>31, NotifyMoves DEF EnqueueNotify, Inv
  <2> QED BY <1>31, <2>1, SameSlots DEF EnqueueNotify, Pushing, Inv, Ended
<1>32. ASSUME StartCall PROVE SlotState'
  BY <1>32, SameSlots DEF StartCall, Pushing, Inv
<1>33. ASSUME StartWorker PROVE SlotState'
  <2>1. /\ cpc = "spawn" /\ cpc' = "push" /\ StartThread /\ at < InitialWorkers
        /\ UNCHANGED <<size, joinable, mpc>>
    BY <1>33 DEF StartWorker
  <2>2. ~Pushing /\ Pushing'
    BY <2>1 DEF Pushing, Inv, PhaseState
  <2> QED BY <2>1, <2>2, StartRoom, StartThreadSlots
<1>34. ASSUME StartPush PROVE SlotState'
  <2>1. /\ cpc = "push" /\ cpc' = "spawn" /\ at < InitialWorkers /\ at \in Nat
        /\ PushWorker(at \div MinPerNode) /\ UNCHANGED <<wpc, mpc>>
    BY <1>34 DEF StartPush, Inv, LimitState, TypeOK
  <2>2. at \div MinPerNode \in Nodes
    BY <2>1, NodeOfSlot
  <2>3. Pushing /\ ~Pushing'
    BY <2>1 DEF Pushing, Inv, PhaseState
  <2> QED BY <2>1, <2>2, <2>3, PushSlots
<1>35. ASSUME StartMonitor PROVE SlotState'
  BY <1>35, SameSlots DEF StartMonitor, Pushing, Inv, PhaseState
<1>36. ASSUME StartFails PROVE SlotState'
  BY <1>36, SameSlots DEF StartFails, Pushing, Inv
<1>37. ASSUME NEW pol \in Policies, StopCall(pol) PROVE SlotState'
  BY <1>37, SameSlots DEF StopCall, Pushing, Inv
<1>38. ASSUME StopSignalMonitor PROVE SlotState'
  BY <1>38, SameSlots DEF StopSignalMonitor, NotifyMonitor, Pushing, Inv
<1>39. ASSUME StopJoinMonitor PROVE SlotState'
  BY <1>39, SameSlots DEF StopJoinMonitor, Pushing, Inv
<1>40. ASSUME StopHalt PROVE SlotState'
  BY <1>40, SameSlots DEF StopHalt, Pushing, Inv
<1>41. ASSUME StopWake PROVE SlotState'
  <2>1. \A i \in Slots : wpc'[i] = wpc[i] \/ (wpc[i] = "waiting" /\ wpc'[i] = "lock")
    BY <1>41, NotifyMoves DEF StopWake, Inv
  <2>2. cpc = "wake" /\ cpc' # "push" /\ UNCHANGED <<size, joinable, mpc>>
    BY <1>41 DEF StopWake
  <2> QED BY <2>1, <2>2, SameSlots DEF Pushing, Inv, Ended
<1>42. ASSUME StopPoll PROVE SlotState'
  BY <1>42, SameSlots DEF StopPoll, Pushing, Inv
<1>43. ASSUME StopLock PROVE SlotState'
  BY <1>43, SameSlots DEF StopLock, Pushing, Inv
<1>44. ASSUME StopMark PROVE SlotState'
  BY <1>44, SameSlots DEF StopMark, Pushing, Inv
<1>45. ASSUME StopJoin PROVE SlotState'
  <2>1. /\ cpc = "joining" /\ wpc[at] \in Ended /\ joinable' = joinable \ {at}
        /\ cpc' = "join" /\ UNCHANGED <<size, wpc, mpc>>
    BY <1>45 DEF StopJoin, JoinReturns
  <2>2. Pushing' <=> Pushing
    BY <2>1 DEF Pushing
  <2>3. ASSUME NEW i \in Slots, i <= size, i \notin joinable' PROVE wpc[i] \in Ended
    BY <2>1, <2>3 DEF Inv, SlotState
  <2> QED BY <2>1, <2>2, <2>3 DEF Inv, SlotState
<1>46. ASSUME StopClear PROVE SlotState'
  <2>1. /\ size' = 0 /\ joinable' = {} /\ wpc' = [i \in Slots |-> "none"]
        /\ mpc' = mpc /\ cpc' = "drop" /\ cpc = "join"
    BY <1>46 DEF StopClear
  <2>2. ~Pushing'
    BY <2>1 DEF Pushing, Inv, PhaseState
  <2>3. \A i \in Slots : ~(i <= 0)
    BY DEF Slots
  <2> QED BY <2>1, <2>2, <2>3 DEF SlotState
<1>47. ASSUME StopDrop PROVE SlotState'
  BY <1>47, SameSlots DEF StopDrop, Pushing, Inv
<1>48. CASE UNCHANGED vars
  BY <1>48, SameSlots DEF vars, Pushing, Inv
<1> QED BY <1>1, <1>2, <1>3, <1>4, <1>5, <1>6, <1>7, <1>8, <1>9, <1>10, <1>11, <1>12,
         <1>13, <1>14, <1>15, <1>16, <1>17, <1>18, <1>19, <1>20, <1>21, <1>22, <1>23,
         <1>24, <1>25, <1>26, <1>27, <1>28, <1>29, <1>30, <1>31, <1>32, <1>33, <1>34,
         <1>35, <1>36, <1>37, <1>38, <1>39, <1>40, <1>41, <1>42, <1>43, <1>44, <1>45,
         <1>46, <1>47, <1>48
  DEF Next, WorkerStep, MonitorStep, EnqueueStep, StartStep, StopStep

-----------------------------------------------------------------------------
(* PhaseState: a worker or a monitor that takes a step shows that the pool *)
(* is not quiescent, and the controller's own steps go through the phases. *)

LEMMA PushPhase ==
  ASSUME Inv, Pushing, NEW n \in Nodes, PushWorker(n)
  PROVE  /\ ~Quiescent /\ joinable \subseteq joinable'
         /\ cpc \notin {"join", "joining", "drop"}
<1>1. size + 1 \in Slots /\ wpc[size + 1] # "none"
  BY DEF Inv, SlotState
<1> QED BY <1>1, PushFields DEF Inv, Quiescent, PushWorker, GlobalMutexFree

(* When workers_.clear() returns, no worker is left that runs a task. *)
LEMMA ClearRunsNothing == ASSUME Inv, StopClear PROVE \A i \in Slots : wpc[i] # "run"
<1>1. ~Pushing /\ size \in Nat /\ \A i \in joinable : wpc[i] \in Ended
  BY DEF StopClear, DestructorsReturn, Pushing, Inv, PhaseState, TypeOK
<1>2. ASSUME NEW i \in Slots PROVE wpc[i] # "run"
  <2>1. CASE i <= size
    BY <1>1, <2>1 DEF Inv, SlotState, Ended
  <2>2. CASE i > size
    BY <1>1, <2>2 DEF Inv, SlotState
  <2> QED BY <1>1, <2>1, <2>2 DEF Slots
<1> QED BY <1>2

LEMMA PhaseStep == Inv /\ [Next]_vars => PhaseState'
<1> SUFFICES ASSUME Inv, [Next]_vars PROVE PhaseState'
  OBVIOUS
<1> USE Constants DEF PhaseState, Quiescent, poolVars, nodeVars, workerVars, flagVars,
        monVars, prodVars, ctlVars, taskVars, Elsewhere
<1>1. ASSUME NEW i \in Slots, WorkerEnter(i) PROVE PhaseState'
  BY <1>1 DEF WorkerEnter, Go, Inv
<1>2. ASSUME NEW i \in Slots, WorkerBind(i) PROVE PhaseState'
  BY <1>2 DEF WorkerBind, Go, Inv
<1>3. ASSUME NEW i \in Slots, WorkerBindFails(i) PROVE PhaseState'
  BY <1>3 DEF WorkerBindFails, Go, Inv
<1>4. ASSUME NEW i \in Slots, WorkerCount(i) PROVE PhaseState'
  BY <1>4 DEF WorkerCount, Go, Inv
<1>5. ASSUME NEW i \in Slots, WorkerTest(i) PROVE PhaseState'
  BY <1>5 DEF WorkerTest, Go, Inv
<1>6. ASSUME NEW i \in Slots, WorkerCheck(i) PROVE PhaseState'
  BY <1>6 DEF WorkerCheck, Go, Inv
<1>7. ASSUME NEW i \in Slots, WorkerPark(i) PROVE PhaseState'
  BY <1>7 DEF WorkerPark, Go, Inv
<1>8. ASSUME NEW i \in Slots, WorkerWake(i) PROVE PhaseState'
  BY <1>8 DEF WorkerWake, Go, Inv
<1>9. ASSUME NEW i \in Slots, WorkerPop(i) PROVE PhaseState'
  BY <1>9 DEF WorkerPop, Go, Inv
<1>10. ASSUME NEW i \in Slots, WorkerPopNothing(i) PROVE PhaseState'
  BY <1>10 DEF WorkerPopNothing, Go, Inv
<1>11. ASSUME NEW i \in Slots, WorkerFinish(i) PROVE PhaseState'
  BY <1>11 DEF WorkerFinish, EndTask, Go, Inv
<1>12. ASSUME NEW i \in Slots, WorkerThrow(i) PROVE PhaseState'
  BY <1>12 DEF WorkerThrow, EndTask, Go, Inv
<1>13. ASSUME NEW i \in Slots, WorkerRetire(i) PROVE PhaseState'
  BY <1>13 DEF WorkerRetire, Go, Inv
<1>14. ASSUME NEW i \in Slots, WorkerUncount(i) PROVE PhaseState'
  BY <1>14 DEF WorkerUncount, Go, Inv
<1>15. ASSUME NEW i \in Slots, WorkerSpuriousWakeup(i) PROVE PhaseState'
  BY <1>15 DEF WorkerSpuriousWakeup, Go, Inv
<1>16. ASSUME NEW i \in Slots, WorkerFault(i) PROVE PhaseState'
  BY <1>16 DEF WorkerFault, Inv
<1>17. ASSUME MonitorTop PROVE PhaseState'
  BY <1>17 DEF MonitorTop, Inv
<1>18. ASSUME MonitorNode PROVE PhaseState'
  BY <1>18 DEF MonitorNode, Inv
<1>19. ASSUME MonitorExpand PROVE PhaseState'
  BY <1>19 DEF MonitorExpand, NextNode, Inv
<1>20. ASSUME MonitorSpawn PROVE PhaseState'
  BY <1>20 DEF MonitorSpawn, Inv
<1>21. ASSUME MonitorSpawnFails PROVE PhaseState'
  BY <1>21 DEF MonitorSpawnFails, Inv
<1>22. ASSUME MonitorPush PROVE PhaseState'
  <2>1. Pushing /\ mnode \in Nodes /\ PushWorker(mnode) /\ mpc = "push"
    BY <1>22 DEF MonitorPush, Pushing, Inv, TypeOK
  <2>2. joinable \subseteq joinable' /\ cpc \notin {"join", "joining", "drop"}
    BY <2>1, PushPhase
  <2> QED BY <1>22, <2>1, <2>2 DEF MonitorPush, Inv
<1>23. ASSUME MonitorShrink PROVE PhaseState'
  BY <1>23 DEF MonitorShrink, NextNode, Inv
<1>24. ASSUME MonitorCheck PROVE PhaseState'
  BY <1>24 DEF MonitorCheck, Inv
<1>25. ASSUME MonitorPark PROVE PhaseState'
  BY <1>25 DEF MonitorPark, Inv
<1>26. ASSUME MonitorTimeout PROVE PhaseState'
  BY <1>26 DEF MonitorTimeout, Inv
<1>27. ASSUME NEW p \in Producers, NEW t \in Tasks, NEW n \in Nodes,
             Enqueue(p, t, n)
      PROVE  PhaseState'
  BY <1>27 DEF Enqueue, Inv
<1>28. ASSUME NEW p \in Producers, NEW t \in Tasks, NEW n \in Nodes,
             EnqueueToNumaNode(p, t, n)
      PROVE  PhaseState'
  BY <1>28 DEF EnqueueToNumaNode, Inv
<1>29. ASSUME NEW p \in Producers, EnqueueRoute(p) PROVE PhaseState'
  BY <1>29 DEF EnqueueRoute, Inv
<1>30. ASSUME NEW p \in Producers, EnqueuePush(p) PROVE PhaseState'
  BY <1>30 DEF EnqueuePush, Inv
<1>31. ASSUME NEW p \in Producers, EnqueueNotify(p) PROVE PhaseState'
  <2>1. \A i \in Slots : wpc[i] = "none" => wpc'[i] = "none"
    BY <1>31, NotifyMoves DEF EnqueueNotify, Inv
  <2> QED BY <1>31, <2>1 DEF EnqueueNotify, Inv
<1>32. ASSUME StartCall PROVE PhaseState'
  BY <1>32 DEF StartCall, Inv
<1>33. ASSUME StartWorker PROVE PhaseState'
  BY <1>33 DEF StartWorker, Inv
<1>34. ASSUME StartPush PROVE PhaseState'
  <2>1. /\ cpc = "push" /\ cpc' = "spawn" /\ UNCHANGED <<running, monitoring, mpc>>
    BY <1>34 DEF StartPush
  <2> QED BY <2>1 DEF Inv
<1>35. ASSUME StartMonitor PROVE PhaseState'
  BY <1>35 DEF StartMonitor, Inv
<1>36. ASSUME StartFails PROVE PhaseState'
  BY <1>36 DEF StartFails, Inv
<1>37. ASSUME NEW pol \in Policies, StopCall(pol) PROVE PhaseState'
  BY <1>37 DEF StopCall, Inv
<1>38. ASSUME StopSignalMonitor PROVE PhaseState'
  BY <1>38 DEF StopSignalMonitor, NotifyMonitor, Inv
<1>39. ASSUME StopJoinMonitor PROVE PhaseState'
  BY <1>39 DEF StopJoinMonitor, Inv
<1>40. ASSUME StopHalt PROVE PhaseState'
  BY <1>40 DEF StopHalt, Inv
<1>41. ASSUME StopWake PROVE PhaseState'
  BY <1>41 DEF StopWake, Inv, Nodes, LastNode, TypeOK
<1>42. ASSUME StopPoll PROVE PhaseState'
  <2>1. cpc = "poll" /\ at \in Nodes /\ cpc' \in {"poll", "lock"}
    BY <1>42 DEF StopPoll, Inv
  <2>2. cpc' = "poll" => at' \in Nodes
    BY <1>42, <2>1 DEF StopPoll, Nodes, LastNode
  <2> QED BY <1>42, <2>1, <2>2 DEF StopPoll, Inv
<1>43. ASSUME StopLock PROVE PhaseState'
  BY <1>43 DEF StopLock, Inv
<1>44. ASSUME StopMark PROVE PhaseState'
  <2>1. cpc = "join" /\ at >= 1 /\ at \in Nat
    BY <1>44 DEF StopMark, Inv, TypeOK
  <2> QED BY <1>44, <2>1 DEF StopMark, Inv
<1>45. ASSUME StopJoin PROVE PhaseState'
  <2>1. /\ cpc = "joining" /\ cpc' = "join" /\ at' = at + 1 /\ at \in Nat
        /\ UNCHANGED <<running, monitoring, mpc>>
    BY <1>45 DEF StopJoin, Inv, TypeOK
  <2> QED BY <2>1 DEF Inv
<1>46. ASSUME StopClear PROVE PhaseState'
  <2>1. cpc = "join" /\ ~running /\ ~monitoring /\ mpc = "none" /\ cpc' = "drop"
    BY <1>46 DEF StopClear, Inv
  <2>2. \A i \in Slots : wpc[i] # "run"
    BY <1>46, ClearRunsNothing
  <2>3. \A i \in Slots : held[i] = NoTask
    BY <2>2 DEF Inv, TaskState, RunState
  <2> QED BY <1>46, <2>1, <2>3 DEF StopClear
<1>47. ASSUME StopDrop PROVE PhaseState'
  <2>1. cpc = "drop" /\ Quiescent /\ ~running /\ at \in Nodes
    BY <1>47 DEF StopDrop, Inv
  <2>2. UNCHANGED <<running, monitoring, size, validThreadCount, valid, exiting, idle,
                    joinable, wpc, held, mpc>>
    BY <1>47 DEF StopDrop
  <2>3. cpc' \in {"idle", "drop"} /\ (cpc' = "drop" => at' \in Nodes)
    BY <1>47, <2>1 DEF StopDrop, Nodes, LastNode
  <2>4. Quiescent' /\ ~running'
    BY <2>1, <2>2
  <2> QED BY <2>3, <2>4
<1>48. CASE UNCHANGED vars
  BY <1>48 DEF vars, Inv
<1> QED BY <1>1, <1>2, <1>3, <1>4, <1>5, <1>6, <1>7, <1>8, <1>9, <1>10, <1>11, <1>12,
         <1>13, <1>14, <1>15, <1>16, <1>17, <1>18, <1>19, <1>20, <1>21, <1>22, <1>23,
         <1>24, <1>25, <1>26, <1>27, <1>28, <1>29, <1>30, <1>31, <1>32, <1>33, <1>34,
         <1>35, <1>36, <1>37, <1>38, <1>39, <1>40, <1>41, <1>42, <1>43, <1>44, <1>45,
         <1>46, <1>47, <1>48
  DEF Next, WorkerStep, MonitorStep, EnqueueStep, StartStep, StopStep

-----------------------------------------------------------------------------
(* LimitState and NodeWithinLimit: only a push changes the workers of a    *)
(* node before Stop clears them.                                           *)

LEMMA PushWorkers ==
  ASSUME TypeOK, SlotState, Pushing, NEW n \in Nodes, PushWorker(n)
  PROVE  /\ WorkersOf(n)' = WorkersOf(n) \cup {size + 1}
         /\ Cardinality(WorkersOf(n)') = Cardinality(WorkersOf(n)) + 1
         /\ \A k \in Nodes : k # n => WorkersOf(k)' = WorkersOf(k)
<1>1. /\ size \in Nat /\ size + 1 \in Slots /\ size' = size + 1 /\ node'[size + 1] = n
      /\ \A i \in Slots : i # size + 1 => node'[i] = node[i]
  BY PushFields DEF TypeOK
<1>2. 1 .. size + 1 \subseteq Slots /\ \A i \in 1 .. size : i # size + 1
  BY <1>1, Constants DEF Slots
<1>3. 1 .. size' = (1 .. size) \cup {size + 1}
  BY <1>1
<1>4. WorkersOf(n)' = WorkersOf(n) \cup {size + 1} /\ size + 1 \notin WorkersOf(n)
  BY <1>1, <1>2, <1>3 DEF WorkersOf
<1>5. \A k \in Nodes : k # n => WorkersOf(k)' = WorkersOf(k)
  BY <1>1, <1>2, <1>3 DEF WorkersOf
<1>6. Cardinality(WorkersOf(n)') = Cardinality(WorkersOf(n)) + 1
  BY <1>4, WorkersFinite, FS_AddElement
<1> QED BY <1>4, <1>5, <1>6

LEMMA SameWorkers ==
  ASSUME NodeWithinLimit, UNCHANGED <<size, node, threadCount>>
  PROVE  NodeWithinLimit'
<1>1. \A n \in Nodes : WorkersOf(n)' = WorkersOf(n)
  BY DEF WorkersOf
<1> QED BY <1>1 DEF NodeWithinLimit

(* A push keeps the limits if the limit of its own node allows for it. *)
LEMMA PushWithinLimit ==
  ASSUME Inv, Pushing, NEW n \in Nodes, PushWorker(n),
         Cardinality(WorkersOf(n)') <= MaxPerNode
  PROVE  NodeWithinLimit'
<1>0. TypeOK /\ SlotState
  BY DEF Inv
<1>1. ASSUME NEW k \in Nodes
      PROVE  /\ Cardinality(WorkersOf(k)') <= threadCount'[k]
             /\ Cardinality(WorkersOf(k)') <= MaxPerNode
  <2>1. CASE k = n
    <3>1. Cardinality(WorkersOf(n)) <= threadCount[n]
      BY DEF Inv, NodeWithinLimit
    <3>2. Cardinality(WorkersOf(n)) \in Nat /\ threadCount[n] \in Nat
      BY <1>0, WorkersFinite DEF TypeOK
    <3>3. /\ Cardinality(WorkersOf(n)') = Cardinality(WorkersOf(n)) + 1
          /\ threadCount'[n] = threadCount[n] + 1
      BY <1>0, PushWorkers, PushFields
    <3> QED BY <2>1, <3>1, <3>2, <3>3
  <2>2. CASE k # n
    <3>1. WorkersOf(k)' = WorkersOf(k) /\ threadCount'[k] = threadCount[k]
      BY <1>0, <2>2, PushWorkers, PushFields
    <3> QED BY <3>1 DEF Inv, NodeWithinLimit
  <2> QED BY <2>1, <2>2
<1> QED BY <1>1 DEF NodeWithinLimit

(* Start gives a node at most MinPerNode workers. *)
LEMMA LayoutBound ==
  ASSUME NEW sz \in Nat, sz <= InitialWorkers, NEW nd,
         \A i \in 1 .. sz : nd[i] = (i - 1) \div MinPerNode, NEW n \in Nodes
  PROVE  Cardinality({i \in 1 .. sz : nd[i] = n}) <= MaxPerNode
<1> DEFINE W == {i \in 1 .. sz : nd[i] = n}
<1>1. PICK m \in Nat, a \in Nat : m = MinPerNode /\ a = m * n
  BY Constants DEF Nodes
<1>2. ASSUME NEW i \in W PROVE i \in a + 1 .. a + m
  <2>1. i \in 1 .. sz /\ nd[i] = n /\ InitialWorkers \in Nat
    BY Constants
  <2>2. i - 1 \in Nat /\ i - 1 < InitialWorkers /\ (i - 1) \div MinPerNode = n
    BY <2>1
  <2>3. (i - 1) + 1 \in MinPerNode * n + 1 .. MinPerNode * n + MinPerNode
    BY <2>2, NodeOfSlot
  <2>4. (i - 1) + 1 \in a + 1 .. a + m
    BY <1>1, <2>3
  <2>5. (i - 1) + 1 = i
    BY <2>1
  <2> QED BY <2>4, <2>5
<1>3. IsFiniteSet(a + 1 .. a + m) /\ Cardinality(a + 1 .. a + m) = m
  <2>1. PICK lo \in Int, hi \in Int : lo = a + 1 /\ hi = a + m
    BY <1>1
  <2>2. IsFiniteSet(lo .. hi) /\ Cardinality(lo .. hi) = IF lo > hi THEN 0 ELSE hi - lo + 1
    BY <2>1, FS_Interval, Zenon
  <2>3. (IF lo > hi THEN 0 ELSE hi - lo + 1) = m
    BY <1>1, <2>1
  <2> QED BY <2>1, <2>2, <2>3
<1>4. W \in SUBSET (a + 1 .. a + m)
  BY <1>2
<1>5. Cardinality(W) <= m /\ Cardinality(W) \in Nat
  BY <1>3, <1>4, FS_Subset, FS_CardinalityType
<1> QED BY <1>1, <1>5, Constants

LEMMA StartPushLayout ==
  ASSUME Inv, StartPush
  PROVE  /\ at \in Nat /\ at < InitialWorkers /\ size' = at + 1 /\ at' = at + 1
         /\ \A i \in 1 .. size' : node'[i] = (i - 1) \div MinPerNode
         /\ Pushing /\ at \div MinPerNode \in Nodes /\ PushWorker(at \div MinPerNode)
<1>1. /\ at \in Nat /\ at < InitialWorkers /\ size = at /\ Pushing /\ at' = at + 1
      /\ PushWorker(at \div MinPerNode)
      /\ \A i \in 1 .. size : node[i] = (i - 1) \div MinPerNode
  BY DEF StartPush, Inv, LimitState, TypeOK, Pushing
<1>2. PICK n \in Nodes : n = at \div MinPerNode
  BY <1>1, NodeOfSlot
<1>3. /\ size' = size + 1 /\ node'[size + 1] = n /\ size + 1 \in Slots
      /\ \A i \in Slots : i # size + 1 => node'[i] = node[i]
  BY <1>1, <1>2, PushFields DEF Inv
<1>4. 1 .. size + 1 \subseteq Slots
  BY <1>1, <1>3, Constants DEF Slots
<1>5. ASSUME NEW i \in 1 .. size' PROVE node'[i] = (i - 1) \div MinPerNode
  <2>1. CASE i = size + 1
    <3>1. i - 1 = at
      BY <1>1, <2>1
    <3> QED BY <1>2, <1>3, <2>1, <3>1
  <2>2. CASE i # size + 1
    <3>1. i \in 1 .. size /\ i \in Slots
      BY <1>1, <1>3, <1>4, <2>2
    <3> QED BY <1>1, <1>3, <2>2, <3>1
  <2> QED BY <2>1, <2>2
<1> QED BY <1>1, <1>2, <1>3, <1>5

LEMMA WithinLimitStep == Inv /\ [Next]_vars => NodeWithinLimit'
<1> SUFFICES ASSUME Inv, [Next]_vars PROVE NodeWithinLimit'
  OBVIOUS
<1> USE DEF poolVars, nodeVars, workerVars, flagVars,
        monVars, prodVars, ctlVars, taskVars, Elsewhere
<1>1. ASSUME NEW i \in Slots, WorkerEnter(i) PROVE NodeWithinLimit'
  BY <1>1, SameWorkers DEF WorkerEnter, Inv
<1>2. ASSUME NEW i \in Slots, WorkerBind(i) PROVE NodeWithinLimit'
  BY <1>2, SameWorkers DEF WorkerBind, Inv
<1>3. ASSUME NEW i \in Slots, WorkerBindFails(i) PROVE NodeWithinLimit'
  BY <1>3, SameWorkers DEF WorkerBindFails, Inv
<1>4. ASSUME NEW i \in Slots, WorkerCount(i) PROVE NodeWithinLimit'
  BY <1>4, SameWorkers DEF WorkerCount, Inv
<1>5. ASSUME NEW i \in Slots, WorkerTest(i) PROVE NodeWithinLimit'
  BY <1>5, SameWorkers DEF WorkerTest, Inv
<1>6. ASSUME NEW i \in Slots, WorkerCheck(i) PROVE NodeWithinLimit'
  BY <1>6, SameWorkers DEF WorkerCheck, Inv
<1>7. ASSUME NEW i \in Slots, WorkerPark(i) PROVE NodeWithinLimit'
  BY <1>7, SameWorkers DEF WorkerPark, Inv
<1>8. ASSUME NEW i \in Slots, WorkerWake(i) PROVE NodeWithinLimit'
  BY <1>8, SameWorkers DEF WorkerWake, Inv
<1>9. ASSUME NEW i \in Slots, WorkerPop(i) PROVE NodeWithinLimit'
  BY <1>9, SameWorkers DEF WorkerPop, Inv
<1>10. ASSUME NEW i \in Slots, WorkerPopNothing(i) PROVE NodeWithinLimit'
  BY <1>10, SameWorkers DEF WorkerPopNothing, Inv
<1>11. ASSUME NEW i \in Slots, WorkerFinish(i) PROVE NodeWithinLimit'
  BY <1>11, SameWorkers DEF WorkerFinish, EndTask, Inv
<1>12. ASSUME NEW i \in Slots, WorkerThrow(i) PROVE NodeWithinLimit'
  BY <1>12, SameWorkers DEF WorkerThrow, EndTask, Inv
<1>13. ASSUME NEW i \in Slots, WorkerRetire(i) PROVE NodeWithinLimit'
  BY <1>13, SameWorkers DEF WorkerRetire, Inv
<1>14. ASSUME NEW i \in Slots, WorkerUncount(i) PROVE NodeWithinLimit'
  BY <1>14, SameWorkers DEF WorkerUncount, Inv
<1>15. ASSUME NEW i \in Slots, WorkerSpuriousWakeup(i) PROVE NodeWithinLimit'
  BY <1>15, SameWorkers DEF WorkerSpuriousWakeup, Inv
<1>16. ASSUME NEW i \in Slots, WorkerFault(i) PROVE NodeWithinLimit'
  BY <1>16, SameWorkers DEF WorkerFault, Inv
<1>17. ASSUME MonitorTop PROVE NodeWithinLimit'
  BY <1>17, SameWorkers DEF MonitorTop, Inv
<1>18. ASSUME MonitorNode PROVE NodeWithinLimit'
  BY <1>18, SameWorkers DEF MonitorNode, Inv
<1>19. ASSUME MonitorExpand PROVE NodeWithinLimit'
  BY <1>19, SameWorkers DEF MonitorExpand, Inv
<1>20. ASSUME MonitorSpawn PROVE NodeWithinLimit'
  BY <1>20, SameWorkers DEF MonitorSpawn, Inv
<1>21. ASSUME MonitorSpawnFails PROVE NodeWithinLimit'
  BY <1>21, SameWorkers DEF MonitorSpawnFails, Inv
<1>22. ASSUME MonitorPush PROVE NodeWithinLimit'
  <2>1. PICK n \in Nodes : n = mnode /\ PushWorker(n)
    BY <1>22 DEF MonitorPush, Inv, TypeOK
  <2>2. /\ mpc = "push" /\ Pushing
        /\ need \in Nat /\ need >= 1 /\ threadCount[n] + need <= MaxPerNode
    BY <1>22, <2>1 DEF MonitorPush, Pushing, Inv, LimitState, TypeOK
  <2>3. /\ Cardinality(WorkersOf(n)) <= threadCount[n] /\ threadCount[n] \in Nat
        /\ Cardinality(WorkersOf(n)) \in Nat
    BY <2>1, WorkersFinite DEF Inv, NodeWithinLimit, TypeOK
  <2>4. Cardinality(WorkersOf(n)') = Cardinality(WorkersOf(n)) + 1
    BY <2>1, <2>2, PushWorkers DEF Inv
  <2>5. Cardinality(WorkersOf(n)') <= MaxPerNode
    BY <2>2, <2>3, <2>4, Constants
  <2> QED BY <2>1, <2>2, <2>5, PushWithinLimit
<1>23. ASSUME MonitorShrink PROVE NodeWithinLimit'
  BY <1>23, SameWorkers DEF MonitorShrink, Inv
<1>24. ASSUME MonitorCheck PROVE NodeWithinLimit'
  BY <1>24, SameWorkers DEF MonitorCheck, Inv
<1>25. ASSUME MonitorPark PROVE NodeWithinLimit'
  BY <1>25, SameWorkers DEF MonitorPark, Inv
<1>26. ASSUME MonitorTimeout PROVE NodeWithinLimit'
  BY <1>26, SameWorkers DEF MonitorTimeout, Inv
<1>27. ASSUME NEW p \in Producers, NEW t \in Tasks, NEW n \in Nodes,
             Enqueue(p, t, n)
      PROVE  NodeWithinLimit'
  BY <1>27, SameWorkers DEF Enqueue, Inv
<1>28. ASSUME NEW p \in Producers, NEW t \in Tasks, NEW n \in Nodes,
             EnqueueToNumaNode(p, t, n)
      PROVE  NodeWithinLimit'
  BY <1>28, SameWorkers DEF EnqueueToNumaNode, Inv
<1>29. ASSUME NEW p \in Producers, EnqueueRoute(p) PROVE NodeWithinLimit'
  BY <1>29, SameWorkers DEF EnqueueRoute, Inv
<1>30. ASSUME NEW p \in Producers, EnqueuePush(p) PROVE NodeWithinLimit'
  BY <1>30, SameWorkers DEF EnqueuePush, Inv
<1>31. ASSUME NEW p \in Producers, EnqueueNotify(p) PROVE NodeWithinLimit'
  BY <1>31, SameWorkers DEF EnqueueNotify, Inv
<1>32. ASSUME StartCall PROVE NodeWithinLimit'
  BY <1>32, SameWorkers DEF StartCall, Inv
<1>33. ASSUME StartWorker PROVE NodeWithinLimit'
  BY <1>33, SameWorkers DEF StartWorker, Inv
<1>34. ASSUME StartPush PROVE NodeWithinLimit'
  <2>1. PICK n \in Nodes : n = at \div MinPerNode /\ PushWorker(n) /\ Pushing
    BY <1>34, StartPushLayout
  <2>2. size' \in Nat /\ size' <= InitialWorkers
    BY <1>34, StartPushLayout, Constants
  <2>3. \A i \in 1 .. size' : node'[i] = (i - 1) \div MinPerNode
    BY <1>34, StartPushLayout
  <2>4. Cardinality({i \in 1 .. size' : node'[i] = n}) <= MaxPerNode
    BY <2>2, <2>3, LayoutBound
  <2>5. Cardinality(WorkersOf(n)') <= MaxPerNode
    BY <2>4 DEF WorkersOf
  <2> QED BY <2>1, <2>5, PushWithinLimit
<1>35. ASSUME StartMonitor PROVE NodeWithinLimit'
  BY <1>35, SameWorkers DEF StartMonitor, Inv
<1>36. ASSUME StartFails PROVE NodeWithinLimit'
  BY <1>36, SameWorkers DEF StartFails, Inv
<1>37. ASSUME NEW pol \in Policies, StopCall(pol) PROVE NodeWithinLimit'
  BY <1>37, SameWorkers DEF StopCall, Inv
<1>38. ASSUME StopSignalMonitor PROVE NodeWithinLimit'
  BY <1>38, SameWorkers DEF StopSignalMonitor, Inv
<1>39. ASSUME StopJoinMonitor PROVE NodeWithinLimit'
  BY <1>39, SameWorkers DEF StopJoinMonitor, Inv
<1>40. ASSUME StopHalt PROVE NodeWithinLimit'
  BY <1>40, SameWorkers DEF StopHalt, Inv
<1>41. ASSUME StopWake PROVE NodeWithinLimit'
  BY <1>41, SameWorkers DEF StopWake, Inv
<1>42. ASSUME StopPoll PROVE NodeWithinLimit'
  BY <1>42, SameWorkers DEF StopPoll, Inv
<1>43. ASSUME StopLock PROVE NodeWithinLimit'
  BY <1>43, SameWorkers DEF StopLock, Inv
<1>44. ASSUME StopMark PROVE NodeWithinLimit'
  BY <1>44, SameWorkers DEF StopMark, Inv
<1>45. ASSUME StopJoin PROVE NodeWithinLimit'
  BY <1>45, SameWorkers DEF StopJoin, Inv
<1>46. ASSUME StopClear PROVE NodeWithinLimit'
  <2>1. \A n \in Nodes : WorkersOf(n)' = {}
    BY <1>46 DEF StopClear, WorkersOf
  <2>2. \A n \in Nodes : threadCount'[n] \in Nat
    BY <1>46 DEF StopClear, Inv, TypeOK
  <2> QED BY <2>1, <2>2, FS_EmptySet, Constants DEF NodeWithinLimit
<1>47. ASSUME StopDrop PROVE NodeWithinLimit'
  BY <1>47, SameWorkers DEF StopDrop, Inv
<1>48. CASE UNCHANGED vars
  BY <1>48, SameWorkers DEF vars, Inv
<1> QED BY <1>1, <1>2, <1>3, <1>4, <1>5, <1>6, <1>7, <1>8, <1>9, <1>10, <1>11, <1>12,
         <1>13, <1>14, <1>15, <1>16, <1>17, <1>18, <1>19, <1>20, <1>21, <1>22, <1>23,
         <1>24, <1>25, <1>26, <1>27, <1>28, <1>29, <1>30, <1>31, <1>32, <1>33, <1>34,
         <1>35, <1>36, <1>37, <1>38, <1>39, <1>40, <1>41, <1>42, <1>43, <1>44, <1>45,
         <1>46, <1>47, <1>48
  DEF Next, WorkerStep, MonitorStep, EnqueueStep, StartStep, StopStep

LEMMA LimitStep == Inv /\ [Next]_vars => LimitState'
<1> SUFFICES ASSUME Inv, [Next]_vars PROVE LimitState'
  OBVIOUS
<1> USE Constants DEF LimitState, poolVars, nodeVars, workerVars, flagVars,
        monVars, prodVars, ctlVars, taskVars, Elsewhere
<1>1. ASSUME NEW i \in Slots, WorkerEnter(i) PROVE LimitState'
  BY <1>1 DEF WorkerEnter, Inv
<1>2. ASSUME NEW i \in Slots, WorkerBind(i) PROVE LimitState'
  BY <1>2 DEF WorkerBind, Inv
<1>3. ASSUME NEW i \in Slots, WorkerBindFails(i) PROVE LimitState'
  BY <1>3 DEF WorkerBindFails, Inv
<1>4. ASSUME NEW i \in Slots, WorkerCount(i) PROVE LimitState'
  BY <1>4 DEF WorkerCount, Inv
<1>5. ASSUME NEW i \in Slots, WorkerTest(i) PROVE LimitState'
  BY <1>5 DEF WorkerTest, Inv
<1>6. ASSUME NEW i \in Slots, WorkerCheck(i) PROVE LimitState'
  BY <1>6 DEF WorkerCheck, Inv
<1>7. ASSUME NEW i \in Slots, WorkerPark(i) PROVE LimitState'
  BY <1>7 DEF WorkerPark, Inv
<1>8. ASSUME NEW i \in Slots, WorkerWake(i) PROVE LimitState'
  BY <1>8 DEF WorkerWake, Inv
<1>9. ASSUME NEW i \in Slots, WorkerPop(i) PROVE LimitState'
  BY <1>9 DEF WorkerPop, Inv
<1>10. ASSUME NEW i \in Slots, WorkerPopNothing(i) PROVE LimitState'
  BY <1>10 DEF WorkerPopNothing, Inv
<1>11. ASSUME NEW i \in Slots, WorkerFinish(i) PROVE LimitState'
  BY <1>11 DEF WorkerFinish, EndTask, Inv
<1>12. ASSUME NEW i \in Slots, WorkerThrow(i) PROVE LimitState'
  BY <1>12 DEF WorkerThrow, EndTask, Inv
<1>13. ASSUME NEW i \in Slots, WorkerRetire(i) PROVE LimitState'
  BY <1>13 DEF WorkerRetire, Inv
<1>14. ASSUME NEW i \in Slots, WorkerUncount(i) PROVE LimitState'
  BY <1>14 DEF WorkerUncount, Inv
<1>15. ASSUME NEW i \in Slots, WorkerSpuriousWakeup(i) PROVE LimitState'
  BY <1>15 DEF WorkerSpuriousWakeup, Inv
<1>16. ASSUME NEW i \in Slots, WorkerFault(i) PROVE LimitState'
  BY <1>16 DEF WorkerFault, Inv
<1>17. ASSUME MonitorTop PROVE LimitState'
  BY <1>17 DEF MonitorTop, Inv
<1>18. ASSUME MonitorNode PROVE LimitState'
  BY <1>18 DEF MonitorNode, Inv
<1>19. ASSUME MonitorExpand PROVE LimitState'
  <2>1. /\ mpc = "expand" /\ cpc \notin {"spawn", "push"}
        /\ mnode \in Nodes /\ threadCount[mnode] \in Nat
        /\ UNCHANGED <<cpc, at, size, node, threadCount>>
    BY <1>19 DEF MonitorExpand, Inv, PhaseState, TypeOK
  <2>2. CASE Target(mnode) <= threadCount[mnode]
    BY <1>19, <2>1, <2>2 DEF MonitorExpand, NextNode
  <2>3. CASE ~(Target(mnode) <= threadCount[mnode])
    <3>1. mpc' = "spawn" /\ mnode' = mnode /\ need' = Target(mnode) - threadCount[mnode]
      BY <1>19, <2>3 DEF MonitorExpand, Deficit
    <3>2. Target(mnode) \in Int /\ Target(mnode) <= MaxPerNode
      BY <2>1 DEF Target, Smaller, ExpandFactor
    <3> QED BY <2>1, <2>3, <3>1, <3>2
  <2> QED BY <2>2, <2>3
<1>20. ASSUME MonitorSpawn PROVE LimitState'
  <2>1. /\ mpc = "spawn" /\ mpc' = "push"
        /\ UNCHANGED <<cpc, at, size, node, threadCount, mnode, need>>
    BY <1>20 DEF MonitorSpawn
  <2> QED BY <2>1 DEF Inv
<1>21. ASSUME MonitorSpawnFails PROVE LimitState'
  BY <1>21 DEF MonitorSpawnFails, Inv
<1>22. ASSUME MonitorPush PROVE LimitState'
  <2>1. /\ mpc = "push" /\ cpc \notin {"spawn", "push"} /\ UNCHANGED cpc
        /\ mnode \in Nodes /\ PushWorker(mnode) /\ Pushing
        /\ need \in Nat /\ threadCount[mnode] \in Nat /\ need' = need - 1
    BY <1>22 DEF MonitorPush, Inv, PhaseState, TypeOK, Pushing
  <2>2. need >= 1 /\ threadCount[mnode] + need <= MaxPerNode
    BY <2>1 DEF Inv
  <2>3. threadCount'[mnode] = threadCount[mnode] + 1
    BY <2>1, PushFields DEF Inv
  <2>4. mpc' \in {"spawn", "push"} => need # 1 /\ mnode' = mnode
    BY <1>22 DEF MonitorPush, NextNode
  <2> QED BY <2>1, <2>2, <2>3, <2>4
<1>23. ASSUME MonitorShrink PROVE LimitState'
  BY <1>23 DEF MonitorShrink, NextNode, Inv
<1>24. ASSUME MonitorCheck PROVE LimitState'
  BY <1>24 DEF MonitorCheck, Inv
<1>25. ASSUME MonitorPark PROVE LimitState'
  BY <1>25 DEF MonitorPark, Inv
<1>26. ASSUME MonitorTimeout PROVE LimitState'
  BY <1>26 DEF MonitorTimeout, Inv
<1>27. ASSUME NEW p \in Producers, NEW t \in Tasks, NEW n \in Nodes,
             Enqueue(p, t, n)
      PROVE  LimitState'
  BY <1>27 DEF Enqueue, Inv
<1>28. ASSUME NEW p \in Producers, NEW t \in Tasks, NEW n \in Nodes,
             EnqueueToNumaNode(p, t, n)
      PROVE  LimitState'
  BY <1>28 DEF EnqueueToNumaNode, Inv
<1>29. ASSUME NEW p \in Producers, EnqueueRoute(p) PROVE LimitState'
  BY <1>29 DEF EnqueueRoute, Inv
<1>30. ASSUME NEW p \in Producers, EnqueuePush(p) PROVE LimitState'
  BY <1>30 DEF EnqueuePush, Inv
<1>31. ASSUME NEW p \in Producers, EnqueueNotify(p) PROVE LimitState'
  BY <1>31 DEF EnqueueNotify, Inv
<1>32. ASSUME StartCall PROVE LimitState'
  BY <1>32 DEF StartCall, Inv, PhaseState, Quiescent
<1>33. ASSUME StartWorker PROVE LimitState'
  BY <1>33 DEF StartWorker, Inv
<1>34. ASSUME StartPush PROVE LimitState'
  <2>1. cpc' = "spawn" /\ mpc = "none" /\ mpc' = mpc
    BY <1>34 DEF StartPush, Inv, PhaseState
  <2>2. /\ size' = at' /\ at' <= InitialWorkers
        /\ \A i \in 1 .. size' : node'[i] = (i - 1) \div MinPerNode
    BY <1>34, StartPushLayout
  <2> QED BY <2>1, <2>2
<1>35. ASSUME StartMonitor PROVE LimitState'
  BY <1>35 DEF StartMonitor, Inv
<1>36. ASSUME StartFails PROVE LimitState'
  BY <1>36 DEF StartFails, Inv
<1>37. ASSUME NEW pol \in Policies, StopCall(pol) PROVE LimitState'
  BY <1>37 DEF StopCall, Inv
<1>38. ASSUME StopSignalMonitor PROVE LimitState'
  BY <1>38 DEF StopSignalMonitor, NotifyMonitor, Inv
<1>39. ASSUME StopJoinMonitor PROVE LimitState'
  BY <1>39 DEF StopJoinMonitor, Inv
<1>40. ASSUME StopHalt PROVE LimitState'
  BY <1>40 DEF StopHalt, Inv
<1>41. ASSUME StopWake PROVE LimitState'
  BY <1>41 DEF StopWake, Inv
<1>42. ASSUME StopPoll PROVE LimitState'
  BY <1>42 DEF StopPoll, Inv
<1>43. ASSUME StopLock PROVE LimitState'
  BY <1>43 DEF StopLock, Inv
<1>44. ASSUME StopMark PROVE LimitState'
  BY <1>44 DEF StopMark, Inv
<1>45. ASSUME StopJoin PROVE LimitState'
  BY <1>45 DEF StopJoin, Inv
<1>46. ASSUME StopClear PROVE LimitState'
  BY <1>46 DEF StopClear, Inv, PhaseState
<1>47. ASSUME StopDrop PROVE LimitState'
  BY <1>47 DEF StopDrop, Inv
<1>48. CASE UNCHANGED vars
  BY <1>48 DEF vars, Inv
<1> QED BY <1>1, <1>2, <1>3, <1>4, <1>5, <1>6, <1>7, <1>8, <1>9, <1>10, <1>11, <1>12,
         <1>13, <1>14, <1>15, <1>16, <1>17, <1>18, <1>19, <1>20, <1>21, <1>22, <1>23,
         <1>24, <1>25, <1>26, <1>27, <1>28, <1>29, <1>30, <1>31, <1>32, <1>33, <1>34,
         <1>35, <1>36, <1>37, <1>38, <1>39, <1>40, <1>41, <1>42, <1>43, <1>44, <1>45,
         <1>46, <1>47, <1>48
  DEF Next, WorkerStep, MonitorStep, EnqueueStep, StartStep, StopStep

-----------------------------------------------------------------------------
(* CountExact: only fetch_add, fetch_sub and the reset in Stop change the  *)
(* counter, and only the workers at those steps change sides.              *)

CountedSlots == {i \in Slots : wpc[i] \in Counted}

LEMMA SameCount ==
  ASSUME CountExact, validThreadCount' = validThreadCount,
         \A i \in Slots : wpc'[i] \in Counted <=> wpc[i] \in Counted
  PROVE  CountExact'
<1>1. CountedSlots' = CountedSlots
  BY DEF CountedSlots
<1> QED BY <1>1 DEF CountExact, CountedSlots

LEMMA CountStep == Inv /\ [Next]_vars => CountExact'
<1> SUFFICES ASSUME Inv, [Next]_vars PROVE CountExact'
  OBVIOUS
<1> USE DEF Inv, TypeOK, poolVars, nodeVars, workerVars, flagVars,
        monVars, prodVars, ctlVars, taskVars, Elsewhere
<1>1. ASSUME NEW i \in Slots, WorkerEnter(i) PROVE CountExact'
  BY <1>1, SameCount DEF WorkerEnter, Go, Counted
<1>2. ASSUME NEW i \in Slots, WorkerBind(i) PROVE CountExact'
  BY <1>2, SameCount DEF WorkerBind, Go, Counted
<1>3. ASSUME NEW i \in Slots, WorkerBindFails(i) PROVE CountExact'
  BY <1>3, SameCount DEF WorkerBindFails, Go, Counted
<1>4. ASSUME NEW i \in Slots, WorkerCount(i) PROVE CountExact'
  <2>1. CountedSlots' = CountedSlots \cup {i} /\ i \notin CountedSlots
    BY <1>4 DEF WorkerCount, Go, CountedSlots, Counted
  <2>2. IsFiniteSet(CountedSlots)
    BY SlotsFinite, FS_Subset DEF CountedSlots
  <2>3. Cardinality(CountedSlots') = Cardinality(CountedSlots) + 1
    BY <2>1, <2>2, FS_AddElement
  <2> QED BY <1>4, <2>3 DEF WorkerCount, CountExact, CountedSlots
<1>5. ASSUME NEW i \in Slots, WorkerTest(i) PROVE CountExact'
  BY <1>5, SameCount DEF WorkerTest, Go, Counted
<1>6. ASSUME NEW i \in Slots, WorkerCheck(i) PROVE CountExact'
  BY <1>6, SameCount DEF WorkerCheck, Go, Counted
<1>7. ASSUME NEW i \in Slots, WorkerPark(i) PROVE CountExact'
  BY <1>7, SameCount DEF WorkerPark, Go, Counted
<1>8. ASSUME NEW i \in Slots, WorkerWake(i) PROVE CountExact'
  BY <1>8, SameCount DEF WorkerWake, Go, Counted
<1>9. ASSUME NEW i \in Slots, WorkerPop(i) PROVE CountExact'
  BY <1>9, SameCount DEF WorkerPop, Go, Counted
<1>10. ASSUME NEW i \in Slots, WorkerPopNothing(i) PROVE CountExact'
  BY <1>10, SameCount DEF WorkerPopNothing, Go, Counted
<1>11. ASSUME NEW i \in Slots, WorkerFinish(i) PROVE CountExact'
  BY <1>11, SameCount DEF WorkerFinish, EndTask, Go, Counted
<1>12. ASSUME NEW i \in Slots, WorkerThrow(i) PROVE CountExact'
  BY <1>12, SameCount DEF WorkerThrow, EndTask, Go, Counted
<1>13. ASSUME NEW i \in Slots, WorkerRetire(i) PROVE CountExact'
  BY <1>13, SameCount DEF WorkerRetire, Go, Counted
<1>14. ASSUME NEW i \in Slots, WorkerUncount(i) PROVE CountExact'
  <2>1. CountedSlots' = CountedSlots \ {i} /\ i \in CountedSlots
    BY <1>14 DEF WorkerUncount, Go, CountedSlots, Counted
  <2>2. IsFiniteSet(CountedSlots)
    BY SlotsFinite, FS_Subset DEF CountedSlots
  <2>3. Cardinality(CountedSlots') = Cardinality(CountedSlots) - 1
    BY <2>1, <2>2, FS_RemoveElement
  <2> QED BY <1>14, <2>3 DEF WorkerUncount, CountExact, CountedSlots
<1>15. ASSUME NEW i \in Slots, WorkerSpuriousWakeup(i) PROVE CountExact'
  BY <1>15, SameCount DEF WorkerSpuriousWakeup, Go, Counted
<1>16. ASSUME NEW i \in Slots, WorkerFault(i) PROVE CountExact'
  BY <1>16, SameCount DEF WorkerFault
<1>17. ASSUME MonitorTop PROVE CountExact'
  BY <1>17, SameCount DEF MonitorTop
<1>18. ASSUME MonitorNode PROVE CountExact'
  BY <1>18, SameCount DEF MonitorNode
<1>19. ASSUME MonitorExpand PROVE CountExact'
  BY <1>19, SameCount DEF MonitorExpand
<1>20. ASSUME MonitorSpawn PROVE CountExact'
  <2>1. /\ ~Pushing /\ size + 1 \in Slots /\ StartThread
        /\ UNCHANGED <<validThreadCount, taskVars, hand, dest, ppc, node>>
    BY <1>20, MonitorRoom DEF MonitorSpawn, Pushing, PhaseState
  <2> QED BY <2>1, StartThreadSlot, SameCount DEF Counted
<1>21. ASSUME MonitorSpawnFails PROVE CountExact'
  BY <1>21, SameCount DEF MonitorSpawnFails
<1>22. ASSUME MonitorPush PROVE CountExact'
  BY <1>22, SameCount DEF MonitorPush
<1>23. ASSUME MonitorShrink PROVE CountExact'
  <2>1. wpc' = wpc \/ NotifyAllOn(mnode)
    BY <1>23 DEF MonitorShrink
  <2> QED BY <1>23, <2>1, NotifyMoves, SameCount DEF MonitorShrink, Counted
<1>24. ASSUME MonitorCheck PROVE CountExact'
  BY <1>24, SameCount DEF MonitorCheck
<1>25. ASSUME MonitorPark PROVE CountExact'
  BY <1>25, SameCount DEF MonitorPark
<1>26. ASSUME MonitorTimeout PROVE CountExact'
  BY <1>26, SameCount DEF MonitorTimeout
<1>27. ASSUME NEW p \in Producers, NEW t \in Tasks, NEW n \in Nodes,
             Enqueue(p, t, n)
      PROVE  CountExact'
  BY <1>27, SameCount DEF Enqueue
<1>28. ASSUME NEW p \in Producers, NEW t \in Tasks, NEW n \in Nodes,
             EnqueueToNumaNode(p, t, n)
      PROVE  CountExact'
  BY <1>28, SameCount DEF EnqueueToNumaNode
<1>29. ASSUME NEW p \in Producers, EnqueueRoute(p) PROVE CountExact'
  BY <1>29, SameCount DEF EnqueueRoute
<1>30. ASSUME NEW p \in Producers, EnqueuePush(p) PROVE CountExact'
  BY <1>30, SameCount DEF EnqueuePush
<1>31. ASSUME NEW p \in Producers, EnqueueNotify(p) PROVE CountExact'
  BY <1>31, NotifyMoves, SameCount DEF EnqueueNotify, Counted
<1>32. ASSUME StartCall PROVE CountExact'
  BY <1>32, SameCount DEF StartCall
<1>33. ASSUME StartWorker PROVE CountExact'
  <2>1. /\ ~Pushing /\ size + 1 \in Slots /\ StartThread
        /\ UNCHANGED <<validThreadCount, taskVars, hand, dest, ppc, node>>
    BY <1>33, StartRoom DEF StartWorker, Pushing, PhaseState
  <2> QED BY <2>1, StartThreadSlot, SameCount DEF Counted
<1>34. ASSUME StartPush PROVE CountExact'
  BY <1>34, SameCount DEF StartPush
<1>35. ASSUME StartMonitor PROVE CountExact'
  BY <1>35, SameCount DEF StartMonitor
<1>36. ASSUME StartFails PROVE CountExact'
  BY <1>36, SameCount DEF StartFails
<1>37. ASSUME NEW pol \in Policies, StopCall(pol) PROVE CountExact'
  BY <1>37, SameCount DEF StopCall
<1>38. ASSUME StopSignalMonitor PROVE CountExact'
  BY <1>38, SameCount DEF StopSignalMonitor
<1>39. ASSUME StopJoinMonitor PROVE CountExact'
  BY <1>39, SameCount DEF StopJoinMonitor
<1>40. ASSUME StopHalt PROVE CountExact'
  BY <1>40, SameCount DEF StopHalt
<1>41. ASSUME StopWake PROVE CountExact'
  BY <1>41, NotifyMoves, SameCount DEF StopWake, Counted
<1>42. ASSUME StopPoll PROVE CountExact'
  BY <1>42, SameCount DEF StopPoll
<1>43. ASSUME StopLock PROVE CountExact'
  BY <1>43, SameCount DEF StopLock
<1>44. ASSUME StopMark PROVE CountExact'
  BY <1>44, SameCount DEF StopMark
<1>45. ASSUME StopJoin PROVE CountExact'
  BY <1>45, SameCount DEF StopJoin
<1>46. ASSUME StopClear PROVE CountExact'
  <2>1. CountedSlots' = {} /\ validThreadCount' = 0
    BY <1>46 DEF StopClear, CountedSlots, Counted
  <2> QED BY <2>1, FS_EmptySet DEF CountExact, CountedSlots
<1>47. ASSUME StopDrop PROVE CountExact'
  BY <1>47, SameCount DEF StopDrop
<1>48. CASE UNCHANGED vars
  BY <1>48, SameCount DEF vars
<1> QED BY <1>1, <1>2, <1>3, <1>4, <1>5, <1>6, <1>7, <1>8, <1>9, <1>10, <1>11, <1>12,
         <1>13, <1>14, <1>15, <1>16, <1>17, <1>18, <1>19, <1>20, <1>21, <1>22, <1>23,
         <1>24, <1>25, <1>26, <1>27, <1>28, <1>29, <1>30, <1>31, <1>32, <1>33, <1>34,
         <1>35, <1>36, <1>37, <1>38, <1>39, <1>40, <1>41, <1>42, <1>43, <1>44, <1>45,
         <1>46, <1>47, <1>48
  DEF Next, WorkerStep, MonitorStep, EnqueueStep, StartStep, StopStep

-----------------------------------------------------------------------------
(* TaskState: a task moves from the hand of one producer to the queue of   *)
(* its node, to one worker of the node and to its end.                     *)

(* The steps that move no task. *)
LEMMA SameTasks ==
  ASSUME TypeOK, TaskState, UNCHANGED <<taskVars, hand, dest>>,
         \A p \in Producers : ppc'[p] \in {"route", "push"} => ppc[p] \in {"route", "push"},
         \A i \in Slots : /\ wpc'[i] = "run" <=> wpc[i] = "run"
                          /\ wpc[i] = "run" => node'[i] = node[i]
  PROVE  TaskState'
<1>1. QueuedAtTarget'
  BY DEF QueuedAtTarget, TaskState, taskVars
<1>2. RunState'
  BY DEF RunState, TaskState, taskVars
<1>3. HandState'
  BY DEF HandState, TaskState, taskVars
<1> QED BY <1>1, <1>2, <1>3 DEF TaskState

(* QueuedAtTarget of one node, and of all tasks. *)
LEMMA QueueFacts ==
  ASSUME TypeOK, QueuedAtTarget, NEW n \in Nodes
  PROVE  /\ queue[n] \in Seq(Tasks) /\ Len(queue[n]) \in Nat
         /\ \A k \in 1 .. Len(queue[n]) :
              /\ queue[n][k] \in Tasks /\ fate[queue[n][k]] = "queued"
              /\ target[queue[n][k]] = n
              /\ \A j \in 1 .. Len(queue[n]) : queue[n][j] = queue[n][k] => j = k
<1>1. queue[n] \in Seq(Tasks)
  BY DEF TypeOK
<1> QED BY <1>1 DEF QueuedAtTarget

(* A task that is not queued changes its fate otherwise than to "queued",  *)
(* or its target.                                                          *)
LEMMA QueueFrame ==
  ASSUME TypeOK, QueuedAtTarget, UNCHANGED queue,
         NEW t \in Tasks, fate[t] # "queued", fate'[t] # "queued",
         \A u \in Tasks \ {t} : fate'[u] = fate[u] /\ target'[u] = target[u]
  PROVE  QueuedAtTarget'
<1>1. ASSUME NEW n \in Nodes, NEW k \in 1 .. Len(queue[n])
      PROVE  /\ fate'[queue[n][k]] = "queued" /\ target'[queue[n][k]] = n
             /\ \A j \in 1 .. Len(queue[n]) : queue[n][j] = queue[n][k] => j = k
  BY QueueFacts
<1>2. ASSUME NEW u \in Tasks, fate'[u] = "queued"
      PROVE  \E k \in 1 .. Len(queue[target'[u]]) : queue[target'[u]][k] = u
  BY <1>2 DEF QueuedAtTarget
<1> QED BY <1>1, <1>2 DEF QueuedAtTarget

LEMMA PopStep ==
  ASSUME TypeOK, TaskState, NEW i \in Slots, WorkerPop(i)
  PROVE  TaskState'
<1>1. PICK n \in Nodes : n = node[i]
  BY DEF TypeOK
<1>2. PICK q \in Seq(Tasks) : q = queue[n]
  BY DEF TypeOK
<1>3. /\ q # <<>> /\ Len(q) \in Nat \ {0} /\ Head(q) = q[1] /\ q[1] \in Tasks
      /\ Tail(q) \in Seq(Tasks) /\ Len(Tail(q)) = Len(q) - 1
      /\ \A k \in 1 .. Len(q) - 1 : Tail(q)[k] = q[k + 1]
  BY <1>1, <1>2 DEF WorkerPop, QueueOf
<1>4. PICK h \in Tasks : h = q[1] /\ h = Head(q)
  BY <1>3
<1>5. /\ queue' = [queue EXCEPT ![n] = Tail(q)] /\ queue \in [Nodes -> Seq(Tasks)]
      /\ fate' = [fate EXCEPT ![h] = "running"] /\ fate \in [Tasks -> Fates]
      /\ held' = [held EXCEPT ![i] = h] /\ held \in [Slots -> Tasks \cup {NoTask}]
  BY <1>1, <1>2, <1>4 DEF WorkerPop, QueueOf, QueueAfterPop, NextTask, TypeOK
<1>6. /\ wpc[i] = "pop" /\ wpc' = [wpc EXCEPT ![i] = "run"] /\ wpc \in [Slots -> WorkerPCs]
      /\ UNCHANGED <<target, node, ppc, hand, dest>>
  BY DEF WorkerPop, Go, TypeOK, Elsewhere, nodeVars, prodVars
<1>7. /\ \A k \in 1 .. Len(q) : q[k] \in Tasks /\ fate[q[k]] = "queued" /\ target[q[k]] = n
      /\ \A j, k \in 1 .. Len(q) : q[j] = q[k] => j = k
  BY <1>2, QueueFacts DEF TaskState
<1>8. fate[h] = "queued" /\ target[h] = n
  BY <1>3, <1>4, <1>7
<1>9. QueuedAtTarget'
  <2>1. ASSUME NEW m \in Nodes, NEW k \in 1 .. Len(queue'[m])
        PROVE  /\ fate'[queue'[m][k]] = "queued" /\ target'[queue'[m][k]] = m
               /\ \A j \in 1 .. Len(queue'[m]) : queue'[m][j] = queue'[m][k] => j = k
    <3>1. CASE m = n
      <4>1. queue'[m] = Tail(q)
        BY <1>5, <3>1
      <4>2. k \in 1 .. Len(q) - 1
        BY <1>3, <4>1
      <4>3. k + 1 \in 1 .. Len(q) /\ k + 1 # 1 /\ Tail(q)[k] = q[k + 1] /\ 1 \in 1 .. Len(q)
        BY <1>3, <4>2
      <4>4. q[k + 1] # h /\ q[k + 1] \in Tasks
        BY <1>4, <1>7, <4>3
      <4>5. fate'[q[k + 1]] = "queued" /\ target'[q[k + 1]] = n
        BY <1>5, <1>6, <1>7, <4>3, <4>4
      <4>6. ASSUME NEW j \in 1 .. Len(q) - 1, Tail(q)[j] = Tail(q)[k] PROVE j = k
        <5>1. j + 1 \in 1 .. Len(q) /\ q[j + 1] = q[k + 1]
          BY <1>3, <4>3, <4>6
        <5>2. j + 1 = k + 1
          BY <1>7, <4>3, <5>1
        <5> QED BY <1>3, <4>2, <5>2
      <4> QED BY <1>3, <3>1, <4>1, <4>3, <4>5, <4>6
    <3>2. CASE m # n
      <4>1. queue'[m] = queue[m]
        BY <1>5, <3>2
      <4>2. /\ queue[m][k] \in Tasks /\ fate[queue[m][k]] = "queued"
            /\ target[queue[m][k]] = m
            /\ \A j \in 1 .. Len(queue[m]) : queue[m][j] = queue[m][k] => j = k
        BY <4>1, QueueFacts DEF TaskState
      <4>3. queue[m][k] # h
        BY <1>8, <3>2, <4>2
      <4> QED BY <1>5, <1>6, <4>1, <4>2, <4>3
    <3> QED BY <3>1, <3>2
  <2>2. ASSUME NEW t \in Tasks, fate'[t] = "queued"
        PROVE  \E k \in 1 .. Len(queue'[target'[t]]) : queue'[target'[t]][k] = t
    <3>1. t # h /\ fate[t] = "queued" /\ target'[t] = target[t] /\ target[t] \in Nodes
      BY <1>5, <1>6, <2>2 DEF TypeOK
    <3>2. PICK k \in 1 .. Len(queue[target[t]]) : queue[target[t]][k] = t
      BY <3>1 DEF TaskState, QueuedAtTarget
    <3>3. CASE target[t] = n
      <4>1. k \in 1 .. Len(q) /\ q[k] = t /\ k # 1
        BY <1>2, <1>4, <3>1, <3>2, <3>3
      <4>2. k - 1 \in 1 .. Len(q) - 1 /\ Tail(q)[k - 1] = t
        BY <1>3, <4>1
      <4> QED BY <1>3, <1>5, <3>1, <3>3, <4>2
    <3>4. CASE target[t] # n
      BY <1>5, <3>1, <3>2, <3>4
    <3> QED BY <3>3, <3>4
  <2> QED BY <2>1, <2>2 DEF QueuedAtTarget
<1>10. RunState'
  <2>1. \A j \in Slots : wpc[j] = "run" => held[j] # h
    BY <1>8 DEF TaskState, RunState
  <2>2. ASSUME NEW j \in Slots
        PROVE  /\ wpc'[j] = "run" => /\ held'[j] \in Tasks /\ fate'[held'[j]] = "running"
                                     /\ target'[held'[j]] = node'[j]
               /\ wpc'[j] # "run" => held'[j] = NoTask
    BY <1>1, <1>5, <1>6, <1>8, <2>1 DEF TaskState, RunState
  <2>3. ASSUME NEW j \in Slots, NEW k \in Slots, wpc'[j] = "run", wpc'[k] = "run",
               held'[j] = held'[k]
        PROVE  j = k
    BY <1>5, <1>6, <2>1, <2>3 DEF TaskState, RunState
  <2>4. ASSUME NEW t \in Tasks, fate'[t] = "running"
        PROVE  \E j \in Slots : wpc'[j] = "run" /\ held'[j] = t
    <3>1. CASE t = h
      BY <1>5, <1>6, <3>1
    <3>2. CASE t # h
      <4>1. PICK j \in Slots : wpc[j] = "run" /\ held[j] = t
        BY <1>5, <2>4, <3>2 DEF TaskState, RunState
      <4> QED BY <1>5, <1>6, <4>1
    <3> QED BY <3>1, <3>2
  <2> QED BY <2>2, <2>3, <2>4 DEF RunState
<1>11. HandState'
  BY <1>5, <1>6, <1>8 DEF TaskState, HandState
<1> QED BY <1>9, <1>10, <1>11 DEF TaskState

LEMMA EndStep ==
  ASSUME TypeOK, TaskState, NEW i \in Slots, NEW how \in {"finished", "threw"},
         NEW to \in WorkerPCs \ {"run"}, Go(i, "run", to), EndTask(i, how)
  PROVE  TaskState'
<1>1. PICK t \in Tasks : t = held[i] /\ fate[t] = "running" /\ wpc[i] = "run"
  BY DEF Go, TaskState, RunState
<1>2. /\ fate' = [fate EXCEPT ![t] = how] /\ fate \in [Tasks -> Fates]
      /\ held' = [held EXCEPT ![i] = NoTask] /\ held \in [Slots -> Tasks \cup {NoTask}]
      /\ wpc' = [wpc EXCEPT ![i] = to] /\ wpc \in [Slots -> WorkerPCs]
      /\ UNCHANGED <<queue, target, node, ppc, hand, dest>>
  BY <1>1 DEF EndTask, Go, TypeOK, Elsewhere, nodeVars, prodVars
<1>3. QueuedAtTarget'
  BY <1>1, <1>2, QueueFrame DEF TaskState
<1>4. RunState'
  <2>1. ASSUME NEW j \in Slots
        PROVE  /\ wpc'[j] = "run" => /\ held'[j] \in Tasks /\ fate'[held'[j]] = "running"
                                     /\ target'[held'[j]] = node'[j]
               /\ wpc'[j] # "run" => held'[j] = NoTask
    BY <1>1, <1>2 DEF TaskState, RunState
  <2>2. ASSUME NEW j \in Slots, NEW k \in Slots, wpc'[j] = "run", wpc'[k] = "run",
               held'[j] = held'[k]
        PROVE  j = k
    BY <1>2, <2>2 DEF TaskState, RunState
  <2>3. ASSUME NEW u \in Tasks, fate'[u] = "running"
        PROVE  \E j \in Slots : wpc'[j] = "run" /\ held'[j] = u
    <3>1. u # t
      BY <1>2, <2>3
    <3>2. PICK j \in Slots : wpc[j] = "run" /\ held[j] = u
      BY <1>2, <2>3, <3>1 DEF TaskState, RunState
    <3> QED BY <1>1, <1>2, <3>1, <3>2
  <2> QED BY <2>1, <2>2, <2>3 DEF RunState
<1>5. HandState'
  BY <1>1, <1>2 DEF TaskState, HandState
<1> QED BY <1>3, <1>4, <1>5 DEF TaskState

(* An accepted task enters the queue of its node. *)
LEMMA PushStep ==
  ASSUME TypeOK, TaskState, NEW p \in Producers, EnqueuePush(p)
  PROVE  TaskState'
<1>1. PICK n \in Nodes : n = dest[p]
  BY DEF TypeOK
<1>2. PICK t \in Tasks : t = hand[p] /\ fate[t] = "inflight" /\ target[t] = n
  BY <1>1 DEF EnqueuePush, TaskState, HandState
<1>3. PICK q \in Seq(Tasks) : q = queue[n]
  BY DEF TypeOK
<1>4. /\ Len(q) \in Nat /\ Len(Append(q, t)) = Len(q) + 1
      /\ Append(q, t)[Len(q) + 1] = t
      /\ \A k \in 1 .. Len(q) : Append(q, t)[k] = q[k]
  BY <1>3
<1>5. /\ queue' = [queue EXCEPT ![n] = Append(q, t)] /\ queue \in [Nodes -> Seq(Tasks)]
      /\ fate' = [fate EXCEPT ![t] = "queued"] /\ fate \in [Tasks -> Fates]
      /\ ppc[p] = "push" /\ ppc' = [ppc EXCEPT ![p] = "notify"]
      /\ ppc \in [Producers -> {"idle", "route", "push", "notify"}]
      /\ UNCHANGED <<target, node, wpc, held, hand, dest>>
  BY <1>1, <1>2, <1>3 DEF EnqueuePush, TypeOK, nodeVars
<1>6. /\ \A k \in 1 .. Len(q) : q[k] \in Tasks /\ fate[q[k]] = "queued" /\ target[q[k]] = n
      /\ \A j, k \in 1 .. Len(q) : q[j] = q[k] => j = k
  BY <1>3, QueueFacts DEF TaskState
<1>7. QueuedAtTarget'
  <2>1. ASSUME NEW m \in Nodes, NEW k \in 1 .. Len(queue'[m])
        PROVE  /\ fate'[queue'[m][k]] = "queued" /\ target'[queue'[m][k]] = m
               /\ \A j \in 1 .. Len(queue'[m]) : queue'[m][j] = queue'[m][k] => j = k
    <3>1. CASE m = n
      <4>1. queue'[m] = Append(q, t) /\ k \in 1 .. Len(q) + 1
        BY <1>4, <1>5, <3>1
      <4>2. \A j \in 1 .. Len(q) : Append(q, t)[j] # t /\ Append(q, t)[j] \in Tasks
        BY <1>2, <1>4, <1>6
      <4>3. \A j \in 1 .. Len(q) + 1 : j \in 1 .. Len(q) \/ j = Len(q) + 1
        BY <1>4
      <4>4. fate'[Append(q, t)[k]] = "queued" /\ target'[Append(q, t)[k]] = n
        BY <1>2, <1>4, <1>5, <1>6, <4>1, <4>2, <4>3
      <4>5. \A j \in 1 .. Len(q) + 1 : Append(q, t)[j] = Append(q, t)[k] => j = k
        BY <1>4, <1>6, <4>1, <4>2, <4>3
      <4> QED BY <1>4, <3>1, <4>1, <4>4, <4>5
    <3>2. CASE m # n
      <4>1. queue'[m] = queue[m]
        BY <1>5, <3>2
      <4>2. /\ queue[m][k] \in Tasks /\ fate[queue[m][k]] = "queued"
            /\ target[queue[m][k]] = m
            /\ \A j \in 1 .. Len(queue[m]) : queue[m][j] = queue[m][k] => j = k
        BY <4>1, QueueFacts DEF TaskState
      <4> QED BY <1>5, <4>1, <4>2
    <3> QED BY <3>1, <3>2
  <2>2. ASSUME NEW u \in Tasks, fate'[u] = "queued"
        PROVE  \E k \in 1 .. Len(queue'[target'[u]]) : queue'[target'[u]][k] = u
    <3>1. CASE u = t
      <4>1. target'[u] = n /\ queue'[n] = Append(q, t) /\ Len(q) + 1 \in 1 .. Len(q) + 1
        BY <1>2, <1>4, <1>5, <3>1
      <4> QED BY <1>4, <3>1, <4>1
    <3>2. CASE u # t
      <4>1. fate[u] = "queued" /\ target'[u] = target[u] /\ target[u] \in Nodes
        BY <1>5, <2>2, <3>2 DEF TypeOK
      <4>2. PICK k \in 1 .. Len(queue[target[u]]) : queue[target[u]][k] = u
        BY <4>1 DEF TaskState, QueuedAtTarget
      <4>3. CASE target[u] = n
        <5>1. k \in 1 .. Len(q) /\ q[k] = u
          BY <1>3, <4>2, <4>3
        <5>2. k \in 1 .. Len(q) + 1 /\ Append(q, t)[k] = u
          BY <1>4, <5>1
        <5> QED BY <1>4, <1>5, <4>1, <4>3, <5>2
      <4>4. CASE target[u] # n
        BY <1>5, <4>1, <4>2, <4>4
      <4> QED BY <4>3, <4>4
    <3> QED BY <3>1, <3>2
  <2> QED BY <2>1, <2>2 DEF QueuedAtTarget
<1>8. RunState'
  BY <1>2, <1>5 DEF TaskState, RunState
<1>9. HandState'
  BY <1>2, <1>5 DEF TaskState, HandState
<1> QED BY <1>7, <1>8, <1>9 DEF TaskState

(* Enqueue takes a new task in hand, or rejects it; the second test of     *)
(* running_ keeps it or rejects it.                                        *)
LEMMA CallStep ==
  ASSUME TypeOK, TaskState, NEW p \in Producers, NEW t \in Tasks, NEW n \in Nodes,
         Enqueue(p, t, n) \/ EnqueueToNumaNode(p, t, n)
  PROVE  TaskState'
<1>1. /\ fate[t] = "new" /\ ppc[p] = "idle" /\ fate \in [Tasks -> Fates]
      /\ hand' = [hand EXCEPT ![p] = t] /\ hand \in [Producers -> Tasks \cup {NoTask}]
      /\ dest' = [dest EXCEPT ![p] = n] /\ dest \in [Producers -> Nodes]
      /\ target' = [target EXCEPT ![t] = n] /\ target \in [Tasks -> Nodes]
      /\ UNCHANGED <<queue, wpc, held, node>>
  BY DEF Enqueue, EnqueueToNumaNode, TypeOK, nodeVars
<1>2. PICK f \in {"inflight", "rejected"}, c \in {"idle", "route", "push"} :
        /\ fate' = [fate EXCEPT ![t] = f] /\ ppc' = [ppc EXCEPT ![p] = c]
        /\ c # "idle" => f = "inflight"
  <2>1. CASE running
    <3>1. /\ fate' = [fate EXCEPT ![t] = "inflight"]
          /\ \E c \in {"route", "push"} : ppc' = [ppc EXCEPT ![p] = c]
      BY <2>1 DEF Enqueue, EnqueueToNumaNode, Admit
    <3> QED BY <3>1
  <2>2. CASE ~running
    <3>1. /\ fate' = [fate EXCEPT ![t] = "rejected"]
          /\ ppc' = ppc \/ ppc' = [ppc EXCEPT ![p] = "idle"]
      BY <2>2 DEF Enqueue, EnqueueToNumaNode, Admit
    <3>2. ppc' = [ppc EXCEPT ![p] = "idle"]
      BY <1>1, <3>1 DEF TypeOK
    <3> QED BY <3>1, <3>2
  <2> QED BY <2>1, <2>2
<1>3. ppc \in [Producers -> {"idle", "route", "push", "notify"}]
  BY DEF TypeOK
<1>4. QueuedAtTarget'
  BY <1>1, <1>2, QueueFrame DEF TaskState
<1>5. RunState'
  BY <1>1, <1>2 DEF TaskState, RunState
<1>6. HandState'
  <2>1. \A q \in Producers : ppc[q] \in {"route", "push"} => q # p /\ hand[q] # t
    BY <1>1 DEF TaskState, HandState
  <2>2. ASSUME NEW q \in Producers, ppc'[q] \in {"route", "push"}
        PROVE  /\ hand'[q] \in Tasks /\ fate'[hand'[q]] = "inflight"
               /\ dest'[q] = target'[hand'[q]]
    <3>1. CASE q = p
      BY <1>1, <1>2, <1>3, <2>2, <3>1
    <3>2. CASE q # p
      BY <1>1, <1>2, <1>3, <2>1, <2>2, <3>2 DEF TaskState, HandState
    <3> QED BY <3>1, <3>2
  <2>3. ASSUME NEW q \in Producers, NEW r \in Producers, ppc'[q] \in {"route", "push"},
               ppc'[r] \in {"route", "push"}, hand'[q] = hand'[r]
        PROVE  q = r
    BY <1>1, <1>2, <1>3, <2>1, <2>3 DEF TaskState, HandState
  <2> QED BY <2>2, <2>3 DEF HandState
<1> QED BY <1>4, <1>5, <1>6 DEF TaskState

LEMMA RouteStep ==
  ASSUME TypeOK, TaskState, NEW p \in Producers, EnqueueRoute(p)
  PROVE  TaskState'
<1>1. PICK t \in Tasks : t = hand[p] /\ fate[t] = "inflight" /\ ppc[p] = "route"
  BY DEF EnqueueRoute, TaskState, HandState
<1>2. PICK f \in {"inflight", "rejected"}, c \in {"idle", "push"} :
        /\ fate' = [fate EXCEPT ![t] = f] /\ ppc' = [ppc EXCEPT ![p] = c]
        /\ c # "idle" => f = "inflight"
  BY <1>1 DEF EnqueueRoute, Admit
<1>3. /\ ppc \in [Producers -> {"idle", "route", "push", "notify"}]
      /\ fate \in [Tasks -> Fates]
      /\ UNCHANGED <<queue, target, wpc, held, node, hand, dest>>
  BY DEF EnqueueRoute, TypeOK, nodeVars
<1>4. QueuedAtTarget'
  BY <1>1, <1>2, <1>3, QueueFrame DEF TaskState
<1>5. RunState'
  BY <1>1, <1>2, <1>3 DEF TaskState, RunState
<1>6. HandState'
  BY <1>1, <1>2, <1>3 DEF TaskState, HandState
<1> QED BY <1>4, <1>5, <1>6 DEF TaskState

(* Stop clears the workers when none of them runs a task, and then drops   *)
(* what is queued, node by node.                                           *)
LEMMA ClearStep == ASSUME Inv, StopClear PROVE TaskState'
<1>1. \A i \in Slots : wpc[i] # "run" /\ wpc'[i] # "run"
  BY ClearRunsNothing DEF StopClear
<1>2. UNCHANGED <<taskVars, hand, dest, ppc>>
  BY DEF StopClear, prodVars
<1> QED BY <1>1, <1>2, SameTasks DEF Inv

LEMMA DropStep == ASSUME Inv, StopDrop PROVE TaskState'
<1>1. PICK n \in Nodes : n = at
  BY DEF StopDrop, Inv, PhaseState
<1>2. /\ queue' = [queue EXCEPT ![n] = <<>>] /\ queue \in [Nodes -> Seq(Tasks)]
      /\ \A t \in Tasks : fate'[t] = IF fate[t] = "queued" /\ target[t] = n
                                       THEN "discarded" ELSE fate[t]
      /\ UNCHANGED <<target, wpc, held, node, ppc, hand, dest>>
  BY <1>1 DEF StopDrop, Inv, TypeOK, nodeVars, prodVars
<1>3. QueuedAtTarget'
  <2>1. ASSUME NEW m \in Nodes, NEW k \in 1 .. Len(queue'[m])
        PROVE  /\ fate'[queue'[m][k]] = "queued" /\ target'[queue'[m][k]] = m
               /\ \A j \in 1 .. Len(queue'[m]) : queue'[m][j] = queue'[m][k] => j = k
    <3>1. m # n /\ queue'[m] = queue[m]
      BY <1>2
    <3>2. /\ queue[m][k] \in Tasks /\ fate[queue[m][k]] = "queued"
          /\ target[queue[m][k]] = m
          /\ \A j \in 1 .. Len(queue[m]) : queue[m][j] = queue[m][k] => j = k
      BY <3>1, QueueFacts DEF Inv, TaskState
    <3> QED BY <1>2, <3>1, <3>2
  <2>2. ASSUME NEW t \in Tasks, fate'[t] = "queued"
        PROVE  \E k \in 1 .. Len(queue'[target'[t]]) : queue'[target'[t]][k] = t
    <3>1. /\ fate[t] = "queued" /\ target[t] # n /\ target'[t] = target[t]
          /\ target[t] \in Nodes
      BY <1>2, <2>2 DEF Inv, TypeOK
    <3>2. queue'[target[t]] = queue[target[t]]
      BY <1>2, <3>1
    <3> QED BY <3>1, <3>2 DEF Inv, TaskState, QueuedAtTarget
  <2> QED BY <2>1, <2>2 DEF QueuedAtTarget
<1>4. RunState'
  BY <1>2 DEF Inv, TaskState, RunState
<1>5. HandState'
  BY <1>2 DEF Inv, TaskState, HandState
<1> QED BY <1>3, <1>4, <1>5 DEF TaskState

LEMMA TasksStep == Inv /\ [Next]_vars => TaskState'
<1> SUFFICES ASSUME Inv, [Next]_vars PROVE TaskState'
  OBVIOUS
<1> USE DEF poolVars, nodeVars, workerVars, flagVars,
        monVars, prodVars, ctlVars, taskVars, Elsewhere
<1>1. ASSUME NEW i \in Slots, WorkerEnter(i) PROVE TaskState'
  BY <1>1, SameTasks DEF WorkerEnter, Go, Inv, TypeOK
<1>2. ASSUME NEW i \in Slots, WorkerBind(i) PROVE TaskState'
  BY <1>2, SameTasks DEF WorkerBind, Go, Inv, TypeOK
<1>3. ASSUME NEW i \in Slots, WorkerBindFails(i) PROVE TaskState'
  BY <1>3, SameTasks DEF WorkerBindFails, Go, Inv, TypeOK
<1>4. ASSUME NEW i \in Slots, WorkerCount(i) PROVE TaskState'
  BY <1>4, SameTasks DEF WorkerCount, Go, Inv, TypeOK
<1>5. ASSUME NEW i \in Slots, WorkerTest(i) PROVE TaskState'
  BY <1>5, SameTasks DEF WorkerTest, Go, Inv, TypeOK
<1>6. ASSUME NEW i \in Slots, WorkerCheck(i) PROVE TaskState'
  BY <1>6, SameTasks DEF WorkerCheck, Go, Inv, TypeOK
<1>7. ASSUME NEW i \in Slots, WorkerPark(i) PROVE TaskState'
  BY <1>7, SameTasks DEF WorkerPark, Go, Inv, TypeOK
<1>8. ASSUME NEW i \in Slots, WorkerWake(i) PROVE TaskState'
  BY <1>8, SameTasks DEF WorkerWake, Go, Inv, TypeOK
<1>9. ASSUME NEW i \in Slots, WorkerPop(i) PROVE TaskState'
  BY <1>9, PopStep DEF WorkerPop, Inv
<1>10. ASSUME NEW i \in Slots, WorkerPopNothing(i) PROVE TaskState'
  BY <1>10, SameTasks DEF WorkerPopNothing, Go, Inv, TypeOK
<1>11. ASSUME NEW i \in Slots, WorkerFinish(i) PROVE TaskState'
  BY <1>11, EndStep DEF WorkerFinish, WorkerFinish, WorkerPCs, Inv
<1>12. ASSUME NEW i \in Slots, WorkerThrow(i) PROVE TaskState'
  BY <1>12, EndStep DEF WorkerThrow, WorkerThrow, WorkerPCs, Ended, Inv
<1>13. ASSUME NEW i \in Slots, WorkerRetire(i) PROVE TaskState'
  BY <1>13, SameTasks DEF WorkerRetire, Go, Inv, TypeOK
<1>14. ASSUME NEW i \in Slots, WorkerUncount(i) PROVE TaskState'
  BY <1>14, SameTasks DEF WorkerUncount, Go, Inv, TypeOK
<1>15. ASSUME NEW i \in Slots, WorkerSpuriousWakeup(i) PROVE TaskState'
  BY <1>15, SameTasks DEF WorkerSpuriousWakeup, Go, Inv, TypeOK
<1>16. ASSUME NEW i \in Slots, WorkerFault(i) PROVE TaskState'
  BY <1>16, SameTasks DEF WorkerFault, Go, Inv, TypeOK
<1>17. ASSUME MonitorTop PROVE TaskState'
  BY <1>17, SameTasks DEF MonitorTop, Inv
<1>18. ASSUME MonitorNode PROVE TaskState'
  BY <1>18, SameTasks DEF MonitorNode, Inv
<1>19. ASSUME MonitorExpand PROVE TaskState'
  BY <1>19, SameTasks DEF MonitorExpand, Inv
<1>20. ASSUME MonitorSpawn PROVE TaskState'
  <2>1. /\ ~Pushing /\ size + 1 \in Slots /\ StartThread
        /\ UNCHANGED <<validThreadCount, taskVars, hand, dest, ppc, node>>
    BY <1>20, MonitorRoom DEF MonitorSpawn, Pushing, Inv, PhaseState
  <2> QED BY <2>1, StartThreadSlot, SameTasks DEF Inv
<1>21. ASSUME MonitorSpawnFails PROVE TaskState'
  BY <1>21, SameTasks DEF MonitorSpawnFails, Inv
<1>22. ASSUME MonitorPush PROVE TaskState'
  <2>1. mnode \in Nodes /\ PushWorker(mnode) /\ Pushing /\ TypeOK /\ SlotState
    BY <1>22 DEF MonitorPush, Pushing, Inv, TypeOK
  <2>2. \A i \in Slots : wpc[i] = "run" => node'[i] = node[i]
    BY <2>1, PushFields
  <2> QED BY <1>22, <2>2, SameTasks DEF MonitorPush, Inv
<1>23. ASSUME MonitorShrink PROVE TaskState'
  <2>1. wpc' = wpc \/ NotifyAllOn(mnode)
    BY <1>23 DEF MonitorShrink
  <2>2. \A i \in Slots : wpc'[i] = "run" <=> wpc[i] = "run"
    BY <2>1, NotifyMoves DEF Inv
  <2> QED BY <1>23, <2>2, SameTasks DEF MonitorShrink, Inv
<1>24. ASSUME MonitorCheck PROVE TaskState'
  BY <1>24, SameTasks DEF MonitorCheck, Inv
<1>25. ASSUME MonitorPark PROVE TaskState'
  BY <1>25, SameTasks DEF MonitorPark, Inv
<1>26. ASSUME MonitorTimeout PROVE TaskState'
  BY <1>26, SameTasks DEF MonitorTimeout, Inv
<1>27. ASSUME NEW p \in Producers, NEW t \in Tasks, NEW n \in Nodes,
             Enqueue(p, t, n)
      PROVE  TaskState'
  BY <1>27, CallStep DEF Enqueue, Inv
<1>28. ASSUME NEW p \in Producers, NEW t \in Tasks, NEW n \in Nodes,
             EnqueueToNumaNode(p, t, n)
      PROVE  TaskState'
  BY <1>28, CallStep DEF EnqueueToNumaNode, Inv
<1>29. ASSUME NEW p \in Producers, EnqueueRoute(p) PROVE TaskState'
  BY <1>29, RouteStep DEF EnqueueRoute, Inv
<1>30. ASSUME NEW p \in Producers, EnqueuePush(p) PROVE TaskState'
  BY <1>30, PushStep DEF EnqueuePush, Inv
<1>31. ASSUME NEW p \in Producers, EnqueueNotify(p) PROVE TaskState'
  <2>1. \A i \in Slots : wpc'[i] = "run" <=> wpc[i] = "run"
    BY <1>31, NotifyMoves DEF EnqueueNotify, Inv
  <2>2. \A q \in Producers : ppc'[q] \in {"route", "push"} => ppc[q] \in {"route", "push"}
    BY <1>31 DEF EnqueueNotify, Inv, TypeOK
  <2> QED BY <1>31, <2>1, <2>2, SameTasks DEF EnqueueNotify, Inv
<1>32. ASSUME StartCall PROVE TaskState'
  BY <1>32, SameTasks DEF StartCall, Inv
<1>33. ASSUME StartWorker PROVE TaskState'
  <2>1. /\ ~Pushing /\ size + 1 \in Slots /\ StartThread
        /\ UNCHANGED <<validThreadCount, taskVars, hand, dest, ppc, node>>
    BY <1>33, StartRoom DEF StartWorker, Pushing, Inv, PhaseState
  <2> QED BY <2>1, StartThreadSlot, SameTasks DEF Inv
<1>34. ASSUME StartPush PROVE TaskState'
  <2>1. /\ at \div MinPerNode \in Nodes /\ PushWorker(at \div MinPerNode) /\ Pushing
        /\ TypeOK /\ SlotState
    BY <1>34, StartPushLayout DEF Inv
  <2>2. \A i \in Slots : wpc[i] = "run" => node'[i] = node[i]
    BY <2>1, PushFields
  <2> QED BY <1>34, <2>2, SameTasks DEF StartPush, Inv
<1>35. ASSUME StartMonitor PROVE TaskState'
  BY <1>35, SameTasks DEF StartMonitor, Inv
<1>36. ASSUME StartFails PROVE TaskState'
  BY <1>36, SameTasks DEF StartFails, Inv
<1>37. ASSUME NEW pol \in Policies, StopCall(pol) PROVE TaskState'
  BY <1>37, SameTasks DEF StopCall, Inv
<1>38. ASSUME StopSignalMonitor PROVE TaskState'
  BY <1>38, SameTasks DEF StopSignalMonitor, Inv
<1>39. ASSUME StopJoinMonitor PROVE TaskState'
  BY <1>39, SameTasks DEF StopJoinMonitor, Inv
<1>40. ASSUME StopHalt PROVE TaskState'
  BY <1>40, SameTasks DEF StopHalt, Inv
<1>41. ASSUME StopWake PROVE TaskState'
  <2>1. \A i \in Slots : wpc'[i] = "run" <=> wpc[i] = "run"
    BY <1>41, NotifyMoves DEF StopWake, Inv
  <2> QED BY <1>41, <2>1, SameTasks DEF StopWake, Inv
<1>42. ASSUME StopPoll PROVE TaskState'
  BY <1>42, SameTasks DEF StopPoll, Inv
<1>43. ASSUME StopLock PROVE TaskState'
  BY <1>43, SameTasks DEF StopLock, Inv
<1>44. ASSUME StopMark PROVE TaskState'
  BY <1>44, SameTasks DEF StopMark, Inv
<1>45. ASSUME StopJoin PROVE TaskState'
  BY <1>45, SameTasks DEF StopJoin, Inv
<1>46. ASSUME StopClear PROVE TaskState'
  BY <1>46, ClearStep DEF StopClear
<1>47. ASSUME StopDrop PROVE TaskState'
  BY <1>47, DropStep DEF StopDrop
<1>48. CASE UNCHANGED vars
  BY <1>48, SameTasks DEF vars, Inv
<1> QED BY <1>1, <1>2, <1>3, <1>4, <1>5, <1>6, <1>7, <1>8, <1>9, <1>10, <1>11, <1>12,
         <1>13, <1>14, <1>15, <1>16, <1>17, <1>18, <1>19, <1>20, <1>21, <1>22, <1>23,
         <1>24, <1>25, <1>26, <1>27, <1>28, <1>29, <1>30, <1>31, <1>32, <1>33, <1>34,
         <1>35, <1>36, <1>37, <1>38, <1>39, <1>40, <1>41, <1>42, <1>43, <1>44, <1>45,
         <1>46, <1>47, <1>48
  DEF Next, WorkerStep, MonitorStep, EnqueueStep, StartStep, StopStep

-----------------------------------------------------------------------------
LEMMA InvInit == Init => Inv
<1> SUFFICES ASSUME Init PROVE Inv
  OBVIOUS
<1>1. TypeOK
  <2>1. /\ wpc \in [Slots -> WorkerPCs] /\ held \in [Slots -> Tasks \cup {NoTask}]
        /\ node \in [Slots -> Nodes]
    BY Constants DEF Init, WorkerPCs
  <2>2. /\ ppc \in [Producers -> {"idle", "route", "push", "notify"}]
        /\ hand \in [Producers -> Tasks \cup {NoTask}] /\ dest \in [Producers -> Nodes]
    BY Constants DEF Init
  <2>3. fate \in [Tasks -> Fates] /\ target \in [Tasks -> Nodes]
    BY Constants DEF Init, Fates
  <2>4. queue \in [Nodes -> Seq(Tasks)] /\ threadCount \in [Nodes -> Nat]
    <3>1. <<>> \in Seq(Tasks)
      OBVIOUS
    <3> QED BY <3>1 DEF Init
  <2>5. size \in 0 .. MaxWorkers /\ mnode \in Nodes
    BY Constants DEF Init
  <2> QED BY <2>1, <2>2, <2>3, <2>4, <2>5 DEF Init, TypeOK
<1>2. SlotState
  BY DEF Init, SlotState, Pushing, Slots
<1>3. PhaseState
  BY DEF Init, PhaseState, Quiescent
<1>4. LimitState
  BY DEF Init, LimitState
<1>5. NodeWithinLimit
  <2>1. \A n \in Nodes : WorkersOf(n) = {} /\ threadCount[n] = 0
    BY DEF Init, WorkersOf
  <2> QED BY <2>1, FS_EmptySet, Constants DEF NodeWithinLimit
<1>6. CountExact
  <2>1. {i \in Slots : wpc[i] \in Counted} = {}
    BY DEF Init, Counted
  <2> QED BY <2>1, FS_EmptySet DEF Init, CountExact
<1>7. TaskState
  BY DEF Init, TaskState, QueuedAtTarget, RunState, HandState
<1> QED BY <1>1, <1>2, <1>3, <1>4, <1>5, <1>6, <1>7 DEF Inv

(* Inv is an invariant of the pool. *)
THEOREM InvHolds == Spec => []Inv
<1>1. Inv /\ [Next]_vars => Inv'
  BY TypeStep, SlotStep, PhaseStep, LimitStep, WithinLimitStep, CountStep, TasksStep
  DEF Inv
<1> QED BY InvInit, <1>1, PTL DEF Spec

(* Every variable keeps its type: workers_ never outgrows the sum of the   *)
(* limits of the nodes and valid_thread_count_ never wraps below 0.        *)
THEOREM TypeCorrect == Spec => []TypeOK
<1>1. Inv => TypeOK
  BY DEF Inv
<1> QED BY InvHolds, <1>1, PTL

(* valid_thread_count_ is the number of workers between their fetch_add    *)
(* and their fetch_sub; those that found no slot or could not be bound are *)
(* never in it.                                                            *)
THEOREM CountIsExact == Spec => []CountExact
<1>1. Inv => CountExact
  BY DEF Inv
<1> QED BY InvHolds, <1>1, PTL

(* No node ever has more workers than max_threads_per_node_, nor more than *)
(* its thread_count says.                                                  *)
THEOREM NodesStayWithinLimit == Spec => []NodeWithinLimit
<1>1. Inv => NodeWithinLimit
  BY DEF Inv
<1> QED BY InvHolds, <1>1, PTL

(* After Stop has returned the pool is as the constructor left it, but for *)
(* the thread_count of its nodes.                                          *)
THEOREM StopLeavesQuiescence == Spec => []StoppedIsQuiescent
<1>1. Inv => StoppedIsQuiescent
  BY DEF Inv, PhaseState, StoppedIsQuiescent
<1> QED BY InvHolds, <1>1, PTL

(* A task is queued once, at the node it was sent to, and is run by one    *)
(* worker, bound to that node.                                             *)
THEOREM TasksStay == Spec => []TasksStayOnNode
<1>1. Inv => RunAtTarget
  <2> SUFFICES ASSUME Inv, NEW t \in Tasks, fate[t] = "running"
               PROVE  Cardinality({i \in Slots : wpc[i] = "run" /\ held[i] = t
                                                /\ node[i] = target[t]}) = 1
    BY DEF RunAtTarget
  <2>1. PICK i \in Slots : wpc[i] = "run" /\ held[i] = t
    BY DEF Inv, TaskState, RunState
  <2>2. {j \in Slots : wpc[j] = "run" /\ held[j] = t /\ node[j] = target[t]} = {i}
    BY <2>1 DEF Inv, TaskState, RunState
  <2> QED BY <2>2, FS_Singleton
<1>2. Inv => TasksStayOnNode
  BY <1>1 DEF Inv, TaskState, TasksStayOnNode
<1> QED BY InvHolds, <1>2, PTL

-----------------------------------------------------------------------------
(* Each node refines TaskExecutor *)

Refines(n) == Executor(n)!Next \/ UNCHANGED <<queue[n], FateAt(n)>>

LEMMA FateAtType ==
  ASSUME TypeOK, NEW n \in Nodes
  PROVE  /\ DOMAIN FateAt(n) = Tasks
         /\ \A t \in Tasks : FateAt(n)[t] =
              IF target[t] # n \/ fate[t] = "inflight" THEN "new" ELSE fate[t]
BY DEF FateAt

(* The steps that leave queues, fates and targets alone. *)
LEMMA Stutters ==
  ASSUME UNCHANGED <<queue, fate, target>>, NEW n \in Nodes PROVE Refines(n)
<1>1. UNCHANGED <<queue[n], FateAt(n)>>
  BY DEF FateAt
<1> QED BY <1>1 DEF Refines

(* A step that changes the fate of one task only is a step of the executor *)
(* of the task's node, and of no other one.                                *)
LEMMA OneFate ==
  ASSUME TypeOK, NEW t \in Tasks, NEW f \in Fates \ {"new", "inflight"},
         fate' = [fate EXCEPT ![t] = f], UNCHANGED target, NEW n \in Nodes
  PROVE  /\ target[t] = n => FateAt(n)' = [FateAt(n) EXCEPT ![t] = f]
         /\ target[t] # n => UNCHANGED FateAt(n)
<1>1. fate \in [Tasks -> Fates]
  BY DEF TypeOK
<1>2. CASE target[t] = n
  BY <1>1, <1>2 DEF FateAt
<1>3. CASE target[t] # n
  BY <1>1, <1>3 DEF FateAt
<1> QED BY <1>2, <1>3

(* The pop of a node's tasks.front() is its executor's start of its oldest *)
(* task.                                                                   *)
LEMMA PopStarts ==
  ASSUME TypeOK, TaskState, NEW i \in Slots, WorkerPop(i), NEW n \in Nodes
  PROVE  Refines(n)
<1>1. PICK m \in Nodes : m = node[i]
  BY DEF TypeOK
<1>2. PICK q \in Seq(Tasks) : q = queue[m]
  BY DEF TypeOK
<1>3. PICK h \in Tasks : h = Head(q) /\ h = q[1] /\ q # <<>> /\ 1 \in 1 .. Len(q)
  BY <1>1, <1>2 DEF WorkerPop, QueueOf
<1>4. fate[h] = "queued" /\ target[h] = m
  BY <1>2, <1>3, QueueFacts DEF TaskState
<1>5. /\ queue' = [queue EXCEPT ![m] = Tail(q)] /\ queue \in [Nodes -> Seq(Tasks)]
      /\ fate' = [fate EXCEPT ![h] = "running"] /\ UNCHANGED target
  BY <1>1, <1>2, <1>3 DEF WorkerPop, QueueOf, QueueAfterPop, NextTask, TypeOK
<1>6. "running" \in Fates \ {"new", "inflight"}
  BY DEF Fates
<1>7. CASE n = m
  <2>1. FateAt(n)' = [FateAt(n) EXCEPT ![h] = "running"]
    BY <1>4, <1>5, <1>6, <1>7, OneFate
  <2>2. FateAt(n)[h] = "queued"
    BY <1>4, <1>7 DEF FateAt
  <2>3. queue[n] = q /\ queue'[n] = Tail(q)
    BY <1>2, <1>5, <1>7
  <2>4. Executor(n)!StartOldest
    BY <1>3, <2>1, <2>2, <2>3 DEF Executor!StartOldest
  <2> QED BY <2>4 DEF Refines, Executor!Next
<1>8. CASE n # m
  <2>1. UNCHANGED FateAt(n)
    BY <1>4, <1>5, <1>6, <1>8, OneFate
  <2>2. queue'[n] = queue[n]
    BY <1>5, <1>8
  <2> QED BY <2>1, <2>2 DEF Refines
<1> QED BY <1>7, <1>8

LEMMA EndEnds ==
  ASSUME TypeOK, TaskState, NEW i \in Slots, WorkerFinish(i) \/ WorkerThrow(i),
         NEW n \in Nodes
  PROVE  Refines(n)
<1>1. PICK how \in {"finished", "threw"} : EndTask(i, how) /\ wpc[i] = "run"
  BY DEF WorkerFinish, WorkerThrow, Go
<1>2. PICK t \in Tasks : t = held[i] /\ fate[t] = "running"
  BY <1>1 DEF TaskState, RunState
<1>3. fate' = [fate EXCEPT ![t] = how] /\ UNCHANGED queue /\ UNCHANGED target
  BY <1>1, <1>2 DEF EndTask
<1>4. how \in Fates \ {"new", "inflight"}
  BY <1>1 DEF Fates
<1>5. CASE target[t] = n
  <2>1. FateAt(n)' = [FateAt(n) EXCEPT ![t] = how]
    <3>1. CASE how = "finished"
      BY <1>3, <1>4, <1>5, <3>1, OneFate
    <3>2. CASE how = "threw"
      BY <1>3, <1>4, <1>5, <3>2, OneFate
    <3> QED BY <1>1, <3>1, <3>2
  <2>2. FateAt(n)[t] = "running"
    BY <1>2, <1>5 DEF FateAt
  <2>3. Executor(n)!End(t)
    BY <1>3, <2>1, <2>2 DEF Executor!End
  <2> QED BY <2>3 DEF Refines, Executor!Next
<1>6. CASE target[t] # n
  BY <1>3, <1>4, <1>6, OneFate DEF Refines
<1> QED BY <1>5, <1>6

LEMMA PushAccepts ==
  ASSUME TypeOK, TaskState, NEW p \in Producers, EnqueuePush(p), NEW n \in Nodes
  PROVE  Refines(n)
<1>1. PICK m \in Nodes : m = dest[p]
  BY DEF TypeOK
<1>2. PICK t \in Tasks : t = hand[p] /\ fate[t] = "inflight" /\ target[t] = m
  BY <1>1 DEF EnqueuePush, TaskState, HandState
<1>3. /\ queue' = [queue EXCEPT ![m] = Append(queue[m], t)]
      /\ queue \in [Nodes -> Seq(Tasks)]
      /\ fate' = [fate EXCEPT ![t] = "queued"] /\ UNCHANGED target
  BY <1>1, <1>2 DEF EnqueuePush, TypeOK
<1>4. "queued" \in Fates \ {"new", "inflight"}
  BY DEF Fates
<1>5. CASE n = m
  <2>1. FateAt(n)' = [FateAt(n) EXCEPT ![t] = "queued"]
    BY <1>2, <1>3, <1>4, <1>5, OneFate
  <2>2. FateAt(n)[t] = "new" /\ queue'[n] = Append(queue[n], t)
    BY <1>2, <1>3, <1>5 DEF FateAt
  <2>3. Executor(n)!Accept(t)
    BY <2>1, <2>2 DEF Executor!Accept
  <2> QED BY <2>3 DEF Refines, Executor!Next
<1>6. CASE n # m
  <2>1. UNCHANGED FateAt(n)
    BY <1>2, <1>3, <1>4, <1>6, OneFate
  <2>2. queue'[n] = queue[n]
    BY <1>3, <1>6
  <2> QED BY <2>1, <2>2 DEF Refines
<1> QED BY <1>5, <1>6

(* A task in flight is still new to its executor; one that Enqueue or      *)
(* EnqueueToNumaNode refuses is rejected.                                  *)
LEMMA CallRejects ==
  ASSUME TypeOK, NEW p \in Producers, NEW t \in Tasks, NEW m \in Nodes,
         Enqueue(p, t, m) \/ EnqueueToNumaNode(p, t, m), NEW n \in Nodes
  PROVE  Refines(n)
<1>1. /\ fate[t] = "new" /\ fate \in [Tasks -> Fates] /\ UNCHANGED queue
      /\ target' = [target EXCEPT ![t] = m] /\ target \in [Tasks -> Nodes]
  BY DEF Enqueue, EnqueueToNumaNode, TypeOK
<1>2. PICK f \in {"inflight", "rejected"} : fate' = [fate EXCEPT ![t] = f]
  BY DEF Enqueue, EnqueueToNumaNode, Admit
<1>3. FateAt(n)[t] = "new"
  BY <1>1 DEF FateAt
<1>4. CASE f = "inflight" \/ m # n
  <2>1. FateAt(n)' = FateAt(n)
    BY <1>1, <1>2, <1>4 DEF FateAt
  <2> QED BY <1>1, <2>1 DEF Refines
<1>5. CASE f = "rejected" /\ m = n
  <2>1. FateAt(n)' = [FateAt(n) EXCEPT ![t] = "rejected"]
    BY <1>1, <1>2, <1>5 DEF FateAt
  <2>2. Executor(n)!Reject(t)
    BY <1>1, <1>3, <2>1 DEF Executor!Reject
  <2> QED BY <2>2 DEF Refines, Executor!Next
<1> QED BY <1>4, <1>5

LEMMA RouteRejects ==
  ASSUME TypeOK, TaskState, NEW p \in Producers, EnqueueRoute(p), NEW n \in Nodes
  PROVE  Refines(n)
<1>1. PICK t \in Tasks : t = hand[p] /\ fate[t] = "inflight"
  BY DEF EnqueueRoute, TaskState, HandState
<1>2. PICK f \in {"inflight", "rejected"} : fate' = [fate EXCEPT ![t] = f]
  BY <1>1 DEF EnqueueRoute, Admit
<1>3. UNCHANGED <<queue, target>> /\ fate \in [Tasks -> Fates]
  BY DEF EnqueueRoute, TypeOK
<1>4. CASE f = "inflight"
  <2>1. fate' = fate
    BY <1>1, <1>2, <1>3, <1>4
  <2> QED BY <1>3, <2>1, Stutters
<1>5. CASE f = "rejected" /\ target[t] = n
  <2>1. f \in Fates \ {"new", "inflight"}
    BY <1>5 DEF Fates
  <2>2. FateAt(n)' = [FateAt(n) EXCEPT ![t] = "rejected"]
    BY <1>2, <1>3, <1>5, <2>1, OneFate
  <2>3. FateAt(n)[t] = "new"
    BY <1>1 DEF FateAt
  <2>4. Executor(n)!Reject(t)
    BY <1>3, <2>2, <2>3 DEF Executor!Reject
  <2> QED BY <2>4 DEF Refines, Executor!Next
<1>6. CASE f = "rejected" /\ target[t] # n
  <2>1. f \in Fates \ {"new", "inflight"}
    BY <1>6 DEF Fates
  <2> QED BY <1>2, <1>3, <1>6, <2>1, OneFate DEF Refines
<1> QED BY <1>4, <1>5, <1>6

(* Stop has joined every worker when it drops the queue of a node. *)
LEMMA DropDiscards == ASSUME Inv, StopDrop, NEW n \in Nodes PROVE Refines(n)
<1>1. \A t \in Tasks : fate[t] # "running"
  <2>1. \A i \in Slots : wpc[i] = "none"
    BY DEF StopDrop, Inv, PhaseState, Quiescent
  <2> QED BY <2>1 DEF Inv, TaskState, RunState
<1>2. PICK m \in Nodes : m = at
  BY DEF StopDrop, Inv, PhaseState
<1>3. /\ queue' = [queue EXCEPT ![m] = <<>>] /\ queue \in [Nodes -> Seq(Tasks)]
      /\ fate' = [t \in Tasks |-> IF fate[t] = "queued" /\ target[t] = m
                                    THEN "discarded" ELSE fate[t]]
      /\ UNCHANGED target
  BY <1>2 DEF StopDrop, Inv, TypeOK
<1>4. CASE n = m
  <2>1. FateAt(n)' = [t \in Tasks |-> IF FateAt(n)[t] = "queued" THEN "discarded"
                                                               ELSE FateAt(n)[t]]
    BY <1>3, <1>4 DEF FateAt
  <2>2. \A t \in Tasks : FateAt(n)[t] # "running"
    BY <1>1 DEF FateAt
  <2>3. Executor(n)!DiscardAll
    BY <1>3, <1>4, <2>1, <2>2 DEF Executor!DiscardAll
  <2> QED BY <2>3 DEF Refines, Executor!Next
<1>5. CASE n # m
  <2>1. FateAt(n)' = FateAt(n)
    BY <1>3, <1>5 DEF FateAt
  <2>2. queue'[n] = queue[n]
    BY <1>3, <1>5
  <2> QED BY <2>1, <2>2 DEF Refines
<1> QED BY <1>4, <1>5

LEMMA StepRefines == Inv /\ [Next]_vars => \A n \in Nodes : Refines(n)
<1> SUFFICES ASSUME Inv, [Next]_vars, NEW n \in Nodes PROVE Refines(n)
  OBVIOUS
<1> USE DEF Inv, taskVars
<1>1. ASSUME NEW i \in Slots, WorkerEnter(i) PROVE Refines(n)
  BY <1>1, Stutters DEF WorkerEnter
<1>2. ASSUME NEW i \in Slots, WorkerBind(i) PROVE Refines(n)
  BY <1>2, Stutters DEF WorkerBind
<1>3. ASSUME NEW i \in Slots, WorkerBindFails(i) PROVE Refines(n)
  BY <1>3, Stutters DEF WorkerBindFails
<1>4. ASSUME NEW i \in Slots, WorkerCount(i) PROVE Refines(n)
  BY <1>4, Stutters DEF WorkerCount
<1>5. ASSUME NEW i \in Slots, WorkerTest(i) PROVE Refines(n)
  BY <1>5, Stutters DEF WorkerTest
<1>6. ASSUME NEW i \in Slots, WorkerCheck(i) PROVE Refines(n)
  BY <1>6, Stutters DEF WorkerCheck
<1>7. ASSUME NEW i \in Slots, WorkerPark(i) PROVE Refines(n)
  BY <1>7, Stutters DEF WorkerPark
<1>8. ASSUME NEW i \in Slots, WorkerWake(i) PROVE Refines(n)
  BY <1>8, Stutters DEF WorkerWake
<1>9. ASSUME NEW i \in Slots, WorkerPop(i) PROVE Refines(n)
  BY <1>9, PopStarts DEF WorkerPop
<1>10. ASSUME NEW i \in Slots, WorkerPopNothing(i) PROVE Refines(n)
  BY <1>10, Stutters DEF WorkerPopNothing
<1>11. ASSUME NEW i \in Slots, WorkerFinish(i) PROVE Refines(n)
  BY <1>11, EndEnds DEF WorkerFinish
<1>12. ASSUME NEW i \in Slots, WorkerThrow(i) PROVE Refines(n)
  BY <1>12, EndEnds DEF WorkerThrow
<1>13. ASSUME NEW i \in Slots, WorkerRetire(i) PROVE Refines(n)
  BY <1>13, Stutters DEF WorkerRetire
<1>14. ASSUME NEW i \in Slots, WorkerUncount(i) PROVE Refines(n)
  BY <1>14, Stutters DEF WorkerUncount
<1>15. ASSUME NEW i \in Slots, WorkerSpuriousWakeup(i) PROVE Refines(n)
  BY <1>15, Stutters DEF WorkerSpuriousWakeup
<1>16. ASSUME NEW i \in Slots, WorkerFault(i) PROVE Refines(n)
  BY <1>16, Stutters DEF WorkerFault
<1>17. ASSUME MonitorTop PROVE Refines(n)
  BY <1>17, Stutters DEF MonitorTop
<1>18. ASSUME MonitorNode PROVE Refines(n)
  BY <1>18, Stutters DEF MonitorNode
<1>19. ASSUME MonitorExpand PROVE Refines(n)
  BY <1>19, Stutters DEF MonitorExpand
<1>20. ASSUME MonitorSpawn PROVE Refines(n)
  BY <1>20, Stutters DEF MonitorSpawn
<1>21. ASSUME MonitorSpawnFails PROVE Refines(n)
  BY <1>21, Stutters DEF MonitorSpawnFails
<1>22. ASSUME MonitorPush PROVE Refines(n)
  BY <1>22, Stutters DEF MonitorPush
<1>23. ASSUME MonitorShrink PROVE Refines(n)
  BY <1>23, Stutters DEF MonitorShrink
<1>24. ASSUME MonitorCheck PROVE Refines(n)
  BY <1>24, Stutters DEF MonitorCheck
<1>25. ASSUME MonitorPark PROVE Refines(n)
  BY <1>25, Stutters DEF MonitorPark
<1>26. ASSUME MonitorTimeout PROVE Refines(n)
  BY <1>26, Stutters DEF MonitorTimeout
<1>27. ASSUME NEW p \in Producers, NEW t \in Tasks, NEW m \in Nodes,
             Enqueue(p, t, m)
      PROVE  Refines(n)
  BY <1>27, CallRejects DEF Enqueue
<1>28. ASSUME NEW p \in Producers, NEW t \in Tasks, NEW m \in Nodes,
             EnqueueToNumaNode(p, t, m)
      PROVE  Refines(n)
  BY <1>28, CallRejects DEF EnqueueToNumaNode
<1>29. ASSUME NEW p \in Producers, EnqueueRoute(p) PROVE Refines(n)
  BY <1>29, RouteRejects DEF EnqueueRoute
<1>30. ASSUME NEW p \in Producers, EnqueuePush(p) PROVE Refines(n)
  BY <1>30, PushAccepts DEF EnqueuePush
<1>31. ASSUME NEW p \in Producers, EnqueueNotify(p) PROVE Refines(n)
  BY <1>31, Stutters DEF EnqueueNotify
<1>32. ASSUME StartCall PROVE Refines(n)
  BY <1>32, Stutters DEF StartCall
<1>33. ASSUME StartWorker PROVE Refines(n)
  BY <1>33, Stutters DEF StartWorker
<1>34. ASSUME StartPush PROVE Refines(n)
  BY <1>34, Stutters DEF StartPush
<1>35. ASSUME StartMonitor PROVE Refines(n)
  BY <1>35, Stutters DEF StartMonitor
<1>36. ASSUME StartFails PROVE Refines(n)
  BY <1>36, Stutters DEF StartFails
<1>37. ASSUME NEW pol \in Policies, StopCall(pol) PROVE Refines(n)
  BY <1>37, Stutters DEF StopCall
<1>38. ASSUME StopSignalMonitor PROVE Refines(n)
  BY <1>38, Stutters DEF StopSignalMonitor
<1>39. ASSUME StopJoinMonitor PROVE Refines(n)
  BY <1>39, Stutters DEF StopJoinMonitor
<1>40. ASSUME StopHalt PROVE Refines(n)
  BY <1>40, Stutters DEF StopHalt
<1>41. ASSUME StopWake PROVE Refines(n)
  BY <1>41, Stutters DEF StopWake
<1>42. ASSUME StopPoll PROVE Refines(n)
  BY <1>42, Stutters DEF StopPoll
<1>43. ASSUME StopLock PROVE Refines(n)
  BY <1>43, Stutters DEF StopLock
<1>44. ASSUME StopMark PROVE Refines(n)
  BY <1>44, Stutters DEF StopMark
<1>45. ASSUME StopJoin PROVE Refines(n)
  BY <1>45, Stutters DEF StopJoin
<1>46. ASSUME StopClear PROVE Refines(n)
  BY <1>46, Stutters DEF StopClear
<1>47. ASSUME StopDrop PROVE Refines(n)
  BY <1>47, DropDiscards DEF StopDrop
<1>48. CASE UNCHANGED vars
  BY <1>48, Stutters DEF vars
<1> QED BY <1>1, <1>2, <1>3, <1>4, <1>5, <1>6, <1>7, <1>8, <1>9, <1>10, <1>11, <1>12,
         <1>13, <1>14, <1>15, <1>16, <1>17, <1>18, <1>19, <1>20, <1>21, <1>22, <1>23,
         <1>24, <1>25, <1>26, <1>27, <1>28, <1>29, <1>30, <1>31, <1>32, <1>33, <1>34,
         <1>35, <1>36, <1>37, <1>38, <1>39, <1>40, <1>41, <1>42, <1>43, <1>44, <1>45,
         <1>46, <1>47, <1>48
  DEF Next, WorkerStep, MonitorStep, EnqueueStep, StartStep, StopStep

(* Every node by itself is a TaskExecutor of the tasks sent to it: FIFO,   *)
(* each task at most once, nothing discarded while one of them runs.       *)
THEOREM NodesAreExecutors == Spec => NodesImplementExecutor
<1>1. Init => \A n \in Nodes : Executor(n)!Init
  BY DEF Init, Executor!Init, FateAt
<1>2. Inv /\ [Next]_vars
        => [\A n \in Nodes : UNCHANGED <<queue[n], FateAt(n)>> \/ Executor(n)!Next]_taskVars
  BY StepRefines DEF Refines
<1> QED BY InvHolds, <1>1, <1>2, PTL DEF Spec, NodesImplementExecutor

-----------------------------------------------------------------------------
(* Lost wakeups *)

(* The tasks_mutex of a node is held by one worker on its way to sleep,    *)
(* which has found the queue empty, or by the monitor; and no worker that  *)
(* was told to leave sleeps while the pool runs.                           *)
ParkState ==
  /\ \A i, j \in Slots :
       wpc[i] = "parking" /\ wpc[j] = "parking" /\ node[i] = node[j] => i = j
  /\ \A i \in Slots : wpc[i] = "parking" => queue[node[i]] = <<>>
  /\ mpc \in {"expand", "spawn", "push", "shrink"}
       => \A i \in Slots : node[i] = mnode => wpc[i] # "parking"
  /\ running => \A i \in exiting : wpc[i] \notin {"parking", "waiting"}

(* Nobody new goes to sleep in a step, and no sleeper changes its node. *)
NoNewSleeper ==
  \A i \in Slots : wpc'[i] \in {"parking", "waiting"} => wpc'[i] = wpc[i] /\ node'[i] = node[i]

(* The steps of workers outside the sections guarded by tasks_mutex. *)
LEMMA WorkerMoves ==
  ASSUME TypeOK, NEW i \in Slots,
         \/ WorkerEnter(i) \/ WorkerBind(i) \/ WorkerBindFails(i) \/ WorkerCount(i)
         \/ WorkerTest(i) \/ WorkerWake(i) \/ WorkerFinish(i) \/ WorkerThrow(i)
         \/ WorkerRetire(i) \/ WorkerUncount(i) \/ WorkerSpuriousWakeup(i)
  PROVE  /\ UNCHANGED <<poolVars, node, exiting, queue, mpc, mnode, ppc, dest, cpc, at>>
         /\ \E to \in WorkerPCs \ {"parking", "waiting"} : wpc' = [wpc EXCEPT ![i] = to]
         /\ wpc[i] \notin {"lock", "pop"}
         /\ wpc[i] = "woke" => wpc'[i] = "pop" \/ ShallLeave(i)
<1>1. UNCHANGED <<poolVars, node, exiting, queue, mpc, mnode, ppc, dest, cpc, at>>
  BY DEF WorkerEnter, WorkerBind, WorkerBindFails, WorkerCount, WorkerTest, WorkerWake,
    WorkerFinish, WorkerThrow, EndTask, WorkerRetire, WorkerUncount, WorkerSpuriousWakeup,
    Elsewhere, poolVars, nodeVars, flagVars, monVars, prodVars, ctlVars, taskVars
<1>2. \E to \in WorkerPCs \ {"parking", "waiting"} : wpc' = [wpc EXCEPT ![i] = to]
  BY DEF WorkerEnter, WorkerBind, WorkerBindFails, WorkerCount, WorkerTest, WorkerWake,
    WorkerFinish, WorkerThrow, WorkerRetire, WorkerUncount, WorkerSpuriousWakeup, Go,
    WorkerPCs, Ended
<1>3. /\ wpc[i] \notin {"lock", "pop"}
      /\ wpc[i] = "woke" => wpc'[i] = "pop" \/ ShallLeave(i)
  BY DEF WorkerEnter, WorkerBind, WorkerBindFails, WorkerCount, WorkerTest, WorkerWake,
    WorkerFinish, WorkerThrow, WorkerRetire, WorkerUncount, WorkerSpuriousWakeup, Go, TypeOK
<1> QED BY <1>1, <1>2, <1>3

(* A thread is started for a slot that has none, a Worker is pushed for a  *)
(* thread that does not sleep.                                             *)
LEMMA SpawnMoves ==
  ASSUME Inv, MonitorSpawn \/ StartWorker
  PROVE  /\ NoNewSleeper /\ node' = node
         /\ \A i \in Slots : wpc'[i] = wpc[i] \/ wpc[i] = "none"
<1>1. size + 1 \in Slots /\ ~Pushing /\ StartThread /\ node' = node
  BY MonitorRoom, StartRoom
  DEF MonitorSpawn, StartWorker, Inv, PhaseState, Pushing, nodeVars
<1>2. /\ wpc[size + 1] = "none" /\ wpc'[size + 1] = "entry"
      /\ \A i \in Slots : i # size + 1 => wpc'[i] = wpc[i]
  BY <1>1, StartThreadSlot DEF Inv
<1> QED BY <1>1, <1>2 DEF NoNewSleeper

LEMMA PushMoves ==
  ASSUME Inv, MonitorPush \/ StartPush
  PROVE  /\ NoNewSleeper /\ wpc' = wpc
         /\ \A i \in Slots : node'[i] = node[i] \/ wpc[i] \in {"entry", "returned"}
<1>1. /\ Pushing /\ wpc' = wpc
      /\ \E n \in Nodes : PushWorker(n)
  <2>1. CASE MonitorPush
    BY <2>1 DEF MonitorPush, Pushing, Inv, TypeOK
  <2>2. CASE StartPush
    <3>1. at < InitialWorkers /\ at \in Nat
      BY <2>2 DEF StartPush, Inv, LimitState, TypeOK
    <3>2. at \div MinPerNode \in Nodes
      BY <3>1, NodeOfSlot
    <3> QED BY <2>2, <3>2 DEF StartPush, Pushing
  <2> QED BY <2>1, <2>2
<1>2. PICK n \in Nodes : PushWorker(n)
  BY <1>1
<1>3. /\ wpc[size + 1] \in {"entry", "returned"}
      /\ \A i \in Slots : i # size + 1 => node'[i] = node[i]
  BY <1>1, <1>2, PushFields DEF Inv
<1> QED BY <1>1, <1>3 DEF NoNewSleeper

(* Steps that leave the workers, the queues and the marks alone. *)
Still ==
  \/ MonitorTop \/ MonitorNode \/ MonitorExpand \/ MonitorSpawnFails \/ MonitorCheck
  \/ MonitorPark \/ MonitorTimeout \/ StartMonitor \/ StartFails
  \/ \E pol \in Policies : StopCall(pol)
  \/ StopSignalMonitor \/ StopJoinMonitor \/ StopHalt \/ StopPoll \/ StopLock
  \/ StopJoin \/ UNCHANGED vars

LEMMA StillFrame ==
  ASSUME Still PROVE UNCHANGED <<wpc, node, queue, ppc, dest, exiting>>
BY DEF Still, MonitorTop, MonitorNode, MonitorExpand, MonitorSpawnFails, MonitorCheck,
  MonitorPark, MonitorTimeout, StartMonitor, StartFails, StopCall,
  StopSignalMonitor, StopJoinMonitor, StopHalt, StopPoll, StopLock, StopJoin,
  vars, nodeVars, taskVars, prodVars, flagVars

LEMMA ParkStep == Inv /\ ParkState /\ [Next]_vars => ParkState'
<1> SUFFICES ASSUME Inv, ParkState, [Next]_vars PROVE ParkState'
  OBVIOUS
<1> DEFINE Holding == mpc \in {"expand", "spawn", "push", "shrink"}
<1>1. ASSUME NoNewSleeper, UNCHANGED <<queue, exiting>>, running' => running,
             Holding' => (Holding \/ NodeMutexFree(mnode)) /\ mnode' = mnode,
             \A i \in Slots : node'[i] = node[i] \/ wpc'[i] \notin {"parking", "waiting"}
      PROVE  ParkState'
  BY <1>1 DEF NoNewSleeper, ParkState, NodeMutexFree, Inv, TypeOK
<1>2. ASSUME NEW i \in Slots,
             \/ WorkerEnter(i) \/ WorkerBind(i) \/ WorkerBindFails(i) \/ WorkerCount(i)
             \/ WorkerTest(i) \/ WorkerWake(i) \/ WorkerFinish(i) \/ WorkerThrow(i)
             \/ WorkerRetire(i) \/ WorkerUncount(i) \/ WorkerSpuriousWakeup(i)
      PROVE  ParkState'
  <2>1. /\ UNCHANGED <<poolVars, node, exiting, queue, mpc, mnode>>
        /\ \E to \in WorkerPCs \ {"parking", "waiting"} : wpc' = [wpc EXCEPT ![i] = to]
    BY <1>2, WorkerMoves DEF Inv
  <2>2. NoNewSleeper
    BY <2>1 DEF NoNewSleeper, Inv, TypeOK
  <2> QED BY <1>1, <2>1, <2>2 DEF poolVars
<1>3. ASSUME NEW i \in Slots, WorkerCheck(i) PROVE ParkState'
  <2>1. UNCHANGED <<running, node, exiting, queue, mpc, mnode>>
    BY <1>3 DEF WorkerCheck, Elsewhere, poolVars, nodeVars, flagVars, monVars, taskVars
  <2>2. NodeMutexFree(node[i]) /\ node[i] \in Nodes
    BY <1>3 DEF WorkerCheck, QueueOf, Inv, TypeOK
  <2>3. wpc' = [wpc EXCEPT ![i] = IF queue[node[i]] # <<>> \/ ShallLeave(i)
                                    THEN "woke" ELSE "parking"]
    BY <1>3 DEF WorkerCheck, Go, QueueOf
  <2>4. CASE queue[node[i]] # <<>> \/ ShallLeave(i)
    <3>1. wpc' = [wpc EXCEPT ![i] = "woke"]
      BY <2>3, <2>4
    <3> QED BY <2>1, <2>2, <3>1 DEF ParkState, NodeMutexFree, Inv, TypeOK
  <2>5. CASE ~(queue[node[i]] # <<>> \/ ShallLeave(i))
    <3>1. wpc' = [wpc EXCEPT ![i] = "parking"]
      BY <2>3, <2>5
    <3>2. queue[node[i]] = <<>> /\ (running => i \notin exiting)
      BY <2>5 DEF ShallLeave
    <3> QED BY <2>1, <2>2, <3>1, <3>2 DEF ParkState, NodeMutexFree, Inv, TypeOK
  <2> QED BY <2>4, <2>5
<1>4. ASSUME NEW i \in Slots, WorkerPark(i) PROVE ParkState'
  <2>1. /\ UNCHANGED <<poolVars, node, exiting, queue, mpc, mnode>>
        /\ wpc[i] = "parking" /\ wpc' = [wpc EXCEPT ![i] = "waiting"]
    BY <1>4 DEF WorkerPark, Go, Elsewhere, poolVars, nodeVars, flagVars, monVars, taskVars
  <2> QED BY <2>1 DEF ParkState, poolVars, Inv, TypeOK
<1>5. ASSUME NEW i \in Slots, WorkerPop(i) PROVE ParkState'
  <2>1. /\ UNCHANGED <<poolVars, node, exiting, mpc, mnode>>
        /\ NodeMutexFree(node[i]) /\ node[i] \in Nodes
        /\ wpc' = [wpc EXCEPT ![i] = "run"]
        /\ \A n \in Nodes : n # node[i] => queue'[n] = queue[n]
    BY <1>5 DEF WorkerPop, Go, QueueOf, Elsewhere, poolVars, nodeVars, flagVars, monVars,
      taskVars, Inv, TypeOK
  <2> QED BY <2>1 DEF ParkState, NodeMutexFree, poolVars, Inv, TypeOK
<1>6. ASSUME NEW i \in Slots, WorkerPopNothing(i) PROVE ParkState'
  <2>1. /\ UNCHANGED <<poolVars, node, exiting, queue, mpc, mnode>>
        /\ wpc' = [wpc EXCEPT ![i] = "test"]
    BY <1>6 DEF WorkerPopNothing, Go, Elsewhere, poolVars, nodeVars, flagVars, monVars,
      taskVars
  <2> QED BY <2>1 DEF ParkState, poolVars, Inv, TypeOK
<1>7. ASSUME NEW i \in Slots, WorkerFault(i) PROVE ParkState'
  BY <1>7 DEF WorkerFault, ParkState, poolVars, nodeVars, flagVars, monVars, taskVars
<1>8. ASSUME MonitorSpawn \/ StartWorker PROVE ParkState'
  <2>1. /\ UNCHANGED <<poolVars, queue, exiting, mnode>> /\ (Holding' => Holding)
    BY <1>8 DEF MonitorSpawn, StartWorker, flagVars, monVars, taskVars, poolVars
  <2> QED BY <1>1, <1>8, <2>1, SpawnMoves DEF poolVars
<1>9. ASSUME MonitorPush \/ StartPush PROVE ParkState'
  <2>1. /\ UNCHANGED <<poolVars, queue, exiting>>
        /\ (Holding' => Holding /\ mnode' = mnode)
    BY <1>9, Constants DEF MonitorPush, StartPush, NextNode, flagVars, monVars, taskVars, poolVars,
      Inv, TypeOK
  <2> QED BY <1>1, <1>9, <2>1, PushMoves DEF poolVars, NoNewSleeper
<1>10. ASSUME Still PROVE ParkState'
  <2>1. UNCHANGED <<wpc, node, queue, exiting>>
    BY <1>10, StillFrame
  <2>4. running' => running
    BY <1>10 DEF Still, MonitorTop, MonitorNode, MonitorExpand, MonitorSpawnFails,
      MonitorCheck, MonitorPark, MonitorTimeout, StartMonitor, StartFails, StopCall,
      StopSignalMonitor, StopJoinMonitor, StopHalt, StopPoll, StopLock, StopJoin, vars,
      poolVars
  <2>2. Holding' => (Holding \/ NodeMutexFree(mnode)) /\ mnode' = mnode
    BY <1>10 DEF Still, MonitorTop, MonitorNode, MonitorExpand, NextNode, MonitorSpawnFails,
      MonitorCheck, MonitorPark, MonitorTimeout, StartMonitor, StartFails, StopCall,
      StopSignalMonitor, NotifyMonitor, StopJoinMonitor, StopHalt, StopPoll, StopLock,
      StopJoin, vars, monVars
  <2>3. NoNewSleeper
    BY <2>1 DEF NoNewSleeper
  <2> QED BY <1>1, <2>1, <2>2, <2>3, <2>4
<1>11. ASSUME StartCall PROVE ParkState'
  BY <1>11 DEF StartCall, ParkState, nodeVars, flagVars, monVars, taskVars, Inv, TypeOK,
    PhaseState, Quiescent
<1>12. ASSUME StopMark PROVE ParkState'
  BY <1>12 DEF StopMark, ParkState, nodeVars, poolVars, monVars, taskVars, Inv, PhaseState
<1>13. ASSUME MonitorShrink PROVE ParkState'
  <2>1. /\ UNCHANGED <<node, queue, running>> /\ ~Holding' /\ mpc = "shrink"
        /\ mnode \in Nodes
    BY <1>13 DEF MonitorShrink, NextNode, nodeVars, taskVars, poolVars, Inv, TypeOK
  <2>2. CASE UNCHANGED <<exiting, wpc>>
    BY <2>1, <2>2 DEF ParkState
  <2>3. CASE NotifyAllOn(mnode) /\ \E S \in SUBSET {i \in valid \cap idle : i <= size
                                                     /\ node[i] = mnode} :
                                      exiting' = exiting \cup S
    <3>1. \A i \in Slots : wpc'[i] = wpc[i] \/ (wpc[i] = "waiting" /\ wpc'[i] = "lock")
      BY <2>3, NotifyMoves DEF Inv
    <3>2. \A i \in Slots : node[i] = mnode => wpc'[i] \notin {"parking", "waiting"}
      BY <2>1, <2>3, <3>1 DEF NotifyAllOn, WaitingOn, ParkState
    <3>3. \A i \in exiting' : i \in exiting \/ node[i] = mnode
      BY <2>3
    <3>4. exiting' \subseteq Slots
      BY <2>3 DEF Inv, TypeOK
    <3> QED BY <2>1, <3>1, <3>2, <3>3, <3>4 DEF ParkState
  <2> QED BY <1>13, <2>2, <2>3 DEF MonitorShrink
<1>14. ASSUME NEW p \in Producers, EnqueuePush(p) PROVE ParkState'
  <2>1. /\ UNCHANGED <<poolVars, node, exiting, wpc, mpc, mnode>>
        /\ NodeMutexFree(dest[p])
        /\ \A n \in Nodes : n # dest[p] => queue'[n] = queue[n]
    BY <1>14 DEF EnqueuePush, nodeVars, flagVars, monVars, Inv, TypeOK, poolVars
  <2> QED BY <2>1 DEF ParkState, NodeMutexFree, poolVars, Inv, TypeOK
<1>15. ASSUME (\E p \in Producers : EnqueueNotify(p)) \/ StopWake PROVE ParkState'
  <2>1. /\ UNCHANGED <<poolVars, node, exiting, queue, mpc, mnode>>
        /\ \A i \in Slots : wpc'[i] = wpc[i] \/ (wpc[i] = "waiting" /\ wpc'[i] = "lock")
    BY <1>15, NotifyMoves DEF EnqueueNotify, StopWake, nodeVars, flagVars, monVars, taskVars,
      poolVars, Inv
  <2>2. NoNewSleeper
    BY <2>1 DEF NoNewSleeper
  <2> QED BY <1>1, <2>1, <2>2 DEF poolVars
<1>16. ASSUME NEW p \in Producers,
              \/ EnqueueRoute(p)
              \/ \E t \in Tasks, n \in Nodes : Enqueue(p, t, n) \/ EnqueueToNumaNode(p, t, n)
       PROVE  ParkState'
  BY <1>16 DEF EnqueueRoute, Enqueue, EnqueueToNumaNode, ParkState, nodeVars, flagVars,
    monVars, poolVars
<1>17. ASSUME StopClear PROVE ParkState'
  BY <1>17 DEF StopClear, ParkState, nodeVars, monVars, taskVars, poolVars
<1>18. ASSUME StopDrop PROVE ParkState'
  <2>1. /\ UNCHANGED <<poolVars, node, exiting, wpc, mpc, mnode>>
        /\ \A n \in Nodes : queue'[n] \in {queue[n], <<>>}
    BY <1>18 DEF StopDrop, nodeVars, flagVars, monVars, poolVars, Inv, TypeOK
  <2> QED BY <2>1 DEF ParkState, poolVars, Inv, TypeOK
<1> QED BY <1>2, <1>3, <1>4, <1>5, <1>6, <1>7, <1>8, <1>9, <1>10, <1>11, <1>12, <1>13,
           <1>14, <1>15, <1>16, <1>17, <1>18
  DEF Next, WorkerStep, MonitorStep, EnqueueStep, StartStep, StopStep, Still

LEMMA MissStep == Inv /\ ParkState /\ OneMissesStop /\ [Next]_vars => OneMissesStop'
<1> SUFFICES ASSUME Inv, ParkState, OneMissesStop, [Next]_vars PROVE OneMissesStop'
  OBVIOUS
<1> DEFINE StillAsleep ==
             \A i \in Slots : wpc'[i] \in {"parking", "waiting"}
                => wpc[i] \in {"parking", "waiting"} /\ node'[i] = node[i]
<1>1. ASSUME StillAsleep, \A n \in Nodes : StopNotified(n)' => StopNotified(n)
      PROVE  OneMissesStop'
  BY <1>1 DEF OneMissesStop, AsleepOn
<1>2. NoNewSleeper => StillAsleep
  BY DEF NoNewSleeper
<1>3. UNCHANGED <<cpc, at>> => \A n \in Nodes : StopNotified(n)' => StopNotified(n)
  BY DEF StopNotified
<1>4. ASSUME NEW i \in Slots,
             \/ WorkerEnter(i) \/ WorkerBind(i) \/ WorkerBindFails(i) \/ WorkerCount(i)
             \/ WorkerTest(i) \/ WorkerWake(i) \/ WorkerFinish(i) \/ WorkerThrow(i)
             \/ WorkerRetire(i) \/ WorkerUncount(i) \/ WorkerSpuriousWakeup(i)
      PROVE  OneMissesStop'
  <2>1. /\ UNCHANGED <<node, cpc, at>>
        /\ \E to \in WorkerPCs \ {"parking", "waiting"} : wpc' = [wpc EXCEPT ![i] = to]
    BY <1>4, WorkerMoves DEF Inv
  <2>2. StillAsleep
    BY <2>1 DEF Inv, TypeOK
  <2> QED BY <1>1, <1>3, <2>1, <2>2
<1>5. ASSUME NEW i \in Slots, WorkerCheck(i) PROVE OneMissesStop'
  <2>1. UNCHANGED <<node, cpc, at>>
    BY <1>5 DEF WorkerCheck, Elsewhere, nodeVars, ctlVars
  <2>2. CASE running
    <3>1. \A n \in Nodes : ~StopNotified(n)'
      BY <2>1, <2>2 DEF StopNotified, Inv, PhaseState
    <3> QED BY <3>1 DEF OneMissesStop
  <2>3. CASE ~running
    <3>1. wpc' = [wpc EXCEPT ![i] = "woke"]
      BY <1>5, <2>3 DEF WorkerCheck, Go, ShallLeave
    <3>2. StillAsleep
      BY <2>1, <3>1 DEF Inv, TypeOK
    <3> QED BY <1>1, <1>3, <2>1, <3>2
  <2> QED BY <2>2, <2>3
<1>6. ASSUME NEW i \in Slots, WorkerPark(i) \/ WorkerPop(i) \/ WorkerPopNothing(i)
      PROVE  OneMissesStop'
  <2>1. UNCHANGED <<node, cpc, at>>
    BY <1>6 DEF WorkerPark, WorkerPop, WorkerPopNothing, Elsewhere, nodeVars, ctlVars
  <2>2. StillAsleep
    BY <1>6, <2>1 DEF WorkerPark, WorkerPop, WorkerPopNothing, Go, Inv, TypeOK
  <2> QED BY <1>1, <1>3, <2>1, <2>2
<1>7. ASSUME \/ \E i \in Slots : WorkerFault(i)
             \/ \E p \in Producers :
                  \/ EnqueuePush(p) \/ EnqueueRoute(p)
                  \/ \E t \in Tasks, n \in Nodes : Enqueue(p, t, n) \/ EnqueueToNumaNode(p, t, n)
      PROVE  OneMissesStop'
  <2>1. UNCHANGED <<wpc, node, cpc, at>>
    BY <1>7 DEF WorkerFault, EnqueuePush, EnqueueRoute, Enqueue, EnqueueToNumaNode, nodeVars,
      ctlVars
  <2> QED BY <1>1, <1>3, <2>1
<1>8. ASSUME MonitorSpawn \/ StartWorker PROVE OneMissesStop'
  <2>1. \A n \in Nodes : StopNotified(n)' => StopNotified(n)
    BY <1>8 DEF MonitorSpawn, StartWorker, StopNotified, ctlVars
  <2> QED BY <1>1, <1>2, <1>8, <2>1, SpawnMoves
<1>9. ASSUME MonitorPush \/ StartPush PROVE OneMissesStop'
  <2>1. \A n \in Nodes : StopNotified(n)' => StopNotified(n)
    BY <1>9 DEF MonitorPush, StartPush, StopNotified, ctlVars
  <2> QED BY <1>1, <1>2, <1>9, <2>1, PushMoves
<1>10. ASSUME Still PROVE OneMissesStop'
  <2>1. \A n \in Nodes : StopNotified(n)' => StopNotified(n)
    BY <1>10 DEF Still, MonitorTop, MonitorNode, MonitorExpand, MonitorSpawnFails,
      MonitorCheck, MonitorPark, MonitorTimeout, StartMonitor, StartFails, StopCall,
      StopSignalMonitor, StopJoinMonitor, StopHalt, StopPoll, StopLock, StopJoin, vars,
      ctlVars, StopNotified, Nodes
  <2> QED BY <1>1, <1>10, <2>1, StillFrame
<1>11. ASSUME StartCall \/ StopMark PROVE OneMissesStop'
  <2>1. UNCHANGED <<wpc, node>> /\ \A n \in Nodes : StopNotified(n)' => StopNotified(n)
    BY <1>11 DEF StartCall, StopMark, StopNotified, nodeVars
  <2> QED BY <1>1, <2>1
<1>12. ASSUME MonitorShrink PROVE OneMissesStop'
  <2>1. UNCHANGED <<node, cpc, at>>
    BY <1>12 DEF MonitorShrink, nodeVars, ctlVars
  <2>2. StillAsleep
    BY <1>12, <2>1, NotifyMoves DEF MonitorShrink, Inv
  <2> QED BY <1>1, <1>3, <2>1, <2>2
<1>13. ASSUME NEW p \in Producers, EnqueueNotify(p) PROVE OneMissesStop'
  <2>1. UNCHANGED <<node, cpc, at>>
    BY <1>13 DEF EnqueueNotify, nodeVars, ctlVars
  <2>2. StillAsleep
    BY <1>13, <2>1, NotifyMoves DEF EnqueueNotify, Inv
  <2> QED BY <1>1, <1>3, <2>1, <2>2
<1>14. ASSUME StopWake PROVE OneMissesStop'
  <2>1. /\ cpc = "wake" /\ at \in Nodes /\ NotifyAllOn(at) /\ node' = node
        /\ \A i \in Slots : wpc'[i] = wpc[i] \/ (wpc[i] = "waiting" /\ wpc'[i] = "lock")
    BY <1>14, NotifyMoves DEF StopWake, nodeVars, Inv, PhaseState
  <2>2. \A i \in Slots : node[i] = at => wpc'[i] # "waiting"
    BY <2>1 DEF NotifyAllOn, WaitingOn
  <2>3. \A n \in Nodes : StopNotified(n)' => StopNotified(n) \/ n = at
    BY <1>14, <2>1 DEF StopWake, StopNotified, Nodes, LastNode
  <2>4. ASSUME NEW n \in Nodes, StopNotified(n)', NEW i \in AsleepOn(n)', NEW j \in AsleepOn(n)'
        PROVE  i = j
    <3>1. i \in AsleepOn(n) /\ j \in AsleepOn(n)
      BY <2>1, <2>4 DEF AsleepOn
    <3>2. CASE StopNotified(n)
      BY <3>1, <3>2 DEF OneMissesStop
    <3>3. CASE n = at
      BY <2>1, <2>2, <2>4, <3>1, <3>3 DEF AsleepOn, ParkState
    <3> QED BY <2>3, <2>4, <3>2, <3>3
  <2> QED BY <2>4 DEF OneMissesStop
<1>15. ASSUME StopClear \/ StopDrop PROVE OneMissesStop'
  <2>1. \A n \in Nodes : ~StopNotified(n)'
    BY <1>15 DEF StopClear, StopDrop, StopNotified
  <2> QED BY <2>1 DEF OneMissesStop
<1> QED BY <1>4, <1>5, <1>6, <1>7, <1>8, <1>9, <1>10, <1>11, <1>12, <1>13, <1>14, <1>15
  DEF Next, WorkerStep, MonitorStep, EnqueueStep, StartStep, StopStep, Still

(* Once Stop has notified a node, at most one of its workers sleeps.       *)
THEOREM AtMostOneMissesStop == Spec => []OneMissesStop
<1>1. Init => ParkState /\ OneMissesStop
  BY DEF Init, ParkState, OneMissesStop, StopNotified
<1> QED BY InvHolds, <1>1, ParkStep, MissStep, PTL DEF Spec

(* NoWakeupLost of one node. *)
Covered(n) ==
  running /\ WaitingOn(n) # {}
    => Len(queue[n]) <= Cardinality(NotifiersOf(n)) + Cardinality(AwakeOn(n))

(* A step that leaves the node's queue and its notifiers alone, puts       *)
(* nobody to sleep there and takes nobody away who is awake.               *)
Spared(n) ==
  /\ running' => running
  /\ queue'[n] = queue[n] /\ NotifiersOf(n)' = NotifiersOf(n)
  /\ WaitingOn(n)' \subseteq WaitingOn(n) /\ AwakeOn(n) \subseteq AwakeOn(n)'

LEMMA AwakeFinite ==
  ASSUME IsFiniteSet(Producers), NEW n
  PROVE  /\ IsFiniteSet(NotifiersOf(n)) /\ Cardinality(NotifiersOf(n)) \in Nat
         /\ IsFiniteSet(AwakeOn(n)) /\ Cardinality(AwakeOn(n)) \in Nat
BY SlotsFinite, FS_Subset, FS_CardinalityType DEF NotifiersOf, AwakeOn

LEMMA AwakeFinitePrime ==
  ASSUME IsFiniteSet(Producers), NEW n
  PROVE  /\ IsFiniteSet(NotifiersOf(n)') /\ Cardinality(NotifiersOf(n)') \in Nat
         /\ IsFiniteSet(AwakeOn(n)') /\ Cardinality(AwakeOn(n)') \in Nat
BY SlotsFinite, FS_Subset, FS_CardinalityType DEF NotifiersOf, AwakeOn

LEMMA SparedCovered ==
  ASSUME IsFiniteSet(Producers), TypeOK, NEW n \in Nodes, Covered(n), Spared(n)
  PROVE  Covered(n)'
<1>1. Len(queue[n]) \in Nat
  BY DEF TypeOK
<1>2. Cardinality(AwakeOn(n)) <= Cardinality(AwakeOn(n)')
  BY AwakeFinitePrime, FS_Subset DEF Spared
<1>3. /\ Cardinality(AwakeOn(n)) \in Nat /\ Cardinality(AwakeOn(n)') \in Nat
      /\ Cardinality(NotifiersOf(n)) \in Nat
  BY AwakeFinite, AwakeFinitePrime
<1>4. CASE WaitingOn(n)' # {} /\ running'
  BY <1>1, <1>2, <1>3, <1>4 DEF Covered, Spared
<1>5. CASE ~(WaitingOn(n)' # {} /\ running')
  BY <1>5 DEF Covered
<1> QED BY <1>4, <1>5

(* The cases in which nothing has to be counted. *)
LEMMA EasilyCovered ==
  ASSUME IsFiniteSet(Producers), NEW n \in Nodes,
         ~running' \/ queue'[n] = <<>> \/ WaitingOn(n)' = {}
  PROVE  Covered(n)'
<1>1. CASE queue'[n] = <<>>
  BY <1>1, AwakeFinitePrime DEF Covered
<1>2. CASE ~running' \/ WaitingOn(n)' = {}
  BY <1>2 DEF Covered
<1> QED BY <1>1, <1>2

LEMMA CoverStep ==
  ASSUME IsFiniteSet(Producers), Inv, ParkState, NoWakeupLost, [Next]_vars, NEW n \in Nodes
  PROVE  Covered(n)'
<1>0. Covered(n) /\ TypeOK
  BY DEF NoWakeupLost, Covered, Inv
<1>1. Spared(n) => Covered(n)'
  BY <1>0, SparedCovered
<1>2. UNCHANGED <<ppc, dest>> => NotifiersOf(n)' = NotifiersOf(n)
  BY DEF NotifiersOf
<1>3. ASSUME UNCHANGED <<ppc, dest, queue, exiting>>, running' => running, NoNewSleeper,
             \A i \in Slots : wpc[i] \in {"lock", "woke", "pop"} =>
                wpc'[i] \in {"lock", "woke", "pop"} /\ node'[i] = node[i]
      PROVE  Covered(n)'
  BY <1>1, <1>2, <1>3 DEF Spared, NoNewSleeper, WaitingOn, AwakeOn
<1>4. ASSUME NEW i \in Slots,
             \/ WorkerEnter(i) \/ WorkerBind(i) \/ WorkerBindFails(i) \/ WorkerCount(i)
             \/ WorkerTest(i) \/ WorkerWake(i) \/ WorkerFinish(i) \/ WorkerThrow(i)
             \/ WorkerRetire(i) \/ WorkerUncount(i) \/ WorkerSpuriousWakeup(i)
      PROVE  Covered(n)'
  <2>1. /\ UNCHANGED <<running, node, exiting, queue, ppc, dest>>
        /\ \E to \in WorkerPCs \ {"parking", "waiting"} : wpc' = [wpc EXCEPT ![i] = to]
        /\ wpc[i] \notin {"lock", "pop"}
        /\ wpc[i] = "woke" => wpc'[i] = "pop" \/ ShallLeave(i)
    BY <1>4, WorkerMoves DEF Inv, poolVars
  <2>2. WaitingOn(n)' \subseteq WaitingOn(n)
    BY <2>1 DEF WaitingOn, Inv, TypeOK
  <2>3. CASE running
    <3>1. AwakeOn(n) \subseteq AwakeOn(n)'
      BY <2>1, <2>3 DEF AwakeOn, ShallLeave, Inv, TypeOK
    <3> QED BY <1>1, <1>2, <2>1, <2>2, <3>1 DEF Spared
  <2>4. CASE ~running
    BY <2>1, <2>4, EasilyCovered
  <2> QED BY <2>3, <2>4
<1>5. ASSUME NEW i \in Slots, WorkerCheck(i) PROVE Covered(n)'
  <2>1. UNCHANGED <<running, node, exiting, queue, ppc, dest>> /\ wpc[i] = "lock"
    BY <1>5 DEF WorkerCheck, Go, Elsewhere, poolVars, nodeVars, flagVars, prodVars, taskVars
  <2>2. CASE queue[node[i]] # <<>> \/ ShallLeave(i)
    <3>1. wpc' = [wpc EXCEPT ![i] = "woke"]
      BY <1>5, <2>2 DEF WorkerCheck, Go, QueueOf
    <3>2. /\ NoNewSleeper
          /\ \A j \in Slots : wpc[j] \in {"lock", "woke", "pop"}
                                => wpc'[j] \in {"lock", "woke", "pop"}
      BY <2>1, <3>1 DEF NoNewSleeper, Inv, TypeOK
    <3> QED BY <1>3, <2>1, <3>2
  <2>3. CASE ~(queue[node[i]] # <<>> \/ ShallLeave(i))
    <3>1. wpc' = [wpc EXCEPT ![i] = "parking"] /\ queue[node[i]] = <<>>
      BY <1>5, <2>3 DEF WorkerCheck, Go, QueueOf
    <3>2. CASE n = node[i]
      BY <2>1, <3>1, <3>2, EasilyCovered
    <3>3. CASE n # node[i]
      <4>1. WaitingOn(n)' = WaitingOn(n) /\ AwakeOn(n)' = AwakeOn(n)
        BY <2>1, <3>1, <3>3 DEF WaitingOn, AwakeOn, Inv, TypeOK
      <4> QED BY <1>1, <1>2, <2>1, <4>1 DEF Spared
    <3> QED BY <3>2, <3>3
  <2> QED BY <2>2, <2>3
<1>6. ASSUME NEW i \in Slots, WorkerPark(i) PROVE Covered(n)'
  <2>1. /\ UNCHANGED <<running, node, exiting, queue, ppc, dest>>
        /\ wpc[i] = "parking" /\ wpc' = [wpc EXCEPT ![i] = "waiting"]
    BY <1>6 DEF WorkerPark, Go, Elsewhere, poolVars, nodeVars, flagVars, prodVars, taskVars
  <2>2. CASE n = node[i]
    BY <2>1, <2>2, EasilyCovered DEF ParkState
  <2>3. CASE n # node[i]
    <3>1. WaitingOn(n)' = WaitingOn(n) /\ AwakeOn(n)' = AwakeOn(n)
      BY <2>1, <2>3 DEF WaitingOn, AwakeOn, Inv, TypeOK
    <3> QED BY <1>1, <1>2, <2>1, <3>1 DEF Spared
  <2> QED BY <2>2, <2>3
<1>7. ASSUME NEW i \in Slots, WorkerPop(i) PROVE Covered(n)'
  <2>1. /\ UNCHANGED <<running, node, exiting, ppc, dest>>
        /\ wpc[i] = "pop" /\ wpc' = [wpc EXCEPT ![i] = "run"]
        /\ queue[node[i]] # <<>>
    BY <1>7 DEF WorkerPop, Go, QueueOf, Elsewhere, poolVars, nodeVars, flagVars, prodVars
  <2>2. queue' = [queue EXCEPT ![node[i]] = Tail(queue[node[i]])]
    BY <1>7 DEF WorkerPop, QueueOf, QueueAfterPop
  <2>3. WaitingOn(n)' = WaitingOn(n) /\ AwakeOn(n)' = AwakeOn(n) \ {i}
    BY <2>1 DEF WaitingOn, AwakeOn, Inv, TypeOK
  <2>4. CASE n # node[i]
    <3>1. queue'[n] = queue[n] /\ AwakeOn(n)' = AwakeOn(n)
      BY <2>2, <2>3, <2>4 DEF Inv, TypeOK, AwakeOn
    <3> QED BY <1>1, <1>2, <2>1, <2>3, <3>1 DEF Spared
  <2>5. CASE n = node[i]
    <3>1. queue[n] \in Seq(Tasks) /\ queue[n] # <<>> /\ queue'[n] = Tail(queue[n])
      BY <2>1, <2>2, <2>5 DEF Inv, TypeOK
    <3>2. Len(queue'[n]) = Len(queue[n]) - 1 /\ Len(queue[n]) \in Nat
      BY <3>1
    <3>3. Cardinality(AwakeOn(n)') \in {Cardinality(AwakeOn(n)), Cardinality(AwakeOn(n)) - 1}
      BY <2>3, AwakeFinite, FS_RemoveElement
    <3> QED BY <1>0, <1>2, <2>1, <2>3, <3>2, <3>3, AwakeFinite DEF Covered
  <2> QED BY <2>4, <2>5
<1>8. ASSUME NEW i \in Slots, WorkerPopNothing(i) PROVE Covered(n)'
  <2>1. /\ UNCHANGED <<running, node, exiting, queue, ppc, dest>> /\ queue[node[i]] = <<>>
        /\ wpc[i] = "pop" /\ wpc' = [wpc EXCEPT ![i] = "test"]
    BY <1>8 DEF WorkerPopNothing, Go, QueueOf, Elsewhere, poolVars, nodeVars, flagVars,
      prodVars, taskVars
  <2>2. CASE n = node[i]
    BY <2>1, <2>2, EasilyCovered
  <2>3. CASE n # node[i]
    <3>1. WaitingOn(n)' = WaitingOn(n) /\ AwakeOn(n)' = AwakeOn(n)
      BY <2>1, <2>3 DEF WaitingOn, AwakeOn, Inv, TypeOK
    <3> QED BY <1>1, <1>2, <2>1, <3>1 DEF Spared
  <2> QED BY <2>2, <2>3
<1>9. ASSUME NEW i \in Slots, WorkerFault(i) PROVE Covered(n)'
  <2>1. UNCHANGED <<running, node, exiting, queue, ppc, dest, wpc>>
    BY <1>9 DEF WorkerFault, poolVars, nodeVars, flagVars, prodVars, taskVars
  <2> QED BY <1>3, <2>1 DEF NoNewSleeper
<1>10. ASSUME MonitorSpawn \/ StartWorker PROVE Covered(n)'
  <2>1. UNCHANGED <<running, exiting, queue, ppc, dest>>
    BY <1>10 DEF MonitorSpawn, StartWorker, poolVars, flagVars, prodVars, taskVars
  <2> QED BY <1>3, <1>10, <2>1, SpawnMoves
<1>11. ASSUME MonitorPush \/ StartPush PROVE Covered(n)'
  <2>1. UNCHANGED <<running, exiting, queue, ppc, dest>>
    BY <1>11 DEF MonitorPush, StartPush, poolVars, flagVars, prodVars, taskVars
  <2> QED BY <1>3, <1>11, <2>1, PushMoves
<1>12. ASSUME Still PROVE Covered(n)'
  <2>1. UNCHANGED <<wpc, node, queue, ppc, dest, exiting>>
    BY <1>12, StillFrame
  <2>2. running' => running
    BY <1>12 DEF Still, MonitorTop, MonitorNode, MonitorExpand, MonitorSpawnFails,
      MonitorCheck, MonitorPark, MonitorTimeout, StartMonitor, StartFails, StopCall,
      StopSignalMonitor, StopJoinMonitor, StopHalt, StopPoll, StopLock, StopJoin, vars,
      poolVars
  <2> QED BY <1>3, <2>1, <2>2 DEF NoNewSleeper
<1>13. ASSUME StartCall \/ StopMark \/ StopClear PROVE Covered(n)'
  <2>1. CASE StartCall \/ StopClear
    <3>1. WaitingOn(n)' = {}
      BY <2>1 DEF StartCall, StopClear, WaitingOn, Inv, PhaseState, Quiescent
    <3> QED BY <3>1, EasilyCovered
  <2>2. CASE StopMark
    BY <2>2, EasilyCovered DEF StopMark, poolVars, Inv, PhaseState
  <2> QED BY <1>13, <2>1, <2>2
<1>14. ASSUME MonitorShrink PROVE Covered(n)'
  <2>1. UNCHANGED <<running, node, queue, ppc, dest>> /\ mnode \in Nodes
    BY <1>14 DEF MonitorShrink, nodeVars, prodVars, taskVars, poolVars, Inv, TypeOK
  <2>2. CASE UNCHANGED <<exiting, wpc>>
    BY <1>3, <2>1, <2>2 DEF NoNewSleeper
  <2>3. CASE NotifyAllOn(mnode) /\ \E S \in SUBSET {i \in valid \cap idle : i <= size
                                                     /\ node[i] = mnode} :
                                      exiting' = exiting \cup S
    <3>1. \A i \in Slots : wpc'[i] = wpc[i] \/ (wpc[i] = "waiting" /\ wpc'[i] = "lock")
      BY <2>3, NotifyMoves DEF Inv
    <3>2. \A i \in Slots : i \in exiting' => i \in exiting \/ node[i] = mnode
      BY <2>3
    <3>3. CASE n = mnode
      <4>1. WaitingOn(n)' = {}
        BY <2>1, <2>3, <3>3 DEF NotifyAllOn, WaitingOn
      <4> QED BY <4>1, EasilyCovered
    <3>4. CASE n # mnode
      <4>1. WaitingOn(n)' \subseteq WaitingOn(n) /\ AwakeOn(n) \subseteq AwakeOn(n)'
        BY <2>1, <3>1, <3>2, <3>4 DEF WaitingOn, AwakeOn
      <4> QED BY <1>1, <1>2, <2>1, <4>1 DEF Spared
    <3> QED BY <3>3, <3>4
  <2> QED BY <1>14, <2>2, <2>3 DEF MonitorShrink
<1>15. ASSUME NEW p \in Producers, EnqueuePush(p) PROVE Covered(n)'
  <2>1. /\ UNCHANGED <<running, node, exiting, dest, wpc>> /\ ppc[p] = "push"
        /\ ppc' = [ppc EXCEPT ![p] = "notify"]
        /\ queue' = [queue EXCEPT ![dest[p]] = Append(@, hand[p])]
    BY <1>15 DEF EnqueuePush, poolVars, nodeVars, flagVars
  <2>2. WaitingOn(n)' = WaitingOn(n) /\ AwakeOn(n)' = AwakeOn(n)
    BY <2>1 DEF WaitingOn, AwakeOn
  <2>3. CASE n # dest[p]
    <3>1. queue'[n] = queue[n] /\ NotifiersOf(n)' = NotifiersOf(n)
      BY <2>1, <2>3 DEF NotifiersOf, Inv, TypeOK
    <3> QED BY <1>1, <2>1, <2>2, <3>1 DEF Spared
  <2>4. CASE n = dest[p]
    <3>1. queue[n] \in Seq(Tasks) /\ hand[p] \in Tasks /\ queue'[n] = Append(queue[n], hand[p])
      BY <2>1, <2>4 DEF Inv, TypeOK, TaskState, HandState
    <3>2. Len(queue'[n]) = Len(queue[n]) + 1 /\ Len(queue[n]) \in Nat
      BY <3>1
    <3>3. NotifiersOf(n)' = NotifiersOf(n) \cup {p} /\ p \notin NotifiersOf(n)
      BY <2>1, <2>4 DEF NotifiersOf, Inv, TypeOK
    <3>4. Cardinality(NotifiersOf(n)') = Cardinality(NotifiersOf(n)) + 1
      BY <3>3, AwakeFinite, FS_AddElement
    <3> QED BY <1>0, <2>1, <2>2, <3>2, <3>4, AwakeFinite DEF Covered
  <2> QED BY <2>3, <2>4
<1>16. ASSUME NEW p \in Producers, EnqueueNotify(p) PROVE Covered(n)'
  <2>1. /\ UNCHANGED <<running, node, exiting, dest, queue>> /\ ppc[p] = "notify"
        /\ ppc' = [ppc EXCEPT ![p] = "idle"] /\ NotifyOneOn(dest[p])
    BY <1>16 DEF EnqueueNotify, Notified, poolVars, nodeVars, flagVars, taskVars
  <2>2. CASE n # dest[p]
    <3>1. /\ NotifiersOf(n)' = NotifiersOf(n) /\ WaitingOn(n)' \subseteq WaitingOn(n)
          /\ AwakeOn(n) \subseteq AwakeOn(n)'
      BY <2>1, <2>2, NotifyMoves DEF NotifiersOf, WaitingOn, AwakeOn, Inv, TypeOK
    <3> QED BY <1>1, <2>1, <3>1 DEF Spared
  <2>3. CASE n = dest[p] /\ WaitingOn(n) = {}
    <3>1. WaitingOn(n)' = {}
      BY <2>1, <2>3 DEF NotifyOneOn, WaitingOn
    <3> QED BY <3>1, EasilyCovered
  <2>4. CASE n = dest[p] /\ WaitingOn(n) # {} /\ running
    <3>1. PICK i \in WaitingOn(n) : wpc' = [wpc EXCEPT ![i] = "lock"]
      BY <2>1, <2>4 DEF NotifyOneOn
    <3>2. i \notin exiting
      BY <2>4 DEF ParkState, WaitingOn
    <3>3. AwakeOn(n)' = AwakeOn(n) \cup {i} /\ i \notin AwakeOn(n)
      BY <2>1, <3>1, <3>2 DEF AwakeOn, WaitingOn, Inv, TypeOK
    <3>4. Cardinality(AwakeOn(n)') = Cardinality(AwakeOn(n)) + 1
      BY <3>3, AwakeFinite, FS_AddElement
    <3>5. NotifiersOf(n)' = NotifiersOf(n) \ {p} /\ p \in NotifiersOf(n)
      BY <2>1, <2>4 DEF NotifiersOf, Inv, TypeOK
    <3>6. Cardinality(NotifiersOf(n)') = Cardinality(NotifiersOf(n)) - 1
      BY <3>5, AwakeFinite, FS_RemoveElement
    <3>7. Len(queue[n]) \in Nat
      BY DEF Inv, TypeOK
    <3> QED BY <1>0, <2>1, <2>4, <3>4, <3>6, <3>7, AwakeFinite DEF Covered
  <2>5. CASE ~running
    BY <2>1, <2>5, EasilyCovered
  <2> QED BY <2>2, <2>3, <2>4, <2>5
<1>17. ASSUME NEW p \in Producers,
              \/ EnqueueRoute(p)
              \/ \E t \in Tasks, k \in Nodes : Enqueue(p, t, k) \/ EnqueueToNumaNode(p, t, k)
       PROVE  Covered(n)'
  <2>1. UNCHANGED <<running, node, exiting, queue, wpc>>
    BY <1>17 DEF EnqueueRoute, Enqueue, EnqueueToNumaNode, poolVars, nodeVars, flagVars
  <2>2. /\ ppc[p] # "notify" /\ ppc'[p] # "notify"
        /\ \A q \in Producers : q # p => ppc'[q] = ppc[q] /\ dest'[q] = dest[q]
    BY <1>17 DEF EnqueueRoute, Enqueue, EnqueueToNumaNode, Admit, Inv, TypeOK
  <2>3. /\ NotifiersOf(n)' = NotifiersOf(n) /\ WaitingOn(n)' = WaitingOn(n)
        /\ AwakeOn(n)' = AwakeOn(n)
    BY <2>1, <2>2 DEF NotifiersOf, WaitingOn, AwakeOn
  <2> QED BY <1>1, <2>1, <2>3 DEF Spared
<1>18. ASSUME StopWake PROVE Covered(n)'
  BY <1>18, EasilyCovered DEF StopWake, poolVars, Inv, PhaseState
<1>19. ASSUME StopDrop PROVE Covered(n)'
  BY <1>19, EasilyCovered DEF StopDrop, poolVars, Inv, PhaseState
<1> QED BY <1>4, <1>5, <1>6, <1>7, <1>8, <1>9, <1>10, <1>11, <1>12, <1>13, <1>14, <1>15,
           <1>16, <1>17, <1>18, <1>19
  DEF Next, WorkerStep, MonitorStep, EnqueueStep, StartStep, StopStep, Still

(* While a worker of a node sleeps, every task queued at the node has a    *)
(* notification that is still to come, or a worker of the node that is     *)
(* awake, has not been told to leave and will look for it.                 *)
THEOREM NoWakeupIsLost ==
  ASSUME IsFiniteSet(Producers)
  PROVE  Spec => []NoWakeupLost
<1>1. Init => ParkState /\ NoWakeupLost
  BY DEF Init, ParkState, NoWakeupLost
<1>2. Inv /\ ParkState /\ NoWakeupLost /\ [Next]_vars => NoWakeupLost'
  BY CoverStep DEF NoWakeupLost, Covered
<1> QED BY InvHolds, <1>1, ParkStep, <1>2, PTL DEF Spec

-----------------------------------------------------------------------------
(* Late tasks *)

(* Stop(WaitForAll) polls the queues or is past its poll. *)
Counting ==
  policy = "WaitForAll" /\ cpc \in {"poll", "lock", "join", "joining", "drop"}

(* The queued tasks of the nodes that the poll has counted. *)
Behind == {t \in Queued : cpc = "poll" => target[t] < at}

(* What strengthens LateTasksBounded: the bound holds all along the poll,  *)
(* for the nodes that it has passed.                                       *)
LateState ==
  Counting => Cardinality(Behind) + Cardinality(Pushers) <= Cardinality(Producers)

(* What is queued is finite, also when Tasks is not. *)
LEMMA QueuedFinite ==
  ASSUME TypeOK, QueuedAtTarget
  PROVE  IsFiniteSet(Queued)
<1> DEFINE In(n) == {queue[n][k] : k \in 1 .. Len(queue[n])}
           Ins == {In(n) : n \in Nodes}
<1>1. ASSUME NEW n \in Nodes PROVE IsFiniteSet(In(n))
  <2> DEFINE g == [k \in 1 .. Len(queue[n]) |-> queue[n][k]]
  <2>1. Len(queue[n]) \in Nat
    BY QueueFacts
  <2>2. g \in Surjection(1 .. Len(queue[n]), In(n))
    BY DEF Surjection
  <2> QED BY <2>1, <2>2, FS_Interval, FS_Surjection
<1>2. IsFiniteSet(Ins)
  <2> DEFINE f == [n \in Nodes |-> In(n)]
  <2>1. IsFiniteSet(Nodes)
    BY NumaAssumption, FS_Interval DEF Nodes
  <2>2. f \in Surjection(Nodes, Ins)
    BY DEF Surjection
  <2> QED BY <2>1, <2>2, FS_Surjection
<1>3. IsFiniteSet(UNION Ins)
  BY <1>1, <1>2, FS_UNION
<1>4. Queued \subseteq UNION Ins
  <2> SUFFICES ASSUME NEW t \in Tasks, fate[t] = "queued" PROVE t \in UNION Ins
    BY DEF Queued
  <2>1. PICK k \in 1 .. Len(queue[target[t]]) : queue[target[t]][k] = t
    BY DEF QueuedAtTarget
  <2>2. target[t] \in Nodes
    BY DEF TypeOK
  <2>3. t \in In(target[t]) /\ In(target[t]) \in Ins
    BY <2>1, <2>2
  <2> QED BY <2>3
<1> QED BY <1>3, <1>4, FS_Subset

LEMMA LateFinite ==
  ASSUME IsFiniteSet(Producers), Inv
  PROVE  /\ IsFiniteSet(Behind) /\ Cardinality(Behind) \in Nat
         /\ IsFiniteSet(Pushers) /\ Cardinality(Pushers) \in Nat
         /\ Cardinality(Producers) \in Nat
         /\ Cardinality(Pushers) <= Cardinality(Producers)
<1>1. IsFiniteSet(Queued) /\ Behind \subseteq Queued /\ Pushers \subseteq Producers
  BY QueuedFinite DEF Inv, TaskState, Behind, Pushers
<1> QED BY <1>1, FS_Subset, FS_CardinalityType

(* A step that counts no more tasks and lets nobody pass the test of       *)
(* running_.                                                               *)
LEMMA NoMoreLate ==
  ASSUME IsFiniteSet(Producers), Inv, LateState, Counting,
         Behind' \subseteq Behind, Pushers' \subseteq Pushers
  PROVE  LateState'
<1>1. /\ Cardinality(Behind') \in Nat /\ Cardinality(Behind') <= Cardinality(Behind)
      /\ Cardinality(Pushers') \in Nat /\ Cardinality(Pushers') <= Cardinality(Pushers)
  BY LateFinite, FS_Subset, FS_CardinalityType
<1>2. /\ Cardinality(Behind) \in Nat /\ Cardinality(Pushers) \in Nat
      /\ Cardinality(Producers) \in Nat
      /\ Cardinality(Behind) + Cardinality(Pushers) <= Cardinality(Producers)
  BY LateFinite DEF LateState
<1>3. Cardinality(Behind') + Cardinality(Pushers') <= Cardinality(Producers)
  BY <1>1, <1>2
<1> QED BY <1>3 DEF LateState

(* The poll begins. *)
LEMMA NothingCounted ==
  ASSUME IsFiniteSet(Producers), Inv, Behind' = {}, Pushers' \subseteq Pushers
  PROVE  LateState'
<1>1. /\ Cardinality(Pushers') \in Nat /\ Cardinality(Pushers') <= Cardinality(Pushers)
      /\ Cardinality(Behind') = 0
  BY LateFinite, FS_Subset, FS_CardinalityType, FS_EmptySet
<1>2. /\ Cardinality(Pushers) \in Nat /\ Cardinality(Producers) \in Nat
      /\ Cardinality(Pushers) <= Cardinality(Producers)
  BY LateFinite
<1>3. Cardinality(Behind') + Cardinality(Pushers') <= Cardinality(Producers)
  BY <1>1, <1>2
<1> QED BY <1>3 DEF LateState

(* A late push: one task more, one client less that can push. *)
LEMMA LatePush ==
  ASSUME IsFiniteSet(Producers), Inv, LateState, Counting,
         NEW p \in Producers, EnqueuePush(p)
  PROVE  LateState'
<1>1. /\ p \in Pushers /\ Pushers' = Pushers \ {p}
  BY DEF EnqueuePush, Pushers, Inv, TypeOK
<1>2. Behind' \subseteq Behind \cup {hand[p]}
  BY DEF EnqueuePush, Behind, Queued, ctlVars, Inv, TypeOK
<1>3. /\ Cardinality(Pushers') = Cardinality(Pushers) - 1 /\ Cardinality(Pushers) \in Nat
      /\ Cardinality(Producers) \in Nat /\ Cardinality(Behind) \in Nat
      /\ Cardinality(Behind) + Cardinality(Pushers) <= Cardinality(Producers)
  BY <1>1, LateFinite, FS_RemoveElement DEF LateState
<1>4. PICK t : t = hand[p]
  OBVIOUS
<1>5. /\ IsFiniteSet(Behind \cup {t})
      /\ Cardinality(Behind \cup {t}) <= Cardinality(Behind) + 1
      /\ Cardinality(Behind \cup {t}) \in Nat
  <2>1. IsFiniteSet(Behind) /\ Cardinality(Behind) \in Nat
    BY LateFinite
  <2>2. /\ IsFiniteSet(Behind \cup {t})
        /\ Cardinality(Behind \cup {t}) = IF t \in Behind THEN Cardinality(Behind)
                                                          ELSE Cardinality(Behind) + 1
    BY <2>1, FS_AddElement
  <2> QED BY <2>1, <2>2
<1>6. /\ Cardinality(Behind') \in Nat
      /\ Cardinality(Behind') <= Cardinality(Behind \cup {t})
  BY <1>2, <1>4, <1>5, FS_Subset, FS_CardinalityType
<1>7. Cardinality(Behind') + Cardinality(Pushers') <= Cardinality(Producers)
  BY <1>3, <1>5, <1>6
<1> QED BY <1>7 DEF LateState

LEMMA LateStep ==
  ASSUME IsFiniteSet(Producers), Inv, LateState, [Next]_vars
  PROVE  LateState'
<1> SUFFICES ASSUME Counting' PROVE LateState'
  BY DEF LateState
<1>1. Counting => ~running
  BY DEF Counting, Inv, PhaseState
<1>2. ASSUME UNCHANGED <<ctlVars, target>>,
             \A p \in Producers : ppc'[p] = "push" => ppc[p] = "push",
             \A t \in Tasks : fate'[t] = "queued" => fate[t] = "queued"
      PROVE  LateState'
  <2>1. Counting /\ Behind' \subseteq Behind /\ Pushers' \subseteq Pushers
    BY <1>2 DEF Counting, Behind, Queued, Pushers, ctlVars
  <2> QED BY <2>1, NoMoreLate
<1>3. ASSUME UNCHANGED <<ctlVars, prodVars, target, fate>> PROVE LateState'
  BY <1>2, <1>3 DEF prodVars
<1>4. ASSUME NEW i \in Slots, WorkerPop(i) PROVE LateState'
  <2>1. PICK n : n = QueueOf(i)
    OBVIOUS
  <2>2. /\ UNCHANGED <<ctlVars, ppc, target>>
        /\ fate' = [fate EXCEPT ![NextTask(n)] = "running"]
    BY <1>4, <2>1 DEF WorkerPop, Elsewhere, prodVars
  <2> QED BY <1>2, <2>2 DEF Inv, TypeOK
<1>5. ASSUME NEW i \in Slots, WorkerFinish(i) \/ WorkerThrow(i) PROVE LateState'
  <2>1. /\ UNCHANGED <<ctlVars, ppc, target>>
        /\ \E how \in {"finished", "threw"} : fate' = [fate EXCEPT ![held[i]] = how]
    BY <1>5 DEF WorkerFinish, WorkerThrow, EndTask, Elsewhere, prodVars
  <2> QED BY <1>2, <2>1 DEF Inv, TypeOK
<1>6. ASSUME NEW i \in Slots,
             \/ WorkerEnter(i) \/ WorkerBind(i) \/ WorkerBindFails(i) \/ WorkerCount(i)
             \/ WorkerTest(i) \/ WorkerCheck(i) \/ WorkerPark(i) \/ WorkerWake(i)
             \/ WorkerPopNothing(i) \/ WorkerRetire(i) \/ WorkerUncount(i)
             \/ WorkerSpuriousWakeup(i) \/ WorkerFault(i)
      PROVE  LateState'
  BY <1>3, <1>6
  DEF WorkerEnter, WorkerBind, WorkerBindFails, WorkerCount, WorkerTest, WorkerCheck,
      WorkerPark, WorkerWake, WorkerPopNothing, WorkerRetire, WorkerUncount,
      WorkerSpuriousWakeup, WorkerFault, Elsewhere, taskVars
<1>7. ASSUME MonitorStep PROVE LateState'
  BY <1>3, <1>7
  DEF MonitorStep, MonitorTop, MonitorNode, MonitorExpand, MonitorSpawn,
      MonitorSpawnFails, MonitorPush, MonitorShrink, MonitorCheck, MonitorPark,
      MonitorTimeout, taskVars
<1>8. ASSUME NEW p \in Producers, NEW t \in Tasks, NEW n \in Nodes,
             Enqueue(p, t, n) \/ EnqueueToNumaNode(p, t, n)
      PROVE  LateState'
  <2>1. UNCHANGED <<cpc, policy, at>>
    BY <1>8 DEF Enqueue, EnqueueToNumaNode, ctlVars
  <2>2. Counting /\ ~running
    BY <1>1, <2>1 DEF Counting
  <2>3. /\ fate' = [fate EXCEPT ![t] = "rejected"] /\ target' = [target EXCEPT ![t] = n]
        /\ ppc' = ppc \/ ppc' = [ppc EXCEPT ![p] = "idle"]
    BY <1>8, <2>2 DEF Enqueue, EnqueueToNumaNode, Admit
  <2>4. Behind' \subseteq Behind /\ Pushers' \subseteq Pushers
    BY <2>1, <2>3 DEF Behind, Queued, Pushers, Inv, TypeOK
  <2> QED BY <2>2, <2>4, NoMoreLate
<1>9. ASSUME NEW p \in Producers, EnqueueRoute(p) PROVE LateState'
  <2>1. UNCHANGED <<ctlVars, target>>
    BY <1>9 DEF EnqueueRoute
  <2>2. ~running
    BY <1>1, <2>1 DEF Counting, ctlVars
  <2>3. /\ fate' = [fate EXCEPT ![hand[p]] = "rejected"]
        /\ ppc' = [ppc EXCEPT ![p] = "idle"]
    BY <1>9, <2>2 DEF EnqueueRoute, Admit
  <2> QED BY <1>2, <2>1, <2>3 DEF Inv, TypeOK
<1>10. ASSUME NEW p \in Producers, EnqueuePush(p) PROVE LateState'
  <2>1. Counting
    BY <1>10 DEF EnqueuePush, Counting, ctlVars
  <2> QED BY <1>10, <2>1, LatePush
<1>11. ASSUME NEW p \in Producers, EnqueueNotify(p) PROVE LateState'
  BY <1>2, <1>11 DEF EnqueueNotify, taskVars, Inv, TypeOK
<1>12. ASSUME \/ StartCall \/ StartStep \/ StartFails \/ (\E pol \in Policies : StopCall(pol))
              \/ StopSignalMonitor \/ StopJoinMonitor \/ StopHalt
       PROVE  FALSE
  <2>1. cpc' \in {"spawn", "push", "idle", "signal", "joinmon", "halt", "wake"}
    BY <1>12
    DEF StartCall, StartStep, StartWorker, StartPush, StartMonitor, StartFails, StopCall,
        StopSignalMonitor, StopJoinMonitor, StopHalt
  <2> QED BY <2>1 DEF Counting
<1>13. ASSUME StopWake PROVE LateState'
  <2>1. at' = 0 /\ cpc' = "poll"
    BY <1>13 DEF StopWake, Counting
  <2>2. UNCHANGED <<ppc, target>> /\ target \in [Tasks -> Nodes]
    BY <1>13 DEF StopWake, prodVars, taskVars, Inv, TypeOK
  <2>3. Behind' = {} /\ Pushers' = Pushers
    BY <2>1, <2>2 DEF Behind, Queued, Pushers, Nodes
  <2> QED BY <2>3, NothingCounted
<1>14. ASSUME StopPoll PROVE LateState'
  <2>1. UNCHANGED <<ppc, fate, target, policy>> /\ target \in [Tasks -> Nodes]
    BY <1>14 DEF StopPoll, prodVars, taskVars, Inv, TypeOK
  <2>2. Counting /\ policy = "WaitForAll" /\ cpc = "poll" /\ at \in Nodes
    BY <1>14, <2>1 DEF StopPoll, Counting, Inv, PhaseState
  <2>3. Pushers' = Pushers
    BY <2>1 DEF Pushers
  <2>4. CASE queue[at] # <<>>
    <3>1. cpc' = "poll" /\ at' = 0
      BY <1>14, <2>2, <2>4 DEF StopPoll
    <3>2. Behind' = {}
      BY <2>1, <3>1 DEF Behind, Queued, Nodes
    <3> QED BY <2>3, <3>2, NothingCounted
  <2>5. CASE queue[at] = <<>>
    <3>1. ASSUME NEW t \in Tasks, fate[t] = "queued" PROVE target[t] # at
      <4>1. PICK k \in 1 .. Len(queue[target[t]]) : queue[target[t]][k] = t
        BY <3>1 DEF Inv, TaskState, QueuedAtTarget
      <4> QED BY <2>5, <4>1
    <3>2. (cpc' = "lock" /\ at = LastNode) \/ (cpc' = "poll" /\ at' = at + 1)
      BY <1>14, <2>2, <2>5 DEF StopPoll
    <3>3. Behind' \subseteq Behind
      <4>1. ASSUME NEW t \in Tasks, fate[t] = "queued", cpc' = "poll" => target[t] < at'
            PROVE  target[t] < at
        <5>1. PICK m, a \in Nodes : m = target[t] /\ a = at /\ m # a
          BY <2>1, <2>2, <3>1, <4>1
        <5>2. m <= LastNode
          BY <5>1, NumaAssumption DEF Nodes, LastNode
        <5>3. a = LastNode \/ m < a + 1
          BY <3>2, <4>1, <5>1
        <5> QED BY <5>1, <5>2, <5>3 DEF Nodes, LastNode
      <4> QED BY <2>1, <4>1 DEF Behind, Queued
    <3> QED BY <2>2, <2>3, <3>3, NoMoreLate
  <2> QED BY <2>4, <2>5
<1>15. ASSUME StopLock \/ StopMark \/ StopJoin \/ StopClear PROVE LateState'
  <2>1. cpc \in {"lock", "join", "joining"} /\ UNCHANGED <<ppc, fate, target, policy>>
    BY <1>15 DEF StopLock, StopMark, StopJoin, StopClear, prodVars, taskVars
  <2>2. Counting /\ Behind' \subseteq Behind /\ Pushers' \subseteq Pushers
    BY <2>1 DEF Counting, Behind, Queued, Pushers
  <2> QED BY <2>2, NoMoreLate
<1>16. ASSUME StopDrop PROVE LateState'
  <2>1. /\ cpc = "drop" /\ UNCHANGED <<ppc, target, policy>>
        /\ \A t \in Tasks : fate'[t] = "queued" => fate[t] = "queued"
    BY <1>16 DEF StopDrop, prodVars
  <2>2. Counting /\ Behind' \subseteq Behind /\ Pushers' \subseteq Pushers
    BY <2>1 DEF Counting, Behind, Queued, Pushers
  <2> QED BY <2>2, NoMoreLate
<1>17. CASE UNCHANGED vars
  BY <1>3, <1>17 DEF vars, taskVars
<1> QED BY <1>4, <1>5, <1>6, <1>7, <1>8, <1>9, <1>10, <1>11, <1>12, <1>13, <1>14, <1>15,
           <1>16, <1>17
  DEF Next, WorkerStep, EnqueueStep, StopStep

(* After the poll of Stop(WaitForAll), and until it has dropped what is    *)
(* left, each client can have left at most one task: the one it was about  *)
(* to push when Stop cleared running_.                                     *)
THEOREM LateTasks ==
  ASSUME IsFiniteSet(Producers)
  PROVE  Spec => []LateTasksBounded
<1>1. Init => LateState
  BY DEF Init, LateState, Counting
<1>2. Inv /\ LateState /\ [Next]_vars => LateState'
  BY LateStep
<1>3. LateState => LateTasksBounded
  <2> SUFFICES ASSUME LateState, Counting, cpc # "poll"
               PROVE  Cardinality(Queued) + Cardinality(Pushers) <= Cardinality(Producers)
    BY DEF LateTasksBounded, Counting
  <2>1. Behind = Queued
    BY DEF Behind, Queued
  <2> QED BY <2>1 DEF LateState
<1> QED BY InvHolds, <1>1, <1>2, <1>3, PTL DEF Spec

-----------------------------------------------------------------------------
(* Workers that Stop skips *)

(* A worker is valid from its binding until it retires. *)
InLoop == {"count", "test", "lock", "parking", "waiting", "woke", "pop", "run",
           "retire", "threw"}
ValidState == \A i \in Slots : wpc[i] \in InLoop => i \in valid

Harmless == Ended \cup {"entry", "bind", "count", "test", "retire", "uncount"}

(* A worker enters its loop when it becomes valid and leaves it when it    *)
(* retires, and no step but its own moves it into the loop.                *)
LEMMA WorkerKeepsValid ==
  ASSUME TypeOK, ValidState, NEW i \in Slots, WorkerStep(i) \/ WorkerSpuriousWakeup(i)
  PROVE  ValidState'
<1>1. CASE WorkerEnter(i) \/ WorkerBind(i) \/ WorkerBindFails(i)
  BY <1>1 DEF WorkerEnter, WorkerBind, WorkerBindFails, Go, Ended, InLoop, flagVars,
              ValidState, TypeOK
<1>2. CASE WorkerCount(i)
  BY <1>2 DEF WorkerCount, Go, InLoop, flagVars, ValidState, TypeOK
<1>3. CASE WorkerTest(i) \/ WorkerWake(i)
  <2>1. /\ wpc[i] \in InLoop /\ UNCHANGED valid
        /\ \E to \in WorkerPCs : wpc' = [wpc EXCEPT ![i] = to]
    BY <1>3 DEF WorkerTest, WorkerWake, Go, InLoop, WorkerPCs, flagVars
  <2> QED BY <2>1 DEF ValidState, TypeOK
<1>4. CASE \/ WorkerCheck(i) \/ WorkerPark(i) \/ WorkerPop(i) \/ WorkerPopNothing(i)
           \/ WorkerFinish(i) \/ WorkerThrow(i) \/ WorkerSpuriousWakeup(i)
  <2>1. /\ wpc[i] \in InLoop /\ UNCHANGED valid
        /\ \E to \in WorkerPCs : wpc' = [wpc EXCEPT ![i] = to]
    BY <1>4 DEF WorkerCheck, WorkerPark, WorkerPop, WorkerPopNothing, WorkerFinish,
                WorkerThrow, WorkerSpuriousWakeup, EndTask, Go, InLoop, WorkerPCs, Ended,
                flagVars
  <2> QED BY <2>1 DEF ValidState, TypeOK
<1>5. CASE WorkerRetire(i) \/ WorkerUncount(i)
  <2>1. /\ valid \ {i} \subseteq valid'
        /\ \E to \in {"uncount", "returned"} : wpc' = [wpc EXCEPT ![i] = to]
    BY <1>5 DEF WorkerRetire, WorkerUncount, Go, flagVars
  <2> QED BY <2>1 DEF ValidState, InLoop, TypeOK
<1> QED BY <1>1, <1>2, <1>3, <1>4, <1>5 DEF WorkerStep

LEMMA ValidStep == Inv /\ ValidState /\ [Next]_vars => ValidState'
<1> SUFFICES ASSUME Inv, ValidState, [Next]_vars PROVE ValidState'
  OBVIOUS
<1>1. ASSUME UNCHANGED <<wpc, valid>> PROVE ValidState'
  BY <1>1 DEF ValidState
<1>2. ASSUME NEW i \in Slots, WorkerStep(i) \/ WorkerSpuriousWakeup(i) PROVE ValidState'
  BY <1>2, WorkerKeepsValid DEF Inv
<1>3. ASSUME NEW n, NotifyAllOn(n) \/ NotifyOneOn(n), UNCHANGED valid PROVE ValidState'
  BY <1>3 DEF NotifyAllOn, NotifyOneOn, WaitingOn, InLoop, ValidState, Inv, TypeOK
<1>4. ASSUME StartThread, UNCHANGED valid PROVE ValidState'
  BY <1>4 DEF StartThread, InLoop, ValidState, Inv, TypeOK
<1>5. ASSUME NEW i \in Slots, WorkerFault(i) PROVE ValidState'
  BY <1>1, <1>5 DEF WorkerFault, flagVars
<1>6. ASSUME MonitorStep PROVE ValidState'
  <2>1. CASE MonitorSpawn
    BY <1>4, <2>1 DEF MonitorSpawn, flagVars
  <2>2. CASE MonitorShrink
    <3>1. UNCHANGED valid /\ (UNCHANGED wpc \/ NotifyAllOn(mnode))
      BY <2>2 DEF MonitorShrink
    <3> QED BY <1>1, <1>3, <3>1
  <2> QED BY <1>1, <1>6, <2>1, <2>2
    DEF MonitorStep, MonitorTop, MonitorNode, MonitorExpand, MonitorSpawnFails,
        MonitorPush, MonitorCheck, MonitorPark, MonitorTimeout, flagVars
<1>7. ASSUME NEW p \in Producers, EnqueueStep(p) PROVE ValidState'
  BY <1>1, <1>3, <1>7 DEF EnqueueStep, EnqueueRoute, EnqueuePush, EnqueueNotify, flagVars
<1>8. ASSUME NEW p \in Producers, NEW t \in Tasks, NEW n \in Nodes,
             Enqueue(p, t, n) \/ EnqueueToNumaNode(p, t, n)
      PROVE  ValidState'
  BY <1>1, <1>8 DEF Enqueue, EnqueueToNumaNode, flagVars
<1>9. ASSUME StartCall \/ StartStep \/ StartFails PROVE ValidState'
  BY <1>1, <1>4, <1>9
  DEF StartCall, StartStep, StartWorker, StartPush, StartMonitor, StartFails, flagVars
<1>10. ASSUME (\E pol \in Policies : StopCall(pol)) \/ StopStep PROVE ValidState'
  <2>1. CASE StopWake
    BY <1>3, <2>1 DEF StopWake, flagVars
  <2>2. CASE StopClear
    BY <2>2 DEF StopClear, InLoop, ValidState
  <2> QED BY <1>1, <1>10, <2>1, <2>2
    DEF StopCall, StopStep, StopSignalMonitor, StopJoinMonitor, StopHalt, StopPoll, StopLock,
        StopMark, StopJoin, StopDrop, flagVars
<1>11. CASE UNCHANGED vars
  BY <1>1, <1>11 DEF vars, flagVars
<1> QED BY <1>2, <1>5, <1>6, <1>7, <1>8, <1>9, <1>10, <1>11 DEF Next

(* While Stop joins, running_ is false, so a worker that is harmless stays *)
(* harmless.                                                               *)
LEMMA HarmlessStays ==
  ASSUME TypeOK, ~running, NEW i \in Slots, WorkerStep(i) \/ WorkerSpuriousWakeup(i),
         NEW j \in Slots, wpc[j] \in Harmless
  PROVE  wpc'[j] \in Harmless
<1>1. CASE i # j
  <2>1. \E to \in WorkerPCs : wpc' = [wpc EXCEPT ![i] = to]
    BY DEF WorkerStep, WorkerEnter, WorkerBind, WorkerBindFails, WorkerCount, WorkerTest,
           WorkerCheck, WorkerPark, WorkerWake, WorkerPop, WorkerPopNothing, WorkerFinish,
           WorkerThrow, WorkerRetire, WorkerUncount, WorkerSpuriousWakeup, Go, WorkerPCs,
           Ended
  <2> QED BY <1>1, <2>1 DEF TypeOK
<1>2. CASE i = j
  <2>1. CASE WorkerTest(i)
    <3>1. wpc' = [wpc EXCEPT ![i] = "retire"]
      BY <2>1 DEF WorkerTest, Go, ShallLeave
    <3> QED BY <1>2, <3>1 DEF Harmless, TypeOK
  <2>2. CASE ~WorkerTest(i)
    BY <1>2, <2>2
    DEF WorkerStep, WorkerEnter, WorkerBind, WorkerBindFails, WorkerCount,
        WorkerCheck, WorkerPark, WorkerWake, WorkerPop, WorkerPopNothing, WorkerFinish,
        WorkerThrow, WorkerRetire, WorkerUncount, WorkerSpuriousWakeup, Go, Ended, Harmless,
        TypeOK
  <2> QED BY <2>1, <2>2
<1> QED BY <1>1, <1>2

LEMMA SkipStep ==
  Inv /\ ValidState /\ SkippedWorkersLeave /\ [Next]_vars => SkippedWorkersLeave'
<1> DEFINE Joining == cpc \in {"join", "joining"}
<1> SUFFICES ASSUME Inv, ValidState, SkippedWorkersLeave, [Next]_vars, Joining',
                    NEW i \in Slots, i \in joinable', i < at'
             PROVE  wpc'[i] \in Harmless
  BY TypeStep DEF SkippedWorkersLeave, Harmless, TypeOK
<1>1. ASSUME Joining, i \in joinable, i < at PROVE wpc[i] \in Harmless
  BY <1>1 DEF SkippedWorkersLeave, Harmless
<1>2. Joining => ~running
  BY DEF Inv, PhaseState
<1>3. ASSUME UNCHANGED <<cpc, at, joinable, wpc>> PROVE wpc'[i] \in Harmless
  BY <1>1, <1>3
<1>4. ASSUME NEW k \in Slots, WorkerStep(k) \/ WorkerSpuriousWakeup(k)
      PROVE  wpc'[i] \in Harmless
  <2>1. UNCHANGED <<cpc, at, joinable>>
    BY <1>4
    DEF WorkerStep, WorkerEnter, WorkerBind, WorkerBindFails, WorkerCount, WorkerTest,
        WorkerCheck, WorkerPark, WorkerWake, WorkerPop, WorkerPopNothing, WorkerFinish,
        WorkerThrow, WorkerRetire, WorkerUncount, WorkerSpuriousWakeup, EndTask, Elsewhere,
        ctlVars, workerVars
  <2> QED BY <1>1, <1>2, <1>4, <2>1, HarmlessStays DEF Inv
<1>5. ASSUME NEW k \in Slots, WorkerFault(k) PROVE wpc'[i] \in Harmless
  BY <1>3, <1>5 DEF WorkerFault, ctlVars, workerVars
<1>6. ASSUME MonitorStep PROVE FALSE
  <2>1. mpc # "none" /\ UNCHANGED cpc
    BY <1>6
    DEF MonitorStep, MonitorTop, MonitorNode, MonitorExpand, MonitorSpawn,
        MonitorSpawnFails, MonitorPush, MonitorShrink, MonitorCheck, MonitorPark,
        MonitorTimeout, ctlVars
  <2> QED BY <2>1 DEF Inv, PhaseState
<1>7. ASSUME NEW p \in Producers, EnqueueStep(p) PROVE wpc'[i] \in Harmless
  <2>1. UNCHANGED <<cpc, at, joinable>>
    BY <1>7 DEF EnqueueStep, EnqueueRoute, EnqueuePush, EnqueueNotify, ctlVars, workerVars
  <2>2. CASE EnqueueRoute(p) \/ EnqueuePush(p)
    BY <1>3, <2>1, <2>2 DEF EnqueueRoute, EnqueuePush
  <2>3. CASE EnqueueNotify(p)
    <3>1. wpc[i] \in Harmless
      BY <1>1, <2>1
    <3>2. wpc'[i] = wpc[i] \/ wpc[i] = "waiting"
      BY <2>3 DEF EnqueueNotify, NotifyOneOn, WaitingOn, Inv, TypeOK
    <3> QED BY <3>1, <3>2 DEF Harmless, Ended
  <2> QED BY <1>7, <2>2, <2>3 DEF EnqueueStep
<1>8. ASSUME NEW p \in Producers, NEW t \in Tasks, NEW n \in Nodes,
             Enqueue(p, t, n) \/ EnqueueToNumaNode(p, t, n)
      PROVE  wpc'[i] \in Harmless
  BY <1>3, <1>8 DEF Enqueue, EnqueueToNumaNode, ctlVars, workerVars
<1>9. ASSUME \/ StartCall \/ StartStep \/ StartFails \/ (\E pol \in Policies : StopCall(pol))
             \/ StopSignalMonitor \/ StopJoinMonitor \/ StopHalt \/ StopWake \/ StopPoll
             \/ StopClear \/ StopDrop
      PROVE  FALSE
  <2>1. cpc' \notin {"join", "joining"}
    BY <1>9
    DEF StartCall, StartStep, StartWorker, StartPush, StartMonitor, StartFails, StopCall,
        StopSignalMonitor, StopJoinMonitor, StopHalt, StopWake, StopPoll, StopClear, StopDrop
  <2> QED BY <2>1
<1>10. ASSUME StopLock PROVE FALSE
  <2>1. at' = 1
    BY <1>10 DEF StopLock
  <2> QED BY <2>1 DEF Slots
<1>11. ASSUME StopMark PROVE wpc'[i] \in Harmless
  <2>1. Joining /\ i \in joinable /\ wpc' = wpc /\ at <= size /\ at \in Nat /\ size \in Nat
    BY <1>11 DEF StopMark, workerVars, Inv, TypeOK
  <2>2. CASE i < at
    BY <1>1, <2>1, <2>2
  <2>3. CASE ~(i < at)
    <3>1. at \notin valid \cap joinable /\ at' = at + 1
      BY <1>11, <2>3 DEF StopMark
    <3>2. i = at
      BY <2>1, <2>3, <3>1 DEF Slots
    <3>3. wpc[i] \notin InLoop /\ wpc[i] \in WorkerPCs
      BY <2>1, <3>1, <3>2 DEF ValidState, Inv, TypeOK
    <3>4. wpc[i] # "none"
      BY <2>1, <3>2 DEF Inv, SlotState
    <3> QED BY <2>1, <3>3, <3>4 DEF InLoop, WorkerPCs, Harmless
  <2> QED BY <2>2, <2>3
<1>12. ASSUME StopJoin PROVE wpc'[i] \in Harmless
  <2>1. /\ Joining /\ i \in joinable /\ i # at /\ wpc' = wpc /\ at' = at + 1 /\ at \in Nat
    BY <1>12 DEF StopJoin, Inv, TypeOK
  <2>2. i < at
    BY <2>1 DEF Slots
  <2> QED BY <1>1, <2>1, <2>2
<1>13. CASE UNCHANGED vars
  BY <1>3, <1>13 DEF vars, ctlVars, workerVars
<1> QED BY <1>4, <1>5, <1>6, <1>7, <1>8, <1>9, <1>10, <1>11, <1>12, <1>13 DEF Next, StopStep

(* No worker that Stop has passed without joining it sleeps or runs a      *)
(* task: those that workers_.clear() waits for leave by themselves, but    *)
(* for one that is still at its entry.                                     *)
THEOREM SkippedLeave == Spec => []SkippedWorkersLeave
<1>1. Init => ValidState /\ SkippedWorkersLeave
  BY DEF Init, ValidState, SkippedWorkersLeave, InLoop
<1> QED BY InvHolds, <1>1, ValidStep, SkipStep, PTL DEF Spec
-----------------------------------------------------------------------------
(* Tasks left over *)

(* Stop is emptying the queues, or nobody has started the pool again. *)
Emptying == cpc = "drop" \/ (cpc = "idle" /\ ~running)

(* The queued tasks of the nodes that StopDrop has passed. *)
Left == {t \in Queued : cpc = "drop" => target[t] < at}

(* What strengthens LeftoverTasksBounded: the bound holds while Stop goes  *)
(* through the queues, for the nodes that it has passed.                   *)
LeftState ==
  Emptying => Cardinality(Left) + Cardinality(Pushers) <= Cardinality(Producers)

LEMMA LeftFinite ==
  ASSUME IsFiniteSet(Producers), Inv
  PROVE  /\ IsFiniteSet(Left) /\ Cardinality(Left) \in Nat
         /\ IsFiniteSet(Pushers) /\ Cardinality(Pushers) \in Nat
         /\ Cardinality(Producers) \in Nat
         /\ Cardinality(Pushers) <= Cardinality(Producers)
<1>1. IsFiniteSet(Queued) /\ Left \subseteq Queued /\ Pushers \subseteq Producers
  BY QueuedFinite DEF Inv, TaskState, Left, Pushers
<1> QED BY <1>1, FS_Subset, FS_CardinalityType

LEMMA NoMoreLeft ==
  ASSUME IsFiniteSet(Producers), Inv, LeftState, Emptying,
         Left' \subseteq Left, Pushers' \subseteq Pushers
  PROVE  LeftState'
<1>1. /\ Cardinality(Left') \in Nat /\ Cardinality(Left') <= Cardinality(Left)
      /\ Cardinality(Pushers') \in Nat /\ Cardinality(Pushers') <= Cardinality(Pushers)
  BY LeftFinite, FS_Subset, FS_CardinalityType
<1>2. /\ Cardinality(Left) \in Nat /\ Cardinality(Pushers) \in Nat
      /\ Cardinality(Producers) \in Nat
      /\ Cardinality(Left) + Cardinality(Pushers) <= Cardinality(Producers)
  BY LeftFinite DEF LeftState
<1>3. Cardinality(Left') + Cardinality(Pushers') <= Cardinality(Producers)
  BY <1>1, <1>2
<1> QED BY <1>3 DEF LeftState

(* A push behind the back of Stop: one task more, one client less. *)
LEMMA LeftPush ==
  ASSUME IsFiniteSet(Producers), Inv, LeftState, Emptying,
         NEW p \in Producers, EnqueuePush(p)
  PROVE  LeftState'
<1>1. /\ p \in Pushers /\ Pushers' = Pushers \ {p}
  BY DEF EnqueuePush, Pushers, Inv, TypeOK
<1>2. PICK t : t = hand[p]
  OBVIOUS
<1>3. Left' \subseteq Left \cup {t}
  BY <1>2 DEF EnqueuePush, Left, Queued, ctlVars, Inv, TypeOK
<1>4. /\ Cardinality(Pushers') = Cardinality(Pushers) - 1 /\ Cardinality(Pushers) \in Nat
      /\ Cardinality(Producers) \in Nat /\ Cardinality(Left) \in Nat
      /\ Cardinality(Left) + Cardinality(Pushers) <= Cardinality(Producers)
  BY <1>1, LeftFinite, FS_RemoveElement DEF LeftState
<1>5. /\ IsFiniteSet(Left \cup {t})
      /\ Cardinality(Left \cup {t}) <= Cardinality(Left) + 1
      /\ Cardinality(Left \cup {t}) \in Nat
  <2>1. IsFiniteSet(Left) /\ Cardinality(Left) \in Nat
    BY LeftFinite
  <2>2. /\ IsFiniteSet(Left \cup {t})
        /\ Cardinality(Left \cup {t}) = IF t \in Left THEN Cardinality(Left)
                                                      ELSE Cardinality(Left) + 1
    BY <2>1, FS_AddElement
  <2> QED BY <2>1, <2>2
<1>6. /\ Cardinality(Left') \in Nat
      /\ Cardinality(Left') <= Cardinality(Left \cup {t})
  BY <1>3, <1>5, FS_Subset, FS_CardinalityType
<1>7. Cardinality(Left') + Cardinality(Pushers') <= Cardinality(Producers)
  BY <1>4, <1>5, <1>6
<1> QED BY <1>7 DEF LeftState

LEMMA LeftStep ==
  ASSUME IsFiniteSet(Producers), Inv, LeftState, [Next]_vars
  PROVE  LeftState'
<1> SUFFICES ASSUME Emptying' PROVE LeftState'
  BY DEF LeftState
<1>1. Emptying => ~running
  BY DEF Emptying, Inv, PhaseState
<1>2. ASSUME UNCHANGED <<running, ctlVars, target>>,
             \A p \in Producers : ppc'[p] = "push" => ppc[p] = "push",
             \A t \in Tasks : fate'[t] = "queued" => fate[t] = "queued"
      PROVE  LeftState'
  <2>1. Emptying /\ Left' \subseteq Left /\ Pushers' \subseteq Pushers
    BY <1>2 DEF Emptying, Left, Queued, Pushers, ctlVars
  <2> QED BY <2>1, NoMoreLeft
<1>3. ASSUME UNCHANGED <<running, ctlVars, prodVars, target, fate>> PROVE LeftState'
  BY <1>2, <1>3 DEF prodVars
<1>4. ASSUME NEW i \in Slots, WorkerPop(i) PROVE LeftState'
  <2>1. PICK n : n = QueueOf(i)
    OBVIOUS
  <2>2. /\ UNCHANGED <<running, ctlVars, ppc, target>>
        /\ fate' = [fate EXCEPT ![NextTask(n)] = "running"]
    BY <1>4, <2>1 DEF WorkerPop, Elsewhere, prodVars, poolVars
  <2> QED BY <1>2, <2>2 DEF Inv, TypeOK
<1>5. ASSUME NEW i \in Slots, WorkerFinish(i) \/ WorkerThrow(i) PROVE LeftState'
  <2>1. /\ UNCHANGED <<running, ctlVars, ppc, target>>
        /\ \E how \in {"finished", "threw"} : fate' = [fate EXCEPT ![held[i]] = how]
    BY <1>5 DEF WorkerFinish, WorkerThrow, EndTask, Elsewhere, prodVars, poolVars
  <2> QED BY <1>2, <2>1 DEF Inv, TypeOK
<1>6. ASSUME NEW i \in Slots,
             \/ WorkerEnter(i) \/ WorkerBind(i) \/ WorkerBindFails(i) \/ WorkerCount(i)
             \/ WorkerTest(i) \/ WorkerCheck(i) \/ WorkerPark(i) \/ WorkerWake(i)
             \/ WorkerPopNothing(i) \/ WorkerRetire(i) \/ WorkerUncount(i)
             \/ WorkerSpuriousWakeup(i) \/ WorkerFault(i)
      PROVE  LeftState'
  BY <1>3, <1>6
  DEF WorkerEnter, WorkerBind, WorkerBindFails, WorkerCount, WorkerTest, WorkerCheck,
      WorkerPark, WorkerWake, WorkerPopNothing, WorkerRetire, WorkerUncount,
      WorkerSpuriousWakeup, WorkerFault, Elsewhere, taskVars, poolVars
<1>7. ASSUME MonitorStep PROVE LeftState'
  BY <1>3, <1>7
  DEF MonitorStep, MonitorTop, MonitorNode, MonitorExpand, MonitorSpawn,
      MonitorSpawnFails, MonitorPush, MonitorShrink, MonitorCheck, MonitorPark,
      MonitorTimeout, taskVars, poolVars
<1>8. ASSUME NEW p \in Producers, NEW t \in Tasks, NEW n \in Nodes,
             Enqueue(p, t, n) \/ EnqueueToNumaNode(p, t, n)
      PROVE  LeftState'
  <2>1. UNCHANGED <<running, cpc, at>>
    BY <1>8 DEF Enqueue, EnqueueToNumaNode, ctlVars, poolVars
  <2>2. Emptying /\ ~running
    BY <1>1, <2>1 DEF Emptying
  <2>3. /\ fate' = [fate EXCEPT ![t] = "rejected"] /\ target' = [target EXCEPT ![t] = n]
        /\ ppc' = ppc \/ ppc' = [ppc EXCEPT ![p] = "idle"]
    BY <1>8, <2>2 DEF Enqueue, EnqueueToNumaNode, Admit
  <2>4. Left' \subseteq Left /\ Pushers' \subseteq Pushers
    BY <2>1, <2>3 DEF Left, Queued, Pushers, Inv, TypeOK
  <2> QED BY <2>2, <2>4, NoMoreLeft
(* The second test of running_ turns the client away. *)
<1>9. ASSUME NEW p \in Producers, EnqueueRoute(p) PROVE LeftState'
  <2>1. UNCHANGED <<running, ctlVars, target>>
    BY <1>9 DEF EnqueueRoute, poolVars
  <2>2. ~running
    BY <1>1, <2>1 DEF Emptying, ctlVars
  <2>3. /\ fate' = [fate EXCEPT ![hand[p]] = "rejected"]
        /\ ppc' = [ppc EXCEPT ![p] = "idle"]
    BY <1>9, <2>2 DEF EnqueueRoute, Admit
  <2> QED BY <1>2, <2>1, <2>3 DEF Inv, TypeOK
<1>10. ASSUME NEW p \in Producers, EnqueuePush(p) PROVE LeftState'
  <2>1. Emptying
    BY <1>10 DEF EnqueuePush, Emptying, ctlVars, poolVars
  <2> QED BY <1>10, <2>1, LeftPush
<1>11. ASSUME NEW p \in Producers, EnqueueNotify(p) PROVE LeftState'
  BY <1>2, <1>11 DEF EnqueueNotify, taskVars, poolVars, Inv, TypeOK
<1>12. ASSUME \/ StartCall \/ StartStep \/ StartFails \/ (\E pol \in Policies : StopCall(pol))
              \/ StopSignalMonitor \/ StopJoinMonitor \/ StopHalt \/ StopWake \/ StopPoll
              \/ StopLock \/ StopMark \/ StopJoin
       PROVE  FALSE
  <2>1. ~Emptying'
    BY <1>12
    DEF StartCall, StartStep, StartWorker, StartPush, StartMonitor, StartFails, StopCall,
        StopSignalMonitor, StopJoinMonitor, StopHalt, StopWake, StopPoll, StopLock, StopMark,
        StopJoin, Emptying, Inv, PhaseState
  <2> QED BY <2>1
(* Nothing has been passed when StopDrop begins. *)
<1>13. ASSUME StopClear PROVE LeftState'
  <2>1. /\ cpc' = "drop" /\ at' = 0 /\ UNCHANGED <<ppc, target>>
        /\ target \in [Tasks -> Nodes]
    BY <1>13 DEF StopClear, prodVars, taskVars, Inv, TypeOK
  <2>2. Left' = {} /\ Pushers' = Pushers
    BY <2>1 DEF Left, Queued, Pushers, Nodes
  <2>3. Cardinality(Left') = 0
    BY <2>2, FS_EmptySet
  <2>4. Cardinality(Left') + Cardinality(Pushers') <= Cardinality(Producers)
    BY <2>2, <2>3, LeftFinite
  <2> QED BY <2>4 DEF LeftState
<1>14. ASSUME StopDrop PROVE LeftState'
  <2>1. /\ cpc = "drop" /\ UNCHANGED <<ppc, target>> /\ at \in Nodes
        /\ target \in [Tasks -> Nodes]
        /\ (cpc' = "idle" /\ at = LastNode) \/ (cpc' = "drop" /\ at' = at + 1)
    BY <1>14 DEF StopDrop, prodVars, Inv, PhaseState, TypeOK
  <2>2. \A t \in Tasks : fate'[t] = "queued" => fate[t] = "queued" /\ target[t] # at
    BY <1>14 DEF StopDrop
  <2>3. ASSUME NEW t \in Tasks, target[t] # at, cpc' = "drop" => target[t] < at'
        PROVE  target[t] < at
    <3>1. PICK m, a \in Nodes : m = target[t] /\ a = at /\ m # a
      BY <2>1, <2>3
    <3>2. m <= LastNode
      BY <3>1, NumaAssumption DEF Nodes, LastNode
    <3>3. a = LastNode \/ m < a + 1
      BY <2>1, <2>3, <3>1
    <3> QED BY <3>1, <3>2, <3>3 DEF Nodes, LastNode
  <2>4. Left' \subseteq Left
    BY <2>1, <2>2, <2>3 DEF Left, Queued
  <2>5. Emptying /\ Pushers' \subseteq Pushers
    BY <2>1 DEF Emptying, Pushers
  <2> QED BY <2>4, <2>5, NoMoreLeft
<1>15. CASE UNCHANGED vars
  BY <1>3, <1>15 DEF vars, taskVars, poolVars
<1> QED BY <1>4, <1>5, <1>6, <1>7, <1>8, <1>9, <1>10, <1>11, <1>12, <1>13, <1>14, <1>15
  DEF Next, WorkerStep, EnqueueStep, StopStep

(* A stopped pool holds at most one task for each client, on all its nodes *)
(* together and whatever the policy of Stop was.                           *)
THEOREM FewTasksAreLeftOver ==
  ASSUME IsFiniteSet(Producers)
  PROVE  Spec => []LeftoverTasksBounded
<1>1. Init => LeftState
  <2> SUFFICES ASSUME Init PROVE LeftState
    OBVIOUS
  <2>1. Left = {} /\ Pushers = {}
    BY DEF Init, Left, Queued, Pushers
  <2>2. Cardinality(Left) = 0 /\ Cardinality(Pushers) = 0 /\ Cardinality(Producers) \in Nat
    BY <2>1, FS_EmptySet, FS_CardinalityType
  <2> QED BY <2>2 DEF LeftState
<1>2. Inv /\ LeftState /\ [Next]_vars => LeftState'
  BY LeftStep
<1>3. LeftState => LeftoverTasksBounded
  <2> SUFFICES ASSUME LeftState, cpc = "idle", ~running
               PROVE  Cardinality(Queued) + Cardinality(Pushers) <= Cardinality(Producers)
    BY DEF LeftoverTasksBounded
  <2>1. Left = Queued
    BY DEF Left, Queued
  <2> QED BY <2>1 DEF LeftState, Emptying
<1> QED BY InvHolds, <1>1, <1>2, <1>3, PTL DEF Spec

-----------------------------------------------------------------------------
(* The threads of the pool *)

(* A thread is started at the end of the vector, where none is: Start and  *)
(* the monitor never create one at the same time.                          *)
LEMMA StartThreadKeeps ==
  ASSUME Inv, StartThread, ~Pushing
  PROVE  ThreadsKept
<1>1. size + 1 \in Slots => wpc[size + 1] = "none"
  BY DEF Inv, SlotState, TypeOK
<1>2. \A i \in Slots : wpc'[i] = IF i = size + 1 THEN "entry" ELSE wpc[i]
  BY DEF StartThread, Inv, TypeOK
<1> QED BY <1>1, <1>2 DEF ThreadsKept, Inv, PhaseState

LEMMA ThreadsKeptStep == Inv /\ [Next]_vars => ThreadsKept
<1> SUFFICES ASSUME Inv, [Next]_vars PROVE ThreadsKept
  OBVIOUS
<1>1. cpc = "spawn" => mpc = "none"
  BY DEF Inv, PhaseState
<1>2. wpc' = wpc => ThreadsKept
  BY <1>1 DEF ThreadsKept
<1>3. ASSUME NEW n, NotifyAllOn(n) \/ NotifyOneOn(n) PROVE ThreadsKept
  BY <1>1, <1>3 DEF NotifyAllOn, NotifyOneOn, WaitingOn, ThreadsKept, Inv, TypeOK
<1>4. ASSUME NEW i \in Slots, WorkerStep(i) \/ WorkerSpuriousWakeup(i) PROVE ThreadsKept
  <2>1. \E to \in WorkerPCs \ {"none", "entry"} : wpc' = [wpc EXCEPT ![i] = to]
    BY <1>4
    DEF WorkerStep, WorkerEnter, WorkerBind, WorkerBindFails, WorkerCount, WorkerTest,
        WorkerCheck, WorkerPark, WorkerWake, WorkerPop, WorkerPopNothing, WorkerFinish,
        WorkerThrow, WorkerRetire, WorkerUncount, WorkerSpuriousWakeup, Go, WorkerPCs, Ended
  <2>2. PICK to \in WorkerPCs \ {"none", "entry"} : wpc' = [wpc EXCEPT ![i] = to]
    BY <2>1
  <2> QED BY <1>1, <2>2 DEF ThreadsKept, Inv, TypeOK
<1>5. ASSUME NEW i \in Slots, WorkerFault(i) PROVE ThreadsKept
  BY <1>2, <1>5 DEF WorkerFault
<1>6. ASSUME MonitorStep PROVE ThreadsKept
  <2>1. CASE MonitorSpawn
    <3>1. StartThread /\ ~Pushing
      BY <2>1 DEF MonitorSpawn, Pushing, Inv, PhaseState
    <3> QED BY <3>1, StartThreadKeeps
  <2>2. CASE MonitorShrink
    <3>1. UNCHANGED wpc \/ NotifyAllOn(mnode)
      BY <2>2 DEF MonitorShrink
    <3> QED BY <1>2, <1>3, <3>1
  <2> QED BY <1>2, <1>6, <2>1, <2>2
    DEF MonitorStep, MonitorTop, MonitorNode, MonitorExpand, MonitorSpawnFails,
        MonitorPush, MonitorCheck, MonitorPark, MonitorTimeout
<1>7. ASSUME NEW p \in Producers, EnqueueStep(p) PROVE ThreadsKept
  BY <1>2, <1>3, <1>7 DEF EnqueueStep, EnqueueRoute, EnqueuePush, EnqueueNotify
<1>8. ASSUME NEW p \in Producers, NEW t \in Tasks, NEW n \in Nodes,
             Enqueue(p, t, n) \/ EnqueueToNumaNode(p, t, n)
      PROVE  ThreadsKept
  BY <1>2, <1>8 DEF Enqueue, EnqueueToNumaNode
<1>9. ASSUME StartCall \/ StartStep \/ StartFails PROVE ThreadsKept
  <2>1. CASE StartWorker
    <3>1. StartThread /\ ~Pushing
      BY <2>1 DEF StartWorker, Pushing, Inv, PhaseState
    <3> QED BY <3>1, StartThreadKeeps
  <2> QED BY <1>2, <1>9, <2>1
    DEF StartCall, StartStep, StartPush, StartMonitor, StartFails
(* What is not joinable was joined, and the destructors join the rest. *)
<1>10. ASSUME StopClear PROVE ThreadsKept
  <2>1. /\ cpc = "join" /\ mpc = "none" /\ wpc' = [i \in Slots |-> "none"]
        /\ \A i \in joinable : wpc[i] \in Ended
    BY <1>10 DEF StopClear, DestructorsReturn, Inv, PhaseState
  <2>2. \A i \in Slots : wpc[i] \in Ended \cup {"none"}
    <3> SUFFICES ASSUME NEW i \in Slots, wpc[i] # "none" PROVE wpc[i] \in Ended
      OBVIOUS
    <3>1. i \in Nat /\ size \in Nat
      BY Constants DEF Inv, TypeOK, Slots
    <3>2. i <= size
      BY <2>1, <3>1 DEF Inv, SlotState, Pushing
    <3> QED BY <2>1, <3>2 DEF Inv, SlotState
  <2> QED BY <1>1, <2>1, <2>2 DEF ThreadsKept
<1>11. ASSUME (\E pol \in Policies : StopCall(pol)) \/ StopStep PROVE ThreadsKept
  <2>1. CASE StopWake
    BY <1>3, <2>1 DEF StopWake
  <2> QED BY <1>2, <1>10, <1>11, <2>1
    DEF StopCall, StopStep, StopSignalMonitor, StopJoinMonitor, StopHalt, StopPoll, StopLock,
        StopMark, StopJoin, StopDrop
<1>12. CASE UNCHANGED vars
  BY <1>2, <1>12 DEF vars
<1> QED BY <1>4, <1>5, <1>6, <1>7, <1>8, <1>9, <1>11, <1>12 DEF Next

(* Whoever is joined by Stop, skipped by it, ended by an exception or left *)
(* without a slot: no thread is live when its Thread object goes, and none *)
(* is started over a live one.                                             *)
THEOREM ThreadsAreNotAbandoned == Spec => NoThreadAbandoned
<1>1. Inv /\ [Next]_vars => [ThreadsKept]_<<wpc, mpc>>
  BY ThreadsKeptStep
<1> QED BY InvHolds, <1>1, PTL DEF Spec, NoThreadAbandoned

-----------------------------------------------------------------------------
(* Stale buffers *)

LEMMA PushKeepsStale ==
  ASSUME Inv, StaleInOldBuffer, NEW n \in Nodes, PushWorker(n), wpc' = wpc
  PROVE  StaleInOldBuffer'
<1>1. size \in Nat /\ capacity \in Nat /\ Slots \subseteq Nat \ {0}
  BY Constants DEF Inv, TypeOK, Slots
<1>2. CASE size # capacity
  <2>1. stale' = stale /\ capacity' = capacity
    BY <1>2 DEF PushWorker
  <2> QED BY <2>1 DEF StaleInOldBuffer
<1>3. CASE size = capacity
  <2>1. /\ stale' = stale \cup {i \in Slots : wpc[i] = "bind"}
        /\ capacity' = IF capacity = 0 THEN 1 ELSE 2 * capacity
    BY <1>3 DEF PushWorker
  <2> SUFFICES ASSUME NEW i \in stale' PROVE wpc[i] = "bind" /\ 2 * i <= capacity'
    BY DEF StaleInOldBuffer
  <2>2. wpc[i] = "bind" /\ i \in Slots
    BY <2>1 DEF StaleInOldBuffer, Inv, TypeOK
  <2>3. i <= size
    BY <1>1, <2>2 DEF Inv, SlotState
  <2>4. capacity > 0 /\ capacity' = 2 * capacity
    BY <1>1, <1>3, <2>1, <2>2, <2>3
  <2> QED BY <1>1, <1>3, <2>2, <2>3, <2>4
<1> QED BY <1>2, <1>3

LEMMA StaleStep == Inv /\ StaleInOldBuffer /\ [Next]_vars => StaleInOldBuffer'
<1> SUFFICES ASSUME Inv, StaleInOldBuffer, [Next]_vars PROVE StaleInOldBuffer'
  OBVIOUS
<1>1. ASSUME UNCHANGED <<capacity, stale>>,
             \A i \in Slots : wpc[i] = "bind" => wpc'[i] = "bind"
      PROVE  StaleInOldBuffer'
  BY <1>1 DEF StaleInOldBuffer, Inv, TypeOK
<1>2. ASSUME UNCHANGED <<workerVars, wpc>> PROVE StaleInOldBuffer'
  BY <1>1, <1>2 DEF workerVars
<1>3. ASSUME NEW n, NotifyAllOn(n) \/ NotifyOneOn(n), UNCHANGED workerVars
      PROVE  StaleInOldBuffer'
  <2>1. \A i \in Slots : wpc[i] = "bind" => wpc'[i] = "bind"
    BY <1>3 DEF NotifyAllOn, NotifyOneOn, WaitingOn, Inv, TypeOK
  <2> QED BY <1>1, <1>3, <2>1 DEF workerVars
<1>4. ASSUME StartThread, ~Pushing, UNCHANGED workerVars PROVE StaleInOldBuffer'
  <2>1. size + 1 \in Slots => wpc[size + 1] = "none"
    BY <1>4 DEF Inv, SlotState, TypeOK
  <2>2. \A i \in Slots : wpc[i] = "bind" => wpc'[i] = "bind"
    BY <1>4, <2>1 DEF StartThread, Inv, TypeOK
  <2> QED BY <1>1, <1>4, <2>2 DEF workerVars
(* A worker lets go of the buffer when it binds itself or fails to. *)
<1>5. ASSUME NEW i \in Slots, WorkerBind(i) \/ WorkerBindFails(i) PROVE StaleInOldBuffer'
  <2>1. /\ stale' = stale \ {i} /\ capacity' = capacity
        /\ \A j \in Slots : j # i => wpc'[j] = wpc[j]
    BY <1>5 DEF WorkerBind, WorkerBindFails, Go, Inv, TypeOK
  <2> QED BY <2>1 DEF StaleInOldBuffer, Inv, TypeOK
<1>6. ASSUME NEW i \in Slots, WorkerStep(i) \/ WorkerSpuriousWakeup(i),
             ~WorkerBind(i), ~WorkerBindFails(i)
      PROVE  StaleInOldBuffer'
  <2>1. /\ wpc[i] # "bind" /\ UNCHANGED workerVars
        /\ \E to \in WorkerPCs : wpc' = [wpc EXCEPT ![i] = to]
    BY <1>6
    DEF WorkerStep, WorkerEnter, WorkerCount, WorkerTest,
        WorkerCheck, WorkerPark, WorkerWake, WorkerPop, WorkerPopNothing, WorkerFinish,
        WorkerThrow, WorkerRetire, WorkerUncount, WorkerSpuriousWakeup, EndTask, Elsewhere,
        Go, WorkerPCs, Ended
  <2> QED BY <1>1, <2>1 DEF workerVars, Inv, TypeOK
<1>7. ASSUME NEW i \in Slots, WorkerFault(i) PROVE StaleInOldBuffer'
  BY <1>2, <1>7 DEF WorkerFault
<1>8. ASSUME MonitorStep PROVE StaleInOldBuffer'
  <2>1. CASE MonitorSpawn
    <3>1. StartThread /\ ~Pushing /\ UNCHANGED workerVars
      BY <2>1 DEF MonitorSpawn, Pushing, Inv, PhaseState
    <3> QED BY <1>4, <3>1
  <2>2. CASE MonitorShrink
    <3>1. UNCHANGED workerVars /\ (UNCHANGED wpc \/ NotifyAllOn(mnode))
      BY <2>2 DEF MonitorShrink
    <3> QED BY <1>2, <1>3, <3>1
  <2>3. CASE MonitorPush
    <3>1. PushWorker(mnode) /\ wpc' = wpc /\ mnode \in Nodes
      BY <2>3 DEF MonitorPush, Inv, TypeOK
    <3> QED BY <3>1, PushKeepsStale
  <2> QED BY <1>2, <1>8, <2>1, <2>2, <2>3
    DEF MonitorStep, MonitorTop, MonitorNode, MonitorExpand, MonitorSpawnFails,
        MonitorCheck, MonitorPark, MonitorTimeout
<1>9. ASSUME NEW p \in Producers, EnqueueStep(p) PROVE StaleInOldBuffer'
  BY <1>2, <1>3, <1>9 DEF EnqueueStep, EnqueueRoute, EnqueuePush, EnqueueNotify
<1>10. ASSUME NEW p \in Producers, NEW t \in Tasks, NEW n \in Nodes,
              Enqueue(p, t, n) \/ EnqueueToNumaNode(p, t, n)
       PROVE  StaleInOldBuffer'
  BY <1>2, <1>10 DEF Enqueue, EnqueueToNumaNode
<1>11. ASSUME StartCall \/ StartStep \/ StartFails PROVE StaleInOldBuffer'
  <2>1. CASE StartWorker
    <3>1. StartThread /\ ~Pushing /\ UNCHANGED workerVars
      BY <2>1 DEF StartWorker, Pushing, Inv, PhaseState
    <3> QED BY <1>4, <3>1
  <2>2. CASE StartPush
    <3>1. PushWorker(at \div MinPerNode) /\ wpc' = wpc
      BY <2>2 DEF StartPush
    <3>2. at \div MinPerNode \in Nodes
      BY <2>2, NodeOfSlot DEF StartPush, Inv, LimitState, TypeOK
    <3> QED BY <3>1, <3>2, PushKeepsStale
  <2> QED BY <1>2, <1>11, <2>1, <2>2 DEF StartCall, StartStep, StartMonitor, StartFails
<1>12. ASSUME StopJoin PROVE StaleInOldBuffer'
  BY <1>1, <1>12 DEF StopJoin
<1>13. ASSUME StopClear PROVE StaleInOldBuffer'
  BY <1>13 DEF StopClear, StaleInOldBuffer
<1>14. ASSUME (\E pol \in Policies : StopCall(pol)) \/ StopStep PROVE StaleInOldBuffer'
  <2>1. CASE StopWake
    BY <1>3, <2>1 DEF StopWake
  <2> QED BY <1>2, <1>12, <1>13, <1>14, <2>1
    DEF StopCall, StopStep, StopSignalMonitor, StopJoinMonitor, StopHalt, StopPoll, StopLock,
        StopMark, StopDrop
<1>15. CASE UNCHANGED vars
  BY <1>2, <1>15 DEF vars
<1> QED BY <1>5, <1>6, <1>7, <1>8, <1>9, <1>10, <1>11, <1>14, <1>15 DEF Next

(* However often the vector doubles: a worker that may read a freed buffer *)
(* is between its test and its binding, in the first half of the vector.   *)
THEOREM OnlyOldBuffersGoStale == Spec => []StaleInOldBuffer
<1>1. Init => StaleInOldBuffer
  BY DEF Init, StaleInOldBuffer
<1> QED BY InvHolds, <1>1, StaleStep, PTL DEF Spec
=============================================================================
