---------------------------- MODULE TaskExecutor ----------------------------
(***************************************************************************)
(* What a task may experience in a pool that implements the ThreadPool     *)
(* interface (thread_pool.hpp, class ThreadPool): an accepted task waits   *)
(* in one FIFO queue, is started at most once and in queue order, and then *)
(* either ends or lets an exception escape.  A task that is still queued   *)
(* when the pool is shut down may be discarded, but only at a moment when  *)
(* no task is running.  A task whose Enqueue throws never enters the queue.*)
(***************************************************************************)
EXTENDS Sequences

CONSTANT Tasks       \* the tasks the clients may hand to the pool

VARIABLES queue,     \* the tasks that wait, oldest first
          fate       \* what has become of each task

execVars == <<queue, fate>>

Init == /\ queue = <<>>
        /\ fate = [t \in Tasks |-> "new"]

(* Enqueue returns normally: the task is at the end of the queue. *)
Accept(t) == /\ fate[t] = "new"
             /\ fate' = [fate EXCEPT ![t] = "queued"]
             /\ queue' = Append(queue, t)

(* Enqueue throws because the pool is not running. *)
Reject(t) == /\ fate[t] = "new"
             /\ fate' = [fate EXCEPT ![t] = "rejected"]
             /\ UNCHANGED queue

(* A worker takes the oldest task and calls it. *)
StartOldest == /\ queue # <<>>
               /\ fate[Head(queue)] = "queued"
               /\ fate' = [fate EXCEPT ![Head(queue)] = "running"]
               /\ queue' = Tail(queue)

(* The call returns, or an exception leaves it. *)
End(t) == /\ fate[t] = "running"
          /\ \E how \in {"finished", "threw"} : fate' = [fate EXCEPT ![t] = how]
          /\ UNCHANGED queue

(* Stop empties the queue; no task is running at that moment. *)
DiscardAll == /\ \A t \in Tasks : fate[t] # "running"
              /\ fate' = [t \in Tasks |-> IF fate[t] = "queued" THEN "discarded"
                                                                ELSE fate[t]]
              /\ queue' = <<>>

Next == \/ \E t \in Tasks : Accept(t) \/ Reject(t) \/ End(t)
        \/ StartOldest
        \/ DiscardAll

Spec == Init /\ [][Next]_execVars
=============================================================================
