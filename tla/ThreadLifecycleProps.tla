------------------------ MODULE ThreadLifecycleProps ------------------------
(***************************************************************************)
(* Properties of ThreadLifecycle.                                          *)
(***************************************************************************)
EXTENDS ThreadLifecycle

ThreadProperties ==
  [state : {"INVALID", "JOINABLE", "DETACHED", "TERMINATED"},
   action : {"JOIN", "DETACH", "CANCEL", "TERMINATE"},
   complete : BOOLEAN, handle : 0 .. MaxRuns]

PosixThreads ==
  [pc : {"none", "running", "update", "ended"}, weak : Objects \cup {NoObject},
   reap : {"joinable", "joined", "detached"}]

Calls ==
  [pc : {"idle", "check", "join", "detach", "signal", "reread", "record", "rebind"},
   op : Operations, obj : Objects \cup {NoObject}, from : Objects \cup {NoObject},
   h : 0 .. MaxRuns]

(* Every variable has its type, and each property belongs to one object.   *)
TypeOK ==
  /\ prop \in [Objects -> Objects]
  /\ \A o1, o2 \in Objects : prop[o1] = prop[o2] => o1 = o2
  /\ property \in [Objects -> ThreadProperties]
  /\ started \in 0 .. MaxRuns
  /\ thread \in [Runs -> PosixThreads]
  /\ doomed \subseteq Runs /\ unwound \subseteq Runs
  /\ call \in [Callers -> Calls]
  /\ abused \in BOOLEAN /\ crashed \in BOOLEAN

(* "to prevent resource leaks" (README): a thread that was neither joined  *)
(* nor detached is recorded as JOINABLE by an object, through moves, swaps,*)
(* assignments, restarts and destructors.  Only where pthread_cancel and   *)
(* pthread_kill refuse an ended thread, and Cleanup ignores it, may such a *)
(* thread be left behind unreclaimed.                                      *)
NoThreadLost ==
  \A r \in 1 .. started : thread[r].reap = "joinable" =>
    \/ \E o \in Objects : property[prop[o]].handle = r /\ property[prop[o]].state = "JOINABLE"
    \/ EndedIsGone /\ thread[r].pc = "ended"

(* A thread is joined once: as long as no detached thread was cancelled or *)
(* terminated after its end, no pthread call gets the handle of a thread   *)
(* that has been joined.                                                   *)
JoinedOnce ==
  \A c \in Callers : call[c].pc \in {"join", "detach", "signal"} /\ ~abused
    => thread[call[c].h].reap # "joined"

(* Detach and the end of the thread meet through is_complete: a thread     *)
(* that is recorded as DETACHED, for which Start is refused, has not ended,*)
(* or it ended by pthread_exit or cancellation and never reports.          *)
DetachedIsAlive ==
  \A p \in Objects : property[p].state = "DETACHED" =>
    Alive(property[p].handle) \/ property[p].handle \in unwound

(* When TERMINATED may be recorded of a thread that has not ended: it was  *)
(* detached and then cancelled or terminated, for which nobody waits, or   *)
(* an earlier thread of the same property has set is_complete, which Start *)
(* does not reset.                                                         *)
EarlierRunCompleted(p, r) ==
  \E q \in 1 .. (r - 1) : thread[q].weak = p /\ thread[q].pc = "ended" /\ q \notin unwound

TerminatedIsOver ==
  \A p \in Objects : LET r == property[p].handle IN
    property[p].state = "TERMINATED" /\ Alive(r)
      => /\ thread[r].reap = "detached"
         /\ r \in doomed \/ EarlierRunCompleted(p, r)

-----------------------------------------------------------------------------
(* A call that waits for a thread returns when the task ends: no thread    *)
(* waits for the mutex of a property whose holder waits for the thread.    *)
JoinsReturn == \A c \in Callers : At(c, "join") ~> ~At(c, "join") \/ crashed

(* A detached thread whose task returns is recorded as TERMINATED, so that *)
(* its object can be started again.                                        *)
DetachedIsReported ==
  \A p \in Objects :
    property[p].state = "DETACHED"
      ~> property[p].state # "DETACHED" \/ property[p].handle \in unwound \/ crashed

=============================================================================
