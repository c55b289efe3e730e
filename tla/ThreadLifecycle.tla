--------------------------- MODULE ThreadLifecycle ---------------------------
(***************************************************************************)
(* Thread of pthread_wrapper.hpp: the objects, the ThreadProperty each of  *)
(* them holds by shared_ptr, the POSIX threads that Start creates, and the *)
(* callers that start, join, detach, cancel, terminate, move, swap and     *)
(* destroy the objects.                                                    *)
(*                                                                         *)
(* Every LockGuard of a call is gone before its pthread call, so a call is *)
(* a sequence of steps: the check under the mutex, the pthread call, the   *)
(* second read of thread_state that Cancel and Terminate make without the  *)
(* mutex, and the record of the new state under the mutex.                 *)
(*                                                                         *)
(* A ThreadProperty bears the name of the object that held it first.       *)
(* Destruction and move assignment drop a property for a fresh one; here   *)
(* the fresh one takes over the name, and the weak_ptr of the threads      *)
(* started from the dropped one expire.                                    *)
(***************************************************************************)
EXTENDS Integers, FiniteSets

CONSTANTS
  Objects, NoObject,   \* Thread objects
  Callers,             \* the threads that call their methods
  MaxRuns,             \* bound: how many threads Start creates
  DtorActions,         \* the destructor actions that callers choose
  Attributes,          \* the detach states callers pass in a ThreadAttribute
  TasksMayExit,        \* a task may leave by pthread_exit
  EndedIsGone,         \* pthread_kill and pthread_cancel say ESRCH of a thread
                       \* that has ended and was not joined (glibc before 2.34)
  Shared               \* callers may use one object at the same time

ASSUME ThreadAssumption ==
  /\ NoObject \notin Objects
  /\ MaxRuns \in Nat
  /\ DtorActions \subseteq {"JOIN", "DETACH", "CANCEL", "TERMINATE"}
  /\ Attributes \subseteq {"joinable", "detached"}
  /\ {TasksMayExit, EndedIsGone, Shared} \subseteq BOOLEAN

Runs == 1 .. MaxRuns

VARIABLES
  prop,       \* property_ of each object
  property,   \* the members of each ThreadProperty
  started,    \* how many threads were created
  thread,     \* each thread: where it is, its weak_ptr, who will reclaim it
  doomed,     \* the live threads with a cancellation request or a SIGTERM pending
  unwound,    \* history: the threads that left ThreadEntry by forced unwinding
  call,       \* each caller: the call it is in
  abused,     \* history: a pthread function was given a dead handle
  crashed

vars == <<prop, property, started, thread, doomed, unwound, call, abused, crashed>>

FreshProperty ==
  [state |-> "INVALID", action |-> "JOIN", complete |-> FALSE, handle |-> 0]

Unused == [pc |-> "none", weak |-> NoObject, reap |-> "joinable"]

(* from: whose property the object takes over at the end of the call: none *)
(* in a method, its own fresh one when destroyed, the source of a move.    *)
NewCall(pc, op, obj, from) ==
  [pc |-> pc, op |-> op, obj |-> obj, from |-> from, h |-> 0]
NoCall == NewCall("idle", "Join", NoObject, NoObject)

Init ==
  /\ prop = [o \in Objects |-> o]
  /\ property = [p \in Objects |-> FreshProperty]
  /\ started = 0 /\ thread = [r \in Runs |-> Unused]
  /\ doomed = {} /\ unwound = {}
  /\ call = [c \in Callers |-> NoCall]
  /\ abused = FALSE /\ crashed = FALSE

-----------------------------------------------------------------------------
(* Mutant: the guard of Join lives until the end of the function. *)
LockedWhileJoining == {"join"}

(* Where a caller holds the mutex of its property between two steps.       *)
LockedAt == {}

MutexFree(p) ==
  \A c \in Callers : call[c].pc \in LockedAt => prop[call[c].obj] # p

Alive(r) == thread[r].pc \in {"running", "update"}

(* A pthread_t is dead when its thread has been joined, or has ended       *)
(* detached.  Its value may come back as that of a younger thread.         *)
Dead(r) == \/ thread[r].reap = "joined"
           \/ thread[r].reap = "detached" /\ thread[r].pc = "ended"

Running == {"JOINABLE", "DETACHED"}

At(c, pc) == call[c].pc = pc
Go(c, pc) == call' = [call EXCEPT ![c].pc = pc]
Own(c) == prop[call[c].obj]

(* The end of a method, by return or by exception.  Cleanup ignores the    *)
(* exception and goes on with the destruction or the move.                 *)
Finish(c) ==
  call' = [call EXCEPT ![c] = IF call[c].from = NoObject THEN NoCall
                                ELSE [call[c] EXCEPT !.pc = "rebind"]]

(* C++ asks of the callers that nobody uses an object that is moved from   *)
(* or destroyed; whether they otherwise use one at the same time is Shared.*)
Users(o) == {c \in Callers : o \in {call[c].obj, call[c].from}}
Unoccupied(o) == Users(o) = {}

MayUse(c, o) ==
  /\ At(c, "idle")
  /\ \A d \in Users(o) : Shared /\ call[d].from = NoObject

-----------------------------------------------------------------------------
(* Start.  A failed pthread_create changes nothing and is left out.        *)
Start(c, o, action, attr) ==
  LET p == prop[o]
      r == started + 1
  IN
  /\ MayUse(c, o) /\ MutexFree(p)
  /\ property[p].state \notin Running
  /\ started < MaxRuns
  /\ started' = r
  /\ thread' = [thread EXCEPT ![r] = [pc |-> "running", weak |-> p, reap |-> attr]]
  /\ property' = [property EXCEPT ![p].state = "JOINABLE", ![p].action = action,
                                  ![p].handle = r]
  /\ UNCHANGED <<prop, doomed, unwound, call, abused, crashed>>

SetDtorAction(c, o, action) ==
  /\ MayUse(c, o) /\ MutexFree(prop[o])
  /\ property[prop[o]].state \notin Running
  /\ property' = [property EXCEPT ![prop[o]].action = action]
  /\ UNCHANGED <<prop, started, thread, doomed, unwound, call, abused, crashed>>

-----------------------------------------------------------------------------
(* ThreadEntry *)

(* The callable returns, or throws a std::exception that is caught. *)
TaskEnds(r) ==
  /\ thread[r].pc = "running"
  /\ thread' = [thread EXCEPT ![r].pc = "update"]
  /\ UNCHANGED <<prop, property, started, doomed, unwound, call, abused, crashed>>

(* Cancellation, or pthread_exit in the task or in its SIGTERM handler.    *)
(* The message of a caught exception is a cancellation point, too.         *)
Unwind(r) ==
  /\ \/ r \in doomed /\ Alive(r)
     \/ TasksMayExit /\ thread[r].pc = "running"
  /\ thread' = [thread EXCEPT ![r].pc = "ended"]
  /\ unwound' = unwound \cup {r} /\ doomed' = doomed \ {r}
  /\ UNCHANGED <<prop, property, started, call, abused, crashed>>

(* Mutant: ThreadEntry leaves the state alone. *)
CompletedOnly(q) == [q EXCEPT !.complete = TRUE]

Completed(q) ==
  [q EXCEPT !.complete = TRUE,
            !.state = IF q.state = "DETACHED" THEN "TERMINATED" ELSE q.state]

EntryUpdate(r) ==
  LET p == thread[r].weak IN
  /\ thread[r].pc = "update"
  /\ IF p = NoObject THEN UNCHANGED property
     ELSE /\ MutexFree(p)
          /\ property' = [property EXCEPT ![p] = Completed(property[p])]
  /\ thread' = [thread EXCEPT ![r].pc = "ended"] /\ doomed' = doomed \ {r}
  /\ UNCHANGED <<prop, started, unwound, call, abused, crashed>>

-----------------------------------------------------------------------------
(* Join, Detach, Cancel, Terminate *)

Operations == {"Join", "Detach", "Cancel", "Terminate"}

Call(c, o, op) ==
  /\ MayUse(c, o)
  /\ call' = [call EXCEPT ![c] = NewCall("check", op, o, NoObject)]
  /\ UNCHANGED <<prop, property, started, thread, doomed, unwound, abused, crashed>>

(* Mutant: Join does not look at the state. *)
PermittedAnyJoin(op, q) ==
  CASE op = "Join"   -> q.state # "INVALID" /\ q.action # "DETACH"
    [] op = "Detach" -> q.state = "JOINABLE"
    [] OTHER         -> q.state \in Running

Permitted(op, q) ==
  CASE op = "Join"   -> q.state = "JOINABLE" /\ q.action # "DETACH"
    [] op = "Detach" -> q.state = "JOINABLE"
    [] OTHER         -> q.state \in Running

FirstCall(op) ==
  CASE op = "Join"   -> "join"
    [] op = "Detach" -> "detach"
    [] OTHER         -> "signal"

Check(c) ==
  /\ At(c, "check") /\ MutexFree(Own(c))
  /\ IF Permitted(call[c].op, property[Own(c)])
       THEN call' = [call EXCEPT ![c].pc = FirstCall(call[c].op),
                                 ![c].h = property[Own(c)].handle]
       ELSE Finish(c)
  /\ UNCHANGED <<prop, property, started, thread, doomed, unwound, abused, crashed>>

(* pthread_join, for Terminate after some rounds of pthread_tryjoin_np.    *)
JoinReturns(c) ==
  LET r == call[c].h IN
  /\ At(c, "join") /\ ~Dead(r)
  /\ thread[r].reap = "joinable" /\ thread[r].pc = "ended"
  /\ thread' = [thread EXCEPT ![r].reap = "joined"]
  /\ Go(c, "record")
  /\ UNCHANGED <<prop, property, started, doomed, unwound, abused, crashed>>

(* EINVAL: the thread is detached, or another caller is joining it. *)
JoinFails(c) ==
  LET r == call[c].h IN
  /\ At(c, "join") /\ ~Dead(r)
  /\ \/ thread[r].reap = "detached"
     \/ \E d \in Callers \ {c} : At(d, "join") /\ call[d].h = r
  /\ Finish(c)
  /\ UNCHANGED <<prop, property, started, thread, doomed, unwound, abused, crashed>>

PthreadDetach(c) ==
  LET r == call[c].h IN
  /\ At(c, "detach") /\ ~Dead(r)
  /\ thread' = [thread EXCEPT ![r].reap = "detached"]
  /\ IF thread[r].reap = "joinable" THEN Go(c, "record") ELSE Finish(c)
  /\ UNCHANGED <<prop, property, started, doomed, unwound, abused, crashed>>

(* pthread_cancel or pthread_kill *)
Signal(c) ==
  LET r == call[c].h IN
  /\ At(c, "signal") /\ ~Dead(r)
  /\ doomed' = IF Alive(r) THEN doomed \cup {r} ELSE doomed
  /\ Go(c, "reread")
  /\ UNCHANGED <<prop, property, started, thread, unwound, abused, crashed>>

SignalFails(c) ==
  /\ EndedIsGone
  /\ At(c, "signal") /\ ~Dead(call[c].h) /\ thread[call[c].h].pc = "ended"
  /\ Finish(c)
  /\ UNCHANGED <<prop, property, started, thread, doomed, unwound, abused, crashed>>

(* Mutant: the canceled thread is never joined. *)
NeverJoined(state) == "record"

AfterSignal(state) == IF state = "JOINABLE" THEN "join" ELSE "record"

(* thread_state is read without the mutex. *)
Reread(c) ==
  /\ At(c, "reread")
  /\ Go(c, AfterSignal(property[Own(c)].state))
  /\ UNCHANGED <<prop, property, started, thread, doomed, unwound, abused, crashed>>

(* A pthread function is given a dead handle: the process crashes, or the  *)
(* function fails (Terminate records an ESRCH of pthread_join), or it acts *)
(* on a younger thread to which the handle belongs now.                    *)
DeadHandle(c) ==
  /\ call[c].pc \in {"join", "detach", "signal"} /\ Dead(call[c].h)
  /\ abused' = TRUE
  /\ \/ crashed' = TRUE /\ UNCHANGED call
     \/ Finish(c) /\ UNCHANGED crashed
     \/ At(c, "join") /\ call[c].op = "Terminate" /\ Go(c, "record") /\ UNCHANGED crashed
     \/ /\ \E r \in (call[c].h + 1) .. started :
             ~Dead(r) /\ call' = [call EXCEPT ![c].h = r]
        /\ UNCHANGED crashed
  /\ UNCHANGED <<prop, property, started, thread, doomed, unwound>>

(* Mutant: Detach does not look at is_complete. *)
RecordAlways(op, q) == IF op = "Detach" THEN "DETACHED" ELSE "TERMINATED"

RecordedState(op, q) ==
  IF op = "Detach" /\ ~q.complete THEN "DETACHED" ELSE "TERMINATED"

Record(c) ==
  /\ At(c, "record") /\ MutexFree(Own(c))
  /\ property' = [property EXCEPT ![Own(c)].state =
                                    RecordedState(call[c].op, property[Own(c)])]
  /\ Finish(c)
  /\ UNCHANGED <<prop, started, thread, doomed, unwound, abused, crashed>>

-----------------------------------------------------------------------------
(* Destruction, moves, Swap *)

OperationOf(action) ==
  CASE action = "JOIN"   -> "Join"
    [] action = "DETACH" -> "Detach"
    [] action = "CANCEL" -> "Cancel"
    [] OTHER             -> "Terminate"

(* Mutant: the object's thread is not cleaned up. *)
NothingToDo(q) == TRUE

NothingToClean(q) == q.state # "JOINABLE"

(* ~Thread (from = o) and move assignment o = std::move(from).  The move   *)
(* constructor is the move assignment to an object that was never started. *)
Cleanup(c, o, from) ==
  /\ At(c, "idle") /\ Unoccupied(o) /\ Unoccupied(from) /\ MutexFree(prop[o])
  /\ call' = [call EXCEPT ![c] =
       NewCall(IF NothingToClean(property[prop[o]]) THEN "rebind" ELSE "check",
               OperationOf(property[prop[o]].action), o, from)]
  /\ UNCHANGED <<prop, property, started, thread, doomed, unwound, abused, crashed>>

(* Mutant: the source of a move keeps its property. *)
ReboundShared(o, from) == [prop EXCEPT ![o] = prop[from]]
Rebound(o, from) == [prop EXCEPT ![o] = prop[from], ![from] = prop[o]]

Rebind(c) ==
  LET o == call[c].obj
      from == call[c].from
      p == prop[o]
  IN
  /\ At(c, "rebind") /\ MutexFree(prop[from])
  /\ prop' = Rebound(o, from)
  /\ property' = [property EXCEPT ![p] = FreshProperty]
  /\ thread' = [r \in Runs |-> IF thread[r].weak = p
                                 THEN [thread[r] EXCEPT !.weak = NoObject] ELSE thread[r]]
  /\ call' = [call EXCEPT ![c] = NoCall]
  /\ UNCHANGED <<started, doomed, unwound, abused, crashed>>

Swap(c, o, other) ==
  /\ At(c, "idle") /\ Unoccupied(o) /\ Unoccupied(other) /\ o # other
  /\ prop' = Rebound(o, other)
  /\ UNCHANGED <<property, started, thread, doomed, unwound, call, abused, crashed>>

-----------------------------------------------------------------------------
CallStep(c) ==
  \/ Check(c) \/ JoinReturns(c) \/ JoinFails(c) \/ PthreadDetach(c)
  \/ Signal(c) \/ SignalFails(c) \/ Reread(c) \/ DeadHandle(c) \/ Record(c) \/ Rebind(c)

ThreadStep(r) == TaskEnds(r) \/ EntryUpdate(r)

Next ==
  /\ ~crashed
  /\ \/ \E c \in Callers :
          \/ CallStep(c)
          \/ \E o \in Objects :
               \/ \E action \in DtorActions :
                    \/ \E attr \in Attributes : Start(c, o, action, attr)
                    \/ SetDtorAction(c, o, action)
               \/ \E op \in Operations : Call(c, o, op)
               \/ \E other \in Objects : Cleanup(c, o, other) \/ Swap(c, o, other)
     \/ \E r \in Runs : ThreadStep(r) \/ Unwind(r)

Spec == Init /\ [][Next]_vars

(* Every thread is scheduled and tasks end; nobody must call anything.     *)
FairSpec == /\ Spec
            /\ \A c \in Callers : WF_vars(~crashed /\ CallStep(c))
            /\ \A r \in Runs : WF_vars(~crashed /\ ThreadStep(r))
=============================================================================
