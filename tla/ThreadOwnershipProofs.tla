----------------------- MODULE ThreadOwnershipProofs -----------------------
(***************************************************************************)
(* Who reclaims a thread: theorems of ThreadLifecycle for objects that are *)
(* each used by one caller at a time (~Shared), on top of the inductive    *)
(* invariant of ThreadLifecycleProofs.                                     *)
(*                                                                         *)
(* They hold until a pthread function is given a dead handle: from then on *)
(* it may have acted on a thread of another object.                        *)
(***************************************************************************)
EXTENDS ThreadLifecycleProofs

(* Every object in use is used by one caller. *)
Exclusive ==
  \A c, d \in Callers : c # d /\ call[c].pc # "idle" /\ call[d].pc # "idle"
    => call[c].obj \notin {call[d].obj, call[d].from}

(* No property is left without an object. *)
AllHeld == \A p \in Objects : \E o \in Objects : prop[o] = p

(* The threads: those not created, those that ended, and to whom each of   *)
(* them reports.                                                           *)
ThreadOK(r) ==
  /\ r > started => thread[r] = Unused
  /\ r <= started => thread[r].pc # "none"
  /\ thread[r].reap = "joined" \/ r \in unwound => thread[r].pc = "ended"
  /\ thread[r].weak \in Objects => r <= property[thread[r].weak].handle

(* A thread that is not joinable, and over; or detached, and on its way out*)
(* or mistaken for an earlier one.                                         *)
Dismissed(p, r) ==
  /\ thread[r].reap # "joinable"
  /\ Alive(r) => thread[r].reap = "detached" /\ (r \in doomed \/ EarlierRunCompleted(p, r))

(* What a property records of its thread.                                  *)
RecordOK(p) ==
  LET r == property[p].handle IN
  /\ property[p].state = "JOINABLE" /\ thread[r].reap = "joined"
       => \E c \in Callers : call[c].pc = "record" /\ Own(c) = p
  /\ property[p].state = "DETACHED" => thread[r].reap = "detached"
  /\ property[p].state = "TERMINATED" => Dismissed(p, r)
  /\ property[p].complete =>
       \E q \in Runs : thread[q].weak = p /\ thread[q].pc = "ended" /\ q \notin unwound

(* What a caller may rely on between the steps of its call.                *)
KnowsHandle(c) ==
  LET q == property[Own(c)] IN
  /\ call[c].h = q.handle /\ thread[q.handle].reap # "joined"
  /\ call[c].pc = "join" => q.state = "JOINABLE" /\ call[c].op # "Detach"
  /\ call[c].pc = "detach" => q.state = "JOINABLE" /\ call[c].op = "Detach"
  /\ call[c].pc \in {"signal", "reread"} => call[c].op \in {"Cancel", "Terminate"}
  /\ call[c].pc = "reread" /\ Alive(q.handle) => q.handle \in doomed

KnowsOutcome(c) ==
  LET r == property[Own(c)].handle IN
  /\ thread[r].reap # "joinable"
  /\ Alive(r) => thread[r].reap = "detached" /\ (call[c].op = "Detach" \/ r \in doomed)
  /\ call[c].op = "Detach" => thread[r].reap = "detached"

(* A destructor or a move finds the operation it has chosen permitted, and *)
(* leaves the thread only when that has reclaimed it.                      *)
KnowsCleanup(c) ==
  LET q == property[Own(c)] IN
  /\ call[c].pc = "check" => q.state = "JOINABLE" /\ call[c].op = OperationOf(q.action)
  /\ call[c].pc = "rebind" /\ q.state = "JOINABLE" =>
       thread[q.handle].reap # "joinable" \/ (EndedIsGone /\ thread[q.handle].pc = "ended")

Knows(c) ==
  /\ call[c].pc \in {"join", "detach", "signal", "reread"} => KnowsHandle(c)
  /\ call[c].pc = "record" => KnowsOutcome(c)
  /\ call[c].from # NoObject => KnowsCleanup(c)

Reclaimed(r) ==
  r <= started /\ thread[r].reap = "joinable" =>
    \/ \E p \in Objects : property[p].handle = r /\ property[p].state = "JOINABLE"
    \/ EndedIsGone /\ thread[r].pc = "ended"

Threads   == \A r \in Runs : ThreadOK(r)
Records   == \A p \in Objects : RecordOK(p)
Knowledge == \A c \in Callers : Knows(c)
Ownership == \A r \in Runs : Reclaimed(r)

OwnerInv ==
  /\ Inv /\ Exclusive /\ AllHeld
  /\ ~abused => Threads /\ Records /\ Knowledge /\ Ownership

-----------------------------------------------------------------------------
(* Who uses what *)

(* The types, and what the invariant says of calls and handles. *)
LEMMA Facts ==
  ASSUME Inv
  PROVE  /\ prop \in [Objects -> Objects]
         /\ \A o1, o2 \in Objects : prop[o1] = prop[o2] => o1 = o2
         /\ property \in [Objects -> ThreadProperties]
         /\ thread \in [Runs -> PosixThreads] /\ call \in [Callers -> Calls]
         /\ started \in Nat /\ started <= MaxRuns /\ MaxRuns \in Nat
         /\ doomed \subseteq Runs /\ unwound \subseteq Runs
         /\ \A p \in Objects : property[p].handle \in Nat
         /\ \A c \in Callers : /\ call[c].pc # "idle" => call[c].obj \in Objects
                               /\ call[c].pc # "idle" => Own(c) \in Objects
                               /\ call[c].pc = "idle" => call[c].obj = NoObject
                                                         /\ call[c].from = NoObject
                               /\ call[c].from \in Objects \cup {NoObject}
                               /\ call[c].op \in Operations
<1>1. TypeOK /\ MaxRuns \in Nat /\ CallState
  BY ThreadAssumption DEF Inv
<1>2. /\ prop \in [Objects -> Objects]
      /\ \A o1, o2 \in Objects : prop[o1] = prop[o2] => o1 = o2
      /\ property \in [Objects -> ThreadProperties]
      /\ thread \in [Runs -> PosixThreads] /\ call \in [Callers -> Calls]
      /\ doomed \subseteq Runs /\ unwound \subseteq Runs
  BY <1>1 DEF TypeOK
<1>3. started \in Nat /\ started <= MaxRuns
  BY <1>1 DEF TypeOK
<1>4. \A p \in Objects : property[p].handle \in Nat
  BY <1>1, <1>2 DEF ThreadProperties
<1>5. ASSUME NEW c \in Callers
      PROVE  /\ call[c].pc # "idle" => call[c].obj \in Objects
             /\ call[c].pc = "idle" => call[c].obj = NoObject /\ call[c].from = NoObject
             /\ call[c].from \in Objects \cup {NoObject}
             /\ call[c].op \in Operations
  BY <1>1, <1>2 DEF Calls, CallState, CallOK
<1>6. \A c \in Callers : call[c].pc # "idle" => Own(c) \in Objects
  BY <1>2, <1>5 DEF Own
<1> QED BY <1>1, <1>2, <1>3, <1>4, <1>5, <1>6

(* Two calls are about two properties. *)
LEMMA Apart ==
  ASSUME Inv, Exclusive, NEW c \in Callers, NEW d \in Callers, c # d,
         call[c].pc # "idle", call[d].pc # "idle"
  PROVE  Own(c) # Own(d)
BY Facts DEF Exclusive, Own

(* Two properties have two threads. *)
LEMMA HandlesApart ==
  ASSUME Inv, NEW p \in Objects, NEW q \in Objects, p # q, property[p].handle # 0
  PROVE  property[p].handle # property[q].handle
BY DEF Inv, HandleState, HandleOK

(* An object that a caller may use is in no other call. *)
LEMMA Untouched ==
  ASSUME Inv, ~Shared, NEW c \in Callers, NEW o \in Objects, MayUse(c, o)
  PROVE  /\ \A d \in Callers : o \notin {call[d].obj, call[d].from}
         /\ \A d \in Callers : call[d].pc # "idle" => Own(d) # prop[o]
<1>1. \A d \in Callers : o \notin {call[d].obj, call[d].from}
  BY DEF MayUse, Users
<1> QED BY <1>1, Facts DEF Own

(* The same of an object that is moved, swapped or destroyed. *)
LEMMA UntouchedByAll ==
  ASSUME Inv, NEW o \in Objects, Unoccupied(o)
  PROVE  /\ \A d \in Callers : o \notin {call[d].obj, call[d].from}
         /\ \A d \in Callers : call[d].pc # "idle" => Own(d) # prop[o]
<1>1. \A d \in Callers : o \notin {call[d].obj, call[d].from}
  BY DEF Unoccupied, Users
<1> QED BY <1>1, Facts DEF Own

(* The steps of a call, as far as its caller is concerned. *)
LEMMA StepOfCall ==
  ASSUME Inv, NEW c \in Callers, CallStep(c)
  PROVE  /\ call[c].pc # "idle"
         /\ \A d \in Callers \ {c} : call'[d] = call[d]
         /\ \/ call'[c] = NoCall
            \/ call'[c].obj = call[c].obj /\ call'[c].from = call[c].from
<1> call \in [Callers -> Calls] /\ call[c] \in Calls /\ TypeOK
  BY Facts DEF Inv
<1>1. ASSUME Finish(c)
      PROVE  /\ \A d \in Callers \ {c} : call'[d] = call[d]
             /\ \/ call'[c] = NoCall
                \/ call'[c].obj = call[c].obj /\ call'[c].from = call[c].from
  BY <1>1, FinishFields
<1>2. ASSUME NEW pc, Go(c, pc)
      PROVE  /\ \A d \in Callers \ {c} : call'[d] = call[d]
             /\ call'[c].obj = call[c].obj /\ call'[c].from = call[c].from
  BY <1>2, GoFields
<1>3. CASE Check(c)
  <2>1. ASSUME Permitted(call[c].op, property[Own(c)])
        PROVE  /\ \A d \in Callers \ {c} : call'[d] = call[d]
               /\ call'[c].obj = call[c].obj /\ call'[c].from = call[c].from
    BY <1>3, <2>1 DEF Check, Calls
  <2> QED BY <1>1, <1>3, <2>1 DEF Check, At
<1>4. CASE JoinReturns(c)
  BY <1>2, <1>4 DEF JoinReturns, At
<1>5. CASE JoinFails(c)
  BY <1>1, <1>5 DEF JoinFails, At
<1>6. CASE PthreadDetach(c)
  BY <1>1, <1>2, <1>6 DEF PthreadDetach, At
<1>7. CASE Signal(c)
  BY <1>2, <1>7 DEF Signal, At
<1>8. CASE SignalFails(c)
  BY <1>1, <1>8 DEF SignalFails, At
<1>9. CASE Reread(c)
  BY <1>2, <1>9 DEF Reread, At
<1>10. CASE DeadHandle(c)
  <2>1. ASSUME NEW r \in (call[c].h + 1) .. started, call' = [call EXCEPT ![c].h = r]
        PROVE  /\ \A d \in Callers \ {c} : call'[d] = call[d]
               /\ call'[c].obj = call[c].obj /\ call'[c].from = call[c].from
    BY <2>1 DEF Calls
  <2>2. call[c].pc # "idle"
    BY <1>10 DEF DeadHandle
  <2> QED BY <1>1, <1>2, <1>10, <2>1, <2>2 DEF DeadHandle
<1>11. CASE Record(c)
  BY <1>1, <1>11 DEF Record, At
<1>12. CASE Rebind(c)
  BY <1>12 DEF Rebind, At
<1> QED BY <1>3, <1>4, <1>5, <1>6, <1>7, <1>8, <1>9, <1>10, <1>11, <1>12 DEF CallStep

-----------------------------------------------------------------------------
(* What stays as it is *)

(* A caller whose call and property are left alone, and whose thread has   *)
(* made progress at most.                                                  *)
LEMMA KnowsFrame ==
  ASSUME Inv, NEW d \in Callers, Knows(d), call'[d] = call[d],
         call[d].pc # "idle" =>
           LET p == Own(d)
               r == property[p].handle
           IN  /\ prop'[call[d].obj] = prop[call[d].obj]
               /\ property'[p].handle = r /\ property'[p].action = property[p].action
               /\ property'[p].state = "JOINABLE" <=> property[p].state = "JOINABLE"
               /\ r # 0 => /\ thread'[r].reap = thread[r].reap
                           /\ thread'[r].pc = thread[r].pc \/ Alive(r)
                           /\ thread'[r].pc # "ended" /\ r \in doomed => r \in doomed'
  PROVE  Knows(d)'
<1>1. CASE call[d].pc = "idle"
  <2>1. call[d].from = NoObject
    BY <1>1, Facts
  <2> QED BY <1>1, <2>1 DEF Knows
<1>2. CASE call[d].pc # "idle"
  <2>1. PICK p \in Objects : p = Own(d)
    BY <1>2, Facts
  <2>2. PICK r \in Nat : r = property[p].handle
    BY <2>1, Facts
  <2>3. /\ Own(d)' = p /\ property'[p].handle = r
        /\ property'[p].action = property[p].action
        /\ property'[p].state = "JOINABLE" <=> property[p].state = "JOINABLE"
        /\ r # 0 => /\ thread'[r].reap = thread[r].reap
                    /\ thread[r].pc = "ended" => thread'[r].pc = "ended"
                    /\ Alive(r)' => Alive(r)
                    /\ Alive(r)' /\ r \in doomed => r \in doomed'
    BY <1>2, <2>1, <2>2 DEF Own, Alive
  <2>4. /\ call[d].pc \in {"join", "detach", "signal", "reread", "record"} => r # 0
        /\ property[p].state = "JOINABLE" => r # 0
    BY <2>1, <2>2 DEF Inv, CallState, CallOK, HandleState, HandleOK
  <2>5. call[d].pc \in {"join", "detach", "signal", "reread"} => KnowsHandle(d)'
    BY <2>1, <2>2, <2>3, <2>4 DEF Knows, KnowsHandle, Alive
  <2>6. call[d].pc = "record" => KnowsOutcome(d)'
    BY <2>1, <2>2, <2>3, <2>4 DEF Knows, KnowsOutcome, Alive
  <2>7. call[d].from # NoObject => KnowsCleanup(d)'
    BY <2>1, <2>2, <2>3, <2>4 DEF Knows, KnowsCleanup
  <2> QED BY <2>5, <2>6, <2>7 DEF Knows
<1> QED BY <1>1, <1>2

(* A property that is left alone, and whose threads have made progress at  *)
(* most.                                                                   *)
LEMMA RecordFrame ==
  ASSUME Inv, NEW p \in Objects, RecordOK(p), property'[p] = property[p],
         LET r == property[p].handle IN
           /\ r # 0 => /\ thread'[r].reap = thread[r].reap
                       /\ Alive(r)' => Alive(r)
                       /\ Alive(r)' /\ r \in doomed => r \in doomed',
         \A q \in Runs : thread[q].pc = "ended" /\ thread[q].weak = p /\ q \notin unwound
           => thread'[q].pc = "ended" /\ thread'[q].weak = p /\ q \notin unwound',
         property[p].state = "JOINABLE" =>
           \A c \in Callers : call[c].pc = "record" /\ Own(c) = p
             => call'[c].pc = "record" /\ Own(c)' = p
  PROVE  RecordOK(p)'
<1> DEFINE r == property[p].handle
<1>1. r = 0 <=> property[p].state = "INVALID"
  BY DEF Inv, HandleState, HandleOK
<1>2. property'[p].handle = r /\ r \in Nat /\ r <= MaxRuns /\ MaxRuns \in Nat
  <2>1. r <= started
    BY DEF Inv, HandleState, HandleOK
  <2> QED BY <2>1, Facts
<1>3. property[p].state = "JOINABLE" /\ thread'[r].reap = "joined"
        => \E c \in Callers : call'[c].pc = "record" /\ Own(c)' = p
  BY <1>1 DEF RecordOK
<1>4. property[p].state = "DETACHED" => thread'[r].reap = "detached"
  BY <1>1 DEF RecordOK
<1>5. EarlierRunCompleted(p, r) => EarlierRunCompleted(p, r)'
  BY <1>2 DEF EarlierRunCompleted, Runs
<1>6. property[p].state = "TERMINATED" => Dismissed(p, r)'
  BY <1>1, <1>5 DEF RecordOK, Dismissed
<1>7. property[p].complete =>
       \E q \in Runs : thread'[q].weak = p /\ thread'[q].pc = "ended" /\ q \notin unwound'
  BY DEF RecordOK
<1> QED BY <1>2, <1>3, <1>4, <1>6, <1>7 DEF RecordOK

(* Threads that are left alone. *)
LEMMA ThreadFrame ==
  ASSUME Inv, Threads, UNCHANGED <<thread, started, unwound>>,
         \A p \in Objects : property'[p].handle = property[p].handle
  PROVE  Threads'
BY DEF Threads, ThreadOK

(* Threads that nobody joined or detached, while nothing is recorded.      *)
LEMMA OwnershipFrame ==
  ASSUME Inv, Ownership, UNCHANGED started,
         \A r \in Runs : /\ thread'[r].reap = "joinable" => thread[r].reap = "joinable"
                         /\ thread[r].pc = "ended" => thread'[r].pc = "ended",
         \A p \in Objects : property[p].state = "JOINABLE"
           => property'[p].state = "JOINABLE" /\ property'[p].handle = property[p].handle
  PROVE  Ownership'
BY DEF Ownership, Reclaimed

-----------------------------------------------------------------------------
(* Who holds and uses what: one case per action *)

LEMMA ExclusiveFrame ==
  ASSUME Inv, Exclusive, NEW c \in Callers, call[c].pc # "idle",
         \A d \in Callers \ {c} : call'[d] = call[d],
         \/ call'[c] = NoCall
         \/ call'[c].obj = call[c].obj /\ call'[c].from = call[c].from
  PROVE  Exclusive'
<1>1. CASE call'[c] = NoCall
  <2>1. \A d \in Callers : call'[d].pc # "idle" => d # c /\ call'[d] = call[d]
    BY <1>1, NoCallFields
  <2> QED BY <2>1 DEF Exclusive
<1>2. CASE call'[c].obj = call[c].obj /\ call'[c].from = call[c].from
  <2>1. \A d \in Callers : /\ call'[d].obj = call[d].obj /\ call'[d].from = call[d].from
                           /\ call'[d].pc # "idle" => call[d].pc # "idle"
    BY <1>2
  <2> QED BY <2>1 DEF Exclusive
<1> QED BY <1>1, <1>2

(* A new call finds its objects in no other one.                           *)
LEMMA ExclusiveStep ==
  ASSUME Inv, Exclusive, ~Shared, [Next]_vars
  PROVE  Exclusive'
<1> call \in [Callers -> Calls]
  BY Facts
<1>1. ASSUME NEW c \in Callers, NEW o \in Objects, NEW action \in DtorActions,
             NEW attr \in Attributes,
             Start(c, o, action, attr)
      PROVE  Exclusive'
  BY <1>1 DEF Start, Exclusive
<1>2. ASSUME NEW c \in Callers, NEW o \in Objects, NEW action \in DtorActions,
             SetDtorAction(c, o, action)
      PROVE  Exclusive'
  BY <1>2 DEF SetDtorAction, Exclusive
<1>3. ASSUME NEW c \in Callers, NEW o \in Objects, NEW op \in Operations,
             Call(c, o, op)
      PROVE  Exclusive'
  <2>1. call' = [call EXCEPT ![c] = NewCall("check", op, o, NoObject)] /\ MayUse(c, o)
    BY <1>3 DEF Call
  <2>2. /\ call'[c].obj = o /\ call'[c].from = NoObject
        /\ \A d \in Callers \ {c} : call'[d] = call[d]
    BY <2>1 DEF NewCall
  <2>3. \A d \in Callers : o \notin {call[d].obj, call[d].from}
    BY <2>1, Untouched
  <2>4. \A d \in Callers : call[d].pc # "idle" => call[d].obj # NoObject
    BY Facts, ThreadAssumption
  <2> QED BY <2>2, <2>3, <2>4 DEF Exclusive
<1>4. ASSUME NEW c \in Callers, NEW o \in Objects, NEW other \in Objects,
             Cleanup(c, o, other)
      PROVE  Exclusive'
  <2> DEFINE pc == IF NothingToClean(property[prop[o]]) THEN "rebind" ELSE "check"
  <2>1. call' = [call EXCEPT ![c] = NewCall(pc, OperationOf(property[prop[o]].action), o, other)]
    BY <1>4 DEF Cleanup
  <2> HIDE DEF pc
  <2>2. /\ call'[c].obj = o /\ call'[c].from = other
        /\ \A d \in Callers \ {c} : call'[d] = call[d]
    BY <2>1 DEF NewCall
  <2>3. \A d \in Callers : /\ o \notin {call[d].obj, call[d].from}
                           /\ other \notin {call[d].obj, call[d].from}
    BY <1>4, UntouchedByAll DEF Cleanup
  <2> QED BY <2>2, <2>3 DEF Exclusive
<1>5. ASSUME NEW c \in Callers, NEW o \in Objects, NEW other \in Objects,
             Swap(c, o, other)
      PROVE  Exclusive'
  BY <1>5 DEF Swap, Exclusive
<1>6. ASSUME NEW r \in Runs, TaskEnds(r) PROVE Exclusive'
  BY <1>6 DEF TaskEnds, Exclusive
<1>7. ASSUME NEW r \in Runs, EntryUpdate(r) PROVE Exclusive'
  BY <1>7 DEF EntryUpdate, Exclusive
<1>8. ASSUME NEW r \in Runs, Unwind(r) PROVE Exclusive'
  BY <1>8 DEF Unwind, Exclusive
<1>9. ASSUME NEW c \in Callers, CallStep(c) PROVE Exclusive'
  BY <1>9, StepOfCall, ExclusiveFrame
<1>10. CASE UNCHANGED vars
  BY <1>10 DEF vars, Exclusive
<1> QED BY <1>1, <1>2, <1>3, <1>4, <1>5, <1>6, <1>7, <1>8, <1>9, <1>10
  DEF Next, ThreadStep

LEMMA ReboundHeld ==
  ASSUME Inv, AllHeld, NEW o \in Objects, NEW from \in Objects,
         prop' = Rebound(o, from)
  PROVE  AllHeld'
<1>1. prop' = [prop EXCEPT ![o] = prop[from], ![from] = prop[o]]
  BY DEF Rebound
<1>2. ASSUME NEW p \in Objects PROVE \E x \in Objects : prop'[x] = p
  <2>1. PICK x \in Objects : prop[x] = p
    BY DEF AllHeld
  <2>2. CASE x = o
    BY <1>1, <2>1, <2>2, Facts
  <2>3. CASE x = from
    BY <1>1, <2>1, <2>3, Facts
  <2>4. CASE x # o /\ x # from
    BY <1>1, <2>1, <2>4, Facts
  <2> QED BY <2>2, <2>3, <2>4
<1> QED BY <1>2 DEF AllHeld

(* The objects of a call in its last step. *)
LEMMA RebindObjects ==
  ASSUME Inv, NEW c \in Callers, Rebind(c)
  PROVE  /\ call[c].obj \in Objects /\ call[c].from \in Objects /\ call[c].pc = "rebind"
         /\ prop' = Rebound(call[c].obj, call[c].from)
BY DEF Rebind, At, Inv, CallState, CallOK

(* Only the end of a destruction or move, and Swap, rebind objects.         *)
LEMMA AllHeldStep ==
  ASSUME Inv, AllHeld, [Next]_vars
  PROVE  AllHeld'
<1>1. ASSUME NEW c \in Callers, NEW o \in Objects, NEW action \in DtorActions,
             NEW attr \in Attributes,
             Start(c, o, action, attr)
      PROVE  AllHeld'
  BY <1>1 DEF Start, AllHeld
<1>2. ASSUME NEW c \in Callers, NEW o \in Objects, NEW action \in DtorActions,
             SetDtorAction(c, o, action)
      PROVE  AllHeld'
  BY <1>2 DEF SetDtorAction, AllHeld
<1>3. ASSUME NEW c \in Callers, NEW o \in Objects, NEW op \in Operations,
             Call(c, o, op)
      PROVE  AllHeld'
  BY <1>3 DEF Call, AllHeld
<1>4. ASSUME NEW c \in Callers, NEW o \in Objects, NEW other \in Objects,
             Cleanup(c, o, other)
      PROVE  AllHeld'
  BY <1>4 DEF Cleanup, AllHeld
<1>5. ASSUME NEW c \in Callers, NEW o \in Objects, NEW other \in Objects,
             Swap(c, o, other)
      PROVE  AllHeld'
  BY <1>5, ReboundHeld DEF Swap
<1>6. ASSUME NEW c \in Callers, Check(c) PROVE AllHeld'
  BY <1>6 DEF Check, AllHeld
<1>7. ASSUME NEW c \in Callers, JoinReturns(c) PROVE AllHeld'
  BY <1>7 DEF JoinReturns, AllHeld
<1>8. ASSUME NEW c \in Callers, JoinFails(c) PROVE AllHeld'
  BY <1>8 DEF JoinFails, AllHeld
<1>9. ASSUME NEW c \in Callers, PthreadDetach(c) PROVE AllHeld'
  BY <1>9 DEF PthreadDetach, AllHeld
<1>10. ASSUME NEW c \in Callers, Signal(c) PROVE AllHeld'
  BY <1>10 DEF Signal, AllHeld
<1>11. ASSUME NEW c \in Callers, SignalFails(c) PROVE AllHeld'
  BY <1>11 DEF SignalFails, AllHeld
<1>12. ASSUME NEW c \in Callers, Reread(c) PROVE AllHeld'
  BY <1>12 DEF Reread, AllHeld
<1>13. ASSUME NEW c \in Callers, DeadHandle(c) PROVE AllHeld'
  BY <1>13 DEF DeadHandle, AllHeld
<1>14. ASSUME NEW c \in Callers, Record(c) PROVE AllHeld'
  BY <1>14 DEF Record, AllHeld
<1>15. ASSUME NEW c \in Callers, Rebind(c) PROVE AllHeld'
  BY <1>15, RebindObjects, ReboundHeld
<1>16. ASSUME NEW r \in Runs, TaskEnds(r) PROVE AllHeld'
  BY <1>16 DEF TaskEnds, AllHeld
<1>17. ASSUME NEW r \in Runs, EntryUpdate(r) PROVE AllHeld'
  BY <1>17 DEF EntryUpdate, AllHeld
<1>18. ASSUME NEW r \in Runs, Unwind(r) PROVE AllHeld'
  BY <1>18 DEF Unwind, AllHeld
<1>19. CASE UNCHANGED vars
  BY <1>19 DEF vars, AllHeld
<1> QED BY <1>1, <1>2, <1>3, <1>4, <1>5, <1>6, <1>7, <1>8, <1>9, <1>10, <1>11,
         <1>12, <1>13, <1>14, <1>15, <1>16, <1>17, <1>18, <1>19
  DEF Next, CallStep, ThreadStep

(* The thread of a call that is about to make a pthread call. *)
LEMMA OwnThread ==
  ASSUME Inv, Knowledge, Threads, NEW c \in Callers,
         call[c].pc \in {"join", "detach", "signal", "reread"}
  PROVE  /\ Own(c) \in Objects /\ call[c].h = property[Own(c)].handle
         /\ call[c].h \in Runs /\ call[c].h <= started /\ call[c].h # 0
         /\ thread[call[c].h].weak = Own(c) /\ thread[call[c].h].reap # "joined"
         /\ KnowsHandle(c)
<1>1. KnowsHandle(c) /\ Own(c) \in Objects
  BY Facts DEF Knowledge, Knows
<1>2. call[c].h # 0
  BY DEF Inv, CallState, CallOK
<1>3. call[c].h = property[Own(c)].handle /\ thread[call[c].h].reap # "joined"
  BY <1>1 DEF KnowsHandle
<1>4. call[c].h \in Runs /\ call[c].h <= started
  BY <1>1, <1>2, <1>3, HandleRuns
<1>5. thread[call[c].h].weak = Own(c)
  BY <1>1, <1>2, <1>3 DEF Inv, HandleState, HandleOK
<1> QED BY <1>1, <1>2, <1>3, <1>4, <1>5

(* The thread that Start is about to create. *)
LEMMA NewThread ==
  ASSUME Inv, Threads, started < MaxRuns
  PROVE  /\ started + 1 \in Runs /\ thread[started + 1] = Unused
         /\ started + 1 \notin unwound
         /\ \A p \in Objects : property[p].handle <= started
         /\ \A r \in Runs : r # started + 1 /\ thread[r].weak \in Objects => r <= started
<1>1. started \in Nat /\ MaxRuns \in Nat /\ started + 1 \in Runs
  BY Facts DEF Runs
<1>2. thread[started + 1] = Unused
  BY <1>1 DEF Threads, ThreadOK
<1>3. Unused.pc = "none" /\ Unused.weak = NoObject
  BY DEF Unused
<1>4. started + 1 \notin unwound
  BY <1>1, <1>2, <1>3 DEF Threads, ThreadOK
<1>5. \A p \in Objects : property[p].handle <= started
  BY DEF Inv, HandleState, HandleOK
<1>6. ASSUME NEW r \in Runs, thread[r].weak \in Objects PROVE r <= started
  BY <1>1, <1>3, <1>6, ThreadAssumption DEF Threads, ThreadOK, Runs
<1> QED BY <1>1, <1>2, <1>4, <1>5, <1>6

(* Threads end before they are joined, and the youngest thread of a        *)
(* property is its own.                                                    *)
LEMMA ThreadsStep ==
  ASSUME Inv, Threads, Knowledge, ~abused, [Next]_vars
  PROVE  abused' \/ Threads'
<1> /\ property \in [Objects -> ThreadProperties] /\ thread \in [Runs -> PosixThreads]
    /\ started \in Nat
  BY Facts
<1>1. ASSUME NEW c \in Callers, NEW o \in Objects, NEW action \in DtorActions,
             NEW attr \in Attributes,
             Start(c, o, action, attr)
      PROVE  abused' \/ Threads'
  <2> DEFINE p == prop[o]
  <2>0. PICK n \in Runs : n = started + 1
    BY <1>1, NewThread DEF Start
  <2>1. /\ n \in Nat /\ p \in Objects /\ n \notin unwound
        /\ \A q \in Objects : property[q].handle <= started
        /\ \A r \in Runs : r # n /\ thread[r].weak \in Objects => r <= started
    BY <1>1, <2>0, NewThread, Facts DEF Start
  <2>2. /\ thread' = [thread EXCEPT ![n] = [pc |-> "running", weak |-> p, reap |-> attr]]
        /\ started' = n /\ unwound' = unwound
        /\ property'[p].handle = n
        /\ \A q \in Objects \ {p} : property'[q] = property[q]
    BY <1>1, <2>0, <2>1 DEF Start, ThreadProperties
  <2>3. attr # "joined"
    BY ThreadAssumption
  <2>4. ThreadOK(n)'
    <3>1. /\ thread'[n].pc = "running" /\ thread'[n].reap = attr /\ thread'[n].weak = p
          /\ n \in Nat /\ n <= n /\ ~(n > n) /\ n \notin unwound'
      BY <2>1, <2>2
    <3> QED BY <2>2, <2>3, <3>1 DEF ThreadOK
  <2>5. ASSUME NEW r \in Runs, r # n PROVE ThreadOK(r)'
    <3>1. thread'[r] = thread[r] /\ r \in Int
      BY <2>2, <2>5 DEF Runs
    <3>2. thread[r].weak \in Objects => r <= property'[thread[r].weak].handle
      BY <2>0, <2>1, <2>2, <2>5, <3>1 DEF Threads, ThreadOK
    <3>3. /\ r > n => thread[r] = Unused
          /\ r <= n => thread[r].pc # "none"
          /\ thread[r].reap = "joined" \/ r \in unwound => thread[r].pc = "ended"
      BY <2>0, <2>5, <3>1 DEF Threads, ThreadOK
    <3>4. started' = n /\ unwound' = unwound /\ thread'[r] = thread[r]
      BY <2>2, <3>1
    <3> QED BY <3>2, <3>3, <3>4 DEF ThreadOK
  <2> QED BY <2>4, <2>5 DEF Threads
<1>2. ASSUME NEW c \in Callers, NEW o \in Objects, NEW action \in DtorActions,
             SetDtorAction(c, o, action)
      PROVE  abused' \/ Threads'
  <2>1. \A p \in Objects : property'[p].handle = property[p].handle
    BY <1>2 DEF SetDtorAction, ThreadProperties
  <2> QED BY <1>2, <2>1, ThreadFrame DEF SetDtorAction
<1>3. ASSUME NEW c \in Callers, NEW o \in Objects, NEW op \in Operations,
             Call(c, o, op)
      PROVE  abused' \/ Threads'
  BY <1>3, ThreadFrame DEF Call
<1>4. ASSUME NEW c \in Callers, NEW o \in Objects, NEW other \in Objects,
             Cleanup(c, o, other)
      PROVE  abused' \/ Threads'
  BY <1>4, ThreadFrame DEF Cleanup
<1>5. ASSUME NEW c \in Callers, NEW o \in Objects, NEW other \in Objects,
             Swap(c, o, other)
      PROVE  abused' \/ Threads'
  BY <1>5, ThreadFrame DEF Swap
<1>6. ASSUME NEW c \in Callers, Check(c) PROVE abused' \/ Threads'
  BY <1>6, ThreadFrame DEF Check
<1>7. ASSUME NEW c \in Callers, JoinReturns(c) PROVE abused' \/ Threads'
  <2>1. call[c].h \in Runs /\ call[c].h <= started
    BY <1>7, OwnThread DEF JoinReturns, At
  <2>2. /\ thread' = [thread EXCEPT ![call[c].h].reap = "joined"]
        /\ thread[call[c].h].pc = "ended" /\ UNCHANGED <<started, unwound, property>>
    BY <1>7 DEF JoinReturns
  <2>3. ASSUME NEW r \in Runs PROVE ThreadOK(r)'
    <3>1. /\ thread'[r].pc = thread[r].pc /\ thread'[r].weak = thread[r].weak
          /\ thread'[r].reap = "joined" => thread[r].reap = "joined" \/ thread[r].pc = "ended"
          /\ r # call[c].h => thread'[r] = thread[r]
      BY <2>1, <2>2 DEF PosixThreads
    <3>2. r > started => r # call[c].h
      BY <2>1 DEF Runs
    <3> QED BY <2>2, <3>1, <3>2 DEF Threads, ThreadOK
  <2> QED BY <2>3 DEF Threads
<1>8. ASSUME NEW c \in Callers, JoinFails(c) PROVE abused' \/ Threads'
  BY <1>8, ThreadFrame DEF JoinFails
<1>9. ASSUME NEW c \in Callers, PthreadDetach(c) PROVE abused' \/ Threads'
  <2>1. call[c].h \in Runs /\ call[c].h <= started
    BY <1>9, OwnThread DEF PthreadDetach, At
  <2>2. /\ thread' = [thread EXCEPT ![call[c].h].reap = "detached"]
        /\ UNCHANGED <<started, unwound, property>>
    BY <1>9 DEF PthreadDetach
  <2>3. ASSUME NEW r \in Runs PROVE ThreadOK(r)'
    <3>1. /\ thread'[r].pc = thread[r].pc /\ thread'[r].weak = thread[r].weak
          /\ thread'[r].reap = "joined" => thread[r].reap = "joined" \/ thread[r].pc = "ended"
          /\ r # call[c].h => thread'[r] = thread[r]
      BY <2>1, <2>2 DEF PosixThreads
    <3>2. r > started => r # call[c].h
      BY <2>1 DEF Runs
    <3> QED BY <2>2, <3>1, <3>2 DEF Threads, ThreadOK
  <2> QED BY <2>3 DEF Threads
<1>10. ASSUME NEW c \in Callers, Signal(c) PROVE abused' \/ Threads'
  BY <1>10, ThreadFrame DEF Signal
<1>11. ASSUME NEW c \in Callers, SignalFails(c) PROVE abused' \/ Threads'
  BY <1>11, ThreadFrame DEF SignalFails
<1>12. ASSUME NEW c \in Callers, Reread(c) PROVE abused' \/ Threads'
  BY <1>12, ThreadFrame DEF Reread
<1>13. ASSUME NEW c \in Callers, DeadHandle(c) PROVE abused' \/ Threads'
  BY <1>13 DEF DeadHandle
<1>14. ASSUME NEW c \in Callers, Record(c) PROVE abused' \/ Threads'
  <2>1. \A p \in Objects : property'[p].handle = property[p].handle
    BY <1>14 DEF Record, ThreadProperties
  <2> QED BY <1>14, <2>1, ThreadFrame DEF Record
<1>15. ASSUME NEW c \in Callers, Rebind(c) PROVE abused' \/ Threads'
  <2> DEFINE p == prop[call[c].obj]
  <2>1. p \in Objects /\ NoObject \notin Objects
    BY <1>15, RebindObjects, Facts, ThreadAssumption
  <2>2. /\ \A q \in Objects \ {p} : property'[q] = property[q]
        /\ thread' = [r \in Runs |-> IF thread[r].weak = p
                                       THEN [thread[r] EXCEPT !.weak = NoObject] ELSE thread[r]]
        /\ UNCHANGED <<started, unwound>>
    BY <1>15 DEF Rebind
  <2>3. ASSUME NEW r \in Runs PROVE ThreadOK(r)'
    <3>1. CASE thread[r].weak = p
      <4>1. /\ thread'[r].pc = thread[r].pc /\ thread'[r].reap = thread[r].reap
            /\ thread'[r].weak = NoObject
        BY <2>2, <3>1 DEF PosixThreads
      <4>2. ~(r > started)
        BY <2>1, <3>1 DEF Threads, ThreadOK, Unused
      <4> QED BY <2>1, <2>2, <4>1, <4>2 DEF Threads, ThreadOK
    <3>2. CASE thread[r].weak # p
      <4>1. thread'[r] = thread[r]
        BY <2>2, <3>2
      <4>2. thread[r].weak \in Objects => property'[thread[r].weak] = property[thread[r].weak]
        BY <2>2, <3>2
      <4> QED BY <2>2, <4>1, <4>2 DEF Threads, ThreadOK
    <3> QED BY <3>1, <3>2
  <2> QED BY <2>3 DEF Threads
<1>16. ASSUME NEW r \in Runs, TaskEnds(r) PROVE abused' \/ Threads'
  <2>1. /\ thread' = [thread EXCEPT ![r].pc = "update"] /\ thread[r].pc = "running"
        /\ UNCHANGED <<started, unwound, property>>
    BY <1>16 DEF TaskEnds
  <2>2. ASSUME NEW q \in Runs PROVE ThreadOK(q)'
    BY <2>1 DEF Threads, ThreadOK, PosixThreads, Unused
  <2> QED BY <2>2 DEF Threads
<1>17. ASSUME NEW r \in Runs, EntryUpdate(r) PROVE abused' \/ Threads'
  <2>1. /\ thread' = [thread EXCEPT ![r].pc = "ended"] /\ thread[r].pc = "update"
        /\ UNCHANGED <<started, unwound>>
    BY <1>17 DEF EntryUpdate
  <2>2. \A p \in Objects : property'[p].handle = property[p].handle
    <3> DEFINE w == thread[r].weak
    <3>1. \/ UNCHANGED property
          \/ property' = [property EXCEPT ![w] = Completed(property[w])]
      BY <1>17 DEF EntryUpdate
    <3>2. \A q \in ThreadProperties : Completed(q).handle = q.handle
      BY DEF Completed, ThreadProperties
    <3> QED BY <3>1, <3>2
  <2>3. ASSUME NEW q \in Runs PROVE ThreadOK(q)'
    BY <2>1, <2>2 DEF Threads, ThreadOK, PosixThreads, Unused
  <2> QED BY <2>3 DEF Threads
<1>18. ASSUME NEW r \in Runs, Unwind(r) PROVE abused' \/ Threads'
  <2>1. /\ thread' = [thread EXCEPT ![r].pc = "ended"] /\ Alive(r)
        /\ unwound' = unwound \cup {r} /\ UNCHANGED <<started, property>>
    BY <1>18 DEF Unwind, Alive
  <2>2. ASSUME NEW q \in Runs PROVE ThreadOK(q)'
    BY <2>1 DEF Threads, ThreadOK, PosixThreads, Unused, Alive
  <2> QED BY <2>2 DEF Threads
<1>19. CASE UNCHANGED vars
  BY <1>19, ThreadFrame DEF vars
<1> QED BY <1>1, <1>2, <1>3, <1>4, <1>5, <1>6, <1>7, <1>8, <1>9, <1>10, <1>11,
         <1>12, <1>13, <1>14, <1>15, <1>16, <1>17, <1>18, <1>19
  DEF Next, CallStep, ThreadStep

(* A step of a call that records nothing. *)
LEMMA RecordsKept ==
  ASSUME Inv, Records, NEW c \in Callers, call[c].pc # "record",
         \A d \in Callers \ {c} : call'[d] = call[d],
         UNCHANGED <<prop, property, thread, unwound>>, doomed \subseteq doomed'
  PROVE  Records'
<1>1. ASSUME NEW p \in Objects PROVE RecordOK(p)'
  <2>1. \A d \in Callers : call[d].pc = "record" /\ Own(d) = p
          => call'[d].pc = "record" /\ Own(d)' = p
    BY DEF Own
  <2>2. RecordOK(p)
    BY DEF Records
  <2> QED BY <2>1, <2>2, RecordFrame DEF Alive
<1> QED BY <1>1 DEF Records

(* What a property records agrees with its thread. *)
LEMMA RecordsStep ==
  ASSUME Inv, Exclusive, Threads, Records, Knowledge, ~Shared, ~abused, [Next]_vars
  PROVE  abused' \/ Records'
<1> /\ property \in [Objects -> ThreadProperties] /\ thread \in [Runs -> PosixThreads]
    /\ call \in [Callers -> Calls] /\ started \in Nat
  BY Facts
<1>1. ASSUME NEW c \in Callers, NEW o \in Objects, NEW action \in DtorActions,
             NEW attr \in Attributes,
             Start(c, o, action, attr)
      PROVE  abused' \/ Records'
  <2>1. PICK n \in Runs : n = started + 1
    BY <1>1, NewThread DEF Start
  <2>2. PICK p \in Objects : p = prop[o]
    BY Facts
  <2>3. /\ thread' = [thread EXCEPT ![n] = [pc |-> "running", weak |-> p, reap |-> attr]]
        /\ UNCHANGED <<prop, call, doomed, unwound>>
        /\ property'[p].handle = n /\ property'[p].state = "JOINABLE"
        /\ property'[p].complete = property[p].complete
        /\ \A q \in Objects \ {p} : property'[q] = property[q]
    BY <1>1, <2>1, <2>2 DEF Start, ThreadProperties
  <2>4. thread[n].pc = "none" /\ \A q \in Objects : property[q].handle # n
    BY <1>1, <2>1, NewThread, Facts DEF Start, Unused
  <2>5. RecordOK(p)'
    <3>1. thread'[n].reap # "joined"
      BY <2>3, ThreadAssumption
    <3>2. \A q \in Runs : thread[q].pc = "ended" => thread'[q] = thread[q]
      BY <2>3, <2>4
    <3> QED BY <2>3, <3>1, <3>2 DEF Records, RecordOK
  <2>6. ASSUME NEW q \in Objects, q # p PROVE RecordOK(q)'
    <3>1. \A r \in Runs : r # n => thread'[r] = thread[r]
      BY <2>3
    <3>2. property[q].handle # 0 => property[q].handle \in Runs
      BY HandleRuns
    <3>3. RecordOK(q) /\ property'[q] = property[q]
      BY <2>3, <2>6 DEF Records
    <3> QED BY <2>3, <2>4, <3>1, <3>2, <3>3, RecordFrame DEF Alive, Own
  <2> QED BY <2>5, <2>6 DEF Records
<1>2. ASSUME NEW c \in Callers, NEW o \in Objects, NEW action \in DtorActions,
             SetDtorAction(c, o, action)
      PROVE  abused' \/ Records'
  <2>1. PICK p \in Objects : p = prop[o]
    BY Facts
  <2>2. /\ property' = [property EXCEPT ![p].action = action]
        /\ UNCHANGED <<prop, thread, call, doomed, unwound>>
    BY <1>2, <2>1 DEF SetDtorAction
  <2>3. \A q \in Objects : /\ property'[q].state = property[q].state
                           /\ property'[q].handle = property[q].handle
                           /\ property'[q].complete = property[q].complete
    BY <2>2 DEF ThreadProperties
  <2>4. ASSUME NEW q \in Objects PROVE RecordOK(q)'
    BY <2>2, <2>3 DEF Records, RecordOK, Own, Dismissed, EarlierRunCompleted, Alive
  <2> QED BY <2>4 DEF Records
<1>3. ASSUME NEW c \in Callers, NEW o \in Objects, NEW op \in Operations,
             Call(c, o, op)
      PROVE  abused' \/ Records'
  <2>1. call[c].pc # "record" /\ \A d \in Callers \ {c} : call'[d] = call[d]
    BY <1>3 DEF Call, MayUse, At
  <2> QED BY <1>3, <2>1, RecordsKept DEF Call
<1>4. ASSUME NEW c \in Callers, NEW o \in Objects, NEW other \in Objects,
             Cleanup(c, o, other)
      PROVE  abused' \/ Records'
  <2>1. call[c].pc # "record" /\ \A d \in Callers \ {c} : call'[d] = call[d]
    BY <1>4 DEF Cleanup, At
  <2> QED BY <1>4, <2>1, RecordsKept DEF Cleanup
<1>5. ASSUME NEW c \in Callers, NEW o \in Objects, NEW other \in Objects,
             Swap(c, o, other)
      PROVE  abused' \/ Records'
  <2>1. \A d \in Callers : call[d].pc # "idle" => call[d].obj \notin {o, other}
    BY <1>5, UntouchedByAll DEF Swap
  <2>2. UNCHANGED <<property, thread, call, doomed, unwound>>
        /\ \A x \in Objects : x \notin {o, other} => prop'[x] = prop[x]
    BY <1>5, Facts DEF Swap, Rebound
  <2>3. ASSUME NEW p \in Objects PROVE RecordOK(p)'
    <3>1. \A d \in Callers : call[d].pc = "record" /\ Own(d) = p
            => call'[d].pc = "record" /\ Own(d)' = p
      BY <2>1, <2>2, Facts DEF Own
    <3>2. RecordOK(p)
      BY DEF Records
    <3> QED BY <2>2, <3>1, <3>2, RecordFrame DEF Alive
  <2> QED BY <2>3 DEF Records
<1>6. ASSUME NEW c \in Callers, Check(c) PROVE abused' \/ Records'
  <2>1. call[c].pc # "record" /\ \A d \in Callers \ {c} : call'[d] = call[d]
    BY <1>6, StepOfCall DEF CallStep, Check, At
  <2> QED BY <1>6, <2>1, RecordsKept DEF Check
<1>7. ASSUME NEW c \in Callers, JoinReturns(c) PROVE abused' \/ Records'
  <2>1. PICK p \in Objects : p = Own(c)
    BY <1>7, Facts DEF JoinReturns, At
  <2>2. PICK h \in Runs : /\ h = call[c].h /\ h = property[p].handle /\ thread[h].weak = p
                          /\ thread[h].reap # "joined" /\ property[p].state = "JOINABLE"
    BY <1>7, <2>1, OwnThread DEF JoinReturns, At, KnowsHandle
  <2>3. /\ thread' = [thread EXCEPT ![h].reap = "joined"]
        /\ UNCHANGED <<prop, property, doomed, unwound>>
    BY <1>7, <2>2 DEF JoinReturns
  <2>4. /\ call[c].pc # "record" /\ \A d \in Callers \ {c} : call'[d] = call[d]
        /\ \A r \in Runs : thread'[r].pc = thread[r].pc /\ thread'[r].weak = thread[r].weak
                           /\ (r # h => thread'[r] = thread[r])
    <3>1. call[c].pc # "record" /\ \A d \in Callers \ {c} : call'[d] = call[d]
      BY <1>7, StepOfCall DEF CallStep, JoinReturns, At
    <3>2. \A r \in Runs : thread'[r].pc = thread[r].pc /\ thread'[r].weak = thread[r].weak
                          /\ (r # h => thread'[r] = thread[r])
      BY <2>3 DEF PosixThreads
    <3> QED BY <3>1, <3>2
  <2>5. RecordOK(p)'
    <3>1. /\ property'[p].state = "JOINABLE" /\ property'[p].handle = h
          /\ property'[p].complete = property[p].complete /\ thread'[h].reap = "joined"
      BY <2>2, <2>3
    <3>2. "joined" = "joined" => call'[c].pc = "record" /\ Own(c)' = p
      BY <1>7, <2>1, <2>3, GoFields DEF JoinReturns, Own, Inv
    <3> QED BY <2>3, <2>4, <3>1, <3>2 DEF Records, RecordOK
  <2>6. ASSUME NEW q \in Objects, q # p PROVE RecordOK(q)'
    <3>1. property[q].handle # 0 => property[q].handle \in Runs /\ property[q].handle # h
      BY <2>2, <2>6, HandlesApart, HandleRuns
    <3>2. \A d \in Callers : call[d].pc = "record" /\ Own(d) = q
            => call'[d].pc = "record" /\ Own(d)' = q
      BY <2>3, <2>4 DEF Own
    <3>3. RecordOK(q) /\ property'[q] = property[q] /\ UNCHANGED <<doomed, unwound>>
      BY <2>3 DEF Records
    <3> QED BY <2>4, <3>1, <3>2, <3>3, RecordFrame DEF Alive
  <2> QED BY <2>5, <2>6 DEF Records
<1>8. ASSUME NEW c \in Callers, JoinFails(c) PROVE abused' \/ Records'
  <2>1. call[c].pc # "record" /\ \A d \in Callers \ {c} : call'[d] = call[d]
    BY <1>8, StepOfCall DEF CallStep, JoinFails, At
  <2> QED BY <1>8, <2>1, RecordsKept DEF JoinFails
<1>9. ASSUME NEW c \in Callers, PthreadDetach(c) PROVE abused' \/ Records'
  <2>1. PICK p \in Objects : p = Own(c)
    BY <1>9, Facts DEF PthreadDetach, At
  <2>2. PICK h \in Runs : /\ h = call[c].h /\ h = property[p].handle /\ thread[h].weak = p
                          /\ thread[h].reap # "joined" /\ property[p].state = "JOINABLE"
    BY <1>9, <2>1, OwnThread DEF PthreadDetach, At, KnowsHandle
  <2>3. /\ thread' = [thread EXCEPT ![h].reap = "detached"]
        /\ UNCHANGED <<prop, property, doomed, unwound>>
    BY <1>9, <2>2 DEF PthreadDetach
  <2>4. /\ call[c].pc # "record" /\ \A d \in Callers \ {c} : call'[d] = call[d]
        /\ \A r \in Runs : thread'[r].pc = thread[r].pc /\ thread'[r].weak = thread[r].weak
                           /\ (r # h => thread'[r] = thread[r])
    <3>1. call[c].pc # "record" /\ \A d \in Callers \ {c} : call'[d] = call[d]
      BY <1>9, StepOfCall DEF CallStep, PthreadDetach, At
    <3>2. \A r \in Runs : thread'[r].pc = thread[r].pc /\ thread'[r].weak = thread[r].weak
                          /\ (r # h => thread'[r] = thread[r])
      BY <2>3 DEF PosixThreads
    <3> QED BY <3>1, <3>2
  <2>5. RecordOK(p)'
    <3>1. /\ property'[p].state = "JOINABLE" /\ property'[p].handle = h
          /\ property'[p].complete = property[p].complete /\ thread'[h].reap = "detached"
      BY <2>2, <2>3
    <3>2. "detached" = "joined" => call'[c].pc = "record" /\ Own(c)' = p
      BY <1>9, <2>1, <2>3, GoFields DEF PthreadDetach, Own, Inv
    <3> QED BY <2>3, <2>4, <3>1, <3>2 DEF Records, RecordOK
  <2>6. ASSUME NEW q \in Objects, q # p PROVE RecordOK(q)'
    <3>1. property[q].handle # 0 => property[q].handle \in Runs /\ property[q].handle # h
      BY <2>2, <2>6, HandlesApart, HandleRuns
    <3>2. \A d \in Callers : call[d].pc = "record" /\ Own(d) = q
            => call'[d].pc = "record" /\ Own(d)' = q
      BY <2>3, <2>4 DEF Own
    <3>3. RecordOK(q) /\ property'[q] = property[q] /\ UNCHANGED <<doomed, unwound>>
      BY <2>3 DEF Records
    <3> QED BY <2>4, <3>1, <3>2, <3>3, RecordFrame DEF Alive
  <2> QED BY <2>5, <2>6 DEF Records
<1>10. ASSUME NEW c \in Callers, Signal(c) PROVE abused' \/ Records'
  <2>1. call[c].pc # "record" /\ \A d \in Callers \ {c} : call'[d] = call[d]
    BY <1>10, StepOfCall DEF CallStep, Signal, At
  <2> QED BY <1>10, <2>1, RecordsKept DEF Signal
<1>11. ASSUME NEW c \in Callers, SignalFails(c) PROVE abused' \/ Records'
  <2>1. call[c].pc # "record" /\ \A d \in Callers \ {c} : call'[d] = call[d]
    BY <1>11, StepOfCall DEF CallStep, SignalFails, At
  <2> QED BY <1>11, <2>1, RecordsKept DEF SignalFails
<1>12. ASSUME NEW c \in Callers, Reread(c) PROVE abused' \/ Records'
  <2>1. call[c].pc # "record" /\ \A d \in Callers \ {c} : call'[d] = call[d]
    BY <1>12, StepOfCall DEF CallStep, Reread, At
  <2> QED BY <1>12, <2>1, RecordsKept DEF Reread
<1>13. ASSUME NEW c \in Callers, DeadHandle(c) PROVE abused' \/ Records'
  BY <1>13 DEF DeadHandle
<1>14. ASSUME NEW c \in Callers, Record(c) PROVE abused' \/ Records'
  <2>1. PICK p \in Objects : p = Own(c)
    BY <1>14, Facts DEF Record, At
  <2>2. PICK r \in Nat : r = property[p].handle
    BY Facts
  <2>3. r \in Runs
    BY <1>14, <2>1, <2>2, HandleRuns DEF Record, At, Inv, CallState, CallOK
  <2>4. /\ property' = [property EXCEPT ![p].state = RecordedState(call[c].op, property[p])]
        /\ UNCHANGED <<prop, thread, doomed, unwound>>
    BY <1>14, <2>1 DEF Record
  <2>5. \A d \in Callers \ {c} : call'[d] = call[d]
    BY <1>14, StepOfCall DEF CallStep
  <2>6. KnowsOutcome(c)
    BY <1>14 DEF Record, At, Knowledge, Knows
  <2>7. RecordOK(p)'
    <3>1. /\ property'[p].state = RecordedState(call[c].op, property[p])
          /\ property'[p].handle = r /\ property'[p].complete = property[p].complete
      BY <2>2, <2>4 DEF ThreadProperties
    <3>2. property'[p].state = "DETACHED" => thread'[r].reap = "detached"
      BY <2>1, <2>2, <2>4, <2>6, <3>1 DEF RecordedState, KnowsOutcome
    <3>3. ASSUME property'[p].state = "TERMINATED", Alive(r)
          PROVE  r \in doomed \/ EarlierRunCompleted(p, r)
      <4>1. CASE call[c].op # "Detach"
        BY <2>1, <2>2, <2>6, <3>3, <4>1 DEF KnowsOutcome
      <4>2. CASE call[c].op = "Detach"
        <5>1. property[p].complete
          BY <3>1, <3>3, <4>2 DEF RecordedState, ThreadProperties
        <5>2. PICK q \in Runs : thread[q].weak = p /\ thread[q].pc = "ended" /\ q \notin unwound
          BY <5>1 DEF Records, RecordOK
        <5>3. q <= r /\ q # r
          BY <2>2, <3>3, <5>2 DEF Threads, ThreadOK, Alive
        <5>4. q \in 1 .. (r - 1)
          BY <2>3, <5>3 DEF Runs
        <5> QED BY <5>2, <5>4 DEF EarlierRunCompleted
      <4> QED BY <4>1, <4>2
    <3>4. thread[r].reap # "joinable" /\ (Alive(r) => thread[r].reap = "detached")
      BY <2>1, <2>2, <2>6 DEF KnowsOutcome
    <3>5. property'[p].state = "TERMINATED" => Dismissed(p, r)'
      BY <2>4, <3>3, <3>4 DEF Dismissed, Alive, EarlierRunCompleted
    <3>6. property'[p].state # "JOINABLE"
      BY <3>1 DEF RecordedState
    <3> QED BY <2>4, <3>1, <3>2, <3>5, <3>6 DEF Records, RecordOK
  <2>8. ASSUME NEW q \in Objects, q # p PROVE RecordOK(q)'
    <3>1. \A d \in Callers : call[d].pc = "record" /\ Own(d) = q
            => call'[d].pc = "record" /\ Own(d)' = q
      BY <2>1, <2>4, <2>5, <2>8 DEF Own
    <3>2. RecordOK(q) /\ property'[q] = property[q]
      BY <2>4, <2>8 DEF Records
    <3> QED BY <2>4, <3>1, <3>2, RecordFrame DEF Alive
  <2> QED BY <2>7, <2>8 DEF Records
<1>15. ASSUME NEW c \in Callers, Rebind(c) PROVE abused' \/ Records'
  <2>1. PICK o \in Objects, from \in Objects : o = call[c].obj /\ from = call[c].from
    BY <1>15, RebindObjects
  <2>2. PICK p \in Objects : p = prop[o] /\ p = Own(c)
    BY <2>1, Facts DEF Own
  <2>3. /\ property' = [property EXCEPT ![p] = FreshProperty]
        /\ thread' = [r \in Runs |-> IF thread[r].weak = p
                                       THEN [thread[r] EXCEPT !.weak = NoObject] ELSE thread[r]]
        /\ prop' = Rebound(o, from) /\ UNCHANGED <<doomed, unwound>>
    BY <1>15, <2>1, <2>2 DEF Rebind
  <2>4. \A r \in Runs : /\ thread'[r].pc = thread[r].pc /\ thread'[r].reap = thread[r].reap
                        /\ thread[r].weak # p => thread'[r].weak = thread[r].weak
    BY <2>3 DEF PosixThreads
  <2>5. ASSUME NEW d \in Callers, d # c, call[d].pc # "idle"
        PROVE  call'[d] = call[d] /\ prop'[call[d].obj] = prop[call[d].obj]
    <3>1. call[d].obj \in Objects /\ call[d].obj \notin {o, from}
      BY <1>15, <2>1, <2>5, Facts DEF Exclusive, Rebind, At
    <3>2. call'[d] = call[d]
      BY <1>15, <2>5, StepOfCall DEF CallStep
    <3> QED BY <2>3, <3>1, <3>2, Facts DEF Rebound
  <2>6. RecordOK(p)'
    BY <2>3 DEF RecordOK, FreshProperty
  <2>7. ASSUME NEW q \in Objects, q # p PROVE RecordOK(q)'
    <3>1. \A d \in Callers : call[d].pc = "record" /\ Own(d) = q
            => call'[d].pc = "record" /\ Own(d)' = q
      BY <2>2, <2>5, <2>7 DEF Own
    <3>2. RecordOK(q) /\ property'[q] = property[q]
      BY <2>3, <2>7 DEF Records
    <3>3. property[q].handle # 0 => property[q].handle \in Runs
      BY HandleRuns
    <3> QED BY <2>3, <2>4, <2>7, <3>1, <3>2, <3>3, RecordFrame DEF Alive
  <2> QED BY <2>6, <2>7 DEF Records
<1>16. ASSUME NEW r \in Runs, TaskEnds(r) PROVE abused' \/ Records'
  <2>1. /\ thread' = [thread EXCEPT ![r].pc = "update"] /\ thread[r].pc = "running"
        /\ UNCHANGED <<prop, property, call, doomed, unwound>>
    BY <1>16 DEF TaskEnds
  <2>2. ASSUME NEW p \in Objects PROVE RecordOK(p)'
    <3>1. \A q \in Runs : /\ thread'[q].reap = thread[q].reap /\ thread'[q].weak = thread[q].weak
                          /\ Alive(q)' => Alive(q)
                          /\ thread[q].pc = "ended" => thread'[q].pc = "ended"
      BY <2>1 DEF PosixThreads, Alive
    <3>2. property[p].handle # 0 => property[p].handle \in Runs
      BY HandleRuns
    <3>3. RecordOK(p)
      BY DEF Records
    <3> QED BY <2>1, <3>1, <3>2, <3>3, RecordFrame DEF Own
  <2> QED BY <2>2 DEF Records
<1>17. ASSUME NEW r \in Runs, EntryUpdate(r) PROVE abused' \/ Records'
  <2>1. /\ thread' = [thread EXCEPT ![r].pc = "ended"] /\ thread[r].pc = "update"
        /\ doomed' = doomed \ {r} /\ UNCHANGED <<prop, call, unwound>>
    BY <1>17 DEF EntryUpdate
  <2>2. \A q \in Runs : /\ thread'[q].reap = thread[q].reap /\ thread'[q].weak = thread[q].weak
                        /\ Alive(q)' => Alive(q) /\ q # r
                        /\ thread[q].pc = "ended" => thread'[q].pc = "ended" /\ q # r
    BY <2>1 DEF PosixThreads, Alive
  <2>3. ASSUME NEW p \in Objects, property'[p] = property[p] PROVE RecordOK(p)'
    <3>1. property[p].handle # 0 => property[p].handle \in Runs
      BY HandleRuns
    <3>2. RecordOK(p)
      BY DEF Records
    <3> QED BY <2>1, <2>2, <2>3, <3>1, <3>2, RecordFrame DEF Own
  <2>4. ASSUME NEW p \in Objects, p = thread[r].weak,
               property' = [property EXCEPT ![p] = Completed(property[p])]
        PROVE  RecordOK(p)'
    <3>1. PICK n \in Nat : n = property[p].handle
      BY Facts
    <3>2. r <= n /\ r \notin unwound
      BY <2>1, <2>4, <3>1 DEF Threads, ThreadOK
    <3>3. n \in Runs /\ r \in Nat /\ r >= 1
      BY <3>1, <3>2, HandleRuns DEF Runs
    <3>4. /\ property'[p].handle = n
          /\ property'[p].state = IF property[p].state = "DETACHED" THEN "TERMINATED"
                                    ELSE property[p].state
      BY <2>4, <3>1 DEF Completed, ThreadProperties
    <3>5. thread'[r].weak = p /\ thread'[r].pc = "ended" /\ r \notin unwound'
      BY <2>1, <2>2, <2>4, <3>2
    <3>6. Alive(n)' => EarlierRunCompleted(p, n)'
      <4>1. Alive(n)' => r \in 1 .. (n - 1)
        BY <2>2, <3>2, <3>3
      <4> QED BY <3>5, <4>1 DEF EarlierRunCompleted
    <3>7. /\ RecordOK(p) /\ thread'[n].reap = thread[n].reap
          /\ Alive(n)' => Alive(n)
      BY <2>2, <3>3 DEF Records
    <3>8. property'[p].state = "TERMINATED" => Dismissed(p, n)'
      BY <3>1, <3>4, <3>6, <3>7 DEF RecordOK, Dismissed
    <3>9. property'[p].state = "JOINABLE" /\ thread'[n].reap = "joined"
            => \E c \in Callers : call'[c].pc = "record" /\ Own(c)' = p
      BY <2>1, <3>1, <3>4, <3>7 DEF RecordOK, Own
    <3>10. property'[p].state # "DETACHED"
      BY <3>4
    <3> QED BY <3>4, <3>5, <3>8, <3>9, <3>10 DEF RecordOK
  <2>5. CASE UNCHANGED property
    BY <2>3, <2>5 DEF Records
  <2>6. CASE ~UNCHANGED property
    <3>1. PICK p \in Objects : p = thread[r].weak
      BY <1>17, <2>6 DEF EntryUpdate, PosixThreads
    <3>2. property' = [property EXCEPT ![p] = Completed(property[p])]
      BY <1>17, <2>6, <3>1 DEF EntryUpdate
    <3>3. \A q \in Objects \ {p} : property'[q] = property[q]
      BY <3>2
    <3> QED BY <2>3, <2>4, <3>1, <3>2, <3>3 DEF Records
  <2> QED BY <2>5, <2>6
<1>18. ASSUME NEW r \in Runs, Unwind(r) PROVE abused' \/ Records'
  <2>1. /\ thread' = [thread EXCEPT ![r].pc = "ended"] /\ Alive(r)
        /\ unwound' = unwound \cup {r} /\ doomed' = doomed \ {r}
        /\ UNCHANGED <<prop, property, call>>
    BY <1>18 DEF Unwind, Alive
  <2>2. ASSUME NEW p \in Objects PROVE RecordOK(p)'
    <3>1. \A q \in Runs : /\ thread'[q].reap = thread[q].reap /\ thread'[q].weak = thread[q].weak
                          /\ Alive(q)' => Alive(q) /\ q # r
                          /\ thread[q].pc = "ended" => thread'[q].pc = "ended" /\ q # r
      BY <2>1 DEF PosixThreads, Alive
    <3>2. property[p].handle # 0 => property[p].handle \in Runs
      BY HandleRuns
    <3>3. RecordOK(p)
      BY DEF Records
    <3> QED BY <2>1, <3>1, <3>2, <3>3, RecordFrame DEF Own
  <2> QED BY <2>2 DEF Records
<1>19. CASE UNCHANGED vars
  <2>1. ASSUME NEW p \in Objects PROVE RecordOK(p)'
    BY <1>19 DEF vars, Records, RecordOK, Dismissed, EarlierRunCompleted, Alive, Own
  <2> QED BY <2>1 DEF Records
<1> QED BY <1>1, <1>2, <1>3, <1>4, <1>5, <1>6, <1>7, <1>8, <1>9, <1>10, <1>11,
         <1>12, <1>13, <1>14, <1>15, <1>16, <1>17, <1>18, <1>19
  DEF Next, CallStep, ThreadStep

(* The callers that do not take the step. *)
LEMMA OthersKnow ==
  ASSUME Inv, Exclusive, Knowledge, NEW c \in Callers, CallStep(c),
         \A d \in Callers \ {c} : call[d].pc # "idle" => prop'[call[d].obj] = prop[call[d].obj],
         \A q \in Objects : q # Own(c) =>
           /\ property'[q] = property[q]
           /\ property[q].handle # 0 =>
                /\ thread'[property[q].handle].reap = thread[property[q].handle].reap
                /\ thread'[property[q].handle].pc = thread[property[q].handle].pc,
         doomed \subseteq doomed'
  PROVE  \A d \in Callers \ {c} : Knows(d)'
<1>1. ASSUME NEW d \in Callers, d # c PROVE Knows(d)'
  <2>1. call'[d] = call[d] /\ call[c].pc # "idle" /\ Knows(d)
    BY <1>1, StepOfCall DEF Knowledge
  <2>2. call[d].pc # "idle" => Own(d) \in Objects /\ Own(d) # Own(c)
    BY <1>1, <2>1, Apart, Facts
  <2> QED BY <1>1, <2>1, <2>2, KnowsFrame
<1> QED BY <1>1

(* The caller itself, when its method is over. *)
LEMMA FinishKnows ==
  ASSUME Inv, NEW c \in Callers, Finish(c), UNCHANGED prop,
         call[c].from # NoObject =>
           LET q == property'[Own(c)] IN
             q.state = "JOINABLE" =>
               \/ thread'[q.handle].reap # "joinable"
               \/ EndedIsGone /\ thread'[q.handle].pc = "ended"
  PROVE  Knows(c)'
<1>1. CASE call[c].from = NoObject
  BY <1>1, FinishFields, NoCallFields DEF Inv, Knows
<1>2. CASE call[c].from # NoObject
  <2>1. /\ call'[c].pc = "rebind" /\ call'[c].obj = call[c].obj /\ call'[c].from = call[c].from
    BY <1>2, FinishFields DEF Inv
  <2>2. Own(c)' = Own(c)
    BY <2>1 DEF Own
  <2> QED BY <1>2, <2>1, <2>2 DEF Knows, KnowsCleanup
<1> QED BY <1>1, <1>2

(* The caller itself, in the middle of its method. *)
LEMMA GoKnows ==
  ASSUME Inv, NEW c \in Callers, NEW pc \in {"join", "reread", "record"}, Go(c, pc),
         UNCHANGED prop,
         pc = "record" => KnowsOutcome(c)', pc # "record" => KnowsHandle(c)'
  PROVE  Knows(c)'
<1>1. call'[c].pc = pc
  BY GoFields DEF Inv
<1> QED BY <1>1 DEF Knows, KnowsCleanup

(* Between its steps nobody else changes what a call relies on.             *)
LEMMA KnowledgeStep ==
  ASSUME Inv, Exclusive, Threads, Records, Knowledge, ~Shared, ~abused, [Next]_vars
  PROVE  abused' \/ Knowledge'
<1> /\ property \in [Objects -> ThreadProperties] /\ thread \in [Runs -> PosixThreads]
    /\ call \in [Callers -> Calls] /\ started \in Nat
  BY Facts
<1>1. ASSUME NEW c \in Callers, NEW o \in Objects, NEW action \in DtorActions,
             NEW attr \in Attributes,
             Start(c, o, action, attr)
      PROVE  abused' \/ Knowledge'
  <2>1. PICK n \in Runs : n = started + 1
    BY <1>1, NewThread DEF Start
  <2>2. PICK p \in Objects : p = prop[o]
    BY Facts
  <2>3. /\ thread' = [thread EXCEPT ![n] = [pc |-> "running", weak |-> p, reap |-> attr]]
        /\ UNCHANGED <<prop, call, doomed>>
        /\ \A q \in Objects \ {p} : property'[q] = property[q]
    BY <1>1, <2>1, <2>2 DEF Start
  <2>4. \A q \in Objects : property[q].handle # n
    BY <1>1, <2>1, NewThread, Facts DEF Start
  <2>5. \A d \in Callers : call[d].pc # "idle" => Own(d) # p
    BY <1>1, <2>2, Untouched DEF Start
  <2>6. ASSUME NEW d \in Callers PROVE Knows(d)'
    <3>1. Knows(d) /\ (call[d].pc # "idle" => Own(d) \in Objects)
      BY Facts DEF Knowledge
    <3>2. \A r \in Runs : r # n => thread'[r] = thread[r]
      BY <2>3
    <3>3. \A q \in Objects : property[q].handle # 0
            => thread'[property[q].handle] = thread[property[q].handle]
      BY <2>4, <3>2, HandleRuns
    <3> QED BY <2>3, <2>5, <3>1, <3>3, KnowsFrame
  <2> QED BY <2>6 DEF Knowledge
<1>2. ASSUME NEW c \in Callers, NEW o \in Objects, NEW action \in DtorActions,
             SetDtorAction(c, o, action)
      PROVE  abused' \/ Knowledge'
  <2>1. PICK p \in Objects : p = prop[o]
    BY Facts
  <2>2. /\ property' = [property EXCEPT ![p].action = action]
        /\ UNCHANGED <<prop, thread, call, doomed>>
    BY <1>2, <2>1 DEF SetDtorAction
  <2>3. \A d \in Callers : call[d].pc # "idle" => Own(d) # p /\ Own(d) \in Objects
    BY <1>2, <2>1, Untouched, Facts DEF SetDtorAction
  <2>4. ASSUME NEW d \in Callers PROVE Knows(d)'
    <3>1. Knows(d)
      BY DEF Knowledge
    <3>2. \A q \in Objects : q # p => property'[q] = property[q]
      BY <2>2
    <3> QED BY <2>2, <2>3, <3>1, <3>2, KnowsFrame
  <2> QED BY <2>4 DEF Knowledge
<1>3. ASSUME NEW c \in Callers, NEW o \in Objects, NEW op \in Operations,
             Call(c, o, op)
      PROVE  abused' \/ Knowledge'
  <2>1. call' = [call EXCEPT ![c] = NewCall("check", op, o, NoObject)]
        /\ UNCHANGED <<prop, property, thread, doomed>>
    BY <1>3 DEF Call
  <2>2. /\ call'[c].pc = "check" /\ call'[c].from = NoObject
        /\ \A d \in Callers \ {c} : call'[d] = call[d]
    BY <2>1 DEF NewCall
  <2>3. Knows(c)'
    BY <2>2 DEF Knows
  <2>4. ASSUME NEW d \in Callers, d # c PROVE Knows(d)'
    BY <2>1, <2>2, <2>4, KnowsFrame DEF Knowledge
  <2> QED BY <2>3, <2>4 DEF Knowledge
<1>4. ASSUME NEW c \in Callers, NEW o \in Objects, NEW other \in Objects,
             Cleanup(c, o, other)
      PROVE  abused' \/ Knowledge'
  <2>1. PICK p \in Objects : p = prop[o]
    BY Facts
  <2> DEFINE pc == IF NothingToClean(property[p]) THEN "rebind" ELSE "check"
  <2>2. /\ call' = [call EXCEPT ![c] = NewCall(pc, OperationOf(property[p].action), o, other)]
        /\ UNCHANGED <<prop, property, thread, doomed>>
    BY <1>4, <2>1 DEF Cleanup
  <2>3. pc = IF property[p].state = "JOINABLE" THEN "check" ELSE "rebind"
    BY DEF NothingToClean
  <2> HIDE DEF pc
  <2>4. /\ call'[c].pc = pc /\ call'[c].op = OperationOf(property[p].action)
        /\ call'[c].obj = o /\ call'[c].from = other
        /\ \A d \in Callers \ {c} : call'[d] = call[d]
    BY <2>2 DEF NewCall
  <2>5. Own(c)' = p
    BY <2>1, <2>2, <2>4 DEF Own
  <2>6. Knows(c)'
    BY <2>2, <2>3, <2>4, <2>5 DEF Knows, KnowsCleanup
  <2>7. ASSUME NEW d \in Callers, d # c PROVE Knows(d)'
    BY <2>2, <2>4, <2>7, KnowsFrame DEF Knowledge
  <2> QED BY <2>6, <2>7 DEF Knowledge
<1>5. ASSUME NEW c \in Callers, NEW o \in Objects, NEW other \in Objects,
             Swap(c, o, other)
      PROVE  abused' \/ Knowledge'
  <2>1. \A d \in Callers : call[d].pc # "idle" => call[d].obj \notin {o, other}
    BY <1>5, UntouchedByAll DEF Swap
  <2>2. UNCHANGED <<property, thread, call, doomed>>
        /\ \A x \in Objects : x \notin {o, other} => prop'[x] = prop[x]
    BY <1>5, Facts DEF Swap, Rebound
  <2>3. ASSUME NEW d \in Callers PROVE Knows(d)'
    <3>1. Knows(d) /\ (call[d].pc # "idle" => call[d].obj \in Objects)
      BY Facts DEF Knowledge
    <3> QED BY <2>1, <2>2, <3>1, KnowsFrame
  <2> QED BY <2>3 DEF Knowledge
<1>6. ASSUME NEW c \in Callers, Check(c) PROVE abused' \/ Knowledge'
  <2>1. PICK p \in Objects : p = Own(c)
    BY <1>6, Facts DEF Check, At
  <2>2. call[c].pc = "check" /\ property[p] \in ThreadProperties
    BY <1>6 DEF Check, At
  <2>3. UNCHANGED <<prop, property, thread>> /\ doomed \subseteq doomed'
    BY <1>6 DEF Check
  <2>4. \A d \in Callers \ {c} : Knows(d)'
    BY <1>6, <2>3, OthersKnow DEF CallStep
  <2>5. CASE Permitted(call[c].op, property[p])
    <3>1. PICK r \in Nat : r = property[p].handle
      BY Facts
    <3>2. /\ call'[c].pc = FirstCall(call[c].op) /\ call'[c].h = r
          /\ call'[c].op = call[c].op /\ call'[c].obj = call[c].obj
      BY <1>6, <2>1, <2>5, <3>1 DEF Check, Calls
    <3>3. Own(c)' = p /\ property'[p] = property[p] /\ thread' = thread
      BY <2>1, <2>3, <3>2 DEF Own
    <3>4. property[p].state = "JOINABLE" => thread[r].reap # "joined"
      <4>1. \A d \in Callers : ~(call[d].pc = "record" /\ Own(d) = p)
        BY <2>1, <2>2, Apart
      <4> QED BY <3>1, <4>1 DEF Records, RecordOK
    <3>5. property[p].state = "DETACHED" => thread[r].reap = "detached"
      BY <3>1 DEF Records, RecordOK
    <3>6. call[c].op \in {"Join", "Detach", "Cancel", "Terminate"}
      BY Facts DEF Operations
    <3>7. KnowsHandle(c)' /\ call'[c].pc \in {"join", "detach", "signal"}
      BY <2>5, <3>1, <3>2, <3>3, <3>4, <3>5, <3>6
      DEF KnowsHandle, Permitted, FirstCall, Running
    <3>8. Knows(c)'
      BY <3>7 DEF Knows, KnowsCleanup
    <3> QED BY <2>4, <3>8 DEF Knowledge
  <2>6. CASE ~Permitted(call[c].op, property[p])
    <3>1. Finish(c)
      BY <1>6, <2>1, <2>6 DEF Check
    <3>2. call[c].from = NoObject
      <4>1. SUFFICES ASSUME call[c].from # NoObject PROVE FALSE
        OBVIOUS
      <4>2. property[p].state = "JOINABLE" /\ call[c].op = OperationOf(property[p].action)
        BY <2>1, <2>2, <4>1 DEF Knowledge, Knows, KnowsCleanup
      <4>3. property[p].action \in {"JOIN", "DETACH", "CANCEL", "TERMINATE"}
        BY <2>2 DEF ThreadProperties
      <4> QED BY <2>6, <4>2, <4>3 DEF Permitted, OperationOf, Running
    <3>3. Knows(c)'
      BY <2>3, <3>1, <3>2, FinishKnows
    <3> QED BY <2>4, <3>3 DEF Knowledge
  <2> QED BY <2>5, <2>6
<1>7. ASSUME NEW c \in Callers, JoinReturns(c) PROVE abused' \/ Knowledge'
  <2>1. PICK p \in Objects : p = Own(c)
    BY <1>7, Facts DEF JoinReturns, At
  <2>2. PICK h \in Runs : /\ h = call[c].h /\ h = property[p].handle
                          /\ thread[h].reap # "joined" /\ KnowsHandle(c)
    BY <1>7, <2>1, OwnThread DEF JoinReturns, At
  <2>3. /\ thread' = [thread EXCEPT ![h].reap = "joined"]
        /\ UNCHANGED <<prop, property, doomed>>
    BY <1>7, <2>2 DEF JoinReturns
  <2>4. \A d \in Callers \ {c} : Knows(d)'
    <3>1. ASSUME NEW q \in Objects, q # p, property[q].handle # 0
          PROVE  thread'[property[q].handle] = thread[property[q].handle]
      BY <2>2, <2>3, <3>1, HandlesApart, HandleRuns
    <3> QED BY <1>7, <2>1, <2>3, <3>1, OthersKnow DEF CallStep
  <2>5. thread'[h].reap = "joined" /\ thread'[h].pc = thread[h].pc
    BY <2>3 DEF PosixThreads
  <2>6. Go(c, "record") /\ thread[h].pc = "ended" /\ call[c].op # "Detach"
    BY <1>7, <2>2 DEF JoinReturns, At, KnowsHandle
  <2>7. call'[c].op = call[c].op /\ Own(c)' = p
    BY <2>1, <2>3, <2>6, GoFields DEF Own, Inv
  <2>8. KnowsOutcome(c)'
    BY <2>2, <2>3, <2>5, <2>6, <2>7 DEF KnowsOutcome, Alive
  <2>9. Knows(c)'
    BY <2>3, <2>6, <2>8, GoKnows
  <2> QED BY <2>4, <2>9 DEF Knowledge
<1>8. ASSUME NEW c \in Callers, JoinFails(c) PROVE abused' \/ Knowledge'
  <2>1. PICK p \in Objects : p = Own(c)
    BY <1>8, Facts DEF JoinFails, At
  <2>2. PICK h \in Runs : /\ h = call[c].h /\ h = property[p].handle
                          /\ thread[h].reap # "joined" /\ KnowsHandle(c)
    BY <1>8, <2>1, OwnThread DEF JoinFails, At
  <2>3. UNCHANGED <<prop, property, thread>> /\ doomed \subseteq doomed'
    BY <1>8 DEF JoinFails
  <2>4. \A d \in Callers \ {c} : Knows(d)'
    BY <1>8, <2>3, OthersKnow DEF CallStep
  <2>5. ASSUME NEW d \in Callers, d # c, call[d].pc = "join", call[d].h = h PROVE FALSE
    <3>1. Own(d) \in Objects /\ property[Own(d)].handle = h
      BY <2>5, OwnThread
    <3>2. Own(d) # p
      BY <1>8, <2>1, <2>5, Apart DEF JoinFails, At
    <3>3. h # 0
      BY DEF Runs
    <3> QED BY <2>2, <3>1, <3>2, <3>3, HandlesApart
  <2>6. Finish(c) /\ thread[h].reap = "detached"
    BY <1>8, <2>2, <2>5 DEF JoinFails, At
  <2>7. Knows(c)'
    BY <2>1, <2>2, <2>3, <2>6, FinishKnows
  <2> QED BY <2>4, <2>7 DEF Knowledge
<1>9. ASSUME NEW c \in Callers, PthreadDetach(c) PROVE abused' \/ Knowledge'
  <2>1. PICK p \in Objects : p = Own(c)
    BY <1>9, Facts DEF PthreadDetach, At
  <2>2. PICK h \in Runs : /\ h = call[c].h /\ h = property[p].handle
                          /\ thread[h].reap # "joined" /\ KnowsHandle(c)
    BY <1>9, <2>1, OwnThread DEF PthreadDetach, At
  <2>3. /\ thread' = [thread EXCEPT ![h].reap = "detached"]
        /\ UNCHANGED <<prop, property, doomed>>
    BY <1>9, <2>2 DEF PthreadDetach
  <2>4. \A d \in Callers \ {c} : Knows(d)'
    <3>1. ASSUME NEW q \in Objects, q # p, property[q].handle # 0
          PROVE  thread'[property[q].handle] = thread[property[q].handle]
      BY <2>2, <2>3, <3>1, HandlesApart, HandleRuns
    <3> QED BY <1>9, <2>1, <2>3, <3>1, OthersKnow DEF CallStep
  <2>5. thread'[h].reap = "detached" /\ thread'[h].pc = thread[h].pc
    BY <2>3 DEF PosixThreads
  <2>6. CASE Go(c, "record")
    <3>1. call'[c].op = call[c].op /\ Own(c)' = p /\ call[c].op = "Detach"
      BY <1>9, <2>1, <2>2, <2>3, <2>6, GoFields DEF Own, Inv, PthreadDetach, At, KnowsHandle
    <3>2. KnowsOutcome(c)'
      BY <2>2, <2>3, <2>5, <3>1 DEF KnowsOutcome
    <3>3. Knows(c)'
      BY <2>3, <2>6, <3>2, GoKnows
    <3> QED BY <2>4, <3>3 DEF Knowledge
  <2>7. CASE Finish(c)
    <3>1. Knows(c)'
      BY <2>1, <2>2, <2>3, <2>5, <2>7, FinishKnows
    <3> QED BY <2>4, <3>1 DEF Knowledge
  <2> QED BY <1>9, <2>6, <2>7 DEF PthreadDetach
<1>10. ASSUME NEW c \in Callers, Signal(c) PROVE abused' \/ Knowledge'
  <2>1. PICK p \in Objects : p = Own(c)
    BY <1>10, Facts DEF Signal, At
  <2>2. PICK h \in Runs : /\ h = call[c].h /\ h = property[p].handle
                          /\ thread[h].reap # "joined" /\ KnowsHandle(c)
    BY <1>10, <2>1, OwnThread DEF Signal, At
  <2>3. UNCHANGED <<prop, property, thread>> /\ doomed \subseteq doomed'
    BY <1>10 DEF Signal
  <2>4. \A d \in Callers \ {c} : Knows(d)'
    BY <1>10, <2>3, OthersKnow DEF CallStep
  <2>5. Go(c, "reread") /\ (Alive(h) => h \in doomed')
        /\ call[c].op \in {"Cancel", "Terminate"}
    BY <1>10, <2>2 DEF Signal, At, KnowsHandle
  <2>6. /\ call'[c].op = call[c].op /\ call'[c].h = h /\ call'[c].pc = "reread"
        /\ Own(c)' = p
    BY <2>1, <2>2, <2>3, <2>5, GoFields DEF Own, Inv
  <2>7. KnowsHandle(c)'
    BY <2>2, <2>3, <2>5, <2>6 DEF KnowsHandle, Alive
  <2>8. Knows(c)'
    BY <2>3, <2>5, <2>7, GoKnows
  <2> QED BY <2>4, <2>8 DEF Knowledge
<1>11. ASSUME NEW c \in Callers, SignalFails(c) PROVE abused' \/ Knowledge'
  <2>1. PICK p \in Objects : p = Own(c)
    BY <1>11, Facts DEF SignalFails, At
  <2>2. PICK h \in Runs : /\ h = call[c].h /\ h = property[p].handle
                          /\ thread[h].reap # "joined" /\ KnowsHandle(c)
    BY <1>11, <2>1, OwnThread DEF SignalFails, At
  <2>3. UNCHANGED <<prop, property, thread>> /\ doomed \subseteq doomed'
    BY <1>11 DEF SignalFails
  <2>4. \A d \in Callers \ {c} : Knows(d)'
    BY <1>11, <2>3, OthersKnow DEF CallStep
  <2>5. Finish(c) /\ EndedIsGone /\ thread[h].pc = "ended"
    BY <1>11, <2>2 DEF SignalFails
  <2>6. Knows(c)'
    BY <2>1, <2>2, <2>3, <2>5, FinishKnows
  <2> QED BY <2>4, <2>6 DEF Knowledge
<1>12. ASSUME NEW c \in Callers, Reread(c) PROVE abused' \/ Knowledge'
  <2>1. PICK p \in Objects : p = Own(c)
    BY <1>12, Facts DEF Reread, At
  <2>2. PICK h \in Runs : /\ h = call[c].h /\ h = property[p].handle
                          /\ thread[h].reap # "joined" /\ KnowsHandle(c)
    BY <1>12, <2>1, OwnThread DEF Reread, At
  <2>3. UNCHANGED <<prop, property, thread>> /\ doomed \subseteq doomed'
    BY <1>12 DEF Reread
  <2>4. \A d \in Callers \ {c} : Knows(d)'
    BY <1>12, <2>3, OthersKnow DEF CallStep
  <2>5. /\ call[c].op \in {"Cancel", "Terminate"} /\ (Alive(h) => h \in doomed)
        /\ doomed' = doomed
    BY <1>12, <2>1, <2>2 DEF Reread, At, KnowsHandle
  <2>6. CASE property[p].state = "JOINABLE"
    <3>1. Go(c, "join")
      BY <1>12, <2>1, <2>6 DEF Reread, AfterSignal
    <3>2. /\ call'[c].op = call[c].op /\ call'[c].h = h /\ call'[c].pc = "join"
          /\ Own(c)' = p
      BY <2>1, <2>2, <2>3, <3>1, GoFields DEF Own, Inv
    <3>3. KnowsHandle(c)'
      BY <2>2, <2>3, <2>5, <2>6, <3>2 DEF KnowsHandle
    <3>4. Knows(c)'
      BY <2>3, <3>1, <3>3, GoKnows
    <3> QED BY <2>4, <3>4 DEF Knowledge
  <2>7. CASE property[p].state # "JOINABLE"
    <3>1. Go(c, "record")
      BY <1>12, <2>1, <2>7 DEF Reread, AfterSignal
    <3>2. call'[c].op = call[c].op /\ Own(c)' = p
      BY <2>1, <2>3, <3>1, GoFields DEF Own, Inv
    <3>3. property[p].state \in {"DETACHED", "TERMINATED"}
      <4>1. property[p].state \in {"INVALID", "JOINABLE", "DETACHED", "TERMINATED"}
        BY DEF ThreadProperties
      <4>2. property[p].state # "INVALID"
        BY <2>2 DEF Inv, HandleState, HandleOK, Runs
      <4> QED BY <2>7, <4>1, <4>2
    <3>4. thread[h].reap # "joinable"
      BY <2>2, <3>3 DEF Records, RecordOK, Dismissed
    <3>5. thread[h].reap = "detached"
      BY <2>2, <3>4 DEF PosixThreads
    <3>6. KnowsOutcome(c)'
      BY <2>2, <2>3, <2>5, <3>2, <3>5 DEF KnowsOutcome, Alive
    <3>7. Knows(c)'
      BY <2>3, <3>1, <3>6, GoKnows
    <3> QED BY <2>4, <3>7 DEF Knowledge
  <2> QED BY <2>6, <2>7
<1>13. ASSUME NEW c \in Callers, DeadHandle(c) PROVE abused' \/ Knowledge'
  BY <1>13 DEF DeadHandle
<1>14. ASSUME NEW c \in Callers, Record(c) PROVE abused' \/ Knowledge'
  <2>1. PICK p \in Objects : p = Own(c)
    BY <1>14, Facts DEF Record, At
  <2>2. /\ property' = [property EXCEPT ![p].state = RecordedState(call[c].op, property[p])]
        /\ UNCHANGED <<prop, thread, doomed>> /\ Finish(c)
    BY <1>14, <2>1 DEF Record
  <2>3. \A q \in Objects : q # p => property'[q] = property[q]
    BY <2>2
  <2>4. \A d \in Callers \ {c} : Knows(d)'
    BY <1>14, <2>1, <2>2, <2>3, OthersKnow DEF CallStep
  <2>5. property'[p].state # "JOINABLE"
    BY <2>2 DEF RecordedState, ThreadProperties
  <2>6. Knows(c)'
    BY <2>1, <2>2, <2>5, FinishKnows
  <2> QED BY <2>4, <2>6 DEF Knowledge
<1>15. ASSUME NEW c \in Callers, Rebind(c) PROVE abused' \/ Knowledge'
  <2>1. PICK o \in Objects, from \in Objects : o = call[c].obj /\ from = call[c].from
    BY <1>15, RebindObjects
  <2>2. PICK p \in Objects : p = prop[o] /\ p = Own(c)
    BY <2>1, Facts DEF Own
  <2>3. /\ property' = [property EXCEPT ![p] = FreshProperty]
        /\ thread' = [r \in Runs |-> IF thread[r].weak = p
                                       THEN [thread[r] EXCEPT !.weak = NoObject] ELSE thread[r]]
        /\ prop' = Rebound(o, from) /\ UNCHANGED doomed /\ call' = [call EXCEPT ![c] = NoCall]
    BY <1>15, <2>1, <2>2 DEF Rebind
  <2>4. \A r \in Runs : thread'[r].pc = thread[r].pc /\ thread'[r].reap = thread[r].reap
    BY <2>3 DEF PosixThreads
  <2>5. ASSUME NEW d \in Callers, d # c, call[d].pc # "idle"
        PROVE  prop'[call[d].obj] = prop[call[d].obj]
    <3>1. call[d].obj \in Objects /\ call[d].obj \notin {o, from}
      BY <1>15, <2>1, <2>5, Facts DEF Exclusive, Rebind, At
    <3> QED BY <2>3, <3>1, Facts DEF Rebound
  <2>6. \A q \in Objects : /\ q # p => property'[q] = property[q]
                           /\ property[q].handle # 0 => property[q].handle \in Runs
    BY <2>3, HandleRuns
  <2>7. \A d \in Callers \ {c} : Knows(d)'
    BY <1>15, <2>2, <2>3, <2>4, <2>5, <2>6, OthersKnow DEF CallStep
  <2>8. Knows(c)'
    BY <2>3, NoCallFields DEF Knows
  <2> QED BY <2>7, <2>8 DEF Knowledge
<1>16. ASSUME NEW r \in Runs, TaskEnds(r) PROVE abused' \/ Knowledge'
  <2>1. /\ thread' = [thread EXCEPT ![r].pc = "update"] /\ Alive(r)
        /\ UNCHANGED <<prop, property, call, doomed>>
    BY <1>16 DEF TaskEnds, Alive
  <2>2. \A q \in Runs : thread'[q].reap = thread[q].reap
                        /\ (thread'[q].pc = thread[q].pc \/ Alive(q))
    BY <2>1 DEF PosixThreads
  <2>3. ASSUME NEW d \in Callers PROVE Knows(d)'
    <3>1. Knows(d) /\ (call[d].pc # "idle" => Own(d) \in Objects)
      BY Facts DEF Knowledge
    <3>2. call[d].pc # "idle" /\ property[Own(d)].handle # 0 => property[Own(d)].handle \in Runs
      BY <3>1, HandleRuns
    <3> QED BY <2>1, <2>2, <3>1, <3>2, KnowsFrame
  <2> QED BY <2>3 DEF Knowledge
<1>17. ASSUME NEW r \in Runs, EntryUpdate(r) PROVE abused' \/ Knowledge'
  <2>1. /\ thread' = [thread EXCEPT ![r].pc = "ended"] /\ Alive(r)
        /\ doomed' = doomed \ {r} /\ UNCHANGED <<prop, call>>
    BY <1>17 DEF EntryUpdate, Alive
  <2>2. \A q \in Runs : /\ thread'[q].reap = thread[q].reap
                        /\ thread'[q].pc = thread[q].pc \/ Alive(q)
                        /\ Alive(q)' /\ q \in doomed => q \in doomed'
    BY <2>1 DEF PosixThreads, Alive
  <2>3. ASSUME NEW p \in Objects
        PROVE  /\ property'[p].handle = property[p].handle
               /\ property'[p].action = property[p].action
               /\ property'[p].state = "JOINABLE" <=> property[p].state = "JOINABLE"
    <3> DEFINE w == thread[r].weak
    <3>1. \/ UNCHANGED property
          \/ property' = [property EXCEPT ![w] = Completed(property[w])]
      BY <1>17 DEF EntryUpdate
    <3>2. /\ Completed(property[p]).handle = property[p].handle
          /\ Completed(property[p]).action = property[p].action
          /\ Completed(property[p]).state = "JOINABLE" <=> property[p].state = "JOINABLE"
      BY DEF Completed, ThreadProperties
    <3> QED BY <3>1, <3>2
  <2>4. ASSUME NEW d \in Callers PROVE Knows(d)'
    <3>1. Knows(d) /\ (call[d].pc # "idle" => Own(d) \in Objects)
      BY Facts DEF Knowledge
    <3>2. CASE call[d].pc = "idle"
      BY <2>1, <3>1, <3>2, KnowsFrame
    <3>3. CASE call[d].pc # "idle"
      <4>1. PICK p \in Objects : p = Own(d)
        BY <3>1, <3>3
      <4>2. PICK q \in Nat : q = property[p].handle
        BY Facts
      <4>3. q # 0 => q \in Runs
        BY <4>2, HandleRuns
      <4>4. /\ prop'[call[d].obj] = prop[call[d].obj] /\ call'[d] = call[d]
            /\ property'[p].handle = q /\ property'[p].action = property[p].action
            /\ property'[p].state = "JOINABLE" <=> property[p].state = "JOINABLE"
        BY <2>1, <2>3, <4>1, <4>2
      <4>5. q # 0 => /\ thread'[q].reap = thread[q].reap
                     /\ thread'[q].pc = thread[q].pc \/ Alive(q)
                     /\ thread'[q].pc # "ended" /\ q \in doomed => q \in doomed'
        BY <2>1, <2>2, <4>3
      <4> QED BY <3>1, <3>3, <4>1, <4>2, <4>4, <4>5, KnowsFrame
    <3> QED BY <3>2, <3>3
  <2> QED BY <2>4 DEF Knowledge
<1>18. ASSUME NEW r \in Runs, Unwind(r) PROVE abused' \/ Knowledge'
  <2>1. /\ thread' = [thread EXCEPT ![r].pc = "ended"] /\ Alive(r)
        /\ doomed' = doomed \ {r} /\ UNCHANGED <<prop, property, call>>
    BY <1>18 DEF Unwind, Alive
  <2>2. \A q \in Runs : /\ thread'[q].reap = thread[q].reap
                        /\ thread'[q].pc = thread[q].pc \/ Alive(q)
                        /\ Alive(q)' /\ q \in doomed => q \in doomed'
    BY <2>1 DEF PosixThreads, Alive
  <2>3. ASSUME NEW d \in Callers PROVE Knows(d)'
    <3>1. Knows(d) /\ (call[d].pc # "idle" => Own(d) \in Objects)
      BY Facts DEF Knowledge
    <3>2. CASE call[d].pc = "idle"
      BY <2>1, <3>1, <3>2, KnowsFrame
    <3>3. CASE call[d].pc # "idle"
      <4>1. PICK p \in Objects : p = Own(d)
        BY <3>1, <3>3
      <4>2. PICK q \in Nat : q = property[p].handle
        BY Facts
      <4>3. q # 0 => q \in Runs
        BY <4>2, HandleRuns
      <4>4. /\ prop'[call[d].obj] = prop[call[d].obj] /\ call'[d] = call[d]
            /\ property'[p].handle = q /\ property'[p].action = property[p].action
            /\ property'[p].state = "JOINABLE" <=> property[p].state = "JOINABLE"
        BY <2>1, <4>1, <4>2
      <4>5. q # 0 => /\ thread'[q].reap = thread[q].reap
                     /\ thread'[q].pc = thread[q].pc \/ Alive(q)
                     /\ thread'[q].pc # "ended" /\ q \in doomed => q \in doomed'
        BY <2>1, <2>2, <4>3
      <4> QED BY <3>1, <3>3, <4>1, <4>2, <4>4, <4>5, KnowsFrame
    <3> QED BY <3>2, <3>3
  <2> QED BY <2>3 DEF Knowledge
<1>19. CASE UNCHANGED vars
  <2>1. ASSUME NEW d \in Callers PROVE Knows(d)'
    BY <1>19, KnowsFrame DEF vars, Knowledge, Alive
  <2> QED BY <2>1 DEF Knowledge
<1> QED BY <1>1, <1>2, <1>3, <1>4, <1>5, <1>6, <1>7, <1>8, <1>9, <1>10, <1>11,
         <1>12, <1>13, <1>14, <1>15, <1>16, <1>17, <1>18, <1>19
  DEF Next, CallStep, ThreadStep

(* No step leaves a joinable thread without an object that has it as       *)
(* JOINABLE.                                                               *)
LEMMA OwnershipStep ==
  ASSUME Inv, Threads, Knowledge, Ownership, ~abused, [Next]_vars
  PROVE  abused' \/ Ownership'
<1> /\ property \in [Objects -> ThreadProperties] /\ thread \in [Runs -> PosixThreads]
    /\ started \in Nat
  BY Facts
<1>1. ASSUME NEW c \in Callers, NEW o \in Objects, NEW action \in DtorActions,
             NEW attr \in Attributes,
             Start(c, o, action, attr)
      PROVE  abused' \/ Ownership'
  <2>1. PICK n \in Runs : n = started + 1
    BY <1>1, NewThread DEF Start
  <2>2. PICK p \in Objects : p = prop[o]
    BY Facts
  <2>3. /\ thread' = [thread EXCEPT ![n] = [pc |-> "running", weak |-> p, reap |-> attr]]
        /\ started' = n
        /\ property'[p].handle = n /\ property'[p].state = "JOINABLE"
        /\ property[p].state # "JOINABLE"
        /\ \A q \in Objects \ {p} : property'[q] = property[q]
    BY <1>1, <2>1, <2>2 DEF Start, ThreadProperties, Running
  <2>4. ASSUME NEW r \in Runs PROVE Reclaimed(r)'
    <3>1. CASE r = n
      BY <2>3, <3>1 DEF Reclaimed
    <3>2. CASE r # n
      <4>1. thread'[r] = thread[r] /\ (r <= started' => r <= started)
        BY <2>1, <2>3, <3>2 DEF Runs
      <4>2. \A q \in Objects : property[q].state = "JOINABLE" => property'[q] = property[q]
        BY <2>3
      <4> QED BY <2>3, <4>1, <4>2 DEF Ownership, Reclaimed
    <3> QED BY <3>1, <3>2
  <2> QED BY <2>4 DEF Ownership
<1>2. ASSUME NEW c \in Callers, NEW o \in Objects, NEW action \in DtorActions,
             SetDtorAction(c, o, action)
      PROVE  abused' \/ Ownership'
  <2>1. \A q \in Objects : /\ property'[q].state = property[q].state
                           /\ property'[q].handle = property[q].handle
    BY <1>2 DEF SetDtorAction, ThreadProperties
  <2> QED BY <1>2, <2>1, OwnershipFrame DEF SetDtorAction
<1>3. ASSUME NEW c \in Callers, NEW o \in Objects, NEW op \in Operations,
             Call(c, o, op)
      PROVE  abused' \/ Ownership'
  BY <1>3, OwnershipFrame DEF Call
<1>4. ASSUME NEW c \in Callers, NEW o \in Objects, NEW other \in Objects,
             Cleanup(c, o, other)
      PROVE  abused' \/ Ownership'
  BY <1>4, OwnershipFrame DEF Cleanup
<1>5. ASSUME NEW c \in Callers, NEW o \in Objects, NEW other \in Objects,
             Swap(c, o, other)
      PROVE  abused' \/ Ownership'
  BY <1>5, OwnershipFrame DEF Swap
<1>6. ASSUME NEW c \in Callers, Check(c) PROVE abused' \/ Ownership'
  BY <1>6, OwnershipFrame DEF Check
<1>7. ASSUME NEW c \in Callers, JoinReturns(c) PROVE abused' \/ Ownership'
  <2>1. call[c].h \in Runs
    BY <1>7, OwnThread DEF JoinReturns, At
  <2>2. /\ thread' = [thread EXCEPT ![call[c].h].reap = "joined"] /\ UNCHANGED <<property, started>>
    BY <1>7 DEF JoinReturns
  <2>3. \A r \in Runs : /\ thread'[r].reap = "joinable" => thread[r].reap = "joinable"
                        /\ thread'[r].pc = thread[r].pc
    BY <2>1, <2>2 DEF PosixThreads
  <2> QED BY <2>2, <2>3, OwnershipFrame
<1>8. ASSUME NEW c \in Callers, JoinFails(c) PROVE abused' \/ Ownership'
  BY <1>8, OwnershipFrame DEF JoinFails
<1>9. ASSUME NEW c \in Callers, PthreadDetach(c) PROVE abused' \/ Ownership'
  <2>1. call[c].h \in Runs
    BY <1>9, OwnThread DEF PthreadDetach, At
  <2>2. /\ thread' = [thread EXCEPT ![call[c].h].reap = "detached"]
        /\ UNCHANGED <<property, started>>
    BY <1>9 DEF PthreadDetach
  <2>3. \A r \in Runs : /\ thread'[r].reap = "joinable" => thread[r].reap = "joinable"
                        /\ thread'[r].pc = thread[r].pc
    BY <2>1, <2>2 DEF PosixThreads
  <2> QED BY <2>2, <2>3, OwnershipFrame
<1>10. ASSUME NEW c \in Callers, Signal(c) PROVE abused' \/ Ownership'
  BY <1>10, OwnershipFrame DEF Signal
<1>11. ASSUME NEW c \in Callers, SignalFails(c) PROVE abused' \/ Ownership'
  BY <1>11, OwnershipFrame DEF SignalFails
<1>12. ASSUME NEW c \in Callers, Reread(c) PROVE abused' \/ Ownership'
  BY <1>12, OwnershipFrame DEF Reread
<1>13. ASSUME NEW c \in Callers, DeadHandle(c) PROVE abused' \/ Ownership'
  BY <1>13 DEF DeadHandle
<1>14. ASSUME NEW c \in Callers, Record(c) PROVE abused' \/ Ownership'
  <2>1. PICK p \in Objects : p = Own(c)
    BY <1>14, Facts DEF Record, At
  <2>2. thread[property[p].handle].reap # "joinable"
    BY <1>14, <2>1 DEF Record, At, Knowledge, Knows, KnowsOutcome
  <2>3. /\ \A q \in Objects : q # p => property'[q] = property[q]
        /\ UNCHANGED <<thread, started>>
    BY <1>14, <2>1 DEF Record
  <2>4. ASSUME NEW r \in Runs PROVE Reclaimed(r)'
    BY <2>2, <2>3 DEF Ownership, Reclaimed
  <2> QED BY <2>4 DEF Ownership
<1>15. ASSUME NEW c \in Callers, Rebind(c) PROVE abused' \/ Ownership'
  <2>1. PICK p \in Objects : p = Own(c) /\ p = prop[call[c].obj]
    BY <1>15, RebindObjects, Facts DEF Own
  <2>2. property[p].state = "JOINABLE" =>
          \/ thread[property[p].handle].reap # "joinable"
          \/ EndedIsGone /\ thread[property[p].handle].pc = "ended"
    BY <1>15, <2>1, RebindObjects, ThreadAssumption DEF Knowledge, Knows, KnowsCleanup
  <2>3. /\ \A q \in Objects : q # p => property'[q] = property[q]
        /\ thread' = [r \in Runs |-> IF thread[r].weak = p
                                       THEN [thread[r] EXCEPT !.weak = NoObject] ELSE thread[r]]
        /\ UNCHANGED started
    BY <1>15, <2>1 DEF Rebind
  <2>4. \A r \in Runs : thread'[r].pc = thread[r].pc /\ thread'[r].reap = thread[r].reap
    BY <2>3 DEF PosixThreads
  <2>5. ASSUME NEW r \in Runs PROVE Reclaimed(r)'
    BY <2>2, <2>3, <2>4 DEF Ownership, Reclaimed
  <2> QED BY <2>5 DEF Ownership
<1>16. ASSUME NEW r \in Runs, TaskEnds(r) PROVE abused' \/ Ownership'
  <2>1. \A q \in Runs : /\ thread'[q].reap = thread[q].reap
                        /\ thread[q].pc = "ended" => thread'[q].pc = "ended"
    BY <1>16 DEF TaskEnds, PosixThreads, Alive
  <2> QED BY <1>16, <2>1, OwnershipFrame DEF TaskEnds
<1>17. ASSUME NEW r \in Runs, EntryUpdate(r) PROVE abused' \/ Ownership'
  <2>1. \A q \in Runs : /\ thread'[q].reap = thread[q].reap
                        /\ thread[q].pc = "ended" => thread'[q].pc = "ended"
    BY <1>17 DEF EntryUpdate, PosixThreads
  <2>2. ASSUME NEW p \in Objects, property[p].state = "JOINABLE"
        PROVE  property'[p].state = "JOINABLE" /\ property'[p].handle = property[p].handle
    <3> DEFINE w == thread[r].weak
    <3>1. \/ UNCHANGED property
          \/ property' = [property EXCEPT ![w] = Completed(property[w])]
      BY <1>17 DEF EntryUpdate
    <3>2. /\ Completed(property[p]).handle = property[p].handle
          /\ Completed(property[p]).state = "JOINABLE"
      BY <2>2 DEF Completed, ThreadProperties
    <3> QED BY <2>2, <3>1, <3>2
  <2>3. UNCHANGED started
    BY <1>17 DEF EntryUpdate
  <2> QED BY <2>1, <2>2, <2>3, OwnershipFrame
<1>18. ASSUME NEW r \in Runs, Unwind(r) PROVE abused' \/ Ownership'
  <2>1. \A q \in Runs : /\ thread'[q].reap = thread[q].reap
                        /\ thread[q].pc = "ended" => thread'[q].pc = "ended"
    BY <1>18 DEF Unwind, PosixThreads, Alive
  <2> QED BY <1>18, <2>1, OwnershipFrame DEF Unwind
<1>19. CASE UNCHANGED vars
  BY <1>19, OwnershipFrame DEF vars
<1> QED BY <1>1, <1>2, <1>3, <1>4, <1>5, <1>6, <1>7, <1>8, <1>9, <1>10, <1>11,
         <1>12, <1>13, <1>14, <1>15, <1>16, <1>17, <1>18, <1>19
  DEF Next, CallStep, ThreadStep

-----------------------------------------------------------------------------
(* The invariant *)

LEMMA OwnerInit == Init => OwnerInv
<1> SUFFICES ASSUME Init PROVE OwnerInv
  OBVIOUS
<1>1. Inv
  BY InvInit
<1>2. /\ prop = [o \in Objects |-> o] /\ started = 0 /\ unwound = {}
      /\ property = [p \in Objects |-> FreshProperty]
      /\ thread = [r \in Runs |-> Unused] /\ call = [c \in Callers |-> NoCall]
  BY DEF Init
<1>3. Exclusive
  BY <1>2, NoCallFields DEF Exclusive
<1>4. AllHeld
  BY <1>2 DEF AllHeld
<1>5. Threads
  BY <1>2, ThreadAssumption DEF Threads, ThreadOK, Unused, Runs
<1>6. Records
  BY <1>2 DEF Records, RecordOK, FreshProperty
<1>7. Knowledge
  BY <1>2, NoCallFields DEF Knowledge, Knows
<1>8. Ownership
  BY <1>2, ThreadAssumption DEF Ownership, Reclaimed, Runs
<1> QED BY <1>1, <1>3, <1>4, <1>5, <1>6, <1>7, <1>8 DEF OwnerInv

(* A dead handle that has been used stays used. *)
LEMMA AbusedStays ==
  ASSUME [Next]_vars, abused
  PROVE  abused'
<1>1. ASSUME NEW c \in Callers, NEW o \in Objects, NEW action \in DtorActions,
             NEW attr \in Attributes,
             Start(c, o, action, attr)
      PROVE  abused'
  BY <1>1 DEF Start
<1>2. ASSUME NEW c \in Callers, NEW o \in Objects, NEW action \in DtorActions,
             SetDtorAction(c, o, action)
      PROVE  abused'
  BY <1>2 DEF SetDtorAction
<1>3. ASSUME NEW c \in Callers, NEW o \in Objects, NEW op \in Operations,
             Call(c, o, op)
      PROVE  abused'
  BY <1>3 DEF Call
<1>4. ASSUME NEW c \in Callers, NEW o \in Objects, NEW other \in Objects,
             Cleanup(c, o, other)
      PROVE  abused'
  BY <1>4 DEF Cleanup
<1>5. ASSUME NEW c \in Callers, NEW o \in Objects, NEW other \in Objects,
             Swap(c, o, other)
      PROVE  abused'
  BY <1>5 DEF Swap
<1>6. ASSUME NEW c \in Callers, Check(c) PROVE abused'
  BY <1>6 DEF Check
<1>7. ASSUME NEW c \in Callers, JoinReturns(c) PROVE abused'
  BY <1>7 DEF JoinReturns
<1>8. ASSUME NEW c \in Callers, JoinFails(c) PROVE abused'
  BY <1>8 DEF JoinFails
<1>9. ASSUME NEW c \in Callers, PthreadDetach(c) PROVE abused'
  BY <1>9 DEF PthreadDetach
<1>10. ASSUME NEW c \in Callers, Signal(c) PROVE abused'
  BY <1>10 DEF Signal
<1>11. ASSUME NEW c \in Callers, SignalFails(c) PROVE abused'
  BY <1>11 DEF SignalFails
<1>12. ASSUME NEW c \in Callers, Reread(c) PROVE abused'
  BY <1>12 DEF Reread
<1>13. ASSUME NEW c \in Callers, DeadHandle(c) PROVE abused'
  BY <1>13 DEF DeadHandle
<1>14. ASSUME NEW c \in Callers, Record(c) PROVE abused'
  BY <1>14 DEF Record
<1>15. ASSUME NEW c \in Callers, Rebind(c) PROVE abused'
  BY <1>15 DEF Rebind
<1>16. ASSUME NEW r \in Runs, TaskEnds(r) PROVE abused'
  BY <1>16 DEF TaskEnds
<1>17. ASSUME NEW r \in Runs, EntryUpdate(r) PROVE abused'
  BY <1>17 DEF EntryUpdate
<1>18. ASSUME NEW r \in Runs, Unwind(r) PROVE abused'
  BY <1>18 DEF Unwind
<1>19. CASE UNCHANGED vars
  BY <1>19 DEF vars
<1> QED BY <1>1, <1>2, <1>3, <1>4, <1>5, <1>6, <1>7, <1>8, <1>9, <1>10, <1>11,
         <1>12, <1>13, <1>14, <1>15, <1>16, <1>17, <1>18, <1>19
  DEF Next, CallStep, ThreadStep

LEMMA OwnerStep == ASSUME ~Shared, OwnerInv, [Next]_vars PROVE OwnerInv'
<1>1. Inv /\ Exclusive /\ AllHeld
  BY DEF OwnerInv
<1>2. Inv'
  BY <1>1, TypeStep, CallStateStep, AloneStep, HandleStateStep DEF Inv
<1>3. Exclusive' /\ AllHeld'
  BY <1>1, ExclusiveStep, AllHeldStep
<1>4. ASSUME ~abused' PROVE Threads' /\ Records' /\ Knowledge' /\ Ownership'
  <2>1. ~abused /\ Threads /\ Records /\ Knowledge /\ Ownership
    BY <1>4, AbusedStays DEF OwnerInv
  <2> QED BY <1>1, <1>4, <2>1, ThreadsStep, RecordsStep, KnowledgeStep, OwnershipStep
<1> QED BY <1>2, <1>3, <1>4 DEF OwnerInv

(* OwnerInv is an invariant when no object is shared: calls exclude each   *)
(* other, and until a dead handle is used each of them finds its thread as *)
(* it left it between its steps.                                           *)
THEOREM OwnerInvHolds == ~Shared => (Spec => []OwnerInv)
<1> SUFFICES ASSUME ~Shared PROVE Spec => []OwnerInv
  OBVIOUS
<1>1. OwnerInv /\ [Next]_vars => OwnerInv'
  BY OwnerStep
<1> QED BY OwnerInit, <1>1, PTL DEF Spec

(* No thread that was neither joined nor detached is forgotten, through    *)
(* moves, swaps, assignments, restarts and destructors of any number of    *)
(* objects by any number of callers.                                       *)
THEOREM EveryThreadIsReclaimed == ~Shared => (Spec => [](~abused => NoThreadLost))
<1> SUFFICES ASSUME ~Shared PROVE Spec => [](~abused => NoThreadLost)
  OBVIOUS
<1>1. ASSUME OwnerInv, ~abused PROVE NoThreadLost
  <2>1. Inv /\ AllHeld /\ Ownership
    BY <1>1 DEF OwnerInv
  <2>2. ASSUME NEW r \in 1 .. started, thread[r].reap = "joinable"
        PROVE  \/ \E o \in Objects : /\ property[prop[o]].handle = r
                                     /\ property[prop[o]].state = "JOINABLE"
               \/ EndedIsGone /\ thread[r].pc = "ended"
    <3>1. r \in Runs /\ r <= started
      BY <2>1, Facts DEF Runs
    <3> QED BY <2>1, <2>2, <3>1 DEF Ownership, Reclaimed, AllHeld
  <2> QED BY <2>2 DEF NoThreadLost
<1>2. OwnerInv => (~abused => NoThreadLost)
  BY <1>1
<1> QED BY OwnerInvHolds, <1>2, PTL

(* No thread is joined twice, nor detached, cancelled or terminated after  *)
(* it has been joined.                                                     *)
THEOREM NobodyJoinsTwice == ~Shared => (Spec => []JoinedOnce)
<1> SUFFICES ASSUME ~Shared PROVE Spec => []JoinedOnce
  OBVIOUS
<1>1. ASSUME OwnerInv PROVE JoinedOnce
  <2>1. ASSUME NEW c \in Callers, call[c].pc \in {"join", "detach", "signal"}, ~abused
        PROVE  thread[call[c].h].reap # "joined"
    BY <1>1, <2>1 DEF OwnerInv, Knowledge, Knows, KnowsHandle
  <2> QED BY <2>1 DEF JoinedOnce
<1>2. OwnerInv => JoinedOnce
  BY <1>1
<1> QED BY OwnerInvHolds, <1>2, PTL

(* TERMINATED is recorded of a live thread only when it was detached and   *)
(* then cancelled or terminated, or after an earlier thread of the same    *)
(* property has completed.                                                 *)
THEOREM TerminatedMeansOver == ~Shared => (Spec => [](~abused => TerminatedIsOver))
<1> SUFFICES ASSUME ~Shared PROVE Spec => [](~abused => TerminatedIsOver)
  OBVIOUS
<1>1. ASSUME OwnerInv, ~abused PROVE TerminatedIsOver
  BY <1>1 DEF OwnerInv, Records, RecordOK, Dismissed, TerminatedIsOver
<1>2. OwnerInv => (~abused => TerminatedIsOver)
  BY <1>1
<1> QED BY OwnerInvHolds, <1>2, PTL
=============================================================================
