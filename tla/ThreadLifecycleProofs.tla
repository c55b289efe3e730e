------------------------ MODULE ThreadLifecycleProofs ------------------------
(***************************************************************************)
(* Theorems of ThreadLifecycle for every number of objects, callers and    *)
(* threads, with the proofs that TLAPS checks.                             *)
(***************************************************************************)
EXTENDS ThreadLifecycleProps, TLAPS

-----------------------------------------------------------------------------
(* What holds even when callers share an object. *)

(* What a call in progress has been told. *)
CallOK(c) ==
  /\ call[c].pc = "idle" => call[c].obj = NoObject /\ call[c].from = NoObject
  /\ call[c].pc # "idle" => call[c].obj \in Objects
  /\ call[c].pc = "rebind" => call[c].from \in Objects
  /\ call[c].h <= started
  /\ call[c].pc \in {"join", "detach", "signal", "reread"} => call[c].h # 0
  /\ call[c].pc \in {"join", "detach", "signal", "reread", "record"}
       => property[Own(c)].handle # 0

CallState == \A c \in Callers : CallOK(c)

(* A caller who destroys an object or moves from it uses it alone. *)
Alone ==
  \A c, d \in Callers : c # d /\ call[c].from # NoObject
    => /\ call[c].obj \notin {call[d].obj, call[d].from}
       /\ call[c].from \notin {call[d].obj, call[d].from}

(* The thread of a property reports to it, and has not ended unless it did.*)
HandleOK(p) ==
  /\ property[p].handle <= started
  /\ property[p].handle = 0 <=> property[p].state = "INVALID"
  /\ property[p].handle # 0 => thread[property[p].handle].weak = p
  /\ property[p].handle # 0 /\ ~property[p].complete
       => Alive(property[p].handle) \/ property[p].handle \in unwound
  /\ property[p].state = "DETACHED" => ~property[p].complete

HandleState == \A p \in Objects : HandleOK(p)

Inv == TypeOK /\ CallState /\ Alone /\ HandleState

-----------------------------------------------------------------------------
(* Types *)

(* The records that the actions write. *)
LEMMA NewCalls ==
  ASSUME NEW pc \in {"idle", "check", "rebind"}, NEW op \in Operations,
         NEW o \in Objects \cup {NoObject}, NEW from \in Objects \cup {NoObject}
  PROVE  NewCall(pc, op, o, from) \in Calls
<1>1. 0 \in 0 .. MaxRuns
  BY ThreadAssumption
<1> QED BY <1>1 DEF NewCall, Calls

LEMMA InitialRecords ==
  FreshProperty \in ThreadProperties /\ Unused \in PosixThreads /\ NoCall \in Calls
<1>1. MaxRuns \in Nat /\ 0 \in 0 .. MaxRuns
  BY ThreadAssumption
<1>2. FreshProperty \in ThreadProperties
  BY <1>1 DEF FreshProperty, ThreadProperties
<1>3. Unused \in PosixThreads
  BY DEF Unused, PosixThreads
<1>4. "Join" \in Operations
  BY DEF Operations
<1>5. NoCall \in Calls
  BY <1>4, NewCalls DEF NoCall
<1> QED BY <1>2, <1>3, <1>5

LEMMA PropertyUpdates ==
  ASSUME NEW q \in ThreadProperties
  PROVE  /\ \A s \in {"INVALID", "JOINABLE", "DETACHED", "TERMINATED"} :
              [q EXCEPT !.state = s] \in ThreadProperties
         /\ \A a \in DtorActions : [q EXCEPT !.action = a] \in ThreadProperties
         /\ [q EXCEPT !.complete = TRUE] \in ThreadProperties
         /\ \A h \in 0 .. MaxRuns : [q EXCEPT !.handle = h] \in ThreadProperties
BY ThreadAssumption DEF ThreadProperties

LEMMA ThreadUpdates ==
  ASSUME NEW t \in PosixThreads
  PROVE  /\ \A pc \in {"none", "running", "update", "ended"} :
              [t EXCEPT !.pc = pc] \in PosixThreads
         /\ \A reap \in {"joinable", "joined", "detached"} :
              [t EXCEPT !.reap = reap] \in PosixThreads
         /\ [t EXCEPT !.weak = NoObject] \in PosixThreads
BY DEF PosixThreads

LEMMA CallUpdates ==
  ASSUME NEW k \in Calls
  PROVE  /\ \A pc \in {"idle", "check", "join", "detach", "signal", "reread", "record", "rebind"} :
              [k EXCEPT !.pc = pc] \in Calls
         /\ \A h \in 0 .. MaxRuns : [k EXCEPT !.h = h] \in Calls
BY DEF Calls

LEMMA InvInit == Init => Inv
<1> SUFFICES ASSUME Init PROVE Inv
  OBVIOUS
<1>1. TypeOK
  <2>1. property \in [Objects -> ThreadProperties]
    BY InitialRecords DEF Init
  <2>2. thread \in [Runs -> PosixThreads]
    BY InitialRecords DEF Init
  <2>3. call \in [Callers -> Calls]
    BY InitialRecords DEF Init
  <2>4. started \in 0 .. MaxRuns
    BY ThreadAssumption DEF Init
  <2>5. /\ prop \in [Objects -> Objects]
        /\ \A o1, o2 \in Objects : prop[o1] = prop[o2] => o1 = o2
    BY DEF Init
  <2>6. /\ doomed \subseteq Runs /\ unwound \subseteq Runs
        /\ abused \in BOOLEAN /\ crashed \in BOOLEAN
    BY DEF Init
  <2> QED BY <2>1, <2>2, <2>3, <2>4, <2>5, <2>6 DEF TypeOK
<1>2. CallState
  BY DEF Init, CallState, CallOK, NoCall, NewCall
<1>3. Alone
  BY DEF Init, Alone, NoCall, NewCall
<1>4. HandleState
  BY DEF Init, HandleState, HandleOK, FreshProperty
<1> QED BY <1>1, <1>2, <1>3, <1>4 DEF Inv

LEMMA FinishType ==
  ASSUME TypeOK, NEW c \in Callers, Finish(c)
  PROVE  call' \in [Callers -> Calls]
<1>1. call[c] \in Calls /\ call \in [Callers -> Calls]
  BY DEF TypeOK
<1>2. NoCall \in Calls /\ [call[c] EXCEPT !.pc = "rebind"] \in Calls
  BY <1>1, InitialRecords, CallUpdates
<1> QED BY <1>1, <1>2 DEF Finish

LEMMA GoType ==
  ASSUME TypeOK, NEW c \in Callers,
         NEW pc \in {"idle", "check", "join", "detach", "signal", "reread", "record", "rebind"},
         Go(c, pc)
  PROVE  call' \in [Callers -> Calls]
<1>1. call[c] \in Calls /\ call \in [Callers -> Calls]
  BY DEF TypeOK
<1>2. [call[c] EXCEPT !.pc = pc] \in Calls
  BY <1>1, CallUpdates
<1>3. call' = [call EXCEPT ![c] = [call[c] EXCEPT !.pc = pc]]
  BY DEF Go
<1> QED BY <1>1, <1>2, <1>3


LEMMA HandleRun ==
  ASSUME Inv, NEW c \in Callers, call[c].pc \in {"join", "detach", "signal"}
  PROVE  call[c].h # 0 /\ call[c].h \in Runs /\ call[c].h <= started /\ Own(c) \in Objects
<1>1. call[c] \in Calls /\ started \in 0 .. MaxRuns
  BY DEF Inv, TypeOK
<1>2. call[c].h \in 0 .. MaxRuns
  BY <1>1 DEF Calls
<1>3. call[c].h # 0 /\ call[c].h <= started /\ call[c].obj \in Objects
  BY DEF Inv, CallState, CallOK
<1>4. Own(c) \in Objects
  BY <1>3 DEF Own, Inv, TypeOK
<1> QED BY <1>2, <1>3, <1>4, ThreadAssumption DEF Runs

LEMMA TypeStep == Inv /\ [Next]_vars => TypeOK'
<1> SUFFICES ASSUME Inv, [Next]_vars PROVE TypeOK'
  OBVIOUS
<1> USE DEF TypeOK, Inv
<1>1. ASSUME NEW c \in Callers, NEW o \in Objects, NEW action \in DtorActions,
             NEW attr \in Attributes,
             Start(c, o, action, attr)
      PROVE  TypeOK'
  <2>1. started + 1 \in Runs /\ started + 1 \in 0 .. MaxRuns /\ prop[o] \in Objects
    BY <1>1, ThreadAssumption DEF Start, Runs
  <2>2. [pc |-> "running", weak |-> prop[o], reap |-> attr] \in PosixThreads
    BY <2>1, ThreadAssumption DEF PosixThreads
  <2>3. thread' \in [Runs -> PosixThreads]
    BY <1>1, <2>1, <2>2 DEF Start
  <2> DEFINE q1 == [property[prop[o]] EXCEPT !.state = "JOINABLE"]
             q2 == [q1 EXCEPT !.action = action]
             q3 == [q2 EXCEPT !.handle = started + 1]
  <2>4. property[prop[o]] \in ThreadProperties
    BY <2>1
  <2>5. q1 \in ThreadProperties
    BY <2>4, PropertyUpdates
  <2>6. q2 \in ThreadProperties
    <3> HIDE DEF q1
    <3> QED BY <2>5, PropertyUpdates
  <2>7. q3 \in ThreadProperties
    <3> HIDE DEF q2
    <3> QED BY <2>1, <2>6, PropertyUpdates
  <2>8. property' = [property EXCEPT ![prop[o]] = q3]
    BY <1>1, <2>1 DEF Start
  <2>9. property' \in [Objects -> ThreadProperties]
    <3> HIDE DEF q3
    <3> QED BY <2>7, <2>8
  <2> QED BY <1>1, <2>1, <2>3, <2>9 DEF Start
<1>2. ASSUME NEW c \in Callers, NEW o \in Objects, NEW action \in DtorActions,
             SetDtorAction(c, o, action)
      PROVE  TypeOK'
  <2>1. property' = [property EXCEPT ![prop[o]] = [property[prop[o]] EXCEPT !.action = action]]
    BY <1>2 DEF SetDtorAction
  <2>2. [property[prop[o]] EXCEPT !.action = action] \in ThreadProperties
    BY PropertyUpdates
  <2>3. property' \in [Objects -> ThreadProperties]
    BY <2>1, <2>2
  <2> QED BY <1>2, <2>3 DEF SetDtorAction
<1>3. ASSUME NEW c \in Callers, NEW o \in Objects, NEW op \in Operations,
             Call(c, o, op)
      PROVE  TypeOK'
  <2>1. NewCall("check", op, o, NoObject) \in Calls
    BY NewCalls
  <2>2. call' \in [Callers -> Calls]
    BY <1>3, <2>1 DEF Call
  <2> QED BY <1>3, <2>2 DEF Call
<1>4. ASSUME NEW c \in Callers, NEW o \in Objects, NEW other \in Objects,
             Cleanup(c, o, other)
      PROVE  TypeOK'
  <2> DEFINE pc == IF NothingToClean(property[prop[o]]) THEN "rebind" ELSE "check"
             op == OperationOf(property[prop[o]].action)
  <2>1. op \in Operations /\ pc \in {"rebind", "check"}
    BY DEF OperationOf, Operations
  <2>2. call' = [call EXCEPT ![c] = NewCall(pc, op, o, other)]
    BY <1>4 DEF Cleanup
  <2> HIDE DEF pc, op
  <2>3. NewCall(pc, op, o, other) \in Calls
    BY <2>1, NewCalls
  <2>4. call' \in [Callers -> Calls]
    BY <2>2, <2>3
  <2> QED BY <1>4, <2>4 DEF Cleanup
<1>5. ASSUME NEW c \in Callers, NEW o \in Objects, NEW other \in Objects,
             Swap(c, o, other)
      PROVE  TypeOK'
  BY <1>5 DEF Swap, Rebound
<1>6. ASSUME NEW c \in Callers, Check(c) PROVE TypeOK'
  <2>1. ASSUME Permitted(call[c].op, property[Own(c)]) PROVE call' \in [Callers -> Calls]
    <3>1. Own(c) \in Objects
      BY <1>6 DEF Check, At, Own, CallState, CallOK
    <3>2. property[Own(c)] \in ThreadProperties
      BY <3>1
    <3>3. property[Own(c)].handle \in 0 .. MaxRuns
      BY <3>2 DEF ThreadProperties
    <3>4. FirstCall(call[c].op) \in {"join", "detach", "signal"}
      BY DEF FirstCall
    <3> DEFINE k1 == [call[c] EXCEPT !.pc = FirstCall(call[c].op)]
               k2 == [k1 EXCEPT !.h = property[Own(c)].handle]
    <3>5. k1 \in Calls
      <4>1. call[c] \in Calls
        OBVIOUS
      <4> QED BY <4>1, <3>4, CallUpdates
    <3>6. k2 \in Calls
      <4> HIDE DEF k1
      <4> QED BY <3>3, <3>5, CallUpdates
    <3>7. call' = [call EXCEPT ![c] = k2]
      BY <1>6, <2>1 DEF Check
    <3> HIDE DEF k2
    <3> QED BY <3>6, <3>7
  <2>2. ASSUME Finish(c) PROVE call' \in [Callers -> Calls]
    BY <2>2, FinishType
  <2> QED BY <1>6, <2>1, <2>2 DEF Check
<1>7. ASSUME NEW c \in Callers, JoinReturns(c) PROVE TypeOK'
  <2>1. call' \in [Callers -> Calls]
    BY <1>7, GoType DEF JoinReturns
  <2>2. call[c].h \in Runs
    BY <1>7, HandleRun DEF JoinReturns, At
  <2>3. [thread[call[c].h] EXCEPT !.reap = "joined"] \in PosixThreads
    BY <2>2, ThreadUpdates
  <2>4. thread' \in [Runs -> PosixThreads]
    BY <1>7, <2>3 DEF JoinReturns
  <2> QED BY <1>7, <2>1, <2>4 DEF JoinReturns
<1>8. ASSUME NEW c \in Callers, JoinFails(c) PROVE TypeOK'
  BY <1>8, FinishType DEF JoinFails
<1>9. ASSUME NEW c \in Callers, PthreadDetach(c) PROVE TypeOK'
  <2>1. call' \in [Callers -> Calls]
    BY <1>9, FinishType, GoType DEF PthreadDetach
  <2>2. call[c].h \in Runs
    BY <1>9, HandleRun DEF PthreadDetach, At
  <2>3. [thread[call[c].h] EXCEPT !.reap = "detached"] \in PosixThreads
    BY <2>2, ThreadUpdates
  <2>4. thread' \in [Runs -> PosixThreads]
    BY <1>9, <2>3 DEF PthreadDetach
  <2> QED BY <1>9, <2>1, <2>4 DEF PthreadDetach
<1>10. ASSUME NEW c \in Callers, Signal(c) PROVE TypeOK'
  <2>1. call[c].h \in Runs
    BY <1>10, HandleRun DEF Signal, At
  <2>2. call' \in [Callers -> Calls]
    BY <1>10, GoType DEF Signal
  <2> QED BY <1>10, <2>1, <2>2 DEF Signal
<1>11. ASSUME NEW c \in Callers, SignalFails(c) PROVE TypeOK'
  BY <1>11, FinishType DEF SignalFails
<1>12. ASSUME NEW c \in Callers, Reread(c) PROVE TypeOK'
  BY <1>12, GoType DEF Reread, AfterSignal
<1>13. ASSUME NEW c \in Callers, DeadHandle(c) PROVE TypeOK'
  <2>1. ASSUME NEW r \in (call[c].h + 1) .. started, call' = [call EXCEPT ![c].h = r]
        PROVE  call' \in [Callers -> Calls]
    <3>1. call[c] \in Calls
      OBVIOUS
    <3>2. call[c].h \in 0 .. MaxRuns
      BY <3>1 DEF Calls
    <3>3. r \in 0 .. MaxRuns
      BY <3>2, ThreadAssumption
    <3>4. [call[c] EXCEPT !.h = r] \in Calls
      BY <3>1, <3>3, CallUpdates
    <3>5. call' = [call EXCEPT ![c] = [call[c] EXCEPT !.h = r]]
      BY <2>1
    <3> QED BY <3>4, <3>5
  <2>2. ASSUME UNCHANGED call \/ Finish(c) \/ Go(c, "record")
        PROVE  call' \in [Callers -> Calls]
    BY <2>2, FinishType, GoType
  <2>3. abused' \in BOOLEAN /\ crashed' \in BOOLEAN
    BY <1>13 DEF DeadHandle
  <2>4. call' \in [Callers -> Calls]
    BY <1>13, <2>1, <2>2 DEF DeadHandle
  <2> QED BY <1>13, <2>3, <2>4 DEF DeadHandle
<1>14. ASSUME NEW c \in Callers, Record(c) PROVE TypeOK'
  <2> DEFINE s == RecordedState(call[c].op, property[Own(c)])
  <2>1. s \in {"DETACHED", "TERMINATED"}
    BY DEF RecordedState
  <2>2. Own(c) \in Objects
    BY <1>14 DEF Record, At, Own, CallState, CallOK
  <2>3. [property[Own(c)] EXCEPT !.state = s] \in ThreadProperties
    <3>1. property[Own(c)] \in ThreadProperties
      BY <2>2
    <3> QED BY <2>1, <3>1, PropertyUpdates
  <2>4. property' = [property EXCEPT ![Own(c)] = [property[Own(c)] EXCEPT !.state = s]]
    BY <1>14 DEF Record
  <2>5. property' \in [Objects -> ThreadProperties]
    BY <2>3, <2>4
  <2> QED BY <1>14, <2>5, FinishType DEF Record
<1>15. ASSUME NEW c \in Callers, Rebind(c) PROVE TypeOK'
  <2>1. call[c].obj \in Objects /\ call[c].from \in Objects
    BY <1>15 DEF Rebind, At, CallState, CallOK
  <2>2. /\ prop' \in [Objects -> Objects]
        /\ \A o1, o2 \in Objects : prop'[o1] = prop'[o2] => o1 = o2
    BY <1>15, <2>1 DEF Rebind, Rebound
  <2>3. property' \in [Objects -> ThreadProperties]
    BY <1>15, InitialRecords DEF Rebind
  <2>4. \A r \in Runs : [thread[r] EXCEPT !.weak = NoObject] \in PosixThreads
    BY ThreadUpdates
  <2>5. thread' \in [Runs -> PosixThreads]
    BY <1>15, <2>4 DEF Rebind
  <2>6. call' \in [Callers -> Calls]
    BY <1>15, InitialRecords DEF Rebind
  <2> QED BY <1>15, <2>2, <2>3, <2>5, <2>6 DEF Rebind
<1>16. ASSUME NEW r \in Runs, TaskEnds(r) PROVE TypeOK'
  BY <1>16, ThreadUpdates DEF TaskEnds
<1>17. ASSUME NEW r \in Runs, EntryUpdate(r) PROVE TypeOK'
  <2>1. thread' \in [Runs -> PosixThreads]
    BY <1>17, ThreadUpdates DEF EntryUpdate
  <2>2. property' \in [Objects -> ThreadProperties]
    <3>1. ASSUME NEW q \in ThreadProperties PROVE Completed(q) \in ThreadProperties
      BY DEF Completed, ThreadProperties
    <3>2. CASE thread[r].weak = NoObject
      BY <1>17, <3>2 DEF EntryUpdate
    <3>3. CASE thread[r].weak # NoObject
      <4>1. thread[r].weak \in Objects
        BY <3>3 DEF PosixThreads
      <4>2. property' = [property EXCEPT ![thread[r].weak] = Completed(property[thread[r].weak])]
        BY <1>17, <3>3 DEF EntryUpdate
      <4> QED BY <3>1, <4>1, <4>2
    <3> QED BY <3>2, <3>3
  <2> QED BY <1>17, <2>1, <2>2 DEF EntryUpdate
<1>18. ASSUME NEW r \in Runs, Unwind(r) PROVE TypeOK'
  BY <1>18, ThreadUpdates DEF Unwind
<1>19. CASE UNCHANGED vars
  BY <1>19 DEF vars
<1> QED BY <1>1, <1>2, <1>3, <1>4, <1>5, <1>6, <1>7, <1>8, <1>9, <1>10, <1>11, <1>12,
         <1>13, <1>14, <1>15, <1>16, <1>17, <1>18, <1>19
  DEF Next, CallStep, ThreadStep

-----------------------------------------------------------------------------
(* The calls *)

(* Go and Finish, field by field. *)
LEMMA GoFields ==
  ASSUME TypeOK, NEW c \in Callers, NEW pc, Go(c, pc)
  PROVE  /\ call'[c].pc = pc /\ call'[c].op = call[c].op /\ call'[c].obj = call[c].obj
         /\ call'[c].from = call[c].from /\ call'[c].h = call[c].h
         /\ \A d \in Callers \ {c} : call'[d] = call[d]
<1>1. call \in [Callers -> Calls] /\ call[c] \in Calls
  BY DEF TypeOK
<1> QED BY <1>1 DEF Go, Calls

LEMMA FinishFields ==
  ASSUME TypeOK, NEW c \in Callers, Finish(c)
  PROVE  /\ call[c].from = NoObject => call'[c] = NoCall
         /\ call[c].from # NoObject =>
              /\ call'[c].pc = "rebind" /\ call'[c].op = call[c].op
              /\ call'[c].obj = call[c].obj
              /\ call'[c].from = call[c].from /\ call'[c].h = call[c].h
         /\ \A d \in Callers \ {c} : call'[d] = call[d]
<1>1. call \in [Callers -> Calls] /\ call[c] \in Calls
  BY DEF TypeOK
<1>2. CASE call[c].from = NoObject
  BY <1>1, <1>2 DEF Finish
<1>3. CASE call[c].from # NoObject
  BY <1>1, <1>3 DEF Finish, Calls
<1> QED BY <1>2, <1>3

LEMMA NoCallFields ==
  /\ NoCall.pc = "idle" /\ NoCall.obj = NoObject /\ NoCall.from = NoObject /\ NoCall.h = 0
BY DEF NoCall, NewCall

(* A caller whose call and property are left alone. *)
LEMMA CallFrame ==
  ASSUME Inv, NEW d \in Callers, call'[d] = call[d],
         started' \in Nat, started <= started',
         call[d].obj \in Objects =>
           /\ prop'[call[d].obj] = prop[call[d].obj]
           /\ property[Own(d)].handle # 0 => property'[Own(d)].handle # 0
  PROVE  CallOK(d)'
<1>1. call[d].h \in Nat /\ started \in Nat
  BY ThreadAssumption DEF Inv, TypeOK, Calls
<1>2. CallOK(d)
  BY DEF Inv, CallState
<1>3. call[d].obj \in Objects => Own(d)' = Own(d)
  BY DEF Own
<1> QED BY <1>1, <1>2, <1>3 DEF CallOK

(* The same for a step of c that changes no property. *)
LEMMA CallFrames ==
  ASSUME Inv, NEW c \in Callers, UNCHANGED <<prop, property, started>>,
         \A d \in Callers \ {c} : call'[d] = call[d], CallOK(c)'
  PROVE  CallState'
<1>1. started \in Nat
  BY ThreadAssumption DEF Inv, TypeOK
<1>2. ASSUME NEW d \in Callers, d # c PROVE CallOK(d)'
  BY <1>1, <1>2, CallFrame
<1> QED BY <1>2 DEF CallState

LEMMA FinishOK ==
  ASSUME Inv, NEW c \in Callers, Finish(c), call[c].pc # "idle",
         started' \in Nat, started <= started'
  PROVE  CallOK(c)'
<1>1. call[c] \in Calls /\ started \in Nat
  BY ThreadAssumption DEF Inv, TypeOK
<1>2. call[c].h \in Nat /\ call[c].from \in Objects \cup {NoObject}
  BY <1>1, ThreadAssumption DEF Calls
<1>3. CallOK(c)
  BY DEF Inv, CallState
<1>4. CASE call[c].from = NoObject
  <2>1. call'[c] = NoCall
    BY <1>4, FinishFields DEF Inv
  <2> QED BY <2>1, <1>1, NoCallFields DEF CallOK
<1>5. CASE call[c].from # NoObject
  <2>1. /\ call'[c].pc = "rebind" /\ call'[c].obj = call[c].obj
        /\ call'[c].from = call[c].from /\ call'[c].h = call[c].h
    BY <1>5, FinishFields DEF Inv
  <2> QED BY <2>1, <1>1, <1>2, <1>3, <1>5 DEF CallOK
<1> QED BY <1>4, <1>5

LEMMA GoOK ==
  ASSUME Inv, NEW c \in Callers, Go(c, "record") \/ Go(c, "reread") \/ Go(c, "join"),
         call[c].pc \in {"join", "detach", "signal", "reread"},
         UNCHANGED <<prop, property, started>>,
         call[c].h # 0
  PROVE  CallOK(c)'
<1>1. /\ call'[c].pc \in {"record", "reread", "join"} /\ call'[c].obj = call[c].obj
      /\ call'[c].from = call[c].from /\ call'[c].h = call[c].h
  BY GoFields DEF Inv
<1>2. CallOK(c)
  BY DEF Inv, CallState
<1>3. Own(c)' = Own(c)
  BY <1>1 DEF Own
<1> QED BY <1>1, <1>2, <1>3 DEF CallOK

LEMMA CallStateStep == Inv /\ [Next]_vars => CallState'
<1> SUFFICES ASSUME Inv, [Next]_vars PROVE CallState'
  OBVIOUS
<1> TypeOK /\ CallState /\ Alone /\ HandleState
  BY DEF Inv
<1> /\ prop \in [Objects -> Objects]
    /\ \A o1, o2 \in Objects : prop[o1] = prop[o2] => o1 = o2
    /\ property \in [Objects -> ThreadProperties]
    /\ started \in 0 .. MaxRuns /\ started \in Nat
    /\ thread \in [Runs -> PosixThreads] /\ call \in [Callers -> Calls]
  BY ThreadAssumption DEF TypeOK
<1>1. ASSUME NEW c \in Callers, NEW o \in Objects, NEW action \in DtorActions,
             NEW attr \in Attributes,
             Start(c, o, action, attr)
      PROVE  CallState'
  <2>1. \A d \in Callers : call[d].obj \in Objects /\ property[Own(d)].handle # 0
                             => property'[Own(d)].handle # 0
    <3>1. prop[o] \in Objects
      OBVIOUS
    <3>2. property'[prop[o]].handle = started + 1
      BY <1>1, <3>1 DEF Start, ThreadProperties
    <3>3. \A p \in Objects \ {prop[o]} : property'[p] = property[p]
      BY <1>1, <3>1 DEF Start
    <3> QED BY <3>1, <3>2, <3>3 DEF Own
  <2>2. started' \in Nat /\ started <= started'
    BY <1>1 DEF Start
  <2>3. \A d \in Callers : CallOK(d)'
    BY <1>1, <2>1, <2>2, CallFrame DEF Start
  <2> QED BY <2>3 DEF CallState
<1>2. ASSUME NEW c \in Callers, NEW o \in Objects, NEW action \in DtorActions,
             SetDtorAction(c, o, action)
      PROVE  CallState'
  <2>1. \A p \in Objects : property'[p].handle = property[p].handle
    BY <1>2 DEF SetDtorAction, ThreadProperties
  <2>2. \A d \in Callers : CallOK(d)'
    BY <1>2, <2>1, CallFrame DEF SetDtorAction, Own
  <2> QED BY <2>2 DEF CallState
<1>3. ASSUME NEW c \in Callers, NEW o \in Objects, NEW op \in Operations,
             Call(c, o, op)
      PROVE  CallState'
  <2>1. call' = [call EXCEPT ![c] = NewCall("check", op, o, NoObject)]
    BY <1>3 DEF Call
  <2>2. /\ call'[c].pc = "check" /\ call'[c].obj = o /\ call'[c].from = NoObject /\ call'[c].h = 0
        /\ \A d \in Callers \ {c} : call'[d] = call[d]
    BY <2>1 DEF NewCall
  <2>3. CallOK(c)'
    BY <1>3, <2>2 DEF Call, CallOK
  <2> QED BY <1>3, <2>2, <2>3, CallFrames DEF Call
<1>4. ASSUME NEW c \in Callers, NEW o \in Objects, NEW other \in Objects,
             Cleanup(c, o, other)
      PROVE  CallState'
  <2> DEFINE pc == IF NothingToClean(property[prop[o]]) THEN "rebind" ELSE "check"
  <2>1. call' = [call EXCEPT ![c] = NewCall(pc, OperationOf(property[prop[o]].action), o, other)]
    BY <1>4 DEF Cleanup
  <2>2. pc \in {"rebind", "check"}
    OBVIOUS
  <2> HIDE DEF pc
  <2>3. /\ call'[c].pc = pc /\ call'[c].obj = o /\ call'[c].from = other /\ call'[c].h = 0
        /\ \A d \in Callers \ {c} : call'[d] = call[d]
    BY <2>1 DEF NewCall
  <2>4. CallOK(c)'
    BY <1>4, <2>2, <2>3 DEF Cleanup, CallOK
  <2> QED BY <1>4, <2>3, <2>4, CallFrames DEF Cleanup
<1>5. ASSUME NEW c \in Callers, NEW o \in Objects, NEW other \in Objects,
             Swap(c, o, other)
      PROVE  CallState'
  <2>1. \A d \in Callers : call[d].obj \notin {o, other}
    BY <1>5 DEF Swap, Unoccupied, Users
  <2>2. \A x \in Objects \ {o, other} : prop'[x] = prop[x]
    BY <1>5 DEF Swap, Rebound
  <2>3. \A d \in Callers : CallOK(d)'
    BY <1>5, <2>1, <2>2, CallFrame DEF Swap, Own
  <2> QED BY <2>3 DEF CallState
<1>6. ASSUME NEW c \in Callers, Check(c) PROVE CallState'
  <2>1. ASSUME Permitted(call[c].op, property[Own(c)]) PROVE CallState'
    <3> DEFINE p == Own(c)
    <3>1. call[c].obj \in Objects /\ p \in Objects
      BY <1>6 DEF Check, At, Own, CallState, CallOK
    <3>2. property[p].state # "INVALID"
      BY <2>1 DEF Permitted, Running
    <3>3. property[p].handle # 0 /\ property[p].handle <= started
      BY <3>1, <3>2 DEF HandleState, HandleOK
    <3>4. call[c] \in Calls
      OBVIOUS
    <3>5. /\ call'[c].pc = FirstCall(call[c].op) /\ call'[c].obj = call[c].obj
          /\ call'[c].from = call[c].from /\ call'[c].h = property[p].handle
          /\ \A d \in Callers \ {c} : call'[d] = call[d]
      BY <1>6, <2>1, <3>4 DEF Check, Calls
    <3>6. FirstCall(call[c].op) \in {"join", "detach", "signal"}
      BY DEF FirstCall
    <3>7. prop' = prop /\ property' = property /\ started' = started
      BY <1>6 DEF Check
    <3>8. Own(c)' = p
      BY <3>5, <3>7 DEF Own
    <3>9. CallOK(c)'
      BY <3>1, <3>3, <3>5, <3>6, <3>7, <3>8 DEF CallOK
    <3> QED BY <3>5, <3>7, <3>9, CallFrames
  <2>2. ASSUME Finish(c) PROVE CallState'
    <3>1. CallOK(c)'
      BY <1>6, <2>2, FinishOK DEF Check, At
    <3> QED BY <1>6, <2>2, <3>1, CallFrames, FinishFields DEF Check
  <2> QED BY <1>6, <2>1, <2>2 DEF Check
<1>7. ASSUME NEW c \in Callers, JoinReturns(c) PROVE CallState'
  <2>1. CallOK(c)'
    BY <1>7, GoOK, HandleRun DEF JoinReturns, At
  <2> QED BY <1>7, <2>1, CallFrames, GoFields DEF JoinReturns
<1>8. ASSUME NEW c \in Callers, JoinFails(c) PROVE CallState'
  <2>1. CallOK(c)'
    BY <1>8, FinishOK DEF JoinFails, At
  <2> QED BY <1>8, <2>1, CallFrames, FinishFields DEF JoinFails
<1>9. ASSUME NEW c \in Callers, PthreadDetach(c) PROVE CallState'
  <2>1. ASSUME Finish(c) PROVE CallState'
    <3>1. CallOK(c)'
      BY <1>9, <2>1, FinishOK DEF PthreadDetach, At
    <3> QED BY <1>9, <2>1, <3>1, CallFrames, FinishFields DEF PthreadDetach
  <2>2. ASSUME Go(c, "record") PROVE CallState'
    <3>1. CallOK(c)'
      BY <1>9, <2>2, GoOK, HandleRun DEF PthreadDetach, At
    <3> QED BY <1>9, <2>2, <3>1, CallFrames, GoFields DEF PthreadDetach
  <2> QED BY <1>9, <2>1, <2>2 DEF PthreadDetach
<1>10. ASSUME NEW c \in Callers, Signal(c) PROVE CallState'
  <2>1. CallOK(c)'
    BY <1>10, GoOK, HandleRun DEF Signal, At
  <2> QED BY <1>10, <2>1, CallFrames, GoFields DEF Signal
<1>11. ASSUME NEW c \in Callers, SignalFails(c) PROVE CallState'
  <2>1. CallOK(c)'
    BY <1>11, FinishOK DEF SignalFails, At
  <2> QED BY <1>11, <2>1, CallFrames, FinishFields DEF SignalFails
<1>12. ASSUME NEW c \in Callers, Reread(c) PROVE CallState'
  <2>1. Go(c, "join") \/ Go(c, "record")
    BY <1>12 DEF Reread, AfterSignal
  <2>2. call[c].h # 0
    BY <1>12 DEF Reread, At, CallState, CallOK
  <2>3. CallOK(c)'
    BY <1>12, <2>1, <2>2, GoOK DEF Reread, At
  <2> QED BY <1>12, <2>1, <2>3, CallFrames, GoFields DEF Reread
<1>13. ASSUME NEW c \in Callers, DeadHandle(c) PROVE CallState'
  <2>1. prop' = prop /\ property' = property /\ started' = started /\ call[c] \in Calls
    BY <1>13 DEF DeadHandle
  <2>2. ASSUME NEW r \in (call[c].h + 1) .. started, call' = [call EXCEPT ![c].h = r]
        PROVE  CallState'
    <3>1. /\ call'[c].pc = call[c].pc /\ call'[c].obj = call[c].obj
          /\ call'[c].from = call[c].from /\ call'[c].h = r
          /\ \A d \in Callers \ {c} : call'[d] = call[d]
      BY <2>1, <2>2 DEF Calls
    <3>2. call[c].h \in Nat
      BY <2>1, ThreadAssumption DEF Calls
    <3>3. r # 0 /\ r <= started
      BY <2>2, <3>2
    <3>4. CallOK(c)
      BY DEF CallState
    <3>5. Own(c)' = Own(c)
      BY <2>1, <3>1 DEF Own
    <3>6. CallOK(c)'
      BY <2>1, <3>1, <3>3, <3>4, <3>5 DEF CallOK
    <3> QED BY <2>1, <3>1, <3>6, CallFrames
  <2>3. ASSUME Finish(c) PROVE CallState'
    <3>1. CallOK(c)'
      BY <1>13, <2>1, <2>3, FinishOK DEF DeadHandle
    <3> QED BY <2>1, <2>3, <3>1, CallFrames, FinishFields
  <2>4. ASSUME Go(c, "record") PROVE CallState'
    <3>1. CallOK(c)'
      BY <1>13, <2>1, <2>4, GoOK, HandleRun DEF DeadHandle
    <3> QED BY <2>1, <2>4, <3>1, CallFrames, GoFields
  <2>5. ASSUME UNCHANGED call PROVE CallState'
    BY <2>1, <2>5 DEF CallState, CallOK, Own
  <2> QED BY <1>13, <2>2, <2>3, <2>4, <2>5 DEF DeadHandle
<1>14. ASSUME NEW c \in Callers, Record(c) PROVE CallState'
  <2>1. \A p \in Objects : property'[p].handle = property[p].handle
    BY <1>14 DEF Record, ThreadProperties
  <2>2. CallOK(c)'
    BY <1>14, FinishOK DEF Record, At
  <2>3. \A d \in Callers \ {c} : CallOK(d)'
    BY <1>14, <2>1, CallFrame, FinishFields DEF Record, Own
  <2> QED BY <2>2, <2>3 DEF CallState
<1>15. ASSUME NEW c \in Callers, Rebind(c) PROVE CallState'
  <2> DEFINE o == call[c].obj
             from == call[c].from
  <2>1. o \in Objects /\ from \in Objects /\ from # NoObject
    BY <1>15, ThreadAssumption DEF Rebind, At, CallState, CallOK
  <2>2. \A d \in Callers \ {c} : call[d].obj \notin {o, from}
    BY <2>1 DEF Alone
  <2>3. \A x \in Objects \ {o, from} : prop'[x] = prop[x] /\ prop[x] # prop[o]
    BY <1>15, <2>1 DEF Rebind, Rebound
  <2>4. \A p \in Objects \ {prop[o]} : property'[p] = property[p]
    BY <1>15, <2>1 DEF Rebind
  <2>5. call'[c] = NoCall /\ \A d \in Callers \ {c} : call'[d] = call[d]
    BY <1>15 DEF Rebind
  <2>6. started' = started
    BY <1>15 DEF Rebind
  <2>7. CallOK(c)'
    BY <2>5, <2>6, NoCallFields DEF CallOK
  <2>8. ASSUME NEW d \in Callers, d # c, call[d].obj \in Objects
        PROVE  /\ prop'[call[d].obj] = prop[call[d].obj]
               /\ property[Own(d)].handle # 0 => property'[Own(d)].handle # 0
    BY <2>2, <2>3, <2>4, <2>8 DEF Own
  <2>9. ASSUME NEW d \in Callers, d # c PROVE CallOK(d)'
    BY <2>5, <2>6, <2>8, <2>9, CallFrame
  <2> QED BY <2>7, <2>9 DEF CallState
<1>16. ASSUME NEW r \in Runs, TaskEnds(r) PROVE CallState'
  <2>1. \A d \in Callers : CallOK(d)'
    BY <1>16, CallFrame DEF TaskEnds, Own
  <2> QED BY <2>1 DEF CallState
<1>17. ASSUME NEW r \in Runs, EntryUpdate(r) PROVE CallState'
  <2>1. \A p \in Objects : property'[p].handle = property[p].handle
    <3>1. \A p \in Objects : property[p] \in ThreadProperties
      OBVIOUS
    <3>2. CASE thread[r].weak = NoObject
      BY <1>17, <3>2 DEF EntryUpdate
    <3>3. CASE thread[r].weak # NoObject
      <4>1. thread[r].weak \in Objects
        BY <3>3 DEF PosixThreads
      <4>2. property' = [property EXCEPT ![thread[r].weak] = Completed(property[thread[r].weak])]
        BY <1>17, <3>3 DEF EntryUpdate
      <4>3. Completed(property[thread[r].weak]).handle = property[thread[r].weak].handle
        BY <3>1, <4>1 DEF Completed, ThreadProperties
      <4> QED BY <4>1, <4>2, <4>3
    <3> QED BY <3>2, <3>3
  <2>2. \A d \in Callers : CallOK(d)'
    BY <1>17, <2>1, CallFrame DEF EntryUpdate, Own
  <2> QED BY <2>2 DEF CallState
<1>18. ASSUME NEW r \in Runs, Unwind(r) PROVE CallState'
  <2>1. \A d \in Callers : CallOK(d)'
    BY <1>18, CallFrame DEF Unwind, Own
  <2> QED BY <2>1 DEF CallState
<1>19. CASE UNCHANGED vars
  BY <1>19 DEF vars, CallState, CallOK, Own
<1> QED BY <1>1, <1>2, <1>3, <1>4, <1>5, <1>6, <1>7, <1>8, <1>9, <1>10, <1>11, <1>12,
         <1>13, <1>14, <1>15, <1>16, <1>17, <1>18, <1>19
  DEF Next, CallStep, ThreadStep

(* A step by which c keeps its objects, or gives them up. *)
LEMMA AloneFrame ==
  ASSUME Inv, NEW c \in Callers, \A d \in Callers \ {c} : call'[d] = call[d],
         \/ call'[c].obj = call[c].obj /\ call'[c].from = call[c].from
         \/ call'[c].obj = NoObject /\ call'[c].from = NoObject
  PROVE  Alone'
<1>1. \A d \in Callers : call[d].obj \in Objects \cup {NoObject}
                         /\ call[d].from \in Objects \cup {NoObject}
  BY DEF Inv, TypeOK, Calls
<1>2. \A d \in Callers : call[d].obj = NoObject => call[d].from = NoObject
  BY ThreadAssumption DEF Inv, CallState, CallOK
<1>3. Alone
  BY DEF Inv
<1> QED BY <1>1, <1>2, <1>3 DEF Alone

LEMMA FinishAlone ==
  ASSUME Inv, NEW c \in Callers, Finish(c)
  PROVE  Alone'
<1>1. CASE call[c].from = NoObject
  <2>1. call'[c] = NoCall /\ \A d \in Callers \ {c} : call'[d] = call[d]
    BY <1>1, FinishFields DEF Inv
  <2> QED BY <2>1, NoCallFields, AloneFrame
<1>2. CASE call[c].from # NoObject
  <2>1. call'[c].obj = call[c].obj /\ call'[c].from = call[c].from
        /\ \A d \in Callers \ {c} : call'[d] = call[d]
    BY <1>2, FinishFields DEF Inv
  <2> QED BY <2>1, AloneFrame
<1> QED BY <1>1, <1>2

LEMMA GoAlone ==
  ASSUME Inv, NEW c \in Callers, NEW pc, Go(c, pc)
  PROVE  Alone'
BY GoFields, AloneFrame DEF Inv

LEMMA AloneStep == Inv /\ [Next]_vars => Alone'
<1> SUFFICES ASSUME Inv, [Next]_vars PROVE Alone'
  OBVIOUS
<1> TypeOK /\ CallState /\ Alone /\ HandleState
  BY DEF Inv
<1> /\ prop \in [Objects -> Objects]
    /\ \A o1, o2 \in Objects : prop[o1] = prop[o2] => o1 = o2
    /\ property \in [Objects -> ThreadProperties]
    /\ started \in 0 .. MaxRuns /\ started \in Nat
    /\ thread \in [Runs -> PosixThreads] /\ call \in [Callers -> Calls]
  BY ThreadAssumption DEF TypeOK
<1>1. ASSUME NEW c \in Callers, NEW o \in Objects, NEW action \in DtorActions,
             NEW attr \in Attributes,
             Start(c, o, action, attr)
      PROVE  Alone'
  BY <1>1 DEF Start, Alone
<1>2. ASSUME NEW c \in Callers, NEW o \in Objects, NEW action \in DtorActions,
             SetDtorAction(c, o, action)
      PROVE  Alone'
  BY <1>2 DEF SetDtorAction, Alone
<1>3. ASSUME NEW c \in Callers, NEW o \in Objects, NEW op \in Operations,
             Call(c, o, op)
      PROVE  Alone'
  <2>1. call' = [call EXCEPT ![c] = NewCall("check", op, o, NoObject)]
    BY <1>3 DEF Call
  <2>2. /\ call'[c].obj = o /\ call'[c].from = NoObject
        /\ \A d \in Callers \ {c} : call'[d] = call[d]
    BY <2>1 DEF NewCall
  <2>3. \A d \in Callers : o \in {call[d].obj, call[d].from} => call[d].from = NoObject
    BY <1>3 DEF Call, MayUse, Users
  <2>4. \A d \in Callers : call[d].from # NoObject => call[d].obj # NoObject
    BY ThreadAssumption DEF CallState, CallOK
  <2> QED BY <2>2, <2>3, <2>4 DEF Alone
<1>4. ASSUME NEW c \in Callers, NEW o \in Objects, NEW other \in Objects,
             Cleanup(c, o, other)
      PROVE  Alone'
  <2> DEFINE pc == IF NothingToClean(property[prop[o]]) THEN "rebind" ELSE "check"
  <2>1. call' = [call EXCEPT ![c] = NewCall(pc, OperationOf(property[prop[o]].action), o, other)]
    BY <1>4 DEF Cleanup
  <2> HIDE DEF pc
  <2>2. /\ call'[c].obj = o /\ call'[c].from = other
        /\ \A d \in Callers \ {c} : call'[d] = call[d]
    BY <2>1 DEF NewCall
  <2>3. \A d \in Callers : {o, other} \cap {call[d].obj, call[d].from} = {}
    BY <1>4 DEF Cleanup, Unoccupied, Users
  <2> QED BY <2>2, <2>3 DEF Alone
<1>5. ASSUME NEW c \in Callers, NEW o \in Objects, NEW other \in Objects,
             Swap(c, o, other)
      PROVE  Alone'
  BY <1>5 DEF Swap, Alone
<1>6. ASSUME NEW c \in Callers, Check(c) PROVE Alone'
  <2>1. ASSUME Permitted(call[c].op, property[Own(c)]) PROVE Alone'
    <3>1. call[c] \in Calls
      OBVIOUS
    <3>2. /\ call'[c].obj = call[c].obj /\ call'[c].from = call[c].from
          /\ \A d \in Callers \ {c} : call'[d] = call[d]
      BY <1>6, <2>1, <3>1 DEF Check, Calls
    <3> QED BY <3>2, AloneFrame
  <2> QED BY <1>6, <2>1, FinishAlone DEF Check
<1>7. ASSUME NEW c \in Callers, JoinReturns(c) PROVE Alone'
  BY <1>7, GoAlone DEF JoinReturns
<1>8. ASSUME NEW c \in Callers, JoinFails(c) PROVE Alone'
  BY <1>8, FinishAlone DEF JoinFails
<1>9. ASSUME NEW c \in Callers, PthreadDetach(c) PROVE Alone'
  BY <1>9, GoAlone, FinishAlone DEF PthreadDetach
<1>10. ASSUME NEW c \in Callers, Signal(c) PROVE Alone'
  BY <1>10, GoAlone DEF Signal
<1>11. ASSUME NEW c \in Callers, SignalFails(c) PROVE Alone'
  BY <1>11, FinishAlone DEF SignalFails
<1>12. ASSUME NEW c \in Callers, Reread(c) PROVE Alone'
  BY <1>12, GoAlone DEF Reread
<1>13. ASSUME NEW c \in Callers, DeadHandle(c) PROVE Alone'
  <2>1. ASSUME NEW r \in (call[c].h + 1) .. started, call' = [call EXCEPT ![c].h = r]
        PROVE  Alone'
    <3>1. call[c] \in Calls
      OBVIOUS
    <3>2. /\ call'[c].obj = call[c].obj /\ call'[c].from = call[c].from
          /\ \A d \in Callers \ {c} : call'[d] = call[d]
      BY <2>1, <3>1 DEF Calls
    <3> QED BY <3>2, AloneFrame
  <2>2. ASSUME UNCHANGED call PROVE Alone'
    BY <2>2 DEF Alone
  <2> QED BY <1>13, <2>1, <2>2, GoAlone, FinishAlone DEF DeadHandle
<1>14. ASSUME NEW c \in Callers, Record(c) PROVE Alone'
  BY <1>14, FinishAlone DEF Record
<1>15. ASSUME NEW c \in Callers, Rebind(c) PROVE Alone'
  <2>1. call'[c] = NoCall /\ \A d \in Callers \ {c} : call'[d] = call[d]
    BY <1>15 DEF Rebind
  <2> QED BY <2>1, NoCallFields, AloneFrame
<1>16. ASSUME NEW r \in Runs, TaskEnds(r) PROVE Alone'
  BY <1>16 DEF TaskEnds, Alone
<1>17. ASSUME NEW r \in Runs, EntryUpdate(r) PROVE Alone'
  BY <1>17 DEF EntryUpdate, Alone
<1>18. ASSUME NEW r \in Runs, Unwind(r) PROVE Alone'
  BY <1>18 DEF Unwind, Alone
<1>19. CASE UNCHANGED vars
  BY <1>19 DEF vars, Alone
<1> QED BY <1>1, <1>2, <1>3, <1>4, <1>5, <1>6, <1>7, <1>8, <1>9, <1>10, <1>11, <1>12,
         <1>13, <1>14, <1>15, <1>16, <1>17, <1>18, <1>19
  DEF Next, CallStep, ThreadStep

-----------------------------------------------------------------------------
(* The properties and their threads *)

(* A property that is left alone, and whose thread is left alone. *)
LEMMA HandleFrame ==
  ASSUME Inv, NEW p \in Objects, property'[p] = property[p],
         started' \in Nat, started <= started', unwound \subseteq unwound',
         property[p].handle # 0 =>
           LET r == property[p].handle IN
             /\ thread'[r].weak = thread[r].weak
             /\ Alive(r) /\ ~property[p].complete => Alive(r)' \/ r \in unwound'
  PROVE  HandleOK(p)'
<1>1. property[p].handle \in Nat /\ started \in Nat
  BY ThreadAssumption DEF Inv, TypeOK, ThreadProperties
<1>2. HandleOK(p)
  BY DEF Inv, HandleState
<1> QED BY <1>1, <1>2 DEF HandleOK, Alive

(* A step that leaves the properties and the threads alone. *)
LEMMA HandleSame ==
  ASSUME Inv, UNCHANGED <<property, thread, started, unwound>>
  PROVE  HandleState'
<1>1. started' \in Nat /\ started <= started'
  BY ThreadAssumption DEF Inv, TypeOK
<1> QED BY <1>1, HandleFrame DEF HandleState, Alive

LEMMA HandleRuns ==
  ASSUME Inv, NEW p \in Objects, property[p].handle # 0
  PROVE  property[p].handle \in Runs /\ property[p].handle <= started
<1>1. property[p].handle \in 0 .. MaxRuns
  BY DEF Inv, TypeOK, ThreadProperties
<1> QED BY <1>1, ThreadAssumption DEF Inv, HandleState, HandleOK, Runs

LEMMA HandleStateStep == Inv /\ [Next]_vars => HandleState'
<1> SUFFICES ASSUME Inv, [Next]_vars PROVE HandleState'
  OBVIOUS
<1> TypeOK /\ CallState /\ Alone /\ HandleState
  BY DEF Inv
<1> /\ prop \in [Objects -> Objects]
    /\ \A o1, o2 \in Objects : prop[o1] = prop[o2] => o1 = o2
    /\ property \in [Objects -> ThreadProperties]
    /\ started \in 0 .. MaxRuns /\ started \in Nat
    /\ thread \in [Runs -> PosixThreads] /\ call \in [Callers -> Calls]
  BY ThreadAssumption DEF TypeOK
<1>1. ASSUME NEW c \in Callers, NEW o \in Objects, NEW action \in DtorActions,
             NEW attr \in Attributes,
             Start(c, o, action, attr)
      PROVE  HandleState'
  <2>0. prop[o] \in Objects /\ started + 1 \in Runs
    BY <1>1, ThreadAssumption DEF Start, Runs
  <2>1. PICK p \in Objects, r \in Runs : p = prop[o] /\ r = started + 1
    BY <2>0
  <2>2. property[p] \in ThreadProperties
    OBVIOUS
  <2>3. /\ property'[p].state = "JOINABLE" /\ property'[p].handle = r
        /\ \A x \in Objects \ {p} : property'[x] = property[x]
    BY <1>1, <2>1, <2>2 DEF Start, ThreadProperties
  <2>4. /\ thread'[r].pc = "running" /\ thread'[r].weak = p
        /\ \A x \in Runs \ {r} : thread'[x] = thread[x]
    BY <1>1, <2>1 DEF Start
  <2>5. started' = r /\ started = r - 1 /\ r \in Nat /\ unwound' = unwound
    BY <1>1, <2>1 DEF Start, Runs
  <2>6. HandleOK(p)'
    BY <2>2, <2>3, <2>4, <2>5 DEF HandleOK, Alive, Runs, ThreadProperties
  <2>7. ASSUME NEW x \in Objects \ {p} PROVE HandleOK(x)'
    <3>1. property[x].handle # 0 => property[x].handle \in Runs \ {r}
      BY <2>5, HandleRuns
    <3>2. property'[x] = property[x] /\ started <= started' /\ started' \in Nat
      BY <2>3, <2>5
    <3> QED BY <2>4, <2>5, <3>1, <3>2, HandleFrame DEF Alive
  <2> QED BY <2>6, <2>7 DEF HandleState
<1>2. ASSUME NEW c \in Callers, NEW o \in Objects, NEW action \in DtorActions,
             SetDtorAction(c, o, action)
      PROVE  HandleState'
  <2>1. prop[o] \in Objects /\ property[prop[o]] \in ThreadProperties
    OBVIOUS
  <2>2. \A x \in Objects : /\ property'[x].handle = property[x].handle
                           /\ property'[x].state = property[x].state
                           /\ property'[x].complete = property[x].complete
    BY <1>2, <2>1 DEF SetDtorAction, ThreadProperties
  <2> QED BY <1>2, <2>2 DEF SetDtorAction, HandleState, HandleOK, Alive
<1>3. ASSUME NEW c \in Callers, NEW o \in Objects, NEW op \in Operations,
             Call(c, o, op)
      PROVE  HandleState'
  BY <1>3, HandleSame DEF Call
<1>4. ASSUME NEW c \in Callers, NEW o \in Objects, NEW other \in Objects,
             Cleanup(c, o, other)
      PROVE  HandleState'
  BY <1>4, HandleSame DEF Cleanup
<1>5. ASSUME NEW c \in Callers, NEW o \in Objects, NEW other \in Objects,
             Swap(c, o, other)
      PROVE  HandleState'
  BY <1>5, HandleSame DEF Swap
<1>6. ASSUME NEW c \in Callers, Check(c) PROVE HandleState'
  BY <1>6, HandleSame DEF Check
<1>7. ASSUME NEW c \in Callers, JoinReturns(c) PROVE HandleState'
  <2>1. call[c].h \in Runs
    BY <1>7, HandleRun DEF JoinReturns, At
  <2>2. \A r \in Runs : thread'[r].weak = thread[r].weak /\ thread'[r].pc = thread[r].pc
    <3>1. thread' = [thread EXCEPT ![call[c].h].reap = "joined"]
      BY <1>7 DEF JoinReturns
    <3> QED BY <2>1, <3>1 DEF PosixThreads
  <2>3. \A p \in Objects : HandleOK(p)'
    BY <1>7, <2>2, HandleRuns, HandleFrame DEF JoinReturns, Alive
  <2> QED BY <2>3 DEF HandleState
<1>8. ASSUME NEW c \in Callers, JoinFails(c) PROVE HandleState'
  BY <1>8, HandleSame DEF JoinFails
<1>9. ASSUME NEW c \in Callers, PthreadDetach(c) PROVE HandleState'
  <2>1. call[c].h \in Runs
    BY <1>9, HandleRun DEF PthreadDetach, At
  <2>2. \A r \in Runs : thread'[r].weak = thread[r].weak /\ thread'[r].pc = thread[r].pc
    <3>1. thread' = [thread EXCEPT ![call[c].h].reap = "detached"]
      BY <1>9 DEF PthreadDetach
    <3> QED BY <2>1, <3>1 DEF PosixThreads
  <2>3. \A p \in Objects : HandleOK(p)'
    BY <1>9, <2>2, HandleRuns, HandleFrame DEF PthreadDetach, Alive
  <2> QED BY <2>3 DEF HandleState
<1>10. ASSUME NEW c \in Callers, Signal(c) PROVE HandleState'
  BY <1>10, HandleSame DEF Signal
<1>11. ASSUME NEW c \in Callers, SignalFails(c) PROVE HandleState'
  BY <1>11, HandleSame DEF SignalFails
<1>12. ASSUME NEW c \in Callers, Reread(c) PROVE HandleState'
  BY <1>12, HandleSame DEF Reread
<1>13. ASSUME NEW c \in Callers, DeadHandle(c) PROVE HandleState'
  BY <1>13, HandleSame DEF DeadHandle
<1>14. ASSUME NEW c \in Callers, Record(c) PROVE HandleState'
  <2>0. Own(c) \in Objects /\ property[Own(c)].handle # 0
    BY <1>14 DEF Record, At, Own, CallState, CallOK
  <2>1. PICK p \in Objects : p = Own(c) /\ property[p].handle # 0
    BY <2>0
  <2>2. property[p] \in ThreadProperties
    OBVIOUS
  <2> DEFINE s == RecordedState(call[c].op, property[p])
  <2>3. s # "INVALID" /\ (s = "DETACHED" => ~property[p].complete)
    BY DEF RecordedState
  <2>4. property' = [property EXCEPT ![p].state = s]
    BY <1>14, <2>1 DEF Record
  <2> HIDE DEF s
  <2>5. /\ property'[p].state = s /\ property'[p].handle = property[p].handle
        /\ property'[p].complete = property[p].complete
        /\ \A x \in Objects \ {p} : property'[x] = property[x]
    BY <2>1, <2>2, <2>4 DEF ThreadProperties
  <2>6. started' = started /\ thread' = thread /\ unwound' = unwound
    BY <1>14 DEF Record
  <2>7. HandleOK(p)'
    BY <2>1, <2>3, <2>5, <2>6 DEF HandleState, HandleOK, Alive
  <2>8. ASSUME NEW x \in Objects \ {p} PROVE HandleOK(x)'
    BY <2>5, <2>6, HandleFrame DEF Alive
  <2> QED BY <2>7, <2>8 DEF HandleState
<1>15. ASSUME NEW c \in Callers, Rebind(c) PROVE HandleState'
  <2>0. prop[call[c].obj] \in Objects
    BY <1>15 DEF Rebind, At, CallState, CallOK
  <2>1. PICK p \in Objects : p = prop[call[c].obj]
    BY <2>0
  <2>2. property'[p] = FreshProperty /\ \A x \in Objects \ {p} : property'[x] = property[x]
    BY <1>15, <2>1 DEF Rebind
  <2>3. \A r \in Runs : /\ thread'[r].pc = thread[r].pc
                        /\ thread[r].weak # p => thread'[r].weak = thread[r].weak
    BY <1>15, <2>1 DEF Rebind, PosixThreads
  <2>4. started' = started /\ unwound' = unwound
    BY <1>15 DEF Rebind
  <2>5. HandleOK(p)'
    BY <2>2, <2>4, ThreadAssumption DEF HandleOK, FreshProperty
  <2>6. ASSUME NEW x \in Objects \ {p} PROVE HandleOK(x)'
    <3>1. property[x].handle # 0 => property[x].handle \in Runs
      BY HandleRuns
    <3>2. property[x].handle # 0 => thread[property[x].handle].weak = x
      BY DEF HandleState, HandleOK
    <3>3. property'[x] = property[x]
      BY <2>2
    <3> QED BY <2>3, <2>4, <3>1, <3>2, <3>3, HandleFrame DEF Alive
  <2> QED BY <2>5, <2>6 DEF HandleState
<1>16. ASSUME NEW r \in Runs, TaskEnds(r) PROVE HandleState'
  <2>1. /\ thread'[r].pc = "update" /\ thread'[r].weak = thread[r].weak
        /\ \A x \in Runs \ {r} : thread'[x] = thread[x]
    BY <1>16 DEF TaskEnds, PosixThreads
  <2>2. property' = property /\ started' = started /\ unwound' = unwound
    BY <1>16 DEF TaskEnds
  <2>3. ASSUME NEW p \in Objects PROVE HandleOK(p)'
    BY <2>1, <2>2, HandleRuns, HandleFrame DEF Alive
  <2> QED BY <2>3 DEF HandleState
<1>17. ASSUME NEW r \in Runs, EntryUpdate(r) PROVE HandleState'
  <2>3. thread[r].weak \in Objects \cup {NoObject}
    BY DEF PosixThreads
  <2>0. PICK p \in Objects \cup {NoObject} : p = thread[r].weak
    BY <2>3
  <2>1. /\ thread'[r].pc = "ended" /\ thread'[r].weak = p
        /\ \A x \in Runs \ {r} : thread'[x] = thread[x]
    BY <1>17, <2>0 DEF EntryUpdate, PosixThreads
  <2>2. started' = started /\ unwound' = unwound
    BY <1>17 DEF EntryUpdate
  <2>4. \A x \in Objects \ {p} : property'[x] = property[x]
    <3>1. CASE p = NoObject
      BY <1>17, <2>0, <3>1 DEF EntryUpdate
    <3>2. CASE p # NoObject
      BY <1>17, <2>0, <3>2 DEF EntryUpdate
    <3> QED BY <3>1, <3>2
  <2>5. ASSUME NEW x \in Objects \ {p} PROVE HandleOK(x)'
    <3>1. property[x].handle # 0 => thread[property[x].handle].weak = x
      BY DEF HandleState, HandleOK
    <3>2. property[x].handle # 0 => property[x].handle \in Runs \ {r}
      BY <2>0, <3>1, HandleRuns
    <3>3. property'[x] = property[x]
      BY <2>4
    <3> QED BY <2>1, <2>2, <3>1, <3>2, <3>3, HandleFrame DEF Alive
  <2>6. ASSUME p \in Objects PROVE HandleOK(p)'
    <3>1. property[p] \in ThreadProperties /\ p # NoObject
      BY <2>6, ThreadAssumption
    <3>2. property' = [property EXCEPT ![p] = Completed(property[p])]
      BY <1>17, <2>0, <3>1 DEF EntryUpdate
    <3>3. property'[p] = Completed(property[p])
      BY <2>6, <3>2
    <3>4. /\ property'[p].complete = TRUE /\ property'[p].handle = property[p].handle
          /\ property'[p].state = IF property[p].state = "DETACHED" THEN "TERMINATED"
                                    ELSE property[p].state
      BY <3>1, <3>3 DEF Completed, ThreadProperties
    <3>5. HandleOK(p)
      BY <2>6 DEF HandleState
    <3>6. property[p].handle # 0 => thread'[property[p].handle].weak = p
      BY <2>1, <2>6, <3>5, HandleRuns DEF HandleOK
    <3> QED BY <2>2, <3>4, <3>5, <3>6 DEF HandleOK
  <2> QED BY <2>5, <2>6 DEF HandleState
<1>18. ASSUME NEW r \in Runs, Unwind(r) PROVE HandleState'
  <2>1. /\ thread'[r].weak = thread[r].weak
        /\ \A x \in Runs \ {r} : thread'[x] = thread[x]
    BY <1>18 DEF Unwind, PosixThreads
  <2>2. property' = property /\ started' = started /\ unwound' = unwound \cup {r}
    BY <1>18 DEF Unwind
  <2>3. ASSUME NEW p \in Objects PROVE HandleOK(p)'
    BY <2>1, <2>2, HandleRuns, HandleFrame DEF Alive
  <2> QED BY <2>3 DEF HandleState
<1>19. CASE UNCHANGED vars
  BY <1>19 DEF vars, HandleState, HandleOK, Alive
<1> QED BY <1>1, <1>2, <1>3, <1>4, <1>5, <1>6, <1>7, <1>8, <1>9, <1>10, <1>11, <1>12,
         <1>13, <1>14, <1>15, <1>16, <1>17, <1>18, <1>19
  DEF Next, CallStep, ThreadStep

-----------------------------------------------------------------------------
(* The inductive invariant.  TypeOK alone is not inductive, for           *)
(* the handle that a call hands to pthread_join must be that of a thread.  *)
THEOREM InvHolds == Spec => []Inv
<1>1. Inv /\ [Next]_vars => Inv'
  BY TypeStep, CallStateStep, AloneStep, HandleStateStep DEF Inv
<1> QED BY InvInit, <1>1, PTL DEF Spec

(* Every variable of the Thread objects keeps its type, and no two objects *)
(* come to hold the same ThreadProperty, through moves and swaps.          *)
THEOREM TypeCorrect == Spec => []TypeOK
<1>1. Inv => TypeOK
  BY DEF Inv
<1> QED BY InvHolds, <1>1, PTL

(* For any number of objects, of callers who may share them, and of        *)
(* restarts: an object stays DETACHED only as long as its thread can still *)
(* report its end, or after the thread was unwound.                        *)
THEOREM DetachedCanReport == Spec => []DetachedIsAlive
<1>1. Inv => DetachedIsAlive
  BY DEF Inv, HandleState, HandleOK, DetachedIsAlive
<1> QED BY InvHolds, <1>1, PTL

=============================================================================
