-------------------------- MODULE SectionWakeupProofs --------------------------
(***************************************************************************)
(* Waiting for the software critical section, for every number of tasks,   *)
(* every m_spinLock and every use of the API around it: no wake-up is lost *)
(* and enter never reaches its critical error.                             *)
(*                                                                         *)
(* The argument needs all of the kernel's invariant, which the section's   *)
(* calls keep; that a task in enter waits for the section's event and for  *)
(* nothing else, and nobody else does; and what result such a wait leaves. *)
(***************************************************************************)
EXTENDS CriticalSectionProofs

\* A wait that ended by its timeout leaves TimeoutOccurred behind, and a task
\* that is suspended in a wait and resumed finds what was left: enter takes an
\* old timeout for a failure.  It cannot when no task is suspended or no wait
\* has a timeout.
NoStaleResult == "suspend" \notin Ops \/ \A c \in Conditions : c.forever

SectionWait == [objs |-> <<sectionEvent>>, all |-> FALSE, forever |-> TRUE, interval |-> 0]

InSlot(t) == \E i \in Slot : wait[i].task = t
Holds(c) ==
  c.objs # <<>> /\ \A k \in DOMAIN c.objs : c.objs[k] \in Events => c.objs[k] \in held

\* A task that waits in enter has called the kernel and not blocked yet, or
\* it has blocked, and its slot, while it has one, is for the section's event.
Blocking(t) ==
  /\ exec = t /\ svc = "none" /\ call.op = "wait" /\ call.cond = SectionWait
  /\ ~ InSlot(t)
Blocked(t) ==
  /\ pc[t] = "waited"
  /\ \A i \in Slot : wait[i].task = t => wait[i].kind = "WaitForObj" /\ wait[i].cond = SectionWait
WaitersSound == \A t \in Task : at[t] = "wait" => Blocking(t) \/ Blocked(t)

\* Every other wait is for events that user code holds.
OthersSound ==
  /\ call.op = "wait" /\ svc = "none" /\ at[exec] # "wait" => Holds(call.cond)
  /\ \A i \in Slot :
       wait[i].task # NoTask /\ wait[i].kind = "WaitForObj" /\ at[wait[i].task] # "wait"
         => Holds(wait[i].cond)

\* Who has called the kernel, and whom it may terminate.
CallersSound ==
  svc = "none" =>
    /\ call.op \in {"sleep", "wait"} => exec \in Task /\ pc[exec] = "user"
    /\ call.op = "result" => exec \in Task /\ pc[exec] = "waited"
    /\ call.op = "terminate" => at[call.id] = "out"

\* Only live tasks other than idle use the section.
UsersAlive == \A t \in Task : at[t] # "out" => t \in alloc \ {Idle}

EnterSound == WaitersSound /\ OthersSound /\ CallersSound /\ UsersAlive

\* The wait of enter is over, and the task will test again.
Returning(t) == at[t] = "wait" /\ pc[t] = "waited" /\ ~ InSlot(t)

\* What the wait of enter leaves behind.
ReturnsSound == \A t \in Task : Returning(t) => result[t] = "ObjectSet"

\* A task on its way to a test, and one that has failed the test and will not
\* test again before it has been woken.
Tests(t) == Returning(t) /\ result[t] = "ObjectSet"
Heading(t) == at[t] = "test" \/ Tests(t)
Missed(t) == at[t] = "spun" \/ (at[t] = "wait" /\ ~ Tests(t))

\* When the section is free and a task has missed that, the event is set or
\* another task is on its way to a test.
WakeupInv ==
  lockCount = 0 /\ (\E t \in Task : Missed(t)) =>
    event[sectionEvent] \/ \E t \in Task : Heading(t)

-------------------------------------------------------------------------------
(* The kernel's invariant holds around the section. *)

\* A call of the section, or its wait, takes the lock.
LEMMA EnterKeepsKernel ==
  ASSUME IInv, InUserCode, NEW c \in CallType, Enter(c),
         c.op \in SectionOps \/ (c.op = "wait" /\ started /\ exec # Idle)
  PROVE  IInv'
<1>1. /\ TypeOK /\ Lists /\ LockDiscipline /\ CallSound /\ BootSound
      /\ call = NoCall /\ scan = Thread
  BY DEF IInv, Control, InUserCode
<1>2. lock = 0 /\ svc = "none" /\ c # NoCall
  BY <1>1 DEF LockDiscipline, NoCall, SectionOps
<1>3. /\ lock' = 1 /\ call' = c
      /\ UNCHANGED <<svc, cpuVars, timeVars, schedVars, taskVars, objVars>>
  BY <1>2 DEF Enter
<1>4. TypeOK'
  BY <1>1, EnterType
<1>5. LockDiscipline'
  BY <1>1, <1>2, <1>3 DEF LockDiscipline, cpuVars
<1>6. CallSound'
  BY <1>2, <1>3 DEF CallSound, cpuVars, SectionOps
<1>7. BootSound'
  BY <1>1, <1>3 DEF BootSound, cpuVars, timeVars, schedVars
<1>8. Lists'
  BY <1>1, <1>3, QuietLists DEF cpuVars, schedVars, taskVars
<1>9. ScanSound'
  BY <1>1, <1>3, ScanQuiet DEF cpuVars
<1> QED
  BY <1>4, <1>5, <1>6, <1>7, <1>8, <1>9 DEF IInv, Control

\* Work on the events, under the lock or outside of it.
LEMMA EventsKeepKernel ==
  ASSUME IInv, scan = Thread, event' \in [Events -> BOOLEAN],
         UNCHANGED <<cpuVars, timeVars, schedVars, taskVars, queue, timer>>,
         UNCHANGED callVars \/ (call # NoCall /\ svc = "none" /\ Leave)
  PROVE  IInv'
<1>1. TypeOK /\ Lists /\ LockDiscipline /\ CallSound /\ BootSound
  BY DEF IInv, Control
<1>2. /\ UNCHANGED <<started, exec, pc, scan, now, old, lockedTicks, current, ready, wait>>
      /\ UNCHANGED <<alloc, prio, state, result, signal, queue, timer>>
  BY DEF cpuVars, timeVars, schedVars, taskVars
<1>3. /\ lock' \in Nat /\ call' \in CallType
      /\ svc' = svc /\ (call' = call \/ call' = NoCall)
  <2>1. CASE UNCHANGED callVars
    BY <1>1, <2>1 DEF TypeOK, CallType, callVars
  <2>2. CASE call # NoCall /\ svc = "none" /\ Leave
    BY <1>1, <2>2, LeaveType DEF Leave
  <2> QED
    BY <2>1, <2>2
<1>4. TypeOK'
  BY <1>1, <1>2, <1>3 DEF TypeOK, CallType
<1>5. LockDiscipline'
  BY <1>1, <1>2 DEF LockDiscipline, callVars, Leave
<1>6. CallSound'
  BY <1>1, <1>2, <1>3 DEF CallSound, NoCall
<1>7. BootSound'
  BY <1>1, <1>2 DEF BootSound
<1>8. Lists'
  BY <1>1, <1>2, <1>3, QuietLists
<1>9. ScanSound'
  BY <1>2, ScanQuiet
<1> QED
  BY <1>4, <1>5, <1>6, <1>7, <1>8, <1>9 DEF IInv, Control

\* The wait that enter begins is well typed.
LEMMA SectionWaitType ==
  ASSUME PoolInv, Initialised
  PROVE  SectionWait \in Condition /\ sectionEvent \in Events
<1>1. PICK i \in EventIds : sectionEvent = Handle(EventType, i)
  BY DEF PoolInv, PoolType
<1>2. sectionEvent \in Events
  BY <1>1, SectionAssumption
<1>3. <<sectionEvent>> \in Seq(Handles) /\ 0 \in Time
  BY <1>2, KernelAssumption DEF Handles, Time
<1> QED
  BY <1>2, <1>3 DEF SectionWait, Condition

\* Every step of the program keeps the kernel's invariant.
LEMMA KernelNext ==
  ASSUME StartsInTime, IInv, SectionInv, PoolInv, [CsNext]_csVars
  PROVE  IInv'
<1>1. TypeOK /\ LockDiscipline /\ BootSound /\ event \in [Events -> BOOLEAN]
  BY DEF IInv, Control, TypeOK
<1>2. ASSUME [Next]_vars PROVE IInv'
  BY <1>2, NextInv
<1>3. ASSUME UserCalls \/ KernelBodies \/ WaitFails \/ Woken \/ Handlers PROVE IInv'
  BY <1>2, <1>3 DEF UserCalls, KernelBodies, WaitFails, Woken, Handlers, Next, Bodies
<1>4. ASSUME NEW t \in Task, Begin(t) \/ CallResult PROVE IInv'
  BY <1>2, <1>4 DEF Begin, Next, Calls
<1>5. ASSUME NEW h, Signal(h) PROVE IInv'
  BY <1>2, <1>5 DEF Signal, Next, Signals
<1>6. ASSUME UNCHANGED csVars PROVE IInv'
  BY <1>2, <1>6 DEF csVars
<1>7. \A op \in SectionOps : InCall(op) \in CallType /\ InCall(op).op = op
  BY ConstantTypes DEF InCall, NoCall, CallType
<1>8. ASSUME CallInit \/ CallDeinit \/ \E t \in Task : CallTest(t) \/ CallLeave(t) PROVE IInv'
  <2>1. PICK op \in SectionOps : InUserCode /\ Enter(InCall(op))
    BY <1>8 DEF CallInit, CallDeinit, CallTest, CallLeave, Goes, SectionOps
  <2> QED
    BY <1>7, <2>1, EnterKeepsKernel
<1>9. ASSUME NEW t \in Task, CallWaitEvent(t) PROVE IInv'
  <2>1. /\ InUserCode /\ exec = t /\ exec # Idle /\ at[t] = "spun"
        /\ Enter([InCall("wait") EXCEPT !.cond = SectionWait])
    BY <1>9 DEF CallWaitEvent, Goes, SectionWait
  <2>2. Initialised /\ started
    BY <1>1, <2>1, ConstantTypes DEF SectionInv, Unused, BootSound
  <2>3. /\ [InCall("wait") EXCEPT !.cond = SectionWait] \in CallType
        /\ [InCall("wait") EXCEPT !.cond = SectionWait].op = "wait"
    BY <2>2, SectionWaitType, ConstantTypes DEF InCall, NoCall, CallType
  <2> QED
    BY <2>1, <2>2, <2>3, EnterKeepsKernel
<1>10. ASSUME InitRefused \/ InitBody \/ DeinitBody \/ TestBody \/ LeaveBody PROVE IInv'
  <2>1. call # NoCall /\ svc = "none" /\ scan = Thread /\ Leave
    <3>1. Leave /\ \E op \in SectionOps : Body(op)
      BY <1>10 DEF InitRefused, InitBody, DeinitBody, TestBody, LeaveBody, SectionOps
    <3> QED
      BY <3>1 DEF Body, NoCall, SectionOps
  <2>2. /\ UNCHANGED <<cpuVars, timeVars, schedVars, taskVars, queue, timer>>
        /\ event' \in [Events -> BOOLEAN]
    <3>1. CASE InitRefused \/ DeinitBody \/ TestBody
      BY <1>1, <3>1 DEF InitRefused, DeinitBody, TestBody, objVars
    <3>2. CASE InitBody
      BY <1>1, <3>2 DEF InitBody, Allocate
    <3>3. CASE LeaveBody
      BY <1>1, <3>3 DEF LeaveBody
    <3> QED
      BY <1>10, <3>1, <3>2, <3>3
  <2> QED
    BY <2>1, <2>2, EventsKeepKernel
<1>11. ASSUME NEW n, CreateEvent(n) \/ OpenEvent(n) \/ DestroyEvent(n) PROVE IInv'
  <2>1. PoolStep /\ event' \in [Events -> BOOLEAN]
    BY <1>1, <1>11 DEF CreateEvent, OpenEvent, DestroyEvent, Allocate
  <2> QED
    BY <2>1, EventsKeepKernel DEF PoolStep
<1> QED
  BY <1>3, <1>4, <1>5, <1>6, <1>8, <1>9, <1>10, <1>11
  DEF CsNext, SectionBodies, Proceeds, UseHandle, UseStaleHandle

-------------------------------------------------------------------------------
(* Who waits, and for what. *)

\* The executing task is the current one, alive, and in no wait slot.
LEMMA CallerFacts ==
  ASSUME IInv, svc = "none", exec \in Task
  PROVE  started /\ exec = current /\ exec \in alloc /\ ~ InSlot(exec)
<1>1. TypeOK /\ ReadyListsSound /\ WaitListSound /\ RunningIsReady /\ BootSound
  BY DEF IInv, Control, Lists
<1>2. started
  BY <1>1, ConstantTypes DEF BootSound
<1>3. exec = current /\ current \in alloc /\ current \in Elems(ready[prio[current]])
  BY <1>1, <1>2, CurrentListed DEF RunningIsReady
<1>4. exec # NoTask
  BY ConstantTypes
<1> QED
  BY <1>1, <1>2, <1>3, <1>4 DEF InSlot, WaitListSound

\* A step that moves no task in the section and takes no wait slot.
Rests ==
  /\ UNCHANGED <<at, spins, sectionEvent, held>>
  /\ \A i \in Slot : wait'[i] = wait[i] \/ wait'[i] = FreeSlot
  /\ \A t \in Task : at[t] # "out" => pc'[t] = pc[t] /\ t \in alloc'
  /\ \/ UNCHANGED <<call, svc, exec, pc>>
     \/ /\ ~ (call.op = "wait" /\ svc = "none")
        /\ call' = NoCall \/ svc' # "none"

LEMMA RestsKeepsSlots ==
  ASSUME Rests, NEW t \in Task, InSlot(t)'
  PROVE  InSlot(t)
<1>1. t # NoTask
  BY ConstantTypes
<1> QED
  BY <1>1 DEF Rests, InSlot, FreeSlot

LEMMA RestsKeepsSound ==
  ASSUME EnterSound, Rests
  PROVE  EnterSound'
<1>1. WaitersSound'
  <2> SUFFICES ASSUME NEW t \in Task, at[t] = "wait" PROVE Blocking(t)' \/ Blocked(t)'
    BY DEF WaitersSound, Rests
  <2>1. CASE Blocking(t)
    <3>1. UNCHANGED <<call, svc, exec, pc, sectionEvent>>
      BY <2>1 DEF Rests, Blocking
    <3>2. ~ InSlot(t)'
      BY <2>1, RestsKeepsSlots DEF Blocking
    <3> QED
      BY <2>1, <3>1, <3>2 DEF Blocking, SectionWait
  <2>2. CASE Blocked(t)
    <3>1. pc'[t] = "waited" /\ SectionWait' = SectionWait
      BY <2>2 DEF Rests, Blocked, SectionWait
    <3>2. \A i \in Slot : wait'[i].task = t => wait'[i] = wait[i]
      <4>1. FreeSlot.task # t
        BY ConstantTypes DEF FreeSlot
      <4> QED
        BY <4>1 DEF Rests
    <3> QED
      BY <2>2, <3>1, <3>2 DEF Blocked
  <2> QED
    BY <2>1, <2>2 DEF EnterSound, WaitersSound
<1>2. OthersSound'
  <2>1. \A c : Holds(c)' <=> Holds(c)
    BY DEF Holds, Rests
  <2>2. \A i \in Slot : wait'[i].task # NoTask => wait'[i] = wait[i]
    BY DEF Rests, FreeSlot
  <2>3. call'.op = "wait" /\ svc' = "none" => UNCHANGED <<call, svc, exec>>
    BY DEF Rests, NoCall
  <2> QED
    BY <2>1, <2>2, <2>3 DEF EnterSound, OthersSound, Rests, Holds
<1>3. CallersSound'
  BY DEF EnterSound, CallersSound, Rests, NoCall
<1>4. UsersAlive'
  BY DEF EnterSound, UsersAlive, Rests
<1> QED
  BY <1>1, <1>2, <1>3, <1>4 DEF EnterSound

\* The steps of the kernel other than taking the lock, blocking and returning
\* from a wait.
LEMMA KernelRests ==
  ASSUME IInv, EnterSound, UNCHANGED <<at, spins, sectionEvent, held>>,
         (KernelBodies /\ ~ SleepBody) \/ Handlers
  PROVE  Rests
<1>1. /\ TypeOK /\ LockDiscipline /\ CallSound /\ ReadyListsSound /\ WaitListSound
      /\ CallersSound /\ UsersAlive
  BY DEF IInv, Control, Lists, EnterSound
<1> DEFINE Ended == /\ ~ (call.op = "wait" /\ svc = "none")
                    /\ call' = NoCall \/ svc' # "none"
<1>2. ASSUME StartBody \/ CreateRefused \/ ResumeRefused \/ ResumeBody PROVE Rests
  <2>1. Ended /\ UNCHANGED <<wait, pc, alloc>>
    BY <1>2
    DEF StartBody, CreateRefused, ResumeRefused, ResumeBody, Body, Leave, Syscall, cpuVars,
        schedVars, taskVars
  <2> QED
    BY <1>1, <2>1 DEF Rests, UsersAlive
<1>3. ASSUME TimerBodies PROVE Rests
  <2>1. Ended /\ UNCHANGED <<wait, pc, alloc>>
    BY <1>3, TimerBodiesFacts DEF Body, Leave, TimerOps, cpuVars, schedVars, taskVars
  <2> QED
    BY <1>1, <2>1 DEF Rests, UsersAlive
<1>4. ASSUME CreateBody PROVE Rests
  <2>1. PICK t \in Task \ alloc : alloc' = alloc \cup {t} /\ pc' = [pc EXCEPT ![t] = "user"]
    BY <1>1, <1>4, CreateFacts
  <2>2. Ended /\ wait' = wait
    BY <1>4 DEF CreateBody, Body, Leave, Syscall
  <2>3. \A u \in Task : at[u] # "out" => u # t /\ u \in alloc
    BY <1>1, <2>1 DEF UsersAlive
  <2> QED
    BY <1>1, <2>1, <2>2, <2>3 DEF Rests, TypeOK
<1>5. ASSUME TerminateBody PROVE Rests
  <2>1. Ended /\ wait' = Unwait(call.id) /\ alloc' = alloc \ {call.id} /\ pc' = pc
    BY <1>5 DEF TerminateBody, Body, Leave, Syscall, cpuVars
  <2>2. at[call.id] = "out" /\ call.id \in Task
    BY <1>1, <1>5 DEF TerminateBody, Body, CallersSound, TypeOK
  <2>3. \A i \in Slot : wait'[i] = wait[i] \/ wait'[i] = FreeSlot
    BY <1>1, <2>1, <2>2, UnwaitFacts
  <2> QED
    BY <1>1, <2>1, <2>2, <2>3 DEF Rests, UsersAlive
<1>6. ASSUME SuspendBody PROVE Rests
  <2>1. Ended /\ wait' = Unwait(call.id) /\ UNCHANGED <<alloc, pc>>
    BY <1>6 DEF SuspendBody, Body, Leave, Syscall, cpuVars
  <2>2. call.id \in Task
    BY <1>1 DEF TypeOK
  <2>3. \A i \in Slot : wait'[i] = wait[i] \/ wait'[i] = FreeSlot
    BY <1>1, <2>1, <2>2, UnwaitFacts
  <2> QED
    BY <1>1, <2>1, <2>3 DEF Rests, UsersAlive
<1>7. ASSUME HandleSvc PROVE Rests
  BY <1>1, <1>7 DEF HandleSvc, Rests, UsersAlive
<1>8. ASSUME TickLocked \/ TickBegin PROVE Rests
  BY <1>1, <1>8
  DEF TickLocked, TickBegin, Rests, UsersAlive, callVars, cpuVars, schedVars, taskVars
<1>9. ASSUME TickSteps PROVE Rests
  <2>1. call = NoCall /\ call' = NoCall
    BY <1>1, <1>9, TickStepsFacts DEF LockDiscipline, callVars
  <2>2. /\ UNCHANGED <<pc, alloc>>
        /\ \A i \in Slot : wait'[i] = wait[i] \/ wait'[i] = FreeSlot
    <3>1. CASE SlotPasses \/ TickEndsSlice \/ TickEnds
      BY <3>1 DEF SlotPasses, TickEndsSlice, TickEnds, schedVars, taskVars
    <3>2. CASE SlotExpires \/ SlotSignaled
      <4>1. /\ scan \in Slot /\ wait[scan].task # NoTask /\ \E res : Wake(scan, res)
            /\ UNCHANGED <<pc, alloc>>
        BY <3>2 DEF SlotExpires, SlotSignaled
      <4>2. wait' = [wait EXCEPT ![scan] = FreeSlot]
        BY <1>1, <4>1, WakeFacts
      <4> QED
        BY <1>1, <4>1, <4>2 DEF TypeOK
    <3> QED
      BY <1>9, <3>1, <3>2 DEF TickSteps
  <2> QED
    BY <1>1, <2>1, <2>2 DEF Rests, UsersAlive, NoCall
<1> QED
  BY <1>2, <1>3, <1>4, <1>5, <1>6, <1>7, <1>8, <1>9 DEF KernelBodies, Handlers, Ticks

\* While no call is under way, a task that waits in enter has blocked.
LEMMA NobodyBlocking ==
  ASSUME EnterSound, ~ (call.op = "wait" /\ svc = "none"), NEW t \in Task, at[t] = "wait"
  PROVE  Blocked(t)
BY DEF EnterSound, WaitersSound, Blocking

\* A call takes the lock; only the call that begins enter's wait moves its task.
LEMMA CallKeepsSound ==
  ASSUME EnterSound, InUserCode, NEW c, Enter(c), UNCHANGED <<at, sectionEvent, held>>,
         c.op \in {"sleep", "wait"} => exec \in Task /\ pc[exec] = "user",
         c.op = "result" => exec \in Task /\ pc[exec] = "waited",
         c.op = "terminate" => at[c.id] = "out",
         c.op = "wait" => Holds(c.cond)
  PROVE  EnterSound'
<1>1. /\ call.op = "none" /\ call' = c
      /\ UNCHANGED <<svc, exec, pc, wait, alloc, at, sectionEvent, held>>
  BY DEF InUserCode, NoCall, Enter, cpuVars, schedVars, taskVars
<1>2. \A t \in Task : at[t] = "wait" => Blocked(t)
  BY <1>1, NobodyBlocking
<1>3. WaitersSound'
  BY <1>1, <1>2 DEF WaitersSound, Blocked, SectionWait
<1>4. OthersSound'
  BY <1>1 DEF EnterSound, OthersSound, Holds
<1>5. CallersSound' /\ UsersAlive'
  BY <1>1 DEF EnterSound, CallersSound, UsersAlive
<1> QED
  BY <1>3, <1>4, <1>5 DEF EnterSound

\* The one call that waits.
LEMMA CallOps ==
  ASSUME Calls, call'.op = "wait"
  PROVE  \E c \in Conditions : CallWait(c)
<1> USE DEF NoCall, Enter
<1>1. ~ CallStart
  BY DEF CallStart
<1>2. \A p \in Priorities, b \in BOOLEAN : ~ CallCreate(p, b)
  BY DEF CallCreate
<1>3. \A op \in {"terminate", "suspend", "resume"}, t \in Task : ~ CallOnTask(op, t)
  BY DEF CallOnTask
<1>4. \A d \in SleepTimes : ~ CallSleep(d)
  BY DEF CallSleep
<1>5. ~ CallCreateTimer /\ ~ CallResult
  BY DEF CallCreateTimer, CallResult
<1>6. \A op \in TimerOps, x \in Timers : ~ CallTimer(op, x)
  BY DEF CallTimer, TimerOps
<1> HIDE DEF NoCall, Enter
<1> QED
  BY <1>1, <1>2, <1>3, <1>4, <1>5, <1>6 DEF Calls

\* What the calls of user code come with.
LEMMA UserCallFacts ==
  ASSUME UserCalls \/ CallResult
  PROVE  \E c :
           /\ InUserCode /\ Enter(c)
           /\ c.op \in {"sleep", "wait"} => exec \in Task /\ pc[exec] = "user"
           /\ c.op = "result" => exec \in Task /\ pc[exec] = "waited"
           /\ (c.op = "terminate" /\ UserCalls) => at[c.id] = "out"
           /\ (c.op = "wait" /\ UserCalls) => Holds(c.cond)
<1> DEFINE Came == /\ InUserCode /\ Enter(call')
                   /\ call'.op \in {"sleep", "wait"} => exec \in Task /\ pc[exec] = "user"
                   /\ call'.op = "result" => exec \in Task /\ pc[exec] = "waited"
<1> USE DEF NoCall, TaskMayCall, MainMayCall, InUserCode, Enter
<1>1. ASSUME CallStart PROVE Came
  BY <1>1 DEF CallStart
<1>2. ASSUME NEW p \in Priorities, NEW s \in BOOLEAN, CallCreate(p, s) PROVE Came
  BY <1>2 DEF CallCreate
<1>3. ASSUME NEW op \in {"terminate", "suspend", "resume"}, NEW t \in Task, CallOnTask(op, t)
      PROVE  Came
  BY <1>3 DEF CallOnTask
<1>4. ASSUME NEW d \in SleepTimes, CallSleep(d) PROVE Came
  BY <1>4 DEF CallSleep
<1>5. ASSUME NEW c \in Conditions, CallWait(c) PROVE Came
  BY <1>5 DEF CallWait
<1>6. ASSUME NEW op \in TimerOps, NEW x \in Timers, CallTimer(op, x) PROVE Came
  BY <1>6 DEF CallTimer, TimerOps
<1>7. ASSUME CallResult PROVE Came
  BY <1>7 DEF CallResult
<1>8. ASSUME CallCreateTimer PROVE Came
  BY <1>8 DEF CallCreateTimer
<1> HIDE DEF NoCall, TaskMayCall, MainMayCall, InUserCode, Enter
<1>9. Came
  BY <1>1, <1>2, <1>3, <1>4, <1>5, <1>6, <1>7, <1>8 DEF Calls, UserCalls
<1>10. UserCalls /\ call'.op = "terminate" => at[call'.id] = "out"
  BY DEF UserCalls
<1>11. UserCalls /\ call'.op = "wait" => Holds(call'.cond)
  <2> SUFFICES ASSUME UserCalls, call'.op = "wait" PROVE call'.cond.objs # <<>>
    BY DEF UserCalls, Holds
  <2>1. PICK c \in Conditions : CallWait(c)
    BY CallOps DEF UserCalls
  <2> QED
    BY <2>1, KernelAssumption DEF CallWait, Enter, NoCall
<1>12. PICK c : c = call'
  OBVIOUS
<1> QED
  BY <1>9, <1>10, <1>11, <1>12

\* Task t moves in the section, in a step that ends its call or begins none.
LEMMA MoveKeepsSound ==
  ASSUME EnterSound, ~ (call.op = "wait" /\ svc = "none"), call' = NoCall,
         NEW t \in Task, ~ InSlot(t), NEW place, place # "wait",
         place # "out" => t \in alloc \ {Idle},
         at \in [Task -> Places], at' = [at EXCEPT ![t] = place],
         \A u \in Task \ {t} : pc'[u] = pc[u],
         UNCHANGED <<svc, wait, alloc, sectionEvent, held>>
  PROVE  EnterSound'
<1>1. \A u \in Task : at'[u] = IF u = t THEN place ELSE at[u]
  OBVIOUS
<1>2. \A u \in Task : at[u] = "wait" => Blocked(u)
  BY NobodyBlocking
<1>3. WaitersSound'
  BY <1>1, <1>2 DEF WaitersSound, Blocked, SectionWait
<1>4. OthersSound'
  <2>1. \A i \in Slot : wait[i].task # t
    BY DEF InSlot
  <2>2. \A i \in Slot : at'[wait[i].task] = at[wait[i].task]
    BY <2>1
  <2> QED
    BY <2>2 DEF EnterSound, OthersSound, Holds, NoCall
<1>5. CallersSound' /\ UsersAlive'
  BY <1>1 DEF EnterSound, CallersSound, UsersAlive, NoCall
<1> QED
  BY <1>3, <1>4, <1>5 DEF EnterSound

\* While nobody uses the section, its event comes and goes.
LEMMA UnusedKeepsSound ==
  ASSUME EnterSound, Unused, call' = NoCall, UNCHANGED <<svc, wait, alloc, at, held>>
  PROVE  EnterSound'
<1>1. \A t \in Task : at'[t] = "out"
  BY DEF Unused
<1>2. WaitersSound' /\ UsersAlive' /\ CallersSound'
  BY <1>1 DEF WaitersSound, UsersAlive, CallersSound, NoCall
<1>3. OthersSound'
  BY DEF EnterSound, OthersSound, Holds, NoCall
<1> QED
  BY <1>2, <1>3 DEF EnterSound

\* User code gets handles, and gives up those that no task waits for.
LEMMA PoolKeepsSound ==
  ASSUME EnterSound, UNCHANGED <<call, svc, exec, pc, wait, alloc, at, sectionEvent>>,
         \A h \in held \ held' : ~ Awaited(h)
  PROVE  EnterSound'
<1>1. WaitersSound' /\ CallersSound' /\ UsersAlive'
  BY DEF EnterSound, WaitersSound, Blocking, Blocked, InSlot, SectionWait, CallersSound,
         UsersAlive
<1>2. Holds(call.cond) => Holds(call.cond)'
  BY DEF Holds, Awaited
<1>3. \A i \in Slot : Holds(wait[i].cond) => Holds(wait[i].cond)'
  BY DEF Holds, Awaited, WaitedFor
<1>4. OthersSound'
  BY <1>2, <1>3 DEF EnterSound, OthersSound
<1> QED
  BY <1>1, <1>4 DEF EnterSound

\* A task that goes to sleep is not in enter.
LEMMA SleepKeepsSound ==
  ASSUME IInv, EnterSound, SleepBody, UNCHANGED <<at, sectionEvent, held>>
  PROVE  EnterSound'
<1>1. TypeOK /\ ReadyListsSound /\ CallersSound
  BY DEF IInv, Control, Lists, EnterSound
<1>2. /\ call.op = "sleep" /\ svc = "none" /\ Block("Sleep")
      /\ svc' # "none" /\ UNCHANGED <<call, exec, pc, alloc>>
  BY <1>1 DEF SleepBody, Body, Syscall, cpuVars
<1>3. exec \in Task /\ pc[exec] = "user" /\ exec = current
  BY <1>1, <1>2, CallerFacts DEF CallersSound
<1>4. at[exec] # "wait"
  BY <1>2, <1>3, NobodyBlocking DEF Blocked
<1>5. \A i \in Slot : wait'[i] = wait[i] \/ (wait'[i].task = exec /\ wait'[i].kind = "Sleep")
  <2>1. CASE FreeSlots = {}
    BY <1>2, <2>1 DEF Block
  <2>2. CASE FreeSlots # {}
    <3>1. PICK i \in Slot :
            wait' = [wait EXCEPT ![i] =
              [task |-> current, kind |-> "Sleep", cond |-> call.cond, start |-> now]]
      BY <1>1, <1>2, <2>2, BlockFacts
    <3> QED
      BY <1>1, <1>3, <3>1 DEF TypeOK
  <2> QED
    BY <2>1, <2>2
<1>6. WaitersSound'
  <2> SUFFICES ASSUME NEW t \in Task, at[t] = "wait" PROVE Blocked(t)'
    BY DEF WaitersSound
  <2>1. Blocked(t) /\ t # exec
    BY <1>2, <1>4, NobodyBlocking
  <2> QED
    BY <1>2, <1>5, <2>1 DEF Blocked, SectionWait
<1>7. OthersSound'
  BY <1>2, <1>5 DEF EnterSound, OthersSound, Holds
<1>8. CallersSound' /\ UsersAlive'
  BY <1>2 DEF EnterSound, CallersSound, UsersAlive
<1> QED
  BY <1>6, <1>7, <1>8 DEF EnterSound

\* A task that waits takes a slot, for the section's event in enter and for
\* events that user code holds otherwise; there is always a slot.
LEMMA WaitFacts ==
  ASSUME IInv, EnterSound, WaitFails
  PROVE  /\ exec \in Task /\ exec = current /\ svc = "none" /\ call.op = "wait"
         /\ pc[exec] = "user" /\ ~ InSlot(exec)
         /\ at[exec] = "wait" => call.cond = SectionWait
         /\ at[exec] # "wait" => Holds(call.cond)
         /\ \E i \in Slot :
              /\ wait[i].task = NoTask
              /\ wait' = [wait EXCEPT ![i] =
                   [task |-> exec, kind |-> "WaitForObj", cond |-> call.cond, start |-> now]]
         /\ pc' = [pc EXCEPT ![exec] = "waited"] /\ svc' # "none"
         /\ UNCHANGED <<call, exec, alloc, at, lockCount, sectionEvent, held, result, event>>
<1>1. TypeOK /\ ReadyListsSound /\ CallersSound
  BY DEF IInv, Control, Lists, EnterSound
<1>2. WaitBody /\ call.op = "wait" /\ svc = "none"
  BY DEF WaitFails, WaitBody, Body
<1>3. exec \in Task /\ pc[exec] = "user" /\ exec = current /\ ~ InSlot(exec)
  BY <1>1, <1>2, CallerFacts DEF CallersSound
<1>4. FreeSlots # {}
  BY SomeSlotFree
<1>5. /\ Block("WaitForObj") /\ svc' # "none" /\ pc' = [pc EXCEPT ![exec] = "waited"]
      /\ UNCHANGED <<call, exec, alloc, at, lockCount, sectionEvent, held, result, event>>
  BY <1>2, <1>3, <1>4 DEF WaitFails, WaitBody, Syscall, poolVars, objVars
<1>6. \E i \in Slot :
        /\ wait[i].task = NoTask
        /\ wait' = [wait EXCEPT ![i] =
             [task |-> exec, kind |-> "WaitForObj", cond |-> call.cond, start |-> now]]
  BY <1>1, <1>3, <1>4, <1>5, BlockFacts
<1>7. at[exec] = "wait" => call.cond = SectionWait
  BY <1>3 DEF EnterSound, WaitersSound, Blocked, Blocking
<1>8. at[exec] # "wait" => Holds(call.cond)
  BY <1>2 DEF EnterSound, OthersSound
<1> QED
  BY <1>2, <1>3, <1>5, <1>6, <1>7, <1>8

LEMMA WaitKeepsSound ==
  ASSUME IInv, EnterSound, WaitFails
  PROVE  EnterSound'
<1>1. TypeOK
  BY DEF IInv
<1>2. /\ exec \in Task /\ call.op = "wait" /\ svc = "none" /\ svc' # "none" /\ ~ InSlot(exec)
      /\ pc' = [pc EXCEPT ![exec] = "waited"]
      /\ UNCHANGED <<call, exec, alloc, at, sectionEvent, held>>
  BY WaitFacts
<1>3. PICK i \in Slot :
        wait' = [wait EXCEPT ![i] =
          [task |-> exec, kind |-> "WaitForObj", cond |-> call.cond, start |-> now]]
  BY WaitFacts
<1>4. \A j \in Slot :
        wait'[j] = IF j = i
          THEN [task |-> exec, kind |-> "WaitForObj", cond |-> call.cond, start |-> now]
          ELSE wait[j]
  BY <1>1, <1>3 DEF TypeOK
<1>5. WaitersSound'
  <2> SUFFICES ASSUME NEW t \in Task, at[t] = "wait" PROVE Blocked(t)'
    BY <1>2 DEF WaitersSound
  <2>1. CASE t = exec
    <3>1. call.cond = SectionWait
      BY <2>1, WaitFacts
    <3>2. ASSUME NEW j \in Slot, wait'[j].task = exec PROVE j = i
      <4>1. wait[j].task # exec
        BY <1>2 DEF InSlot
      <4> QED
        BY <1>4, <3>2, <4>1
    <3>3. wait'[i].kind = "WaitForObj" /\ wait'[i].cond = SectionWait'
      <4>1. wait'[i] = [task |-> exec, kind |-> "WaitForObj", cond |-> call.cond, start |-> now]
        BY <1>4
      <4>2. SectionWait' = SectionWait
        BY <1>2 DEF SectionWait
      <4> QED
        BY <3>1, <4>1, <4>2
    <3>4. pc'[exec] = "waited"
      BY <1>1, <1>2 DEF TypeOK
    <3> QED
      BY <2>1, <3>2, <3>3, <3>4 DEF Blocked
  <2>2. CASE t # exec
    <3>1. Blocked(t)
      BY <2>2 DEF EnterSound, WaitersSound, Blocking
    <3>2. pc'[t] = "waited" /\ SectionWait' = SectionWait
      BY <1>1, <1>2, <2>2, <3>1 DEF Blocked, SectionWait, TypeOK
    <3>3. \A j \in Slot : wait'[j].task = t => wait'[j] = wait[j]
      BY <1>4, <2>2
    <3> QED
      BY <3>1, <3>2, <3>3 DEF Blocked
  <2> QED
    BY <2>1, <2>2
<1>6. OthersSound'
  <2>1. at[exec] # "wait" => Holds(call.cond)
    BY WaitFacts
  <2> QED
    BY <1>2, <1>4, <2>1 DEF EnterSound, OthersSound, Holds
<1>7. CallersSound' /\ UsersAlive'
  BY <1>2 DEF EnterSound, CallersSound, UsersAlive
<1> QED
  BY <1>5, <1>6, <1>7 DEF EnterSound

\* Every step of the program keeps it.
LEMMA SoundNext ==
  ASSUME IInv, SectionInv, PoolInv, EnterSound, [CsNext]_csVars
  PROVE  EnterSound'
<1>1. TypeOK /\ LockDiscipline /\ SectionCallSound /\ UsersAlive /\ at \in [Task -> Places]
  BY DEF IInv, Control, SectionInv, EnterSound
<1>2. InUserCode => call.op = "none" /\ svc = "none"
  BY <1>1 DEF InUserCode, NoCall, LockDiscipline
<1>3. ASSUME NEW t \in Task, svc = "none", exec = t PROVE t \in alloc /\ ~ InSlot(t)
  BY <1>3, CallerFacts
<1>4. ASSUME Rests PROVE EnterSound'
  BY <1>4, RestsKeepsSound
<1>5. CASE UserCalls
  <2>1. UNCHANGED <<at, sectionEvent, held>>
    BY <1>5 DEF UserCalls, sectionVars, poolVars
  <2> QED
    BY <1>5, <2>1, UserCallFacts, CallKeepsSound
<1>6. CASE KernelBodies
  <2>1. UNCHANGED <<at, spins, sectionEvent, held>>
    BY <1>6 DEF KernelBodies, sectionVars, poolVars
  <2> QED
    BY <1>4, <1>6, <2>1, KernelRests, SleepKeepsSound
<1>7. CASE Handlers
  <2>1. UNCHANGED <<at, spins, sectionEvent, held>>
    BY <1>7 DEF Handlers, sectionVars, poolVars
  <2> QED
    BY <1>4, <1>7, <2>1, KernelRests
<1>8. CASE InitRefused
  <2>1. /\ call.op = "sectionInit" /\ call' = NoCall
        /\ UNCHANGED <<at, spins, sectionEvent, held, wait, pc, alloc>>
    BY <1>8
    DEF InitRefused, Body, Leave, sectionVars, poolVars, cpuVars, schedVars, taskVars
  <2> QED
    BY <1>1, <1>4, <2>1 DEF Rests, UsersAlive
<1>9. CASE InitBody \/ DeinitBody
  <2>1. Unused
    BY <1>1, <1>9 DEF InitBody, DeinitBody, Body, SectionCallSound, SectionInv
  <2>2. call' = NoCall /\ UNCHANGED <<svc, wait, alloc, at, held>>
    BY <1>9 DEF InitBody, DeinitBody, Leave, schedVars, taskVars
  <2> QED
    BY <2>1, <2>2, UnusedKeepsSound
<1>10. CASE TestBody
  <2>1. /\ exec \in Task /\ at[exec] = "test" /\ svc = "none" /\ call.op # "wait"
        /\ call' = NoCall /\ UNCHANGED <<svc, pc, wait, alloc, sectionEvent, held>>
    BY <1>1, <1>10
    DEF TestBody, Body, Leave, SectionCallSound, cpuVars, schedVars, taskVars, poolVars
  <2>2. PICK place \in {"in", "test", "spun"} : at' = [at EXCEPT ![exec] = place]
    BY <1>10 DEF TestBody, Moves
  <2>3. exec \in alloc \ {Idle} /\ ~ InSlot(exec)
    BY <1>1, <1>3, <2>1 DEF UsersAlive
  <2> QED
    BY <1>1, <2>1, <2>2, <2>3, MoveKeepsSound
<1>11. CASE LeaveBody
  <2>1. /\ exec \in Task /\ svc = "none" /\ call.op # "wait" /\ at' = [at EXCEPT ![exec] = "out"]
        /\ call' = NoCall /\ UNCHANGED <<svc, pc, wait, alloc, sectionEvent, held>>
    BY <1>1, <1>11
    DEF LeaveBody, Moves, Body, Leave, SectionCallSound, cpuVars, schedVars, taskVars, poolVars
  <2> QED
    BY <1>1, <1>3, <2>1, MoveKeepsSound
<1>12. CASE WaitFails
  BY <1>12, WaitKeepsSound
<1>13. CASE Woken
  <2>1. /\ exec \in Task /\ svc = "none" /\ call.op # "wait" /\ exec = current
        /\ call' = NoCall /\ UNCHANGED <<svc, wait, alloc, sectionEvent, held>>
        /\ pc' = [pc EXCEPT ![exec] = "user"]
    <3>1. Body("result") /\ exec \in Task
      BY <1>13 DEF Woken, ResultBody, Body, EnterSound, CallersSound
    <3> QED
      BY <1>13, <3>1, CallerFacts
      DEF Woken, ResultBody, Body, Leave, schedVars, taskVars, poolVars
  <2>2. PICK place \in Places \ {"wait"} :
          /\ at' = [at EXCEPT ![exec] = place]
          /\ place # "out" => at[exec] # "out"
    <3>1. CASE at[exec] = "wait"
      <4>1. \/ at' = [at EXCEPT ![exec] = "test"]
            \/ at' = [at EXCEPT ![exec] = "failed"]
        BY <1>13, <3>1 DEF Woken
      <4> QED
        BY <3>1, <4>1 DEF Places
    <3>2. CASE at[exec] # "wait"
      BY <1>1, <1>13, <2>1, <3>2 DEF Woken
    <3> QED
      BY <3>1, <3>2
  <2>3. ~ InSlot(exec) /\ (place # "out" => exec \in alloc \ {Idle})
    BY <1>1, <1>3, <2>1, <2>2 DEF UsersAlive
  <2>4. \A u \in Task \ {exec} : pc'[u] = pc[u]
    BY <1>1, <2>1 DEF TypeOK
  <2> QED
    BY <1>1, <2>1, <2>2, <2>3, <2>4, MoveKeepsSound
<1>14. ASSUME CallInit \/ CallDeinit \/ \E t \in Task : CallTest(t) \/ CallLeave(t)
       PROVE  EnterSound'
  <2>1. PICK op \in SectionOps : InUserCode /\ Enter(InCall(op))
    BY <1>14 DEF CallInit, CallDeinit, CallTest, CallLeave, Goes, SectionOps
  <2>2. UNCHANGED <<at, sectionEvent, held>>
    BY <1>14 DEF CallInit, CallDeinit, CallTest, CallLeave, sectionVars, poolVars
  <2>3. InCall(op).op \notin {"sleep", "wait", "result", "terminate"}
    BY DEF InCall, NoCall, SectionOps
  <2> QED
    BY <2>1, <2>2, <2>3, CallKeepsSound
<1>15. ASSUME NEW t \in Task, Begin(t) PROVE EnterSound'
  <2>1. /\ InUserCode /\ exec = t /\ t # Idle
        /\ UNCHANGED <<call, svc, pc, wait, alloc, sectionEvent, held>>
        /\ at' = [at EXCEPT ![t] = "test"]
    BY <1>15
    DEF Begin, Goes, Moves, vars, callVars, cpuVars, schedVars, taskVars, poolVars
  <2>2. t \in alloc \ {Idle} /\ ~ InSlot(t) /\ call' = NoCall
    BY <1>2, <1>3, <2>1 DEF InUserCode
  <2> QED
    BY <1>1, <1>2, <2>1, <2>2, MoveKeepsSound
<1>16. ASSUME NEW t \in Task, CallWaitEvent(t) PROVE EnterSound'
  <2>1. /\ InUserCode /\ exec = t /\ pc[t] = "user" /\ at[t] = "spun"
        /\ Enter([InCall("wait") EXCEPT !.cond = SectionWait])
        /\ at' = [at EXCEPT ![t] = "wait"] /\ UNCHANGED <<sectionEvent, held>>
    BY <1>16 DEF CallWaitEvent, Goes, Moves, SectionWait, poolVars
  <2>2. /\ call'.op = "wait" /\ call'.cond = SectionWait
        /\ UNCHANGED <<svc, exec, pc, wait, alloc>>
    BY <2>1 DEF Enter, InCall, NoCall, cpuVars, schedVars, taskVars
  <2>3. ~ InSlot(t) /\ svc = "none"
    BY <1>2, <1>3, <2>1
  <2>4. \A u \in Task : at'[u] = IF u = t THEN "wait" ELSE at[u]
    BY <1>1, <2>1
  <2>5. Blocking(t)'
    BY <2>1, <2>2, <2>3 DEF Blocking, InSlot, SectionWait
  <2>6. WaitersSound'
    <3>1. \A u \in Task \ {t} : at'[u] = "wait" => Blocked(u)
      BY <1>2, <2>1, <2>4, NobodyBlocking
    <3> QED
      BY <2>1, <2>2, <2>5, <3>1 DEF WaitersSound, Blocked, SectionWait
  <2>7. OthersSound'
    <3>1. \A i \in Slot : at'[wait[i].task] = at[wait[i].task]
      BY <1>1, <2>1, <2>3 DEF InSlot
    <3> QED
      BY <2>1, <2>2, <2>4, <3>1 DEF EnterSound, OthersSound, Holds
  <2>8. CallersSound' /\ UsersAlive'
    BY <1>1, <2>1, <2>2, <2>4 DEF CallersSound, UsersAlive
  <2> QED
    BY <2>6, <2>7, <2>8 DEF EnterSound
<1>17. CASE CallResult /\ UNCHANGED <<sectionVars, poolVars>>
  <2>1. call'.op = "result" /\ UNCHANGED <<at, sectionEvent, held>>
    BY <1>17 DEF CallResult, Enter, NoCall, sectionVars, poolVars
  <2>2. InUserCode /\ Enter(call') /\ exec \in Task /\ pc[exec] = "waited"
    BY <1>17 DEF CallResult, Enter
  <2>3. PICK c : c = call'
    OBVIOUS
  <2> QED
    BY <2>1, <2>2, <2>3, CallKeepsSound
<1>18. ASSUME NEW n, CreateEvent(n) \/ OpenEvent(n) \/ DestroyEvent(n)
       PROVE  EnterSound'
  <2>1. UNCHANGED <<call, svc, exec, pc, wait, alloc, at, sectionEvent>>
    BY <1>18
    DEF CreateEvent, OpenEvent, DestroyEvent, PoolStep, callVars, cpuVars, schedVars, taskVars,
        sectionVars
  <2>2. \A h \in held \ held' : ~ Awaited(h)
    BY <1>18 DEF CreateEvent, OpenEvent, DestroyEvent
  <2> QED
    BY <2>1, <2>2, PoolKeepsSound
<1>19. ASSUME NEW h, Signal(h) PROVE EnterSound'
  <2>1. UNCHANGED <<call, svc, exec, pc, wait, alloc, at, spins, sectionEvent, held>>
    BY <1>19
    DEF Signal, SetEvent, ResetEvent, callVars, cpuVars, schedVars, taskVars, sectionVars,
        poolVars
  <2> QED
    BY <1>1, <1>4, <2>1 DEF Rests, UsersAlive
<1>20. CASE UNCHANGED csVars
  <2>1. UNCHANGED <<call, svc, exec, pc, wait, alloc, at, spins, sectionEvent, held>>
    BY <1>20 DEF csVars, vars, callVars, cpuVars, schedVars, taskVars, sectionVars, poolVars
  <2> QED
    BY <1>1, <1>4, <2>1 DEF Rests, UsersAlive
<1> QED
  BY <1>5, <1>6, <1>7, <1>8, <1>9, <1>10, <1>11, <1>12, <1>13, <1>14, <1>15, <1>16, <1>17,
     <1>18, <1>19, <1>20
  DEF CsNext, SectionBodies, Proceeds, UseHandle, UseStaleHandle

LEMMA InitSound == CsInit => EnterSound
<1> SUFFICES ASSUME CsInit PROVE EnterSound
  OBVIOUS
<1>1. /\ call = NoCall /\ \A t \in Task : at[t] = "out"
      /\ \A i \in Slot : wait[i].task = NoTask
  BY DEF CsInit, Init, FreeSlot
<1> QED
  BY <1>1 DEF EnterSound, WaitersSound, OthersSound, CallersSound, UsersAlive, NoCall

-------------------------------------------------------------------------------
(* What a wait leaves behind. *)

\* What a step does to the wait slots and to the results of waits.
SlotsStay == UNCHANGED <<wait, result>>
Blocks ==
  /\ result' = result
  /\ \E i \in Slot, kind \in {"Sleep", "WaitForObj"} :
       /\ wait[i].task = NoTask
       /\ wait' = [wait EXCEPT ![i] =
            [task |-> exec, kind |-> kind, cond |-> call.cond, start |-> now]]
       /\ kind = "WaitForObj" => call.op = "wait" /\ svc = "none"
Unwaits ==
  /\ result' = result
  /\ \A i \in Slot : wait'[i] = IF wait[i].task = call.id THEN FreeSlot ELSE wait[i]
  /\ call.op = "suspend" \/ at[call.id] = "out"
Wakes ==
  \E i \in Slot, t \in Task, res \in {"ObjectSet", "TimeoutOccurred"} :
    /\ wait[i].task = t /\ wait' = [wait EXCEPT ![i] = FreeSlot]
    /\ result' = [result EXCEPT ![t] = res]
    /\ res = "TimeoutOccurred" => wait[i].kind # "Sleep" /\ ~ wait[i].cond.forever

\* A task that has blocked in enter did so before, or just took its slot.
PlacesStay ==
  \A t \in Task : at'[t] = "wait" /\ pc'[t] = "waited" =>
    InSlot(t)' \/ (at[t] = "wait" /\ pc[t] = "waited")

\* The slots under the steps of the kernel other than waiting and returning.
LEMMA KernelSlots ==
  ASSUME IInv, EnterSound, KernelBodies \/ Handlers
  PROVE  SlotsStay \/ Blocks \/ Unwaits \/ Wakes
<1>1. TypeOK /\ ReadyListsSound /\ WaitListSound /\ LockDiscipline /\ CallersSound
  BY DEF IInv, Control, Lists, EnterSound
<1>2. CASE StartBody \/ CreateRefused \/ CreateBody \/ ResumeRefused \/ ResumeBody
  BY <1>2
  DEF StartBody, CreateRefused, CreateBody, ResumeRefused, ResumeBody, schedVars, taskVars,
      SlotsStay
<1>3. CASE TimerBodies
  BY <1>3, TimerBodiesFacts DEF schedVars, taskVars, SlotsStay
<1>4. CASE TerminateBody
  <2>1. wait' = Unwait(call.id) /\ result' = result /\ at[call.id] = "out" /\ call.id \in Task
    BY <1>1, <1>4 DEF TerminateBody, Body, CallersSound, TypeOK
  <2> QED
    BY <1>1, <2>1, UnwaitFacts DEF Unwaits
<1>5. CASE SuspendBody
  <2>1. wait' = Unwait(call.id) /\ result' = result /\ call.op = "suspend" /\ call.id \in Task
    BY <1>1, <1>5 DEF SuspendBody, Body, TypeOK
  <2> QED
    BY <1>1, <2>1, UnwaitFacts DEF Unwaits
<1>6. CASE SleepBody
  <2>1. Block("Sleep") /\ result' = result /\ exec = current
    BY <1>1, <1>6, CallerFacts DEF SleepBody, Body, CallersSound
  <2>2. CASE FreeSlots = {}
    BY <2>1, <2>2 DEF Block, SlotsStay
  <2>3. CASE FreeSlots # {}
    BY <1>1, <2>1, <2>3, BlockFacts DEF Blocks
  <2> QED
    BY <2>2, <2>3
<1>7. CASE HandleSvc \/ Ticks \/ SlotPasses \/ TickEndsSlice \/ TickEnds
  BY <1>7
  DEF HandleSvc, Ticks, TickLocked, TickBegin, SlotPasses, TickEndsSlice, TickEnds, schedVars,
      taskVars, SlotsStay
<1>8. CASE SlotExpires
  <2>1. PICK res \in {"ObjectSet", "TimeoutOccurred"} :
          /\ scan \in Slot /\ wait[scan].task # NoTask /\ Expired(wait[scan])
          /\ Wake(scan, res)
          /\ res = "TimeoutOccurred" => wait[scan].kind # "Sleep"
    BY <1>8 DEF SlotExpires
  <2>2. res = "TimeoutOccurred" => ~ wait[scan].cond.forever
    BY <2>1 DEF Expired
  <2> QED
    BY <1>1, <2>1, <2>2, WakeFacts DEF Wakes
<1>9. CASE SlotSignaled
  <2>1. scan \in Slot /\ wait[scan].task # NoTask /\ Wake(scan, "ObjectSet")
    BY <1>9 DEF SlotSignaled
  <2> QED
    BY <1>1, <2>1, WakeFacts DEF Wakes
<1> QED
  BY <1>2, <1>3, <1>4, <1>5, <1>6, <1>7, <1>8, <1>9 DEF KernelBodies, Handlers, TickSteps

\* Where tasks are under the steps of the kernel other than waiting and
\* returning.
LEMMA KernelPlaces ==
  ASSUME IInv, EnterSound, KernelBodies \/ Handlers
  PROVE  PlacesStay /\ at' = at
<1>1. at' = at
  BY DEF KernelBodies, Handlers, sectionVars
<1>2. CASE SleepBody
  BY <1>1, <1>2 DEF SleepBody, cpuVars, PlacesStay
<1>3. CASE ~ SleepBody
  <2>1. UNCHANGED <<at, spins, sectionEvent, held>>
    BY DEF KernelBodies, Handlers, sectionVars, poolVars
  <2>2. Rests
    BY <1>3, <2>1, KernelRests
  <2> QED
    BY <1>1, <2>2 DEF Rests, PlacesStay
<1> QED
  BY <1>1, <1>2, <1>3

\* The same for every step of the program.
LEMMA StepFacts ==
  ASSUME IInv, SectionInv, EnterSound, [CsNext]_csVars
  PROVE  PlacesStay /\ (SlotsStay \/ Blocks \/ Unwaits \/ Wakes)
<1>1. TypeOK /\ at \in [Task -> Places]
  BY DEF IInv, SectionInv
<1>2. ASSUME UNCHANGED <<at, pc, wait, result>> PROVE PlacesStay /\ SlotsStay
  BY <1>2 DEF PlacesStay, SlotsStay
<1>3. CASE UserCalls
  <2>1. PICK c : Enter(c)
    BY <1>3, UserCallFacts
  <2> QED
    BY <1>2, <1>3, <2>1 DEF UserCalls, Enter, cpuVars, schedVars, taskVars, sectionVars
<1>4. CASE KernelBodies \/ Handlers
  BY <1>4, KernelSlots, KernelPlaces
<1>5. CASE InitRefused \/ InitBody \/ DeinitBody
  BY <1>2, <1>5
  DEF InitRefused, InitBody, DeinitBody, cpuVars, schedVars, taskVars, sectionVars
<1>6. CASE TestBody \/ LeaveBody
  <2>1. PICK place \in {"in", "test", "spun", "out"} : at' = [at EXCEPT ![exec] = place]
    BY <1>6 DEF TestBody, LeaveBody, Moves
  <2>2. UNCHANGED <<pc, wait, result>>
    BY <1>6 DEF TestBody, LeaveBody, cpuVars, schedVars, taskVars
  <2> QED
    BY <1>1, <2>1, <2>2 DEF PlacesStay, SlotsStay
<1>7. CASE WaitFails
  <2>1. /\ result' = result /\ call.op = "wait" /\ svc = "none" /\ exec \in Task
        /\ pc' = [pc EXCEPT ![exec] = "waited"] /\ at' = at
    BY <1>7, WaitFacts
  <2>2. PICK i \in Slot :
          /\ wait[i].task = NoTask
          /\ wait' = [wait EXCEPT ![i] =
               [task |-> exec, kind |-> "WaitForObj", cond |-> call.cond, start |-> now]]
    BY <1>7, WaitFacts
  <2>3. wait'[i].task = exec
    BY <1>1, <2>2 DEF TypeOK
  <2>4. \A t \in Task : pc'[t] = "waited" => t = exec \/ pc[t] = "waited"
    BY <1>1, <2>1 DEF TypeOK
  <2>5. PlacesStay
    BY <2>1, <2>3, <2>4 DEF PlacesStay, InSlot
  <2>6. Blocks
    BY <2>1, <2>2 DEF Blocks
  <2> QED
    BY <2>5, <2>6
<1>8. CASE Woken
  <2>1. pc' = [pc EXCEPT ![current] = "user"] /\ UNCHANGED <<wait, result>>
    BY <1>8 DEF Woken, ResultBody, schedVars, taskVars
  <2>2. \/ at' = at
        \/ at' = [at EXCEPT ![exec] = "test"]
        \/ at' = [at EXCEPT ![exec] = "failed"]
    BY <1>8 DEF Woken
  <2>3. \A t \in Task : at'[t] = "wait" => at[t] = "wait"
    BY <1>1, <2>2
  <2>4. \A t \in Task : pc'[t] = "waited" => pc[t] = "waited"
    BY <1>1, <2>1 DEF TypeOK
  <2> QED
    BY <2>1, <2>3, <2>4 DEF PlacesStay, SlotsStay
<1>9. CASE CallInit \/ CallDeinit \/ \E t \in Task : CallTest(t) \/ CallLeave(t)
  BY <1>2, <1>9
  DEF CallInit, CallDeinit, CallTest, CallLeave, Enter, cpuVars, schedVars, taskVars, sectionVars
<1>10. ASSUME NEW t \in Task, Begin(t)
       PROVE  PlacesStay /\ SlotsStay
  <2>1. UNCHANGED <<pc, wait, result>> /\ at' = [at EXCEPT ![t] = "test"]
    BY <1>10 DEF Begin, Moves, vars, cpuVars, schedVars, taskVars
  <2> QED
    BY <1>1, <2>1 DEF PlacesStay, SlotsStay
<1>11. ASSUME NEW t \in Task, CallWaitEvent(t)
       PROVE  PlacesStay /\ SlotsStay
  <2>1. UNCHANGED <<pc, wait, result>> /\ at' = [at EXCEPT ![t] = "wait"] /\ pc[t] = "user"
    BY <1>11 DEF CallWaitEvent, Goes, Moves, Enter, cpuVars, schedVars, taskVars
  <2> QED
    BY <1>1, <2>1 DEF PlacesStay, SlotsStay
<1>12. CASE CallResult /\ UNCHANGED <<sectionVars, poolVars>>
  BY <1>2, <1>12 DEF CallResult, Enter, cpuVars, schedVars, taskVars, sectionVars
<1>13. ASSUME NEW n, CreateEvent(n) \/ OpenEvent(n) \/ DestroyEvent(n) \/ Signal(n)
       PROVE  PlacesStay /\ SlotsStay
  BY <1>2, <1>13
  DEF CreateEvent, OpenEvent, DestroyEvent, PoolStep, Signal, SetEvent, ResetEvent, cpuVars,
      schedVars, taskVars, sectionVars
<1>14. CASE UNCHANGED csVars
  BY <1>2, <1>14 DEF csVars, vars, cpuVars, schedVars, taskVars, sectionVars
<1> QED
  BY <1>3, <1>4, <1>5, <1>6, <1>7, <1>8, <1>9, <1>10, <1>11, <1>12, <1>13, <1>14
  DEF CsNext, SectionBodies, Proceeds, UseHandle, UseStaleHandle

\* When no wait has a timeout, none leaves a timeout behind.
NoTimeouts ==
  /\ \A t \in Task : result[t] = "ObjectSet"
  /\ call.op = "wait" /\ svc = "none" => call.cond.forever
  /\ \A i \in Slot : wait[i].task # NoTask => wait[i].kind = "Sleep" \/ wait[i].cond.forever

ResultsInv ==
  /\ ReturnsSound
  /\ call.op = "suspend" => "suspend" \in Ops
  /\ "suspend" \in Ops => NoTimeouts

\* Where calls come from, and how they go on.
CallGoesOn == (call' = call /\ (svc' = svc \/ svc' # "none")) \/ call' = NoCall
CallBegins ==
  /\ call'.op = "suspend" => "suspend" \in Ops
  /\ call'.op = "wait" => call'.cond \in Conditions \/ call'.cond.forever

LEMMA CallFacts ==
  ASSUME IInv, [CsNext]_csVars
  PROVE  CallGoesOn \/ CallBegins
<1>1. TypeOK
  BY DEF IInv
<1>2. CASE UserCalls \/ CallResult
  <2> USE DEF CallBegins, Enter, NoCall, TaskMayCall, MainMayCall
  <2>1. CASE CallStart
    BY <2>1 DEF CallStart
  <2>2. ASSUME NEW p \in Priorities, NEW b \in BOOLEAN, CallCreate(p, b) PROVE CallBegins
    BY <2>2 DEF CallCreate
  <2>3. ASSUME NEW op \in {"terminate", "suspend", "resume"}, NEW t \in Task, CallOnTask(op, t)
        PROVE  CallBegins
    BY <2>3 DEF CallOnTask
  <2>4. ASSUME NEW d \in SleepTimes, CallSleep(d) PROVE CallBegins
    BY <2>4 DEF CallSleep
  <2>5. ASSUME NEW c \in Conditions, CallWait(c) PROVE CallBegins
    BY <2>5 DEF CallWait
  <2>6. ASSUME NEW op \in TimerOps, NEW x \in Timers, CallTimer(op, x) PROVE CallBegins
    BY <2>6 DEF CallTimer, TimerOps
  <2>7. CASE CallResult
    BY <2>7 DEF CallResult
  <2>8. CASE CallCreateTimer
    BY <2>8 DEF CallCreateTimer
  <2> HIDE DEF CallBegins, Enter, NoCall, TaskMayCall, MainMayCall
  <2> QED
    BY <1>2, <2>1, <2>2, <2>3, <2>4, <2>5, <2>6, <2>7, <2>8 DEF Calls, UserCalls
<1>3. CASE KernelBodies
  <2>1. CASE TimerBodies
    BY <2>1, TimerBodiesFacts DEF Leave, CallGoesOn
  <2>2. CASE ~ TimerBodies
    BY <1>3, <2>2
    DEF KernelBodies, StartBody, CreateRefused, CreateBody, TerminateBody, SuspendBody,
        ResumeRefused, ResumeBody, SleepBody, Leave, Syscall, CallGoesOn
  <2> QED
    BY <2>1, <2>2
<1>4. CASE Handlers
  <2>1. CASE TickSteps
    BY <1>1, <2>1, TickStepsFacts DEF callVars, CallGoesOn
  <2>2. CASE HandleSvc \/ Ticks
    BY <2>2 DEF HandleSvc, Ticks, TickLocked, TickBegin, callVars, CallGoesOn
  <2> QED
    BY <1>4, <2>1, <2>2 DEF Handlers
<1>5. CASE SectionBodies
  BY <1>5
  DEF SectionBodies, InitRefused, InitBody, DeinitBody, TestBody, WaitFails, WaitBody, Woken,
      ResultBody, LeaveBody, Leave, Syscall, CallGoesOn
<1>6. ASSUME CallInit \/ CallDeinit \/ \E t \in Task : CallTest(t) \/ CallLeave(t)
      PROVE  CallBegins
  <2>1. PICK op \in SectionOps : Enter(InCall(op))
    BY <1>6 DEF CallInit, CallDeinit, CallTest, CallLeave, SectionOps
  <2> QED
    BY <2>1 DEF CallBegins, Enter, InCall, NoCall, SectionOps
<1>7. ASSUME NEW t \in Task, CallWaitEvent(t)
      PROVE  CallBegins
  BY <1>7 DEF CallWaitEvent, CallBegins, Enter, InCall, NoCall
<1>8. ASSUME \E t \in Task : Begin(t)
      PROVE  CallGoesOn
  BY <1>8 DEF Begin, vars, callVars, CallGoesOn
<1>9. ASSUME NEW n, CreateEvent(n) \/ OpenEvent(n) \/ DestroyEvent(n) \/ Signal(n)
      PROVE  CallGoesOn
  BY <1>9
  DEF CreateEvent, OpenEvent, DestroyEvent, PoolStep, Signal, SetEvent, ResetEvent, callVars,
      CallGoesOn
<1>10. CASE UNCHANGED csVars
  BY <1>10 DEF csVars, vars, callVars, CallGoesOn
<1> QED
  BY <1>2, <1>3, <1>4, <1>5, <1>6, <1>7, <1>8, <1>9, <1>10
  DEF CsNext, Proceeds, UseHandle, UseStaleHandle

\* Without suspend: the wait of enter ends by the event only.
LEMMA ReturnsNext ==
  ASSUME IInv, SectionInv, EnterSound, ReturnsSound, call.op # "suspend", [CsNext]_csVars
  PROVE  ReturnsSound'
<1>1. TypeOK /\ WaitListSound
  BY DEF IInv, Lists
<1>2. PlacesStay /\ (SlotsStay \/ Blocks \/ Unwaits \/ Wakes)
  BY StepFacts
<1> SUFFICES ASSUME NEW t \in Task, Returning(t)' PROVE result'[t] = "ObjectSet"
  BY DEF ReturnsSound
<1>3. /\ at'[t] = "wait" /\ pc'[t] = "waited" /\ at[t] = "wait" /\ pc[t] = "waited"
      /\ t # NoTask
  BY <1>2, ConstantTypes DEF Returning, PlacesStay
<1>4. \A i \in Slot : wait'[i].task # t
  BY DEF Returning, InSlot
<1>5. ~ InSlot(t) => result[t] = "ObjectSet"
  BY <1>3 DEF ReturnsSound, Returning
<1>6. CASE SlotsStay
  BY <1>4, <1>5, <1>6 DEF SlotsStay, InSlot
<1>7. CASE Blocks
  <2>1. \A i \in Slot : wait[i].task # NoTask => wait'[i] = wait[i]
    BY <1>1, <1>7 DEF Blocks, TypeOK
  <2> QED
    BY <1>3, <1>4, <1>5, <1>7, <2>1 DEF Blocks, InSlot
<1>8. CASE Unwaits
  <2>1. t # call.id
    BY <1>3, <1>8 DEF Unwaits
  <2> QED
    BY <1>3, <1>4, <1>5, <1>8, <2>1 DEF Unwaits, InSlot
<1>9. CASE Wakes
  <2>1. PICK i \in Slot, u \in Task, res \in {"ObjectSet", "TimeoutOccurred"} :
          /\ wait[i].task = u /\ wait' = [wait EXCEPT ![i] = FreeSlot]
          /\ result' = [result EXCEPT ![u] = res]
          /\ res = "TimeoutOccurred" => wait[i].kind # "Sleep" /\ ~ wait[i].cond.forever
    BY <1>9 DEF Wakes
  <2>2. CASE t = u
    <3>1. InSlot(t)
      BY <2>1, <2>2 DEF InSlot
    <3>2. wait[i].cond = SectionWait
      BY <1>3, <2>1, <2>2, <3>1 DEF EnterSound, WaitersSound, Blocking, Blocked
    <3>3. res = "ObjectSet"
      BY <2>1, <3>2 DEF SectionWait
    <3> QED
      BY <1>1, <2>1, <2>2, <3>3 DEF TypeOK
  <2>3. CASE t # u
    <3>1. ~ InSlot(t)
      BY <1>1, <1>4, <2>1, <2>3 DEF InSlot, TypeOK
    <3> QED
      BY <1>1, <1>5, <2>1, <2>3, <3>1 DEF TypeOK
  <2> QED
    BY <2>2, <2>3
<1> QED
  BY <1>2, <1>6, <1>7, <1>8, <1>9

\* Without timeouts: every wait ends by its objects.
LEMMA TimeoutsNext ==
  ASSUME IInv, SectionInv, EnterSound, NoTimeouts, \A c \in Conditions : c.forever,
         [CsNext]_csVars
  PROVE  NoTimeouts'
<1>1. TypeOK
  BY DEF IInv
<1>2. SlotsStay \/ Blocks \/ Unwaits \/ Wakes
  BY StepFacts
<1>3. (call.op = "wait" /\ svc = "none" => call.cond.forever)'
  BY CallFacts DEF CallGoesOn, CallBegins, NoTimeouts, NoCall
<1>4. CASE SlotsStay
  BY <1>3, <1>4 DEF SlotsStay, NoTimeouts
<1>5. CASE Blocks
  <2>1. PICK i \in Slot, kind \in {"Sleep", "WaitForObj"} :
          /\ wait' = [wait EXCEPT ![i] =
               [task |-> exec, kind |-> kind, cond |-> call.cond, start |-> now]]
          /\ kind = "WaitForObj" => call.op = "wait" /\ svc = "none"
    BY <1>5 DEF Blocks
  <2>2. kind = "Sleep" \/ call.cond.forever
    BY <2>1 DEF NoTimeouts
  <2>3. ASSUME NEW j \in Slot, wait'[j].task # NoTask
        PROVE  wait'[j].kind = "Sleep" \/ wait'[j].cond.forever
    BY <1>1, <2>1, <2>2, <2>3 DEF NoTimeouts, TypeOK
  <2> QED
    BY <1>3, <1>5, <2>3 DEF Blocks, NoTimeouts
<1>6. CASE Unwaits
  BY <1>3, <1>6 DEF Unwaits, NoTimeouts, FreeSlot
<1>7. CASE Wakes
  <2>1. PICK i \in Slot, u \in Task, res \in {"ObjectSet", "TimeoutOccurred"} :
          /\ wait[i].task = u /\ wait' = [wait EXCEPT ![i] = FreeSlot]
          /\ result' = [result EXCEPT ![u] = res]
          /\ res = "TimeoutOccurred" => wait[i].kind # "Sleep" /\ ~ wait[i].cond.forever
    BY <1>7 DEF Wakes
  <2>2. res = "ObjectSet"
    BY <2>1, ConstantTypes DEF NoTimeouts
  <2>3. \A j \in Slot : wait'[j] = wait[j] \/ wait'[j] = FreeSlot
    BY <1>1, <2>1 DEF TypeOK
  <2> QED
    BY <1>1, <1>3, <2>1, <2>2, <2>3 DEF NoTimeouts, FreeSlot, TypeOK
<1> QED
  BY <1>2, <1>4, <1>5, <1>6, <1>7

LEMMA ResultsNext ==
  ASSUME NoStaleResult, IInv, SectionInv, EnterSound, ResultsInv, [CsNext]_csVars
  PROVE  ResultsInv'
<1>1. (call.op = "suspend" => "suspend" \in Ops)'
  BY CallFacts DEF CallGoesOn, CallBegins, ResultsInv, NoCall
<1>2. CASE "suspend" \in Ops
  <2>1. NoTimeouts'
    BY <1>2, TimeoutsNext DEF NoStaleResult, ResultsInv
  <2> QED
    BY <1>1, <2>1 DEF ResultsInv, NoTimeouts, ReturnsSound
<1>3. CASE "suspend" \notin Ops
  BY <1>1, <1>3, ReturnsNext DEF ResultsInv
<1> QED
  BY <1>2, <1>3

LEMMA InitResults == CsInit => ResultsInv
<1> SUFFICES ASSUME CsInit PROVE ResultsInv
  OBVIOUS
<1>1. /\ call.op = "none" /\ \A t \in Task : at[t] = "out" /\ result[t] = "ObjectSet"
      /\ \A i \in Slot : wait[i].task = NoTask
  BY DEF CsInit, Init, FreeSlot, NoCall
<1> QED
  BY <1>1 DEF ResultsInv, ReturnsSound, Returning, NoTimeouts

-------------------------------------------------------------------------------
(* No wake-up is lost. *)

\* The result of a wait stays until the next one ends.
ResultsStay == \A t \in Task : ~ InSlot(t) => result'[t] = result[t]

LEMMA StepKeepsResults ==
  ASSUME IInv, SectionInv, EnterSound, [CsNext]_csVars
  PROVE  ResultsStay
<1>1. TypeOK /\ (SlotsStay \/ Blocks \/ Unwaits \/ Wakes)
  BY StepFacts DEF IInv
<1>2. CASE SlotsStay \/ Blocks \/ Unwaits
  BY <1>2 DEF SlotsStay, Blocks, Unwaits, ResultsStay
<1>3. CASE Wakes
  <2>1. PICK i \in Slot, u \in Task, res \in {"ObjectSet", "TimeoutOccurred"} :
          wait[i].task = u /\ result' = [result EXCEPT ![u] = res]
    BY <1>3 DEF Wakes
  <2> QED
    BY <1>1, <2>1 DEF ResultsStay, InSlot, TypeOK
<1> QED
  BY <1>1, <1>2, <1>3

\* Nobody who uses the section moves, nobody who returns waits again, and the
\* event is not reset.
LEMMA QuietWakeup ==
  ASSUME SectionInv, WakeupInv, ResultsStay, UNCHANGED <<at, lockCount, sectionEvent>>,
         \A t \in Task : Returning(t) => Returning(t)',
         Initialised /\ event[sectionEvent] => event'[sectionEvent]
  PROVE  WakeupInv'
<1>0. \A t \in Task : Tests(t) => Tests(t)'
  BY DEF Tests, Returning, ResultsStay
<1>1. ASSUME lockCount = 0, NEW t \in Task, Missed(t)'
      PROVE  event'[sectionEvent] \/ \E u \in Task : Heading(u)'
  <2>1. Missed(t) /\ Initialised
    BY <1>0, <1>1 DEF Missed, SectionInv, Unused
  <2>2. event[sectionEvent] \/ \E u \in Task : Heading(u)
    BY <1>1, <2>1 DEF WakeupInv
  <2>3. \A u \in Task : Heading(u) => Heading(u)'
    BY <1>0 DEF Heading
  <2> QED
    BY <2>1, <2>2, <2>3
<1> QED
  BY <1>1 DEF WakeupInv

\* A task that returns rests.
LEMMA RestsKeepsReturning ==
  ASSUME Rests, NEW t \in Task, Returning(t)
  PROVE  Returning(t)'
<1>1. ~ InSlot(t)'
  BY RestsKeepsSlots DEF Returning
<1> QED
  BY <1>1 DEF Rests, Returning

\* The section's event is one of the kernel's.
LEMMA EventIsEvent ==
  ASSUME PoolInv, Initialised
  PROVE  sectionEvent \in Events /\ Handle(EventType, GetId(sectionEvent)) = sectionEvent
<1>1. PICK i \in EventIds : sectionEvent = Handle(EventType, i)
  BY DEF PoolInv, PoolType
<1> QED
  BY <1>1, HandleFacts, SectionWaitType

\* The handler that resets the section's event has woken a task of enter.
LEMMA SignalKeepsWakeup ==
  ASSUME IInv, SectionInv, PoolInv, SectionOwns, EnterSound, WakeupInv, ResultsStay, Handlers,
         SlotSignaled
  PROVE  WakeupInv'
<1>1. /\ TypeOK /\ WaitListSound /\ scan \in Slot /\ wait[scan].task # NoTask
      /\ Fulfilled(wait[scan]) /\ Wake(scan, "ObjectSet")
      /\ event' = [e \in Events |->
           event[e] /\ ~ (e \in Consumed(wait[scan].cond) /\ e \notin Manual)]
      /\ UNCHANGED <<at, pc, spins, lockCount, sectionEvent, held>>
  BY DEF IInv, Lists, SlotSignaled, Handlers, sectionVars, poolVars
<1>2. Rests
  BY <1>1, KernelRests
<1> DEFINE t == wait[scan].task
<1>3. /\ t \in Task /\ wait' = [wait EXCEPT ![scan] = FreeSlot]
      /\ result' = [result EXCEPT ![t] = "ObjectSet"]
  BY <1>1, WakeFacts
<1>4. CASE Initialised /\ sectionEvent \in Consumed(wait[scan].cond)
  <2>1. at[t] = "wait"
    <3> SUFFICES ASSUME at[t] # "wait" PROVE FALSE
      OBVIOUS
    <3>1. wait[scan].kind = "WaitForObj" /\ Holds(wait[scan].cond)
      BY <1>1 DEF EnterSound, OthersSound, Fulfilled
    <3>2. wait[scan].cond.objs \in Seq(Handles) /\ wait[scan].cond.objs # <<>>
      BY <1>1, <3>1 DEF TypeOK, Condition, Holds
    <3>3. \E k \in DOMAIN wait[scan].cond.objs : wait[scan].cond.objs[k] = sectionEvent
      BY <1>4, <3>2 DEF Consumed
    <3>4. sectionEvent \in held
      BY <1>4, <3>1, <3>3, EventIsEvent DEF Holds
    <3> QED
      BY <1>4, <3>4 DEF SectionOwns
  <2>2. pc[t] = "waited"
    BY <1>1, <1>3, <2>1 DEF EnterSound, WaitersSound, Blocking, Blocked, InSlot
  <2>3. \A i \in Slot : wait'[i].task # t
    BY <1>1, <1>3 DEF WaitListSound, TypeOK, FreeSlot
  <2>4. PICK u \in Task : u = t
    BY <1>3
  <2>5. Heading(u)'
    BY <1>1, <1>3, <2>1, <2>2, <2>3, <2>4 DEF Heading, Tests, Returning, InSlot, TypeOK
  <2> QED
    BY <2>5 DEF WakeupInv
<1>5. CASE ~ (Initialised /\ sectionEvent \in Consumed(wait[scan].cond))
  <2>1. Initialised => event'[sectionEvent] = event[sectionEvent]
    BY <1>1, <1>5, EventIsEvent DEF TypeOK
  <2> QED
    BY <1>1, <1>2, <2>1, QuietWakeup, RestsKeepsReturning
<1> QED
  BY <1>4, <1>5

\* The kernel's other steps leave the events alone.
LEMMA KernelEvents ==
  ASSUME KernelBodies \/ (Handlers /\ ~ SlotSignaled)
  PROVE  UNCHANGED <<event, at, spins, lockCount, sectionEvent, held>>
<1>1. UNCHANGED <<at, spins, lockCount, sectionEvent, held>>
  BY DEF KernelBodies, Handlers, sectionVars, poolVars
<1>2. CASE TimerBodies
  BY <1>1, <1>2, TimerBodiesFacts
<1>3. CASE KernelBodies /\ ~ TimerBodies
  BY <1>1, <1>3
  DEF KernelBodies, StartBody, CreateRefused, CreateBody, TerminateBody, SuspendBody,
      ResumeRefused, ResumeBody, SleepBody, objVars
<1>4. CASE Handlers /\ ~ SlotSignaled
  BY <1>1, <1>4
  DEF Handlers, HandleSvc, Ticks, TickLocked, TickBegin, TickSteps, SlotPasses, SlotExpires,
      TickEndsSlice, TickEnds, objVars
<1> QED
  BY <1>2, <1>3, <1>4

LEMMA KernelKeepsWakeup ==
  ASSUME IInv, SectionInv, PoolInv, SectionOwns, EnterSound, WakeupInv, ResultsStay,
         KernelBodies \/ Handlers
  PROVE  WakeupInv'
<1>1. CASE Handlers /\ SlotSignaled
  BY <1>1, SignalKeepsWakeup
<1>2. CASE SleepBody /\ KernelBodies
  <2>1. UNCHANGED <<event, at, lockCount, sectionEvent, pc>>
    BY <1>2, KernelEvents DEF SleepBody, cpuVars
  <2>2. exec \in Task /\ exec = current /\ pc[exec] = "user"
    BY <1>2, CallerFacts DEF EnterSound, CallersSound, SleepBody, Body
  <2>3. \A i \in Slot : wait'[i] = wait[i] \/ wait'[i].task = exec
    <3>1. TypeOK /\ ReadyListsSound /\ Block("Sleep")
      BY <1>2 DEF IInv, Lists, SleepBody
    <3>2. CASE FreeSlots = {}
      BY <3>1, <3>2 DEF Block
    <3>3. CASE FreeSlots # {}
      <4>1. PICK i \in Slot :
              wait' = [wait EXCEPT ![i] =
                [task |-> current, kind |-> "Sleep", cond |-> call.cond, start |-> now]]
        BY <3>1, <3>3, BlockFacts
      <4> QED
        BY <2>2, <3>1, <4>1 DEF TypeOK
    <3> QED
      BY <3>2, <3>3
  <2>4. \A t \in Task : Returning(t) => Returning(t)'
    BY <2>1, <2>2, <2>3 DEF Returning, InSlot
  <2> QED
    BY <2>1, <2>4, QuietWakeup
<1>3. CASE (KernelBodies /\ ~ SleepBody) \/ (Handlers /\ ~ SlotSignaled)
  <2>1. UNCHANGED <<event, at, spins, lockCount, sectionEvent, held>>
    BY <1>3, KernelEvents
  <2>2. Rests
    BY <1>3, <2>1, KernelRests
  <2> QED
    BY <2>1, <2>2, QuietWakeup, RestsKeepsReturning
<1> QED
  BY <1>1, <1>2, <1>3

\* A handle that has been misused has been misused for ever.
LEMMA MisuseStays ==
  ASSUME misused, [CsNext]_csVars
  PROVE  misused'
<1>1. ASSUME NEW n, CreateEvent(n) \/ OpenEvent(n) PROVE misused'
  BY <1>1 DEF CreateEvent, OpenEvent
<1>2. ASSUME NEW h, UseHandle(h) \/ UseStaleHandle(h) PROVE misused'
  BY <1>2, Zenon DEF UseHandle, UseStaleHandle
<1>3. ASSUME UNCHANGED misused PROVE misused'
  BY <1>3
<1>4. CASE UserCalls \/ KernelBodies \/ Handlers \/ CallInit \/ CallDeinit
  BY <1>3, <1>4 DEF UserCalls, KernelBodies, Handlers, CallInit, CallDeinit, poolVars
<1>5. CASE SectionBodies
  BY <1>3, <1>5
  DEF SectionBodies, InitRefused, InitBody, DeinitBody, TestBody, WaitFails, Woken, LeaveBody,
      poolVars
<1>6. ASSUME NEW t \in Task, Begin(t) \/ Proceeds(t) \/ CallLeave(t) PROVE misused'
  BY <1>3, <1>6 DEF Begin, Proceeds, CallTest, CallWaitEvent, CallLeave, poolVars
<1>7. CASE UNCHANGED csVars
  BY <1>3, <1>7 DEF csVars, poolVars
<1> QED
  BY <1>1, <1>2, <1>4, <1>5, <1>6, <1>7 DEF CsNext

\* Every step of the program that keeps stale handles off the section's event
\* keeps it.
LEMMA WakeupNext ==
  ASSUME IInv, SectionInv, PoolInv, EnterSound, WakeupInv, [CsNext]_csVars, ~ misused'
  PROVE  WakeupInv'
<1>0. ResultsStay /\ SectionOwns
  BY StepKeepsResults, MisuseStays DEF PoolInv
<1>1. TypeOK /\ SectionCallSound /\ at \in [Task -> Places]
  BY DEF IInv, SectionInv
<1>2. ASSUME UNCHANGED <<at, pc, wait, lockCount, sectionEvent, event>>
      PROVE  WakeupInv'
  BY <1>0, <1>2, QuietWakeup DEF Returning, InSlot
<1>3. CASE UserCalls
  <2>1. PICK c : Enter(c)
    BY <1>3, UserCallFacts
  <2> QED
    BY <1>2, <1>3, <2>1 DEF UserCalls, Enter, cpuVars, schedVars, objVars, sectionVars
<1>4. CASE KernelBodies \/ Handlers
  BY <1>0, <1>4, KernelKeepsWakeup
<1>5. CASE InitRefused
  BY <1>2, <1>5 DEF InitRefused, cpuVars, schedVars, objVars, sectionVars
<1>6. CASE InitBody \/ DeinitBody
  <2>1. \A t \in Task : at'[t] = "out"
    BY <1>1, <1>6 DEF InitBody, DeinitBody, Body, SectionCallSound, SectionInv, Unused
  <2> QED
    BY <2>1 DEF WakeupInv, Missed
<1>7. CASE TestBody
  <2>1. lockCount' # 0
    BY <1>7 DEF TestBody
  <2> QED
    BY <2>1 DEF WakeupInv
<1>8. CASE LeaveBody
  <2>1. /\ event' = [event EXCEPT ![Handle(EventType, GetId(sectionEvent))] =
                       @ \/ lockCount' = 0]
        /\ sectionEvent' = sectionEvent /\ Initialised
    BY <1>1, <1>8 DEF LeaveBody, Body, SectionCallSound
  <2>2. lockCount' = 0 => event'[sectionEvent] = TRUE
    BY <1>1, <2>1, EventIsEvent DEF TypeOK
  <2> QED
    BY <2>1, <2>2 DEF WakeupInv
<1>9. CASE WaitFails
  <2>1. /\ exec \in Task /\ pc[exec] = "user" /\ pc' = [pc EXCEPT ![exec] = "waited"]
        /\ UNCHANGED <<at, lockCount, sectionEvent, event>>
    BY <1>9, WaitFacts
  <2>2. PICK i \in Slot :
          wait' = [wait EXCEPT ![i] =
            [task |-> exec, kind |-> "WaitForObj", cond |-> call.cond, start |-> now]]
    BY <1>9, WaitFacts
  <2>3. \A j \in Slot : wait'[j] = wait[j] \/ wait'[j].task = exec
    BY <1>1, <2>2 DEF TypeOK
  <2>4. \A t \in Task : Returning(t) => Returning(t)'
    BY <1>1, <2>1, <2>3 DEF Returning, InSlot, TypeOK
  <2> QED
    BY <1>0, <2>1, <2>4, QuietWakeup
<1>10. CASE Woken
  <2>1. /\ Body("result") /\ pc' = [pc EXCEPT ![exec] = "user"] /\ exec = current
        /\ exec \in Task /\ pc[exec] = "waited" /\ ~ InSlot(exec)
        /\ UNCHANGED <<wait, lockCount, sectionEvent, event>>
    <3>1. Body("result") /\ exec \in Task /\ pc[exec] = "waited"
      BY <1>10 DEF Woken, ResultBody, Body, EnterSound, CallersSound
    <3> QED
      BY <1>10, <3>1, CallerFacts DEF Woken, ResultBody, Body, schedVars, objVars
  <2>2. CASE at[exec] = "wait"
    <3>1. PICK t \in Task : t = exec
      BY <2>1
    <3>2. CASE result[t] = "ObjectSet"
      <4>1. Heading(t)'
        BY <1>1, <1>10, <2>1, <2>2, <3>1, <3>2 DEF Woken, Heading
      <4> QED
        BY <4>1 DEF WakeupInv
    <3>3. CASE result[t] # "ObjectSet"
      <4>1. at' = [at EXCEPT ![t] = "failed"]
        BY <1>10, <2>1, <2>2, <3>1, <3>3 DEF Woken
      <4>2. ~ Heading(t) /\ ~ Missed(t)'
        BY <1>1, <2>2, <3>1, <3>3, <4>1 DEF Heading, Tests, Missed
      <4>3. \A u \in Task : u # t => /\ at'[u] = at[u] /\ pc'[u] = pc[u]
                                    /\ (InSlot(u)' <=> InSlot(u))
        BY <1>1, <2>1, <3>1, <4>1 DEF InSlot, TypeOK
      <4>4. \A u \in Task : u # t => (Tests(u)' <=> Tests(u)) \/ InSlot(u)
        BY <1>0, <4>3 DEF Tests, Returning, ResultsStay
      <4>5. \A u \in Task : u # t => (Tests(u)' <=> Tests(u))
        BY <4>3, <4>4 DEF Tests, Returning
      <4>6. \A u \in Task : u # t => (Heading(u)' <=> Heading(u)) /\ (Missed(u)' <=> Missed(u))
        BY <4>3, <4>5 DEF Heading, Missed
      <4> QED
        BY <2>1, <4>2, <4>6 DEF WakeupInv
    <3> QED
      BY <3>2, <3>3
  <2>3. CASE at[exec] # "wait"
    <3>1. at' = at
      BY <1>10, <2>3 DEF Woken
    <3>2. \A t \in Task : Returning(t) => Returning(t)'
      BY <1>1, <2>1, <2>3, <3>1 DEF Returning, InSlot, TypeOK
    <3> QED
      BY <1>0, <2>1, <3>1, <3>2, QuietWakeup
  <2> QED
    BY <2>2, <2>3
<1>11. CASE CallInit \/ CallDeinit \/ \E t \in Task : CallTest(t) \/ CallLeave(t)
  BY <1>2, <1>11
  DEF CallInit, CallDeinit, CallTest, CallLeave, Enter, cpuVars, schedVars, objVars, sectionVars
<1>12. ASSUME NEW t \in Task, Begin(t) PROVE WakeupInv'
  <2>1. Heading(t)'
    BY <1>1, <1>12 DEF Begin, Moves, Heading
  <2> QED
    BY <2>1 DEF WakeupInv
<1>13. ASSUME NEW t \in Task, CallWaitEvent(t) PROVE WakeupInv'
  <2>1. /\ at[t] = "spun" /\ at' = [at EXCEPT ![t] = "wait"]
        /\ UNCHANGED <<pc, wait, lockCount, sectionEvent, event>>
    BY <1>13 DEF CallWaitEvent, Goes, Moves, Enter, cpuVars, schedVars, objVars
  <2>2. \A u \in Task : Heading(u) => Heading(u)'
    BY <1>0, <1>1, <2>1 DEF Heading, Tests, Returning, InSlot, ResultsStay
  <2>3. Missed(t)
    BY <2>1 DEF Missed
  <2> QED
    BY <2>1, <2>2, <2>3 DEF WakeupInv
<1>14. CASE CallResult /\ UNCHANGED <<sectionVars, poolVars>>
  BY <1>2, <1>14 DEF CallResult, Enter, cpuVars, schedVars, objVars, sectionVars
<1>15. ASSUME NEW n, CreateEvent(n) \/ OpenEvent(n) \/ DestroyEvent(n)
       PROVE  WakeupInv'
  <2>1. UNCHANGED <<at, pc, wait, lockCount, sectionEvent>>
    BY <1>15
    DEF CreateEvent, OpenEvent, DestroyEvent, PoolStep, cpuVars, schedVars, sectionVars
  <2>2. Initialised => event'[sectionEvent] = event[sectionEvent]
    <3>1. CASE CreateEvent(n)
      <4>1. NewId \in EventIds \ evAlloc /\ event' = [event EXCEPT ![NewHandle] = FALSE]
        BY <3>1, NewIdIsFree DEF CreateEvent, Allocate
      <4>2. Initialised => sectionEvent # NewHandle
        BY <1>0, <4>1, HandleFacts DEF PoolInv, PoolType, SectionOwns, NewHandle
      <4> QED
        BY <1>1, <4>1, <4>2, EventIsEvent DEF TypeOK
    <3>2. CASE OpenEvent(n) \/ DestroyEvent(n)
      BY <3>2 DEF OpenEvent, DestroyEvent
    <3> QED
      BY <1>15, <3>1, <3>2
  <2> QED
    BY <1>0, <2>1, <2>2, QuietWakeup DEF Returning, InSlot
<1>16. ASSUME NEW h, Signal(h), h # sectionEvent PROVE WakeupInv'
  <2>1. /\ UNCHANGED <<at, pc, wait, lockCount, sectionEvent>>
        /\ event' = [event EXCEPT ![h] = TRUE] \/ event' = [event EXCEPT ![h] = FALSE]
    BY <1>16 DEF Signal, SetEvent, ResetEvent, cpuVars, schedVars, sectionVars
  <2>2. Initialised => event'[sectionEvent] = event[sectionEvent]
    BY <1>1, <1>16, <2>1, EventIsEvent DEF TypeOK
  <2> QED
    BY <1>0, <2>1, <2>2, QuietWakeup DEF Returning, InSlot
<1>17. ASSUME NEW h \in held, UseHandle(h) PROVE WakeupInv'
  <2>1. h # sectionEvent
    <3>1. PICK i \in EventIds : h = Handle(EventType, i)
      BY DEF PoolInv, PoolType
    <3>2. h # NoEvent
      BY <3>1, HandleFacts
    <3> QED
      BY <1>0, <3>2 DEF SectionOwns, Initialised
  <2> QED
    BY <1>15, <1>16, <1>17, <2>1 DEF UseHandle
<1>18. ASSUME NEW h \in stale, UseStaleHandle(h) PROVE WakeupInv'
  <2>1. h # sectionEvent
    BY <1>18, UseFacts
  <2> QED
    BY <1>15, <1>16, <1>18, <2>1 DEF UseStaleHandle
<1>19. CASE UNCHANGED csVars
  BY <1>2, <1>19 DEF csVars, vars, cpuVars, schedVars, objVars, sectionVars
<1> QED
  BY <1>3, <1>4, <1>5, <1>6, <1>7, <1>8, <1>9, <1>10, <1>11, <1>12, <1>13, <1>14, <1>15, <1>17,
     <1>18, <1>19
  DEF CsNext, SectionBodies, Proceeds

\* Only a task that has not blocked, or returns with another result, fails.
LEMMA FailNext ==
  ASSUME IInv, SectionInv, EnterSound, ReturnsSound, EnterNeverFails, [CsNext]_csVars
  PROVE  EnterNeverFails'
<1>1. at \in [Task -> Places]
  BY DEF SectionInv
<1>2. ASSUME \/ at' = at
             \/ \E t \in Task, place \in Places \ {"failed"} : at' = [at EXCEPT ![t] = place]
      PROVE  EnterNeverFails'
  BY <1>1, <1>2 DEF EnterNeverFails
<1>3. CASE UserCalls \/ KernelBodies \/ Handlers
  BY <1>2, <1>3 DEF UserCalls, KernelBodies, Handlers, sectionVars
<1>4. CASE InitRefused \/ InitBody \/ DeinitBody
  BY <1>2, <1>4 DEF InitRefused, InitBody, DeinitBody, sectionVars
<1>5. CASE TestBody \/ LeaveBody
  <2>1. exec \in Task /\ \E place \in Places \ {"failed"} : at' = [at EXCEPT ![exec] = place]
    BY <1>5
    DEF TestBody, LeaveBody, Body, Moves, SectionInv, SectionCallSound, Places
  <2> QED
    BY <1>2, <2>1
<1>6. CASE WaitFails
  BY <1>2, <1>6, WaitFacts
<1>7. CASE Woken
  <2>1. exec \in Task /\ pc[exec] = "waited" /\ ~ InSlot(exec) /\ exec = current
    <3>1. Body("result") /\ exec \in Task /\ pc[exec] = "waited"
      BY <1>7 DEF Woken, ResultBody, Body, EnterSound, CallersSound
    <3> QED
      BY <3>1, CallerFacts DEF Body
  <2>2. at[exec] = "wait" => result[current] = "ObjectSet"
    BY <2>1 DEF ReturnsSound, Returning
  <2>3. at' = at \/ at' = [at EXCEPT ![exec] = "test"]
    BY <1>7, <2>2 DEF Woken
  <2> QED
    BY <1>2, <2>1, <2>3 DEF Places
<1>8. CASE CallInit \/ CallDeinit \/ \E t \in Task : CallTest(t) \/ CallLeave(t)
  BY <1>2, <1>8 DEF CallInit, CallDeinit, CallTest, CallLeave, sectionVars
<1>9. ASSUME NEW t \in Task, Begin(t) \/ CallWaitEvent(t) PROVE EnterNeverFails'
  BY <1>2, <1>9 DEF Begin, CallWaitEvent, Moves, Places
<1>10. CASE CallResult /\ UNCHANGED <<sectionVars, poolVars>>
  BY <1>2, <1>10 DEF sectionVars
<1>11. ASSUME NEW n, CreateEvent(n) \/ OpenEvent(n) \/ DestroyEvent(n) \/ Signal(n)
       PROVE  EnterNeverFails'
  BY <1>2, <1>11 DEF CreateEvent, OpenEvent, DestroyEvent, PoolStep, Signal, sectionVars
<1>12. CASE UNCHANGED csVars
  BY <1>2, <1>12 DEF csVars, sectionVars
<1> QED
  BY <1>3, <1>4, <1>5, <1>6, <1>7, <1>8, <1>9, <1>10, <1>11, <1>12
  DEF CsNext, SectionBodies, Proceeds, UseHandle, UseStaleHandle

\* A task in a wait slot has not been woken since it failed its test, and one
\* that is on its way to a test is in no wait slot.
LEMMA WakeupSuffices ==
  ASSUME misused \/ WakeupInv
  PROVE  NoLostWakeup
<1> SUFFICES ASSUME WakeupInv, lockCount = 0, NEW t \in Task, Waits(t), ~ event[sectionEvent]
             PROVE  \E u \in Task : at[u] \in {"test", "wait"} /\ ~ Waits(u)
  BY DEF NoLostWakeup
<1>1. Missed(t)
  BY DEF Waits, Missed, Tests, Returning, InSlot
<1>2. PICK u \in Task : Heading(u)
  BY <1>1 DEF WakeupInv
<1>3. at[u] \in {"test", "wait"} /\ ~ Waits(u)
  BY <1>2 DEF Heading, Tests, Returning, InSlot, Waits
<1> QED
  BY <1>3

LEMMA InitWakeup == CsInit => WakeupInv /\ EnterNeverFails
BY DEF CsInit, WakeupInv, Missed, EnterNeverFails

-------------------------------------------------------------------------------
(* The theorems. *)

BaseInv == IInv /\ SectionInv /\ PoolInv /\ EnterSound

LEMMA BaseHolds ==
  ASSUME StartsInTime
  PROVE  CsSpec => []BaseInv
<1>1. CsInit => BaseInv
  BY InitInv, InitSection, InitPool, InitSound DEF CsInit, BaseInv
<1>2. BaseInv /\ [CsNext]_csVars => BaseInv'
  BY KernelNext, SectionNext, PoolNext, SoundNext DEF BaseInv
<1> QED
  BY <1>1, <1>2, PTL DEF CsSpec

\* What the kernel promises holds around the section as well: its calls and its
\* event leave the lists, the lock and the processor as the kernel expects them.
THEOREM KernelStaysSound ==
  ASSUME StartsInTime
  PROVE  CsSpec => [](/\ TypeOK /\ LockDiscipline /\ ReadyListsSound /\ WaitListSound
                      /\ NoLostTask /\ RunningIsReady /\ NoMissedWake /\ SlotsSuffice)
<1>1. BaseInv => /\ TypeOK /\ LockDiscipline /\ ReadyListsSound /\ WaitListSound
                 /\ NoLostTask /\ RunningIsReady /\ NoMissedWake /\ SlotsSuffice
  <2> SUFFICES ASSUME BaseInv
               PROVE  NoMissedWake /\ SlotsSuffice
    BY DEF BaseInv, IInv, Control, Lists
  <2>1. NoMissedWake
    BY KernelAssumption DEF BaseInv, IInv, ScanSound, NoMissedWake, Slot
  <2>2. SlotsSuffice
    BY SomeSlotFree DEF BaseInv, SlotsSuffice
  <2> QED
    BY <2>1, <2>2
<1> QED
  BY <1>1, BaseHolds, PTL

\* A step of the program moves tasks as TaskLife says, or none.
LEMMA SectionLives ==
  ASSUME IInv, [CsNext]_csVars
  PROVE  [Life!Next]_(Life!vars)
<1>1. ASSUME [Next]_vars PROVE [Life!Next]_(Life!vars)
  BY <1>1, StepLives
<1>2. CASE UserCalls \/ KernelBodies \/ WaitFails \/ Woken \/ Handlers
  BY <1>1, <1>2 DEF UserCalls, KernelBodies, WaitFails, Woken, Handlers, Next, Bodies
<1>3. ASSUME NEW t \in Task, Proceeds(t) \/ Begin(t) \/ CallLeave(t)
      PROVE  [Life!Next]_(Life!vars)
  <2>1. CASE CallResult
    BY <1>1, <2>1 DEF Next, Calls
  <2>2. CASE ~ CallResult
    <3>1. UNCHANGED <<schedVars, taskVars>>
      BY <1>3, <2>2
      DEF Proceeds, Begin, CallTest, CallWaitEvent, CallLeave, Enter, vars
    <3> QED
      BY <3>1, QuietLife DEF schedVars, taskVars
  <2> QED
    BY <2>1, <2>2
<1>4. CASE InitRefused \/ InitBody \/ DeinitBody \/ TestBody \/ LeaveBody \/ CallInit \/ CallDeinit
  <2>1. UNCHANGED <<schedVars, taskVars>>
    BY <1>4 DEF InitRefused, InitBody, DeinitBody, TestBody, LeaveBody, CallInit, CallDeinit, Enter
  <2> QED
    BY <2>1, QuietLife DEF schedVars, taskVars
<1>5. ASSUME NEW n, CreateEvent(n) \/ OpenEvent(n) \/ DestroyEvent(n) \/ Signal(n)
      PROVE  [Life!Next]_(Life!vars)
  <2>1. UNCHANGED <<schedVars, taskVars>>
    BY <1>5
    DEF CreateEvent, OpenEvent, DestroyEvent, PoolStep, Signal, SetEvent, ResetEvent
  <2> QED
    BY <2>1, QuietLife DEF schedVars, taskVars
<1>6. CASE UNCHANGED csVars
  BY <1>1, <1>6 DEF csVars
<1> QED
  BY <1>2, <1>3, <1>4, <1>5, <1>6 DEF CsNext, SectionBodies, UseHandle, UseStaleHandle

\* Tasks that enter and leave the section live as the kernel promises.
THEOREM SectionImplementsTaskLife ==
  ASSUME StartsInTime
  PROVE  CsSpec => ImplementsTaskLife
<1>1. CsInit => Life!Init
  BY LifeBegins DEF CsInit
<1>2. BaseInv /\ [CsNext]_csVars => [Life!Next]_(Life!vars)
  BY SectionLives DEF BaseInv
<1> QED
  BY <1>1, <1>2, BaseHolds, PTL DEF CsSpec, ImplementsTaskLife, Life!Spec

\* A step of the program takes the kernel lock, releases it, or leaves it alone.
LEMMA SectionLocks ==
  ASSUME IInv, [CsNext]_csVars
  PROVE  [Lock!Next]_<<Owner, exec>>
<1>0. LockDiscipline /\ MaxTasks # exec /\ lock \in {0, 1}
  <2>1. MaxTasks \notin Task \cup {Main}
    BY KernelAssumption DEF Task, Main
  <2> QED
    BY <2>1 DEF IInv, Control, TypeOK, LockDiscipline
<1>1. ASSUME [Next]_vars PROVE [Lock!Next]_<<Owner, exec>>
  BY <1>1, StepLocks
<1>2. ASSUME UNCHANGED <<lock, exec>> PROVE [Lock!Next]_<<Owner, exec>>
  BY <1>2 DEF Owner
<1>3. ASSUME InUserCode, NEW c, Enter(c) PROVE Lock!Next
  <2>1. lock = 0 /\ lock' = 1 /\ exec' = exec
    BY <1>0, <1>3 DEF InUserCode, LockDiscipline, Enter, cpuVars
  <2> QED
    BY <2>1 DEF Lock!Next, Lock!Acquire, Owner
<1>4. ASSUME NEW op \in SectionOps, Body(op), Leave, UNCHANGED exec PROVE Lock!Next
  <2>1. lock = 1 /\ lock' = 0
    BY <1>0, <1>4 DEF Body, NoCall, SectionOps, LockDiscipline, Leave
  <2> QED
    BY <1>0, <1>4, <2>1 DEF Lock!Next, Lock!Release, Owner
<1>5. CASE UserCalls \/ KernelBodies \/ WaitFails \/ Woken \/ Handlers
  BY <1>1, <1>5 DEF UserCalls, KernelBodies, WaitFails, Woken, Handlers, Next, Bodies
<1>6. ASSUME NEW t \in Task, Proceeds(t) \/ Begin(t) \/ CallLeave(t)
      PROVE  [Lock!Next]_<<Owner, exec>>
  <2>1. CASE CallResult
    BY <1>1, <2>1 DEF Next, Calls
  <2>2. CASE Begin(t)
    BY <1>2, <2>2 DEF Begin, vars, callVars, cpuVars
  <2>3. CASE CallTest(t) \/ CallWaitEvent(t) \/ CallLeave(t)
    <3>1. InUserCode /\ \E c : Enter(c)
      BY <2>3 DEF CallTest, CallWaitEvent, CallLeave, Goes
    <3> QED
      BY <1>3, <3>1
  <2> QED
    BY <1>6, <2>1, <2>2, <2>3 DEF Proceeds
<1>7. CASE CallInit \/ CallDeinit
  <2>1. InUserCode /\ \E c : Enter(c)
    BY <1>7 DEF CallInit, CallDeinit
  <2> QED
    BY <1>3, <2>1
<1>8. CASE InitRefused \/ InitBody \/ DeinitBody \/ TestBody \/ LeaveBody
  <2>1. UNCHANGED exec /\ Leave /\ \E op \in SectionOps : Body(op)
    BY <1>8 DEF InitRefused, InitBody, DeinitBody, TestBody, LeaveBody, SectionOps, cpuVars
  <2> QED
    BY <1>4, <2>1
<1>9. ASSUME NEW n, CreateEvent(n) \/ OpenEvent(n) \/ DestroyEvent(n) \/ Signal(n)
      PROVE  [Lock!Next]_<<Owner, exec>>
  <2>1. UNCHANGED <<callVars, cpuVars>>
    BY <1>9
    DEF CreateEvent, OpenEvent, DestroyEvent, PoolStep, Signal, SetEvent, ResetEvent
  <2> QED
    BY <1>2, <2>1 DEF callVars, cpuVars
<1>10. CASE UNCHANGED csVars
  BY <1>1, <1>10 DEF csVars
<1> QED
  BY <1>5, <1>6, <1>7, <1>8, <1>9, <1>10 DEF CsNext, SectionBodies, UseHandle, UseStaleHandle

\* The calls of the section use the kernel lock as the calls of the kernel do.
THEOREM SectionUsesLock ==
  ASSUME StartsInTime
  PROVE  CsSpec => Lock!Spec
<1>1. CsInit => Lock!Init
  BY DEF CsInit, Init, Lock!Init, Owner
<1>2. BaseInv /\ [CsNext]_csVars => [Lock!Next]_<<Owner, exec>>
  BY SectionLocks DEF BaseInv
<1> QED
  BY <1>1, <1>2, BaseHolds, PTL DEF CsSpec, Lock!Spec

\* A task that waits in enter waits for the section's event and for nothing
\* else, whatever is done to the pool; and no other task waits for that event
\* before a handle that outlived another event is used on it.
WaitsAreOwn ==
  \A i \in Slot : wait[i].task # NoTask /\ wait[i].kind = "WaitForObj" =>
    IF at[wait[i].task] = "wait" THEN wait[i].cond = SectionWait
    ELSE Initialised /\ ~ misused =>
           \A k \in DOMAIN wait[i].cond.objs : wait[i].cond.objs[k] # sectionEvent
THEOREM SectionWaitsAreOwn ==
  ASSUME StartsInTime
  PROVE  CsSpec => []WaitsAreOwn
<1>1. BaseInv => WaitsAreOwn
  <2> SUFFICES ASSUME BaseInv, NEW i \in Slot, wait[i].task # NoTask, wait[i].kind = "WaitForObj"
               PROVE  IF at[wait[i].task] = "wait" THEN wait[i].cond = SectionWait
                      ELSE Initialised /\ ~ misused =>
                        \A k \in DOMAIN wait[i].cond.objs : wait[i].cond.objs[k] # sectionEvent
    BY DEF WaitsAreOwn
  <2>1. wait[i].task \in Task
    BY DEF BaseInv, IInv, TypeOK
  <2>2. CASE at[wait[i].task] = "wait"
    <3>1. InSlot(wait[i].task)
      BY DEF InSlot
    <3> QED
      BY <2>1, <2>2, <3>1 DEF BaseInv, EnterSound, WaitersSound, Blocking, Blocked
  <2>3. CASE at[wait[i].task] # "wait"
    <3>1. Holds(wait[i].cond)
      BY <2>3 DEF BaseInv, EnterSound, OthersSound
    <3>2. Initialised /\ ~ misused => sectionEvent \in Events /\ sectionEvent \notin held
      BY EventIsEvent DEF BaseInv, PoolInv, SectionOwns
    <3> QED
      BY <2>3, <3>1, <3>2 DEF Holds
  <2> QED
    BY <2>2, <2>3
<1> QED
  BY <1>1, BaseHolds, PTL

WakeInv == BaseInv /\ (misused \/ WakeupInv)

LEMMA WakeHolds ==
  ASSUME StartsInTime
  PROVE  CsSpec => []WakeInv
<1>1. CsInit => WakeInv
  BY InitInv, InitSection, InitPool, InitSound, InitWakeup DEF CsInit, BaseInv, WakeInv
<1>2. WakeInv /\ [CsNext]_csVars => WakeInv'
  BY KernelNext, SectionNext, PoolNext, SoundNext, MisuseStays, WakeupNext DEF BaseInv, WakeInv
<1> QED
  BY <1>1, <1>2, PTL DEF CsSpec

\* No wake-up is lost between the test in enter and the wait, or between the
\* consumption of the event and the next test: when the section is free and a
\* task waits for it, the event is set or a task is on its way to a test, as
\* long as no handle that outlived another event is used on the section's.
THEOREM NoWakeupIsLost ==
  ASSUME StartsInTime
  PROVE  CsSpec => []NoLostWakeup
<1>1. WakeInv => NoLostWakeup
  BY WakeupSuffices DEF WakeInv
<1> QED
  BY <1>1, WakeHolds, PTL

EnterInv == BaseInv /\ ResultsInv /\ EnterNeverFails

LEMMA EnterHolds ==
  ASSUME StartsInTime, NoStaleResult
  PROVE  CsSpec => []EnterInv
<1>1. CsInit => EnterInv
  BY InitInv, InitSection, InitPool, InitSound, InitResults, InitWakeup
  DEF CsInit, BaseInv, EnterInv
<1>2. EnterInv /\ [CsNext]_csVars => EnterInv'
  BY KernelNext, SectionNext, PoolNext, SoundNext, ResultsNext, FailNext
  DEF BaseInv, EnterInv, ResultsInv
<1> QED
  BY <1>1, <1>2, PTL DEF CsSpec

\* enter never reaches its critical error: there is a wait slot for every task,
\* and the wait for the event ends as ObjectSet only.
THEOREM EnterDoesNotFail ==
  ASSUME StartsInTime, NoStaleResult
  PROVE  CsSpec => []EnterNeverFails
<1>1. EnterInv => EnterNeverFails
  BY DEF EnterInv
<1> QED
  BY <1>1, EnterHolds, PTL
===============================================================================
