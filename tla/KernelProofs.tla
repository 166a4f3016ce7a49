----------------------------- MODULE KernelProofs -----------------------------
(***************************************************************************)
(* Safety of the kernel for every number of tasks, every set of events,    *)
(* queues and timers and every width of the time, provided that main calls *)
(* kernel::start before the time slice of the boot has elapsed             *)
(* (StartsInTime; run kernel_boot shows what happens otherwise).           *)
(***************************************************************************)
EXTENDS Kernel, ReadyListProofs, FiniteSetTheorems, WellFoundedInduction

StartsInTime == BootTicks <= Interval + 1

\* What an API call under way has checked, or found, when it took the lock.
CallSound ==
  /\ call.op # "none" /\ svc = "none" =>
       /\ call.op \in {"terminate", "suspend", "resume"} => call.id \in alloc \ {Idle}
       /\ call.op \in {"suspend", "resume", "sleep", "wait", "result"} => started
       /\ call.op \in {"sleep", "wait"} => exec # Idle
  /\ svc # "none" => started

\* Before kernel::start the time slice of the boot is not over.
BootSound ==
  ~ started =>
    /\ exec = Main /\ current = Idle /\ old = 0
    /\ now <= BootTicks /\ (scan # Thread => now < BootTicks)

\* The task of a wait slot is marked Waiting: resume refuses it.
WaitersMarked == \A i \in Slot : wait[i].task # NoTask => state[wait[i].task] = "Waiting"

\* The slots the tick handler has gone through hold no wait that is due.
ScanSound == \A i \in Slot : i < scan => ~ Due(wait[i])

Control == LockDiscipline /\ CallSound /\ BootSound
Lists == ReadyListsSound /\ WaitListSound /\ WaitersMarked /\ NoLostTask /\ RunningIsReady
IInv == TypeOK /\ Control /\ Lists /\ ScanSound

-------------------------------------------------------------------------------
(* The operators of the kernel. *)

\* A non-empty set of naturals has a least element.
LEMMA LeastFacts ==
  ASSUME NEW S \in SUBSET Nat, S # {}
  PROVE  Least(S) \in S /\ \A j \in S : Least(S) <= j
<1> DEFINE R == {ss \in Nat \X Nat : ss[1] < ss[2]}
<1>1. IsWellFoundedOn(R, Nat)
  BY NatLessThanWellFounded DEF OpToRel
<1>2. PICK i \in S : \A j \in S : ~ (<<j, i>> \in R)
  BY <1>1, WFMin
<1>3. ASSUME NEW j \in S PROVE i <= j
  <2>1. i \in Nat /\ j \in Nat /\ <<j, i>> \in Nat \X Nat
    OBVIOUS
  <2>2. ~ (j < i)
    BY <1>2, <2>1
  <2> QED
    BY <2>1, <2>2
<1> QED
  BY <1>3 DEF Least

\* When a task is ready, Top is the highest priority that has one.
LEMMA TopFacts ==
  ASSUME NEW r, SomeReady(r)
  PROVE  /\ Top(r) \in Priority /\ r[Top(r)].list # <<>>
         /\ \A q \in Priority : q < Top(r) => r[q].list = <<>>
<1> DEFINE P(p) == r[p].list # <<>> /\ \A q \in Priority : q < p => r[q].list = <<>>
<1>1. \E p \in Priority : P(p)
  <2>1. Priority = {0, 1, 2, 3}
    BY DEF Priority
  <2>2. CASE r[0].list # <<>>
    BY <2>1, <2>2
  <2>3. CASE r[0].list = <<>> /\ r[1].list # <<>>
    BY <2>1, <2>3
  <2>4. CASE r[0].list = <<>> /\ r[1].list = <<>> /\ r[2].list # <<>>
    BY <2>1, <2>4
  <2>5. CASE r[0].list = <<>> /\ r[1].list = <<>> /\ r[2].list = <<>> /\ r[3].list # <<>>
    BY <2>1, <2>5
  <2> QED
    BY <2>1, <2>2, <2>3, <2>4, <2>5 DEF SomeReady
<1> QED
  BY <1>1 DEF Top

\* Removing a task from the list of its priority removes it from every list.
LEMMA UnreadyFacts ==
  ASSUME TypeOK, ReadyListsSound, NEW t \in Task
  PROVE  /\ Unready(t) \in [Priority -> ListOf(Task)]
         /\ \A p \in Priority :
              /\ Sound(Unready(t)[p])
              /\ Elems(Unready(t)[p]) = Elems(ready[p]) \ {t}
              /\ ready[p].cur \in Elems(ready[p]) \ {t} => Unready(t)[p].cur = ready[p].cur
<1> DEFINE q == prio[t]
           u == Unready(t)
<1>1. q \in Priority /\ ready \in [Priority -> ListOf(Task)]
  BY DEF TypeOK, ListOf
<1>2. \A p \in Priority : ready[p] \in ListOf(Task) /\ Sound(ready[p])
  BY <1>1 DEF ReadyListsSound, Sound, Distinct, CursorSound
<1>3. u = [ready EXCEPT ![q] = RemoveTask(ready[q], t)]
  BY DEF Unready
<1>4. u[q] = RemoveTask(ready[q], t) /\ \A p \in Priority : p # q => u[p] = ready[p]
  BY <1>1, <1>3
<1>5. /\ u[q] \in ListOf(Task) /\ Sound(u[q]) /\ Elems(u[q]) = Elems(ready[q]) \ {t}
      /\ ready[q].cur \in Elems(ready[q]) \ {t} => u[q].cur = ready[q].cur
  BY <1>1, <1>2, <1>4, RemoveTaskFacts
<1>6. \A p \in Priority : p # q => t \notin Elems(ready[p])
  BY DEF ReadyListsSound
<1>7. u \in [Priority -> ListOf(Task)]
  BY <1>1, <1>3, <1>4, <1>5
<1> QED
  BY <1>2, <1>4, <1>5, <1>6, <1>7

\* The ready lists with t added to that of priority q.
WithReady(q, t) == [ready EXCEPT ![q] = AddTask(ready[q], t)]

\* Adding a task that is not in the list.
LEMMA ReadyFacts ==
  ASSUME TypeOK, ReadyListsSound, NEW t \in Task, NEW q \in Priority, t \notin Elems(ready[q])
  PROVE  /\ WithReady(q, t) \in [Priority -> ListOf(Task)]
         /\ \A p \in Priority :
              /\ Sound(WithReady(q, t)[p])
              /\ \A x : x \in Elems(WithReady(q, t)[p]) <=>
                         x \in Elems(ready[p]) \/ (p = q /\ x = t)
              /\ ready[p].cur \in Elems(ready[p]) => WithReady(q, t)[p].cur = ready[p].cur
<1> DEFINE u == WithReady(q, t)
<1>1. ready \in [Priority -> ListOf(Task)]
  BY DEF TypeOK, ListOf
<1>2. \A p \in Priority : ready[p] \in ListOf(Task) /\ Sound(ready[p])
  BY <1>1 DEF ReadyListsSound, Sound, Distinct, CursorSound
<1>3. u[q] = AddTask(ready[q], t) /\ \A p \in Priority : p # q => u[p] = ready[p]
  BY <1>1 DEF WithReady
<1>4. /\ u[q] \in ListOf(Task) /\ Sound(u[q]) /\ Elems(u[q]) = Elems(ready[q]) \cup {t}
      /\ u[q].cur = IF ready[q].list = <<>> THEN t ELSE ready[q].cur
  BY <1>2, <1>3, AddTaskFacts
<1>5. ready[q].cur \in Elems(ready[q]) => ready[q].list # <<>>
  BY <1>2, ElemsEmpty
<1>6. u \in [Priority -> ListOf(Task)]
  BY <1>1, <1>3, <1>4 DEF WithReady
<1> QED
  BY <1>2, <1>3, <1>4, <1>5, <1>6

\* wait_list::removeTask frees the one slot that holds the task.
LEMMA UnwaitFacts ==
  ASSUME TypeOK, WaitListSound, NEW t \in Task
  PROVE  Unwait(t) = [i \in Slot |-> IF wait[i].task = t THEN FreeSlot ELSE wait[i]]
<1> DEFINE held == {i \in Slot : wait[i].task = t}
<1>1. wait = [i \in Slot |-> wait[i]] /\ t # NoTask
  BY DEF TypeOK, Task, NoTask
<1>2. CASE held = {}
  BY <1>1, <1>2 DEF Unwait
<1>3. ASSUME NEW i \in held PROVE Unwait(t) = [wait EXCEPT ![i] = FreeSlot] /\ held = {i}
  <2>1. held = {i}
    BY <1>1 DEF WaitListSound
  <2>2. Least(held) = i
    BY <2>1 DEF Least, Slot
  <2> QED
    BY <2>1, <2>2 DEF Unwait
<1>4. ASSUME NEW i \in held PROVE Unwait(t) = [j \in Slot |-> IF wait[j].task = t THEN FreeSlot ELSE wait[j]]
  BY <1>1, <1>3, <1>4
<1> QED
  BY <1>2, <1>4

\* blocking the caller takes a free slot and removes it from its ready list.
LEMMA BlockFacts ==
  ASSUME TypeOK, ReadyListsSound, NEW kind, Block(kind), FreeSlots # {}
  PROVE  \E i \in Slot :
           /\ wait[i].task = NoTask
           /\ wait' = [wait EXCEPT ![i] =
                [task |-> current, kind |-> kind, cond |-> call.cond, start |-> now]]
           /\ ready' = Unready(current)
           /\ state' = [state EXCEPT ![current] = "Waiting"]
<1>1. FreeSlots \in SUBSET Nat
  BY KernelAssumption DEF FreeSlots, Slot
<1>2. Least(FreeSlots) \in FreeSlots
  BY <1>1, LeastFacts
<1> QED
  BY <1>2 DEF Block, FreeSlots

\* The lowest free task id is a task id.
LEMMA NewIdFacts ==
  ASSUME TypeOK, alloc # Task
  PROVE  Least(Task \ alloc) \in Task \ alloc
<1>1. Task \ alloc \in SUBSET Nat
  BY KernelAssumption DEF Task
<1>2. Task \ alloc # {}
  BY DEF TypeOK
<1> QED
  BY <1>1, <1>2, LeastFacts

\* create makes an unused id a task; no list can refuse it.
LEMMA CreateFacts ==
  ASSUME TypeOK, ReadyListsSound, CreateBody
  PROVE  \E t \in Task \ alloc :
           /\ \A p \in Priority : t \notin Elems(ready[p])
           /\ alloc' = alloc \cup {t}
           /\ prio' = [prio EXCEPT ![t] = call.prio]
           /\ state' = [state EXCEPT ![t] = IF call.susp THEN "Suspended" ELSE "Ready"]
           /\ pc' = [pc EXCEPT ![t] = "user"]
           /\ ready' = IF call.susp THEN ready
                       ELSE WithReady(call.prio, t)
           /\ IF started /\ Preempts(call.prio) /\ ~ call.susp
                THEN Syscall("ExecuteContextSwitch") ELSE Leave
<1> DEFINE t == Least(Task \ alloc)
<1>1. t \in Task \ alloc
  BY NewIdFacts DEF CreateBody
<1>2. \A p \in Priority : t \notin Elems(ready[p])
  BY <1>1 DEF ReadyListsSound
<1>3. call.prio \in Priority
  BY DEF TypeOK
<1> HIDE DEF t
<1> QED
  BY <1>1, <1>2, <1>3 DEF CreateBody, WithReady, t

\* A wake-up moves a task from its slot to its ready list; no list can
\* refuse it.
LEMMA WakeFacts ==
  ASSUME TypeOK, WaitListSound, NEW i \in Slot, wait[i].task # NoTask, NEW res, Wake(i, res)
  PROVE  \E t \in Task :
           /\ wait[i].task = t /\ t \notin Elems(ready[prio[t]])
           /\ ready' = WithReady(prio[t], t)
           /\ state' = [state EXCEPT ![t] = "Ready"]
           /\ result' = [result EXCEPT ![t] = res]
           /\ signal' = [signal EXCEPT ![t] = 0]
           /\ wait' = [wait EXCEPT ![i] = FreeSlot]
<1>1. wait[i].task \in Task /\ wait[i].task \notin Elems(ready[prio[wait[i].task]])
  BY DEF TypeOK, WaitListSound
<1> QED
  BY <1>1 DEF Wake, WithReady

-------------------------------------------------------------------------------
(* Types. *)

LEMMA ConstantTypes ==
  /\ Idle \in Task /\ 0 \in Time /\ 0 \in Slot /\ MaxTasks \in Nat
  /\ NoCondition \in Condition /\ NoTask \notin Task /\ Main \notin Task
  /\ IdlePriority \in Priority /\ Priorities \subseteq Priority
  /\ SleepTimes \subseteq Time /\ Conditions \subseteq Condition
BY KernelAssumption
DEF Idle, Task, Slot, Time, NoCondition, Condition, NoTask, Main, IdlePriority, Priority

\* The states of a timer, "Free" for an id that is not allocated.
TimerState == {"Free", "Stopped", "Started", "Finished"}

LEMMA InitType == Init => TypeOK
<1> SUFFICES ASSUME Init PROVE TypeOK
  OBVIOUS
<1>1. ready \in [Priority -> [list : Seq(Task), cur : Task \cup {NoTask}]]
  BY ConstantTypes DEF Init, EmptyList
<1>2. wait \in [Slot -> [task : Task \cup {NoTask}, kind : {"free", "Sleep", "WaitForObj"},
                        cond : Condition, start : Time]]
  BY ConstantTypes DEF Init, FreeSlot
<1>3. timer \in [Timers -> [state : TimerState, start : Time, seen : Time]]
  BY ConstantTypes DEF Init, FreeTimer, TimerState
<1>4. call \in [op : {"none", "start", "create", "terminate", "suspend", "resume", "sleep",
                      "wait", "result", "timerCreate"} \cup TimerOps \cup SectionOps,
                id : Task, prio : Priority, susp : BOOLEAN,
                cond : Condition, obj : Timers \cup {NoHandle}]
  BY ConstantTypes DEF Init, NoCall
<1>5. /\ pc \in [Task -> {"user", "waited"}]
      /\ prio \in [Task -> Priority]
      /\ state \in [Task -> {"Suspended", "Waiting", "Ready", "Running"}]
      /\ result \in [Task -> {"ObjectSet", "TimeoutOccurred", "WaitFailed"}]
      /\ signal \in [Task -> Nat]
      /\ event \in [Events -> BOOLEAN]
      /\ queue \in [Queues -> 0 .. QueueMax]
  BY ConstantTypes, KernelAssumption DEF Init, Priority
<1> QED
  BY <1>1, <1>2, <1>3, <1>4, <1>5, ConstantTypes, ZenonT(40) DEF Init, TypeOK, TimerState

CallType == [op : {"none", "start", "create", "terminate", "suspend", "resume", "sleep",
                    "wait", "result", "timerCreate"} \cup TimerOps \cup SectionOps,
             id : Task, prio : Priority, susp : BOOLEAN,
             cond : Condition, obj : Timers \cup {NoHandle}]

\* Taking the lock for a well-typed call.
LEMMA EnterType ==
  ASSUME TypeOK, NEW c \in CallType, Enter(c)
  PROVE  TypeOK'
BY SMTT(30) DEF TypeOK, CallType, Enter, cpuVars, timeVars, schedVars, taskVars, objVars

\* What the bodies of the timer calls have in common.
LEMMA TimerBodiesFacts ==
  ASSUME TimerBodies
  PROVE  /\ \E op \in TimerOps \cup {"timerCreate"} : Body(op)
         /\ Leave
         /\ UNCHANGED <<cpuVars, timeVars, schedVars, taskVars, event, queue>>
BY DEF TimerBodies, CreateTimerRefused, CreateTimerBody, TimerBody, objVars

\* Every call is well typed.
LEMMA CallsType == TypeOK /\ Calls => TypeOK'
<1> SUFFICES ASSUME TypeOK, Calls PROVE \E c \in CallType : Enter(c)
  BY EnterType
<1> USE ConstantTypes DEF CallType, NoCall, TimerOps
<1>1. CASE CallStart
  BY <1>1 DEF CallStart
<1>2. ASSUME NEW p \in Priorities, NEW s \in BOOLEAN, CallCreate(p, s)
      PROVE  \E c \in CallType : Enter(c)
  BY <1>2 DEF CallCreate
<1>3. ASSUME NEW op \in {"terminate", "suspend", "resume"}, NEW t \in Task, CallOnTask(op, t)
      PROVE  \E c \in CallType : Enter(c)
  BY <1>3 DEF CallOnTask
<1>4. ASSUME NEW d \in SleepTimes, CallSleep(d) PROVE \E c \in CallType : Enter(c)
  <2>1. [NoCondition EXCEPT !.interval = d] \in Condition
    BY DEF Condition
  <2> QED
    BY <1>4, <2>1 DEF CallSleep
<1>5. ASSUME NEW c \in Conditions, CallWait(c) PROVE \E d \in CallType : Enter(d)
  BY <1>5 DEF CallWait
<1>6. ASSUME NEW op \in TimerOps, NEW x \in Timers, CallTimer(op, x)
      PROVE  \E c \in CallType : Enter(c)
  BY <1>6 DEF CallTimer
<1>7. CASE CallResult
  BY <1>7 DEF CallResult
<1>8. CASE CallCreateTimer
  BY <1>8 DEF CallCreateTimer
<1> QED
  BY <1>1, <1>2, <1>3, <1>4, <1>5, <1>6, <1>7, <1>8 DEF Calls

\* Requests of a call change its lock, its type not.
LEMMA LeaveType ==
  ASSUME TypeOK, LockDiscipline, call # NoCall, Leave
  PROVE  lock' \in Nat /\ call' \in CallType /\ svc' \in {"none", "LoadNextTask", "ExecuteContextSwitch"}
BY ConstantTypes DEF TypeOK, LockDiscipline, Leave, NoCall, CallType

LEMMA SyscallType ==
  ASSUME TypeOK, NEW id \in {"LoadNextTask", "ExecuteContextSwitch"}, Syscall(id)
  PROVE  lock' \in Nat /\ call' \in CallType /\ svc' \in {"none", "LoadNextTask", "ExecuteContextSwitch"}
BY DEF TypeOK, Syscall, CallType

ReadyType == [Priority -> ListOf(Task)]
SlotType == [task : Task \cup {NoTask}, kind : {"free", "Sleep", "WaitForObj"},
             cond : Condition, start : Time]
WaitType == [Slot -> SlotType]
StateType == [Task -> {"Suspended", "Waiting", "Ready", "Running"}]

LEMMA FreeSlotType == FreeSlot \in SlotType
BY ConstantTypes DEF FreeSlot, SlotType

\* Freeing the slot of a task, or taking one for the caller.
LEMMA UnwaitType ==
  ASSUME TypeOK, WaitListSound, NEW t \in Task
  PROVE  Unwait(t) \in WaitType
<1>1. \A i \in Slot : wait[i] \in SlotType
  BY DEF TypeOK, SlotType
<1>2. \A i \in Slot : (IF wait[i].task = t THEN FreeSlot ELSE wait[i]) \in SlotType
  BY <1>1, FreeSlotType
<1>3. Unwait(t) = [i \in Slot |-> IF wait[i].task = t THEN FreeSlot ELSE wait[i]]
  BY UnwaitFacts
<1> QED
  BY <1>2, <1>3 DEF WaitType

LEMMA BlockType ==
  ASSUME TypeOK, ReadyListsSound, NEW kind \in {"Sleep", "WaitForObj"}, Block(kind)
  PROVE  ready' \in ReadyType /\ wait' \in WaitType /\ state' \in StateType
<1>1. CASE FreeSlots = {}
  BY <1>1 DEF Block, TypeOK, ReadyType, ListOf, WaitType, SlotType, StateType
<1>2. CASE FreeSlots # {}
  <2>1. PICK i \in Slot :
          /\ wait' = [wait EXCEPT ![i] =
               [task |-> current, kind |-> kind, cond |-> call.cond, start |-> now]]
          /\ ready' = Unready(current)
          /\ state' = [state EXCEPT ![current] = "Waiting"]
    BY <1>2, BlockFacts
  <2>2. current \in Task /\ wait \in WaitType /\ state \in StateType
        /\ call.cond \in Condition /\ now \in Time
    BY DEF TypeOK, WaitType, SlotType, StateType
  <2>3. [task |-> current, kind |-> kind, cond |-> call.cond, start |-> now] \in SlotType
    BY <2>2 DEF SlotType
  <2>4. wait' \in WaitType
    BY <2>1, <2>2, <2>3 DEF WaitType
  <2>5. state' \in StateType
    BY <2>1, <2>2 DEF StateType
  <2>6. ready' \in ReadyType
    BY <2>1, <2>2, UnreadyFacts DEF ReadyType
  <2> QED
    BY <2>4, <2>5, <2>6
<1> QED
  BY <1>1, <1>2

\* TypeOK from the types of the variables that bodies change.
LEMMA TypeFrom ==
  ASSUME TypeOK, UNCHANGED <<exec, scan, timeVars, current, result, signal, event, queue>>,
         lock' \in Nat, call' \in CallType,
         svc' \in {"none", "LoadNextTask", "ExecuteContextSwitch"},
         started' \in BOOLEAN, pc' \in [Task -> {"user", "waited"}],
         ready' \in ReadyType, wait' \in WaitType, state' \in StateType,
         alloc' \subseteq Task, prio' \in [Task -> Priority],
         timer' \in [Timers -> [state : TimerState,
                                start : Time, seen : Time]]
  PROVE  TypeOK'
BY DEF TypeOK, TimerState, CallType, ReadyType, ListOf, WaitType, SlotType, StateType, timeVars

LEMMA BodiesType ==
  ASSUME TypeOK, LockDiscipline, ReadyListsSound, WaitListSound, Bodies
  PROVE  TypeOK'
<1>0. /\ lock \in Nat /\ call \in CallType /\ started \in BOOLEAN
      /\ svc \in {"none", "LoadNextTask", "ExecuteContextSwitch"}
      /\ pc \in [Task -> {"user", "waited"}]
      /\ ready \in ReadyType /\ wait \in WaitType /\ state \in StateType
      /\ alloc \subseteq Task /\ prio \in [Task -> Priority]
      /\ timer \in [Timers -> [state : TimerState, start : Time, seen : Time]]
      /\ call.id \in Task /\ current \in Task /\ call.prio \in Priority /\ now \in Time
  BY DEF TypeOK, TimerState, CallType, ReadyType, ListOf, WaitType, SlotType, StateType
<1>a. \A op : Body(op) /\ op # "none" => call # NoCall
  BY DEF Body, NoCall
<1>1. CASE StartBody
  BY <1>0, <1>1, TypeFrom, SyscallType DEF StartBody, schedVars, taskVars, objVars
<1>2. CASE CreateRefused
  BY <1>0, <1>a, <1>2, TypeFrom, LeaveType DEF CreateRefused, cpuVars, schedVars, taskVars, objVars
<1>3. CASE CreateBody
  <2>1. PICK t \in Task \ alloc :
           /\ t \notin Elems(ready[call.prio])
           /\ alloc' = alloc \cup {t}
           /\ prio' = [prio EXCEPT ![t] = call.prio]
           /\ state' = [state EXCEPT ![t] = IF call.susp THEN "Suspended" ELSE "Ready"]
           /\ pc' = [pc EXCEPT ![t] = "user"]
           /\ ready' = IF call.susp THEN ready
                       ELSE WithReady(call.prio, t)
           /\ Syscall("ExecuteContextSwitch") \/ Leave
    BY <1>0, <1>3, CreateFacts
  <2>2. ready' \in ReadyType
    BY <1>0, <2>1, ReadyFacts DEF ReadyType
  <2>3. state' \in StateType /\ prio' \in [Task -> Priority] /\ pc' \in [Task -> {"user", "waited"}]
    BY <1>0, <2>1 DEF StateType
  <2>4. /\ lock' \in Nat /\ call' \in CallType
        /\ svc' \in {"none", "LoadNextTask", "ExecuteContextSwitch"}
    BY <1>a, <1>3, <2>1, LeaveType, SyscallType DEF CreateBody
  <2> QED
    BY <1>0, <1>3, <2>1, <2>2, <2>3, <2>4, TypeFrom DEF CreateBody, objVars
<1>4. CASE TerminateBody
  <2>1. /\ lock' \in Nat /\ call' \in CallType
        /\ svc' \in {"none", "LoadNextTask", "ExecuteContextSwitch"}
    BY <1>a, <1>4, LeaveType, SyscallType DEF TerminateBody
  <2>2. ready' \in ReadyType /\ wait' \in WaitType
    BY <1>0, <1>4, UnreadyFacts, UnwaitType DEF TerminateBody, ReadyType
  <2> QED
    BY <1>0, <1>4, <2>1, <2>2, TypeFrom DEF TerminateBody, cpuVars, objVars
<1>5. CASE SuspendBody
  <2>1. /\ lock' \in Nat /\ call' \in CallType
        /\ svc' \in {"none", "LoadNextTask", "ExecuteContextSwitch"}
    BY <1>a, <1>5, LeaveType, SyscallType DEF SuspendBody
  <2>2. ready' \in ReadyType /\ wait' \in WaitType /\ state' \in StateType
    BY <1>0, <1>5, UnreadyFacts, UnwaitType DEF SuspendBody, ReadyType, StateType
  <2> QED
    BY <1>0, <1>5, <2>1, <2>2, TypeFrom DEF SuspendBody, cpuVars, objVars
<1>6. CASE ResumeRefused
  BY <1>0, <1>a, <1>6, TypeFrom, LeaveType DEF ResumeRefused, cpuVars, schedVars, taskVars, objVars
<1>7. CASE ResumeBody
  <2>1. /\ lock' \in Nat /\ call' \in CallType
        /\ svc' \in {"none", "LoadNextTask", "ExecuteContextSwitch"}
    BY <1>a, <1>7, LeaveType, SyscallType DEF ResumeBody
  <2>2. ready' \in ReadyType /\ state' \in StateType
    BY <1>0, <1>7, ReadyFacts DEF ResumeBody, ReadyType, StateType, WithReady
  <2> QED
    BY <1>0, <1>7, <2>1, <2>2, TypeFrom DEF ResumeBody, cpuVars, objVars
<1>8. CASE SleepBody
  <2>1. /\ lock' \in Nat /\ call' \in CallType
        /\ svc' \in {"none", "LoadNextTask", "ExecuteContextSwitch"}
    BY <1>8, SyscallType DEF SleepBody
  <2>2. ready' \in ReadyType /\ wait' \in WaitType /\ state' \in StateType
    BY <1>8, BlockType DEF SleepBody
  <2> QED
    BY <1>0, <1>8, <2>1, <2>2, TypeFrom DEF SleepBody, cpuVars, objVars
<1>9. CASE WaitBody
  <2>1. /\ lock' \in Nat /\ call' \in CallType
        /\ svc' \in {"none", "LoadNextTask", "ExecuteContextSwitch"}
    BY <1>a, <1>9, LeaveType, SyscallType DEF WaitBody
  <2>2. ready' \in ReadyType /\ wait' \in WaitType /\ state' \in StateType
    BY <1>9, BlockType DEF WaitBody
  <2>3. pc' \in [Task -> {"user", "waited"}]
    BY <1>0, <1>9 DEF WaitBody
  <2> QED
    BY <1>0, <1>9, <2>1, <2>2, <2>3, TypeFrom DEF WaitBody, objVars
<1>10. CASE ResultBody
  <2>1. pc' \in [Task -> {"user", "waited"}]
    BY <1>0, <1>10 DEF ResultBody
  <2> QED
    BY <1>0, <1>a, <1>10, <2>1, TypeFrom, LeaveType DEF ResultBody, schedVars, taskVars, objVars
<1>11. CASE TimerBodies
  <2>1. call # NoCall /\ Leave /\ UNCHANGED <<cpuVars, timeVars, schedVars, taskVars, event, queue>>
    BY <1>11, TimerBodiesFacts DEF Body, NoCall, TimerOps
  <2>2. FreeTimer \in [state : TimerState, start : Time, seen : Time]
    BY ConstantTypes DEF FreeTimer, TimerState
  <2>3. timer' \in [Timers -> [state : TimerState, start : Time, seen : Time]]
    <3>1. CASE CreateTimerRefused
      BY <1>0, <3>1 DEF CreateTimerRefused, objVars
    <3>2. CASE CreateTimerBody
      BY <1>0, <3>2 DEF CreateTimerBody, TimerState
    <3>3. ASSUME NEW op \in TimerOps, TimerBody(op)
          PROVE  timer' \in [Timers -> [state : TimerState, start : Time, seen : Time]]
      <4>1. \A x \in Timers : TimerAfter(op, x) \in [state : TimerState, start : Time, seen : Time]
        BY <1>0, <2>2 DEF TimerAfter, TimerOps, TimerState
      <4> QED
        BY <1>0, <3>3, <4>1 DEF TimerBody
    <3> QED
      BY <1>11, <3>1, <3>2, <3>3 DEF TimerBodies
  <2> QED
    BY <1>0, <2>1, <2>3, TypeFrom, LeaveType DEF cpuVars, schedVars, taskVars
<1> QED
  BY <1>1, <1>2, <1>3, <1>4, <1>5, <1>6, <1>7, <1>8, <1>9, <1>10, <1>11 DEF Bodies

\* The scheduler finds the idle task, or a better one.
LEMMA SchedulerFacts ==
  ASSUME TypeOK, ReadyListsSound
  PROVE  /\ SomeReady(ready) /\ Top(ready) \in Priority
         /\ ready[Top(ready)] \in ListOf(Task) /\ Sound(ready[Top(ready)])
         /\ ready[Top(ready)].list # <<>>
         /\ ready[Top(ready)].cur \in Elems(ready[Top(ready)])
         /\ \A q \in Priority : q < Top(ready) => Elems(ready[q]) = {}
<1>1. \A p \in Priority : ready[p] \in ListOf(Task) /\ Sound(ready[p])
  BY DEF TypeOK, ListOf, ReadyListsSound, Sound, Distinct, CursorSound
<1>2. SomeReady(ready)
  BY <1>1, ElemsEmpty, ConstantTypes DEF SomeReady, ReadyListsSound
<1>3. Top(ready) \in Priority /\ ready[Top(ready)].list # <<>>
      /\ \A q \in Priority : q < Top(ready) => ready[q].list = <<>>
  BY <1>2, TopFacts
<1> QED
  BY <1>1, <1>2, <1>3, ElemsEmpty DEF Sound, CursorSound

\* What the end of a time slice does.
LEMMA SliceFacts ==
  ASSUME TypeOK, ReadyListsSound, TickEndsSlice
  PROVE  \E p \in Priority :
           LET next == Advance(ready[p])
           IN  /\ next \in ListOf(Task) /\ Sound(next) /\ Elems(next) = Elems(ready[p])
               /\ next.cur \in Elems(ready[p]) /\ next.cur \in Task
               /\ \A q \in Priority : q < p => Elems(ready[q]) = {}
               /\ ready' = [ready EXCEPT ![p] = next]
               /\ state' = [[state EXCEPT ![current] = "Ready"] EXCEPT ![next.cur] = "Running"]
               /\ current' = next.cur
               /\ exec' = IF next.cur # current THEN next.cur ELSE exec
<1> DEFINE p == Top(ready)
           next == Advance(ready[p])
<1>1. /\ SomeReady(ready) /\ p \in Priority /\ ready[p] \in ListOf(Task) /\ Sound(ready[p])
      /\ ready[p].list # <<>> /\ \A q \in Priority : q < p => Elems(ready[q]) = {}
  BY SchedulerFacts
<1>2. /\ next \in ListOf(Task) /\ Sound(next) /\ Elems(next) = Elems(ready[p])
      /\ next.cur \in Elems(ready[p])
  BY <1>1, AdvanceFacts
<1>3. next.cur \in Task
  BY <1>1, <1>2, ElemsEmpty
<1>4. /\ ready' = [ready EXCEPT ![p] = next]
      /\ state' = [[state EXCEPT ![current] = "Ready"] EXCEPT ![next.cur] = "Running"]
      /\ current' = next.cur
      /\ exec' = IF next.cur # current THEN next.cur ELSE exec
  BY <1>1 DEF TickEndsSlice
<1> QED
  BY <1>1, <1>2, <1>3, <1>4

LEMMA TimeType == \A t \in Time : (t + 1) % TimeMod \in Time
BY KernelAssumption DEF Time

LEMMA HandleSvcType ==
  ASSUME TypeOK, LockDiscipline, ReadyListsSound, HandleSvc
  PROVE  TypeOK'
<1>1. current' \in Task
  BY SchedulerFacts, ElemsEmpty DEF HandleSvc
<1>2. lock' \in Nat
  BY DEF HandleSvc, LockDiscipline
<1> QED
  BY <1>1, <1>2, ConstantTypes, SMTT(30) DEF HandleSvc, TypeOK, NoCall, timeVars, objVars

LEMMA TicksType ==
  ASSUME TypeOK, Ticks
  PROVE  TypeOK'
<1>1. CASE TickLocked
  BY <1>1, TimeType, SMTT(30) DEF TickLocked, TypeOK, callVars, cpuVars, schedVars, taskVars, objVars
<1>2. CASE TickBegin
  <2>1. timer' \in [Timers -> [state : TimerState, start : Time, seen : Time]]
    <3>1. timer \in [Timers -> [state : TimerState, start : Time, seen : Time]] /\ now \in Time
      BY DEF TypeOK, TimerState
    <3>2. \A x \in Timers : TimerTick(x) \in [state : TimerState, start : Time, seen : Time]
      BY <3>1 DEF TimerTick, TimerState
    <3> QED
      BY <1>2, <3>2 DEF TickBegin
  <2>2. scan' \in {Thread} \cup 0 .. MaxTasks /\ lockedTicks' \in Nat
    <3>1. 0 \in 0 .. MaxTasks
      BY KernelAssumption
    <3>2. scan' = 0 /\ lockedTicks' = 0
      BY <1>2 DEF TickBegin
    <3> QED
      BY <3>1, <3>2
  <2> QED
    BY <1>2, <2>1, <2>2, ZenonT(40) DEF TickBegin, TypeOK, TimerState, callVars, schedVars, taskVars
<1> QED
  BY <1>1, <1>2 DEF Ticks

LEMMA WakeType ==
  ASSUME TypeOK, ReadyListsSound, WaitListSound, NEW i \in Slot, wait[i].task # NoTask,
         NEW res \in {"ObjectSet", "TimeoutOccurred"}, Wake(i, res)
  PROVE  /\ ready' \in ReadyType /\ wait' \in WaitType /\ state' \in StateType
         /\ result' \in [Task -> {"ObjectSet", "TimeoutOccurred", "WaitFailed"}]
         /\ signal' \in [Task -> Nat]
<1>1. PICK t \in Task :
           /\ wait[i].task = t /\ t \notin Elems(ready[prio[t]])
           /\ ready' = WithReady(prio[t], t)
           /\ state' = [state EXCEPT ![t] = "Ready"]
           /\ result' = [result EXCEPT ![t] = res]
           /\ signal' = [signal EXCEPT ![t] = 0]
           /\ wait' = [wait EXCEPT ![i] = FreeSlot]
  BY WakeFacts
<1>2. prio[t] \in Priority
  BY DEF TypeOK
<1>3. ready' \in ReadyType
  BY <1>1, <1>2, ReadyFacts DEF ReadyType
<1>4. wait' \in WaitType
  BY <1>1, FreeSlotType DEF TypeOK, WaitType, SlotType
<1> QED
  BY <1>1, <1>3, <1>4 DEF TypeOK, StateType

LEMMA TickStepsType ==
  ASSUME TypeOK, ReadyListsSound, WaitListSound, TickSteps
  PROVE  TypeOK'
<1>0. MaxTasks \in Nat /\ \A i \in Slot : i \in 0 .. MaxTasks /\ i + 1 \in 0 .. MaxTasks
  BY KernelAssumption DEF Slot
<1>1. CASE SlotPasses
  BY <1>0, <1>1, SMTT(30)
  DEF SlotPasses, NextSlot, TypeOK, callVars, timeVars, schedVars, taskVars, objVars
<1>2. CASE SlotExpires
  <2>1. scan \in Slot /\ wait[scan].task # NoTask
        /\ \E res \in {"ObjectSet", "TimeoutOccurred"} : Wake(scan, res)
    BY <1>2 DEF SlotExpires
  <2>2. /\ ready' \in ReadyType /\ wait' \in WaitType /\ state' \in StateType
        /\ result' \in [Task -> {"ObjectSet", "TimeoutOccurred", "WaitFailed"}]
        /\ signal' \in [Task -> Nat]
    BY <2>1, WakeType
  <2> QED
    BY <1>0, <1>2, <2>1, <2>2, ZenonT(40)
    DEF SlotExpires, NextSlot, TypeOK, callVars, timeVars, objVars,
        ReadyType, ListOf, WaitType, SlotType, StateType
<1>3. CASE SlotSignaled
  <2>1. scan \in Slot /\ wait[scan].task # NoTask
        /\ \E res \in {"ObjectSet", "TimeoutOccurred"} : Wake(scan, res)
    BY <1>3 DEF SlotSignaled
  <2>2. /\ ready' \in ReadyType /\ wait' \in WaitType /\ state' \in StateType
        /\ result' \in [Task -> {"ObjectSet", "TimeoutOccurred", "WaitFailed"}]
        /\ signal' \in [Task -> Nat]
    BY <2>1, WakeType
  <2>3. event' \in [Events -> BOOLEAN]
    BY <1>3 DEF SlotSignaled
  <2>4. timer' \in [Timers -> [state : TimerState, start : Time, seen : Time]]
    <3>1. timer \in [Timers -> [state : TimerState, start : Time, seen : Time]]
      BY DEF TypeOK, TimerState
    <3> QED
      BY <1>3, <3>1 DEF SlotSignaled, TimerState
  <2>5. scan' \in 0 .. MaxTasks
    BY <1>0, <1>3, <2>1 DEF SlotSignaled, NextSlot
  <2>6. UNCHANGED <<callVars, started, exec, pc, timeVars, current, alloc, prio, queue>>
    BY <1>3 DEF SlotSignaled
  <2> QED
    BY <2>2, <2>3, <2>4, <2>5, <2>6, SMTT(30)
    DEF TypeOK, TimerState, callVars, timeVars, ReadyType, ListOf, WaitType, SlotType, StateType
<1>4. CASE TickEndsSlice
  <2>1. PICK p \in Priority :
           LET next == Advance(ready[p])
           IN  /\ next \in ListOf(Task) /\ next.cur \in Task
               /\ ready' = [ready EXCEPT ![p] = next]
               /\ state' = [[state EXCEPT ![current] = "Ready"] EXCEPT ![next.cur] = "Running"]
               /\ current' = next.cur
               /\ exec' = IF next.cur # current THEN next.cur ELSE exec
    BY <1>4, SliceFacts
  <2>2. ready' \in ReadyType
    BY <2>1 DEF TypeOK, ReadyType, ListOf
  <2>3. state' \in StateType
    BY <2>1 DEF TypeOK, StateType
  <2>4. current' \in Task /\ exec' \in Task \cup {Main}
    BY <2>1 DEF TypeOK
  <2>5. now' \in Time /\ old' \in Time /\ scan' \in {Thread} \cup 0 .. MaxTasks
    BY <1>4, TimeType DEF TickEndsSlice, SliceOver, TypeOK
  <2> QED
    BY <1>4, <2>2, <2>3, <2>4, <2>5
    DEF TickEndsSlice, TypeOK, callVars, objVars, ReadyType, ListOf, StateType
<1>5. CASE TickEnds
  BY <1>5, TimeType, SMTT(30) DEF TickEnds, TypeOK, callVars, schedVars, taskVars, objVars
<1> QED
  BY <1>1, <1>2, <1>3, <1>4, <1>5 DEF TickSteps

LEMMA SignalsType ==
  ASSUME TypeOK, Signals
  PROVE  TypeOK'
<1> USE DEF TypeOK, callVars, cpuVars, timeVars, schedVars, taskVars
<1>1. ASSUME NEW e \in Events, SetEvent(e) PROVE TypeOK'
  BY <1>1 DEF SetEvent
<1>2. ASSUME NEW e \in Events, ResetEvent(e) PROVE TypeOK'
  BY <1>2 DEF ResetEvent
<1>3. ASSUME NEW q \in Queues, SendQueue(q) PROVE TypeOK'
  BY <1>3, KernelAssumption, SMTT(30) DEF SendQueue
<1>4. ASSUME NEW q \in Queues, ReceiveQueue(q) PROVE TypeOK'
  BY <1>4, KernelAssumption, SMTT(30) DEF ReceiveQueue
<1> HIDE DEF TypeOK, callVars, cpuVars, timeVars, schedVars, taskVars
<1> QED
  BY <1>1, <1>2, <1>3, <1>4 DEF Signals

\* Every step keeps the types.
LEMMA NextType ==
  ASSUME TypeOK, LockDiscipline, ReadyListsSound, WaitListSound, [Next]_vars
  PROVE  TypeOK'
<1>1. CASE UNCHANGED vars
  BY <1>1 DEF vars, callVars, cpuVars, timeVars, schedVars, taskVars, objVars, TypeOK
<1> QED
  BY <1>1, CallsType, BodiesType, HandleSvcType, TicksType, TickStepsType, SignalsType DEF Next

-------------------------------------------------------------------------------
(* The lock, the call under way and the boot. *)

LEMMA TimeFacts ==
  \A t \in Time : t % TimeMod = t /\ (t + 1) % TimeMod <= t + 1
BY KernelAssumption DEF Time

\* What a call has found when it takes the lock.
LEMMA CallsFacts ==
  ASSUME TypeOK, BootSound, Calls
  PROVE  /\ call = NoCall /\ scan = Thread
         /\ \E c \in CallType :
              /\ Enter(c) /\ c.op # "none"
              /\ c.op \in {"terminate", "suspend", "resume"} => c.id \in alloc \ {Idle}
              /\ c.op \in {"suspend", "resume", "sleep", "wait", "result"} => started
              /\ c.op \in {"sleep", "wait"} => exec # Idle
<1> DEFINE Found(c) ==
      /\ Enter(c) /\ c.op # "none"
      /\ c.op \in {"terminate", "suspend", "resume"} => c.id \in alloc \ {Idle}
      /\ c.op \in {"suspend", "resume", "sleep", "wait", "result"} => started
      /\ c.op \in {"sleep", "wait"} => exec # Idle
<1>0. exec \in Task => started
  BY ConstantTypes DEF BootSound
<1> USE ConstantTypes DEF CallType, NoCall, TimerOps, TaskMayCall, MainMayCall, InUserCode
<1>1. ASSUME CallStart PROVE InUserCode /\ \E c \in CallType : Found(c)
  BY <1>1 DEF CallStart
<1>2. ASSUME NEW p \in Priorities, NEW s \in BOOLEAN, CallCreate(p, s)
      PROVE  InUserCode /\ \E c \in CallType : Found(c)
  BY <1>2 DEF CallCreate
<1>3. ASSUME NEW op \in {"terminate", "suspend", "resume"}, NEW t \in Task, CallOnTask(op, t)
      PROVE  InUserCode /\ \E c \in CallType : Found(c)
  BY <1>3 DEF CallOnTask
<1>4. ASSUME NEW d \in SleepTimes, CallSleep(d)
      PROVE  InUserCode /\ \E c \in CallType : Found(c)
  <2>1. [NoCondition EXCEPT !.interval = d] \in Condition
    BY DEF Condition
  <2> QED
    BY <1>0, <1>4, <2>1 DEF CallSleep
<1>5. ASSUME NEW c \in Conditions, CallWait(c)
      PROVE  InUserCode /\ \E d \in CallType : Found(d)
  BY <1>0, <1>5 DEF CallWait
<1>6. ASSUME NEW op \in TimerOps, NEW x \in Timers, CallTimer(op, x)
      PROVE  InUserCode /\ \E c \in CallType : Found(c)
  BY <1>6 DEF CallTimer
<1>7. ASSUME CallResult PROVE InUserCode /\ \E c \in CallType : Found(c)
  <2>1. started /\ InUserCode /\ Enter([NoCall EXCEPT !.op = "result"])
    BY <1>0, <1>7 DEF CallResult
  <2>2. [NoCall EXCEPT !.op = "result"] \in CallType
    OBVIOUS
  <2> QED
    BY <2>1, <2>2
<1>8. ASSUME CallCreateTimer PROVE InUserCode /\ \E c \in CallType : Found(c)
  BY <1>8 DEF CallCreateTimer
<1>9. InUserCode /\ \E c \in CallType : Found(c)
  BY <1>1, <1>2, <1>3, <1>4, <1>5, <1>6, <1>7, <1>8 DEF Calls
<1> QED
  BY <1>9 DEF InUserCode

\* What all bodies have in common.
LEMMA BodiesFacts ==
  ASSUME TypeOK, CallSound, Bodies
  PROVE  /\ call.op # "none" /\ svc = "none" /\ scan = Thread
         /\ \/ Leave /\ started' = started
            \/ Syscall("ExecuteContextSwitch") /\ started' = started /\ started
            \/ Syscall("LoadNextTask") /\ started'
         /\ UNCHANGED <<exec, scan, timeVars, current>>
<1>1. CASE StartBody
  BY <1>1 DEF StartBody, Body, schedVars
<1>2. CASE CreateRefused
  BY <1>2 DEF CreateRefused, Body, cpuVars, schedVars
<1>3. CASE CreateBody
  BY <1>3 DEF CreateBody, Body
<1>4. CASE TerminateBody
  BY <1>4 DEF TerminateBody, Body, cpuVars
<1>5. CASE SuspendBody
  BY <1>5 DEF SuspendBody, Body, cpuVars, CallSound
<1>6. CASE ResumeRefused
  BY <1>6 DEF ResumeRefused, Body, cpuVars, schedVars
<1>7. CASE ResumeBody
  BY <1>7 DEF ResumeBody, Body, cpuVars, CallSound
<1>8. CASE SleepBody
  BY <1>8 DEF SleepBody, Body, cpuVars, CallSound
<1>9. CASE WaitBody
  BY <1>9 DEF WaitBody, Body, CallSound
<1>10. CASE ResultBody
  BY <1>10 DEF ResultBody, Body, schedVars
<1>11. CASE TimerBodies
  BY <1>11, TimerBodiesFacts DEF Body, TimerOps, cpuVars, schedVars
<1> QED
  BY <1>1, <1>2, <1>3, <1>4, <1>5, <1>6, <1>7, <1>8, <1>9, <1>10, <1>11 DEF Bodies

\* The steps of the tick handler leave the calls alone.
LEMMA TickStepsFacts ==
  ASSUME TypeOK, TickSteps
  PROVE  /\ scan \in 0 .. MaxTasks /\ scan # Thread
         /\ UNCHANGED <<callVars, started, alloc, prio>>
         /\ \/ scan' \in 0 .. MaxTasks /\ UNCHANGED <<now, old, current, exec>>
            \/ scan' = Thread /\ now' = (now + 1) % TimeMod
               /\ (TickEndsSlice \/ UNCHANGED <<old, current, exec>>)
<1>0. /\ MaxTasks \in 0 .. MaxTasks /\ \A i \in 0 .. MaxTasks : i # Thread
      /\ \A i \in Slot : i \in 0 .. MaxTasks /\ i + 1 \in 0 .. MaxTasks
  BY KernelAssumption DEF Slot, Thread
<1>1. CASE SlotPasses
  BY <1>0, <1>1 DEF SlotPasses, NextSlot, timeVars, schedVars, taskVars
<1>2. CASE SlotExpires
  BY <1>0, <1>2 DEF SlotExpires, NextSlot, timeVars
<1>3. CASE SlotSignaled
  BY <1>0, <1>3 DEF SlotSignaled, NextSlot, timeVars
<1>4. CASE TickEndsSlice
  BY <1>0, <1>4 DEF TickEndsSlice
<1>5. CASE TickEnds
  BY <1>0, <1>5 DEF TickEnds, schedVars, taskVars
<1> QED
  BY <1>1, <1>2, <1>3, <1>4, <1>5 DEF TickSteps

\* Every step keeps the lock, the call under way and the boot sound.
LEMMA NextControl ==
  ASSUME StartsInTime, TypeOK, ReadyListsSound, Control, [Next]_vars
  PROVE  Control'
<1>0. LockDiscipline /\ CallSound /\ BootSound /\ (call.op # "none" => call # NoCall)
  BY DEF Control, NoCall
<1>1. CASE Calls
  <2>1. call = NoCall /\ scan = Thread
    BY <1>0, <1>1, CallsFacts
  <2>2. PICK c \in CallType :
              /\ Enter(c) /\ c.op # "none"
              /\ c.op \in {"terminate", "suspend", "resume"} => c.id \in alloc \ {Idle}
              /\ c.op \in {"suspend", "resume", "sleep", "wait", "result"} => started
              /\ c.op \in {"sleep", "wait"} => exec # Idle
    BY <1>0, <1>1, CallsFacts
  <2>3. c # NoCall
    BY <2>2 DEF NoCall
  <2>4. lock = 0 /\ svc = "none"
    BY <1>0, <2>1 DEF LockDiscipline
  <2>5. LockDiscipline'
    BY <2>1, <2>2, <2>3, <2>4 DEF LockDiscipline, Enter, cpuVars
  <2>6. CallSound'
    BY <2>2, <2>4 DEF CallSound, Enter, cpuVars, taskVars
  <2>7. BootSound'
    BY <1>0, <2>2 DEF BootSound, Enter, cpuVars, timeVars, schedVars
  <2> QED
    BY <2>5, <2>6, <2>7 DEF Control
<1>2. CASE Bodies
  <2>1. /\ call.op # "none" /\ svc = "none" /\ scan = Thread
        /\ \/ Leave /\ started' = started
           \/ Syscall("ExecuteContextSwitch") /\ started' = started /\ started
           \/ Syscall("LoadNextTask") /\ started'
        /\ UNCHANGED <<exec, scan, timeVars, current>>
    BY <1>0, <1>2, BodiesFacts
  <2>2. lock = 1 /\ call # NoCall
    BY <1>0, <2>1 DEF LockDiscipline
  <2>3. LockDiscipline'
    BY <2>1, <2>2 DEF LockDiscipline, Leave, Syscall
  <2>4. CallSound'
    BY <2>1 DEF CallSound, Leave, Syscall, NoCall
  <2>5. BootSound'
    BY <1>0, <2>1 DEF BootSound, timeVars
  <2> QED
    BY <2>3, <2>4, <2>5 DEF Control
<1>3. CASE HandleSvc
  <2>1. started /\ lock = 1
    BY <1>0, <1>3 DEF HandleSvc, CallSound, LockDiscipline
  <2> QED
    BY <1>3, <2>1 DEF HandleSvc, Control, LockDiscipline, CallSound, BootSound, NoCall
<1>4. CASE TickLocked
  <2>1. BootSound'
    <3> SUFFICES ASSUME ~ started PROVE BootSound'
      BY <1>4 DEF TickLocked, cpuVars, BootSound
    <3>1. /\ now' = (now + 1) % TimeMod /\ now < BootTicks /\ scan' = Thread
          /\ UNCHANGED <<exec, current, old>> /\ exec = Main /\ current = Idle /\ old = 0
      BY <1>0, <1>4 DEF TickLocked, BootBound, BootSound, cpuVars, schedVars
    <3>2. now \in Nat /\ now' \in Nat /\ now' <= now + 1 /\ BootTicks \in Nat
      <4>1. now \in Time
        BY <1>0 DEF TypeOK
      <4>2. (now + 1) % TimeMod <= now + 1 /\ (now + 1) % TimeMod \in Time
        BY <4>1, TimeFacts, TimeType
      <4>3. Time \subseteq Nat /\ BootTicks \in Nat
        BY KernelAssumption DEF Time
      <4> QED
        BY <3>1, <4>1, <4>2, <4>3
    <3>3. now' <= BootTicks
      BY <3>1, <3>2
    <3> QED
      BY <3>1, <3>3 DEF BootSound
  <2>2. LockDiscipline' /\ CallSound'
    BY <1>0, <1>4 DEF TickLocked, LockDiscipline, CallSound, callVars, cpuVars, taskVars
  <2> QED
    BY <2>1, <2>2 DEF Control
<1>5. CASE TickBegin
  <2>0. lock = 0
    BY <1>5 DEF TickBegin
  <2>1. call = NoCall
    BY <1>0, <2>0 DEF LockDiscipline
  <2>2. BootSound'
    BY <1>0, <1>5 DEF TickBegin, BootBound, BootSound, schedVars, callVars
  <2>3. LockDiscipline' /\ CallSound'
    BY <1>0, <1>5, <2>1 DEF TickBegin, LockDiscipline, CallSound, callVars, taskVars
  <2> QED
    BY <2>2, <2>3 DEF Control
<1>6. CASE TickSteps
  <2>1. /\ scan \in 0 .. MaxTasks /\ scan # Thread
        /\ UNCHANGED <<callVars, started, alloc, prio>>
        /\ \/ scan' \in 0 .. MaxTasks /\ UNCHANGED <<now, old, current, exec>>
           \/ scan' = Thread /\ now' = (now + 1) % TimeMod
              /\ (TickEndsSlice \/ UNCHANGED <<old, current, exec>>)
    BY <1>6, TickStepsFacts
  <2>2. call = NoCall /\ svc = "none"
    BY <1>0, <2>1 DEF LockDiscipline
  <2>3. LockDiscipline' /\ CallSound'
    BY <1>0, <2>1, <2>2 DEF LockDiscipline, CallSound, callVars, NoCall
  <2>4. BootSound'
    <3> SUFFICES ASSUME ~ started PROVE BootSound'
      BY <2>1 DEF BootSound
    <3>1. old = 0 /\ now < BootTicks /\ now \in Time /\ now \in Nat /\ exec = Main /\ current = Idle
      BY <1>0, <2>1 DEF BootSound, TypeOK, Time
    <3>2. Before(now, old) = now
      BY <3>1, TimeFacts DEF Before
    <3>3. ~ TickEndsSlice
      BY <3>1, <3>2, KernelAssumption DEF TickEndsSlice, SliceOver, StartsInTime
    <3>4. (now + 1) % TimeMod <= BootTicks
      <4>1. (now + 1) % TimeMod <= now + 1 /\ (now + 1) % TimeMod \in Nat /\ BootTicks \in Nat
        BY <3>1, TimeFacts, TimeType, KernelAssumption DEF Time
      <4> QED
        BY <3>1, <4>1
    <3>5. CASE scan' \in 0 .. MaxTasks /\ UNCHANGED <<now, old, current, exec>>
      <4>1. now' <= BootTicks /\ now' < BootTicks
        BY <3>1, <3>5, KernelAssumption
      <4> QED
        BY <3>1, <3>5, <4>1 DEF BootSound
    <3>6. CASE scan' = Thread /\ now' = (now + 1) % TimeMod /\ UNCHANGED <<old, current, exec>>
      BY <3>1, <3>4, <3>6 DEF BootSound
    <3> QED
      BY <2>1, <3>3, <3>5, <3>6
  <2> QED
    BY <2>3, <2>4 DEF Control
<1>7. CASE Signals
  BY <1>0, <1>7
  DEF Signals, SetEvent, ResetEvent, SendQueue, ReceiveQueue, Control, LockDiscipline, CallSound,
      BootSound, callVars, cpuVars, timeVars, schedVars, taskVars
<1>8. CASE UNCHANGED vars
  BY <1>0, <1>8
  DEF vars, Control, LockDiscipline, CallSound, BootSound, callVars, cpuVars, timeVars,
      schedVars, taskVars
<1> QED
  BY <1>1, <1>2, <1>3, <1>4, <1>5, <1>6, <1>7, <1>8 DEF Next, Ticks

-------------------------------------------------------------------------------
(* The ready lists, the wait list and the running task. *)

\* Outside of a pending SVC the current task is on its ready list.
LEMMA CurrentListed ==
  ASSUME TypeOK, ReadyListsSound, RunningIsReady, svc = "none"
  PROVE  /\ current \in alloc /\ current \in Elems(ready[prio[current]])
         /\ ready[prio[current]].cur = current
<1>1. /\ current \in Task /\ prio[current] \in Priority /\ current \in alloc
      /\ ready[prio[current]].cur = current
  BY DEF TypeOK, RunningIsReady
<1>2. ready[prio[current]].list # <<>>
  BY <1>1, ConstantTypes DEF ReadyListsSound, EmptyList
<1> QED
  BY <1>1, <1>2 DEF ReadyListsSound

\* A step that moves no task.
LEMMA QuietLists ==
  ASSUME Lists, UNCHANGED <<ready, wait, alloc, prio, state, current>>,
         svc' = "none" => svc = "none" /\ exec' = exec /\ started' = started
  PROVE  Lists'
BY DEF Lists, ReadyListsSound, WaitListSound, WaitersMarked, NoLostTask, RunningIsReady

LEMMA CreateLists ==
  ASSUME TypeOK, Lists, CreateBody
  PROVE  Lists'
<1>0. ReadyListsSound /\ WaitListSound /\ WaitersMarked /\ NoLostTask /\ RunningIsReady
      /\ call.prio \in Priority /\ svc = "none" /\ UNCHANGED <<started, exec, current, wait>>
  BY DEF Lists, TypeOK, CreateBody, Body
<1>1. PICK t \in Task \ alloc :
           /\ \A p \in Priority : t \notin Elems(ready[p])
           /\ alloc' = alloc \cup {t}
           /\ prio' = [prio EXCEPT ![t] = call.prio]
           /\ state' = [state EXCEPT ![t] = IF call.susp THEN "Suspended" ELSE "Ready"]
           /\ ready' = IF call.susp THEN ready
                       ELSE WithReady(call.prio, t)
  BY <1>0, CreateFacts
<1>2. \A p \in Priority :
        /\ Sound(ready'[p])
        /\ \A x : x \in Elems(ready'[p]) <=>
                   x \in Elems(ready[p]) \/ (p = call.prio /\ ~ call.susp /\ x = t)
        /\ ready[p].cur \in Elems(ready[p]) => ready'[p].cur = ready[p].cur
  <2>1. CASE call.susp
    BY <1>0, <1>1, <2>1 DEF ReadyListsSound, Sound, Distinct, CursorSound
  <2>2. CASE ~ call.susp
    BY <1>0, <1>1, <2>2, ReadyFacts, ZenonT(40)
  <2> QED
    BY <2>1, <2>2
<1>3. /\ prio'[t] = call.prio /\ state'[t] = IF call.susp THEN "Suspended" ELSE "Ready"
      /\ \A u \in Task : u # t => prio'[u] = prio[u] /\ state'[u] = state[u]
  BY <1>1 DEF TypeOK
<1>4. alloc \subseteq Task /\ \A u \in alloc : u \in Task /\ u # t /\ prio[u] \in Priority
  BY <1>1 DEF TypeOK
<1>5. \A u \in Task : u # t => \A p \in Priority : u \in Elems(ready'[p]) <=> u \in Elems(ready[p])
  BY <1>2
<1>6. ReadyListsSound'
  <2>1. \A p \in Priority : \A u \in Elems(ready'[p]) : u \in alloc' /\ prio'[u] = p
    BY <1>0, <1>1, <1>2, <1>3, <1>4 DEF ReadyListsSound
  <2>2. Idle \in Elems(ready'[IdlePriority])
    BY <1>0, <1>2, ConstantTypes DEF ReadyListsSound
  <2> QED
    BY <1>2, <2>1, <2>2 DEF ReadyListsSound, Sound, Distinct, CursorSound
<1>7. WaitListSound'
  BY <1>0, <1>1, <1>3, <1>4, <1>5 DEF WaitListSound
<1>8. WaitersMarked'
  BY <1>0, <1>3, <1>4 DEF WaitersMarked, WaitListSound
<1>9. NoLostTask'
  <2>1. ASSUME NEW u \in alloc
        PROVE  \/ u \in Elems(ready'[prio'[u]]) \/ \E i \in Slot : wait'[i].task = u
               \/ state'[u] = "Suspended"
    BY <1>0, <1>3, <1>4, <1>5 DEF NoLostTask
  <2>2. t \in Elems(ready'[prio'[t]]) \/ state'[t] = "Suspended"
    BY <1>0, <1>2, <1>3
  <2> QED
    BY <1>1, <2>1, <2>2 DEF NoLostTask
<1>10. RunningIsReady'
  <2>1. /\ current \in alloc /\ current \in Elems(ready[prio[current]])
        /\ ready[prio[current]].cur = current
    BY <1>0, CurrentListed
  <2>2. prio'[current] = prio[current] /\ ready'[prio[current]].cur = current
    BY <1>2, <1>3, <1>4, <2>1
  <2> QED
    BY <1>0, <1>1, <2>1, <2>2 DEF RunningIsReady
<1> QED
  BY <1>6, <1>7, <1>8, <1>9, <1>10 DEF Lists

\* terminate and suspend take a task off both lists.
LEMMA RemoveLists ==
  ASSUME TypeOK, Lists, svc = "none", NEW t \in alloc \ {Idle},
         ready' = Unready(t), wait' = Unwait(t), UNCHANGED <<prio, current, exec, started>>,
         \/ alloc' = alloc \ {t} /\ state' = state
         \/ alloc' = alloc /\ state' = [state EXCEPT ![t] = "Suspended"],
         svc' = "none" => current # t
  PROVE  Lists'
<1>0. ReadyListsSound /\ WaitListSound /\ WaitersMarked /\ NoLostTask /\ RunningIsReady
      /\ t \in Task
  BY DEF Lists, TypeOK
<1>1. \A p \in Priority :
        /\ Sound(ready'[p]) /\ Elems(ready'[p]) = Elems(ready[p]) \ {t}
        /\ ready[p].cur \in Elems(ready[p]) \ {t} => ready'[p].cur = ready[p].cur
  BY <1>0, UnreadyFacts
<1>2. \A i \in Slot : wait'[i] = IF wait[i].task = t THEN FreeSlot ELSE wait[i]
  BY <1>0, UnwaitFacts
<1>3. FreeSlot.task = NoTask /\ NoTask # t
  BY <1>0, ConstantTypes DEF FreeSlot
<1>4. \A u \in alloc : u \in Task /\ prio[u] \in Priority /\ (u # t => state'[u] = state[u])
  BY DEF TypeOK
<1>5. ReadyListsSound'
  <2>1. \A p \in Priority : \A u \in Elems(ready'[p]) : u \in alloc' /\ prio'[u] = p
    BY <1>0, <1>1 DEF ReadyListsSound
  <2>2. Idle \in Elems(ready'[IdlePriority])
    BY <1>0, <1>1, ConstantTypes DEF ReadyListsSound
  <2> QED
    BY <1>1, <2>1, <2>2 DEF ReadyListsSound, Sound, Distinct, CursorSound
<1>6. WaitListSound'
  <2> SUFFICES ASSUME NEW i \in Slot, wait'[i].task # NoTask
               PROVE  /\ wait'[i].task \in alloc' \ {Idle}
                      /\ wait'[i].task \notin Elems(ready'[prio'[wait'[i].task]])
                      /\ \A j \in Slot : wait'[j].task = wait'[i].task => i = j
    BY DEF WaitListSound
  <2>1. wait'[i] = wait[i] /\ wait[i].task # t
    BY <1>2, <1>3
  <2>2. /\ wait[i].task \in alloc \ {Idle}
        /\ wait[i].task \notin Elems(ready[prio[wait[i].task]])
        /\ \A j \in Slot : wait[j].task = wait[i].task => i = j
    BY <1>0, <2>1 DEF WaitListSound
  <2>3. \A j \in Slot : wait'[j].task = wait[i].task => wait[j].task = wait[i].task
    BY <1>2, <1>3, <2>1
  <2> QED
    BY <1>1, <1>4, <2>1, <2>2, <2>3
<1>7. WaitersMarked'
  BY <1>0, <1>2, <1>3, <1>4 DEF WaitersMarked, WaitListSound
<1>8. NoLostTask'
  <2> SUFFICES ASSUME NEW u \in alloc'
               PROVE  \/ u \in Elems(ready'[prio'[u]]) \/ \E i \in Slot : wait'[i].task = u
                      \/ state'[u] = "Suspended"
    BY DEF NoLostTask
  <2>1. CASE u = t
    BY <1>0, <2>1 DEF TypeOK
  <2>2. CASE u # t
    BY <1>0, <1>1, <1>2, <1>4, <2>2 DEF NoLostTask
  <2> QED
    BY <2>1, <2>2
<1>9. RunningIsReady'
  <2>1. /\ current \in alloc /\ current \in Elems(ready[prio[current]])
        /\ ready[prio[current]].cur = current
    BY <1>0, CurrentListed
  <2>2. current # t => ready'[prio[current]].cur = current /\ current \in alloc'
    BY <1>1, <1>4, <2>1
  <2> QED
    BY <1>0, <2>2 DEF RunningIsReady
<1> QED
  BY <1>5, <1>6, <1>7, <1>8, <1>9 DEF Lists

LEMMA ResumeLists ==
  ASSUME TypeOK, Lists, CallSound, ResumeBody
  PROVE  Lists'
<1>0. ReadyListsSound /\ WaitListSound /\ WaitersMarked /\ NoLostTask /\ RunningIsReady
  BY DEF Lists
<1>a. PICK t : t = call.id
  OBVIOUS
<1>b. PICK q : q = prio[t]
  OBVIOUS
<1>1. /\ svc = "none" /\ t \in alloc \ {Idle} /\ t # current /\ state[t] = "Suspended"
      /\ t \notin Elems(ready[q]) /\ ready' = WithReady(q, t)
      /\ state' = [state EXCEPT ![current] = "Ready"]
      /\ UNCHANGED <<prio, alloc, wait, current, exec, started>>
  BY <1>a, <1>b DEF ResumeBody, Body, CallSound, cpuVars, WithReady
<1>2. t \in Task /\ q \in Priority /\ \A u \in alloc : u \in Task /\ prio[u] \in Priority
  BY <1>1, <1>b DEF TypeOK
<1>3. \A p \in Priority :
        /\ Sound(ready'[p])
        /\ \A x : x \in Elems(ready'[p]) <=> x \in Elems(ready[p]) \/ (p = q /\ x = t)
        /\ ready[p].cur \in Elems(ready[p]) => ready'[p].cur = ready[p].cur
  <2>1. t \in Task /\ q \in Priority /\ t \notin Elems(ready[q]) /\ ReadyListsSound
    BY <1>0, <1>1, <1>2
  <2>2. ready' = WithReady(q, t)
    BY <1>1
  <2>3. \A p \in Priority :
          /\ Sound(WithReady(q, t)[p])
          /\ \A x : x \in Elems(WithReady(q, t)[p]) <=>
                     x \in Elems(ready[p]) \/ (p = q /\ x = t)
          /\ ready[p].cur \in Elems(ready[p]) => WithReady(q, t)[p].cur = ready[p].cur
    BY <2>1, ReadyFacts
  <2> QED
    BY <2>2, <2>3
<1>4. /\ current \in alloc /\ current \in Elems(ready[prio[current]])
      /\ ready[prio[current]].cur = current
  BY <1>0, <1>1, CurrentListed
<1>5. \A i \in Slot : wait[i].task # NoTask => wait[i].task # t /\ wait[i].task # current
  BY <1>0, <1>1, <1>4 DEF WaitersMarked, WaitListSound
<1>6. \A u \in Task : u # current => state'[u] = state[u]
  BY <1>1 DEF TypeOK
<1>7. ReadyListsSound'
  <2>1. \A p \in Priority : \A u \in Elems(ready'[p]) : u \in alloc' /\ prio'[u] = p
    BY <1>0, <1>1, <1>3, <1>b DEF ReadyListsSound
  <2>2. Idle \in Elems(ready'[IdlePriority])
    BY <1>0, <1>3, ConstantTypes DEF ReadyListsSound
  <2> QED
    BY <1>3, <2>1, <2>2 DEF ReadyListsSound, Sound, Distinct, CursorSound
<1>8. WaitListSound'
  <2>1. \A u \in alloc : u # t /\ u \notin Elems(ready[prio[u]]) => u \notin Elems(ready'[prio'[u]])
    BY <1>1, <1>2, <1>3
  <2> QED
    BY <1>0, <1>1, <1>5, <2>1 DEF WaitListSound
<1>9. WaitersMarked'
  BY <1>0, <1>1, <1>2, <1>5, <1>6 DEF WaitersMarked, WaitListSound
<1>10. NoLostTask'
  <2>1. current \in Elems(ready'[prio[current]])
    BY <1>2, <1>3, <1>4
  <2> QED
    BY <1>0, <1>1, <1>2, <1>3, <1>6, <1>b, <2>1 DEF NoLostTask
<1>11. RunningIsReady'
  BY <1>0, <1>1, <1>2, <1>3, <1>4 DEF RunningIsReady
<1> QED
  BY <1>7, <1>8, <1>9, <1>10, <1>11 DEF Lists

\* sleep and wait move the caller from its ready list to a free slot.
LEMMA BlockLists ==
  ASSUME TypeOK, Lists, svc = "none", current # Idle, NEW kind, Block(kind),
         UNCHANGED <<prio, alloc, current, exec, started>>,
         FreeSlots # {} => svc' # "none"
  PROVE  Lists'
<1>0. ReadyListsSound /\ WaitListSound /\ WaitersMarked /\ NoLostTask /\ RunningIsReady
      /\ current \in Task
  BY DEF Lists, TypeOK
<1>1. CASE FreeSlots = {}
  BY <1>1, QuietLists DEF Block
<1>2. CASE FreeSlots # {}
  <2>1. PICK i \in Slot :
           /\ wait[i].task = NoTask
           /\ wait' = [wait EXCEPT ![i] =
                [task |-> current, kind |-> kind, cond |-> call.cond, start |-> now]]
           /\ ready' = Unready(current)
           /\ state' = [state EXCEPT ![current] = "Waiting"]
    BY <1>0, <1>2, BlockFacts
  <2>2. \A p \in Priority : Sound(ready'[p]) /\ Elems(ready'[p]) = Elems(ready[p]) \ {current}
    BY <1>0, <2>1, UnreadyFacts
  <2>3. wait'[i].task = current /\ \A j \in Slot : j # i => wait'[j] = wait[j]
    BY <2>1 DEF TypeOK
  <2>4. state'[current] = "Waiting" /\ \A u \in Task : u # current => state'[u] = state[u]
    BY <1>0, <2>1 DEF TypeOK
  <2>5. current \in alloc /\ current \in Elems(ready[prio[current]])
    BY <1>0, CurrentListed
  <2>6. \A u \in alloc : u \in Task /\ prio[u] \in Priority
    BY DEF TypeOK
  <2>7. \A j \in Slot : wait[j].task # current
    BY <1>0, <2>5, ConstantTypes DEF WaitListSound
  <2>8. ReadyListsSound'
    <3>1. \A p \in Priority : \A u \in Elems(ready'[p]) : u \in alloc' /\ prio'[u] = p
      BY <1>0, <2>2 DEF ReadyListsSound
    <3>2. Idle \in Elems(ready'[IdlePriority])
      BY <1>0, <2>2, ConstantTypes DEF ReadyListsSound
    <3> QED
      BY <2>2, <3>1, <3>2 DEF ReadyListsSound, Sound, Distinct, CursorSound
  <2>9. WaitListSound'
    <3>1. /\ current \in alloc' \ {Idle} /\ current \notin Elems(ready'[prio'[current]])
          /\ \A j \in Slot : wait'[j].task = current => i = j
      BY <2>2, <2>3, <2>5, <2>6, <2>7
    <3>2. ASSUME NEW j \in Slot, j # i, wait[j].task # NoTask
          PROVE  /\ wait[j].task \in alloc' \ {Idle}
                 /\ wait[j].task \notin Elems(ready'[prio'[wait[j].task]])
                 /\ \A k \in Slot : wait'[k].task = wait[j].task => j = k
      BY <1>0, <2>2, <2>3, <2>6, <2>7, <3>2 DEF WaitListSound
    <3> QED
      BY <2>3, <3>1, <3>2 DEF WaitListSound
  <2>10. WaitersMarked'
    BY <1>0, <2>3, <2>4, <2>6, <2>7 DEF WaitersMarked, WaitListSound
  <2>11. NoLostTask'
    <3> SUFFICES ASSUME NEW u \in alloc
                 PROVE  \/ u \in Elems(ready'[prio'[u]]) \/ \E j \in Slot : wait'[j].task = u
                        \/ state'[u] = "Suspended"
      BY DEF NoLostTask
    <3>1. CASE u = current
      BY <2>3, <3>1
    <3>2. CASE u # current
      <4>1. u \in Elems(ready[prio[u]]) => u \in Elems(ready'[prio'[u]])
        BY <2>2, <2>6, <3>2
      <4>2. ASSUME NEW j \in Slot, wait[j].task = u PROVE wait'[j].task = u
        BY <2>1, <2>3, <2>6, <4>2, ConstantTypes
      <4>3. state'[u] = state[u]
        BY <2>4, <2>6, <3>2
      <4> QED
        BY <1>0, <4>1, <4>2, <4>3 DEF NoLostTask
    <3> QED
      BY <3>1, <3>2
  <2>12. RunningIsReady'
    BY <1>2 DEF RunningIsReady
  <2> QED
    BY <2>8, <2>9, <2>10, <2>11, <2>12 DEF Lists
<1> QED
  BY <1>1, <1>2

LEMMA HandleSvcLists ==
  ASSUME TypeOK, Lists, CallSound, HandleSvc
  PROVE  Lists'
<1>0. ReadyListsSound /\ WaitListSound /\ WaitersMarked /\ NoLostTask /\ RunningIsReady
  BY DEF Lists
<1>1. PICK p \in Priority : p = Top(ready) /\ ready[p].cur \in Elems(ready[p])
  BY <1>0, SchedulerFacts
<1>2. /\ current' = ready[p].cur /\ state' = [state EXCEPT ![current'] = "Running"]
      /\ exec' = current' /\ UNCHANGED <<started, ready, wait, alloc, prio>> /\ started
  BY <1>1 DEF HandleSvc, CallSound
<1>3. PICK t : t = current'
  OBVIOUS
<1>4. t \in alloc /\ t \in Task /\ prio[t] = p /\ t \in Elems(ready[prio[t]])
  BY <1>0, <1>1, <1>2, <1>3 DEF ReadyListsSound, TypeOK
<1>5. \A u \in Task : u # t => state'[u] = state[u]
  BY <1>2, <1>3, <1>4 DEF TypeOK
<1>6. \A i \in Slot : wait[i].task # NoTask => wait[i].task # t /\ wait[i].task \in Task
  BY <1>0, <1>4 DEF WaitListSound, TypeOK
<1>7. ReadyListsSound' /\ WaitListSound'
  BY <1>0, <1>2 DEF ReadyListsSound, WaitListSound
<1>8. WaitersMarked'
  BY <1>0, <1>2, <1>5, <1>6 DEF WaitersMarked
<1>9. NoLostTask'
  BY <1>0, <1>2, <1>4, <1>5, ZenonT(40) DEF NoLostTask, TypeOK
<1>10. RunningIsReady'
  BY <1>1, <1>2, <1>3, <1>4 DEF RunningIsReady
<1> QED
  BY <1>7, <1>8, <1>9, <1>10 DEF Lists

\* A wake-up moves the task of a slot to its ready list.
LEMMA WakeLists ==
  ASSUME TypeOK, Lists, svc = "none", NEW i \in Slot, wait[i].task # NoTask, NEW res,
         Wake(i, res), UNCHANGED <<svc, exec, started, current, alloc, prio>>
  PROVE  Lists'
<1>0. ReadyListsSound /\ WaitListSound /\ WaitersMarked /\ NoLostTask /\ RunningIsReady
  BY DEF Lists
<1>1. PICK t \in Task :
           /\ wait[i].task = t /\ t \notin Elems(ready[prio[t]])
           /\ ready' = WithReady(prio[t], t)
           /\ state' = [state EXCEPT ![t] = "Ready"]
           /\ wait' = [wait EXCEPT ![i] = FreeSlot]
  BY <1>0, WakeFacts
<1>2. PICK q \in Priority : q = prio[t]
  BY DEF TypeOK
<1>3. \A p \in Priority :
        /\ Sound(ready'[p])
        /\ \A x : x \in Elems(ready'[p]) <=> x \in Elems(ready[p]) \/ (p = q /\ x = t)
        /\ ready[p].cur \in Elems(ready[p]) => ready'[p].cur = ready[p].cur
  <2>1. t \notin Elems(ready[q]) /\ ready' = WithReady(q, t)
    BY <1>1, <1>2
  <2>2. \A p \in Priority :
          /\ Sound(WithReady(q, t)[p])
          /\ \A x : x \in Elems(WithReady(q, t)[p]) <=>
                     x \in Elems(ready[p]) \/ (p = q /\ x = t)
          /\ ready[p].cur \in Elems(ready[p]) => WithReady(q, t)[p].cur = ready[p].cur
    BY <1>0, <2>1, ReadyFacts
  <2> QED
    BY <2>1, <2>2
<1>4. t \in alloc \ {Idle} /\ \A j \in Slot : wait[j].task = t => j = i
  BY <1>0, <1>1, ConstantTypes DEF WaitListSound
<1>5. wait'[i].task = NoTask /\ \A j \in Slot : j # i => wait'[j] = wait[j] /\ wait[j].task # t
  BY <1>1, <1>4 DEF TypeOK, FreeSlot
<1>6. \A u \in Task : u # t => state'[u] = state[u]
  BY <1>1 DEF TypeOK
<1>7. \A u \in alloc : u \in Task /\ prio[u] \in Priority
  BY DEF TypeOK
<1>8. ReadyListsSound'
  <2>1. \A p \in Priority : \A u \in Elems(ready'[p]) : u \in alloc' /\ prio'[u] = p
    BY <1>0, <1>2, <1>3, <1>4 DEF ReadyListsSound
  <2>2. Idle \in Elems(ready'[IdlePriority])
    BY <1>0, <1>3, ConstantTypes DEF ReadyListsSound
  <2> QED
    BY <1>3, <2>1, <2>2 DEF ReadyListsSound, Sound, Distinct, CursorSound
<1>9. WaitListSound'
  <2>1. \A u \in alloc : u # t /\ u \notin Elems(ready[prio[u]]) => u \notin Elems(ready'[prio'[u]])
    BY <1>3, <1>7
  <2> QED
    BY <1>0, <1>5, <2>1 DEF WaitListSound
<1>10. WaitersMarked'
  BY <1>0, <1>5, <1>6, <1>7 DEF WaitersMarked, WaitListSound
<1>11. NoLostTask'
  <2> SUFFICES ASSUME NEW u \in alloc
               PROVE  \/ u \in Elems(ready'[prio'[u]]) \/ \E j \in Slot : wait'[j].task = u
                      \/ state'[u] = "Suspended"
    BY DEF NoLostTask
  <2>1. CASE u = t
    BY <1>2, <1>3, <2>1
  <2>2. CASE u # t
    <3>1. u \in Elems(ready[prio[u]]) => u \in Elems(ready'[prio'[u]])
      BY <1>3, <1>7
    <3>2. ASSUME NEW j \in Slot, wait[j].task = u PROVE wait'[j].task = u
      BY <1>1, <1>5, <2>2, <3>2
    <3>3. state'[u] = state[u]
      BY <1>6, <1>7, <2>2
    <3> QED
      BY <1>0, <3>1, <3>2, <3>3 DEF NoLostTask
  <2> QED
    BY <2>1, <2>2
<1>12. RunningIsReady'
  <2>1. /\ current \in alloc /\ current \in Elems(ready[prio[current]])
        /\ ready[prio[current]].cur = current
    BY <1>0, CurrentListed
  <2> QED
    BY <1>0, <1>3, <1>7, <2>1 DEF RunningIsReady
<1> QED
  BY <1>8, <1>9, <1>10, <1>11, <1>12 DEF Lists

\* The end of a time slice changes the cursor of a list, not its tasks.
LEMMA SliceLists ==
  ASSUME TypeOK, Lists, svc = "none", started, TickEndsSlice
  PROVE  Lists'
<1>0. ReadyListsSound /\ WaitListSound /\ WaitersMarked /\ NoLostTask /\ RunningIsReady
  BY DEF Lists
<1>1. PICK p \in Priority :
           LET next == Advance(ready[p])
           IN  /\ next \in ListOf(Task) /\ Sound(next) /\ Elems(next) = Elems(ready[p])
               /\ next.cur \in Elems(ready[p]) /\ next.cur \in Task
               /\ ready' = [ready EXCEPT ![p] = next]
               /\ state' = [[state EXCEPT ![current] = "Ready"] EXCEPT ![next.cur] = "Running"]
               /\ current' = next.cur
               /\ exec' = IF next.cur # current THEN next.cur ELSE exec
  BY <1>0, SliceFacts
<1>2. PICK next : next = Advance(ready[p])
  OBVIOUS
<1>3. UNCHANGED <<svc, started, wait, alloc, prio>>
  BY DEF TickEndsSlice, callVars
<1>4. \A r \in Priority : Sound(ready'[r]) /\ Elems(ready'[r]) = Elems(ready[r])
  BY <1>0, <1>1, <1>2, SMTT(30) DEF TypeOK, ReadyListsSound, Sound, Distinct, CursorSound
<1>5. /\ current \in alloc /\ current \in Elems(ready[prio[current]]) /\ exec = current
  BY <1>0, CurrentListed DEF RunningIsReady
<1>6. PICK t \in Task : t = current'
  BY <1>1
<1>7. /\ t \in alloc /\ prio[t] = p /\ t \in Elems(ready[prio[t]]) /\ ready'[p].cur = t /\ exec' = t
  BY <1>0, <1>1, <1>5, <1>6 DEF ReadyListsSound, TypeOK
<1>8. \A u \in Task : u # t /\ u # current => state'[u] = state[u]
  BY <1>1, <1>6 DEF TypeOK
<1>9. \A i \in Slot : wait[i].task # NoTask =>
        wait[i].task # t /\ wait[i].task # current /\ wait[i].task \in Task
  BY <1>0, <1>5, <1>7 DEF WaitListSound, TypeOK
<1>10. \A u \in alloc : u \in Task /\ prio[u] \in Priority
  BY DEF TypeOK
<1>11. ReadyListsSound'
  <2>1. \A r \in Priority : \A u \in Elems(ready'[r]) : u \in alloc' /\ prio'[u] = r
    BY <1>0, <1>3, <1>4 DEF ReadyListsSound
  <2>2. Idle \in Elems(ready'[IdlePriority])
    BY <1>0, <1>4, ConstantTypes DEF ReadyListsSound
  <2> QED
    BY <1>4, <2>1, <2>2 DEF ReadyListsSound, Sound, Distinct, CursorSound
<1>12. WaitListSound'
  BY <1>0, <1>3, <1>4, <1>10 DEF WaitListSound
<1>13. WaitersMarked'
  BY <1>0, <1>3, <1>8, <1>9 DEF WaitersMarked
<1>14. NoLostTask'
  BY <1>0, <1>3, <1>4, <1>5, <1>7, <1>8, <1>10 DEF NoLostTask
<1>15. RunningIsReady'
  BY <1>3, <1>6, <1>7 DEF RunningIsReady
<1> QED
  BY <1>11, <1>12, <1>13, <1>14, <1>15 DEF Lists

\* Every step keeps the lists and the running task.
LEMMA NextLists ==
  ASSUME StartsInTime, TypeOK, Control, Lists, [Next]_vars
  PROVE  Lists'
<1>0. LockDiscipline /\ CallSound /\ BootSound /\ RunningIsReady /\ ReadyListsSound
  BY DEF Control, Lists
<1> USE DEF callVars, cpuVars, schedVars, taskVars
<1>1. CASE Calls
  BY <1>0, <1>1, CallsFacts, QuietLists DEF Enter
<1>2. CASE StartBody
  BY <1>2, QuietLists DEF StartBody, Syscall
<1>3. CASE CreateRefused
  BY <1>3, QuietLists DEF CreateRefused, Leave
<1>4. CASE CreateBody
  BY <1>4, CreateLists
<1>5. CASE TerminateBody
  <2>1. svc = "none" /\ call.id \in alloc \ {Idle}
    BY <1>0, <1>5 DEF TerminateBody, Body, CallSound
  <2>2. /\ ready' = Unready(call.id) /\ wait' = Unwait(call.id)
        /\ UNCHANGED <<prio, current, exec, started>>
        /\ alloc' = alloc \ {call.id} /\ state' = state
    BY <1>5 DEF TerminateBody
  <2>3. svc' = "none" => current # call.id
    BY <1>0, <1>5, <2>1 DEF TerminateBody, Syscall, BootSound
  <2> QED
    BY <2>1, <2>2, <2>3, RemoveLists
<1>6. CASE SuspendBody
  <2>1. svc = "none" /\ call.id \in alloc \ {Idle}
    BY <1>0, <1>6 DEF SuspendBody, Body, CallSound
  <2>2. /\ ready' = Unready(call.id) /\ wait' = Unwait(call.id)
        /\ UNCHANGED <<prio, current, exec, started>>
        /\ alloc' = alloc /\ state' = [state EXCEPT ![call.id] = "Suspended"]
        /\ svc' = "none" => current # call.id
    BY <1>6 DEF SuspendBody, Syscall
  <2> QED
    BY <2>1, <2>2, RemoveLists
<1>7. CASE ResumeRefused
  BY <1>7, QuietLists DEF ResumeRefused, Leave
<1>8. CASE ResumeBody
  BY <1>0, <1>8, ResumeLists
<1>9. CASE SleepBody
  <2>1. svc = "none" /\ current # Idle
    BY <1>0, <1>9 DEF SleepBody, Body, CallSound, RunningIsReady
  <2>2. Block("Sleep") /\ UNCHANGED <<prio, alloc, current, exec, started>> /\ svc' # "none"
    BY <1>9 DEF SleepBody, Syscall
  <2> QED
    BY <2>1, <2>2, BlockLists
<1>10. CASE WaitBody
  <2>1. svc = "none" /\ current # Idle
    BY <1>0, <1>10 DEF WaitBody, Body, CallSound, RunningIsReady
  <2>2. /\ Block("WaitForObj") /\ UNCHANGED <<prio, alloc, current, exec, started>>
        /\ FreeSlots # {} => svc' # "none"
    BY <1>10 DEF WaitBody, Syscall
  <2> QED
    BY <2>1, <2>2, BlockLists
<1>11. CASE ResultBody
  BY <1>11, QuietLists DEF ResultBody, Leave
<1>12. CASE TimerBodies
  BY <1>12, TimerBodiesFacts, QuietLists DEF Leave
<1>13. CASE HandleSvc
  BY <1>0, <1>13, HandleSvcLists
<1>14. CASE TickLocked
  BY <1>14, QuietLists DEF TickLocked
<1>15. CASE TickBegin
  BY <1>15, QuietLists DEF TickBegin
<1>16. ASSUME TickSteps PROVE svc = "none"
  BY <1>0, <1>16, TickStepsFacts DEF LockDiscipline
<1>17. CASE SlotPasses
  BY <1>17, QuietLists DEF SlotPasses
<1>18. CASE SlotExpires
  <2>1. svc = "none" /\ UNCHANGED <<svc, exec, started, current, alloc, prio>>
    BY <1>16, <1>18 DEF SlotExpires, TickSteps
  <2>2. scan \in Slot /\ wait[scan].task # NoTask
        /\ Wake(scan, IF wait[scan].kind = "Sleep" THEN "ObjectSet" ELSE "TimeoutOccurred")
    BY <1>18 DEF SlotExpires
  <2> QED
    BY <2>1, <2>2, WakeLists
<1>19. CASE SlotSignaled
  <2>1. svc = "none" /\ UNCHANGED <<svc, exec, started, current, alloc, prio>>
    BY <1>16, <1>19 DEF SlotSignaled, TickSteps
  <2>2. scan \in Slot /\ wait[scan].task # NoTask /\ Wake(scan, "ObjectSet")
    BY <1>19 DEF SlotSignaled
  <2> QED
    BY <2>1, <2>2, WakeLists
<1>20. CASE TickEndsSlice
  <2>1. svc = "none"
    BY <1>16, <1>20 DEF TickSteps
  <2>2. started
    <3> SUFFICES ASSUME ~ started PROVE FALSE
      OBVIOUS
    <3>1. scan = MaxTasks /\ scan # Thread /\ SliceOver
      BY <1>20, TickStepsFacts DEF TickEndsSlice, TickSteps
    <3>2. old = 0 /\ now < BootTicks /\ now \in Time
      BY <1>0, <3>1 DEF BootSound, TypeOK
    <3>3. Before(now, old) = now /\ now \in Nat
      BY <3>2, TimeFacts DEF Before, Time
    <3> QED
      BY <3>1, <3>2, <3>3, KernelAssumption DEF SliceOver, StartsInTime
  <2> QED
    BY <1>20, <2>1, <2>2, SliceLists
<1>21. CASE TickEnds
  BY <1>21, QuietLists DEF TickEnds
<1>22. CASE Signals
  BY <1>22, QuietLists DEF Signals, SetEvent, ResetEvent, SendQueue, ReceiveQueue
<1>23. CASE UNCHANGED vars
  BY <1>23, QuietLists, SMTT(30) DEF vars
<1> HIDE DEF callVars, cpuVars, schedVars, taskVars
<1> QED
  BY <1>1, <1>2, <1>3, <1>4, <1>5, <1>6, <1>7, <1>8, <1>9, <1>10, <1>11, <1>12, <1>13, <1>14,
     <1>15, <1>17, <1>18, <1>19, <1>20, <1>21, <1>22, <1>23 DEF Next, Bodies, Ticks, TickSteps

-------------------------------------------------------------------------------
(* The scan of the wait list. *)

\* A wait that is not due stays so while the time stands still and signals
\* only fall.
LEMMA DueFalls ==
  ASSUME NEW i \in Slot, wait'[i] = wait[i], now' = now, queue' = queue,
         \A e \in Events : event'[e] => event[e],
         \A x \in Timers : timer'[x].state = "Finished" => timer[x].state = "Finished"
  PROVE  Due(wait[i])' => Due(wait[i])
BY Zenon DEF Due, Expired, Elapsed, Before, Fulfilled, SignalsSet, Signaled

\* A slot that was passed or freed joins those the scan has gone through.
LEMMA SlotScan ==
  ASSUME ScanSound, NEW s \in Slot, scan = s, scan' = s + 1, ~ Due(wait[s])',
         \A i \in Slot : i # s => (Due(wait[i])' => Due(wait[i]))
  PROVE  ScanSound'
<1>1. \A i \in Slot : i < s + 1 => i < s \/ i = s
  BY KernelAssumption DEF Slot
<1> QED
  BY <1>1 DEF ScanSound

\* Outside of the tick handler no slot counts as gone through.
LEMMA ScanQuiet == scan' = Thread \/ scan' = 0 => ScanSound'
<1>1. \A i \in Slot : ~ (i < Thread) /\ ~ (i < 0)
  BY KernelAssumption DEF Slot, Thread
<1> QED
  BY <1>1 DEF ScanSound

\* Every step of the tick handler leaves nothing due in the slots behind it.
LEMMA NextScan ==
  ASSUME TypeOK, CallSound, BootSound, WaitListSound, ScanSound, [Next]_vars
  PROVE  ScanSound'
<1>1. CASE Calls
  BY <1>1, CallsFacts, ScanQuiet DEF Enter, cpuVars
<1>2. CASE Bodies
  BY <1>2, BodiesFacts, ScanQuiet
<1>3. CASE HandleSvc
  BY <1>3, ScanQuiet DEF HandleSvc
<1>4. CASE Ticks
  BY <1>4, ScanQuiet DEF Ticks, TickLocked, TickBegin, cpuVars
<1>5. CASE SlotPasses
  <2>1. PICK s \in Slot : s = scan
    BY <1>5 DEF SlotPasses
  <2>2. /\ ~ Due(wait[s]) /\ scan' = s + 1
        /\ UNCHANGED <<wait, now, event, queue, timer>>
    BY <1>5, <2>1 DEF SlotPasses, NextSlot, timeVars, schedVars, objVars
  <2>3. \A i \in Slot : Due(wait[i])' => Due(wait[i])
    BY <2>2, DueFalls
  <2> QED
    BY <2>1, <2>2, <2>3, SlotScan
<1>6. CASE SlotExpires
  <2>1. PICK s \in Slot : s = scan
    BY <1>6 DEF SlotExpires
  <2>2. /\ wait[s].task # NoTask /\ scan' = s + 1
        /\ Wake(s, IF wait[s].kind = "Sleep" THEN "ObjectSet" ELSE "TimeoutOccurred")
        /\ UNCHANGED <<now, event, queue, timer>>
    BY <1>6, <2>1 DEF SlotExpires, NextSlot, timeVars, objVars
  <2>3. wait' = [wait EXCEPT ![s] = FreeSlot]
    BY <2>2, WakeFacts
  <2>4. ~ Due(wait[s])' /\ \A i \in Slot : i # s => wait'[i] = wait[i]
    BY <2>3 DEF TypeOK, Due, FreeSlot
  <2>5. \A i \in Slot : i # s => (Due(wait[i])' => Due(wait[i]))
    BY <2>2, <2>4, DueFalls
  <2> QED
    BY <2>1, <2>2, <2>4, <2>5, SlotScan
<1>7. CASE SlotSignaled
  <2>1. PICK s \in Slot : s = scan
    BY <1>7 DEF SlotSignaled
  <2>2. /\ wait[s].task # NoTask /\ scan' = s + 1 /\ Wake(s, "ObjectSet")
        /\ UNCHANGED <<now, queue>>
    BY <1>7, <2>1 DEF SlotSignaled, NextSlot, timeVars
  <2>3. wait' = [wait EXCEPT ![s] = FreeSlot]
    BY <2>2, WakeFacts
  <2>4. ~ Due(wait[s])' /\ \A i \in Slot : i # s => wait'[i] = wait[i]
    BY <2>3 DEF TypeOK, Due, FreeSlot
  <2>5. \A e \in Events : event'[e] => event[e]
    BY <1>7 DEF SlotSignaled
  <2>6. \A x \in Timers : timer'[x].state = "Finished" => timer[x].state = "Finished"
    BY <1>7 DEF SlotSignaled, TypeOK
  <2>7. \A i \in Slot : i # s => (Due(wait[i])' => Due(wait[i]))
    BY <2>2, <2>4, <2>5, <2>6, DueFalls
  <2> QED
    BY <2>1, <2>2, <2>4, <2>7, SlotScan
<1>8. CASE TickEndsSlice \/ TickEnds
  BY <1>8, ScanQuiet DEF TickEndsSlice, TickEnds
<1>9. CASE Signals
  BY <1>9, ScanQuiet DEF Signals, SetEvent, ResetEvent, SendQueue, ReceiveQueue, cpuVars
<1>10. CASE UNCHANGED vars
  <2>1. UNCHANGED <<scan, wait, now, event, queue, timer>>
    BY <1>10 DEF vars, cpuVars, timeVars, schedVars, objVars
  <2>2. \A i \in Slot : Due(wait[i])' => Due(wait[i])
    BY <2>1, DueFalls
  <2> QED
    BY <2>1, <2>2 DEF ScanSound
<1> QED
  BY <1>1, <1>2, <1>3, <1>4, <1>5, <1>6, <1>7, <1>8, <1>9, <1>10 DEF Next, TickSteps

-------------------------------------------------------------------------------
(* The inductive invariant. *)

LEMMA InitInv == Init => IInv
<1> SUFFICES ASSUME Init PROVE IInv
  OBVIOUS
<1>1. TypeOK
  BY InitType
<1>2. LockDiscipline /\ CallSound
  BY DEF Init, LockDiscipline, CallSound, NoCall
<1>3. BootSound
  BY KernelAssumption DEF Init, BootSound
<1>4. ScanSound
  BY KernelAssumption DEF Init, ScanSound, Slot, Thread
<1>5. /\ Elems(ready[IdlePriority]) = {Idle} /\ ready[IdlePriority].cur = Idle
      /\ ready[IdlePriority].list = <<Idle>>
  BY ConstantTypes DEF Init, Elems
<1>6. \A p \in Priority : p # IdlePriority => ready[p] = EmptyList /\ Elems(ready[p]) = {}
  BY ElemsEmpty, EmptyListFacts DEF Init
<1>7. /\ alloc = {Idle} /\ prio[Idle] = IdlePriority /\ current = Idle
      /\ exec = Main /\ ~ started
  BY ConstantTypes DEF Init
<1>8. ReadyListsSound
  BY <1>5, <1>6, <1>7, ConstantTypes, SMTT(30) DEF ReadyListsSound, EmptyList
<1>9. WaitListSound /\ WaitersMarked
  BY DEF Init, WaitListSound, WaitersMarked, FreeSlot
<1>10. NoLostTask /\ RunningIsReady
  BY <1>5, <1>7 DEF NoLostTask, RunningIsReady
<1> QED
  BY <1>1, <1>2, <1>3, <1>4, <1>8, <1>9, <1>10 DEF IInv, Control, Lists

LEMMA NextInv == StartsInTime /\ IInv /\ [Next]_vars => IInv'
<1> SUFFICES ASSUME StartsInTime, IInv, [Next]_vars PROVE IInv'
  OBVIOUS
<1>1. /\ TypeOK /\ Control /\ Lists /\ ScanSound
      /\ LockDiscipline /\ CallSound /\ BootSound /\ ReadyListsSound /\ WaitListSound
  BY DEF IInv, Control, Lists
<1>2. TypeOK'
  BY <1>1, NextType
<1>3. Control'
  BY <1>1, NextControl
<1>4. Lists'
  BY <1>1, NextLists
<1>5. ScanSound'
  BY <1>1, NextScan
<1> QED
  BY <1>2, <1>3, <1>4, <1>5 DEF IInv

LEMMA InvHolds ==
  ASSUME StartsInTime
  PROVE  Spec => []IInv
<1>1. IInv /\ [Next]_vars => IInv'
  BY NextInv
<1> QED
  BY <1>1, InitInv, PTL DEF Spec

-------------------------------------------------------------------------------
(* Properties of single states. *)

\* Every variable of the kernel keeps its type.
THEOREM TypeCorrect ==
  ASSUME StartsInTime
  PROVE  Spec => []TypeOK
<1>1. IInv => TypeOK
  BY DEF IInv
<1> QED
  BY <1>1, InvHolds, PTL

\* The kernel lock is held exactly while an API call is under way, and the
\* tick handler works on the lists only when nobody holds it.
THEOREM LockIsDisciplined ==
  ASSUME StartsInTime
  PROVE  Spec => []LockDiscipline
<1>1. IInv => LockDiscipline
  BY DEF IInv, Control
<1> QED
  BY <1>1, InvHolds, PTL

\* The ready lists hold distinct live tasks, each in the list of its priority,
\* and the idle task never leaves its list.
THEOREM ReadyListsStaySound ==
  ASSUME StartsInTime
  PROVE  Spec => []ReadyListsSound
<1>1. IInv => ReadyListsSound
  BY DEF IInv, Lists
<1> QED
  BY <1>1, InvHolds, PTL

\* A task is never both in a wait slot and ready, nor in two slots.
THEOREM WaitListStaysSound ==
  ASSUME StartsInTime
  PROVE  Spec => []WaitListSound
<1>1. IInv => WaitListSound
  BY DEF IInv, Lists
<1> QED
  BY <1>1, InvHolds, PTL

\* A task that is on no list is one that resume accepts.
THEOREM NoTaskIsLost ==
  ASSUME StartsInTime
  PROVE  Spec => []NoLostTask
<1>1. IInv => NoLostTask
  BY DEF IInv, Lists
<1> QED
  BY <1>1, InvHolds, PTL

\* The processor runs the task the scheduler believes to be current, and that
\* task is the cursor of its ready list.
THEOREM RunningTaskIsReady ==
  ASSUME StartsInTime
  PROVE  Spec => []RunningIsReady
<1>1. IInv => RunningIsReady
  BY DEF IInv, Lists
<1> QED
  BY <1>1, InvHolds, PTL

\* A tick that has gone through the wait list leaves no wait behind that has
\* expired or whose objects are signaled.
THEOREM NoWakeIsMissed ==
  ASSUME StartsInTime
  PROVE  Spec => []NoMissedWake
<1>1. IInv => NoMissedWake
  <2> SUFFICES ASSUME IInv, scan = MaxTasks, NEW i \in Slot PROVE ~ Due(wait[i])
    BY DEF NoMissedWake
  <2>1. i < scan
    BY KernelAssumption DEF Slot
  <2> QED
    BY <2>1 DEF IInv, ScanSound
<1> QED
  BY <1>1, InvHolds, PTL

\* Fewer tasks than slots can wait, because idle never does: some slot is free.
LEMMA SomeSlotFree == IInv => FreeSlots # {}
<1> SUFFICES ASSUME IInv, FreeSlots = {} PROVE FALSE
  OBVIOUS
<1> DEFINE holder == [i \in Slot |-> wait[i].task]
<1>1. TypeOK /\ WaitListSound
  BY DEF IInv, Lists
<1>2. \A i \in Slot : wait[i].task \in 1 .. MaxTasks - 1
  BY <1>1 DEF FreeSlots, WaitListSound, TypeOK, Task, Idle
<1>3. holder \in [0 .. MaxTasks - 1 -> 1 .. MaxTasks - 1]
  BY <1>2 DEF Slot
<1>4. /\ IsFiniteSet(0 .. MaxTasks - 1) /\ Cardinality(0 .. MaxTasks - 1) = MaxTasks
      /\ IsFiniteSet(1 .. MaxTasks - 1) /\ Cardinality(1 .. MaxTasks - 1) = MaxTasks - 1
  <2>1. MaxTasks \in Nat \ {0} /\ 0 \in Int /\ 1 \in Int /\ MaxTasks - 1 \in Int
    BY KernelAssumption
  <2>2. /\ IsFiniteSet(0 .. MaxTasks - 1)
        /\ Cardinality(0 .. MaxTasks - 1) =
             IF 0 > MaxTasks - 1 THEN 0 ELSE (MaxTasks - 1) - 0 + 1
    BY <2>1, FS_Interval
  <2>3. /\ IsFiniteSet(1 .. MaxTasks - 1)
        /\ Cardinality(1 .. MaxTasks - 1) =
             IF 1 > MaxTasks - 1 THEN 0 ELSE (MaxTasks - 1) - 1 + 1
    BY <2>1, FS_Interval
  <2> QED
    BY <2>1, <2>2, <2>3
<1>5. Cardinality(1 .. MaxTasks - 1) < Cardinality(0 .. MaxTasks - 1)
  BY <1>4, KernelAssumption
<1> HIDE DEF holder
<1>6. PICK i, j \in 0 .. MaxTasks - 1 : i # j /\ holder[i] = holder[j]
  BY <1>3, <1>4, <1>5, FS_PigeonHole
<1>7. i \in Slot /\ j \in Slot /\ wait[i].task = wait[j].task /\ wait[i].task # NoTask
  BY <1>2, <1>6 DEF holder, Slot, NoTask
<1> QED
  BY <1>1, <1>6, <1>7 DEF WaitListSound

\* A task that goes to sleep or waits finds a wait slot: sleep may ignore the
\* failure to block, which does not happen.
THEOREM SlotsAlwaysSuffice ==
  ASSUME StartsInTime
  PROVE  Spec => []SlotsSuffice
<1>1. IInv => SlotsSuffice
  BY SomeSlotFree DEF SlotsSuffice
<1> QED
  BY <1>1, InvHolds, PTL

-------------------------------------------------------------------------------
(* Properties of steps. *)

\* A task is ready that has a higher priority than the current one.
HigherReady == started /\ \E p \in Priority : p < prio[current] /\ ready[p].list # <<>>

LEMMA InvertedFacts == TypeOK => (Inverted <=> HigherReady)
<1> SUFFICES ASSUME TypeOK PROVE Inverted <=> HigherReady
  OBVIOUS
<1>1. \A p \in Priority : p \in Int
  BY DEF Priority
<1>2. prio[current] \in Int
  BY <1>1 DEF TypeOK
<1>3. ASSUME Inverted PROVE HigherReady
  BY <1>3, TopFacts DEF Inverted, HigherReady
<1>4. ASSUME HigherReady PROVE Inverted
  <2>1. PICK p \in Priority : p < prio[current] /\ ready[p].list # <<>>
    BY <1>4 DEF HigherReady
  <2>2. SomeReady(ready)
    BY <2>1 DEF SomeReady
  <2>3. Top(ready) \in Priority /\ ~ (p < Top(ready))
    BY <2>1, <2>2, TopFacts
  <2> QED
    BY <1>1, <1>2, <1>4, <2>1, <2>2, <2>3 DEF Inverted, HigherReady
<1> QED
  BY <1>3, <1>4

\* A step that only takes tasks from the ready lists makes no task ready.
LEMMA HigherFalls ==
  ASSUME UNCHANGED <<started, prio, current>>,
         \A p \in Priority : ready'[p].list # <<>> => ready[p].list # <<>>
  PROVE  HigherReady' => HigherReady
BY DEF HigherReady

\* Removing a task from its list fills no list.
LEMMA UnreadyFills ==
  ASSUME TypeOK, ReadyListsSound, NEW t \in Task, ready' = Unready(t)
  PROVE  \A p \in Priority : ready'[p].list # <<>> => ready[p].list # <<>>
<1> SUFFICES ASSUME NEW p \in Priority, ready'[p].list # <<>> PROVE ready[p].list # <<>>
  OBVIOUS
<1>1. Unready(t)[p] \in ListOf(Task) /\ ready[p] \in ListOf(Task)
  BY UnreadyFacts, SMTT(30) DEF TypeOK, ListOf
<1>2. Elems(Unready(t)[p]) # {}
  BY <1>1, ElemsEmpty
<1>3. Elems(ready[p]) # {}
  BY <1>2, UnreadyFacts
<1> QED
  BY <1>1, <1>3, ElemsEmpty

\* A call that adds a task to a list and does not switch adds one that is not
\* of a higher priority than the current task.
LEMMA HigherKept ==
  ASSUME TypeOK, NEW q \in Priority, NEW t, started => ~ Preempts(q),
         ready' = WithReady(q, t), UNCHANGED <<started, current>>,
         prio'[current] = prio[current]
  PROVE  HigherReady' => HigherReady
<1> SUFFICES ASSUME HigherReady' PROVE HigherReady
  OBVIOUS
<1>1. PICK p \in Priority : started /\ p < prio[current] /\ ready'[p].list # <<>>
  BY DEF HigherReady
<1>2. p # q
  BY <1>1 DEF Preempts
<1>3. ready'[p] = ready[p]
  BY <1>2 DEF WithReady, TypeOK
<1> QED
  BY <1>1, <1>3 DEF HigherReady

\* create and resume switch to the task they make ready when its priority is
\* higher; every other call that returns only takes tasks from the ready
\* lists, and a context switch goes to the highest priority group.
LEMMA StepDoesNotInvert ==
  ASSUME IInv, [Next]_vars, call # NoCall, svc' = "none"
  PROVE  HigherReady' => HigherReady
<1>0. /\ TypeOK /\ LockDiscipline /\ CallSound /\ BootSound /\ ReadyListsSound /\ WaitListSound
      /\ RunningIsReady /\ scan = Thread /\ lock = 1
  BY DEF IInv, Control, Lists, LockDiscipline
<1> DEFINE Quiet == UNCHANGED <<started, prio, current, ready>>
<1>1. Quiet => (HigherReady' => HigherReady)
  BY HigherFalls
<1> HIDE DEF Quiet
<1>2. CASE Calls
  BY <1>0, <1>2, CallsFacts
<1>3. CASE StartBody
  BY <1>3 DEF StartBody, Syscall
<1>4. CASE CreateRefused
  <2>1. Quiet
    BY <1>4 DEF CreateRefused, Quiet, cpuVars, schedVars, taskVars
  <2> QED
    BY <1>1, <2>1
<1>5. CASE CreateBody
  <2>1. PICK t \in Task \ alloc :
          /\ prio' = [prio EXCEPT ![t] = call.prio]
          /\ ready' = IF call.susp THEN ready ELSE WithReady(call.prio, t)
          /\ IF started /\ Preempts(call.prio) /\ ~ call.susp
               THEN Syscall("ExecuteContextSwitch") ELSE Leave
    BY <1>0, <1>5, CreateFacts
  <2>2. UNCHANGED <<started, current>> /\ svc = "none" /\ call.prio \in Priority
    BY <1>0, <1>5 DEF CreateBody, Body, TypeOK
  <2>3. prio'[current] = prio[current]
    BY <1>0, <2>1, <2>2 DEF RunningIsReady, TypeOK
  <2>4. CASE call.susp
    BY <2>1, <2>2, <2>3, <2>4 DEF HigherReady
  <2>5. CASE ~ call.susp
    <3>1. started => ~ Preempts(call.prio)
      BY <2>1, <2>5 DEF Syscall
    <3> QED
      BY <1>0, <2>1, <2>2, <2>3, <2>5, <3>1, HigherKept
  <2> QED
    BY <2>4, <2>5
<1>6. CASE TerminateBody \/ SuspendBody
  <2>1. call.id \in Task /\ ready' = Unready(call.id) /\ UNCHANGED <<started, prio, current>>
    BY <1>0, <1>6 DEF TerminateBody, SuspendBody, TypeOK, cpuVars
  <2> QED
    BY <1>0, <2>1, UnreadyFills, HigherFalls
<1>7. CASE ResumeRefused
  <2>1. Quiet
    BY <1>7 DEF ResumeRefused, Quiet, cpuVars, schedVars, taskVars
  <2> QED
    BY <1>1, <2>1
<1>8. CASE ResumeBody
  <2>1. PICK q \in Priority : q = prio[call.id]
    BY <1>0 DEF TypeOK
  <2>2. /\ ready' = WithReady(q, call.id) /\ UNCHANGED <<started, current, prio>>
        /\ ~ Preempts(q)
    BY <1>8, <2>1 DEF ResumeBody, WithReady, cpuVars, Syscall
  <2> QED
    BY <1>0, <2>2, HigherKept
<1>9. CASE SleepBody
  BY <1>9 DEF SleepBody, Syscall
<1>10. CASE WaitBody
  <2>1. FreeSlots = {}
    BY <1>10 DEF WaitBody, Syscall
  <2>2. Quiet
    BY <1>10, <2>1 DEF WaitBody, Block, Quiet
  <2> QED
    BY <1>1, <2>2
<1>11. CASE ResultBody
  <2>1. Quiet
    BY <1>11 DEF ResultBody, Quiet, schedVars, taskVars
  <2> QED
    BY <1>1, <2>1
<1>12. CASE TimerBodies
  <2>1. Quiet
    BY <1>12, TimerBodiesFacts DEF Quiet, cpuVars, schedVars, taskVars
  <2> QED
    BY <1>1, <2>1
<1>13. CASE HandleSvc
  <2>1. PICK p \in Priority : p = Top(ready) /\ ready[p].cur \in Elems(ready[p])
    BY <1>0, <1>13, SchedulerFacts
  <2>2. current' = ready[p].cur /\ UNCHANGED <<started, ready, prio>> /\ SomeReady(ready)
    BY <1>13, <2>1 DEF HandleSvc
  <2>3. prio'[current'] = p
    BY <1>0, <2>1, <2>2 DEF ReadyListsSound
  <2>4. \A q \in Priority : q < p => ready[q].list = <<>>
    BY <2>1, <2>2, TopFacts
  <2> QED
    BY <2>2, <2>3, <2>4 DEF HigherReady
<1>14. CASE Ticks
  <2>1. Quiet
    BY <1>0, <1>14 DEF Ticks, TickLocked, TickBegin, Quiet, cpuVars, schedVars, taskVars
  <2> QED
    BY <1>1, <2>1
<1>15. CASE TickSteps
  BY <1>0, <1>15, TickStepsFacts
<1>16. CASE Signals
  <2>1. Quiet
    BY <1>16
    DEF Signals, SetEvent, ResetEvent, SendQueue, ReceiveQueue, Quiet, cpuVars, schedVars, taskVars
  <2> QED
    BY <1>1, <2>1
<1>17. CASE UNCHANGED vars
  <2>1. Quiet
    BY <1>17 DEF vars, Quiet, cpuVars, schedVars, taskVars
  <2> QED
    BY <1>1, <2>1
<1> QED
  BY <1>2, <1>3, <1>4, <1>5, <1>6, <1>7, <1>8, <1>9, <1>10, <1>11, <1>12, <1>13, <1>14, <1>15,
     <1>16, <1>17 DEF Next, Bodies

\* An API call that returns does not leave a higher-priority task ready that
\* was not ready before it.
THEOREM NoCallInverts ==
  ASSUME StartsInTime
  PROVE  Spec => CallsDoNotInvert
<1>0. (TypeOK => (Inverted <=> HigherReady))'
  BY InvertedFacts, PTL
<1>1. IInv /\ IInv' /\ [Next]_vars =>
        [call # NoCall /\ svc' = "none" /\ Inverted' => Inverted]_vars
  <2> SUFFICES ASSUME IInv, IInv', [Next]_vars, call # NoCall, svc' = "none", Inverted'
               PROVE  Inverted
    OBVIOUS
  <2>1. TypeOK /\ TypeOK'
    BY DEF IInv
  <2>2. HigherReady'
    BY <1>0, <2>1
  <2>3. HigherReady
    BY <2>2, StepDoesNotInvert
  <2> QED
    BY <2>1, <2>3, InvertedFacts
<1> QED
  BY <1>1, InvHolds, PTL DEF Spec, CallsDoNotInvert

\* The tick handler consumes signals only for a wait that it ends, and then
\* all of those that ended it.
LEMMA StepConsumes ==
  ASSUME IInv, [Next]_vars, NEW s \in Slot, scan = s, NEW t, t = wait[s].task
  PROVE  LET woken == t # NoTask /\ wait'[s] = FreeSlot /\ t \in Elems(ready'[prio[t]])
         IN  /\ event' # event \/ timer' # timer => woken /\ result'[t] = "ObjectSet"
             /\ woken /\ Fulfilled(wait[s]) => Consumes(wait[s].cond)
<1> DEFINE woken == t # NoTask /\ wait'[s] = FreeSlot /\ t \in Elems(ready'[prio[t]])
           Goal == /\ event' # event \/ timer' # timer => woken /\ result'[t] = "ObjectSet"
                   /\ woken /\ Fulfilled(wait[s]) => Consumes(wait[s].cond)
<1>0. /\ TypeOK /\ LockDiscipline /\ CallSound /\ BootSound /\ ReadyListsSound /\ WaitListSound
      /\ s # Thread /\ s # MaxTasks
  BY KernelAssumption DEF IInv, Control, Lists, Slot, Thread
<1>1. ASSUME UNCHANGED <<event, timer, wait>> PROVE Goal
  <2>1. ~ woken
    BY <1>1 DEF FreeSlot
  <2> QED
    BY <1>1, <2>1
<1>2. CASE SlotExpires
  BY <1>2 DEF SlotExpires, objVars, Fulfilled
<1>3. CASE SlotSignaled
  <2>1. /\ t # NoTask /\ Wake(s, "ObjectSet")
        /\ queue' = queue
        /\ event' = [e \in Events |-> event[e] /\ ~ (e \in Consumed(wait[s].cond) /\ e \notin Manual)]
        /\ timer' = [x \in Timers |-> IF x \in Consumed(wait[s].cond)
                                        THEN [timer[x] EXCEPT !.state = "Stopped"] ELSE timer[x]]
    BY <1>3 DEF SlotSignaled
  <2>2. /\ t \in Task /\ t \notin Elems(ready[prio[t]]) /\ ready' = WithReady(prio[t], t)
        /\ result' = [result EXCEPT ![t] = "ObjectSet"]
        /\ wait' = [wait EXCEPT ![s] = FreeSlot]
    BY <1>0, <2>1, WakeFacts
  <2>3. PICK q \in Priority : q = prio[t]
    BY <1>0, <2>2 DEF TypeOK
  <2>4. t \in Elems(WithReady(q, t)[q])
    BY <1>0, <2>2, <2>3, ReadyFacts
  <2>5. woken /\ result'[t] = "ObjectSet"
    BY <1>0, <2>1, <2>2, <2>3, <2>4 DEF TypeOK
  <2>6. ASSUME NEW h \in Consumed(wait[s].cond), Signaled(h)' PROVE h \in Manual \cup Queues
    <3>1. CASE h \in Events /\ event'[h]
      BY <2>1, <3>1
    <3>2. CASE h \in Timers /\ timer'[h].state = "Finished"
      BY <1>0, <2>1, <2>6, <3>2 DEF TypeOK
    <3> QED
      BY <2>6, <3>1, <3>2 DEF Signaled
  <2>7. Consumes(wait[s].cond)
    BY <2>6 DEF Consumes, Consumed
  <2> QED
    BY <2>5, <2>7
<1>4. CASE Calls
  BY <1>0, <1>4, CallsFacts
<1>5. CASE Bodies
  BY <1>0, <1>5, BodiesFacts
<1>6. CASE HandleSvc \/ Ticks
  BY <1>0, <1>6 DEF HandleSvc, Ticks, TickLocked, TickBegin
<1>7. CASE SlotPasses
  BY <1>1, <1>7 DEF SlotPasses, objVars, schedVars
<1>8. CASE TickEndsSlice \/ TickEnds
  BY <1>0, <1>8 DEF TickEndsSlice, TickEnds
<1>9. CASE Signals
  BY <1>0, <1>9 DEF Signals, SetEvent, ResetEvent, SendQueue, ReceiveQueue
<1>10. CASE UNCHANGED vars
  BY <1>1, <1>10 DEF vars, objVars, schedVars
<1> QED
  BY <1>2, <1>3, <1>4, <1>5, <1>6, <1>7, <1>8, <1>9, <1>10 DEF Next, TickSteps

\* Events are reset and timers stopped only by a wake-up, and a wake-up takes
\* all the signals that ended its wait.
THEOREM WakeUpsConsume ==
  ASSUME StartsInTime
  PROVE  Spec => WakesConsume
<1> DEFINE Step ==
      (scan \in Slot) =>
        LET t == wait[scan].task
            woken == t # NoTask /\ wait'[scan] = FreeSlot /\ t \in Elems(ready'[prio[t]])
        IN  /\ event' # event \/ timer' # timer => woken /\ result'[t] = "ObjectSet"
            /\ woken /\ Fulfilled(wait[scan]) => Consumes(wait[scan].cond)
<1>1. IInv /\ [Next]_vars => [Step]_vars
  <2> SUFFICES ASSUME IInv, [Next]_vars, scan \in Slot PROVE Step
    OBVIOUS
  <2>1. PICK s \in Slot : s = scan
    OBVIOUS
  <2>2. PICK t : t = wait[s].task
    OBVIOUS
  <2> QED
    BY <2>1, <2>2, StepConsumes
<1> HIDE DEF Step
<1>2. Spec => [][Step]_vars
  BY <1>1, InvHolds, PTL DEF Spec
<1> QED
  BY <1>2 DEF WakesConsume, Step
-------------------------------------------------------------------------------
(* The kernel implements TaskLife. *)

\* A task stays in its place when it stays on its lists.
LEMMA SamePlace ==
  ASSUME TypeOK, NEW u \in Task, u \in alloc <=> u \in alloc',
         u \in alloc =>
           /\ (\E i \in Slot : wait[i].task = u) <=> (\E i \in Slot : wait'[i].task = u)
           /\ u \in Elems(ready[prio[u]]) <=> u \in Elems(ready'[prio'[u]])
  PROVE  Place'[u] = Place[u]
BY DEF Place

LEMMA OnePlaceMoves ==
  ASSUME NEW t \in Task, \A u \in Task : u # t => Place'[u] = Place[u],
         NEW where, Place'[t] = where
  PROVE  Place' = [Place EXCEPT ![t] = where]
<1>1. Place = [u \in Task |-> Place[u]] /\ Place' = [u \in Task |-> Place'[u]]
  BY Zenon DEF Place
<1>2. PICK p : p = Place
  OBVIOUS
<1>3. PICK q : q = Place'
  OBVIOUS
<1>4. q = [p EXCEPT ![t] = where]
  BY <1>1, <1>2, <1>3
<1> QED
  BY <1>2, <1>3, <1>4

\* What the place of a task says of the lists.
LEMMA PlaceFacts ==
  ASSUME TypeOK, ReadyListsSound, WaitListSound, NEW t \in Task
  PROVE  /\ Place[t] \in {"dead", "suspended", "ready", "waiting"}
         /\ Place[t] = "dead" <=> t \notin alloc
         /\ Place[t] = "ready" <=> t \in Elems(ready[prio[t]])
         /\ Place[t] = "waiting" <=> \E i \in Slot : wait[i].task = t
<1>1. t \in Elems(ready[prio[t]]) => t \in alloc
  <2>1. prio[t] \in Priority
    BY DEF TypeOK
  <2> QED
    BY <2>1 DEF ReadyListsSound
<1>2. \A i \in Slot : wait[i].task = t => t \in alloc
  BY ConstantTypes DEF WaitListSound
<1>3. t \in Elems(ready[prio[t]]) => \A i \in Slot : wait[i].task # t
  BY ConstantTypes DEF WaitListSound
<1> QED
  BY <1>1, <1>2, <1>3 DEF Place

\* Outside of a pending SVC the running task is ready.
LEMMA CurrentServes ==
  ASSUME TypeOK, Lists, svc = "none"
  PROVE  current \in Task /\ Life!Serving
<1>1. ReadyListsSound /\ WaitListSound /\ RunningIsReady /\ current \in Task
  BY DEF Lists, TypeOK
<1> QED
  BY <1>1, CurrentListed, PlaceFacts DEF Life!Serving

\* A step that moves no task and leaves the processor alone.
LEMMA QuietLife ==
  ASSUME UNCHANGED <<ready, wait, alloc, prio, current>>
  PROVE  UNCHANGED Life!vars
BY DEF Life!vars, Place

\* Handing the processor to a ready task of the highest priority.
LEMMA DispatchesTop ==
  ASSUME TypeOK, Lists, NEW p \in Priority, NEW t \in Elems(ready[p]),
         \A q \in Priority : q < p => Elems(ready[q]) = {},
         current' = t, UNCHANGED <<wait, alloc, prio>>,
         \A q \in Priority : Elems(ready'[q]) = Elems(ready[q])
  PROVE  Life!Next
<1>0. ReadyListsSound /\ WaitListSound /\ p \in Int
  BY DEF Lists, Priority
<1>1. t \in Task /\ t \in alloc /\ prio[t] = p
  BY <1>0 DEF ReadyListsSound, TypeOK
<1>2. \A u \in Task : prio[u] \in Priority /\ prio[u] \in Int
  <2>1. prio \in [Task -> Priority]
    BY DEF TypeOK
  <2> QED
    BY <2>1 DEF Priority
<1>3. Place[t] = "ready"
  BY <1>0, <1>1, PlaceFacts, SMTT(30)
<1>4. ASSUME NEW u \in Task, Place[u] = "ready" PROVE prio[t] <= prio[u]
  <2>1. u \in Elems(ready[prio[u]])
    BY <1>0, <1>4, PlaceFacts
  <2> QED
    BY <1>0, <1>1, <1>2, <2>1
<1>5. \A u \in Task : Place'[u] = Place[u]
  BY <1>2, SamePlace
<1>6. Place' = Place
  BY <1>5 DEF Place
<1>7. Life!Dispatch(t)
  BY <1>3, <1>4, <1>6 DEF Life!Dispatch
<1> QED
  BY <1>1, <1>7 DEF Life!Next

LEMMA CreateLife ==
  ASSUME TypeOK, Lists, CreateBody
  PROVE  Life!Next
<1>0. /\ ReadyListsSound /\ WaitListSound /\ call.prio \in Priority /\ svc = "none"
      /\ UNCHANGED <<current, wait>>
  BY DEF Lists, TypeOK, CreateBody, Body
<1>1. PICK t \in Task \ alloc :
           /\ \A p \in Priority : t \notin Elems(ready[p])
           /\ alloc' = alloc \cup {t}
           /\ prio' = [prio EXCEPT ![t] = call.prio]
           /\ ready' = IF call.susp THEN ready
                       ELSE WithReady(call.prio, t)
  BY <1>0, CreateFacts
<1>2. \A p \in Priority : \A x : x \in Elems(ready'[p]) <=>
                   x \in Elems(ready[p]) \/ (p = call.prio /\ ~ call.susp /\ x = t)
  BY <1>0, <1>1, ReadyFacts, ZenonT(40)
<1>3. prio'[t] = call.prio /\ \A u \in Task : u # t => prio'[u] = prio[u] /\ prio[u] \in Priority
  BY <1>1 DEF TypeOK
<1>4. Place[t] = "dead" /\ \A i \in Slot : wait[i].task # t
  BY <1>0, <1>1, ConstantTypes, PlaceFacts DEF WaitListSound
<1>5. \A u \in Task : u # t => Place'[u] = Place[u]
  BY <1>0, <1>1, <1>2, <1>3, SamePlace
<1>6. Place'[t] = IF call.susp THEN "suspended" ELSE "ready"
  BY <1>0, <1>1, <1>2, <1>3, <1>4 DEF Place
<1>7. Life!Create(t)
  BY <1>0, <1>1, <1>4, <1>5, <1>6, CurrentServes, OnePlaceMoves DEF Life!Create
<1> QED
  BY <1>7 DEF Life!Next

\* terminate and suspend.
LEMMA RemoveLife ==
  ASSUME TypeOK, Lists, svc = "none", NEW t \in alloc \ {Idle},
         ready' = Unready(t), wait' = Unwait(t), UNCHANGED <<prio, current>>,
         alloc' = alloc \ {t} \/ alloc' = alloc
  PROVE  Life!Next
<1>0. ReadyListsSound /\ WaitListSound /\ t \in Task /\ prio \in [Task -> Priority]
  BY DEF Lists, TypeOK
<1>1. \A p \in Priority : Elems(ready'[p]) = Elems(ready[p]) \ {t}
  BY <1>0, UnreadyFacts
<1>2. \A i \in Slot : wait'[i] = IF wait[i].task = t THEN FreeSlot ELSE wait[i]
  BY <1>0, UnwaitFacts
<1>3. FreeSlot.task = NoTask /\ NoTask \notin Task
  BY ConstantTypes DEF FreeSlot
<1>4. \A u \in Task : u # t => Place'[u] = Place[u]
  <2> SUFFICES ASSUME NEW u \in Task, u # t PROVE Place'[u] = Place[u]
    OBVIOUS
  <2>1. u \in Elems(ready[prio[u]]) <=> u \in Elems(ready'[prio'[u]])
    BY <1>0, <1>1
  <2>2. (\E i \in Slot : wait[i].task = u) <=> (\E i \in Slot : wait'[i].task = u)
    BY <1>2, <1>3
  <2> QED
    BY <2>1, <2>2, SamePlace
<1>5. Place[t] \in {"suspended", "ready", "waiting"}
  BY <1>0, PlaceFacts
<1>6. Place'[t] = IF alloc' = alloc THEN "suspended" ELSE "dead"
  <2>1. t \notin Elems(ready'[prio'[t]]) /\ \A i \in Slot : wait'[i].task # t
    BY <1>0, <1>1, <1>2, <1>3
  <2> QED
    BY <1>0, <2>1 DEF Place
<1>7. Life!Suspend(t) \/ Life!Terminate(t)
  BY <1>0, <1>4, <1>5, <1>6, CurrentServes, OnePlaceMoves
  DEF Life!Suspend, Life!Terminate, Life!Goes, Life!Live
<1> QED
  BY <1>0, <1>7 DEF Life!Next

\* Putting a task of no list, or of a wait slot that is freed, on its ready list.
LEMMA ReadyLife ==
  ASSUME TypeOK, Lists, svc = "none", NEW t \in alloc, t \notin Elems(ready[prio[t]]),
         ready' = WithReady(prio[t], t), UNCHANGED <<alloc, prio, current>>,
         \A i \in Slot : wait'[i] = IF wait[i].task = t THEN FreeSlot ELSE wait[i]
  PROVE  Life!Next
<1>0. ReadyListsSound /\ WaitListSound /\ t \in Task /\ prio \in [Task -> Priority]
  BY DEF Lists, TypeOK
<1>1. PICK q \in Priority : q = prio[t]
  BY <1>0
<1>2. \A p \in Priority : \A x : x \in Elems(ready'[p]) <=>
                   x \in Elems(ready[p]) \/ (p = q /\ x = t)
  <2>1. t \notin Elems(ready[q]) /\ ready' = WithReady(q, t)
    BY <1>1
  <2>2. \A p \in Priority : \A x : x \in Elems(WithReady(q, t)[p]) <=>
                   x \in Elems(ready[p]) \/ (p = q /\ x = t)
    BY <1>0, <2>1, ReadyFacts
  <2> QED
    BY <2>1, <2>2
<1>3. FreeSlot.task = NoTask /\ NoTask \notin Task
  BY ConstantTypes DEF FreeSlot
<1>4. \A u \in Task : u # t => Place'[u] = Place[u]
  <2> SUFFICES ASSUME NEW u \in Task, u # t PROVE Place'[u] = Place[u]
    OBVIOUS
  <2>1. u \in Elems(ready[prio[u]]) <=> u \in Elems(ready'[prio'[u]])
    BY <1>0, <1>2
  <2>2. (\E i \in Slot : wait[i].task = u) <=> (\E i \in Slot : wait'[i].task = u)
    BY <1>3
  <2> QED
    BY <2>1, <2>2, SamePlace
<1>5. Place[t] \in {"suspended", "waiting"}
  BY <1>0, PlaceFacts
<1>6. Place'[t] = "ready"
  <2>1. t \in Elems(ready'[prio'[t]]) /\ \A i \in Slot : wait'[i].task # t
    BY <1>0, <1>1, <1>2, <1>3
  <2> QED
    BY <1>0, <2>1 DEF Place
<1>7. Life!Resume(t) \/ Life!Wake(t)
  BY <1>0, <1>4, <1>5, <1>6, CurrentServes, OnePlaceMoves DEF Life!Resume, Life!Wake, Life!Goes
<1> QED
  BY <1>0, <1>7 DEF Life!Next

LEMMA ResumeLife ==
  ASSUME TypeOK, Lists, CallSound, ResumeBody
  PROVE  Life!Next
<1>0. ReadyListsSound /\ WaitListSound /\ WaitersMarked
  BY DEF Lists
<1>1. PICK t : t = call.id
  OBVIOUS
<1>2. /\ svc = "none" /\ t \in alloc /\ state[t] = "Suspended"
      /\ t \notin Elems(ready[prio[t]]) /\ ready' = WithReady(prio[t], t)
      /\ UNCHANGED <<prio, alloc, wait, current>>
  BY <1>1 DEF ResumeBody, Body, CallSound, WithReady
<1>3. t # NoTask
  BY <1>2, ConstantTypes DEF TypeOK
<1>4. \A i \in Slot : wait[i].task # t
  BY <1>0, <1>2, <1>3 DEF WaitersMarked
<1>5. \A i \in Slot : wait'[i] = IF wait[i].task = t THEN FreeSlot ELSE wait[i]
  BY <1>2, <1>4
<1> QED
  BY <1>0, <1>2, <1>5, ReadyLife

LEMMA WakeLife ==
  ASSUME TypeOK, Lists, svc = "none", NEW i \in Slot, wait[i].task # NoTask, NEW res,
         Wake(i, res), UNCHANGED <<current, alloc, prio>>
  PROVE  Life!Next
<1>0. ReadyListsSound /\ WaitListSound
  BY DEF Lists
<1>1. PICK t \in Task :
           /\ wait[i].task = t /\ t \notin Elems(ready[prio[t]])
           /\ ready' = WithReady(prio[t], t)
           /\ wait' = [wait EXCEPT ![i] = FreeSlot]
  BY <1>0, WakeFacts
<1>2. t \in alloc /\ \A j \in Slot : wait[j].task = t => j = i
  BY <1>0, <1>1, ConstantTypes DEF WaitListSound
<1>3. \A j \in Slot : wait'[j] = IF wait[j].task = t THEN FreeSlot ELSE wait[j]
  BY <1>1, <1>2 DEF TypeOK
<1> QED
  BY <1>1, <1>2, <1>3, ReadyLife

\* sleep and wait; with no free slot nothing moves.
LEMMA BlockLife ==
  ASSUME TypeOK, Lists, svc = "none", current # Idle, NEW kind, Block(kind),
         UNCHANGED <<prio, alloc, current>>
  PROVE  [Life!Next]_(Life!vars)
<1>0. ReadyListsSound /\ WaitListSound /\ RunningIsReady /\ current \in Task
      /\ prio \in [Task -> Priority]
  BY DEF Lists, TypeOK
<1>1. CASE FreeSlots = {}
  BY <1>1, QuietLife DEF Block
<1>2. CASE FreeSlots # {}
  <2>1. PICK i \in Slot :
           /\ wait[i].task = NoTask
           /\ wait' = [wait EXCEPT ![i] =
                [task |-> current, kind |-> kind, cond |-> call.cond, start |-> now]]
           /\ ready' = Unready(current)
    BY <1>0, <1>2, BlockFacts
  <2>2. \A p \in Priority : Elems(ready'[p]) = Elems(ready[p]) \ {current}
    BY <1>0, <2>1, UnreadyFacts
  <2>3. wait'[i].task = current /\ \A j \in Slot : j # i => wait'[j] = wait[j]
    BY <2>1 DEF TypeOK
  <2>4. current \in alloc /\ Place[current] = "ready" /\ NoTask \notin Task
    BY <1>0, CurrentListed, CurrentServes, ConstantTypes DEF Life!Serving
  <2>5. ASSUME NEW u \in Task, u # current PROVE Place'[u] = Place[u]
    <3>1. u \in Elems(ready[prio[u]]) <=> u \in Elems(ready'[prio'[u]])
      BY <1>0, <2>2, <2>5
    <3>2. (\E j \in Slot : wait[j].task = u) <=> (\E j \in Slot : wait'[j].task = u)
      BY <2>1, <2>3, <2>4, <2>5
    <3> QED
      BY <3>1, <3>2, SamePlace
  <2>6. Place'[current] = "waiting"
    BY <1>0, <2>3, <2>4 DEF Place
  <2>7. Life!Block
    BY <1>0, <2>4, <2>5, <2>6, OnePlaceMoves DEF Life!Block, Life!Goes, Life!Serving
  <2> QED
    BY <2>7 DEF Life!Next
<1> QED
  BY <1>1, <1>2

\* A step of the kernel moves tasks as TaskLife says, or none.
LEMMA StepLives ==
  ASSUME IInv, [Next]_vars
  PROVE  [Life!Next]_(Life!vars)
<1>0. /\ TypeOK /\ Lists /\ LockDiscipline /\ CallSound /\ ReadyListsSound /\ RunningIsReady
      /\ BootSound
  BY DEF IInv, Control, Lists
<1> USE DEF callVars, cpuVars, schedVars, taskVars
<1>1. CASE Calls
  <2>1. PICK c \in CallType : Enter(c)
    BY <1>0, <1>1, CallsFacts
  <2> QED
    BY <2>1, QuietLife DEF Enter
<1>2. CASE StartBody \/ CreateRefused \/ ResumeRefused \/ ResultBody
  BY <1>2, QuietLife DEF StartBody, CreateRefused, ResumeRefused, ResultBody
<1>3. CASE CreateBody
  BY <1>0, <1>3, CreateLife
<1>4. CASE TerminateBody \/ SuspendBody
  <2>1. svc = "none" /\ call.id \in alloc \ {Idle}
    BY <1>0, <1>4 DEF TerminateBody, SuspendBody, Body, CallSound
  <2>2. /\ ready' = Unready(call.id) /\ wait' = Unwait(call.id)
        /\ UNCHANGED <<prio, current>>
        /\ alloc' = alloc \ {call.id} \/ alloc' = alloc
    BY <1>4 DEF TerminateBody, SuspendBody
  <2> QED
    BY <1>0, <2>1, <2>2, RemoveLife
<1>5. CASE ResumeBody
  BY <1>0, <1>5, ResumeLife
<1>6. CASE SleepBody \/ WaitBody
  <2>1. svc = "none" /\ started /\ exec # Idle
    BY <1>0, <1>6 DEF SleepBody, WaitBody, Body, CallSound
  <2>2. current # Idle
    BY <1>0, <2>1 DEF RunningIsReady
  <2>3. PICK kind : Block(kind) /\ UNCHANGED <<prio, alloc, current>>
    BY <1>6 DEF SleepBody, WaitBody
  <2> QED
    BY <1>0, <2>1, <2>2, <2>3, BlockLife
<1>7. CASE TimerBodies
  BY <1>7, TimerBodiesFacts, QuietLife
<1>8. CASE HandleSvc
  <2>1. PICK p \in Priority : /\ p = Top(ready) /\ ready[p].cur \in Elems(ready[p])
                             /\ \A q \in Priority : q < p => Elems(ready[q]) = {}
    BY <1>0, SchedulerFacts
  <2>2. current' = ready[p].cur /\ UNCHANGED <<ready, wait, alloc, prio>>
    BY <1>8, <2>1 DEF HandleSvc
  <2> QED
    BY <1>0, <2>1, <2>2, DispatchesTop
<1>9. CASE Ticks
  BY <1>9, QuietLife DEF Ticks, TickLocked, TickBegin
<1>10. CASE SlotPasses \/ TickEnds
  BY <1>10, QuietLife DEF SlotPasses, TickEnds
<1>11. CASE SlotExpires \/ SlotSignaled
  <2>1. scan \in Slot /\ scan # Thread /\ wait[scan].task # NoTask
    BY <1>11, ConstantTypes DEF SlotExpires, SlotSignaled, Slot, Thread
  <2>2. svc = "none"
    BY <1>0, <2>1 DEF LockDiscipline
  <2>3. PICK res : Wake(scan, res) /\ UNCHANGED <<current, alloc, prio>>
    BY <1>11 DEF SlotExpires, SlotSignaled
  <2> QED
    BY <1>0, <2>1, <2>2, <2>3, WakeLife
<1>12. CASE TickEndsSlice
  <2>1. PICK p \in Priority :
           LET next == Advance(ready[p])
           IN  /\ Elems(next) = Elems(ready[p]) /\ next.cur \in Elems(ready[p])
               /\ \A q \in Priority : q < p => Elems(ready[q]) = {}
               /\ ready' = [ready EXCEPT ![p] = next] /\ current' = next.cur
    BY <1>0, <1>12, SliceFacts
  <2>2. \A q \in Priority : Elems(ready'[q]) = Elems(ready[q])
    BY <1>0, <2>1 DEF TypeOK
  <2>3. UNCHANGED <<wait, alloc, prio>>
    BY <1>12 DEF TickEndsSlice
  <2> QED
    BY <1>0, <2>1, <2>2, <2>3, DispatchesTop
<1>13. CASE Signals
  BY <1>13, QuietLife DEF Signals, SetEvent, ResetEvent, SendQueue, ReceiveQueue
<1>14. CASE UNCHANGED vars
  BY <1>14, QuietLife DEF vars
<1> QED
  BY <1>1, <1>2, <1>3, <1>4, <1>5, <1>6, <1>7, <1>8, <1>9, <1>10, <1>11, <1>12, <1>13, <1>14
  DEF Next, Bodies, TickSteps

LEMMA LifeBegins == Init => Life!Init
<1> SUFFICES ASSUME Init PROVE Life!Init
  OBVIOUS
<1>1. prio \in [Task -> Priority] /\ prio[Idle] = IdlePriority /\ current = Idle
  BY InitType, ConstantTypes DEF TypeOK, Init
<1>2. Idle \in Elems(ready[IdlePriority])
  BY ConstantTypes DEF Init, Elems
<1>3. alloc = {Idle} /\ \A i \in Slot : wait[i].task = NoTask
  BY DEF Init, FreeSlot
<1>4. Place = [t \in Task |-> IF t = Idle THEN "ready" ELSE "dead"]
  BY <1>1, <1>2, <1>3, ConstantTypes DEF Place
<1> QED
  BY <1>1, <1>4 DEF Life!Init

\* Every call and every handler moves at most one task, from a place it may
\* leave to one it may enter, and hands the processor only to a ready task of
\* the highest priority, before anything else when its task has left the lists.
THEOREM KernelImplementsTaskLife ==
  ASSUME StartsInTime
  PROVE  Spec => ImplementsTaskLife
<1>1. IInv /\ [Next]_vars => [Life!Next]_(Life!vars)
  BY StepLives
<1> QED
  BY <1>1, InvHolds, LifeBegins, PTL DEF Spec, ImplementsTaskLife, Life!Spec

-------------------------------------------------------------------------------
(* What the kernel asks of its lock and of its ready lists is what the        *)
(* modules KernelLock and TaskRing promise of them.                           *)

\* The owner of the lock is the context that executes while it is held.
Owner == IF lock = 0 THEN MaxTasks ELSE exec

Lock == INSTANCE KernelLock
          WITH Tasks <- Task \cup {Main}, None <- MaxTasks, owner <- Owner, running <- exec

LEMMA StepLocks ==
  ASSUME IInv, [Next]_vars
  PROVE  [Lock!Next]_<<Owner, exec>>
<1>0. /\ TypeOK /\ LockDiscipline /\ CallSound /\ BootSound /\ ReadyListsSound
      /\ MaxTasks # exec /\ exec \in Task \cup {Main} /\ (lock = 0 <=> call = NoCall)
      /\ lock \in {0, 1}
  <2>1. MaxTasks \notin Task \cup {Main}
    BY KernelAssumption DEF Task, Main
  <2> QED
    BY <2>1 DEF IInv, Control, TypeOK, Lists, LockDiscipline
<1>1. ASSUME UNCHANGED <<lock, exec>> PROVE [Lock!Next]_<<Owner, exec>>
  BY <1>1 DEF Owner
<1>2. ASSUME Leave, call # NoCall, UNCHANGED exec PROVE Lock!Next
  <2>1. lock = 1 /\ lock' = 0
    BY <1>0, <1>2 DEF Leave, LockDiscipline
  <2> QED
    BY <1>2, <2>1 DEF Lock!Next, Lock!Release, Owner
<1>3. CASE Calls
  <2>1. PICK c \in CallType : call = NoCall /\ Enter(c)
    BY <1>0, <1>3, CallsFacts
  <2>2. lock = 0 /\ lock' = 1 /\ exec' = exec
    BY <1>0, <2>1 DEF Enter, cpuVars
  <2> QED
    BY <2>2 DEF Lock!Next, Lock!Acquire, Owner
<1>4. CASE Bodies
  <2>1. call # NoCall /\ UNCHANGED exec /\ (Leave \/ \E id : Syscall(id))
    <3>1. CASE StartBody
      BY <3>1 DEF StartBody, Body, NoCall
    <3>2. CASE CreateRefused \/ ResumeRefused
      BY <3>2 DEF CreateRefused, ResumeRefused, Body, NoCall, cpuVars
    <3>3. CASE CreateBody
      <4>1. call # NoCall /\ UNCHANGED exec
        BY <3>3 DEF CreateBody, Body, NoCall
      <4>2. Leave \/ Syscall("ExecuteContextSwitch")
        BY <1>0, <3>3, CreateFacts
      <4> QED
        BY <4>1, <4>2
    <3>4. CASE TerminateBody \/ SuspendBody
      BY <3>4 DEF TerminateBody, SuspendBody, Body, NoCall, cpuVars
    <3>5. CASE ResumeBody
      BY <3>5 DEF ResumeBody, Body, NoCall, cpuVars
    <3>6. CASE SleepBody
      BY <3>6 DEF SleepBody, Body, NoCall, cpuVars
    <3>7. CASE WaitBody
      BY <3>7 DEF WaitBody, Body, NoCall
    <3>8. CASE ResultBody
      BY <3>8 DEF ResultBody, Body, NoCall
    <3>9. CASE TimerBodies
      <4>1. Leave /\ UNCHANGED exec /\ \E op \in TimerOps \cup {"timerCreate"} : Body(op)
        BY <3>9, TimerBodiesFacts DEF cpuVars
      <4> QED
        BY <4>1 DEF Body, NoCall, TimerOps
    <3> QED
      BY <1>4, <3>1, <3>2, <3>3, <3>4, <3>5, <3>6, <3>7, <3>8, <3>9 DEF Bodies
  <2> QED
    BY <1>1, <1>2, <2>1 DEF Syscall
<1>5. CASE HandleSvc
  <2>1. lock = 1 /\ lock' = 0
    BY <1>0, <1>5 DEF HandleSvc, LockDiscipline
  <2>2. exec' \in Task \cup {Main}
    BY <1>0, <1>5, HandleSvcType DEF TypeOK
  <2> QED
    BY <2>1, <2>2 DEF Lock!Next, Lock!Switch, Owner
<1>6. CASE Ticks
  BY <1>1, <1>6 DEF Ticks, TickLocked, TickBegin, callVars, cpuVars
<1>7. CASE TickEndsSlice
  <2>1. lock = 0 /\ lock' = 0
    BY <1>0, <1>7, KernelAssumption DEF TickEndsSlice, LockDiscipline, callVars, Thread
  <2>2. exec' \in Task \cup {Main}
    BY <1>0, <1>7, SliceFacts DEF TypeOK
  <2> QED
    BY <2>1, <2>2 DEF Lock!Next, Lock!Switch, Owner
<1>8. CASE SlotPasses \/ SlotExpires \/ SlotSignaled \/ TickEnds
  BY <1>1, <1>8 DEF SlotPasses, SlotExpires, SlotSignaled, TickEnds, callVars
<1>9. CASE Signals
  BY <1>1, <1>9 DEF Signals, SetEvent, ResetEvent, SendQueue, ReceiveQueue, callVars, cpuVars
<1>10. CASE UNCHANGED vars
  BY <1>1, <1>10 DEF vars, callVars, cpuVars
<1> QED
  BY <1>3, <1>4, <1>5, <1>6, <1>7, <1>8, <1>9, <1>10 DEF Next, TickSteps

\* The API, the SVC handler and the tick use the kernel lock as KernelLock
\* has it: it is taken when free, released by its owner or with the switch of
\* the SVC handler, and the processor changes hands only so or while it is free.
THEOREM KernelUsesLock ==
  ASSUME StartsInTime
  PROVE  Spec => Lock!Spec
<1>1. Init => Lock!Init
  BY DEF Init, Lock!Init, Owner
<1>2. IInv /\ [Next]_vars => [Lock!Next]_<<Owner, exec>>
  BY StepLocks
<1> QED
  BY <1>1, <1>2, InvHolds, PTL DEF Spec, Lock!Spec

\* A list of distinct tasks that lacks one has room for it in a pool of
\* MaxTasks nodes.
LEMMA ListHasRoom ==
  ASSUME NEW l \in ListOf(Task), Sound(l), NEW t \in Task, t \notin Elems(l)
  PROVE  Len(l.list) < MaxTasks
<1> SUFFICES ASSUME MaxTasks <= Len(l.list) PROVE FALSE
  BY KernelAssumption DEF ListOf
<1> DEFINE n == Len(l.list)
           f == [i \in 1 .. n |-> l.list[i]]
<1>1. n \in Nat /\ \A i \in 1 .. n : l.list[i] \in Task \ {t}
  BY DEF ListOf, Elems
<1>2. f \in [1 .. n -> Task \ {t}]
  BY <1>1
<1>3. IsFiniteSet(1 .. n) /\ Cardinality(1 .. n) = n
  <2>1. 1 \in Int /\ n \in Int
    BY <1>1
  <2>2. /\ IsFiniteSet(1 .. n)
        /\ Cardinality(1 .. n) = IF 1 > n THEN 0 ELSE n - 1 + 1
    BY <2>1, FS_Interval
  <2> QED
    BY <1>1, <2>2
<1>4. IsFiniteSet(Task) /\ Cardinality(Task) = MaxTasks
  <2>1. 0 \in Int /\ MaxTasks - 1 \in Int /\ MaxTasks \in Nat \ {0}
    BY KernelAssumption
  <2>2. /\ IsFiniteSet(0 .. MaxTasks - 1)
        /\ Cardinality(0 .. MaxTasks - 1) =
             IF 0 > MaxTasks - 1 THEN 0 ELSE (MaxTasks - 1) - 0 + 1
    BY <2>1, FS_Interval
  <2> QED
    BY <2>1, <2>2 DEF Task
<1>5. IsFiniteSet(Task \ {t}) /\ Cardinality(Task \ {t}) = MaxTasks - 1
  BY <1>4, FS_RemoveElement
<1>6. Cardinality(Task \ {t}) < Cardinality(1 .. n)
  BY <1>1, <1>3, <1>5, KernelAssumption
<1> HIDE DEF f
<1>7. PICK i, j \in 1 .. n : i # j /\ f[i] = f[j]
  BY <1>2, <1>3, <1>5, <1>6, FS_PigeonHole
<1>8. l.list[i] = l.list[j] /\ i \in DOMAIN l.list /\ j \in DOMAIN l.list
  BY <1>7 DEF f, ListOf
<1> QED
  BY <1>7, <1>8 DEF Sound, Distinct

\* The operations of TaskRing: an addition of a new task finds a free node.
RingStep(l, m) ==
  \/ \E t \in Task : t \notin Elems(l) /\ Len(l.list) < MaxTasks /\ m = AddTask(l, t)
  \/ \E t \in Task : m = RemoveTask(l, t)
  \/ m = Advance(l)
RingSteps == \A p \in Priority : ready'[p] = ready[p] \/ RingStep(ready[p], ready'[p])

\* What each operation of the scheduler does to the ready lists.
LEMMA AddingIsRing ==
  ASSUME TypeOK, ReadyListsSound, NEW q \in Priority, NEW t \in Task, t \notin Elems(ready[q]),
         ready' = WithReady(q, t)
  PROVE  RingSteps
<1>1. ready[q] \in ListOf(Task) /\ Sound(ready[q])
  BY DEF TypeOK, ListOf, ReadyListsSound, Sound, Distinct, CursorSound
<1>2. Len(ready[q].list) < MaxTasks
  BY <1>1, ListHasRoom
<1>3. ready'[q] = AddTask(ready[q], t) /\ \A p \in Priority : p # q => ready'[p] = ready[p]
  BY DEF TypeOK, WithReady
<1> QED
  BY <1>2, <1>3 DEF RingSteps, RingStep

LEMMA RemovingIsRing ==
  ASSUME TypeOK, NEW t \in Task, ready' = Unready(t)
  PROVE  RingSteps
<1>1. /\ ready'[prio[t]] = RemoveTask(ready[prio[t]], t)
      /\ \A p \in Priority : p # prio[t] => ready'[p] = ready[p]
  BY DEF TypeOK, Unready
<1> QED
  BY <1>1 DEF RingSteps, RingStep

LEMMA StepRings ==
  ASSUME IInv, [Next]_vars
  PROVE  RingSteps
<1>0. /\ TypeOK /\ Lists /\ LockDiscipline /\ CallSound /\ ReadyListsSound /\ WaitListSound
      /\ BootSound
  BY DEF IInv, Control, Lists
<1> USE DEF schedVars
<1>1. ASSUME UNCHANGED ready PROVE RingSteps
  BY <1>1 DEF RingSteps
<1>2. CASE Calls
  <2>1. PICK c \in CallType : Enter(c)
    BY <1>0, <1>2, CallsFacts
  <2> QED
    BY <1>1, <2>1 DEF Enter
<1>3. CASE StartBody \/ CreateRefused \/ ResumeRefused \/ ResultBody
  BY <1>1, <1>3 DEF StartBody, CreateRefused, ResumeRefused, ResultBody
<1>4. CASE CreateBody
  <2>1. PICK t \in Task \ alloc :
           /\ \A p \in Priority : t \notin Elems(ready[p])
           /\ ready' = IF call.susp THEN ready ELSE WithReady(call.prio, t)
    BY <1>0, <1>4, CreateFacts
  <2>2. call.prio \in Priority
    BY <1>0 DEF TypeOK
  <2> QED
    BY <1>0, <1>1, <2>1, <2>2, AddingIsRing
<1>5. CASE TerminateBody \/ SuspendBody
  <2>1. call.id \in Task /\ ready' = Unready(call.id)
    BY <1>0, <1>5 DEF TerminateBody, SuspendBody, TypeOK
  <2> QED
    BY <1>0, <2>1, RemovingIsRing
<1>6. CASE ResumeBody
  <2>1. call.id \in Task /\ prio[call.id] \in Priority
    BY <1>0 DEF TypeOK
  <2>2. /\ call.id \notin Elems(ready[prio[call.id]])
        /\ ready' = WithReady(prio[call.id], call.id)
    BY <1>6 DEF ResumeBody, WithReady
  <2> QED
    BY <1>0, <2>1, <2>2, AddingIsRing
<1>7. CASE SleepBody \/ WaitBody
  <2>1. PICK kind : Block(kind)
    BY <1>7 DEF SleepBody, WaitBody
  <2>2. current \in Task /\ (ready' = ready \/ ready' = Unready(current))
    BY <1>0, <2>1 DEF Block, TypeOK
  <2> QED
    BY <1>0, <1>1, <2>2, RemovingIsRing
<1>8. CASE TimerBodies
  BY <1>1, <1>8, TimerBodiesFacts
<1>9. CASE HandleSvc
  BY <1>1, <1>9 DEF HandleSvc
<1>10. CASE Ticks
  BY <1>1, <1>10 DEF Ticks, TickLocked, TickBegin
<1>11. CASE SlotPasses \/ TickEnds
  BY <1>1, <1>11 DEF SlotPasses, TickEnds
<1>12. CASE SlotExpires \/ SlotSignaled
  <2>1. scan \in Slot /\ wait[scan].task # NoTask
    BY <1>12 DEF SlotExpires, SlotSignaled
  <2>2. PICK res : Wake(scan, res)
    BY <1>12 DEF SlotExpires, SlotSignaled
  <2>3. PICK t \in Task : /\ t \notin Elems(ready[prio[t]])
                         /\ ready' = WithReady(prio[t], t)
    BY <1>0, <2>1, <2>2, WakeFacts
  <2>4. prio[t] \in Priority
    BY <1>0 DEF TypeOK
  <2> QED
    BY <1>0, <2>3, <2>4, AddingIsRing
<1>13. CASE TickEndsSlice
  <2>1. PICK p \in Priority : ready' = [ready EXCEPT ![p] = Advance(ready[p])]
    BY <1>0, <1>13, SliceFacts
  <2>2. ready'[p] = Advance(ready[p]) /\ \A q \in Priority : q # p => ready'[q] = ready[q]
    BY <1>0, <2>1 DEF TypeOK
  <2> QED
    BY <2>2 DEF RingSteps, RingStep
<1>14. CASE Signals
  BY <1>1, <1>14 DEF Signals, SetEvent, ResetEvent, SendQueue, ReceiveQueue
<1>15. CASE UNCHANGED vars
  BY <1>1, <1>15 DEF vars
<1> QED
  BY <1>2, <1>3, <1>4, <1>5, <1>6, <1>7, <1>8, <1>9, <1>10, <1>11, <1>12, <1>13, <1>14, <1>15
  DEF Next, Bodies, TickSteps

\* The scheduler changes a ready list only by the operations that CircularList
\* is shown to implement, and a list never needs more nodes than its pool of
\* MaxTasks has: the failure of addTask that the code handles does not occur.
THEOREM KernelUsesRings ==
  ASSUME StartsInTime
  PROVE  Spec => [][RingSteps]_vars
<1>1. IInv /\ [Next]_vars => [RingSteps]_vars
  BY StepRings
<1> QED
  BY <1>1, InvHolds, PTL DEF Spec
===============================================================================
