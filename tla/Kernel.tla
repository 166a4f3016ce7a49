-------------------------------- MODULE Kernel --------------------------------
(***************************************************************************)
(* The kernel of kernel.cpp with its scheduler: tasks and main calling the *)
(* API under the kernel lock, the SVC handler that switches context on     *)
(* their request, the SysTick handler that wakes waiting tasks and serves  *)
(* round robin, and interrupts or tasks that signal events and queues.     *)
(*                                                                         *)
(* An API call is three steps: it takes the lock, it does its work, and it *)
(* releases the lock or asks the SVC handler to switch and release it.     *)
(* SysTick may come between any two of them; SVC, PendSV and SysTick have  *)
(* the same priority, so a handler is never interrupted by another.  The   *)
(* tick handler is one step per wait slot because each slot sees what the  *)
(* slots before it consumed.                                               *)
(***************************************************************************)
EXTENDS Integers, Sequences, FiniteSets, ReadyList

CONSTANTS
  MaxTasks,        \* task::max_number: task ids and wait slots
  Interval,        \* context_switch_interval_ms
  TimeMod,         \* TimeMs counts modulo TimeMod (2^32 in the code)
  Events, Manual,  \* events, and those created with a_manual_reset
  Queues, QueueMax,\* queues and their capacity
  Timers, TimerInterval,
  Others,          \* handles that no wait supports (task handles)
  Ops,             \* the operations the program uses
  Priorities,      \* priorities it creates tasks with
  SleepTimes,      \* arguments of sleep that really sleep
  Conditions,      \* arguments of waitForMultipleObjects
  MaxLockedTicks,  \* bound: consecutive ticks that find the lock held
  BootTicks        \* bound: ticks before kernel::start

Handles == Events \cup Queues \cup Timers \cup Others
Time == 0 .. TimeMod - 1
Condition == [objs : Seq(Handles), all : BOOLEAN, forever : BOOLEAN, interval : Time]

ASSUME KernelAssumption ==
  /\ MaxTasks \in Nat \ {0}
  /\ TimeMod \in Nat \ {0} /\ Interval \in Nat
  /\ Manual \subseteq Events /\ QueueMax \in Nat
  /\ TimerInterval \in [Timers -> Time]
  /\ Priorities \subseteq 0 .. 3
  /\ SleepTimes \subseteq {t \in Time : t > Interval}
  /\ Conditions \subseteq {c \in Condition : c.objs # <<>>}
  /\ MaxLockedTicks \in Nat /\ BootTicks \in Nat

Task == 0 .. MaxTasks - 1
Slot == 0 .. MaxTasks - 1
Idle == 0
Priority == 0 .. 3       \* High, Medium, Low, Idle
IdlePriority == 3
Main == -1               \* the context of main() before kernel::start
Thread == -1             \* the processor is not in the tick handler

\* A mutant: a subtraction that does not wrap.
BeforeUnwrapped(s, t) == s - t

Before(s, t) == (s - t) % TimeMod   \* unsigned subtraction of TimeMs

NoCondition == [objs |-> <<>>, all |-> FALSE, forever |-> FALSE, interval |-> 0]
NoHandle == "none"
NoCall == [op |-> "none", id |-> Idle, prio |-> IdlePriority, susp |-> FALSE,
           cond |-> NoCondition, obj |-> NoHandle]
FreeSlot == [task |-> NoTask, kind |-> "free", cond |-> NoCondition, start |-> 0]
FreeTimer == [state |-> "Free", start |-> 0, seen |-> 0]

VARIABLES
  lock,        \* lock::Context::m_interlock
  call,        \* the API call of the executing context, NoCall in user code
  svc,         \* the SVC that call has requested
  started,     \* m_started
  exec,        \* whose registers and stack the processor holds
  pc,          \* where a task goes on: "user" code or inside a wait ("waited")
  scan,        \* the wait slot the tick handler looks at, or Thread
  now, old,    \* system_timer: m_current_time and m_old_time
  lockedTicks, \* consecutive ticks that found the lock held
  current,     \* scheduler::Context::m_current
  ready,       \* ready lists, one per priority
  wait,        \* wait list, one item per slot
  alloc, prio, state, result, signal,   \* task::Context, by task id
  event, queue, timer                   \* the objects a task can wait for

callVars == <<lock, call, svc>>
cpuVars  == <<started, exec, pc, scan>>
timeVars == <<now, old, lockedTicks>>
schedVars == <<current, ready, wait>>
taskVars == <<alloc, prio, state, result, signal>>
objVars  == <<event, queue, timer>>
vars == <<callVars, cpuVars, timeVars, schedVars, taskVars, objVars>>

\* After kernel::init: the idle task exists, SysTick runs, main executes.
Init ==
  /\ lock = 0 /\ call = NoCall /\ svc = "none"
  /\ started = FALSE /\ exec = Main /\ pc = [t \in Task |-> "user"] /\ scan = Thread
  /\ now = 0 /\ old = 0 /\ lockedTicks = 0
  /\ current = Idle
  /\ ready = [p \in Priority |->
       IF p = IdlePriority THEN [list |-> <<Idle>>, cur |-> Idle] ELSE EmptyList]
  /\ wait = [i \in Slot |-> FreeSlot]
  /\ alloc = {Idle}
  /\ prio = [t \in Task |-> IF t = Idle THEN IdlePriority ELSE 0]
  /\ state = [t \in Task |-> IF t = Idle THEN "Ready" ELSE "Suspended"]
  /\ result = [t \in Task |-> "ObjectSet"]
  /\ signal = [t \in Task |-> 0]
  /\ event = [e \in Events |-> FALSE]
  /\ queue = [q \in Queues |-> 0]
  /\ timer = [x \in Timers |-> FreeTimer]

Least(S) == CHOOSE i \in S : \A j \in S : i <= j
FreeSlots == {i \in Slot : wait[i].task = NoTask}

-----------------------------------------------------------------------------
(* Entering an API call.  ++m_interlock is one step here; module Interlock *)
(* shows that its load and store may be torn apart by a tick.              *)

InUserCode == call = NoCall /\ scan = Thread
TaskMayCall(op) ==
  op \in Ops /\ InUserCode /\ exec \in Task \ {Idle} /\ pc[exec] = "user"
MainMayCall(op) == op \in Ops /\ InUserCode /\ exec = Main

\* A mutant: the call runs without the kernel lock.
EnterUnlocked(c) ==
  /\ call' = c
  /\ UNCHANGED <<lock, svc, cpuVars, timeVars, schedVars, taskVars, objVars>>

Enter(c) ==
  /\ lock' = lock + 1 /\ call' = c
  /\ UNCHANGED <<svc, cpuVars, timeVars, schedVars, taskVars, objVars>>

CallStart == MainMayCall("start") /\ ~ started /\ Enter([NoCall EXCEPT !.op = "start"])

CallCreate(p, s) ==
  /\ TaskMayCall("create") \/ MainMayCall("create")
  /\ s => "createSuspended" \in Ops
  /\ Enter([NoCall EXCEPT !.op = "create", !.prio = p, !.susp = s])

\* Terminating or suspending the idle task is documented as undefined, and
\* a stale handle trips an assert; resume and suspend need m_started.
CallOnTask(op, t) ==
  /\ t \in alloc \ {Idle}
  /\ TaskMayCall(op) \/ (op = "terminate" /\ MainMayCall(op))
  /\ op \in {"suspend", "resume"} => started
  /\ Enter([NoCall EXCEPT !.op = op, !.id = t])

\* Shorter times never reach the scheduler: sleep spins in user code.
CallSleep(d) ==
  /\ TaskMayCall("sleep") /\ d > Interval
  /\ Enter([NoCall EXCEPT !.op = "sleep", !.cond.interval = d])

\* A handle of a destroyed object trips an assert.
CallWait(c) ==
  /\ TaskMayCall("wait")
  /\ \A k \in DOMAIN c.objs : c.objs[k] \in Timers => timer[c.objs[k]].state # "Free"
  /\ Enter([NoCall EXCEPT !.op = "wait", !.cond = c])

CallCreateTimer ==
  /\ TaskMayCall("timerCreate") \/ MainMayCall("timerCreate")
  /\ Enter([NoCall EXCEPT !.op = "timerCreate"])

WaitedFor(x) == \E i \in Slot : \E k \in DOMAIN wait[i].cond.objs : wait[i].cond.objs[k] = x

\* Destroying an object that a task waits for is documented as undefined.
CallTimer(op, x) ==
  /\ TaskMayCall(op) \/ MainMayCall(op)
  /\ timer[x].state # "Free" /\ (op = "timerDestroy" => ~ WaitedFor(x))
  /\ Enter([NoCall EXCEPT !.op = op, !.obj = x])

\* The rest of waitForMultipleObjects once the task runs again.
CallResult ==
  /\ InUserCode /\ exec \in Task /\ pc[exec] = "waited"
  /\ Enter([NoCall EXCEPT !.op = "result"])

-----------------------------------------------------------------------------
(* The body of the call, with the lock held. *)

Body(op) == call.op = op /\ svc = "none" /\ scan = Thread

\* A mutant: both the guard object and the call leave.
LeaveTwice == lock' = lock - 2 /\ call' = NoCall /\ UNCHANGED svc

Leave == lock' = lock - 1 /\ call' = NoCall /\ UNCHANGED svc
Syscall(id) == svc' = id /\ UNCHANGED <<lock, call>>

StartBody ==
  /\ Body("start")
  /\ started' = TRUE
  /\ Syscall("LoadNextTask")
  /\ UNCHANGED <<exec, pc, scan, timeVars, schedVars, taskVars, objVars>>

CreateRefused ==
  /\ Body("create") /\ alloc = Task
  /\ Leave
  /\ UNCHANGED <<cpuVars, timeVars, schedVars, taskVars, objVars>>

\* A mutant: the comparison of two priorities is turned round.
PreemptsLower(p) == p > prio[current]

\* A smaller number is a higher priority.
Preempts(p) == p < prio[current]

\* A task is added at the end of its list; a higher priority than the
\* caller's switches at once.  When the list refuses it, it is destroyed.
CreateBody ==
  /\ Body("create") /\ alloc # Task
  /\ LET t == Least(Task \ alloc)
         p == call.prio
         added == call.susp \/ t \notin Elems(ready[p])
     IN  /\ alloc' = IF added THEN alloc \cup {t} ELSE alloc
         /\ prio' = [prio EXCEPT ![t] = p]
         /\ state' = [state EXCEPT ![t] = IF call.susp THEN "Suspended" ELSE "Ready"]
         /\ pc' = [pc EXCEPT ![t] = "user"]
         /\ ready' = IF call.susp THEN ready ELSE [ready EXCEPT ![p] = AddTask(@, t)]
         /\ IF added /\ started /\ Preempts(p) /\ ~ call.susp
              THEN Syscall("ExecuteContextSwitch") ELSE Leave
  /\ UNCHANGED <<started, exec, scan, timeVars, current, wait, result, signal, objVars>>

Unready(t) == [ready EXCEPT ![prio[t]] = RemoveTask(@, t)]

\* A mutant: the wait slot of a removed task is left behind.
UnwaitNothing(t) == wait

\* A mutant: the slot after it is freed.
UnwaitNext(t) ==
  LET held == {i \in Slot : wait[i].task = t}
  IN  IF held = {} THEN wait ELSE [wait EXCEPT ![(Least(held) + 1) % MaxTasks] = FreeSlot]

\* wait_list::removeTask frees the first slot that holds t.
Unwait(t) ==
  LET held == {i \in Slot : wait[i].task = t}
  IN  IF held = {} THEN wait ELSE [wait EXCEPT ![Least(held)] = FreeSlot]

TerminateBody ==
  /\ Body("terminate")
  /\ ready' = Unready(call.id)
  /\ wait' = Unwait(call.id)
  /\ alloc' = alloc \ {call.id}
  /\ IF current = call.id /\ started THEN Syscall("LoadNextTask") ELSE Leave
  /\ UNCHANGED <<cpuVars, timeVars, current, prio, state, result, signal, objVars>>

SuspendBody ==
  /\ Body("suspend")
  /\ state' = [state EXCEPT ![call.id] = "Suspended"]
  /\ ready' = Unready(call.id)
  /\ wait' = Unwait(call.id)
  /\ IF current = call.id THEN Syscall("ExecuteContextSwitch") ELSE Leave
  /\ UNCHANGED <<cpuVars, timeVars, current, alloc, prio, result, signal, objVars>>

ResumeRefused ==
  /\ Body("resume")
  /\ \/ call.id = current
     \/ state[call.id] # "Suspended"
     \/ call.id \in Elems(ready[prio[call.id]])
  /\ Leave
  /\ UNCHANGED <<cpuVars, timeVars, schedVars, taskVars, objVars>>

\* resumeSuspendedTask sets the state of m_current, not of the resumed task.
ResumeBody ==
  /\ Body("resume")
  /\ call.id # current /\ state[call.id] = "Suspended"
  /\ LET p == prio[call.id]
     IN  /\ call.id \notin Elems(ready[p])
         /\ ready' = [ready EXCEPT ![p] = AddTask(@, call.id)]
         /\ state' = [state EXCEPT ![current] = "Ready"]
         /\ IF Preempts(p) THEN Syscall("ExecuteContextSwitch") ELSE Leave
  /\ UNCHANGED <<cpuVars, timeVars, current, wait, alloc, prio, result, signal, objVars>>

\* setTaskToSleep and setTaskToWaitForObj: with a free wait slot the caller
\* leaves its ready list for it.
Block(kind) ==
  IF FreeSlots = {} THEN UNCHANGED <<wait, ready, state>>
  ELSE /\ wait' = [wait EXCEPT ![Least(FreeSlots)] =
            [task |-> current, kind |-> kind, cond |-> call.cond, start |-> now]]
       /\ ready' = Unready(current)
       /\ state' = [state EXCEPT ![current] = "Waiting"]

\* sleep ignores a failure to block and only yields.
SleepBody ==
  /\ Body("sleep")
  /\ Block("Sleep")
  /\ Syscall("ExecuteContextSwitch")
  /\ UNCHANGED <<cpuVars, timeVars, current, alloc, prio, result, signal, objVars>>

\* waitForMultipleObjects returns WaitFailed when it cannot block.
WaitBody ==
  /\ Body("wait")
  /\ Block("WaitForObj")
  /\ IF FreeSlots = {} THEN Leave /\ UNCHANGED pc
     ELSE Syscall("ExecuteContextSwitch") /\ pc' = [pc EXCEPT ![current] = "waited"]
  /\ UNCHANGED <<started, exec, scan, timeVars, current, alloc, prio, result, signal, objVars>>

\* The caller gets result and signal of m_current.
ResultBody ==
  /\ Body("result")
  /\ pc' = [pc EXCEPT ![current] = "user"]
  /\ Leave
  /\ UNCHANGED <<started, exec, scan, timeVars, schedVars, taskVars, objVars>>

CreateTimerRefused ==
  /\ Body("timerCreate") /\ \A x \in Timers : timer[x].state # "Free"
  /\ Leave
  /\ UNCHANGED <<cpuVars, timeVars, schedVars, taskVars, objVars>>

\* Which of the free timers does not matter.
CreateTimerBody ==
  /\ Body("timerCreate")
  /\ \E x \in Timers :
       /\ timer[x].state = "Free"
       /\ timer' = [timer EXCEPT ![x] = [state |-> "Stopped", start |-> now, seen |-> now]]
  /\ Leave
  /\ UNCHANGED <<cpuVars, timeVars, schedVars, taskVars, event, queue>>

\* timer::start keeps m_start; restart measures from the last tick seen.
TimerAfter(op, x) ==
  CASE op = "timerStart"   -> [timer[x] EXCEPT !.state = "Started"]
    [] op = "timerRestart" -> [timer[x] EXCEPT !.state = "Started", !.start = timer[x].seen]
    [] op = "timerStop"    -> [timer[x] EXCEPT !.state = "Stopped"]
    [] op = "timerDestroy" -> FreeTimer

TimerBody(op) ==
  /\ Body(op)
  /\ timer' = [timer EXCEPT ![call.obj] = TimerAfter(op, call.obj)]
  /\ Leave
  /\ UNCHANGED <<cpuVars, timeVars, schedVars, taskVars, event, queue>>

-----------------------------------------------------------------------------
(* The SVC handler. *)

SomeReady(r) == \E p \in Priority : r[p].list # <<>>

\* The highest priority group that has a ready task.
Top(r) ==
  CHOOSE p \in Priority :
    r[p].list # <<>> /\ \A q \in Priority : q < p => r[q].list = <<>>

\* switchContext and loadNextTask: getCurrentTask does not move any cursor.
HandleSvc ==
  /\ svc # "none" /\ scan = Thread
  /\ SomeReady(ready)
  /\ current' = ready[Top(ready)].cur
  /\ state' = [state EXCEPT ![current'] = "Running"]
  /\ exec' = current'
  /\ lock' = lock - 1 /\ svc' = "none" /\ call' = NoCall
  /\ UNCHANGED <<started, pc, scan, timeVars, ready, wait, alloc, prio, result, signal,
                 objVars>>

-----------------------------------------------------------------------------
(* The SysTick handler. *)

\* Boot: main has started the kernel before its first BootTicks + 1 ticks.
BootBound == started \/ now < BootTicks

\* The lock is held: only the time advances.
TickLocked ==
  /\ scan = Thread /\ lock # 0 /\ lockedTicks < MaxLockedTicks /\ BootBound
  /\ now' = (now + 1) % TimeMod
  /\ lockedTicks' = lockedTicks + 1
  /\ UNCHANGED <<callVars, cpuVars, old, schedVars, taskVars, objVars>>

\* timer::tick on one timer.
TimerTick(x) ==
  IF timer[x].state = "Free" THEN timer[x]
  ELSE [timer[x] EXCEPT
         !.seen = now,
         !.state = IF @ = "Started" /\ Before(now, timer[x].start) > TimerInterval[x]
                     THEN "Finished" ELSE @]

\* timer::tick, then the scan of the wait list begins.
TickBegin ==
  /\ scan = Thread /\ lock = 0 /\ BootBound
  /\ lockedTicks' = 0
  /\ timer' = [x \in Timers |-> TimerTick(x)]
  /\ scan' = 0
  /\ UNCHANGED <<callVars, started, exec, pc, now, old, schedVars, taskVars, event, queue>>

Elapsed(item) == Before(now, item.start) > item.cond.interval

\* A mutant: a wait for ever times out as well.
ExpiredForever(item) == Elapsed(item)

Expired(item) == (item.kind = "Sleep" \/ ~ item.cond.forever) /\ Elapsed(item)

Signaled(h) ==
  \/ h \in Events /\ event[h]
  \/ h \in Queues /\ queue[h] > 0
  \/ h \in Timers /\ timer[h].state = "Finished"

\* testWaitSignals: waiting for any one returns after the first handle.
SignalsSet(c) ==
  IF c.all THEN \A i \in DOMAIN c.objs : Signaled(c.objs[i])
  ELSE Signaled(c.objs[1])

Fulfilled(item) == item.kind = "WaitForObj" /\ ~ Expired(item) /\ SignalsSet(item.cond)

\* Expired or fulfilled: the item's task is due.
Due(item) == item.task # NoTask /\ (Expired(item) \/ Fulfilled(item))

\* checkWaitConditions on a fulfilled slot; a slot whose task the ready
\* list refuses is kept.
Wake(i, res) ==
  LET t == wait[i].task
      added == t \notin Elems(ready[prio[t]])
  IN  /\ ready' = [ready EXCEPT ![prio[t]] = AddTask(@, t)]
      /\ state' = IF added THEN [state EXCEPT ![t] = "Ready"] ELSE state
      /\ result' = IF added THEN [result EXCEPT ![t] = res] ELSE result
      /\ signal' = IF added THEN [signal EXCEPT ![t] = 0] ELSE signal
      /\ wait' = IF added THEN [wait EXCEPT ![i] = FreeSlot] ELSE wait

\* A mutant: the slot after one that was freed is skipped.
NextSlotSkips ==
  scan' = IF wait' # wait /\ scan + 1 < MaxTasks THEN scan + 2 ELSE scan + 1

NextSlot == scan' = scan + 1

SlotPasses ==
  /\ scan \in Slot /\ ~ Due(wait[scan])
  /\ UNCHANGED <<callVars, started, exec, pc, timeVars, schedVars, taskVars, objVars>>
  /\ NextSlot

SlotExpires ==
  /\ scan \in Slot /\ wait[scan].task # NoTask /\ Expired(wait[scan])
  /\ Wake(scan, IF wait[scan].kind = "Sleep" THEN "ObjectSet" ELSE "TimeoutOccurred")
  /\ NextSlot
  /\ UNCHANGED <<callVars, started, exec, pc, timeVars, current, alloc, prio, objVars>>

\* A mutant: only the first handle is reset.
ConsumedFirst(c) == {c.objs[1]}

\* The handles whose state a fulfilled wait resets.
Consumed(c) == {c.objs[i] : i \in IF c.all THEN DOMAIN c.objs ELSE {1}}

\* resetState: auto-reset events are reset, timers stopped, queues left alone.
SlotSignaled ==
  /\ scan \in Slot /\ wait[scan].task # NoTask /\ Fulfilled(wait[scan])
  /\ LET consumed == Consumed(wait[scan].cond)
     IN  /\ event' = [e \in Events |-> event[e] /\ ~ (e \in consumed /\ e \notin Manual)]
         /\ timer' = [x \in Timers |->
              IF x \in consumed THEN [timer[x] EXCEPT !.state = "Stopped"] ELSE timer[x]]
  /\ Wake(scan, "ObjectSet")
  /\ NextSlot
  /\ UNCHANGED <<callVars, started, exec, pc, timeVars, current, alloc, prio, queue>>

\* isIntervalElapsed.
SliceOver == Before(now, old) > Interval /\ old' = now

TickEndsSlice ==
  /\ scan = MaxTasks /\ SliceOver
  /\ LET p == Top(ready)
         next == Advance(ready[p])
     IN  IF SomeReady(ready)
           THEN /\ ready' = [ready EXCEPT ![p] = next]
                /\ state' = [[state EXCEPT ![current] = "Ready"] EXCEPT ![next.cur] = "Running"]
                /\ current' = next.cur
                /\ exec' = IF next.cur # current THEN next.cur ELSE exec
           ELSE UNCHANGED <<ready, state, current, exec>>
  /\ now' = (now + 1) % TimeMod
  /\ scan' = Thread
  /\ UNCHANGED <<callVars, started, pc, lockedTicks, wait, alloc, prio, result, signal,
                 objVars>>

TickEnds ==
  /\ scan = MaxTasks /\ Before(now, old) <= Interval
  /\ now' = (now + 1) % TimeMod
  /\ scan' = Thread
  /\ UNCHANGED <<callVars, started, exec, pc, old, lockedTicks, schedVars, taskVars, objVars>>

-----------------------------------------------------------------------------
(* Events and queues, called by interrupt handlers or by tasks outside the *)
(* kernel lock.  BASEPRI makes each of them atomic and keeps SysTick out.  *)

SetEvent(e) ==
  /\ "set" \in Ops /\ scan = Thread
  /\ event' = [event EXCEPT ![e] = TRUE]
  /\ UNCHANGED <<callVars, cpuVars, timeVars, schedVars, taskVars, queue, timer>>

ResetEvent(e) ==
  /\ "reset" \in Ops /\ scan = Thread
  /\ event' = [event EXCEPT ![e] = FALSE]
  /\ UNCHANGED <<callVars, cpuVars, timeVars, schedVars, taskVars, queue, timer>>

SendQueue(q) ==
  /\ "send" \in Ops /\ scan = Thread /\ queue[q] < QueueMax
  /\ queue' = [queue EXCEPT ![q] = @ + 1]
  /\ UNCHANGED <<callVars, cpuVars, timeVars, schedVars, taskVars, event, timer>>

ReceiveQueue(q) ==
  /\ "receive" \in Ops /\ scan = Thread /\ queue[q] > 0
  /\ queue' = [queue EXCEPT ![q] = @ - 1]
  /\ UNCHANGED <<callVars, cpuVars, timeVars, schedVars, taskVars, event, timer>>

-----------------------------------------------------------------------------
TimerOps == {"timerStart", "timerRestart", "timerStop", "timerDestroy"}

\* The calls that critical_section adds (module CriticalSection).
SectionOps == {"sectionInit", "sectionDeinit", "sectionTest", "sectionLeave"}

Calls ==
  \/ CallStart
  \/ \E p \in Priorities, s \in BOOLEAN : CallCreate(p, s)
  \/ \E op \in {"terminate", "suspend", "resume"}, t \in Task : CallOnTask(op, t)
  \/ \E d \in SleepTimes : CallSleep(d)
  \/ \E c \in Conditions : CallWait(c)
  \/ CallCreateTimer
  \/ \E op \in TimerOps, x \in Timers : CallTimer(op, x)
  \/ CallResult

TimerBodies ==
  \/ CreateTimerRefused \/ CreateTimerBody
  \/ \E op \in TimerOps : TimerBody(op)

Bodies ==
  \/ StartBody \/ CreateRefused \/ CreateBody \/ TerminateBody \/ SuspendBody
  \/ ResumeRefused \/ ResumeBody \/ SleepBody \/ WaitBody \/ ResultBody
  \/ TimerBodies

Ticks == TickLocked \/ TickBegin
TickSteps == SlotPasses \/ SlotExpires \/ SlotSignaled \/ TickEndsSlice \/ TickEnds

Signals ==
  \/ \E e \in Events : SetEvent(e) \/ ResetEvent(e)
  \/ \E q \in Queues : SendQueue(q) \/ ReceiveQueue(q)

Next == Calls \/ Bodies \/ HandleSvc \/ Ticks \/ TickSteps \/ Signals

Spec == Init /\ [][Next]_vars

\* A call that holds the lock and a handler that has begun run to their end;
\* SysTick keeps coming and infinitely often finds the lock free if it is
\* infinitely often free.
FairSpec ==
  /\ Spec
  /\ WF_vars(Bodies) /\ WF_vars(HandleSvc) /\ WF_vars(TickSteps)
  /\ SF_vars(TickBegin)

-----------------------------------------------------------------------------
(* Properties. *)

\* Every variable has its type.
TypeOK ==
  /\ lock \in Nat
  /\ call \in [op : {"none", "start", "create", "terminate", "suspend", "resume", "sleep",
                      "wait", "result", "timerCreate"} \cup TimerOps \cup SectionOps,
               id : Task, prio : Priority, susp : BOOLEAN,
               cond : Condition, obj : Timers \cup {NoHandle}]
  /\ svc \in {"none", "LoadNextTask", "ExecuteContextSwitch"}
  /\ started \in BOOLEAN
  /\ exec \in Task \cup {Main}
  /\ pc \in [Task -> {"user", "waited"}]
  /\ scan \in {Thread} \cup 0 .. MaxTasks
  /\ now \in Time /\ old \in Time /\ lockedTicks \in Nat
  /\ current \in Task
  /\ ready \in [Priority -> [list : Seq(Task), cur : Task \cup {NoTask}]]
  /\ wait \in [Slot -> [task : Task \cup {NoTask}, kind : {"free", "Sleep", "WaitForObj"},
                        cond : Condition, start : Time]]
  /\ alloc \subseteq Task
  /\ prio \in [Task -> Priority]
  /\ state \in [Task -> {"Suspended", "Waiting", "Ready", "Running"}]
  /\ result \in [Task -> {"ObjectSet", "TimeoutOccurred", "WaitFailed"}]
  /\ signal \in [Task -> Nat]
  /\ event \in [Events -> BOOLEAN]
  /\ queue \in [Queues -> 0 .. QueueMax]
  /\ timer \in [Timers -> [state : {"Free", "Stopped", "Started", "Finished"},
                           start : Time, seen : Time]]

\* The kernel lock is held exactly while an API call is under way, never
\* twice, and the tick handler works on the lists only when nobody holds it.
LockDiscipline ==
  /\ lock = IF call = NoCall THEN 0 ELSE 1
  /\ svc # "none" => call # NoCall
  /\ scan # Thread => call = NoCall

\* Every ready list holds distinct live tasks of its priority, its cursor is
\* one of them, and the idle task is always in the list of its priority.
ReadyListsSound ==
  /\ \A p \in Priority :
       /\ \A i, j \in DOMAIN ready[p].list : ready[p].list[i] = ready[p].list[j] => i = j
       /\ \A t \in Elems(ready[p]) : t \in alloc /\ prio[t] = p
       /\ IF ready[p].list = <<>> THEN ready[p] = EmptyList
          ELSE ready[p].cur \in Elems(ready[p])
  /\ Idle \in Elems(ready[IdlePriority])

\* A wait slot holds a live task other than idle that is on no ready list
\* and in no other slot: a wake-up never finds its task already listed.
WaitListSound ==
  \A i \in Slot : wait[i].task # NoTask =>
    /\ wait[i].task \in alloc \ {Idle}
    /\ wait[i].task \notin Elems(ready[prio[wait[i].task]])
    /\ \A j \in Slot : wait[j].task = wait[i].task => i = j

\* No task is lost: a task on no list is marked Suspended, the one state
\* that resume accepts.
NoLostTask ==
  \A t \in alloc :
    \/ t \in Elems(ready[prio[t]])
    \/ \E i \in Slot : wait[i].task = t
    \/ state[t] = "Suspended"

\* Outside of a pending SVC, the processor runs the task the scheduler
\* believes to be current, and that task is the cursor of its ready list;
\* before kernel::start it runs main.
RunningIsReady ==
  svc = "none" =>
    /\ current \in alloc /\ ready[prio[current]].cur = current
    /\ exec = IF started THEN current ELSE Main

\* When the tick handler has gone through all slots, no waiting task is left
\* whose wait has expired or whose objects are signaled.
NoMissedWake == scan = MaxTasks => \A i \in Slot : ~ Due(wait[i])

\* A task that goes to sleep or waits always finds a wait slot.
SlotsSuffice == call.op \in {"sleep", "wait"} /\ svc = "none" => FreeSlots # {}

\* After kernel::start, a ready task of a higher priority than the current one.
Inverted == started /\ SomeReady(ready) /\ Top(ready) < prio[current]

\* An API call that returns does not begin an inversion: create and resume
\* switch to what they make ready.  Of a call made while one lasts this says
\* nothing; that it ends is InversionEnds.
CallsDoNotInvert ==
  [][call # NoCall /\ svc' = "none" /\ Inverted' => Inverted]_vars

\* Signals are consumed by wake-ups only, and completely: when the tick
\* handler resets an event or stops a timer, the wait of the slot it looks at
\* ends as ObjectSet, and a wait that ends so leaves no auto-reset event set
\* and no timer finished among all the objects, or the one, that ended it.
Consumes(c) ==
  \A h \in {c.objs[i] : i \in IF c.all THEN DOMAIN c.objs ELSE {1}} :
    Signaled(h)' => h \in Manual \cup Queues
WakesConsume ==
  [][(scan \in Slot) =>
       LET t == wait[scan].task
           woken == t # NoTask /\ wait'[scan] = FreeSlot /\ t \in Elems(ready'[prio[t]])
       IN  /\ event' # event \/ timer' # timer => woken /\ result'[t] = "ObjectSet"
           /\ woken /\ Fulfilled(wait[scan]) => Consumes(wait[scan].cond)]_vars

\* Where the lists say a task is.
Place ==
  [t \in Task |->
     IF t \notin alloc THEN "dead"
     ELSE IF \E i \in Slot : wait[i].task = t THEN "waiting"
     ELSE IF t \in Elems(ready[prio[t]]) THEN "ready" ELSE "suspended"]

Life == INSTANCE TaskLife WITH place <- Place, running <- current

\* The calls and handlers move tasks as TaskLife says: one at a time, never
\* from one list into another that refuses it, and the processor goes to a
\* ready task of the highest priority at once when its task leaves the lists.
ImplementsTaskLife == Life!Spec

\* Sleeps and waits with a timeout end.
Timed(t) == \E i \in Slot : /\ wait[i].task = t
                            /\ wait[i].kind = "Sleep" \/ ~ wait[i].cond.forever
SleepersWake == \A t \in Task : Timed(t) ~> ~ Timed(t)

\* After kernel::start, a task that stays ready in the highest non-empty group is served again
\* and again (README: tasks of the same priority run round robin).
RoundRobin ==
  \A t \in Task :
    <>[](started /\ t \in Elems(ready[Top(ready)])) => []<>(exec = t)

\* A tick that wakes a higher-priority task does not switch to it at once,
\* but the inversion does not last.
InversionEnds == Inverted ~> ~ Inverted

-----------------------------------------------------------------------------
(* What the documentation says and the code does not do. *)

\* kernel.hpp: a wait for any one object ends when one is signaled.  After
\* a scan, no waiting task is left that waits for any of several objects of
\* which one is signaled.
AnySignalEndsWait ==
  scan = MaxTasks => \A i \in Slot :
    wait[i].kind = "WaitForObj" /\ ~ wait[i].cond.all =>
      \A k \in DOMAIN wait[i].cond.objs : ~ Signaled(wait[i].cond.objs[k])

\* kernel.hpp: the task waits until the objects are signaled, and resume has
\* no effect on waiting tasks.  A task inside a wait becomes ready only by a
\* tick that found its condition fulfilled.
WaitEndsByTick ==
  [][\A t \in Task :
       /\ pc[t] = "waited" /\ pc'[t] = "waited"
       /\ t \notin Elems(ready[prio[t]]) /\ t \in Elems(ready'[prio'[t]])
       => scan # Thread]_vars

\* kernel.hpp: the kernel is started by kernel::start.  No task runs before.
NoTaskBeforeStart == exec \in Task => started

\* README: tasks of the same priority run round robin.  If two tasks of one
\* priority stay ready and one of them runs again and again, so does the other.
FairShare ==
  \A t, u \in Task :
    (<>[](/\ t \in Elems(ready[prio[t]]) /\ u \in Elems(ready[prio[u]])
          /\ prio[t] = prio[u])
     /\ []<>(exec = u))
    => []<>(exec = t)
=============================================================================
