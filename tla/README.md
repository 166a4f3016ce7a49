# A TLA+ model of cortex-m3-rtos

The repository is a preemptive real-time kernel for ARM Cortex-M3 in C++17:
`source/kernel.cpp` is the hardware-independent part, `source/hardware/armv7m`
the hardware layer, and everything else a header per component. This directory
holds TLA+ modules of it, TLC runs on small instances, and TLAPS proofs for
every value of the constants. Paths below are relative to `src/source/` unless
they start with `src/`.

Run `tlc -config <X>.cfg <Module>` for a run of the table below and
`tlapm <Module>Proofs.tla` for the proofs.

## 1. Inventory

### Components, their state and operations

| Component | State | Operations | What makes it correct |
|---|---|---|---|
| Kernel API, `kernel.cpp` | `m_started` and the contexts below | init, start; task create, terminate, suspend, resume, sleep; waits; timers, events, queues, critical sections | a call runs under the kernel lock, does all of its work, and releases the lock exactly once, itself or through the SVC handler |
| Tick and SVC, `kernel.cpp` | none of its own | `tick`, `switchContext`, `loadNextTask` | no wake-up is missed; the processor runs the task the lists say; tasks of a priority take turns |
| Scheduler, `scheduler/scheduler.hpp` | `m_current`, `m_next`, ready and wait lists | add, suspend, resume, sleep, wait, remove, getNextTask, getCurrentTask, checkWaitConditions | every live task is in exactly one place: ready, waiting or suspended |
| Ready lists, `scheduler/ready_list.hpp` | per priority a circular list and a cursor | addTask, removeTask, findNextTask, findCurrentTask | distinct tasks, cursor on one of them, order of service kept by removals |
| Circular list, `common/circular_list.hpp`, `memory_buffer.hpp` | pool of nodes, first, last, count | add, remove, find, nextIndex; allocate, free | one ring in both directions over the allocated nodes |
| Wait list and conditions, `scheduler/wait_list.hpp`, `wait_conditions.hpp` | a slot per task: task, kind, handles, start, interval | addTaskSleep, addTaskWaitObj, removeTask, check | a slot per waiting task and never more; timeouts survive the wrap of the clock; signals are consumed once |
| Task pool, `task/task.hpp` | priority, state, wait result, stack, saved registers | create, destroy, accessors | ids are live while they are on a list |
| Kernel lock, `lock/lock.hpp` | `m_interlock` | enter, leave, isLocked (true when *unlocked*) | one holder, although `++` and `--` are not atomic with GCC |
| System timer, `system_timer/system_timer.hpp` | current and old time | get, increment, isIntervalElapsed | unsigned arithmetic across the wrap |
| Timers, `timer/timer.hpp` | a pool: state, start, current, interval | create, destroy, start, restart, stop, tick | finishes once, after its interval |
| Events, `event/event.hpp` | a pool: allocated ids, names, set or reset, manual reset | create, open, destroy, set, reset, manualReset | an auto-reset event ends one wait; an event has the name it was created with, or none |
| Static queues, `queue/queue.hpp` | ring buffer: size, head, tail | create, open, destroy, send, receive, isFull, isEmpty | first in, first out and bounded, used by tasks and interrupts at once |
| Handles, `handle/handle.hpp` | none | create, getId, testCondition, resetState | a handle names one live object |
| Software critical section, `kernel.cpp` | counter, event, owner (written, never read) | init, deinit, enter, leave | mutual exclusion, no lost wake-up |
| Hardware critical section, `hardware/armv7m` | saved BASEPRI | enter, leave | masks what shares the data, nests |
| Context switch, `hardware/armv7m` | current and next context pointers, PSP, pending bits, `m_sp` and `m_context` of each task | SVC, SysTick and PendSV handlers, LoadTask | registers, stack and mask go to the task they came from; handlers run to their end |
| Interrupt configuration, `hardware/armv7m` | NVIC priorities | priority::set, enable | kernel exceptions share a level; vendor handlers are as urgent or more |

### How they interact

* A task (or `main`, before `kernel::start`) calls the API. The call takes the
  **kernel lock**, changes the lists, and either releases the lock or executes an
  **SVC** instruction with the lock still held; the SVC handler picks the next
  task and then releases the lock.
* **SysTick** comes every millisecond. When it finds the lock held it only
  advances the time. Otherwise it ticks the software timers, goes through the wait list slot
  by slot, and at the end of a time slice pends **PendSV** to switch.
* A **switch** is done in two parts: SVC or SysTick moves the stack pointers and
  pends PendSV; PendSV moves r4 to r11. Vendor interrupts may come between.
* SVC, SysTick and PendSV have the same NVIC priority, so none interrupts
  another; of those pending, the lower number is served first.
* Events and queues are shared with interrupt handlers and do not use the kernel
  lock: each operation raises **BASEPRI** to the Kernel level, which keeps
  SysTick and those handlers out.
* A **software critical section** is a counter under the kernel lock and an event
  of the common pool; `enter` tests the counter, releases the lock, and only then
  waits for the event.
* Waiting is polling: a task in the wait list is only looked at by the tick.

### Hard behaviours

Preemption between any two steps of a call, including inside `++m_interlock`;
ticks lost to the lock; wake-ups that consume what other slots wait for; tasks
terminated or suspended while in some list; the wrap of the clock; a cursor on
a removed node; queue operations nested in each other; ticks that come before
`kernel::start`; fairness between tasks of a priority; interrupts that nest in
or tail-chain between the two parts of a switch; a task created on the stack of
one that has just gone; a section left between the test of `enter` and its wait,
so that its wake-up could be lost. `PROJECT.json` lists these hazards one by one
with their lines and the properties that watch them.

## 2. Modules

| Module | Models | Role |
|---|---|---|
| `ReadyList` | ready lists as values: a sequence with a cursor | operators of the kernel model |
| `TaskRing` | state machine over those operators | abstract specification of a ready list |
| `CircularList` | nodes, links and pool, with the ready-list operations on them | implements `TaskRing` |
| `TaskLife` | dead, suspended, ready, waiting, running | abstract specification of what the kernel does to tasks |
| `Kernel`, `MCKernel` | API, scheduler, tick, SVC, signalling | the core, implements `TaskLife`; the MC module holds constants |
| `KernelLock` | the lock as one atomic owner | abstract specification of the lock |
| `Interlock` | `++` and `--` torn into load and store, switches, ends and new tasks | implements `KernelLock` |
| `HardwareContext`, `MCHardware` | SVC, SysTick, PendSV, vendor interrupts, BASEPRI | composes with `Interlock`; implements `KernelLock` |
| `CriticalSection`, `MCCriticalSection` | software critical section and the event pool | composes with `Kernel` |
| `Fifo` | atomic bounded queue | abstract specification of a queue |
| `StaticQueue`, `MCStaticQueue` | send and receive step by step under BASEPRI | implements `Fifo` |
| `ReadyListProofs`, `CircularListProofs`, `KernelProofs`, `InterlockProofs`, `HardwareContextProofs`, `CriticalSectionProofs`, `SectionWakeupProofs`, `StaticQueueProofs` | | lemmas and theorems |

The modules compose in two ways. By extension: `CriticalSection` is `Kernel` with
more calls, whose every step is a step of `Kernel`, of the section or of the
event pool; `HardwareContext` is `Interlock` with the processor around it, whose
steps on the lock are those of `Interlock`. And by refinement. `Kernel` is written with three abstractions,
and each of them is justified by a more detailed module that is checked against
the same abstraction: ready lists are sequences (`CircularList` implements
`TaskRing`, which is built from the very operators `Kernel` uses), the lock is
taken and released in one step (`Interlock` implements `KernelLock`), and an
event or queue operation is one step (`StaticQueue` implements `Fifo`; an event
is a single guarded store). `KernelProofs` closes the circle: `Kernel` uses its
lock and its ready lists only as these abstractions allow. That a switch gives a task back its registers, stack
and mask, so that `Kernel` may keep of a task only its `pc`, is what
`HardwareContext` shows.

### Kernel: state and actions

| Variable | Code |
|---|---|
| `lock`, `call`, `svc` | `m_interlock`; the API call of the executing context; the SVC it requested |
| `started`, `exec`, `pc`, `scan` | `m_started`; whose code the processor runs; whether a task is inside a wait; the slot `checkWaitConditions` looks at |
| `now`, `old`, `lockedTicks` | `m_current_time`, `m_old_time`; a bound |
| `current`, `ready`, `wait` | `m_current`, `m_ready_list`, `m_wait_list` |
| `alloc`, `prio`, `state`, `result`, `signal` | the task pool, by id |
| `event`, `queue`, `timer` | the objects, by handle |

An API call is three steps because SysTick can come between them: a `Call...`
action checks what the code checks before the lock and takes it, a `...Body`
action does the work, and `Leave` inside the body or `HandleSvc` releases it.
Within a body the lock keeps the tick out of everything a body touches, so a
body is one step. The last part of `waitForMultipleObjects`, which reads the
result after the task has been woken, is a call of its own (`CallResult`,
`ResultBody`), because anything can happen between the two parts.

The tick is `TickLocked` when it finds the lock held, else `TickBegin` (software timers),
one step per wait slot (`SlotPasses`, `SlotExpires`, `SlotSignaled`) and
`TickEndsSlice` or `TickEnds`. Nothing interleaves with these steps; they are
separate because a slot sees what earlier ones consumed, and so that
`WakesConsume` can speak of one slot.

`TaskLife` is what all of this promises of the tasks: one of them moves at a
time, between the places `Place` reads off the pool and the lists, only the
running task makes itself wait, and the processor goes to a ready task of the
highest priority, before anything else when the running one has left the lists.
It leaves open what the code leaves open: that a more urgent task may be ready
while another runs (the tick that wakes it does not switch), and which of
several ready tasks of the highest priority is next.

Timers are created, destroyed, started, restarted and stopped under the kernel
lock. The interval of a timer is fixed by its handle, and which free timer a
`create` returns does not matter. Destroying a timer that a task waits for is
documented as undefined (`kernel.hpp:150`), and using a handle whose id is free trips
an assert of `MemoryBuffer::at`: neither is a call. Once the id is in use again, the
old handle equals the new one, here as in the code.

What is abstracted: `getCurrent` and the entry lock of `taskRoutine` read only;
refusals of a wrong handle type and handles of a task id that is free (an assert) are
not calls; the idle task calls nothing; terminating or suspending idle is documented
as undefined and left out; a sleep of at most one slice spins in user code and
is left out; a queue is its number of elements; queues are there from the start
and are never destroyed, and so are events outside of `CriticalSection`; the stack and
registers of a task are its `pc`. `main` may take at most `BootTicks` ticks to
reach `kernel::start`.

### CriticalSection: state and actions

| Variable | Code |
|---|---|
| `lockCount`, `sectionEvent` | `m_lockCount`, `m_event` of one section |
| `at`, `spins` | where each task is in `enter` and `leave`: before a test, done spinning (`spun`), in the wait, inside; `i` of `enter` |
| `evAlloc`, `evName` | the event pool: allocated ids, `m_name` |
| `held`, `stale` | the event handles that user code has from `create` and `open`; those it kept when their event was destroyed |
| `misused` | history: a stale handle has been used on the section's event |

`init`, `deinit`, the test in `enter` and `leave` are calls like those of
`Kernel`: an action that takes the lock and one that does the work and releases
it. Between `TestBody`, which finds the section taken and advances `i`, and the next
test or `CallWaitEvent` the task is in user code; the wait itself is the one of `Kernel`, and `Woken` follows
its `ResultBody` and goes back to the test, as the loop does. Events are
created at the least free id, opened by name and destroyed in one step each,
since BASEPRI protects them; handles are the numbers that `handle::create` makes.
User code waits for events it holds, and an event that a task waits for, or is
about to, is not destroyed (`Awaited`; `kernel.hpp:150` calls that undefined).

`event::destroy` frees the id and nothing else: whoever got a handle of the event
from `create` or `open` keeps it, and handles have no generation. So a handle of
a destroyed event stays usable (`stale`), and `UseStaleHandle` sets, resets or
destroys with it whatever has the id now. The assert of `MemoryBuffer::at` fires
only while the id is free, and not at all in a release build. When `init` takes the
id, such a handle is one of the section's event. Exclusion must hold all the
same, and does. The wake-up cannot: with the condition `~ misused` taken out of
`NoLostWakeup`, TLC finds a task that waits in `enter`, an owner that leaves and
sets the event, and user code that resets it through a handle of an event that had
the id before; the waiting task waits on while the section is free. `NoLostWakeup` and
`FreeSectionIsEntered` therefore hold until such a handle is used on the section's
event.

Left out, because the code or its documentation leaves it undefined:
entering before `init`, leaving without having entered, `deinit` while a task is in
`enter` or inside, destroying the event of a wait, terminating a task that
is inside or on its way in, and beginning a wait with a stale handle.
`WaitFails` and `Woken` keep the critical error of `enter` as a place, `"failed"`,
that `EnterNeverFails` shows unreachable.

### HardwareContext: state and actions

| Variable | Code |
|---|---|
| `lock`, `running`, `pc`, `reg` | of `Interlock`: the counter, `m_current`, the place of each task and its register in `++` and `--` |
| `live`, `sp`, `ctx` | the tasks that exist; `m_sp` and `m_context` |
| `psp`, `regs` | PSP and r4 to r11 |
| `store`, `load` | `current_task_context`, `next_task_context` |
| `svc` | the number of the SVC being served |
| `active`, `pending`, `pushed` | the stack of active exceptions, the pending bits, what vendor handlers have pushed |
| `basepri`, `section`, `mask` | BASEPRI; where each task is in a hardware section; `m_local_data` |

A value of a stack pointer or of the registers is the place of the task it belongs
to when it is saved: the task, its `pc` and its section. A value that is lost,
another task's, or older than the last instruction differs from `Place(t)`.
`Take` is the NVIC: the most urgent pending exception that nothing active and no
mask holds back, among equals the lower number. An exception that returns leaves
`pending` to decide what comes next, which covers tail-chaining. PendSV
and LoadTask return with `0xFFFFFFFD`, to thread mode whatever is active below:
with another exception active the processor faults, and `Fault` stays on the stack.
The kernel's handlers are one step each, since what nests in them shares nothing
with them. Main, the MSP and the load of the first task are left out: the model
starts when that task runs.

## 3. Runs

| Run | Instance | Shows |
|---|---|---|
| `circular_list` | 4 ids, 3 nodes; 8,784 states | `OneRing`, `ImplementsTaskRing` |
| `interlock` | `MCHardware`: 3 tasks, interrupts at the Critical and the Kernel level, sections at the Kernel level; 3.05 million | `RunsWhole`, `SavedWhole`, `MaskFollowsTask`, `HandlersFinish`, and of the lock `LockCountsHolder`, `RegistersFresh`, `ImplementsKernelLock` |
| `static_queue` | 2 tasks, 1 interrupt, 2 values, capacity 3; 818,816 | `OneInside`, `IndicesAgree`, `ReceivesOldest`, `RefusalsJust`, `ImplementsFifo` |
| `kernel_safety` | idle and 2 tasks, priorities High and Low, waits for an event with and without a timeout, clock modulo 4; 1.74 million | the safety invariants, `CallsDoNotInvert`, `ImplementsTaskLife` |
| `kernel_objects` | idle and 2 tasks, a queue, an auto-reset and a manual event, a timer that comes and goes; 880,572 | `NoMissedWake`, `WakesConsume` |
| `kernel_liveness` | idle and 2 tasks, priorities High and Idle, clock modulo 6 | `SleepersWake`, `RoundRobin`, `InversionEnds` |
| `critical_section` | idle and 3 tasks, one section, a pool of one event, stale handles; 785,176 | `MutualExclusion`, `NoLostWakeup`, `EnterNeverFails`, `FreeSectionIsEntered` |
| `kernel_any_signal` | violation | a wait for any object looks at the first handle only |
| `kernel_boot` | violation | a tick runs a task before `kernel::start` |
| `kernel_suspended_wait` | violation | suspend and resume end a wait that nothing signaled |
| `kernel_fair_share` | violation | one of two equal tasks starves |
| `hardware_user_isr` | violation | a switch ends a User-level interrupt handler half-way |

**Bounds.** Two tasks beside idle are enough for one task to act on another
while it is ready, waiting, suspended, current or not, and for the slots and the
lists to hold two entries; creation and termination recycle ids and slots for
ever. Lists of three nodes with four ids reach each case of add (empty, one,
more), each case of remove (first, last, middle, only) and the full pool. Queues
of three elements let head and tail wrap and be neither equal nor adjacent.
`Interval` is 1, so that a slice ends every second tick, and `TimeMod` 4 or 6
makes the clock wrap every few ticks: all intervals remain far enough below it
for unsigned differences to tell them apart, as in the code, where they must be
below 2^32. `MaxLockedTicks` bounds how many ticks in a row find the lock held
(at most one in these runs), and `BootTicks` how many ticks come before the
start. The constants of every run are in its `.cfg` and its MC module; the
program is free in all runs, within the operations of `Ops`.

In `critical_section` three tasks give an owner, one that waits and one that
comes in between, which is what a lost wake-up takes; two failed tests
(`SpinLock` 1) reach the spin and the wait; user code and the section compete
for a pool of one event, so that `init` is refused, ids are used
again, and every handle that outlives its event becomes one of the section's.
`MaxLockedTicks` is 0: ticks fall between any two steps of user code, `enter` included,
but none inside a call. A tick that finds the lock held only advances the
clock, which in this run nothing but the slice test reads; `kernel_safety` and `kernel_liveness`
have such ticks. The slice is one tick (`Interval` 0) and `TimeMod` 2 enough, because
the tasks of this run wait without timeouts. In `interlock` three tasks let one
be switched out, one in and one be created in the meantime; of the two vendor
interrupts one nests in the kernel's handlers and the other, at their level with
a smaller sub-priority, comes before PendSV when both are pending.

**Fairness.** `FairSpec` asks for: weak fairness of `Bodies` and `HandleSvc`
(the processor executes instructions, and a call that holds the lock is never
switched out), weak fairness of `TickSteps` (a handler runs to its end), and
strong fairness of `TickBegin`: SysTick is periodic and asynchronous to the
program, so if the lock is free again and again, a tick finds it free again and
again. A program that took the lock in step with every tick for ever would break
this assumption; that is the meaning of `MaxLockedTicks` too. Nothing is assumed
of tasks: a task may compute for ever, and no signal has to come.

`CsFairSpec` asks for the same of `CriticalSection`: one weak fairness condition
`Continues` for bodies and handlers (only one of them is enabled at a time, and
none is disabled by another), strong fairness of `TickBegin`, and strong fairness
of `Proceeds` over the tasks together: if tasks in `enter`, or back from a wait, are
on the processor again and again, one or the other of them executes its next instruction.
That is less than fairness of each task, and enough. A task inside need never leave, and
`FreeSectionIsEntered` says nothing of one that does not; nor that a given task
gets in, since the loop of `enter` promises no order. No task of that run is
suspended: a suspended task that consumed the event may keep the others waiting,
which the kernel cannot help. Nor could `EnterNeverFails` be stated then without
a condition on timeouts (`NoStaleResult` below): a task that is suspended in the
wait of `enter` and resumed finds the result of an earlier wait.

**What the violations say.** Each is a disagreement between the code and its
documentation, quoted in `PROJECT.json` under `findings`. They are also why some
properties are stated as they are: `RunningIsReady` needs a start in time (below);
`RoundRobin` is about the highest non-empty group only, since `FairShare` fails
below it; `WakesConsume` and `NoMissedWake` use the condition as the code
tests it, with the first handle standing for any; and `interlock` has no
User-level interrupt, since `HandlersFinish` fails with one.

## 4. Proofs

All theorems hold for any number of tasks, objects, contexts, priorities and
conditions, under the named assumptions of the modules (`KernelAssumption`,
`SectionAssumption`, `InterlockAssumption`, `HardwareAssumption`,
`StaticQueueAssumption`). `PROJECT.json` lists them.

**Kernel.** The theorems assume `StartsInTime`: `BootTicks <= Interval + 1`,
that is, main reaches `kernel::start` before the first slice ends. Without it
`RunningIsReady` is false, as `kernel_boot` shows. The inductive invariant is

    IInv == TypeOK /\ Control /\ Lists /\ ScanSound

* `Control`: `LockDiscipline`; `CallSound`, what a call under way checked when it
  took the lock and what nobody could change since; `BootSound`, that before the
  start main runs and the slice is not over.
* `Lists`: `ReadyListsSound`, `WaitListSound`, `NoLostTask`, `RunningIsReady`, and
  `WaitersMarked`: the task of a wait slot is marked Waiting. The last is the
  link: `resume` tests only the state of a task, and without `WaitersMarked` it
  could make a waiting task ready and leave its slot behind.
* `ScanSound`: the slots the tick has passed hold no wait that is due. It is what
  makes `NoMissedWake` inductive: a later slot only consumes signals, so it
  never makes an earlier one due.

Each conjunct is preserved by one lemma with a step per group of actions. `SlotsSuffice` then follows by
counting: the wait list maps its used slots one to one to live tasks that are
not running, and there are as many slots as tasks. `CallsDoNotInvert` (a call
that returns does not begin an inversion) and `WakesConsume` are action properties
proved from `IInv`.

Three theorems relate `Kernel` to the abstractions around it. `Kernel` implements
`TaskLife`: at the steps of a call or a tick the running task is ready, since
`RunningIsReady` is only suspended while an SVC is pending, and then the lock
keeps everything but `HandleSvc` out; each list operation moves one task, because
`ReadyListsSound` and `WaitListSound` put it in one list only. `KernelUsesLock`
maps the steps to those of `KernelLock`, and `KernelUsesRings` those on a ready
list to the operations of `TaskRing`, with a pigeonhole argument that the node pool
is never full when a task is added.

**Circular list.** The ring is not found by following links any number of times,
which would need an induction over data, but given: the invariant `LInv` says that
there is a sequence without repetitions of exactly the allocated nodes, from
`first` to `last`, along which the links lead from each to the next and back. An
addition or a removal is shown to give a new such sequence, the old one with a node
appended or taken out, and freed nodes may hold anything. That `Walk`, which does
follow the links, is this sequence is shown by looking at the first place where the
two differ, which the well-foundedness of the naturals provides. `OneRing` and the
refinement to `TaskRing` follow.

**Lock.** `LockCountsHolder` and `RegistersFresh` are inductive together: a tick
switches only when the counter is zero, then nobody is past a store of enter,
and whoever runs in between brings the counter back to zero before it can be
switched out. The refinement to `KernelLock` maps each step to Acquire, Release,
Switch or a stutter.

**Hardware.** `HardwareKeepsLock` shows that every step of `HardwareContext` is a
step of `Interlock` or leaves its variables alone, at any level of
interrupts and sections; the properties and the refinement of the lock
carry over. The other theorems assume `UrgentOnly`: interrupts and sections
at the Kernel level or above, as `config.hpp` has them for events, timers and
queues. Without
it `HandlersFinish` is false (`hardware_user_isr`), and SysTick could switch a
task out in the middle of a section. The invariant `HwInv` adds to the types:
`Nested`, the active exceptions are in order of urgency, so at most one
kernel handler is active and only vendor handlers interrupt it; `MaskSound`, a raised BASEPRI
belongs to the running task and no kernel exception is active meanwhile;
`CpuSound`, which of `psp`, `store` and `load` is right at each point of a switch;
`SavedWhole`; and `RegsKept`, that the registers of the thread are in the processor
or in what the first vendor handler to use them has pushed. PendSV can
be pending while vendor interrupts run, but never while a task does or the next
SVC or tick switches.

**Software section.** `SectionInv` joins exclusion with what each call of the
section found when it took the kernel lock; it needs `LockDiscipline`, which is
proved of all steps of `CriticalSection` anew, and nothing else of the kernel: the
theorem on exclusion does not assume `StartsInTime`, and holds of programs that
use stale handles. `PoolInv` says that the section's event is allocated, unnamed and
not among the handles of user code, or a stale handle has been used on it: until
then user code can neither open nor destroy it.

The wake-ups need more, and `SectionWakeupProofs` carries all of `IInv` over to the
steps of `CriticalSection` first (`KernelStaysSound`, and with it `TaskLife` and
`KernelLock`; these assume `StartsInTime`). `EnterSound` then relates the places of
`enter` to the lists: a task that waits in `enter` is on its way to a slot, in a
slot for the section's event, or has left it, and, unless `misused`, no other task
waits for that event.
`WakeupInv` is `NoLostWakeup` made inductive, again unless `misused`: when the section is free and some
task has failed its test since, the event is set or some task will test: it is
in the test of `enter`, or returns from its wait with `ObjectSet`. The tick is the
hard case: what consumes the event wakes a task that will test. For
`EnterNeverFails`, `ResultsInv` says what result a wait in `enter` leaves; it
assumes `NoStaleResult`: no task is suspended, or no wait of user code has a
timeout. Without it `EnterNeverFails` is false: `suspend` and `resume` in the wait
of `enter` let it read the `TimeoutOccurred` of an earlier wait, and the task ends in
the critical error of `kernel.cpp:619`.

**Queue.** The invariant of `StaticQueueProofs` says which contexts may be in
which place given BASEPRI and the levels of the active handlers; mutual exclusion follows, then the
arithmetic of the ring (`IndicesAgree`), then the refinement to `Fifo`, where
`Count` is Send, `MoveTail` is Receive and every other step stutters.

**Only model-checked.** Liveness (`SleepersWake`, `RoundRobin`, `InversionEnds`,
`FreeSectionIsEntered`) is out of the prover's reach. Every invariant, action
property and refinement that a passing run checks is also a theorem.

## 5. Not modelled, and the plan

The core came first: lists, kernel, lock and queue, the abstract specifications
they implement, and the invariants every other component relies on; then the
context switch with its interrupts, the software critical section, and the pools
of timers and events. What is left, in this order:

1. Creation, opening and destruction of static queues, whose `create` returns no
   handle (`kernel.cpp:808`).
2. Main on the MSP and the load of the first task; sections at the User level,
   across which SysTick may switch.

What the documentation leaves undefined stays out: destroying what a task waits
for, waiting for what has been destroyed, terminating a task inside a section, terminating or suspending idle,
leaving a section that was not entered. So do debug output and the
enabling of interrupts (they only write hardware registers), `memory::copy`,
vendored headers, build files, tests and examples.
