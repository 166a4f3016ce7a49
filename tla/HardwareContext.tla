--------------------------- MODULE HardwareContext ----------------------------
(***************************************************************************)
(* hardware.cpp under kernel.cpp: how SVC, SysTick and PendSV move r4-r11  *)
(* and the process stack pointer between the processor and the tasks, with *)
(* vendor interrupts nesting and tail-chaining, and BASEPRI sections of    *)
(* user code.  The kernel lock is that of module Interlock, whose actions  *)
(* are the instructions of the tasks and the work of the handlers; running *)
(* is m_current, and the processor follows it when PendSV has run.         *)
(*                                                                         *)
(* An exception is its ARMv7-M number.  Levels are preemption priorities   *)
(* plus one: 1 Critical, 2 Kernel, 3 User; smaller is more urgent.  The    *)
(* values of stack pointers and registers are the place of the task they   *)
(* belong to, so that a lost, foreign or outdated one shows.  The handlers *)
(* of the kernel are one step each: they share nothing with those that may *)
(* nest in them.  Main and its stack, the MSP, are left out.               *)
(***************************************************************************)
EXTENDS Interlock, Sequences

CONSTANTS Isrs,         \* numbers of the vendor interrupts
          IsrLevel, Sub,\* priority::set: their preemption and sub-priority
          SectionLevel  \* the level user code raises BASEPRI to

Fault == 3
SVC == 11
PendSV == 14
SysTick == 15
Kernels == {SVC, PendSV, SysTick}
KernelLevel == 2
SubLow == 2

ASSUME HardwareAssumption ==
  /\ \A i \in Isrs : i \in Int /\ i >= 16 /\ i \notin Tasks /\ i # None
  /\ IsrLevel \in [Isrs -> 1 .. 3] /\ Sub \in [Isrs -> 0 .. SubLow]
  /\ SectionLevel \in 1 .. 3

VARIABLES
  live,                   \* the tasks that exist
  sp, ctx,                \* m_sp and m_context of each task
  psp, regs,              \* PSP and r4-r11 of the processor
  store, load,            \* current_task_context, next_task_context
  svc,                    \* the SVC instruction that SVC_Handler serves
  active,                 \* active exceptions, the innermost first
  pending,                \* pending bits
  pushed,                 \* the r4-r11 that each vendor handler has saved
  basepri, section, mask  \* BASEPRI; the hardware critical section of each
                          \* task and the m_local_data of its context

lockVars == <<lock, running, pc, reg>>
taskVars == <<live, sp, ctx>>
cpuVars  == <<psp, regs, store, load, svc>>
nvicVars == <<active, pending, pushed>>
maskVars == <<basepri, section, mask>>
hwVars   == <<lockVars, taskVars, cpuVars, nvicVars, maskVars>>

\* Where task t is: what its stack pointer and registers have to give back.
Place(t) == <<t, pc[t], section[t]>>
NoPlace == <<None, "user", "out">>

\* After kernel::start has loaded the first task.
HwInit ==
  /\ Init
  /\ live \in {s \in SUBSET Tasks : running \in s}
  /\ section = [t \in Tasks |-> "out"] /\ mask = [t \in Tasks |-> 0]
  /\ sp = [t \in Tasks |-> Place(t)] /\ ctx = [t \in Tasks |-> Place(t)]
  /\ psp = Place(running) /\ regs = Place(running)
  /\ store = None /\ load = running /\ svc = "none"
  /\ active = <<>> /\ pending = {}
  /\ pushed = [i \in Isrs |-> NoPlace]
  /\ basepri = 0

-----------------------------------------------------------------------------
(* The interrupt controller. *)

Level(e) == IF e \in Isrs THEN IsrLevel[e] ELSE IF e = Fault THEN 0 ELSE KernelLevel

\* A mutant: the order within a level is arbitrary.
RankByLevel(e) == Level(e)

\* setInterruptPriority, and the exception number among equals.
Rank(e) == (Level(e) * 4 + (IF e \in Isrs THEN Sub[e] ELSE SubLow)) * 256 + e

\* A mutant: BASEPRI lets its own level through.
MaskedAbove(level) == basepri # 0 /\ level > basepri

Masked(level) == basepri # 0 /\ level >= basepri

\* A mutant: an exception preempts those of its own level.
CanNestAmongEquals(e) ==
  /\ e \in pending /\ ~ Masked(Level(e))
  /\ \A k \in DOMAIN active : Level(e) <= Level(active[k])

CanNest(e) ==
  /\ e \in pending /\ ~ Masked(Level(e))
  /\ \A k \in DOMAIN active : Level(e) < Level(active[k])

\* SysTick and vendor interrupts become pending at any time.
Pend(e) ==
  /\ e \in {SysTick} \cup Isrs
  /\ pending' = pending \cup {e}
  /\ UNCHANGED <<lockVars, taskVars, cpuVars, active, pushed, maskVars>>

\* The most urgent pending exception nests in, or tail-chains to, the others.
Take(e) ==
  /\ CanNest(e)
  /\ \A f \in pending : CanNest(f) => Rank(e) <= Rank(f)
  /\ active' = <<e>> \o active
  /\ pending' = pending \ {e}
  /\ UNCHANGED <<lockVars, taskVars, cpuVars, pushed, maskVars>>

Handles(e) == active # <<>> /\ Head(active) = e

-----------------------------------------------------------------------------
(* Tasks in thread mode. *)

Executes(t) == active = <<>> /\ psp[1] = t /\ \A e \in pending : ~ CanNest(e)

\* The registers and the stack go along with the instructions.
Follow(t) ==
  /\ psp' = <<t, pc'[t], section'[t]>> /\ regs' = <<t, pc'[t], section'[t]>>
  /\ UNCHANGED <<store, load, svc>>

\* The instructions of the kernel lock and what comes between them.
LockStep(t) ==
  /\ Executes(t) /\ section[t] # "saved"
  /\ LoadEnter(t) \/ StoreEnter(t) \/ LoadLeave(t) \/ StoreLeave(t)
  /\ UNCHANGED <<taskVars, nvicVars, maskVars>>
  /\ Follow(t)

\* terminate of another task, up to its leave.
Terminate(t, u) ==
  /\ Executes(t) /\ section[t] # "saved" /\ u \in live \ {t}
  /\ LoadLeave(t)
  /\ live' = live \ {u}
  /\ UNCHANGED <<sp, ctx, nvicVars, maskVars>>
  /\ Follow(t)

\* Stack::init and getStackPointer: a frame that starts the task's routine.
NewStack(u) == <<u, "user", "out">>

\* task::create prepares the stack.  It leaves m_context as it is: a new task
\* expects nothing of r4-r11, so what they hold counts as its own.
Create(t, u) ==
  /\ Executes(t) /\ section[t] # "saved" /\ u \notin live
  /\ Recreate(t, u)
  /\ live' = live \cup {u}
  /\ section' = [section EXCEPT ![u] = "out"]
  /\ sp' = [sp EXCEPT ![u] = NewStack(u)] /\ ctx' = [ctx EXCEPT ![u] = NewStack(u)]
  /\ UNCHANGED <<nvicVars, basepri, mask>>
  /\ Follow(t)

\* syscall.  With SVC masked it would be a hard fault, as hardware.hpp says.
\* The frame that the exception pushes returns to user code.
Syscall(t, id) ==
  /\ Executes(t) /\ section[t] # "saved" /\ pc[t] = "body"
  /\ ~ Masked(KernelLevel)
  /\ svc' = id
  /\ psp' = <<t, "user", section[t]>> /\ regs' = <<t, "user", section[t]>>
  /\ active' = <<SVC>>
  /\ UNCHANGED <<lockVars, sp, ctx, store, load, pending, pushed, maskVars>>

\* Sleep, wait, suspend, create and resume that switch.
Yield(t) == Syscall(t, "ExecuteContextSwitch") /\ UNCHANGED live

\* terminateTask of the caller, which taskRoutine calls when the routine of a
\* task returns; the idle task, at least, remains.
Exit(t) ==
  /\ Syscall(t, "LoadNextTask")
  /\ live' = live \ {t} /\ live' # {}

\* hardware::critical_section::enter saves BASEPRI, then sets it.
SaveMask(t) ==
  /\ Executes(t) /\ pc[t] = "user" /\ section[t] = "out"
  /\ mask' = [mask EXCEPT ![t] = basepri]
  /\ section' = [section EXCEPT ![t] = "saved"]
  /\ UNCHANGED <<lockVars, taskVars, nvicVars, basepri>>
  /\ Follow(t)

RaiseMask(t) ==
  /\ Executes(t) /\ section[t] = "saved"
  /\ basepri' = SectionLevel
  /\ section' = [section EXCEPT ![t] = "inside"]
  /\ UNCHANGED <<lockVars, taskVars, nvicVars, mask>>
  /\ Follow(t)

\* hardware::critical_section::leave.
RestoreMask(t) ==
  /\ Executes(t) /\ pc[t] = "user" /\ section[t] = "inside"
  /\ basepri' = mask[t] /\ mask' = [mask EXCEPT ![t] = 0]
  /\ section' = [section EXCEPT ![t] = "out"]
  /\ UNCHANGED <<lockVars, taskVars, nvicVars>>
  /\ Follow(t)

-----------------------------------------------------------------------------
(* The handlers. *)

\* A mutant: the stack pointer is not stored.
StoreContextOnly(t) == store' = t /\ UNCHANGED sp

StoreContext(t) == store' = t /\ sp' = [sp EXCEPT ![t] = psp]
LoadContext(t) == load' = t /\ psp' = sp'[t]

\* bx 0xFFFFFFFD: to thread mode, on the process stack.  With another
\* exception still active the processor faults instead.
ReturnToThread ==
  active' = IF Len(active) = 1 THEN <<>> ELSE <<Fault>> \o Tail(active)

\* SVC_Handler_Main with switchContext: PendSV is to follow.
SwitchContext(next) ==
  /\ Handles(SVC) /\ svc = "ExecuteContextSwitch" /\ next \in live
  /\ Svc(running) /\ running' = next
  /\ StoreContext(running) /\ LoadContext(next)
  /\ svc' = "none"
  /\ pending' = pending \cup {PendSV}
  /\ active' = Tail(active)
  /\ UNCHANGED <<live, ctx, regs, pushed, maskVars>>

\* SVC_Handler_Main with loadNextTask and LoadTask: nothing is stored.
LoadNextTask(next) ==
  /\ Handles(SVC) /\ svc = "LoadNextTask" /\ next \in live
  /\ Svc(running) /\ running' = next
  /\ UNCHANGED <<sp, store>> /\ LoadContext(next)
  /\ regs' = ctx[next]
  /\ svc' = "none"
  /\ ReturnToThread
  /\ UNCHANGED <<live, ctx, pending, pushed, maskVars>>

\* SysTick_Handler when tick finds the lock free, the slice over and another
\* task next.
TickSwitches(next) ==
  /\ Handles(SysTick) /\ next \in live \ {running}
  /\ Tick /\ running' = next
  /\ StoreContext(running) /\ LoadContext(next)
  /\ pending' = pending \cup {PendSV}
  /\ active' = Tail(active)
  /\ UNCHANGED <<live, ctx, regs, svc, pushed, maskVars>>

TickStays ==
  /\ Handles(SysTick)
  /\ active' = Tail(active)
  /\ UNCHANGED <<lockVars, taskVars, cpuVars, pending, pushed, maskVars>>

\* PendSV_Handler.
SwitchRegisters ==
  /\ Handles(PendSV)
  /\ ctx' = [ctx EXCEPT ![store] = regs]
  /\ regs' = ctx'[load]
  /\ ReturnToThread
  /\ UNCHANGED <<lockVars, live, sp, psp, store, load, svc, pending, pushed,
                 maskVars>>

\* A vendor handler pushes r4-r11 before it uses them, and pops them.
IsrUses(i) ==
  /\ Handles(i) /\ regs[1] # i
  /\ pushed' = [pushed EXCEPT ![i] = regs]
  /\ regs' = <<i, "user", "out">>
  /\ UNCHANGED <<lockVars, taskVars, psp, store, load, svc, active, pending,
                 maskVars>>

IsrReturns(i) ==
  /\ Handles(i)
  /\ regs' = IF regs[1] = i THEN pushed[i] ELSE regs
  /\ pushed' = [pushed EXCEPT ![i] = NoPlace]
  /\ active' = Tail(active)
  /\ UNCHANGED <<lockVars, taskVars, psp, store, load, svc, pending, maskVars>>

-----------------------------------------------------------------------------
HwNext ==
  \/ \E e \in Kernels \cup Isrs : Pend(e) \/ Take(e)
  \/ \E t \in Tasks : LockStep(t) \/ Yield(t) \/ Exit(t)
                      \/ SaveMask(t) \/ RaiseMask(t) \/ RestoreMask(t)
  \/ \E t, u \in Tasks : Terminate(t, u) \/ Create(t, u)
  \/ \E t \in Tasks : SwitchContext(t) \/ LoadNextTask(t) \/ TickSwitches(t)
  \/ TickStays \/ SwitchRegisters
  \/ \E i \in Isrs : IsrUses(i) \/ IsrReturns(i)

HwSpec == HwInit /\ [][HwNext]_hwVars

-----------------------------------------------------------------------------
(* Properties. *)

\* A switch has begun and PendSV is still to move the registers.
Switching == PendSV \in pending \/ \E k \in DOMAIN active : active[k] = PendSV

\* A task that executes has its own stack and its own registers, exactly as
\* it left them, and it is the one the scheduler believes to be current.
RunsWhole ==
  active = <<>> /\ PendSV \notin pending =>
    running \in live /\ psp = Place(running) /\ regs = Place(running)

\* Nothing of a task that is switched out is lost, mixed up with another's or
\* outdated: its stack pointer is in m_sp, and its registers are in m_context
\* or, while PendSV is still to come, where PendSV will find them.
SavedWhole ==
  \A t \in live \ {running} :
    /\ sp[t] = Place(t)
    /\ \/ Switching /\ store = t
       \/ ctx[t] = Place(t)

\* BASEPRI is no part of a task's context, and does not have to be as long as
\* sections are at the Kernel level or above: no other task runs with the
\* mask of a section, and none is switched out of one.
MaskFollowsTask ==
  /\ \A t \in live : section[t] = "inside" => t = running
  /\ basepri = IF running \in live /\ section[running] = "inside" THEN SectionLevel ELSE 0

\* Interrupt handlers run to their end: no switch returns to thread mode
\* while one is active.
HandlersFinish == \A k \in DOMAIN active : active[k] # Fault
=============================================================================
