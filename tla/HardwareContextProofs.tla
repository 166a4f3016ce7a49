------------------------ MODULE HardwareContextProofs -------------------------
(***************************************************************************)
(* The context switch for any number of tasks and interrupts.  The lock of *)
(* HardwareContext is that of Interlock whatever the levels are.  Tasks    *)
(* keep their registers, their stacks and their masks when vendor          *)
(* interrupts and sections of user code are at the Kernel level or above   *)
(* (UrgentOnly; run hardware_user_isr shows what happens otherwise).       *)
(***************************************************************************)
EXTENDS HardwareContext, InterlockProofs, SequenceTheorems

-----------------------------------------------------------------------------
(* The lock. *)

\* What the refinement needs to know.
LockTypes == LockInv /\ live \in SUBSET Tasks

LEMMA InitLockTypes == HwInit => LockTypes
BY InitLockInv DEF HwInit, LockTypes

\* Every step of the hardware is a step of the lock or leaves it alone.
LEMMA HwStep == LockTypes /\ [HwNext]_hwVars => [Next]_vars /\ LockTypes'
<1> SUFFICES ASSUME LockTypes, [HwNext]_hwVars PROVE [Next]_vars /\ LockTypes'
  OBVIOUS
<1> USE DEF LockTypes, vars
<1>1. ASSUME NEW e \in Kernels \cup Isrs, Pend(e) \/ Take(e) PROVE UNCHANGED <<vars, live>>
  BY <1>1 DEF Pend, Take, lockVars, taskVars
<1>2. ASSUME NEW t \in Tasks, LockStep(t) PROVE Next /\ UNCHANGED live
  BY <1>2 DEF LockStep, Next, taskVars
<1>3. ASSUME NEW t \in Tasks, Yield(t) PROVE UNCHANGED <<vars, live>>
  BY <1>3 DEF Yield, Syscall, lockVars
<1>4. ASSUME NEW t \in Tasks, Exit(t) PROVE UNCHANGED vars /\ live' \in SUBSET Tasks
  BY <1>4 DEF Exit, Syscall, lockVars
<1>5. ASSUME NEW t \in Tasks, SaveMask(t) \/ RaiseMask(t) \/ RestoreMask(t)
      PROVE  UNCHANGED <<vars, live>>
  BY <1>5 DEF SaveMask, RaiseMask, RestoreMask, lockVars, taskVars
<1>6. ASSUME NEW t \in Tasks, NEW u \in Tasks, Terminate(t, u)
      PROVE  Next /\ live' \in SUBSET Tasks
  BY <1>6 DEF Terminate, Next
<1>7. ASSUME NEW t \in Tasks, NEW u \in Tasks, Create(t, u)
      PROVE  Next /\ live' \in SUBSET Tasks
  BY <1>7 DEF Create, Next
<1>8. ASSUME NEW t \in Tasks, SwitchContext(t) \/ LoadNextTask(t)
      PROVE  Next /\ UNCHANGED live
  BY <1>8 DEF SwitchContext, LoadNextTask, Next, LockInv, TypeOK
<1>9. ASSUME NEW t \in Tasks, TickSwitches(t) PROVE Next /\ UNCHANGED live
  BY <1>9 DEF TickSwitches, Next
<1>10. ASSUME TickStays \/ SwitchRegisters PROVE UNCHANGED <<vars, live>>
  BY <1>10 DEF TickStays, SwitchRegisters, lockVars, taskVars
<1>11. ASSUME NEW i \in Isrs, IsrUses(i) \/ IsrReturns(i) PROVE UNCHANGED <<vars, live>>
  BY <1>11 DEF IsrUses, IsrReturns, lockVars, taskVars
<1>12. ASSUME UNCHANGED hwVars PROVE UNCHANGED <<vars, live>>
  BY <1>12 DEF hwVars, lockVars, taskVars
<1>13. [Next]_vars /\ live' \in SUBSET Tasks
  BY <1>1, <1>2, <1>3, <1>4, <1>5, <1>6, <1>7, <1>8, <1>9, <1>10, <1>11, <1>12
  DEF HwNext
<1>14. LockInv'
  BY <1>13, NextLockInv
<1> QED
  BY <1>13, <1>14

\* The context switch of hardware.cpp takes and releases the lock as Interlock
\* does: every execution, seen through lockVars, is one of Interlock.
THEOREM HardwareKeepsLock == HwSpec => Spec
<1>1. HwInit => Init
  BY DEF HwInit
<1> QED
  BY <1>1, InitLockTypes, HwStep, PTL DEF HwSpec, Spec

\* With the handlers as they are, only the running task is inside an API call.
THEOREM HardwareLockExclusive == HwSpec => []LockCountsHolder
BY HardwareKeepsLock, LockIsExclusive, PTL

\* With the handlers as they are, interrupted increments are never stale.
THEOREM HardwareRegistersFresh == HwSpec => []RegistersFresh
BY HardwareKeepsLock, RegistersStayFresh, PTL

\* The handlers and the torn counter together implement the atomic lock.
THEOREM HardwareImplementsLock == HwSpec => ImplementsKernelLock
BY HardwareKeepsLock, Refinement, PTL

-----------------------------------------------------------------------------
(* The inductive invariant of the switch. *)

UrgentOnly == (\A i \in Isrs : IsrLevel[i] <= KernelLevel) /\ SectionLevel <= KernelLevel

Sections == {"out", "saved", "inside"}
Values == (Tasks \cup Isrs \cup {None}) \X Places \X Sections

HwTypeOK ==
  /\ TypeOK /\ live \in SUBSET Tasks
  /\ sp \in [Tasks -> Values] /\ ctx \in [Tasks -> Values]
  /\ psp \in Values /\ regs \in Values /\ pushed \in [Isrs -> Values]
  /\ store \in Tasks \cup {None} /\ load \in Tasks
  /\ svc \in {"none", "ExecuteContextSwitch", "LoadNextTask"}
  /\ active \in Seq(Kernels \cup Isrs)
  /\ pending \in SUBSET ({PendSV, SysTick} \cup Isrs)
  /\ basepri \in Nat
  /\ section \in [Tasks -> Sections] /\ mask \in [Tasks -> Nat]

IsActive(e) == \E k \in DOMAIN active : active[k] = e

\* An active exception is more urgent than those it preempted, and PendSV
\* comes between the beginning of a switch and the next tick or SVC.
Nested ==
  /\ \A j, k \in DOMAIN active : j < k => Level(active[j]) < Level(active[k])
  /\ PendSV \in pending => ~ IsActive(SVC) /\ ~ IsActive(SysTick) /\ ~ IsActive(PendSV)

\* BASEPRI is zero except within the section of the running task; it was
\* zero when a section saved it, and while the kernel works.
MaskSound ==
  /\ MaskFollowsTask
  /\ \A t \in live : section[t] # "out" => mask[t] = 0
  /\ (\E e \in Kernels : IsActive(e)) \/ PendSV \in pending => basepri = 0

\* The processor: during an SVC, during a switch, and otherwise.
UserPlace(t) == <<t, "user", section[t]>>
CpuSound ==
  IF IsActive(SVC)
  THEN /\ svc # "none" /\ pc[running] = "body"
       /\ running \in live <=> svc = "ExecuteContextSwitch"
       /\ psp = UserPlace(running)
  ELSE /\ running \in live /\ psp = Place(running)
       /\ Switching => running = load /\ store \in live /\ sp[running] = psp
                       /\ (store # running => ctx[running] = psp)

\* What r4-r11 hold underneath the vendor handlers.
ThreadRegs ==
  IF IsActive(SVC) THEN UserPlace(running)
  ELSE IF Switching THEN Place(store) ELSE Place(running)

\* The r4-r11 of the thread are in the processor, or saved by a handler that
\* uses them, or saved by one which another has preempted.
IsrPlace(i) == <<i, "user", "out">>
RegsKept ==
  \/ regs = ThreadRegs
  \/ \E j \in DOMAIN active :
       /\ active[j] \in Isrs /\ regs = IsrPlace(active[j])
       /\ \/ pushed[active[j]] = ThreadRegs
          \/ \E k \in DOMAIN active :
               /\ j < k /\ active[k] \in Isrs
               /\ pushed[active[j]] = IsrPlace(active[k])
               /\ pushed[active[k]] = ThreadRegs

HwInv == HwTypeOK /\ Nested /\ MaskSound /\ CpuSound /\ SavedWhole /\ RegsKept

-----------------------------------------------------------------------------
(* Facts about the invariant. *)

LEMMA Levels ==
  ASSUME UrgentOnly
  PROVE  /\ \A e \in Kernels : Level(e) = 2 /\ e \notin Isrs /\ e \in Int
         /\ \A i \in Isrs : Level(i) \in 1 .. 2 /\ i \in Int
BY HardwareAssumption
DEF UrgentOnly, Level, Kernels, KernelLevel, SVC, PendSV, SysTick, Fault

LEMMA KernelNumbers == SVC # PendSV /\ SVC # SysTick /\ PendSV # SysTick
BY DEF SVC, PendSV, SysTick

LEMMA OneElement ==
  ASSUME NEW S, NEW s \in Seq(S), Len(s) = 1
  PROVE  s = <<s[1]>> /\ Tail(s) = <<>>
<1>1. Tail(s) = <<>>
  <2>1. Tail(s) \in Seq(S) /\ Len(Tail(s)) = 0
    OBVIOUS
  <2> QED
    BY <2>1, EmptySeq
<1>2. s = [i \in 1 .. 1 |-> s[i]]
  OBVIOUS
<1>3. <<s[1]>> = [i \in 1 .. 1 |-> s[i]]
  OBVIOUS
<1> QED
  BY <1>1, <1>2, <1>3

\* At most a Critical handler and one below it.
LEMMA AtMostTwo ==
  ASSUME UrgentOnly, HwTypeOK, Nested
  PROVE  Len(active) \in 0 .. 2
<1>0. active \in Seq(Kernels \cup Isrs) /\ Len(active) \in Nat
      /\ DOMAIN active = 1 .. Len(active)
  BY DEF HwTypeOK
<1>1. \A k \in DOMAIN active : Level(active[k]) \in 1 .. 2
  <2> TAKE k \in DOMAIN active
  <2>1. active[k] \in Kernels \cup Isrs
    BY <1>0
  <2> QED
    BY <2>1, Levels
<1>2. SUFFICES ASSUME Len(active) > 2 PROVE FALSE
  BY <1>0
<1>3. 1 \in DOMAIN active /\ 2 \in DOMAIN active /\ 3 \in DOMAIN active
  BY <1>0, <1>2
<1>4. Level(active[1]) < Level(active[2]) /\ Level(active[2]) < Level(active[3])
  BY <1>3 DEF Nested
<1>5. Level(active[1]) \in 1 .. 2 /\ Level(active[2]) \in 1 .. 2 /\ Level(active[3]) \in 1 .. 2
  BY <1>1, <1>3
<1> QED
  BY <1>4, <1>5

\* A handler of the kernel preempts no other.
LEMMA KernelHandles ==
  ASSUME UrgentOnly, HwInv, NEW e \in Kernels, Handles(e)
  PROVE  /\ active = <<e>> /\ Tail(active) = <<>> /\ Len(active) = 1
         /\ \A f : IsActive(f) <=> f = e
         /\ regs = ThreadRegs /\ basepri = 0
<1>1. /\ active \in Seq(Kernels \cup Isrs) /\ active # <<>> /\ active[1] = e
      /\ Len(active) \in Nat /\ DOMAIN active = 1 .. Len(active)
  BY DEF HwInv, HwTypeOK, Handles
<1>2. 1 \in DOMAIN active /\ Level(active[1]) = 2
  BY <1>1, Levels
<1>3. Len(active) = 1
  <2>1. SUFFICES ASSUME 2 \in DOMAIN active PROVE FALSE
    BY <1>1
  <2>2. active[2] \in Kernels \cup Isrs
    BY <1>1, <2>1
  <2>3. Level(active[2]) \in 1 .. 2
    BY <2>2, Levels
  <2>4. Level(active[1]) < Level(active[2])
    BY <1>2, <2>1 DEF HwInv, Nested
  <2> QED
    BY <1>2, <2>3, <2>4
<1>4. active = <<e>> /\ Tail(active) = <<>>
  BY <1>1, <1>3, OneElement
<1>5. \A f : IsActive(f) <=> f = e
  BY <1>1, <1>3 DEF IsActive
<1>6. regs = ThreadRegs
  BY <1>1, <1>3, Levels DEF HwInv, RegsKept
<1>7. basepri = 0
  BY <1>5 DEF HwInv, MaskSound
<1> QED
  BY <1>3, <1>4, <1>5, <1>6, <1>7

\* A thread that executes is the running task, whole.
LEMMA ThreadExecutes ==
  ASSUME UrgentOnly, HwInv, NEW t \in Tasks, Executes(t)
  PROVE  /\ active = <<>> /\ PendSV \notin pending /\ ~ Switching
         /\ \A f : ~ IsActive(f)
         /\ t = running /\ t \in live /\ psp = Place(t) /\ regs = Place(t)
<1>1. active = <<>> /\ \A f : ~ IsActive(f)
  BY DEF Executes, IsActive
<1>2. PendSV \notin pending
  <2>1. SUFFICES ASSUME PendSV \in pending PROVE FALSE
    OBVIOUS
  <2>2. basepri = 0
    BY <2>1 DEF HwInv, MaskSound
  <2>3. CanNest(PendSV)
    BY <1>1, <2>1, <2>2 DEF CanNest, Masked
  <2> QED
    BY <2>1, <2>3 DEF Executes
<1>3. ~ Switching
  BY <1>1, <1>2 DEF Switching
<1>4. running \in live /\ psp = Place(running)
  BY <1>1 DEF HwInv, CpuSound
<1>5. regs = Place(running)
  BY <1>1, <1>3 DEF HwInv, RegsKept, ThreadRegs
<1>6. t = running
  BY <1>4 DEF Executes, Place
<1> QED
  BY <1>1, <1>2, <1>3, <1>4, <1>5, <1>6

\* A task that makes a system call is in no section.
LEMMA SyscallFacts ==
  ASSUME UrgentOnly, HwInv, NEW t \in Tasks, NEW id, Syscall(t, id)
  PROVE  basepri = 0 /\ section[t] = "out"
<1>1. t = running /\ t \in live
  BY ThreadExecutes DEF Syscall
<1>2. section[t] # "inside"
  BY <1>1, HardwareAssumption
  DEF Syscall, HwInv, MaskSound, MaskFollowsTask, Masked, UrgentOnly, KernelLevel
<1>3. section[t] = "out"
  BY <1>2 DEF Syscall, HwInv, HwTypeOK, Sections
<1> QED
  BY <1>1, <1>3 DEF HwInv, MaskSound, MaskFollowsTask

LEMMA InitHwInv == ASSUME UrgentOnly, HwInit PROVE HwInv
<1> USE DEF HwInit, Place
<1>1. TypeOK
  BY DEF Init, TypeOK, Places
<1>2. HwTypeOK
  BY <1>1, InterlockAssumption DEF Init, HwTypeOK, TypeOK, Values, Sections, Places, NoPlace
<1>3. Nested /\ ~ Switching /\ \A f : ~ IsActive(f)
  BY DEF Nested, Switching, IsActive
<1>4. MaskSound
  BY <1>3 DEF MaskSound, MaskFollowsTask, IsActive
<1>5. CpuSound /\ RegsKept /\ SavedWhole
  BY <1>2, <1>3 DEF CpuSound, RegsKept, SavedWhole, ThreadRegs, HwTypeOK
<1> QED
  BY <1>2, <1>3, <1>4, <1>5 DEF HwInv

-----------------------------------------------------------------------------
(* Steps of the running task. *)

\* The registers follow the running task, and its step keeps what others left.
LEMMA ThreadStep ==
  ASSUME UrgentOnly, HwInv, NEW t \in Tasks, Executes(t), Follow(t),
         UNCHANGED <<running, nvicVars>>, t \in live',
         \A u \in live' \ {t} : sp'[u] = Place(u)' /\ ctx'[u] = Place(u)'
  PROVE  Nested' /\ CpuSound' /\ SavedWhole' /\ RegsKept'
<1>1. /\ active' = <<>> /\ PendSV \notin pending' /\ running' = t
      /\ UNCHANGED <<active, pending>>
  BY ThreadExecutes DEF nvicVars
<1>2. (\A f : ~ IsActive(f)') /\ ~ Switching'
  BY <1>1 DEF IsActive, Switching
<1>3. Nested'
  BY <1>1 DEF Nested
<1>4. psp' = Place(t)' /\ regs' = Place(t)'
  BY DEF Follow, Place
<1>5. CpuSound'
  BY <1>1, <1>2, <1>4 DEF CpuSound
<1>6. SavedWhole'
  BY <1>1 DEF SavedWhole
<1>7. RegsKept'
  BY <1>1, <1>2, <1>4 DEF RegsKept, ThreadRegs
<1> QED
  BY <1>3, <1>5, <1>6, <1>7

\* What the others left, before the step.
LEMMA OthersSaved ==
  ASSUME UrgentOnly, HwInv, NEW t \in Tasks, Executes(t)
  PROVE  \A u \in live \ {t} : sp[u] = Place(u) /\ ctx[u] = Place(u)
BY ThreadExecutes DEF HwInv, SavedWhole

LEMMA FollowTyped ==
  ASSUME NEW t \in Tasks, Follow(t), pc' \in [Tasks -> Places], section' \in [Tasks -> Sections],
         HwTypeOK
  PROVE  /\ psp' \in Values /\ regs' \in Values /\ store' \in Tasks \cup {None}
         /\ load' \in Tasks /\ svc' \in {"none", "ExecuteContextSwitch", "LoadNextTask"}
<1>1. pc'[t] \in Places /\ section'[t] \in Sections
  OBVIOUS
<1> QED
  BY <1>1 DEF Follow, HwTypeOK, Values

LEMMA LockStepKeeps ==
  ASSUME UrgentOnly, HwInv, NEW t \in Tasks, LockStep(t)
  PROVE  HwInv'
<1>0. /\ Executes(t) /\ Follow(t) /\ UNCHANGED <<taskVars, nvicVars, maskVars>>
      /\ LoadEnter(t) \/ StoreEnter(t) \/ LoadLeave(t) \/ StoreLeave(t)
  BY DEF LockStep
<1>1. UNCHANGED running /\ TypeOK' /\ \A u \in Tasks \ {t} : pc'[u] = pc[u]
  <2>1. TypeOK
    BY DEF HwInv, HwTypeOK
  <2> QED
    BY <1>0, <2>1 DEF LoadEnter, StoreEnter, LoadLeave, StoreLeave, TypeOK, Places
<1>2. t \in live /\ t = running
  BY <1>0, <1>1, ThreadExecutes
<1>3. HwTypeOK'
  BY <1>0, <1>1, FollowTyped DEF HwInv, HwTypeOK, TypeOK, taskVars, nvicVars, maskVars
<1>4. MaskSound'
  BY <1>0, <1>1 DEF HwInv, MaskSound, MaskFollowsTask, IsActive, taskVars, nvicVars, maskVars
<1>5. \A u \in live' \ {t} : sp'[u] = Place(u)' /\ ctx'[u] = Place(u)'
  BY <1>0, <1>1, OthersSaved DEF Place, taskVars, maskVars, HwInv, HwTypeOK
<1>6. Nested' /\ CpuSound' /\ SavedWhole' /\ RegsKept'
  BY <1>0, <1>1, <1>2, <1>5, ThreadStep DEF taskVars
<1> QED
  BY <1>3, <1>4, <1>6 DEF HwInv

LEMMA TerminateKeeps ==
  ASSUME UrgentOnly, HwInv, NEW t \in Tasks, NEW u \in Tasks, Terminate(t, u)
  PROVE  HwInv'
<1>1. /\ Executes(t) /\ Follow(t) /\ UNCHANGED <<running, sp, ctx, nvicVars, maskVars>>
      /\ TypeOK' /\ (\A v \in Tasks \ {t} : pc'[v] = pc[v])
      /\ live' = live \ {u} /\ u # t
  BY DEF Terminate, LoadLeave, HwInv, HwTypeOK, TypeOK, Places
<1>2. t \in live' /\ t = running
  BY <1>1, ThreadExecutes
<1>3. HwTypeOK'
  BY <1>1, FollowTyped DEF HwInv, HwTypeOK, TypeOK, nvicVars, maskVars
<1>4. MaskSound'
  BY <1>1, <1>2 DEF HwInv, MaskSound, MaskFollowsTask, IsActive, nvicVars, maskVars
<1>5. \A v \in live' \ {t} : sp'[v] = Place(v)' /\ ctx'[v] = Place(v)'
  BY <1>1, OthersSaved DEF Place, maskVars, HwInv, HwTypeOK
<1> QED
  BY <1>1, <1>2, <1>3, <1>4, <1>5, ThreadStep DEF HwInv

LEMMA CreateKeeps ==
  ASSUME UrgentOnly, HwInv, NEW t \in Tasks, NEW u \in Tasks, Create(t, u)
  PROVE  HwInv'
<1>1. /\ Executes(t) /\ Follow(t) /\ UNCHANGED <<running, nvicVars, basepri, mask>>
      /\ pc' = [pc EXCEPT ![u] = "user"] /\ section' = [section EXCEPT ![u] = "out"]
      /\ sp' = [sp EXCEPT ![u] = NewStack(u)] /\ ctx' = [ctx EXCEPT ![u] = NewStack(u)]
      /\ live' = live \cup {u} /\ u # t /\ u \notin live
  BY DEF Create, Recreate
<1>2. t \in live /\ t = running
  BY <1>1, ThreadExecutes
<1>3. TypeOK' /\ section' \in [Tasks -> Sections]
  BY <1>1 DEF Create, Recreate, HwInv, HwTypeOK, TypeOK, Places, Sections
<1>4. HwTypeOK'
  <2>1. NewStack(u) \in Values
    BY DEF NewStack, Values, Places, Sections
  <2>2. sp' \in [Tasks -> Values] /\ ctx' \in [Tasks -> Values]
    BY <1>1, <2>1 DEF HwInv, HwTypeOK
  <2> QED
    BY <1>1, <1>3, <2>2, FollowTyped DEF HwInv, HwTypeOK, TypeOK, nvicVars
<1>5. MaskSound'
  BY <1>1, <1>2 DEF HwInv, MaskSound, MaskFollowsTask, IsActive, nvicVars, HwTypeOK
<1>6. \A v \in live' \ {t} : sp'[v] = Place(v)' /\ ctx'[v] = Place(v)'
  <2>1. sp'[u] = Place(u)' /\ ctx'[u] = Place(u)'
    BY <1>1 DEF Place, NewStack, HwInv, HwTypeOK, TypeOK
  <2>2. ASSUME NEW v \in live \ {t} PROVE sp'[v] = Place(v)' /\ ctx'[v] = Place(v)'
    BY <1>1, <2>2, OthersSaved DEF Place, HwInv, HwTypeOK, TypeOK
  <2> QED
    BY <1>1, <2>1, <2>2
<1> QED
  BY <1>1, <1>2, <1>4, <1>5, <1>6, ThreadStep DEF HwInv

\* The three steps of a section of user code.
LEMMA SectionKeeps ==
  ASSUME UrgentOnly, HwInv, NEW t \in Tasks, SaveMask(t) \/ RaiseMask(t) \/ RestoreMask(t)
  PROVE  HwInv'
<1>1. /\ Executes(t) /\ Follow(t) /\ UNCHANGED <<lockVars, taskVars, nvicVars>>
      /\ section' \in [Tasks -> Sections]
      /\ \A u \in Tasks \ {t} : section'[u] = section[u] /\ mask'[u] = mask[u]
  BY DEF SaveMask, RaiseMask, RestoreMask, HwInv, HwTypeOK, Sections
<1>2. t \in live /\ t = running
  BY <1>1, ThreadExecutes
<1>3. mask' \in [Tasks -> Nat] /\ basepri' \in Nat
  <2>1. mask \in [Tasks -> Nat] /\ basepri \in Nat /\ SectionLevel \in Nat
    BY HardwareAssumption DEF HwInv, HwTypeOK
  <2> QED
    BY <2>1 DEF SaveMask, RaiseMask, RestoreMask
<1>4. HwTypeOK'
  BY <1>1, <1>3, FollowTyped DEF HwInv, HwTypeOK, TypeOK, lockVars, taskVars, nvicVars
<1>5. \A u \in live' \ {t} : sp'[u] = Place(u)' /\ ctx'[u] = Place(u)'
  BY <1>1, OthersSaved DEF Place, lockVars, taskVars, HwInv, HwTypeOK
<1>6. MaskSound'
  <2>1. /\ MaskFollowsTask /\ \A u \in live : section[u] # "out" => mask[u] = 0
        /\ UNCHANGED <<live, running, active, pending>>
        /\ section \in [Tasks -> Sections] /\ mask \in [Tasks -> Nat] /\ live \subseteq Tasks
    BY <1>1 DEF HwInv, MaskSound, lockVars, taskVars, nvicVars, HwTypeOK
  <2>2. PendSV \notin pending' /\ \A f : ~ IsActive(f)'
    BY <1>1, <2>1, ThreadExecutes DEF IsActive
  <2>3. CASE SaveMask(t)
    BY <1>2, <2>1, <2>2, <2>3 DEF SaveMask, MaskSound, MaskFollowsTask
  <2>4. CASE RaiseMask(t)
    BY <1>2, <2>1, <2>2, <2>4 DEF RaiseMask, MaskSound, MaskFollowsTask
  <2>5. CASE RestoreMask(t)
    BY <1>2, <2>1, <2>2, <2>5 DEF RestoreMask, MaskSound, MaskFollowsTask
  <2> QED
    BY <2>3, <2>4, <2>5
<1> QED
  BY <1>1, <1>2, <1>4, <1>5, <1>6, ThreadStep DEF HwInv, lockVars, taskVars

\* A system call: the exception saves the frame of a task back in user code.
LEMMA SyscallKeeps ==
  ASSUME UrgentOnly, HwInv, NEW t \in Tasks, NEW id \in {"ExecuteContextSwitch", "LoadNextTask"},
         Syscall(t, id), live' = IF id = "ExecuteContextSwitch" THEN live ELSE live \ {t}
  PROVE  HwInv'
<1>1. /\ Executes(t) /\ svc' = id /\ psp' = UserPlace(t) /\ regs' = UserPlace(t)
      /\ active' = <<SVC>> /\ pc[t] = "body"
      /\ UNCHANGED <<lockVars, sp, ctx, store, load, pending, pushed, maskVars>>
  BY DEF Syscall, UserPlace
<1>2. t = running /\ t \in live /\ PendSV \notin pending
  BY <1>1, ThreadExecutes
<1>3. basepri = 0 /\ section[t] = "out"
  BY SyscallFacts
<1>4. IsActive(SVC)' /\ Nested'
  BY <1>1, <1>2 DEF IsActive, Nested
<1>5. HwTypeOK'
  <2>1. UserPlace(t) \in Values
    BY DEF UserPlace, Values, Places, Sections, HwInv, HwTypeOK
  <2>2. <<SVC>> \in Seq(Kernels \cup Isrs)
    BY DEF Kernels
  <2> QED
    BY <1>1, <2>1, <2>2 DEF HwInv, HwTypeOK, TypeOK, lockVars, maskVars
<1>6. MaskSound'
  BY <1>1, <1>2, <1>3 DEF HwInv, MaskSound, MaskFollowsTask, lockVars, maskVars
<1>7. CpuSound'
  BY <1>1, <1>2, <1>4 DEF CpuSound, UserPlace, lockVars, maskVars
<1>8. SavedWhole'
  BY <1>1, <1>2, OthersSaved DEF SavedWhole, Place, lockVars, maskVars
<1>9. RegsKept'
  BY <1>1, <1>2, <1>4 DEF RegsKept, ThreadRegs, UserPlace, lockVars, maskVars
<1> QED
  BY <1>4, <1>5, <1>6, <1>7, <1>8, <1>9 DEF HwInv

-----------------------------------------------------------------------------
(* Steps of the handlers of the kernel. *)

\* While BASEPRI is zero no task is in a section that has raised it.
LEMMA NoneInside ==
  ASSUME HwInv, basepri = 0
  PROVE  \A t \in live : section[t] # "inside"
BY HardwareAssumption DEF HwInv, MaskSound, MaskFollowsTask

\* So the current task may change.
LEMMA MaskKept ==
  ASSUME HwInv, basepri = 0, UNCHANGED <<maskVars, live>>
  PROVE  MaskSound'
BY NoneInside DEF HwInv, MaskSound, MaskFollowsTask, maskVars

\* In the handlers of the kernel, before and after.
LEMMA HandlerFacts ==
  ASSUME UrgentOnly, HwInv, NEW e \in Kernels, Handles(e)
  PROVE  /\ Tail(active) = <<>> /\ Len(active) = 1 /\ basepri = 0 /\ regs = ThreadRegs
         /\ IsActive(SVC) <=> e = SVC
         /\ Switching <=> e = PendSV
         /\ PendSV \notin pending
<1>1. /\ active = <<e>> /\ Tail(active) = <<>> /\ Len(active) = 1
      /\ \A f : IsActive(f) <=> f = e
      /\ regs = ThreadRegs /\ basepri = 0
  BY KernelHandles
<1>2. PendSV \notin pending
  BY <1>1 DEF HwInv, Nested, Kernels
<1> QED
  BY <1>1, <1>2 DEF Switching, IsActive

\* No exception is active any more.
LEMMA BackInThread ==
  ASSUME active' = <<>>
  PROVE  /\ Nested' /\ (\A f : ~ IsActive(f)') /\ (Switching' <=> PendSV \in pending')
         /\ active' \in Seq(Kernels \cup Isrs)
BY DEF Nested, IsActive, Switching

LEMMA SwitchContextKeeps ==
  ASSUME UrgentOnly, HwInv, NEW next \in Tasks, SwitchContext(next)
  PROVE  HwInv'
<1>1. /\ Handles(SVC) /\ svc = "ExecuteContextSwitch" /\ next \in live /\ running' = next
      /\ lock' = lock - 1 /\ pc' = [pc EXCEPT ![running] = "user"] /\ reg' = reg
      /\ store' = running /\ sp' = [sp EXCEPT ![running] = psp]
      /\ load' = next /\ psp' = sp'[next] /\ svc' = "none"
      /\ pending' = pending \cup {PendSV} /\ active' = Tail(active)
      /\ UNCHANGED <<live, ctx, regs, pushed, maskVars>>
  BY DEF SwitchContext, Svc, StoreContext, LoadContext
<1>2. /\ active' = <<>> /\ basepri = 0 /\ regs = UserPlace(running)
      /\ IsActive(SVC) /\ ~ Switching
  BY <1>1, HandlerFacts, KernelNumbers DEF Kernels, ThreadRegs
<1>3. PICK old \in live : old = running
  BY <1>1, <1>2 DEF HwInv, CpuSound
<1>4. /\ live \subseteq Tasks /\ pc \in [Tasks -> Places]
      /\ sp \in [Tasks -> Values] /\ psp \in Values
  BY DEF HwInv, HwTypeOK, TypeOK
<1>5. /\ psp = Place(old)'
      /\ \A u \in live \ {old} : sp[u] = Place(u)' /\ ctx'[u] = Place(u)'
  <2>1. psp = Place(old)'
    BY <1>1, <1>2, <1>3, <1>4 DEF HwInv, CpuSound, Place, UserPlace, maskVars
  <2>2. \A u \in live \ {old} : Place(u)' = Place(u)
    BY <1>1, <1>3, <1>4 DEF Place, maskVars
  <2>3. \A u \in live \ {old} : sp[u] = Place(u) /\ ctx[u] = Place(u)
    BY <1>2, <1>3 DEF HwInv, SavedWhole
  <2> QED
    BY <1>1, <2>1, <2>2, <2>3
<1>6. (\A u \in live : sp'[u] = Place(u)') /\ sp' \in [Tasks -> Values]
  BY <1>1, <1>3, <1>4, <1>5
<1>7. HwTypeOK'
  BY <1>1, <1>2, <1>4, <1>6, BackInThread
  DEF HwInv, HwTypeOK, TypeOK, Places, maskVars
<1>8. MaskSound'
  BY <1>1, <1>2, MaskKept
<1>9. Nested' /\ ~ IsActive(SVC)' /\ Switching'
  BY <1>1, <1>2, BackInThread
<1>10. CpuSound' /\ SavedWhole'
  <2>1. psp' = Place(next)'
    BY <1>1, <1>6
  <2>2. CpuSound'
    BY <1>1, <1>3, <1>5, <1>6, <1>9, <2>1 DEF CpuSound
  <2>3. SavedWhole'
    BY <1>1, <1>3, <1>5, <1>6, <1>9 DEF SavedWhole
  <2> QED
    BY <2>2, <2>3
<1>11. RegsKept'
  <2>1. regs' = Place(old)'
    BY <1>1, <1>2, <1>3, <1>5 DEF HwInv, CpuSound
  <2>2. ThreadRegs' = Place(old)'
    BY <1>1, <1>3, <1>9 DEF ThreadRegs, Place
  <2> QED
    BY <2>1, <2>2 DEF RegsKept
<1> QED
  BY <1>7, <1>8, <1>9, <1>10, <1>11 DEF HwInv

LEMMA LoadNextTaskKeeps ==
  ASSUME UrgentOnly, HwInv, NEW next \in Tasks, LoadNextTask(next)
  PROVE  HwInv'
<1>1. /\ Handles(SVC) /\ svc = "LoadNextTask" /\ next \in live /\ running' = next
      /\ lock' = lock - 1 /\ pc' = [pc EXCEPT ![running] = "user"] /\ reg' = reg
      /\ load' = next /\ psp' = sp[next] /\ regs' = ctx[next] /\ svc' = "none"
      /\ UNCHANGED <<live, sp, ctx, store, pending, pushed, maskVars>>
  BY DEF LoadNextTask, Svc, LoadContext
<1>2. /\ active' = <<>> /\ basepri = 0 /\ PendSV \notin pending
      /\ IsActive(SVC) /\ ~ Switching
  BY <1>1, HandlerFacts, KernelNumbers DEF Kernels, LoadNextTask, ReturnToThread
<1>3. running \notin live
  BY <1>1, <1>2 DEF HwInv, CpuSound
<1>4. \A u \in live : Place(u)' = Place(u) /\ sp[u] = Place(u) /\ ctx[u] = Place(u)
  BY <1>1, <1>2, <1>3 DEF HwInv, HwTypeOK, TypeOK, SavedWhole, Place, maskVars
<1>5. HwTypeOK'
  BY <1>1, <1>2, BackInThread DEF HwInv, HwTypeOK, TypeOK, Places, maskVars
<1>6. MaskSound'
  BY <1>1, <1>2, MaskKept
<1>7. Nested' /\ ~ IsActive(SVC)' /\ ~ Switching'
  BY <1>1, <1>2, BackInThread
<1>8. CpuSound' /\ SavedWhole' /\ RegsKept'
  BY <1>1, <1>4, <1>7 DEF CpuSound, SavedWhole, RegsKept, ThreadRegs
<1> QED
  BY <1>5, <1>6, <1>7, <1>8 DEF HwInv

LEMMA TickSwitchesKeeps ==
  ASSUME UrgentOnly, HwInv, NEW next \in Tasks, TickSwitches(next)
  PROVE  HwInv'
<1>1. /\ Handles(SysTick) /\ next \in live \ {running} /\ running' = next
      /\ UNCHANGED <<lock, pc, reg>>
      /\ store' = running /\ sp' = [sp EXCEPT ![running] = psp]
      /\ load' = next /\ psp' = sp'[next]
      /\ pending' = pending \cup {PendSV} /\ active' = Tail(active)
      /\ UNCHANGED <<live, ctx, regs, svc, pushed, maskVars>>
  BY DEF TickSwitches, Tick, StoreContext, LoadContext
<1>2. /\ active' = <<>> /\ basepri = 0 /\ regs = Place(running)
      /\ ~ IsActive(SVC) /\ ~ Switching
  BY <1>1, HandlerFacts, KernelNumbers DEF Kernels, ThreadRegs
<1>3. running \in live /\ running \in Tasks /\ psp = Place(running)
  BY <1>1, <1>2 DEF HwInv, HwTypeOK, CpuSound
<1>4. /\ \A u \in live : Place(u)' = Place(u)
      /\ \A u \in live \ {running} : sp[u] = Place(u) /\ ctx[u] = Place(u)
  BY <1>1, <1>2 DEF HwInv, SavedWhole, Place, maskVars
<1>5. (\A u \in live : sp'[u] = Place(u)') /\ sp' \in [Tasks -> Values]
  BY <1>1, <1>3, <1>4 DEF HwInv, HwTypeOK
<1>6. HwTypeOK'
  BY <1>1, <1>2, <1>5, BackInThread DEF HwInv, HwTypeOK, TypeOK, maskVars
<1>7. MaskSound'
  BY <1>1, <1>2, MaskKept
<1>8. Nested' /\ ~ IsActive(SVC)' /\ Switching'
  BY <1>1, <1>2, BackInThread
<1>9. CpuSound' /\ SavedWhole'
  <2>1. \A u \in live \ {running} : ctx'[u] = Place(u)'
    BY <1>1, <1>4
  <2>2. psp' = Place(next)'
    BY <1>1, <1>5
  <2>3. CpuSound'
    BY <1>1, <1>3, <1>5, <1>8, <2>1, <2>2 DEF CpuSound
  <2>4. SavedWhole'
    BY <1>1, <1>5, <1>8, <2>1 DEF SavedWhole
  <2> QED
    BY <2>3, <2>4
<1>10. RegsKept'
  BY <1>1, <1>2, <1>3, <1>4, <1>8 DEF RegsKept, ThreadRegs
<1> QED
  BY <1>6, <1>7, <1>8, <1>9, <1>10 DEF HwInv

LEMMA TickStaysKeeps ==
  ASSUME UrgentOnly, HwInv, TickStays
  PROVE  HwInv'
<1>1. /\ Handles(SysTick) /\ active' = Tail(active)
      /\ UNCHANGED <<lockVars, taskVars, cpuVars, pending, pushed, maskVars>>
  BY DEF TickStays
<1>2. /\ active' = <<>> /\ basepri = 0 /\ regs = Place(running) /\ PendSV \notin pending
      /\ ~ IsActive(SVC) /\ ~ Switching
  BY <1>1, HandlerFacts, KernelNumbers DEF Kernels, ThreadRegs
<1>3. HwTypeOK'
  BY <1>1, <1>2, BackInThread
  DEF HwInv, HwTypeOK, TypeOK, lockVars, taskVars, cpuVars, maskVars
<1>4. MaskSound'
  BY <1>1, <1>2, MaskKept DEF taskVars
<1>5. Nested' /\ ~ IsActive(SVC)' /\ ~ Switching'
  BY <1>1, <1>2, BackInThread
<1>6. CpuSound' /\ SavedWhole' /\ RegsKept'
  BY <1>1, <1>2, <1>5
  DEF HwInv, CpuSound, SavedWhole, RegsKept, ThreadRegs, Place, lockVars, taskVars, cpuVars, maskVars
<1> QED
  BY <1>3, <1>4, <1>5, <1>6 DEF HwInv

\* PendSV completes the switch.
LEMMA SwitchRegistersKeeps ==
  ASSUME UrgentOnly, HwInv, SwitchRegisters
  PROVE  HwInv'
<1>1. /\ Handles(PendSV) /\ ctx' = [ctx EXCEPT ![store] = regs] /\ regs' = ctx'[load]
      /\ UNCHANGED <<lockVars, live, sp, psp, store, load, svc, pending, pushed, maskVars>>
  BY DEF SwitchRegisters
<1>2. /\ active' = <<>> /\ basepri = 0 /\ regs = Place(store) /\ PendSV \notin pending
      /\ ~ IsActive(SVC) /\ Switching
  BY <1>1, HandlerFacts, KernelNumbers DEF Kernels, ThreadRegs, SwitchRegisters, ReturnToThread
<1>3. /\ running \in live /\ psp = Place(running) /\ running = load
      /\ store \in live /\ store \in Tasks /\ (store # running => ctx[running] = psp)
  BY <1>2 DEF HwInv, HwTypeOK, CpuSound
<1>4. /\ \A u \in live : Place(u)' = Place(u)
      /\ \A u \in live \ {running} : sp[u] = Place(u) /\ (u # store => ctx[u] = Place(u))
  BY <1>1 DEF HwInv, SavedWhole, Place, lockVars, maskVars
<1>5. (\A u \in live : ctx'[u] = Place(u)') /\ ctx' \in [Tasks -> Values]
  BY <1>1, <1>2, <1>3, <1>4 DEF HwInv, HwTypeOK
<1>6. HwTypeOK'
  <2>1. load \in Tasks
    BY DEF HwInv, HwTypeOK
  <2> QED
    BY <1>1, <1>2, <1>5, <2>1, BackInThread DEF HwInv, HwTypeOK, TypeOK, lockVars, maskVars
<1>7. MaskSound'
  BY <1>1, <1>2, MaskKept
<1>8. Nested' /\ ~ IsActive(SVC)' /\ ~ Switching'
  BY <1>1, <1>2, BackInThread
<1>9. CpuSound' /\ SavedWhole' /\ RegsKept'
  BY <1>1, <1>3, <1>4, <1>5, <1>8 DEF CpuSound, SavedWhole, RegsKept, ThreadRegs, lockVars
<1> QED
  BY <1>6, <1>7, <1>8, <1>9 DEF HwInv

-----------------------------------------------------------------------------
(* Steps of the interrupt controller and of vendor handlers. *)

\* They leave the tasks alone, and with them what the registers should be.
LEMMA TasksKept ==
  ASSUME HwInv, UNCHANGED <<lockVars, taskVars, psp, store, load, svc, maskVars>>,
         IsActive(SVC)' <=> IsActive(SVC), Switching' <=> Switching
  PROVE  CpuSound' /\ SavedWhole' /\ ThreadRegs' = ThreadRegs
BY DEF HwInv, CpuSound, SavedWhole, ThreadRegs, Place, UserPlace, lockVars, taskVars, maskVars

LEMMA PendKeeps ==
  ASSUME UrgentOnly, HwInv, NEW e \in Kernels \cup Isrs, Pend(e)
  PROVE  HwInv'
<1>1. /\ e \in {SysTick} \cup Isrs /\ pending' = pending \cup {e}
      /\ UNCHANGED <<lockVars, taskVars, cpuVars, active, pushed, maskVars>>
  BY DEF Pend
<1>2. PendSV \in pending' <=> PendSV \in pending
  BY <1>1, Levels, KernelNumbers DEF Kernels
<1>3. (\A f : IsActive(f)' <=> IsActive(f)) /\ (Switching' <=> Switching)
  BY <1>1, <1>2 DEF IsActive, Switching
<1>4. CpuSound' /\ SavedWhole' /\ ThreadRegs' = ThreadRegs
  BY <1>1, <1>3, TasksKept DEF cpuVars
<1>5. HwTypeOK'
  BY <1>1 DEF HwInv, HwTypeOK, TypeOK, lockVars, taskVars, cpuVars, maskVars
<1>6. Nested'
  BY <1>1, <1>2, <1>3 DEF HwInv, Nested, Level
<1>7. MaskSound'
  BY <1>1, <1>2, <1>3 DEF HwInv, MaskSound, MaskFollowsTask, lockVars, taskVars, maskVars
<1>8. RegsKept'
  BY <1>1, <1>4 DEF HwInv, RegsKept, IsrPlace, cpuVars
<1> QED
  BY <1>4, <1>5, <1>6, <1>7, <1>8 DEF HwInv

\* SysTick does not come while PendSV is pending: PendSV has the lower number.
LEMMA PendSVFirst ==
  ASSUME UrgentOnly, HwInv, Take(SysTick)
  PROVE  PendSV \notin pending
<1>1. SUFFICES ASSUME PendSV \in pending PROVE FALSE
  OBVIOUS
<1>2. Level(PendSV) = 2 /\ Level(SysTick) = 2 /\ PendSV \notin Isrs /\ SysTick \notin Isrs
  BY Levels DEF Kernels
<1>3. CanNest(PendSV)
  BY <1>1, <1>2 DEF Take, CanNest
<1>4. Rank(SysTick) <= Rank(PendSV)
  BY <1>1, <1>3 DEF Take
<1> QED
  BY <1>2, <1>4 DEF Rank, SysTick, PendSV, SubLow

\* BASEPRI keeps the kernel out unless it is zero.
LEMMA KernelUnmasked ==
  ASSUME UrgentOnly, HwInv, NEW e \in Kernels, CanNest(e)
  PROVE  basepri = 0
<1>1. Level(e) = 2
  BY Levels
<1>2. basepri = 0 \/ basepri = SectionLevel
  BY DEF HwInv, MaskSound, MaskFollowsTask
<1> QED
  BY <1>1, <1>2, HardwareAssumption DEF CanNest, Masked, UrgentOnly, KernelLevel

LEMMA TakeKeeps ==
  ASSUME UrgentOnly, HwInv, NEW e \in Kernels \cup Isrs, Take(e)
  PROVE  HwInv'
<1>1. /\ CanNest(e) /\ e \in pending /\ active' = <<e>> \o active /\ pending' = pending \ {e}
      /\ UNCHANGED <<lockVars, taskVars, cpuVars, pushed, maskVars>>
  BY DEF Take, CanNest
<1>2. /\ active \in Seq(Kernels \cup Isrs) /\ Len(active) \in Nat
      /\ DOMAIN active = 1 .. Len(active) /\ e # SVC
  BY <1>1, KernelNumbers, Levels DEF HwInv, HwTypeOK, Kernels
<1>3. /\ active' \in Seq(Kernels \cup Isrs) /\ DOMAIN active' = 1 .. Len(active) + 1
      /\ active'[1] = e /\ \A k \in DOMAIN active : active'[k + 1] = active[k]
  <2>1. <<e>> \in Seq(Kernels \cup Isrs) /\ Len(<<e>>) = 1 /\ <<e>>[1] = e
    OBVIOUS
  <2>2. /\ active' \in Seq(Kernels \cup Isrs) /\ Len(active') = 1 + Len(active)
        /\ \A i \in 1 .. 1 + Len(active) :
             active'[i] = IF i <= 1 THEN <<e>>[i] ELSE active[i - 1]
    BY <1>1, <1>2, <2>1, ConcatProperties
  <2>3. DOMAIN active' = 1 .. Len(active')
    BY <2>2
  <2>4. active'[1] = e
    BY <1>2, <2>1, <2>2
  <2>5. ASSUME NEW k \in DOMAIN active PROVE active'[k + 1] = active[k]
    <3>1. k \in Int /\ k + 1 \in 1 .. 1 + Len(active) /\ ~ (k + 1 <= 1) /\ (k + 1) - 1 = k
      BY <1>2
    <3> QED
      BY <2>2, <3>1
  <2> QED
    BY <1>2, <2>2, <2>3, <2>4, <2>5
<1>4. \A k \in DOMAIN active' : k = 1 \/ (k - 1 \in DOMAIN active /\ active'[k] = active[k - 1])
  <2> TAKE k \in DOMAIN active'
  <2>1. k \in Int /\ (k = 1 \/ k - 1 \in DOMAIN active)
    BY <1>2, <1>3
  <2>2. (k - 1) + 1 = k
    BY <2>1
  <2> QED
    BY <1>3, <2>1, <2>2
<1>5. \A f : IsActive(f)' <=> f = e \/ IsActive(f)
  <2>1. 1 \in DOMAIN active' /\ \A k \in DOMAIN active : k + 1 \in DOMAIN active'
    BY <1>2, <1>3
  <2> QED
    BY <1>3, <1>4, <2>1 DEF IsActive
<1>6. (Switching' <=> Switching) /\ (IsActive(SVC)' <=> IsActive(SVC))
  BY <1>1, <1>2, <1>5 DEF Switching, IsActive
<1>7. CpuSound' /\ SavedWhole' /\ ThreadRegs' = ThreadRegs
  BY <1>1, <1>6, TasksKept DEF cpuVars
<1>8. HwTypeOK'
  BY <1>1, <1>3 DEF HwInv, HwTypeOK, TypeOK, lockVars, taskVars, cpuVars, maskVars
<1>9. Nested'
  <2>1. ASSUME NEW j \in DOMAIN active', NEW k \in DOMAIN active', j < k
        PROVE  Level(active'[j]) < Level(active'[k])
    <3>1. j \in Int /\ k \in Int /\ k - 1 \in DOMAIN active /\ active'[k] = active[k - 1]
      BY <1>2, <1>3, <1>4, <2>1
    <3>2. CASE j = 1
      BY <1>1, <1>3, <3>1, <3>2 DEF CanNest
    <3>3. CASE j # 1
      <4>1. j - 1 \in DOMAIN active /\ active'[j] = active[j - 1] /\ j - 1 < k - 1
        BY <1>4, <2>1, <3>1, <3>3
      <4> QED
        BY <3>1, <4>1 DEF HwInv, Nested
    <3> QED
      BY <3>2, <3>3
  <2>2. ASSUME PendSV \in pending'
        PROVE  ~ IsActive(SVC)' /\ ~ IsActive(SysTick)' /\ ~ IsActive(PendSV)'
    <3>1. PendSV \in pending /\ e # PendSV
      BY <1>1, <2>2
    <3>2. e # SysTick
      BY <3>1, PendSVFirst
    <3> QED
      BY <1>2, <1>5, <3>1, <3>2 DEF HwInv, Nested
  <2>3. \A x : Level(x)' = Level(x)
    BY DEF Level
  <2> QED
    BY <2>1, <2>2, <2>3 DEF Nested
<1>10. MaskSound'
  <2>1. e \in Kernels => basepri = 0
    BY <1>1, KernelUnmasked
  <2>2. \A f \in Kernels : IsActive(f)' => basepri = 0
    BY <1>5, <2>1 DEF HwInv, MaskSound
  <2> QED
    BY <1>1, <2>2 DEF HwInv, MaskSound, MaskFollowsTask, lockVars, taskVars, maskVars
<1>11. RegsKept'
  <2>1. regs' = regs /\ pushed' = pushed
    BY <1>1 DEF cpuVars
  <2>2. CASE regs = ThreadRegs
    BY <1>7, <2>1, <2>2 DEF RegsKept
  <2>3. ASSUME NEW j \in DOMAIN active, active[j] \in Isrs, regs = IsrPlace(active[j]),
               pushed[active[j]] = ThreadRegs
        PROVE  RegsKept'
    <3>1. j + 1 \in DOMAIN active' /\ active'[j + 1] = active[j]
      BY <1>2, <1>3
    <3> QED
      BY <1>7, <2>1, <2>3, <3>1 DEF RegsKept, IsrPlace
  <2>4. ASSUME NEW j \in DOMAIN active, active[j] \in Isrs, regs = IsrPlace(active[j]),
               NEW k \in DOMAIN active, j < k, active[k] \in Isrs,
               pushed[active[j]] = IsrPlace(active[k]), pushed[active[k]] = ThreadRegs
        PROVE  RegsKept'
    <3>1. /\ j + 1 \in DOMAIN active' /\ active'[j + 1] = active[j]
          /\ k + 1 \in DOMAIN active' /\ active'[k + 1] = active[k] /\ j + 1 < k + 1
      BY <1>2, <1>3, <2>4
    <3> QED
      BY <1>7, <2>1, <2>4, <3>1 DEF RegsKept, IsrPlace
  <2> QED
    BY <2>2, <2>3, <2>4 DEF HwInv, RegsKept
<1> QED
  BY <1>7, <1>8, <1>9, <1>10, <1>11 DEF HwInv

\* The active exceptions while a vendor handler is the innermost.
LEMMA IsrHandles ==
  ASSUME UrgentOnly, HwInv, NEW i \in Isrs, Handles(i)
  PROVE  /\ active \in Seq(Kernels \cup Isrs) /\ DOMAIN active = 1 .. Len(active)
         /\ Len(active) \in 1 .. 2 /\ active[1] = i
         /\ (2 \in DOMAIN active => active[2] # i)
         /\ Tail(active) \in Seq(Kernels \cup Isrs)
         /\ DOMAIN Tail(active) = 1 .. Len(active) - 1
         /\ (2 \in DOMAIN active => 1 \in DOMAIN Tail(active) /\ Tail(active)[1] = active[2])
         /\ i \notin Kernels
<1>1. /\ active \in Seq(Kernels \cup Isrs) /\ active # <<>> /\ active[1] = i
      /\ DOMAIN active = 1 .. Len(active)
  BY DEF HwInv, HwTypeOK, Handles
<1>2. Len(active) \in 1 .. 2
  <2>1. Len(active) \in Nat \ {0}
    BY <1>1, EmptySeq
  <2> QED
    BY <2>1, AtMostTwo DEF HwInv
<1>3. ASSUME 2 \in DOMAIN active PROVE active[2] # i
  <2>1. Level(active[1]) < Level(active[2])
    BY <1>1, <1>2, <1>3 DEF HwInv, Nested
  <2>2. Level(active[1]) \in 1 .. 2
    BY <1>1, Levels
  <2> QED
    BY <1>1, <2>1, <2>2
<1>4. /\ Tail(active) \in Seq(Kernels \cup Isrs) /\ Len(Tail(active)) = Len(active) - 1
      /\ \A k \in 1 .. Len(Tail(active)) : Tail(active)[k] = active[k + 1]
  BY <1>1, HeadTailProperties
<1>5. DOMAIN Tail(active) = 1 .. Len(active) - 1
  BY <1>4
<1>6. ASSUME 2 \in DOMAIN active
      PROVE  1 \in DOMAIN Tail(active) /\ Tail(active)[1] = active[2]
  <2>1. Len(active) = 2
    BY <1>1, <1>2, <1>6
  <2> QED
    BY <1>4, <1>5, <2>1
<1>7. i \notin Kernels
  BY Levels
<1> QED
  BY <1>1, <1>2, <1>3, <1>4, <1>5, <1>6, <1>7

LEMMA IsrUsesKeeps ==
  ASSUME UrgentOnly, HwInv, NEW i \in Isrs, IsrUses(i)
  PROVE  HwInv'
<1>1. /\ Handles(i) /\ regs[1] # i /\ pushed' = [pushed EXCEPT ![i] = regs]
      /\ regs' = IsrPlace(i)
      /\ UNCHANGED <<lockVars, taskVars, psp, store, load, svc, active, pending, maskVars>>
  BY DEF IsrUses, IsrPlace
<1>2. (\A f : IsActive(f)' <=> IsActive(f)) /\ (Switching' <=> Switching)
  BY <1>1 DEF IsActive, Switching
<1>3. CpuSound' /\ SavedWhole' /\ ThreadRegs' = ThreadRegs
  BY <1>1, <1>2, TasksKept
<1>4. HwTypeOK'
  <2>1. IsrPlace(i) \in Values
    BY DEF IsrPlace, Values, Places, Sections
  <2>2. pushed' \in [Isrs -> Values]
    BY <1>1 DEF HwInv, HwTypeOK
  <2> QED
    BY <1>1, <2>1, <2>2 DEF HwInv, HwTypeOK, TypeOK, lockVars, taskVars, maskVars
<1>5. Nested'
  BY <1>1, <1>2 DEF HwInv, Nested, Level
<1>6. MaskSound'
  BY <1>1, <1>2 DEF HwInv, MaskSound, MaskFollowsTask, lockVars, taskVars, maskVars
<1>7. RegsKept'
  <2>1. /\ pushed'[i] = regs /\ \A k \in Isrs \ {i} : pushed'[k] = pushed[k]
        /\ active' = active
    BY <1>1 DEF HwInv, HwTypeOK
  <2>2. 1 \in DOMAIN active /\ active[1] = i /\ DOMAIN active \subseteq 1 .. 2
    BY <1>1, IsrHandles
  <2>3. CASE regs = ThreadRegs
    BY <1>1, <1>3, <2>1, <2>2, <2>3 DEF RegsKept
  <2>4. ASSUME NEW j \in DOMAIN active, active[j] \in Isrs, regs = IsrPlace(active[j]),
               pushed[active[j]] = ThreadRegs
        PROVE  RegsKept'
    <3>1. active[j] # i
      BY <1>1, <2>4 DEF IsrPlace
    <3>2. 1 < j
      BY <2>2, <3>1
    <3> QED
      BY <1>1, <1>3, <2>1, <2>2, <2>4, <3>1, <3>2 DEF RegsKept, IsrPlace
  <2>5. ASSUME NEW j \in DOMAIN active, active[j] \in Isrs, regs = IsrPlace(active[j]),
               NEW k \in DOMAIN active, j < k
        PROVE  FALSE
    <3>1. active[j] # i
      BY <1>1, <2>5 DEF IsrPlace
    <3> QED
      BY <2>2, <2>5, <3>1
  <2> QED
    BY <2>3, <2>4, <2>5 DEF HwInv, RegsKept
<1> QED
  BY <1>3, <1>4, <1>5, <1>6, <1>7 DEF HwInv

LEMMA IsrReturnsKeeps ==
  ASSUME UrgentOnly, HwInv, NEW i \in Isrs, IsrReturns(i)
  PROVE  HwInv'
<1>1. /\ Handles(i) /\ regs' = (IF regs[1] = i THEN pushed[i] ELSE regs)
      /\ pushed' = [pushed EXCEPT ![i] = NoPlace] /\ active' = Tail(active)
      /\ UNCHANGED <<lockVars, taskVars, psp, store, load, svc, pending, maskVars>>
  BY DEF IsrReturns
<1>2. /\ active \in Seq(Kernels \cup Isrs) /\ DOMAIN active = 1 .. Len(active)
      /\ Len(active) \in 1 .. 2 /\ active[1] = i
      /\ (2 \in DOMAIN active => active[2] # i)
      /\ active' \in Seq(Kernels \cup Isrs)
      /\ DOMAIN active' = 1 .. Len(active) - 1
      /\ (2 \in DOMAIN active => 1 \in DOMAIN active' /\ active'[1] = active[2])
      /\ i \notin Kernels
  BY <1>1, IsrHandles
<1>3. \A f \in Kernels : IsActive(f)' <=> IsActive(f)
  <2>1. DOMAIN active' \subseteq {1} /\ DOMAIN active \subseteq {1, 2}
    BY <1>2
  <2>2. 1 \in DOMAIN active' => 2 \in DOMAIN active
    BY <1>2
  <2> QED
    BY <1>2, <2>1, <2>2 DEF IsActive
<1>4. (Switching' <=> Switching) /\ (IsActive(SVC)' <=> IsActive(SVC))
  BY <1>1, <1>3 DEF Switching, IsActive, Kernels
<1>5. CpuSound' /\ SavedWhole' /\ ThreadRegs' = ThreadRegs
  BY <1>1, <1>4, TasksKept
<1>6. HwTypeOK'
  <2>1. NoPlace \in Values
    BY DEF NoPlace, Values, Places, Sections
  <2>2. pushed' \in [Isrs -> Values] /\ regs' \in Values
    BY <1>1, <2>1 DEF HwInv, HwTypeOK
  <2> QED
    BY <1>1, <1>2, <2>2 DEF HwInv, HwTypeOK, TypeOK, lockVars, taskVars, maskVars
<1>7. Nested'
  <2>1. \A j, k \in DOMAIN active' : ~ (j < k)
    BY <1>2
  <2> QED
    BY <1>1, <1>3, <2>1 DEF HwInv, Nested, Kernels
<1>8. MaskSound'
  BY <1>1, <1>3 DEF HwInv, MaskSound, MaskFollowsTask, lockVars, taskVars, maskVars
<1>9. RegsKept'
  <2>1. \A k \in Isrs \ {i} : pushed'[k] = pushed[k]
    BY <1>1 DEF HwInv, HwTypeOK
  <2>2. DOMAIN active \subseteq {1, 2}
    BY <1>2
  <2>3. CASE regs = ThreadRegs
    <3>1. ThreadRegs[1] \notin Isrs
      BY HardwareAssumption
      DEF ThreadRegs, UserPlace, Place, HwInv, HwTypeOK, TypeOK
    <3> QED
      BY <1>1, <1>5, <2>3, <3>1 DEF RegsKept
  <2>4. ASSUME NEW j \in DOMAIN active, active[j] \in Isrs, regs = IsrPlace(active[j]),
               pushed[active[j]] = ThreadRegs
        PROVE  RegsKept'
    <3>1. CASE j = 1
      BY <1>1, <1>2, <1>5, <2>4, <3>1 DEF RegsKept, IsrPlace
    <3>2. CASE j = 2
      <4>1. /\ active[2] # i /\ 1 \in DOMAIN active' /\ active'[1] = active[2]
            /\ regs' = IsrPlace(active[2]) /\ pushed'[active[2]] = ThreadRegs
        BY <1>1, <1>2, <2>1, <2>4, <3>2 DEF IsrPlace
      <4> QED
        BY <1>5, <2>4, <3>2, <4>1 DEF RegsKept, IsrPlace
    <3> QED
      BY <2>2, <3>1, <3>2
  <2>5. ASSUME NEW j \in DOMAIN active, active[j] \in Isrs, regs = IsrPlace(active[j]),
               NEW k \in DOMAIN active, j < k, active[k] \in Isrs,
               pushed[active[j]] = IsrPlace(active[k]), pushed[active[k]] = ThreadRegs
        PROVE  RegsKept'
    <3>1. j = 1 /\ k = 2
      BY <2>2, <2>5
    <3>2. /\ active[2] # i /\ 1 \in DOMAIN active' /\ active'[1] = active[2]
          /\ regs' = IsrPlace(active[2]) /\ pushed'[active[2]] = ThreadRegs
      BY <1>1, <1>2, <2>1, <2>5, <3>1 DEF IsrPlace
    <3> QED
      BY <1>5, <2>5, <3>1, <3>2 DEF RegsKept, IsrPlace
  <2> QED
    BY <2>3, <2>4, <2>5 DEF HwInv, RegsKept
<1> QED
  BY <1>5, <1>6, <1>7, <1>8, <1>9 DEF HwInv

-----------------------------------------------------------------------------
(* The theorems. *)

LEMMA NextHwInv ==
  ASSUME UrgentOnly, HwInv, [HwNext]_hwVars
  PROVE  HwInv'
<1>1. ASSUME NEW e \in Kernels \cup Isrs, Pend(e) \/ Take(e) PROVE HwInv'
  BY <1>1, PendKeeps, TakeKeeps
<1>2. ASSUME NEW t \in Tasks, LockStep(t) PROVE HwInv'
  BY <1>2, LockStepKeeps
<1>3. ASSUME NEW t \in Tasks, Yield(t) \/ Exit(t) PROVE HwInv'
  BY <1>3, SyscallKeeps DEF Yield, Exit
<1>4. ASSUME NEW t \in Tasks, SaveMask(t) \/ RaiseMask(t) \/ RestoreMask(t) PROVE HwInv'
  BY <1>4, SectionKeeps
<1>5. ASSUME NEW t \in Tasks, NEW u \in Tasks, Terminate(t, u) \/ Create(t, u) PROVE HwInv'
  BY <1>5, TerminateKeeps, CreateKeeps
<1>6. ASSUME NEW t \in Tasks, SwitchContext(t) \/ LoadNextTask(t) \/ TickSwitches(t)
      PROVE  HwInv'
  BY <1>6, SwitchContextKeeps, LoadNextTaskKeeps, TickSwitchesKeeps
<1>7. ASSUME TickStays \/ SwitchRegisters PROVE HwInv'
  BY <1>7, TickStaysKeeps, SwitchRegistersKeeps
<1>8. ASSUME NEW i \in Isrs, IsrUses(i) \/ IsrReturns(i) PROVE HwInv'
  BY <1>8, IsrUsesKeeps, IsrReturnsKeeps
<1>9. ASSUME UNCHANGED hwVars PROVE HwInv'
  <2>1. /\ UNCHANGED <<lock, running, pc, reg, live, sp, ctx, psp, regs, store, load, svc>>
        /\ UNCHANGED <<active, pending, pushed, basepri, section, mask>>
    BY <1>9 DEF hwVars, lockVars, taskVars, cpuVars, nvicVars, maskVars
  <2>2. HwTypeOK'
    BY <2>1 DEF HwInv, HwTypeOK, TypeOK
  <2>3. (\A f : IsActive(f)' <=> IsActive(f)) /\ (Switching' <=> Switching)
    BY <2>1 DEF IsActive, Switching
  <2>4. CpuSound' /\ SavedWhole' /\ ThreadRegs' = ThreadRegs
    BY <2>1, <2>3, TasksKept DEF lockVars, taskVars, maskVars
  <2>5. Nested' /\ MaskSound'
    BY <2>1, <2>3 DEF HwInv, Nested, Level, MaskSound, MaskFollowsTask
  <2>6. RegsKept'
    BY <2>1, <2>4 DEF HwInv, RegsKept, IsrPlace
  <2> QED
    BY <2>2, <2>4, <2>5, <2>6 DEF HwInv
<1> QED
  BY <1>1, <1>2, <1>3, <1>4, <1>5, <1>6, <1>7, <1>8, <1>9 DEF HwNext

\* With urgent interrupts only, the inductive invariant always holds.
THEOREM HardwareSound == ASSUME UrgentOnly PROVE HwSpec => []HwInv
<1>1. HwInit => HwInv
  BY InitHwInv
<1>2. HwInv /\ [HwNext]_hwVars => HwInv'
  BY NextHwInv
<1> QED
  BY <1>1, <1>2, PTL DEF HwSpec

\* A task that executes has its own registers and stack as it left them.
THEOREM TasksRunWhole == ASSUME UrgentOnly PROVE HwSpec => []RunsWhole
<1>1. HwInv => RunsWhole
  BY DEF HwInv, RunsWhole, CpuSound, RegsKept, ThreadRegs, Switching, IsActive
<1> QED
  BY <1>1, HardwareSound, PTL

\* What a task that is switched out left is where the switch back finds it.
THEOREM TasksSavedWhole == ASSUME UrgentOnly PROVE HwSpec => []SavedWhole
<1>1. HwInv => SavedWhole
  BY DEF HwInv
<1> QED
  BY <1>1, HardwareSound, PTL

\* No task runs with the mask of another's section or is switched out of one.
THEOREM MasksFollowTasks == ASSUME UrgentOnly PROVE HwSpec => []MaskFollowsTask
<1>1. HwInv => MaskFollowsTask
  BY DEF HwInv, MaskSound
<1> QED
  BY <1>1, HardwareSound, PTL

\* No switch returns to thread mode while an interrupt handler is active.
THEOREM HandlersAlwaysFinish == ASSUME UrgentOnly PROVE HwSpec => []HandlersFinish
<1>1. ASSUME HwInv PROVE HandlersFinish
  <2>1. Fault \notin Kernels \cup Isrs
    BY HardwareAssumption DEF Fault, Kernels, SVC, PendSV, SysTick
  <2>2. \A k \in DOMAIN active : active[k] \in Kernels \cup Isrs
    BY <1>1 DEF HwInv, HwTypeOK
  <2> QED
    BY <2>1, <2>2 DEF HandlersFinish
<1> QED
  BY <1>1, HardwareSound, PTL
=============================================================================
