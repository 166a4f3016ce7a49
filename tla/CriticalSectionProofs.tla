------------------------ MODULE CriticalSectionProofs ------------------------
(***************************************************************************)
(* Mutual exclusion of the software critical section for every number of   *)
(* tasks, every m_spinLock, every interleaving with the handlers and every *)
(* use of the API around it, the use of event handles that outlived their  *)
(* event among them.  The argument needs nothing of the scheduler but the  *)
(* kernel lock.  The last part says what the pool of events still promises *)
(* the section when handles outlive their events.                          *)
(***************************************************************************)
EXTENDS CriticalSection, KernelProofs

Places == {"out", "test", "spun", "wait", "in", "failed"}

\* What a call of the section found when it took the lock still holds.
SectionCallSound ==
  /\ call.op \in SectionOps => svc = "none"
  /\ call.op = "sectionInit" => ~ Initialised
  /\ call.op = "sectionDeinit" => Initialised /\ Unused
  /\ call.op \in {"sectionTest", "sectionLeave"} => Initialised /\ exec \in Task
  /\ call.op = "sectionTest" => at[exec] = "test"
  /\ call.op = "sectionLeave" => at[exec] = "in"

SectionInv ==
  /\ LockDiscipline
  /\ at \in [Task -> Places]
  /\ SectionCallSound
  /\ ~ Initialised => Unused
  /\ MutualExclusion

-------------------------------------------------------------------------------
(* Steps that leave the section alone. *)

\* A step keeps the call under way with its context, or it is no call of the
\* section that is under way afterwards.
KeepsCall == UNCHANGED <<call, svc, exec>> \/ call'.op \notin SectionOps

\* Taking the lock for an API call of the kernel.
LEMMA UserCallTakesLock ==
  ASSUME LockDiscipline, Calls
  PROVE  LockDiscipline' /\ KeepsCall
<1> DEFINE Takes == /\ InUserCode /\ call'.op \notin SectionOps \cup {"none"}
                    /\ lock' = lock + 1 /\ UNCHANGED <<svc, scan>>
<1> USE DEF SectionOps, NoCall, TaskMayCall, MainMayCall, Enter, cpuVars
<1>1. ASSUME CallStart PROVE Takes
  BY <1>1 DEF CallStart
<1>2. ASSUME NEW p \in Priorities, NEW s \in BOOLEAN, CallCreate(p, s) PROVE Takes
  BY <1>2 DEF CallCreate
<1>3. ASSUME NEW op \in {"terminate", "suspend", "resume"}, NEW t \in Task, CallOnTask(op, t)
      PROVE  Takes
  BY <1>3 DEF CallOnTask
<1>4. ASSUME NEW d \in SleepTimes, CallSleep(d) PROVE Takes
  BY <1>4 DEF CallSleep
<1>5. ASSUME NEW c \in Conditions, CallWait(c) PROVE Takes
  BY <1>5 DEF CallWait
<1>6. ASSUME NEW op \in TimerOps, NEW x \in Timers, CallTimer(op, x) PROVE Takes
  BY <1>6 DEF CallTimer, TimerOps
<1>7. ASSUME CallResult PROVE Takes
  BY <1>7 DEF CallResult
<1>8. ASSUME CallCreateTimer PROVE Takes
  BY <1>8 DEF CallCreateTimer
<1>9. Takes
  BY <1>1, <1>2, <1>3, <1>4, <1>5, <1>6, <1>7, <1>8 DEF Calls
<1>10. call' # NoCall
  BY <1>9
<1> QED
  BY <1>9, <1>10 DEF LockDiscipline, InUserCode, KeepsCall

\* A body that releases the lock or asks for a switch.
LEMMA BodyEndsCall ==
  ASSUME LockDiscipline, NEW op, op \notin SectionOps \cup {"none"}, Body(op),
         Leave \/ Syscall("ExecuteContextSwitch") \/ Syscall("LoadNextTask"),
         UNCHANGED <<exec, scan>>
  PROVE  LockDiscipline' /\ KeepsCall
BY DEF Body, Leave, Syscall, LockDiscipline, KeepsCall, NoCall, SectionOps

\* The bodies of the API calls of the kernel.
LEMMA KernelBodyKeepsLock ==
  ASSUME LockDiscipline, Bodies
  PROVE  LockDiscipline' /\ KeepsCall
<1> DEFINE Ends(op) == /\ Body(op)
                       /\ Leave \/ Syscall("ExecuteContextSwitch") \/ Syscall("LoadNextTask")
                       /\ UNCHANGED <<exec, scan>>
           KernelOps == {"start", "create", "terminate", "suspend", "resume", "sleep", "wait",
                    "result", "timerCreate"} \cup TimerOps
<1>1. ASSUME StartBody PROVE Ends("start")
  BY <1>1 DEF StartBody
<1>2. ASSUME CreateRefused \/ CreateBody PROVE Ends("create")
  BY <1>2 DEF CreateRefused, CreateBody, cpuVars
<1>3. ASSUME TerminateBody PROVE Ends("terminate")
  BY <1>3 DEF TerminateBody, cpuVars
<1>4. ASSUME SuspendBody PROVE Ends("suspend")
  BY <1>4 DEF SuspendBody, cpuVars
<1>5. ASSUME ResumeRefused \/ ResumeBody PROVE Ends("resume")
  BY <1>5 DEF ResumeRefused, ResumeBody, cpuVars
<1>6. ASSUME SleepBody PROVE Ends("sleep")
  BY <1>6 DEF SleepBody, cpuVars
<1>7. ASSUME WaitBody PROVE Ends("wait")
  BY <1>7 DEF WaitBody
<1>8. ASSUME ResultBody PROVE Ends("result")
  BY <1>8 DEF ResultBody
<1>9. ASSUME TimerBodies PROVE \E op \in KernelOps : Ends(op)
  BY <1>9, TimerBodiesFacts DEF cpuVars
<1>10. \E op \in KernelOps : Ends(op)
  BY <1>1, <1>2, <1>3, <1>4, <1>5, <1>6, <1>7, <1>8, <1>9, Zenon DEF Bodies
<1>11. PICK op \in KernelOps : Ends(op)
  BY <1>10
<1>12. op \notin SectionOps \cup {"none"}
  BY DEF TimerOps, SectionOps
<1> QED
  BY <1>11, <1>12, BodyEndsCall

\* The SVC handler and the SysTick handler.
LEMMA HandlerKeepsLock ==
  ASSUME LockDiscipline, HandleSvc \/ Ticks \/ TickSteps
  PROVE  LockDiscipline' /\ KeepsCall
<1>1. CASE HandleSvc
  BY <1>1 DEF HandleSvc, LockDiscipline, KeepsCall, NoCall, SectionOps
<1>2. CASE TickLocked
  BY <1>2 DEF TickLocked, LockDiscipline, KeepsCall, callVars, cpuVars
<1>3. CASE TickBegin
  <2>0. lock = 0
    BY <1>3 DEF TickBegin
  <2>1. call = NoCall
    BY <2>0 DEF LockDiscipline
  <2> QED
    BY <1>3, <2>1 DEF TickBegin, LockDiscipline, KeepsCall, callVars
<1>4. CASE TickSteps
  <2>1. scan # Thread /\ UNCHANGED callVars
    <3>1. \A i \in Slot \cup {MaxTasks} : i # Thread
      BY KernelAssumption DEF Slot, Thread
    <3>2. (scan \in Slot \/ scan = MaxTasks) /\ UNCHANGED callVars
      BY <1>4 DEF TickSteps, SlotPasses, SlotExpires, SlotSignaled, TickEndsSlice, TickEnds
    <3> QED
      BY <3>1, <3>2
  <2>2. call = NoCall
    BY <2>1 DEF LockDiscipline
  <2> QED
    BY <2>1, <2>2 DEF LockDiscipline, KeepsCall, callVars, NoCall, SectionOps
<1> QED
  BY <1>1, <1>2, <1>3, <1>4 DEF Ticks

\* Work on the event pool.
LEMMA PoolStepKeepsLock ==
  ASSUME LockDiscipline, PoolStep
  PROVE  LockDiscipline' /\ KeepsCall /\ UNCHANGED sectionVars
BY DEF PoolStep, LockDiscipline, KeepsCall, callVars, cpuVars

LEMMA SignalKeepsLock ==
  ASSUME LockDiscipline, NEW h, Signal(h)
  PROVE  LockDiscipline' /\ KeepsCall /\ UNCHANGED sectionVars
BY DEF Signal, SetEvent, ResetEvent, LockDiscipline, KeepsCall, callVars, cpuVars

\* A step of that kind keeps the invariant.
LEMMA QuietStep ==
  ASSUME SectionInv, LockDiscipline', KeepsCall, UNCHANGED sectionVars
  PROVE  SectionInv'
<1>1. UNCHANGED <<at, Inside, Initialised, Unused, lockCount>>
  BY DEF sectionVars, Inside, Initialised, Unused
<1>2. SectionCallSound'
  BY <1>1 DEF SectionInv, SectionCallSound, KeepsCall, SectionOps
<1> QED
  BY <1>1, <1>2 DEF SectionInv, MutualExclusion

-------------------------------------------------------------------------------
(* Steps of the section. *)

\* What a move of one task does to the set of those inside.
LEMMA MovesFacts ==
  ASSUME at \in [Task -> Places], NEW t \in Task, NEW place \in Places, Moves(t, place)
  PROVE  /\ at' \in [Task -> Places] /\ at'[t] = place
         /\ Inside' = IF place = "in" THEN Inside \cup {t} ELSE Inside \ {t}
BY DEF Moves, Inside

\* A move outside of any call of the section, neither in nor out.
LEMMA OutsideMove ==
  ASSUME SectionInv, NEW t \in Task, NEW place \in Places \ {"in"}, at[t] # "in",
         Initialised \/ at[t] # "out", Moves(t, place), LockDiscipline', call'.op \notin SectionOps,
         UNCHANGED <<lockCount, sectionEvent>>
  PROVE  SectionInv'
<1>1. at' \in [Task -> Places] /\ Inside' = Inside
  BY MovesFacts DEF SectionInv, Inside
<1>2. SectionCallSound'
  BY DEF SectionCallSound, SectionOps
<1>3. Initialised'
  BY DEF SectionInv, Unused, Initialised
<1> QED
  BY <1>1, <1>2, <1>3 DEF SectionInv, MutualExclusion, Initialised

\* A call of the section takes the lock.
LEMMA SectionCall ==
  ASSUME LockDiscipline, InUserCode, NEW op \in SectionOps, Enter(InCall(op))
  PROVE  LockDiscipline' /\ call'.op = op /\ svc' = "none" /\ exec' = exec
<1>1. call'.op = op /\ call' # NoCall /\ scan = Thread
  BY DEF Enter, InCall, NoCall, SectionOps, InUserCode
<1> QED
  BY <1>1 DEF Enter, LockDiscipline, InUserCode, cpuVars

\* A body of the section releases it.
LEMMA SectionBody ==
  ASSUME LockDiscipline, NEW op \in SectionOps, Body(op), Leave, UNCHANGED cpuVars
  PROVE  LockDiscipline' /\ call'.op \notin SectionOps /\ exec' = exec
BY DEF LockDiscipline, SectionOps, Body, Leave, NoCall, cpuVars

LEMMA InitSection == CsInit => SectionInv
BY DEF CsInit, Init, SectionInv, LockDiscipline, SectionCallSound, NoCall, SectionOps, Places,
       Inside, Unused, Initialised, MutualExclusion, NoEvent, Thread

\* Every step of the program keeps the invariant.
LEMMA SectionNext ==
  ASSUME SectionInv, [CsNext]_csVars
  PROVE  SectionInv'
<1>0. LockDiscipline /\ at \in [Task -> Places] /\ (InUserCode => svc = "none")
  BY DEF SectionInv, LockDiscipline, InUserCode
<1>1. CASE UserCalls
  BY <1>0, <1>1, UserCallTakesLock, QuietStep DEF UserCalls
<1>2. CASE KernelBodies
  BY <1>0, <1>2, KernelBodyKeepsLock, QuietStep DEF KernelBodies, Bodies
<1>3. CASE Handlers
  BY <1>0, <1>3, HandlerKeepsLock, QuietStep DEF Handlers
<1>4. CASE InitRefused
  <2>1. LockDiscipline' /\ call'.op \notin SectionOps
    BY <1>0, <1>4, SectionBody DEF InitRefused, SectionOps
  <2> QED
    BY <1>4, <2>1, QuietStep DEF InitRefused, KeepsCall
<1>5. CASE InitBody
  <2>1. /\ LockDiscipline' /\ call'.op \notin SectionOps
        /\ lockCount' = 0 /\ UNCHANGED at /\ Unused
    BY <1>0, <1>5, SectionBody DEF InitBody, SectionOps, SectionInv, SectionCallSound, Body
  <2>2. Inside' = {} /\ Unused'
    BY <2>1 DEF Inside, Unused
  <2>3. SectionCallSound'
    BY <2>1 DEF SectionCallSound, SectionOps
  <2> QED
    BY <1>0, <2>1, <2>2, <2>3 DEF SectionInv, MutualExclusion
<1>6. CASE DeinitBody
  <2>1. /\ LockDiscipline' /\ call'.op \notin SectionOps
        /\ sectionEvent' = NoEvent /\ UNCHANGED at /\ Unused
    BY <1>0, <1>6, SectionBody DEF DeinitBody, SectionOps, SectionInv, SectionCallSound, Body
  <2>2. Inside' = {} /\ Unused'
    BY <2>1 DEF Inside, Unused
  <2>3. SectionCallSound'
    BY <2>1 DEF SectionCallSound, SectionOps
  <2> QED
    BY <1>0, <2>1, <2>2, <2>3 DEF SectionInv, MutualExclusion, Initialised
<1>7. CASE TestBody
  <2>1. /\ LockDiscipline' /\ call'.op \notin SectionOps /\ UNCHANGED sectionEvent
        /\ Initialised /\ exec \in Task /\ at[exec] = "test"
    BY <1>0, <1>7, SectionBody DEF TestBody, SectionOps, SectionInv, SectionCallSound, Body
  <2>2. CASE lockCount = 0
    <3>1. lockCount' = 1 /\ Moves(exec, "in") /\ Inside = {}
      BY <1>7, <2>1, <2>2 DEF TestBody, SectionInv, MutualExclusion
    <3>2. at' \in [Task -> Places] /\ Inside' = {exec}
      BY <1>0, <2>1, <3>1, MovesFacts DEF Places
    <3>3. SectionCallSound'
      BY <2>1 DEF SectionCallSound, SectionOps
    <3> QED
      BY <2>1, <3>1, <3>2, <3>3 DEF SectionInv, MutualExclusion, Initialised
  <2>3. CASE lockCount # 0
    <3>1. PICK place \in {"test", "spun"} : Moves(exec, place)
      BY <1>7, <2>3 DEF TestBody
    <3>2. UNCHANGED <<lockCount, sectionEvent>>
      BY <1>7, <2>3 DEF TestBody
    <3> QED
      BY <2>1, <3>1, <3>2, OutsideMove DEF Places
  <2> QED
    BY <2>2, <2>3
<1>8. CASE WaitFails
  <2>1. LockDiscipline' /\ KeepsCall /\ call'.op \notin SectionOps
    <3>1. LockDiscipline' /\ KeepsCall
      BY <1>0, <1>8, KernelBodyKeepsLock DEF WaitFails, Bodies
    <3>2. call'.op \notin SectionOps
      BY <1>8 DEF WaitFails, WaitBody, Body, Leave, Syscall, NoCall, SectionOps
    <3> QED
      BY <3>1, <3>2
  <2>2. CASE FreeSlots = {} /\ at[exec] = "wait" /\ exec \in Task
    BY <1>8, <2>1, <2>2, OutsideMove DEF WaitFails, Moves, Places
  <2>3. CASE ~ (FreeSlots = {} /\ at[exec] = "wait" /\ exec \in Task)
    BY <1>0, <1>8, <2>1, <2>3, QuietStep DEF WaitFails, sectionVars
  <2> QED
    BY <2>2, <2>3
<1>9. CASE Woken
  <2>1. LockDiscipline' /\ KeepsCall /\ call'.op \notin SectionOps
    <3>1. LockDiscipline' /\ KeepsCall
      BY <1>0, <1>9, KernelBodyKeepsLock DEF Woken, Bodies
    <3>2. call'.op \notin SectionOps
      BY <1>9 DEF Woken, ResultBody, Leave, NoCall, SectionOps
    <3> QED
      BY <3>1, <3>2
  <2>2. CASE at[exec] = "wait" /\ exec \in Task
    <3>1. PICK place \in {"test", "failed"} : Moves(exec, place)
      BY <1>9, <2>2 DEF Woken, Moves
    <3> QED
      BY <1>9, <2>1, <2>2, <3>1, OutsideMove DEF Woken, Places
  <2>3. CASE ~ (at[exec] = "wait" /\ exec \in Task)
    BY <1>0, <1>9, <2>1, <2>3, QuietStep DEF Woken, sectionVars
  <2> QED
    BY <2>2, <2>3
<1>10. CASE LeaveBody
  <2>1. /\ LockDiscipline' /\ call'.op \notin SectionOps /\ UNCHANGED sectionEvent
        /\ Initialised /\ exec \in Task /\ exec \in Inside
    BY <1>0, <1>10, SectionBody
    DEF LeaveBody, SectionOps, SectionInv, SectionCallSound, Body, Inside
  <2>2. lockCount' = 0 /\ Moves(exec, "out") /\ Inside = {exec}
    <3>1. lockCount' = lockCount - 1 /\ Moves(exec, "out")
      BY <1>10 DEF LeaveBody
    <3>2. lockCount = 1 /\ Inside = {exec}
      BY <2>1 DEF SectionInv, MutualExclusion
    <3> QED
      BY <3>1, <3>2
  <2>3. at' \in [Task -> Places] /\ Inside' = {}
    BY <1>0, <2>1, <2>2, MovesFacts DEF Places
  <2>4. SectionCallSound'
    BY <2>1 DEF SectionCallSound, SectionOps
  <2> QED
    BY <2>1, <2>2, <2>3, <2>4 DEF SectionInv, MutualExclusion, Initialised
<1>11. CASE CallInit
  <2>1. LockDiscipline' /\ call'.op = "sectionInit" /\ svc' = "none"
    BY <1>0, <1>11, SectionCall DEF CallInit, SectionOps
  <2>2. ~ Initialised /\ UNCHANGED sectionVars
    BY <1>11 DEF CallInit
  <2> QED
    BY <2>1, <2>2
    DEF SectionInv, SectionCallSound, Initialised, Inside, Unused, MutualExclusion, sectionVars
<1>12. CASE CallDeinit
  <2>1. LockDiscipline' /\ call'.op = "sectionDeinit" /\ svc' = "none"
    BY <1>0, <1>12, SectionCall DEF CallDeinit, SectionOps
  <2>2. Initialised /\ Unused /\ UNCHANGED sectionVars
    BY <1>12 DEF CallDeinit
  <2> QED
    BY <2>1, <2>2
    DEF SectionInv, SectionCallSound, Initialised, Inside, Unused, MutualExclusion, sectionVars
<1>13. ASSUME NEW t \in Task, Begin(t) PROVE SectionInv'
  <2>1. LockDiscipline' /\ call'.op \notin SectionOps
    BY <1>0, <1>13
    DEF Begin, Goes, InUserCode, vars, callVars, cpuVars, LockDiscipline, NoCall, SectionOps
  <2> QED
    BY <1>13, <2>1, OutsideMove DEF Begin, Goes, Places
<1>14. ASSUME NEW t \in Task, CallTest(t) PROVE SectionInv'
  <2>1. LockDiscipline' /\ call'.op = "sectionTest" /\ svc' = "none" /\ exec' = exec
    BY <1>0, <1>14, SectionCall DEF CallTest, Goes, SectionOps
  <2>2. exec = t /\ at[t] = "test" /\ UNCHANGED sectionVars
    BY <1>14 DEF CallTest, Goes
  <2>3. Initialised
    BY <2>2 DEF SectionInv, Unused
  <2> QED
    BY <2>1, <2>2, <2>3
    DEF SectionInv, SectionCallSound, Initialised, Inside, Unused, MutualExclusion, sectionVars
<1>15. ASSUME NEW t \in Task, CallLeave(t) PROVE SectionInv'
  <2>1. LockDiscipline' /\ call'.op = "sectionLeave" /\ svc' = "none" /\ exec' = exec
    BY <1>0, <1>15, SectionCall DEF CallLeave, Goes, SectionOps
  <2>2. exec = t /\ at[t] = "in" /\ UNCHANGED sectionVars
    BY <1>15 DEF CallLeave, Goes
  <2>3. Initialised
    BY <2>2 DEF SectionInv, Unused
  <2> QED
    BY <2>1, <2>2, <2>3
    DEF SectionInv, SectionCallSound, Initialised, Inside, Unused, MutualExclusion, sectionVars
<1>16. ASSUME NEW t \in Task, CallWaitEvent(t) PROVE SectionInv'
  <2>1. /\ at[t] = "spun" /\ Moves(t, "wait") /\ UNCHANGED <<lockCount, sectionEvent>>
        /\ call = NoCall /\ scan = Thread /\ call'.op = "wait"
        /\ lock' = lock + 1 /\ UNCHANGED <<svc, scan>>
    BY <1>16 DEF CallWaitEvent, Goes, InUserCode, Enter, InCall, NoCall, cpuVars
  <2>2. call' # NoCall
    BY <2>1 DEF NoCall
  <2>3. LockDiscipline'
    BY <1>0, <2>1, <2>2 DEF LockDiscipline
  <2> QED
    BY <2>1, <2>3, OutsideMove DEF Places, SectionOps
<1>17. CASE CallResult /\ UNCHANGED sectionVars
  BY <1>0, <1>17, UserCallTakesLock, QuietStep DEF Calls
<1>18. ASSUME NEW n, CreateEvent(n) \/ OpenEvent(n) PROVE SectionInv'
  BY <1>0, <1>18, PoolStepKeepsLock, QuietStep DEF CreateEvent, OpenEvent
<1>19. ASSUME NEW h, UseHandle(h) \/ UseStaleHandle(h) PROVE SectionInv'
  BY <1>0, <1>19, PoolStepKeepsLock, SignalKeepsLock, QuietStep
  DEF DestroyEvent, UseHandle, UseStaleHandle
<1>20. CASE UNCHANGED csVars
  <2>1. LockDiscipline' /\ KeepsCall /\ UNCHANGED sectionVars
    BY <1>0, <1>20 DEF csVars, vars, callVars, cpuVars, LockDiscipline, KeepsCall
  <2> QED
    BY <2>1, QuietStep
<1> QED
  BY <1>1, <1>2, <1>3, <1>4, <1>5, <1>6, <1>7, <1>8, <1>9, <1>10, <1>11, <1>12, <1>13, <1>14,
     <1>15, <1>16, <1>17, <1>18, <1>19, <1>20
  DEF CsNext, SectionBodies, Proceeds

\* Mutual exclusion: at most one task is inside the critical section, and the
\* counter of an initialised section is one exactly when one is.
THEOREM SectionIsExclusive == CsSpec => []MutualExclusion
<1>1. SectionInv => MutualExclusion
  BY DEF SectionInv
<1> QED
  BY <1>1, InitSection, SectionNext, PTL DEF CsSpec

-------------------------------------------------------------------------------
(* The event pool. *)

\* Handles of one type and of ids below 2^16 are different.
LEMMA HandleFacts ==
  ASSUME NEW i \in EventIds
  PROVE  /\ Handle(EventType, i) = 131072 + i
         /\ GetId(Handle(EventType, i)) = i
         /\ Handle(EventType, i) # NoEvent
<1>1. i \in Int /\ 0 <= i /\ i < 65536
  BY SectionAssumption DEF EventIds
<1> QED
  BY <1>1 DEF Handle, GetId, EventType, NoEvent

\* Every handle there ever was is that of an id of the pool.
PoolType ==
  /\ evAlloc \subseteq EventIds
  /\ evName \in [EventIds -> Names \cup {NoName}]
  /\ \A h \in held \cup stale : \E i \in EventIds : h = Handle(EventType, i)
  /\ Initialised => \E i \in EventIds : sectionEvent = Handle(EventType, i)

\* The section's event is allocated, has no name to be opened by, and is not
\* among the events of user code, which are allocated as well.
SectionOwns ==
  /\ \A h \in held : \E i \in evAlloc : h = Handle(EventType, i)
  /\ Initialised =>
       /\ \E i \in evAlloc : sectionEvent = Handle(EventType, i) /\ evName[i] = NoName
       /\ sectionEvent \notin held

\* It is so until a handle that outlived another event is used on it.
PoolInv == PoolType /\ (misused \/ SectionOwns)

LEMMA InitPool == CsInit => PoolInv
BY DEF CsInit, PoolInv, PoolType, SectionOwns, Initialised

\* A new id is free.
LEMMA NewIdIsFree ==
  ASSUME FreeIds # {}
  PROVE  NewId \in EventIds \ evAlloc
<1>1. FreeIds \in SUBSET Nat
  BY SectionAssumption DEF FreeIds, EventIds
<1> QED
  BY <1>1, LeastFacts DEF NewId, FreeIds

\* Steps that leave the pool alone.
LEMMA QuietPool ==
  ASSUME PoolInv, UNCHANGED <<poolVars, sectionEvent>>
  PROVE  PoolInv'
BY DEF PoolInv, PoolType, SectionOwns, poolVars, Initialised

\* What user code does to the pool through a handle.
LEMMA UseFacts ==
  ASSUME PoolInv, NEW h \in held \cup stale, UseHandle(h) \/ UseStaleHandle(h)
  PROVE  /\ \/ UNCHANGED <<evAlloc, held, stale>>
            \/ \E i \in EventIds : /\ h = Handle(EventType, i) /\ evAlloc' = evAlloc \ {i}
                                   /\ held' = held \ {h} /\ stale' = stale \cup {h}
         /\ UNCHANGED <<evName, sectionEvent>>
         /\ misused => misused'
         /\ UseStaleHandle(h) /\ ~ misused' => h # sectionEvent
<1>1. PICK i \in EventIds : h = Handle(EventType, i)
  BY DEF PoolInv, PoolType
<1>2. ASSUME DestroyEvent(h)
      PROVE  /\ evAlloc' = evAlloc \ {i} /\ held' = held \ {h} /\ stale' = stale \cup {h}
             /\ UNCHANGED <<evName, sectionEvent>>
  <2>1. GetId(h) = i
    BY <1>1, HandleFacts
  <2> QED
    BY <1>2, <2>1 DEF DestroyEvent, Free, PoolStep, sectionVars
<1>3. ASSUME Signal(h)
      PROVE  UNCHANGED <<evAlloc, held, stale, evName, sectionEvent>>
  BY <1>3 DEF Signal, sectionVars
<1>4. misused => misused'
  BY Zenon DEF UseHandle, UseStaleHandle
<1>5. UseStaleHandle(h) /\ ~ misused' => h # sectionEvent
  BY Zenon DEF UseStaleHandle
<1>6. DestroyEvent(h) \/ Signal(h)
  BY Zenon DEF UseHandle, UseStaleHandle
<1> QED
  BY <1>1, <1>2, <1>3, <1>4, <1>5, <1>6

\* Every step of the program keeps the pool's invariant.
LEMMA PoolNext ==
  ASSUME PoolInv, SectionInv, [CsNext]_csVars
  PROVE  PoolInv'
<1>1. ASSUME NEW n \in Names \cup {NoName}, CreateEvent(n) PROVE PoolInv'
  <2>1. NewId \in EventIds \ evAlloc
    BY <1>1, NewIdIsFree DEF CreateEvent, Allocate
  <2>2. /\ evAlloc' = evAlloc \cup {NewId} /\ evName' = [evName EXCEPT ![NewId] = n]
        /\ held' = held \cup {Handle(EventType, NewId)}
        /\ UNCHANGED <<sectionEvent, stale, misused>>
    BY <1>1 DEF CreateEvent, Allocate, NewHandle, PoolStep, sectionVars
  <2>3. PoolType'
    BY <2>1, <2>2 DEF PoolInv, PoolType, Initialised
  <2>4. ASSUME SectionOwns, Initialised
        PROVE  /\ \E i \in evAlloc' : sectionEvent = Handle(EventType, i) /\ evName'[i] = NoName
               /\ sectionEvent \notin held'
    <3>1. PICK i \in evAlloc : sectionEvent = Handle(EventType, i) /\ evName[i] = NoName
      BY <2>4 DEF SectionOwns
    <3>2. i \in EventIds /\ i # NewId
      BY <2>1, <3>1 DEF PoolInv, PoolType
    <3>3. sectionEvent # Handle(EventType, NewId)
      BY <2>1, <3>1, <3>2, HandleFacts
    <3>4. evName'[i] = NoName
      BY <2>2, <3>1, <3>2 DEF PoolInv, PoolType
    <3> QED
      BY <2>2, <2>4, <3>1, <3>3, <3>4 DEF SectionOwns
  <2>5. SectionOwns => SectionOwns'
    BY <2>2, <2>4 DEF SectionOwns, Initialised
  <2> QED
    BY <2>2, <2>3, <2>5 DEF PoolInv
<1>2. ASSUME NEW n \in Names \cup {NoName}, OpenEvent(n) PROVE PoolInv'
  <2>1. Named(n) \in SUBSET Nat /\ Named(n) # {} /\ n # NoName
    <3>1. EventIds \subseteq Nat
      BY SectionAssumption DEF EventIds
    <3> QED
      BY <1>2, <3>1 DEF OpenEvent, Named, PoolInv, PoolType
  <2>2. Least(Named(n)) \in evAlloc /\ evName[Least(Named(n))] = n
    BY <2>1, LeastFacts DEF Named
  <2>3. /\ held' = held \cup {Handle(EventType, Least(Named(n)))}
        /\ UNCHANGED <<evAlloc, evName, sectionEvent, stale, misused>>
    BY <1>2 DEF OpenEvent, PoolStep, sectionVars
  <2>4. PoolType'
    BY <2>2, <2>3 DEF PoolInv, PoolType, Initialised
  <2>5. SectionOwns /\ Initialised => sectionEvent # Handle(EventType, Least(Named(n)))
    BY <2>1, <2>2, HandleFacts DEF PoolInv, PoolType, SectionOwns
  <2>6. SectionOwns => SectionOwns'
    BY <2>2, <2>3, <2>5 DEF SectionOwns, Initialised
  <2> QED
    BY <2>3, <2>4, <2>6 DEF PoolInv
<1>3. ASSUME NEW h \in held \cup stale, UseHandle(h) \/ UseStaleHandle(h),
             h \in held \/ UseStaleHandle(h)
      PROVE  PoolInv'
  <2>1. CASE UNCHANGED <<evAlloc, held, stale>>
    BY <1>3, <2>1, UseFacts DEF PoolInv, PoolType, SectionOwns, Initialised
  <2>2. ASSUME NEW i \in EventIds, h = Handle(EventType, i), evAlloc' = evAlloc \ {i},
               held' = held \ {h}, stale' = stale \cup {h}
        PROVE  PoolInv'
    <3>1. UNCHANGED <<evName, sectionEvent>> /\ (misused => misused')
      BY <1>3, UseFacts
    <3>2. PoolType'
      BY <2>2, <3>1 DEF PoolInv, PoolType, Initialised
    <3>3. SectionOwns /\ ~ misused' => SectionOwns'
      <4>1. SUFFICES ASSUME SectionOwns, ~ misused' PROVE SectionOwns'
        OBVIOUS
      <4>2. \A g \in held' : \E j \in evAlloc' : g = Handle(EventType, j)
        BY <2>2, <4>1 DEF SectionOwns
      <4>3. Initialised => sectionEvent # h
        BY <1>3, <4>1, UseFacts DEF SectionOwns
      <4> QED
        BY <2>2, <3>1, <4>1, <4>2, <4>3 DEF SectionOwns, Initialised
    <3> QED
      BY <3>1, <3>2, <3>3 DEF PoolInv
  <2> QED
    BY <1>3, <2>1, <2>2, UseFacts
<1>4. CASE InitBody
  <2>1. NewId \in EventIds \ evAlloc
    BY <1>4, NewIdIsFree DEF InitBody, Allocate
  <2>2. /\ evAlloc' = evAlloc \cup {NewId} /\ evName' = [evName EXCEPT ![NewId] = NoName]
        /\ sectionEvent' = Handle(EventType, NewId) /\ UNCHANGED <<held, stale, misused>>
    BY <1>4 DEF InitBody, Allocate, NewHandle
  <2>3. PoolType'
    BY <2>1, <2>2 DEF PoolInv, PoolType
  <2>4. SectionOwns => Handle(EventType, NewId) \notin held
    BY <2>1, HandleFacts DEF PoolInv, PoolType, SectionOwns
  <2>5. evName'[NewId] = NoName
    BY <2>1, <2>2 DEF PoolInv, PoolType
  <2>6. SectionOwns => SectionOwns'
    BY <2>1, <2>2, <2>4, <2>5 DEF SectionOwns
  <2> QED
    BY <2>2, <2>3, <2>6 DEF PoolInv
<1>5. CASE DeinitBody
  <2>1. Initialised
    BY <1>5 DEF DeinitBody, SectionInv, SectionCallSound, Body
  <2>2. PICK i \in EventIds : sectionEvent = Handle(EventType, i)
    BY <2>1 DEF PoolInv, PoolType
  <2>3. /\ evAlloc' = evAlloc \ {i} /\ sectionEvent' = NoEvent
        /\ UNCHANGED <<evName, held, stale, misused>>
    BY <1>5, <2>2, HandleFacts DEF DeinitBody, Free
  <2>4. PoolType'
    BY <2>3 DEF PoolInv, PoolType, Initialised
  <2>5. SectionOwns => SectionOwns'
    BY <2>1, <2>2, <2>3 DEF SectionOwns, Initialised
  <2> QED
    BY <2>3, <2>4, <2>5 DEF PoolInv
<1>6. CASE UserCalls \/ KernelBodies \/ Handlers \/ CallInit \/ CallDeinit
  BY <1>6, QuietPool DEF UserCalls, KernelBodies, Handlers, CallInit, CallDeinit, sectionVars
<1>7. CASE InitRefused \/ TestBody \/ WaitFails \/ Woken \/ LeaveBody
  BY <1>7, QuietPool DEF InitRefused, TestBody, WaitFails, Woken, LeaveBody, sectionVars
<1>8. ASSUME NEW t \in Task, Begin(t) \/ Proceeds(t) \/ CallLeave(t) PROVE PoolInv'
  BY <1>8, QuietPool
  DEF Begin, Proceeds, CallTest, CallWaitEvent, CallLeave, sectionVars
<1>9. CASE UNCHANGED csVars
  BY <1>9, QuietPool DEF csVars, sectionVars
<1> QED
  BY <1>1, <1>2, <1>3, <1>4, <1>5, <1>6, <1>7, <1>8, <1>9 DEF CsNext, SectionBodies
=============================================================================
