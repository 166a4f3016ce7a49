--------------------------- MODULE CriticalSection ----------------------------
(***************************************************************************)
(* kernel::critical_section of kernel.cpp on top of module Kernel: a       *)
(* counter under the kernel lock, an auto-reset event that leave sets, and *)
(* a loop in enter that tests, spins, waits for the event and tests again. *)
(* The event comes from the pool of event.hpp, which user code shares.     *)
(*                                                                         *)
(* The tests and the release are calls of their own under the kernel lock; *)
(* between them the task is in user code and anything may happen.          *)
(* Documented as undefined and left out: entering before init, leaving     *)
(* without having entered, destroying a section or an event in use, and    *)
(* terminating a task inside.  An event handle that is used after its      *)
(* event has been destroyed is not left out: the code cannot tell it from  *)
(* the handle of the next event with that id.                              *)
(***************************************************************************)
EXTENDS Kernel

CONSTANTS SpinLock,  \* m_spinLock
          MaxEvents, \* event::max_number
          Names      \* names of events

\* handle::create, getId and getObjectType: type and index in half a word each.
EventType == 2
Handle(type, index) == (type * 65536) + (index % 65536)
GetId(h) == h % 65536
GetObjectType(h) == h \div 65536

EventIds == 0 .. MaxEvents - 1

ASSUME SectionAssumption ==
  /\ SpinLock \in Nat /\ MaxEvents \in Nat /\ MaxEvents < 65536
  /\ Events = {Handle(EventType, i) : i \in EventIds} /\ Manual = {}

NoEvent == -1
NoName == "nullptr"

VARIABLES
  lockCount,       \* m_lockCount
  sectionEvent,    \* m_event, NoEvent before init
  at,              \* where each task is in enter and leave
  spins,           \* i of enter
  evAlloc, evName, \* the event pool: allocated ids and their names
  held,            \* the event handles of user code
  stale,           \* handles of destroyed events that other holders may have kept
  misused          \* history: a stale handle has been used on the section's event

sectionVars == <<lockCount, sectionEvent, at, spins>>
poolVars == <<evAlloc, evName, held, stale, misused>>
csVars == <<vars, sectionVars, poolVars>>

CsInit ==
  /\ Init
  /\ lockCount = 0 /\ sectionEvent = NoEvent
  /\ at = [t \in Task |-> "out"] /\ spins = [t \in Task |-> 0]
  /\ evAlloc = {} /\ evName = [i \in EventIds |-> NoName] /\ held = {}
  /\ stale = {} /\ misused = FALSE

Initialised == sectionEvent # NoEvent

-----------------------------------------------------------------------------
(* The event pool.  BASEPRI makes each operation one step, from tasks and  *)
(* interrupt handlers alike; none of them takes the kernel lock.           *)

FreeIds == EventIds \ evAlloc
NewId == Least(FreeIds)
NewHandle == Handle(EventType, NewId)

\* A mutant: the name of an earlier event stays behind.
AllocateKeepsName(name, set) ==
  /\ FreeIds # {}
  /\ evAlloc' = evAlloc \cup {NewId}
  /\ evName' = IF name = NoName THEN evName ELSE [evName EXCEPT ![NewId] = name]
  /\ event' = [event EXCEPT ![NewHandle] = set]

\* event::create: the least free id, whatever it was used for before.
Allocate(name, set) ==
  /\ FreeIds # {}
  /\ evAlloc' = evAlloc \cup {NewId}
  /\ evName' = [evName EXCEPT ![NewId] = name]
  /\ event' = [event EXCEPT ![NewHandle] = set]

\* User code works on the pool.
PoolStep ==
  /\ scan = Thread
  /\ UNCHANGED <<callVars, cpuVars, timeVars, schedVars, taskVars, queue, timer,
                 sectionVars>>

CreateEvent(name) ==
  /\ Allocate(name, FALSE)
  /\ held' = held \cup {NewHandle}
  /\ UNCHANGED <<stale, misused>>
  /\ PoolStep

\* event::open looks for the first allocated event of that name.
Named(name) == {i \in evAlloc : evName[i] = name}

OpenEvent(name) ==
  /\ name # NoName /\ Named(name) # {}
  /\ held' = held \cup {Handle(EventType, Least(Named(name)))}
  /\ UNCHANGED <<event, evAlloc, evName, stale, misused>>
  /\ PoolStep

\* event::destroy.
Free(h) == evAlloc' = evAlloc \ {GetId(h)}

\* A task waits for h or is about to.
Awaited(h) ==
  WaitedFor(h) \/ \E k \in DOMAIN call.cond.objs : call.cond.objs[k] = h

\* Whoever got a handle of the event keeps it.  Destroying an event that a
\* task waits for is documented as undefined.
DestroyEvent(h) ==
  /\ GetObjectType(h) = EventType /\ ~ Awaited(h)
  /\ Free(h)
  /\ held' = held \ {h} /\ stale' = stale \cup {h}
  /\ UNCHANGED <<event, evName>>
  /\ PoolStep

Signal(h) ==
  /\ h \in Events /\ (SetEvent(h) \/ ResetEvent(h))
  /\ UNCHANGED <<sectionVars, evAlloc, evName, held, stale>>

\* User code sets, resets and destroys its events.
UseHandle(h) == (DestroyEvent(h) \/ Signal(h)) /\ UNCHANGED misused

\* It does so with a handle that outlived its event, and reaches whatever has
\* the id now.  (The assert of MemoryBuffer::at only stops it while the id is
\* free, and only in a debug build.)
UseStaleHandle(h) ==
  /\ DestroyEvent(h) \/ Signal(h)
  /\ misused' = (misused \/ h = sectionEvent)

-----------------------------------------------------------------------------
(* critical_section::init and deinit. *)

InCall(op) == [NoCall EXCEPT !.op = op]

\* A task that is not in the middle of enter, or main.
Outside == exec # Idle /\ (exec \in Task => pc[exec] = "user" /\ at[exec] = "out")
Unused == \A t \in Task : at[t] = "out"

CallInit ==
  /\ InUserCode /\ Outside /\ ~ Initialised
  /\ Enter(InCall("sectionInit"))
  /\ UNCHANGED <<sectionVars, poolVars>>

InitRefused ==
  /\ Body("sectionInit") /\ FreeIds = {}
  /\ Leave
  /\ UNCHANGED <<cpuVars, timeVars, schedVars, taskVars, objVars, sectionVars, poolVars>>

\* The event is created and set.
InitBody ==
  /\ Body("sectionInit")
  /\ Allocate(NoName, TRUE)
  /\ sectionEvent' = NewHandle
  /\ lockCount' = 0
  /\ Leave
  /\ UNCHANGED <<cpuVars, timeVars, schedVars, taskVars, queue, timer, at, spins, held,
                 stale, misused>>

CallDeinit ==
  /\ InUserCode /\ Outside /\ Initialised /\ Unused
  /\ Enter(InCall("sectionDeinit"))
  /\ UNCHANGED <<sectionVars, poolVars>>

DeinitBody ==
  /\ Body("sectionDeinit")
  /\ Free(sectionEvent)
  /\ sectionEvent' = NoEvent
  /\ Leave
  /\ UNCHANGED <<cpuVars, timeVars, schedVars, taskVars, objVars, lockCount, at, spins,
                 evName, held, stale, misused>>

-----------------------------------------------------------------------------
(* critical_section::enter. *)

\* Task t executes code of enter or leave outside of the kernel lock.
Goes(t, place) == InUserCode /\ exec = t /\ t # Idle /\ pc[t] = "user" /\ at[t] = place

Moves(t, place) == at' = [at EXCEPT ![t] = place]

Begin(t) ==
  /\ Goes(t, "out") /\ Initialised
  /\ Moves(t, "test")
  /\ UNCHANGED <<vars, lockCount, sectionEvent, spins, poolVars>>

CallTest(t) ==
  /\ Goes(t, "test")
  /\ Enter(InCall("sectionTest"))
  /\ UNCHANGED <<sectionVars, poolVars>>

\* The kernel lock is released before the task decides to spin once more or
\* to wait; ++i is nobody else's business and part of this step.
TestBody ==
  /\ Body("sectionTest")
  /\ IF lockCount = 0 THEN lockCount' = 1 /\ Moves(exec, "in") /\ spins' = [spins EXCEPT ![exec] = 0]
     ELSE /\ IF spins[exec] < SpinLock
               THEN Moves(exec, "test") /\ spins' = [spins EXCEPT ![exec] = @ + 1]
               ELSE Moves(exec, "spun") /\ UNCHANGED spins
          /\ UNCHANGED lockCount
  /\ Leave
  /\ UNCHANGED <<cpuVars, timeVars, schedVars, taskVars, objVars, sectionEvent, poolVars>>

\* waitForSingleObject on m_event, for ever.
CallWaitEvent(t) ==
  /\ Goes(t, "spun")
  /\ Enter([InCall("wait") EXCEPT !.cond =
       [objs |-> <<sectionEvent>>, all |-> FALSE, forever |-> TRUE, interval |-> 0]])
  /\ spins' = [spins EXCEPT ![t] = 0]
  /\ Moves(t, "wait")
  /\ UNCHANGED <<lockCount, sectionEvent, poolVars>>

\* The wait could not begin: a critical error, the breakpoint stops the task.
WaitFails ==
  /\ WaitBody
  /\ at' = IF FreeSlots = {} /\ at[exec] = "wait" THEN [at EXCEPT ![exec] = "failed"] ELSE at
  /\ UNCHANGED <<lockCount, sectionEvent, spins, poolVars>>

\* A mutant: a task that has been woken does not test again.
WokenEnters ==
  /\ ResultBody
  /\ IF at[exec] = "wait" THEN Moves(exec, "in") /\ lockCount' = 1
     ELSE UNCHANGED <<at, lockCount>>
  /\ UNCHANGED <<sectionEvent, spins, poolVars>>

\* waitForSingleObject has returned: test again.  Other waits of a task are
\* none of enter's business.
Woken ==
  /\ ResultBody
  /\ at' = IF at[exec] # "wait" THEN at
           ELSE [at EXCEPT ![exec] = IF result[current] = "ObjectSet" THEN "test" ELSE "failed"]
  /\ UNCHANGED <<lockCount, sectionEvent, spins, poolVars>>

-----------------------------------------------------------------------------
(* critical_section::leave. *)

CallLeave(t) ==
  /\ Goes(t, "in")
  /\ Enter(InCall("sectionLeave"))
  /\ UNCHANGED <<sectionVars, poolVars>>

\* A mutant: leave does not set the event.
LeaveSilently ==
  /\ Body("sectionLeave")
  /\ lockCount' = lockCount - 1
  /\ Moves(exec, "out")
  /\ Leave
  /\ UNCHANGED <<cpuVars, timeVars, schedVars, taskVars, objVars, sectionEvent, spins, poolVars>>

LeaveBody ==
  /\ Body("sectionLeave")
  /\ lockCount' = lockCount - 1
  /\ event' = [event EXCEPT ![Handle(EventType, GetId(sectionEvent))] =
                 @ \/ lockCount' = 0]
  /\ Moves(exec, "out")
  /\ Leave
  /\ UNCHANGED <<cpuVars, timeVars, schedVars, taskVars, queue, timer, sectionEvent, spins,
                 poolVars>>

-----------------------------------------------------------------------------
(* The kernel around it. *)

\* API calls come from main and from tasks that are not in the middle of
\* enter; a task that is inside, or on its way in, is not terminated.  User
\* code waits for the events it holds.
UserCalls ==
  /\ exec \in Task => at[exec] \in {"out", "in"} \/ pc[exec] = "waited"
  /\ Calls
  /\ call'.op = "terminate" => at[call'.id] = "out"
  /\ \A k \in DOMAIN call'.cond.objs :
       call'.cond.objs[k] \in Events => call'.cond.objs[k] \in held
  /\ UNCHANGED <<sectionVars, poolVars>>

KernelBodies ==
  /\ StartBody \/ CreateRefused \/ CreateBody \/ TerminateBody \/ SuspendBody
     \/ ResumeRefused \/ ResumeBody \/ SleepBody \/ TimerBodies
  /\ UNCHANGED <<sectionVars, poolVars>>

SectionBodies ==
  InitRefused \/ InitBody \/ DeinitBody \/ TestBody \/ WaitFails \/ Woken \/ LeaveBody

Handlers ==
  /\ HandleSvc \/ Ticks \/ TickSteps
  /\ UNCHANGED <<sectionVars, poolVars>>

\* What a task in enter does next outside of the kernel lock.
Proceeds(t) ==
  \/ CallTest(t) \/ CallWaitEvent(t)
  \/ exec = t /\ CallResult /\ UNCHANGED <<sectionVars, poolVars>>

CsNext ==
  \/ UserCalls \/ KernelBodies \/ SectionBodies \/ Handlers
  \/ CallInit \/ CallDeinit
  \/ \E t \in Task : Begin(t) \/ Proceeds(t) \/ CallLeave(t)
  \/ \E n \in Names \cup {NoName} : CreateEvent(n) \/ OpenEvent(n)
  \/ \E h \in held : UseHandle(h)
  \/ \E h \in stale : UseStaleHandle(h)

CsSpec == CsInit /\ [][CsNext]_csVars

\* What goes on by itself, as in Kernel: a call that holds the lock and a
\* handler run to their end.
Continues ==
  \/ KernelBodies \/ SectionBodies
  \/ (HandleSvc \/ TickSteps) /\ UNCHANGED <<sectionVars, poolVars>>

\* SysTick finds the lock free again and again, and tasks in enter or in a
\* wait that are on the processor again and again go on, one or the other.
CsFairSpec ==
  /\ CsSpec
  /\ WF_csVars(Continues)
  /\ SF_csVars(TickBegin /\ UNCHANGED <<sectionVars, poolVars>>)
  /\ SF_csVars(\E t \in Task \ {Idle} : Proceeds(t))

-----------------------------------------------------------------------------
(* Properties. *)

Inside == {t \in Task : at[t] = "in"}

\* At most one task is inside the section, and the counter says whether.
MutualExclusion ==
  /\ \A t, u \in Inside : t = u
  /\ Initialised => lockCount = IF Inside = {} THEN 0 ELSE 1

\* Waiting in enter: in a wait slot for the section's event.
Waits(t) ==
  \E i \in Slot : wait[i].task = t /\ at[t] = "wait" /\ wait[i].kind = "WaitForObj"

\* No wake-up is lost between the test in enter and the wait, or between the
\* consumption of the event and the next test: when the section is free and
\* a task waits for it, the event is set or another task is on its way to a
\* test.  User code can only spoil this with a handle that outlived its event.
NoLostWakeup ==
  ~ misused /\ lockCount = 0 /\ (\E t \in Task : Waits(t)) =>
    \/ event[sectionEvent]
    \/ \E t \in Task : at[t] \in {"test", "wait"} /\ ~ Waits(t)

\* enter never gets to its critical error.
EnterNeverFails == \A t \in Task : at[t] # "failed"

\* A free section does not stay free while tasks want it: they do not all
\* wait, unless its event is reset or destroyed with a handle that outlived
\* another event.
Wanted == \E t \in Task : at[t] \in {"test", "spun", "wait"}
FreeSectionIsEntered == []<>(~ Wanted \/ Inside # {} \/ misused)
=============================================================================
