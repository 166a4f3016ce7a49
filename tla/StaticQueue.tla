----------------------------- MODULE StaticQueue -----------------------------
(***************************************************************************)
(* queue.hpp: a ring buffer shared by tasks and interrupt handlers, every  *)
(* operation inside a hardware critical section that raises BASEPRI to the *)
(* kernel level.  An operation is several steps; interrupts that BASEPRI   *)
(* does not mask nest between them, and SysTick switches tasks.            *)
(*                                                                         *)
(* Levels are NVIC levels, smaller is more urgent: 1 Critical, 2 Kernel,   *)
(* 3 User.  BASEPRI = 0 masks nothing, b > 0 masks the levels >= b.        *)
(* config.hpp requires critical_section_priority to be at least as urgent  *)
(* as every interrupt that uses the queue: no such interrupt is Critical.  *)
(***************************************************************************)
EXTENDS Integers, Sequences

CONSTANTS Tasks, Isrs,  \* the contexts that use the queue
          Level,        \* the NVIC level of each interrupt
          Items, Max    \* elements and m_data_max_elements

KernelLevel == 2
Context == Tasks \cup Isrs

ASSUME StaticQueueAssumption ==
  /\ Max \in Nat \ {0} /\ Items # {}
  /\ Tasks # {} /\ Tasks \cap Isrs = {}
  /\ Level \in [Isrs -> KernelLevel .. 3]

VARIABLES size, head, tail, buf,  \* the Queue structure and its data
          basepri,                \* the BASEPRI register
          thread,                 \* the task in thread mode
          pc, op, item, saved     \* of each context: its place in send or
                                  \* receive, the element, the saved BASEPRI

vars == <<size, head, tail, buf, basepri, thread, pc, op, item, saved>>
ring == <<size, head, tail, buf>>

\* queue::create; the data of the static buffer is not initialised.
Init ==
  /\ size = 0 /\ head = 0 /\ tail = 0 /\ buf \in [0 .. Max - 1 -> Items]
  /\ basepri = 0
  /\ thread \in Tasks
  /\ pc = [c \in Context |-> "idle"]
  /\ op = [c \in Context |-> "send"]
  /\ item \in [Context -> Items]
  /\ saved = [c \in Context |-> 0]

\* The places of a context, and those inside its critical section.
Inside == {"test", "moveHead", "write", "count", "read", "moveTail", "uncount",
           "leave", "refused"}
Places == Inside \cup {"idle", "enter", "mask"}

Masked(level) == basepri # 0 /\ level >= basepri
ActiveIsrs == {i \in Isrs : pc[i] # "idle"}

\* The processor executes the most urgent active handler, else the thread.
Executes(c) ==
  IF c \in Isrs THEN pc[c] # "idle" /\ \A i \in ActiveIsrs \ {c} : Level[c] < Level[i]
  ELSE c = thread /\ ActiveIsrs = {}

Moves(c, from, to) == Executes(c) /\ pc[c] = from /\ pc' = [pc EXCEPT ![c] = to]

\* An interrupt arrives and its handler calls send or receive.
Interrupt(i, o, x) ==
  /\ pc[i] = "idle" /\ ~ Masked(Level[i])
  /\ \A j \in ActiveIsrs : Level[i] < Level[j]
  /\ pc' = [pc EXCEPT ![i] = "enter"]
  /\ op' = [op EXCEPT ![i] = o]
  /\ item' = [item EXCEPT ![i] = x]
  /\ UNCHANGED <<ring, basepri, thread, saved>>

\* The running task calls send or receive.
TaskCall(t, o, x) ==
  /\ Moves(t, "idle", "enter")
  /\ op' = [op EXCEPT ![t] = o]
  /\ item' = [item EXCEPT ![t] = x]
  /\ UNCHANGED <<ring, basepri, thread, saved>>

\* SysTick puts another task on the processor at any instruction where its
\* level is not masked.  BASEPRI is no part of a task's context.
SwitchTask ==
  /\ ActiveIsrs = {} /\ ~ Masked(KernelLevel)
  /\ thread' \in Tasks
  /\ UNCHANGED <<ring, basepri, pc, op, item, saved>>

\* CriticalSection: hardware::critical_section::enter, in two steps.
SaveMask(c) ==
  /\ Moves(c, "enter", "mask")
  /\ saved' = [saved EXCEPT ![c] = basepri]
  /\ UNCHANGED <<ring, basepri, thread, op, item>>

\* A mutant: the section masks the User level only.
SetMaskUser(c) ==
  /\ Moves(c, "mask", "test")
  /\ basepri' = KernelLevel + 1
  /\ UNCHANGED <<ring, thread, op, item, saved>>

SetMask(c) ==
  /\ Moves(c, "mask", "test")
  /\ basepri' = KernelLevel
  /\ UNCHANGED <<ring, thread, op, item, saved>>

\* A mutant: the test of send admits one element too many.
FullOffByOne == size > Max

\* isFull.
Full == size >= Max

\* isFull of send, isEmpty of receive.  Their own critical section restores
\* the BASEPRI it found, which is the kernel level.
TestPasses(c) ==
  /\ IF op[c] = "send" THEN ~ Full /\ Moves(c, "test", "moveHead")
     ELSE size # 0 /\ Moves(c, "test", "read")
  /\ UNCHANGED <<ring, basepri, thread, op, item, saved>>

TestRefuses(c) ==
  /\ IF op[c] = "send" THEN Full ELSE size = 0
  /\ Moves(c, "test", "refused")
  /\ UNCHANGED <<ring, basepri, thread, op, item, saved>>

Wrap(i) == IF i >= Max THEN i - Max ELSE i

\* send: the head stays where it is when the queue is empty.
MoveHead(c) ==
  /\ Moves(c, "moveHead", "write")
  /\ head' = IF size # 0 THEN IF head + 1 >= Max THEN 0 ELSE head + 1 ELSE head
  /\ UNCHANGED <<size, tail, buf, basepri, thread, op, item, saved>>

Write(c) ==
  /\ Moves(c, "write", "count")
  /\ buf' = [buf EXCEPT ![head] = item[c]]
  /\ UNCHANGED <<size, head, tail, basepri, thread, op, item, saved>>

Count(c) ==
  /\ Moves(c, "count", "leave")
  /\ size' = size + 1
  /\ UNCHANGED <<head, tail, buf, basepri, thread, op, item, saved>>

\* A mutant: receive reads the newest element.
ReadHead(c) ==
  /\ Moves(c, "read", "moveTail")
  /\ item' = [item EXCEPT ![c] = buf[head]]
  /\ UNCHANGED <<ring, basepri, thread, op, saved>>

\* receive.
Read(c) ==
  /\ Moves(c, "read", "moveTail")
  /\ item' = [item EXCEPT ![c] = buf[tail]]
  /\ UNCHANGED <<ring, basepri, thread, op, saved>>

\* A mutant: the tail moves although the last element is taken.
MoveTailAlways(c) ==
  /\ Moves(c, "moveTail", "uncount")
  /\ tail' = IF tail + 1 >= Max THEN 0 ELSE tail + 1
  /\ UNCHANGED <<size, head, buf, basepri, thread, op, item, saved>>

\* The tail stays where it is when the last element is taken.
MoveTail(c) ==
  /\ Moves(c, "moveTail", "uncount")
  /\ tail' = IF size > 1 THEN IF tail + 1 >= Max THEN 0 ELSE tail + 1 ELSE tail
  /\ UNCHANGED <<size, head, buf, basepri, thread, op, item, saved>>

Uncount(c) ==
  /\ Moves(c, "uncount", "leave")
  /\ size' = size - 1
  /\ UNCHANGED <<head, tail, buf, basepri, thread, op, item, saved>>

\* The destructor of CriticalSection restores BASEPRI.
LeaveSection(c) ==
  /\ Moves(c, "leave", "idle") \/ Moves(c, "refused", "idle")
  /\ basepri' = saved[c]
  /\ UNCHANGED <<ring, thread, op, item, saved>>

Step(c) ==
  \/ SaveMask(c) \/ SetMask(c) \/ TestPasses(c) \/ TestRefuses(c)
  \/ MoveHead(c) \/ Write(c) \/ Count(c)
  \/ Read(c) \/ MoveTail(c) \/ Uncount(c)
  \/ LeaveSection(c)

Next ==
  \/ \E i \in Isrs, x \in Items, o \in {"send", "receive"} : Interrupt(i, o, x)
  \/ \E t \in Tasks, x \in Items, o \in {"send", "receive"} : TaskCall(t, o, x)
  \/ SwitchTask
  \/ \E c \in Context : Step(c)

Spec == Init /\ [][Next]_vars

-----------------------------------------------------------------------------
\* Every variable has its type.
TypeOK ==
  /\ size \in 0 .. Max /\ head \in 0 .. Max - 1 /\ tail \in 0 .. Max - 1
  /\ buf \in [0 .. Max - 1 -> Items]
  /\ basepri \in 0 .. 3
  /\ thread \in Tasks
  /\ pc \in [Context -> Places]
  /\ op \in [Context -> {"send", "receive"}]
  /\ item \in [Context -> Items]
  /\ saved \in [Context -> 0 .. 3]

\* One context at a time is between the masking and the unmasking of its
\* critical section, however tasks and interrupts interrupt each other.
OneInside ==
  \A c, d \in Context : pc[c] \in Inside /\ pc[d] \in Inside => c = d

At(places) == \E c \in Context : pc[c] \in places

\* The elements that a receive past its MoveTail leaves behind.
Live == IF At({"uncount"}) THEN size - 1 ELSE size

\* head and tail agree with the number of elements at every step of every
\* operation: head is the last element, or the free place after it while a
\* send is filling it; an empty queue has head = tail.
IndicesAgree ==
  IF At({"write", "count"}) THEN size < Max /\ head = Wrap(tail + size)
  ELSE IF Live = 0 THEN head = tail
  ELSE head = Wrap(tail + Live - 1)

Contents == [i \in 1 .. Live |-> buf[Wrap(tail + i - 1)]]

\* A receive returns the oldest element.
ReceivesOldest ==
  \A c \in Context : pc[c] = "moveTail" => Live > 0 /\ item[c] = Contents[1]

\* send returns false only if the queue is full at that moment, receive only
\* if it is empty.
RefusalsJust ==
  \A c \in Context : pc[c] = "refused" => size = IF op[c] = "send" THEN Max ELSE 0

Queue == INSTANCE Fifo WITH q <- Contents

\* The steps of concurrent operations add up to an atomic queue.
ImplementsFifo == Queue!Spec
=============================================================================
