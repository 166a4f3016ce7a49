------------------------------ MODULE Interlock ------------------------------
(***************************************************************************)
(* lock.hpp under preemption.  Under GCC the counter m_interlock is a      *)
(* volatile word, not an atomic: ++ and -- load it into a register, and    *)
(* store it back in a later instruction.  SysTick may come in between; if  *)
(* it finds the counter zero it may put another task on the processor,     *)
(* which runs whole API calls before the first task stores its stale       *)
(* register.  The SVC handler decrements the counter in handler mode,      *)
(* where nothing that uses it can intervene.                               *)
(***************************************************************************)
EXTENDS Integers

CONSTANTS Tasks,   \* the contexts that call the API
          None     \* no context

ASSUME InterlockAssumption == Tasks # {} /\ None \notin Tasks

VARIABLES lock,     \* m_interlock
          running,  \* the context whose instructions the processor executes
          pc,       \* where each context is in its API call
          reg       \* the register its ++ or -- goes through

vars == <<lock, running, pc, reg>>

\* The states of a context: outside, between the load and the store of
\* lock::enter, in the guarded body, and between those of lock::leave.
Places == {"user", "entering", "body", "leaving"}
Held == {"body", "leaving"}

Init ==
  /\ lock = 0
  /\ running \in Tasks
  /\ pc = [t \in Tasks |-> "user"]
  /\ reg = [t \in Tasks |-> 0]

LoadEnter(t) ==
  /\ running = t /\ pc[t] = "user"
  /\ reg' = [reg EXCEPT ![t] = lock]
  /\ pc' = [pc EXCEPT ![t] = "entering"]
  /\ UNCHANGED <<lock, running>>

StoreEnter(t) ==
  /\ running = t /\ pc[t] = "entering"
  /\ lock' = reg[t] + 1
  /\ pc' = [pc EXCEPT ![t] = "body"]
  /\ UNCHANGED <<running, reg>>

LoadLeave(t) ==
  /\ running = t /\ pc[t] = "body"
  /\ reg' = [reg EXCEPT ![t] = lock]
  /\ pc' = [pc EXCEPT ![t] = "leaving"]
  /\ UNCHANGED <<lock, running>>

StoreLeave(t) ==
  /\ running = t /\ pc[t] = "leaving"
  /\ lock' = reg[t] - 1
  /\ pc' = [pc EXCEPT ![t] = "user"]
  /\ UNCHANGED <<running, reg>>

\* A mutant: the handler switches and forgets to release the lock.
SvcForgetsLeave(t) ==
  /\ running = t /\ pc[t] = "body"
  /\ running' \in Tasks
  /\ pc' = [pc EXCEPT ![t] = "user"]
  /\ UNCHANGED <<lock, reg>>

\* The body ends in an SVC: the handler picks a task and leaves the lock.
Svc(t) ==
  /\ running = t /\ pc[t] = "body"
  /\ running' \in Tasks
  /\ lock' = lock - 1
  /\ pc' = [pc EXCEPT ![t] = "user"]
  /\ UNCHANGED reg

\* The body gives the id of a terminated task u to a new one, which starts in
\* user code wherever u was when it ended.
Recreate(t, u) ==
  /\ running = t /\ pc[t] = "body" /\ u # t
  /\ pc' = [pc EXCEPT ![u] = "user"]
  /\ UNCHANGED <<lock, running, reg>>

\* A mutant: the tick handler does not test the lock.
TickAlwaysSwitches == running' \in Tasks /\ UNCHANGED <<lock, pc, reg>>

\* A tick that finds the lock free may change the running context at any
\* instruction.
Tick == lock = 0 /\ running' \in Tasks /\ UNCHANGED <<lock, pc, reg>>

Next ==
  \/ \E t \in Tasks : LoadEnter(t) \/ StoreEnter(t) \/ LoadLeave(t) \/ StoreLeave(t) \/ Svc(t)
  \/ \E t, u \in Tasks : Recreate(t, u)
  \/ Tick

Spec == Init /\ [][Next]_vars

-----------------------------------------------------------------------------
\* Every variable has its type.
TypeOK ==
  /\ lock \in Int
  /\ running \in Tasks
  /\ pc \in [Tasks -> Places]
  /\ reg \in [Tasks -> Int]

\* Only the running context can be inside an API call, however its ++ and --
\* were interrupted, and the counter says 1 exactly then.
LockCountsHolder ==
  /\ \A t \in Tasks : pc[t] \in Held => running = t
  /\ lock = IF \E t \in Tasks : pc[t] \in Held THEN 1 ELSE 0

\* A register loaded by an enter that was interrupted is not stale when it is
\* stored, whatever ran in between.
RegistersFresh ==
  \A t \in Tasks :
    /\ pc[t] = "entering" => reg[t] = 0
    /\ pc[t] = "leaving" => reg[t] = 1

\* The inductive invariant.
LockInv == TypeOK /\ LockCountsHolder /\ RegistersFresh

Holder == IF \E t \in Tasks : pc[t] \in Held THEN running ELSE None

Atomic == INSTANCE KernelLock WITH owner <- Holder

\* The torn counter implements the atomic lock.
ImplementsKernelLock == Atomic!Spec
=============================================================================
