--------------------------- MODULE InterlockProofs ---------------------------
(***************************************************************************)
(* For every set of contexts, the non-atomic counter of lock.hpp is a      *)
(* lock, and implements the atomic one that module Kernel takes.           *)
(***************************************************************************)
EXTENDS Interlock, TLAPS

\* The initial state has nobody inside and nothing loaded.
LEMMA InitLockInv == Init => LockInv
BY DEF Init, LockInv, TypeOK, LockCountsHolder, RegistersFresh, Places, Held

\* Every step of a context and every tick keeps the invariant: an interrupted
\* enter loaded 0 and is resumed only when the counter is 0 again, because
\* the processor comes back to it only while nobody is inside.
LEMMA NextLockInv == LockInv /\ [Next]_vars => LockInv'
<1> SUFFICES ASSUME LockInv, [Next]_vars PROVE LockInv'
  OBVIOUS
<1> USE DEF LockInv, TypeOK, LockCountsHolder, RegistersFresh, Places, Held
<1>1. ASSUME NEW t \in Tasks, LoadEnter(t) PROVE LockInv'
  BY <1>1 DEF LoadEnter
<1>2. ASSUME NEW t \in Tasks, StoreEnter(t) PROVE LockInv'
  BY <1>2 DEF StoreEnter
<1>3. ASSUME NEW t \in Tasks, LoadLeave(t) PROVE LockInv'
  BY <1>3 DEF LoadLeave
<1>4. ASSUME NEW t \in Tasks, StoreLeave(t) PROVE LockInv'
  BY <1>4 DEF StoreLeave
<1>5. ASSUME NEW t \in Tasks, Svc(t) PROVE LockInv'
  BY <1>5 DEF Svc
<1>6. ASSUME NEW t \in Tasks, NEW u \in Tasks, Recreate(t, u) PROVE LockInv'
  BY <1>6 DEF Recreate
<1>7. CASE Tick
  BY <1>7 DEF Tick
<1>8. CASE UNCHANGED vars
  BY <1>8 DEF vars
<1> QED
  BY <1>1, <1>2, <1>3, <1>4, <1>5, <1>6, <1>7, <1>8 DEF Next

\* In every reachable state at most the running context is inside an API
\* call, and the counter tells.
THEOREM LockIsExclusive == Spec => []LockCountsHolder
<1>1. LockInv => LockCountsHolder
  BY DEF LockInv
<1> QED
  BY <1>1, InitLockInv, NextLockInv, PTL DEF Spec

\* In every reachable state the registers of interrupted increments hold what
\* the counter will still be when they are stored.
THEOREM RegistersStayFresh == Spec => []RegistersFresh
<1>1. LockInv => RegistersFresh
  BY DEF LockInv
<1> QED
  BY <1>1, InitLockInv, NextLockInv, PTL DEF Spec

\* A step of the torn counter is a step of the atomic lock or a stutter: the
\* store of an enter acquires it, the store of a leave and the SVC release it.
LEMMA StepRefines ==
  LockInv /\ LockInv' /\ [Next]_vars => [Atomic!Next]_<<Holder, running>>
<1> SUFFICES ASSUME LockInv, LockInv', [Next]_vars
             PROVE  [Atomic!Next]_<<Holder, running>>
  OBVIOUS
<1> USE InterlockAssumption DEF LockInv, TypeOK, LockCountsHolder, RegistersFresh, Places, Held,
        Holder, Atomic!Next, Atomic!Acquire, Atomic!Release, Atomic!Switch
<1>1. ASSUME NEW t \in Tasks, LoadEnter(t) PROVE UNCHANGED <<Holder, running>>
  BY <1>1 DEF LoadEnter
<1>2. ASSUME NEW t \in Tasks, StoreEnter(t) PROVE Atomic!Acquire
  BY <1>2 DEF StoreEnter
<1>3. ASSUME NEW t \in Tasks, LoadLeave(t) PROVE UNCHANGED <<Holder, running>>
  BY <1>3 DEF LoadLeave
<1>4. ASSUME NEW t \in Tasks, StoreLeave(t) PROVE Atomic!Release
  BY <1>4 DEF StoreLeave
<1>5. ASSUME NEW t \in Tasks, Svc(t) PROVE Atomic!Switch
  BY <1>5 DEF Svc
<1>6. ASSUME NEW t \in Tasks, NEW u \in Tasks, Recreate(t, u)
      PROVE  UNCHANGED <<Holder, running>>
  BY <1>6 DEF Recreate
<1>7. ASSUME Tick PROVE Atomic!Switch
  BY <1>7 DEF Tick
<1>8. ASSUME UNCHANGED vars PROVE UNCHANGED <<Holder, running>>
  BY <1>8 DEF vars
<1> QED
  BY <1>1, <1>2, <1>3, <1>4, <1>5, <1>6, <1>7, <1>8 DEF Next

\* The torn counter implements the atomic lock.
THEOREM Refinement == Spec => ImplementsKernelLock
<1>1. Init => Atomic!Init
  BY InterlockAssumption DEF Init, Atomic!Init, Holder, Held
<1> QED
  BY <1>1, InitLockInv, NextLockInv, StepRefines, PTL
  DEF Spec, ImplementsKernelLock, Atomic!Spec
=============================================================================
