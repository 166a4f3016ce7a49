--------------------------- MODULE StaticQueueProofs ---------------------------
(***************************************************************************)
(* For every number of tasks, every set of interrupts of Kernel or User    *)
(* level, every capacity and every element type: the critical section of   *)
(* queue.hpp excludes, its indices stay consistent, and the queue is an    *)
(* atomic bounded first in, first out queue.                               *)
(***************************************************************************)
EXTENDS StaticQueue, TLAPS

\* BASEPRI tells whether somebody is inside; who is inside executes, and has
\* saved, or is about to use, the value 0.
MaskInv ==
  /\ basepri \in {0, KernelLevel}
  /\ basepri = KernelLevel <=> \E c \in Context : pc[c] \in Inside
  /\ \A c \in Context : pc[c] \in Inside \cup {"mask"} => saved[c] = 0
  /\ \A c \in Context : pc[c] \in Inside => Executes(c)

\* What an operation knows of the queue once its test has passed.
PlaceInv ==
  \A c \in Context :
    /\ pc[c] \in {"moveHead", "write", "count"} => op[c] = "send" /\ size < Max
    /\ pc[c] \in {"read", "moveTail", "uncount"} => op[c] = "receive" /\ size > 0
    /\ pc[c] = "count" => buf[head] = item[c]

Exclusion == TypeOK /\ MaskInv /\ OneInside

QueueInv == PlaceInv /\ IndicesAgree /\ ReceivesOldest /\ RefusalsJust

\* One context executes at a time.
LEMMA OneExecutes ==
  ASSUME TypeOK, NEW c \in Context, NEW d \in Context, Executes(c), Executes(d)
  PROVE  c = d
BY StaticQueueAssumption DEF TypeOK, Executes, ActiveIsrs, Context, KernelLevel

\* Whoever executes outside the critical section finds nobody inside.
LEMMA AloneOutside ==
  ASSUME Exclusion, NEW c \in Context, Executes(c), pc[c] \notin Inside
  PROVE  \A d \in Context : pc[d] \notin Inside
BY OneExecutes DEF Exclusion, MaskInv

\* A context inside its critical section is alone there.
LEMMA AloneInside ==
  ASSUME OneInside, NEW c \in Context, pc[c] \in Inside
  PROVE  \A d \in Context : d # c => pc[d] \notin Inside
BY DEF OneInside

\* A step of c from one place to another changes nobody else's place, nor
\* who executes unless c arrives or leaves.
LEMMA MoveFacts ==
  ASSUME TypeOK, NEW c \in Context, NEW from \in Places \ {"idle"}, NEW to \in Places \ {"idle"},
         Moves(c, from, to), thread' = thread
  PROVE  /\ pc' \in [Context -> Places]
         /\ pc[c] = from /\ pc'[c] = to /\ Executes(c)'
         /\ \A d \in Context : d # c => pc'[d] = pc[d]
         /\ \A d \in Context : Executes(d)' <=> Executes(d)
<1>1. pc' \in [Context -> Places] /\ pc[c] = from /\ pc'[c] = to
      /\ \A d \in Context : d # c => pc'[d] = pc[d]
  BY DEF Moves, TypeOK
<1>2. ActiveIsrs' = ActiveIsrs
  BY <1>1 DEF ActiveIsrs, Context
<1>3. \A d \in Context : Executes(d)' <=> Executes(d)
  BY <1>1, <1>2 DEF Executes, Context
<1> QED
  BY <1>1, <1>3 DEF Moves

LEMMA InitExclusion == Init => Exclusion
BY StaticQueueAssumption
DEF Init, Exclusion, TypeOK, MaskInv, OneInside, Inside, Places, KernelLevel

\* Every step keeps the types; the counter stays in range because the test
\* of its operation has passed.
LEMMA NextType == TypeOK /\ PlaceInv /\ [Next]_vars => TypeOK'
<1> SUFFICES ASSUME TypeOK, PlaceInv, [Next]_vars PROVE TypeOK'
  OBVIOUS
<1> USE StaticQueueAssumption DEF TypeOK, Places, Inside, KernelLevel, ring
<1>1. ASSUME NEW i \in Isrs, NEW x \in Items, NEW o \in {"send", "receive"}, Interrupt(i, o, x)
      PROVE  TypeOK'
  BY <1>1 DEF Interrupt, Context
<1>2. ASSUME NEW t \in Tasks, NEW x \in Items, NEW o \in {"send", "receive"}, TaskCall(t, o, x)
      PROVE  TypeOK'
  BY <1>2 DEF TaskCall, Moves, Context
<1>3. CASE SwitchTask
  BY <1>3 DEF SwitchTask
<1>4. ASSUME NEW c \in Context, Step(c) PROVE TypeOK'
  <2>1. CASE SaveMask(c) BY <2>1 DEF SaveMask, Moves
  <2>2. CASE SetMask(c) BY <2>2 DEF SetMask, Moves
  <2>3. CASE TestPasses(c) BY <2>3 DEF TestPasses, Moves
  <2>4. CASE TestRefuses(c) BY <2>4 DEF TestRefuses, Moves
  <2>5. CASE MoveHead(c) BY <2>5 DEF MoveHead, Moves
  <2>6. CASE Write(c) BY <2>6 DEF Write, Moves
  <2>7. CASE Count(c) BY <2>7 DEF Count, Moves, PlaceInv
  <2>8. CASE Read(c) BY <2>8 DEF Read, Moves
  <2>9. CASE MoveTail(c) BY <2>9 DEF MoveTail, Moves
  <2>10. CASE Uncount(c) BY <2>10 DEF Uncount, Moves, PlaceInv
  <2>11. CASE LeaveSection(c) BY <2>11 DEF LeaveSection, Moves
  <2> QED
    BY <1>4, <2>1, <2>2, <2>3, <2>4, <2>5, <2>6, <2>7, <2>8, <2>9, <2>10, <2>11 DEF Step
<1>5. CASE UNCHANGED vars
  BY <1>5 DEF vars
<1> HIDE DEF TypeOK, Places, Inside, KernelLevel, ring
<1> QED
  BY <1>1, <1>2, <1>3, <1>4, <1>5 DEF Next

\* A step inside the critical section keeps it exclusive.
LEMMA InsideStep ==
  ASSUME Exclusion, NEW c \in Context, NEW from \in Inside, NEW to \in Inside,
         Moves(c, from, to), UNCHANGED <<basepri, thread, saved>>
  PROVE  MaskInv' /\ OneInside'
<1>1. from \in Places \ {"idle"} /\ to \in Places \ {"idle"}
  BY DEF Places, Inside
<1>2. /\ pc[c] = from /\ pc'[c] = to
      /\ \A d \in Context : d # c => pc'[d] = pc[d]
      /\ \A d \in Context : Executes(d)' <=> Executes(d)
  BY <1>1, MoveFacts DEF Exclusion
<1>3. \A d \in Context : pc'[d] \in Inside <=> pc[d] \in Inside
  BY <1>2
<1>4. OneInside'
  BY <1>3 DEF Exclusion, OneInside
<1>5. MaskInv'
  <2>1. basepri' \in {0, KernelLevel}
    BY DEF Exclusion, MaskInv
  <2>2. basepri' = KernelLevel <=> \E d \in Context : pc'[d] \in Inside
    BY <1>3 DEF Exclusion, MaskInv
  <2>3. \A d \in Context : pc'[d] \in Inside \cup {"mask"} => saved'[d] = 0
    BY <1>2 DEF Exclusion, MaskInv
  <2>4. \A d \in Context : pc'[d] \in Inside => Executes(d)'
    BY <1>2, <1>3 DEF Exclusion, MaskInv
  <2> QED
    BY <2>1, <2>2, <2>3, <2>4 DEF MaskInv, KernelLevel
<1> QED
  BY <1>4, <1>5

\* Every step keeps the critical section exclusive.
LEMMA NextExclusion == Exclusion /\ PlaceInv /\ [Next]_vars => Exclusion'
<1> SUFFICES ASSUME Exclusion, PlaceInv, [Next]_vars PROVE MaskInv' /\ OneInside'
  BY NextType DEF Exclusion
<1> DEFINE Nobody == \A d \in Context : pc[d] \notin Inside
<1>0. "enter" \notin Inside /\ "mask" \notin Inside /\ "idle" \notin Inside
  BY DEF Inside
<1>1. ASSUME NEW i \in Isrs, NEW x \in Items, NEW o \in {"send", "receive"}, Interrupt(i, o, x)
      PROVE  MaskInv' /\ OneInside'
  <2>1. Level[i] >= KernelLevel /\ basepri = 0
    BY <1>1, StaticQueueAssumption DEF Interrupt, Masked, Exclusion, MaskInv, KernelLevel
  <2>2. Nobody
    BY <2>1 DEF Exclusion, MaskInv, KernelLevel
  <2>3. pc' = [pc EXCEPT ![i] = "enter"] /\ pc[i] = "idle" /\ i \in Context
        /\ basepri' = basepri /\ saved' = saved
    BY <1>1 DEF Interrupt, Context
  <2>4. \A d \in Context : pc'[d] \notin Inside
    BY <1>0, <2>2, <2>3 DEF Exclusion, TypeOK
  <2>5. \A d \in Context : pc'[d] = "mask" => pc[d] = "mask"
    BY <2>3 DEF Exclusion, TypeOK
  <2> QED
    BY <2>1, <2>3, <2>4, <2>5 DEF MaskInv, OneInside, Exclusion, KernelLevel
<1>2. ASSUME NEW t \in Tasks, NEW x \in Items, NEW o \in {"send", "receive"}, TaskCall(t, o, x)
      PROVE  MaskInv' /\ OneInside'
  <2>1. /\ pc' = [pc EXCEPT ![t] = "enter"] /\ pc[t] = "idle" /\ t \in Context
        /\ basepri' = basepri /\ saved' = saved /\ Executes(t)
    BY <1>2 DEF TaskCall, Moves, Context
  <2>2. Nobody
    BY <1>0, <2>1, AloneOutside
  <2>3. basepri = 0
    BY <2>2 DEF Exclusion, MaskInv
  <2>4. \A d \in Context : pc'[d] \notin Inside
    BY <1>0, <2>1, <2>2 DEF Exclusion, TypeOK
  <2>5. \A d \in Context : pc'[d] = "mask" => pc[d] = "mask"
    BY <2>1 DEF Exclusion, TypeOK
  <2> QED
    BY <2>1, <2>3, <2>4, <2>5 DEF MaskInv, OneInside, Exclusion, KernelLevel
<1>3. CASE SwitchTask
  <2>1. basepri = 0 /\ UNCHANGED <<pc, basepri, saved>>
    BY <1>3 DEF SwitchTask, Masked, Exclusion, MaskInv, KernelLevel
  <2>2. Nobody
    BY <2>1 DEF Exclusion, MaskInv, KernelLevel
  <2> QED
    BY <2>1, <2>2 DEF MaskInv, OneInside, Exclusion, KernelLevel
<1>4. ASSUME NEW c \in Context, Step(c) PROVE MaskInv' /\ OneInside'
  <2>1. CASE SaveMask(c)
    <3>1. Moves(c, "enter", "mask") /\ basepri' = basepri /\ thread' = thread
          /\ saved' = [saved EXCEPT ![c] = basepri]
      BY <2>1 DEF SaveMask
    <3>2. pc[c] = "enter" /\ pc'[c] = "mask" /\ Executes(c)
          /\ \A d \in Context : d # c => pc'[d] = pc[d]
      BY <3>1 DEF Moves, Exclusion, TypeOK
    <3>3. Nobody
      BY <1>0, <3>2, AloneOutside
    <3>4. basepri = 0
      BY <3>3 DEF Exclusion, MaskInv
    <3>5. \A d \in Context : pc'[d] \notin Inside
      BY <1>0, <3>2, <3>3
    <3>6. \A d \in Context : pc'[d] = "mask" => saved'[d] = 0
      BY <3>1, <3>2, <3>4 DEF Exclusion, TypeOK, MaskInv
    <3> QED
      BY <3>1, <3>4, <3>5, <3>6 DEF MaskInv, OneInside, KernelLevel
  <2>2. CASE SetMask(c)
    <3>1. Moves(c, "mask", "test") /\ basepri' = KernelLevel /\ UNCHANGED <<thread, saved>>
      BY <2>2 DEF SetMask
    <3>2. /\ pc[c] = "mask" /\ pc'[c] = "test" /\ Executes(c)' /\ Executes(c)
          /\ \A d \in Context : d # c => pc'[d] = pc[d]
      BY <3>1, MoveFacts DEF Exclusion, Places, Inside, Moves
    <3>3. Nobody
      BY <1>0, <3>2, AloneOutside
    <3>4. \A d \in Context : pc'[d] \in Inside <=> d = c
      BY <3>2, <3>3 DEF Inside
    <3>5. \A d \in Context : pc'[d] \in Inside \cup {"mask"} => saved'[d] = 0
      BY <3>1, <3>2 DEF Exclusion, MaskInv
    <3> QED
      BY <3>1, <3>2, <3>4, <3>5 DEF MaskInv, OneInside
  <2>3. CASE LeaveSection(c)
    <3>1. PICK from \in {"leave", "refused"} : Moves(c, from, "idle")
      BY <2>3 DEF LeaveSection
    <3>2. pc[c] \in Inside /\ pc'[c] = "idle" /\ \A d \in Context : d # c => pc'[d] = pc[d]
      BY <3>1 DEF Moves, Exclusion, TypeOK, Inside
    <3>3. basepri' = 0 /\ saved' = saved
      BY <2>3, <3>2 DEF LeaveSection, Exclusion, MaskInv
    <3>4. \A d \in Context : pc'[d] \notin Inside
      BY <1>0, <3>2, AloneInside DEF Exclusion
    <3>5. \A d \in Context : pc'[d] = "mask" => pc[d] = "mask"
      BY <3>2
    <3> QED
      BY <3>3, <3>4, <3>5 DEF MaskInv, OneInside, Exclusion, KernelLevel
  <2>4. CASE \/ TestPasses(c) \/ TestRefuses(c) \/ MoveHead(c) \/ Write(c) \/ Count(c)
            \/ Read(c) \/ MoveTail(c) \/ Uncount(c)
    <3>1. \E from, to \in Inside : Moves(c, from, to)
      BY <2>4 DEF TestPasses, TestRefuses, MoveHead, Write, Count, Read, MoveTail, Uncount, Inside
    <3>2. UNCHANGED <<basepri, thread, saved>>
      BY <2>4 DEF TestPasses, TestRefuses, MoveHead, Write, Count, Read, MoveTail, Uncount
    <3> QED
      BY <3>1, <3>2, InsideStep
  <2> QED
    BY <1>4, <2>1, <2>2, <2>3, <2>4 DEF Step
<1>5. CASE UNCHANGED vars
  BY <1>5 DEF vars, Exclusion, MaskInv, OneInside, Executes, ActiveIsrs
<1> QED
  BY <1>1, <1>2, <1>3, <1>4, <1>5 DEF Next

-------------------------------------------------------------------------------
\* A step that leaves the queue alone, and before and after which nobody is
\* at work on it, keeps what is known of the queue.
LEMMA QuietStep ==
  ASSUME QueueInv, UNCHANGED ring,
         \A d \in Context : pc[d] \notin {"write", "count", "uncount"},
         \A d \in Context : pc'[d] \notin Inside \ {"test", "leave"}
  PROVE  QueueInv'
BY DEF QueueInv, PlaceInv, IndicesAgree, ReceivesOldest, RefusalsJust, Live, At, Wrap, Inside, ring

\* The places of the others do not matter while c is inside.
LEMMA WhereInside ==
  ASSUME TypeOK, OneInside, NEW c \in Context, NEW from \in Inside, NEW to \in Inside,
         Moves(c, from, to)
  PROVE  /\ pc[c] = from /\ pc'[c] = to
         /\ \A d \in Context : d # c => pc[d] \notin Inside /\ pc'[d] \notin Inside
         /\ At({"write", "count"}) <=> from \in {"write", "count"}
         /\ At({"write", "count"})' <=> to \in {"write", "count"}
         /\ At({"uncount"}) <=> from = "uncount"
         /\ At({"uncount"})' <=> to = "uncount"
<1>1. pc[c] = from /\ pc'[c] = to /\ \A d \in Context : d # c => pc'[d] = pc[d]
  BY DEF Moves, TypeOK
<1>2. \A d \in Context : d # c => pc[d] \notin Inside /\ pc'[d] \notin Inside
  BY <1>1, AloneInside
<1> QED
  BY <1>1, <1>2 DEF At, Inside

\* Wrap keeps a place within the buffer.
LEMMA WrapInside ==
  ASSUME TypeOK, NEW n \in 0 .. Max - 1
  PROVE  Wrap(tail + n) \in 0 .. Max - 1
BY StaticQueueAssumption DEF TypeOK, Wrap

\* Different offsets within a full turn are different places.
LEMMA WrapInjective ==
  ASSUME TypeOK, NEW m \in 0 .. Max - 1, NEW n \in 0 .. Max - 1, m # n
  PROVE  Wrap(tail + m) # Wrap(tail + n)
BY StaticQueueAssumption DEF TypeOK, Wrap

LEMMA InitQueue == Init => QueueInv
BY StaticQueueAssumption
DEF Init, QueueInv, PlaceInv, IndicesAgree, ReceivesOldest, RefusalsJust, Live, At, Wrap

\* Every step of an operation keeps the queue sound.
LEMMA NextQueue == Exclusion /\ QueueInv /\ [Next]_vars => QueueInv'
<1> SUFFICES ASSUME Exclusion, QueueInv, [Next]_vars PROVE QueueInv'
  OBVIOUS
<1>0. TypeOK /\ TypeOK' /\ OneInside
  BY NextType DEF Exclusion, QueueInv
<1>1. ASSUME NEW i \in Isrs, NEW x \in Items, NEW o \in {"send", "receive"}, Interrupt(i, o, x)
      PROVE  QueueInv'
  <2>1. basepri = 0
    BY <1>1, StaticQueueAssumption DEF Interrupt, Masked, Exclusion, MaskInv, KernelLevel
  <2>2. \A d \in Context : pc[d] \notin Inside
    BY <2>1 DEF Exclusion, MaskInv, KernelLevel
  <2>3. \A d \in Context : pc'[d] \notin Inside
    BY <1>0, <1>1, <2>2 DEF Interrupt, Inside, TypeOK, Context
  <2> QED
    BY <1>1, <2>2, <2>3, QuietStep DEF Interrupt, Inside
<1>2. ASSUME NEW t \in Tasks, NEW x \in Items, NEW o \in {"send", "receive"}, TaskCall(t, o, x)
      PROVE  QueueInv'
  <2>1. t \in Context /\ Moves(t, "idle", "enter") /\ UNCHANGED ring
    BY <1>2 DEF TaskCall, Context
  <2>2. \A d \in Context : pc[d] \notin Inside
    BY <2>1, AloneOutside DEF Moves, Inside
  <2>3. \A d \in Context : pc'[d] \notin Inside
    BY <1>0, <2>1, <2>2 DEF Moves, Inside, TypeOK
  <2> QED
    BY <2>1, <2>2, <2>3, QuietStep DEF Inside
<1>3. CASE SwitchTask
  <2>1. basepri = 0 /\ pc' = pc /\ UNCHANGED ring
    BY <1>3 DEF SwitchTask, Masked, Exclusion, MaskInv, KernelLevel
  <2>2. \A d \in Context : pc[d] \notin Inside
    BY <2>1 DEF Exclusion, MaskInv, KernelLevel
  <2> QED
    BY <2>1, <2>2, QuietStep DEF Inside
<1>4. ASSUME NEW c \in Context, Step(c) PROVE QueueInv'
  <2>1. CASE SaveMask(c)
    <3>1. Moves(c, "enter", "mask") /\ UNCHANGED ring
      BY <2>1 DEF SaveMask
    <3>2. \A d \in Context : pc[d] \notin Inside
      BY <3>1, AloneOutside DEF Moves, Inside
    <3>3. \A d \in Context : pc'[d] \notin Inside
      BY <1>0, <3>1, <3>2 DEF Moves, Inside, TypeOK
    <3> QED
      BY <3>1, <3>2, <3>3, QuietStep DEF Inside
  <2>2. CASE SetMask(c)
    <3>1. Moves(c, "mask", "test") /\ UNCHANGED ring
      BY <2>2 DEF SetMask
    <3>2. \A d \in Context : pc[d] \notin Inside
      BY <3>1, AloneOutside DEF Moves, Inside
    <3>3. \A d \in Context : pc'[d] \notin Inside \ {"test"}
      BY <1>0, <3>1, <3>2 DEF Moves, Inside, TypeOK
    <3> QED
      BY <3>1, <3>2, <3>3, QuietStep DEF Inside
  <2>3. CASE TestPasses(c)
    <3>1. PICK to \in {"moveHead", "read"} :
            /\ Moves(c, "test", to) /\ UNCHANGED <<ring, op, item>>
            /\ to = "moveHead" => op[c] = "send" /\ size < Max
            /\ to = "read" => op[c] = "receive" /\ size > 0
      BY <1>0, <2>3, StaticQueueAssumption DEF TestPasses, Full, TypeOK
    <3>2. "test" \in Inside /\ to \in Inside
      BY DEF Inside
    <3> QED
      BY <1>0, <3>1, <3>2, WhereInside
      DEF QueueInv, PlaceInv, IndicesAgree, ReceivesOldest, RefusalsJust, Live, Wrap, ring, Inside
  <2>4. CASE TestRefuses(c)
    <3>1. /\ Moves(c, "test", "refused") /\ UNCHANGED <<ring, op, item>>
          /\ size = IF op[c] = "send" THEN Max ELSE 0
      BY <1>0, <2>4, StaticQueueAssumption DEF TestRefuses, Full, TypeOK
    <3>2. "test" \in Inside /\ "refused" \in Inside
      BY DEF Inside
    <3> QED
      BY <1>0, <3>1, <3>2, WhereInside
      DEF QueueInv, PlaceInv, IndicesAgree, ReceivesOldest, RefusalsJust, Live, Wrap, ring, Inside
  <2>5. CASE MoveHead(c)
    <3>1. /\ Moves(c, "moveHead", "write") /\ UNCHANGED <<size, tail, buf, op, item>>
          /\ head' = IF size # 0 THEN IF head + 1 >= Max THEN 0 ELSE head + 1 ELSE head
      BY <2>5 DEF MoveHead
    <3>2. "moveHead" \in Inside /\ "write" \in Inside
      BY DEF Inside
    <3>3. op[c] = "send" /\ size < Max
      BY <3>1 DEF Moves, QueueInv, PlaceInv
    <3>4. IndicesAgree'
      BY <1>0, <3>1, <3>2, <3>3, WhereInside, StaticQueueAssumption
      DEF QueueInv, IndicesAgree, Live, Wrap, TypeOK
    <3> QED
      BY <1>0, <3>1, <3>2, <3>3, <3>4, WhereInside
      DEF QueueInv, PlaceInv, ReceivesOldest, RefusalsJust, Inside
  <2>6. CASE Write(c)
    <3>1. /\ Moves(c, "write", "count") /\ UNCHANGED <<size, head, tail, op, item>>
          /\ buf' = [buf EXCEPT ![head] = item[c]]
      BY <2>6 DEF Write
    <3>2. "write" \in Inside /\ "count" \in Inside
      BY DEF Inside
    <3>3. op[c] = "send" /\ size < Max
      BY <3>1 DEF Moves, QueueInv, PlaceInv
    <3>4. buf'[head] = item[c]
      BY <1>0, <3>1 DEF TypeOK
    <3>5. IndicesAgree'
      BY <1>0, <3>1, <3>2, <3>3, WhereInside DEF QueueInv, IndicesAgree, Wrap
    <3> QED
      BY <1>0, <3>1, <3>2, <3>3, <3>4, <3>5, WhereInside
      DEF QueueInv, PlaceInv, ReceivesOldest, RefusalsJust, Inside
  <2>7. CASE Count(c)
    <3>1. /\ Moves(c, "count", "leave") /\ UNCHANGED <<head, tail, buf, op, item>>
          /\ size' = size + 1
      BY <2>7 DEF Count
    <3>2. "count" \in Inside /\ "leave" \in Inside
      BY DEF Inside
    <3>3. IndicesAgree'
      BY <1>0, <3>1, <3>2, WhereInside DEF QueueInv, IndicesAgree, Live, Wrap, TypeOK
    <3> QED
      BY <1>0, <3>1, <3>2, <3>3, WhereInside
      DEF QueueInv, PlaceInv, ReceivesOldest, RefusalsJust, Inside
  <2>8. CASE Read(c)
    <3>1. /\ Moves(c, "read", "moveTail") /\ UNCHANGED <<ring, op>>
          /\ item' = [item EXCEPT ![c] = buf[tail]]
      BY <2>8 DEF Read
    <3>2. "read" \in Inside /\ "moveTail" \in Inside
      BY DEF Inside
    <3>3. op[c] = "receive" /\ size > 0
      BY <3>1 DEF Moves, QueueInv, PlaceInv
    <3>4. item'[c] = buf[tail] /\ \A d \in Context : d # c => item'[d] = item[d]
      BY <1>0, <3>1 DEF TypeOK
    <3>5. Live' = size /\ Live = size
      BY <1>0, <3>1, <3>2, WhereInside DEF Live, ring
    <3>6. Contents'[1] = buf[tail]
      BY <1>0, <3>1, <3>3, <3>5, StaticQueueAssumption DEF Contents, Wrap, TypeOK, ring
    <3>7. IndicesAgree'
      BY <1>0, <3>1, <3>2, <3>5, WhereInside DEF QueueInv, IndicesAgree, Wrap, ring
    <3> QED
      BY <1>0, <3>1, <3>2, <3>3, <3>4, <3>5, <3>6, <3>7, WhereInside
      DEF QueueInv, PlaceInv, ReceivesOldest, RefusalsJust, Inside, ring
  <2>9. CASE MoveTail(c)
    <3>1. /\ Moves(c, "moveTail", "uncount") /\ UNCHANGED <<size, head, buf, op, item>>
          /\ tail' = IF size > 1 THEN IF tail + 1 >= Max THEN 0 ELSE tail + 1 ELSE tail
      BY <2>9 DEF MoveTail
    <3>2. "moveTail" \in Inside /\ "uncount" \in Inside
      BY DEF Inside
    <3>3. op[c] = "receive" /\ size > 0
      BY <3>1 DEF Moves, QueueInv, PlaceInv
    <3>4. IndicesAgree'
      BY <1>0, <3>1, <3>2, <3>3, WhereInside, StaticQueueAssumption
      DEF QueueInv, IndicesAgree, Live, Wrap, TypeOK
    <3> QED
      BY <1>0, <3>1, <3>2, <3>3, <3>4, WhereInside
      DEF QueueInv, PlaceInv, ReceivesOldest, RefusalsJust, Inside
  <2>10. CASE Uncount(c)
    <3>1. /\ Moves(c, "uncount", "leave") /\ UNCHANGED <<head, tail, buf, op, item>>
          /\ size' = size - 1
      BY <2>10 DEF Uncount
    <3>2. "uncount" \in Inside /\ "leave" \in Inside
      BY DEF Inside
    <3>3. IndicesAgree'
      BY <1>0, <3>1, <3>2, WhereInside DEF QueueInv, IndicesAgree, Live, Wrap, TypeOK
    <3> QED
      BY <1>0, <3>1, <3>2, <3>3, WhereInside
      DEF QueueInv, PlaceInv, ReceivesOldest, RefusalsJust, Inside
  <2>11. CASE LeaveSection(c)
    <3>1. PICK from \in {"leave", "refused"} : Moves(c, from, "idle")
      BY <2>11 DEF LeaveSection
    <3>2. \A d \in Context : d # c => pc[d] \notin Inside
      BY <1>0, <3>1, AloneInside DEF Moves, Inside
    <3>3. \A d \in Context : pc'[d] \notin Inside /\ pc[d] \notin {"write", "count", "uncount"}
      BY <1>0, <3>1, <3>2 DEF Moves, TypeOK, Inside
    <3> QED
      BY <2>11, <3>3, QuietStep DEF LeaveSection
  <2> QED
    BY <1>4, <2>1, <2>2, <2>3, <2>4, <2>5, <2>6, <2>7, <2>8, <2>9, <2>10, <2>11 DEF Step
<1>5. CASE UNCHANGED vars
  BY <1>5 DEF vars, ring, QueueInv, PlaceInv, IndicesAgree, ReceivesOldest, RefusalsJust, Live, At,
              Contents
<1> QED
  BY <1>1, <1>2, <1>3, <1>4, <1>5 DEF Next

-------------------------------------------------------------------------------
Inv == Exclusion /\ QueueInv

LEMMA InitInv == Init => Inv
BY InitExclusion, InitQueue DEF Inv

LEMMA NextInv == Inv /\ [Next]_vars => Inv'
BY NextExclusion, NextQueue DEF Inv, QueueInv

\* In every reachable state at most one context is inside the critical
\* section of the queue (queue.hpp send and receive).
THEOREM SectionExcludes == Spec => []OneInside
<1>1. Inv => OneInside
  BY DEF Inv, Exclusion
<1> QED
  BY <1>1, InitInv, NextInv, PTL DEF Spec

\* In every reachable state, in the middle of an operation too, head, tail
\* and size of the ring buffer agree.
THEOREM RingIsConsistent == Spec => []IndicesAgree
<1>1. Inv => IndicesAgree
  BY DEF Inv, QueueInv
<1> QED
  BY <1>1, InitInv, NextInv, PTL DEF Spec

\* In every reachable state a receive has read the oldest element.
THEOREM ReceiveIsFirstIn == Spec => []ReceivesOldest
<1>1. Inv => ReceivesOldest
  BY DEF Inv, QueueInv
<1> QED
  BY <1>1, InitInv, NextInv, PTL DEF Spec

\* In every reachable state a refused send found the queue full, a refused
\* receive found it empty.
THEOREM RefusalIsJust == Spec => []RefusalsJust
<1>1. Inv => RefusalsJust
  BY DEF Inv, QueueInv
<1> QED
  BY <1>1, InitInv, NextInv, PTL DEF Spec

\* The elements do not change when neither the count of the elements, nor
\* their places, nor the buffer at their places change.
LEMMA SameContents ==
  ASSUME Live' = Live, tail' = tail, Live \in Nat,
         \A i \in 1 .. Live : buf'[Wrap(tail + i - 1)] = buf[Wrap(tail + i - 1)]
  PROVE  Contents' = Contents
BY DEF Contents, Wrap

\* The count of a send appends its element.
LEMMA CountAppends ==
  ASSUME Inv, NEW c \in Context, Count(c)
  PROVE  Len(Contents) < Max /\ Contents' = Append(Contents, item[c])
<1>1. /\ Moves(c, "count", "leave") /\ UNCHANGED <<head, tail, buf, op, item>>
      /\ size' = size + 1 /\ "count" \in Inside /\ "leave" \in Inside
  BY DEF Count, Inside
<1>2. TypeOK /\ OneInside
  BY DEF Inv, Exclusion
<1>3. size \in Nat /\ Live = size /\ Live' = size + 1
  BY <1>1, <1>2, WhereInside DEF Live, TypeOK
<1>4. size < Max /\ head = Wrap(tail + size) /\ buf[head] = item[c]
  BY <1>1, <1>2, WhereInside DEF Inv, QueueInv, PlaceInv, IndicesAgree
<1>5. Len(Contents) = size /\ Contents = [i \in 1 .. size |-> buf[Wrap(tail + i - 1)]]
  BY <1>3 DEF Contents
<1>6. Contents' = [i \in 1 .. size + 1 |-> buf[Wrap(tail + i - 1)]]
  BY <1>1, <1>3 DEF Contents, Wrap
<1>7. tail + (size + 1) - 1 = tail + size
  BY <1>2, <1>3 DEF TypeOK
<1> QED
  BY <1>3, <1>4, <1>5, <1>6, <1>7

\* The move of the tail removes the first element.
LEMMA MoveTailDrops ==
  ASSUME Inv, NEW c \in Context, MoveTail(c)
  PROVE  Contents # <<>> /\ Contents' = Tail(Contents)
<1>1. /\ Moves(c, "moveTail", "uncount") /\ UNCHANGED <<size, head, buf, op, item>>
      /\ tail' = IF size > 1 THEN IF tail + 1 >= Max THEN 0 ELSE tail + 1 ELSE tail
      /\ "moveTail" \in Inside /\ "uncount" \in Inside
  BY DEF MoveTail, Inside
<1>2. TypeOK /\ OneInside
  BY DEF Inv, Exclusion
<1>3. size \in Nat /\ Live = size /\ Live' = size - 1 /\ size > 0 /\ size <= Max
  BY <1>1, <1>2, WhereInside DEF Live, TypeOK, Inv, QueueInv, PlaceInv
<1>4. Contents = [i \in 1 .. size |-> buf[Wrap(tail + i - 1)]]
  BY <1>3 DEF Contents
<1>5. Contents' = [i \in 1 .. size - 1 |-> buf[Wrap(tail' + i - 1)]]
  BY <1>1, <1>3 DEF Contents, Wrap
<1>6. \A i \in 1 .. size - 1 : Wrap(tail' + i - 1) = Wrap(tail + (i + 1) - 1)
  BY <1>1, <1>2, <1>3, StaticQueueAssumption DEF Wrap, TypeOK
<1>7. Tail(Contents) = [i \in 1 .. size - 1 |-> buf[Wrap(tail + (i + 1) - 1)]]
  BY <1>3, <1>4
<1> QED
  BY <1>3, <1>4, <1>5, <1>6, <1>7

\* Every other step leaves the elements as they are.
LEMMA OthersKeep ==
  ASSUME Inv, Inv', [Next]_vars, \A c \in Context : ~ Count(c) /\ ~ MoveTail(c)
  PROVE  Contents' = Contents
<1>0. TypeOK /\ TypeOK' /\ OneInside /\ Live \in Nat
  BY DEF Inv, Exclusion, TypeOK, Live, At, QueueInv, PlaceInv
<1> DEFINE Calm == UNCHANGED ring /\ ~ At({"uncount"}) /\ ~ At({"uncount"})'
<1>1. Calm => Contents' = Contents
  BY <1>0, SameContents DEF Live, ring
<1>2. ASSUME NEW i \in Isrs, NEW x \in Items, NEW o \in {"send", "receive"}, Interrupt(i, o, x)
      PROVE  Contents' = Contents
  <2>1. basepri = 0
    BY <1>2, StaticQueueAssumption DEF Inv, Interrupt, Masked, Exclusion, MaskInv, KernelLevel
  <2>2. \A d \in Context : pc[d] \notin Inside
    BY <2>1 DEF Inv, Exclusion, MaskInv, KernelLevel
  <2> QED
    BY <1>0, <1>1, <1>2, <2>2 DEF Interrupt, Inside, TypeOK, Context, At
<1>3. ASSUME NEW t \in Tasks, NEW x \in Items, NEW o \in {"send", "receive"}, TaskCall(t, o, x)
      PROVE  Contents' = Contents
  <2>1. t \in Context /\ Moves(t, "idle", "enter") /\ UNCHANGED ring
    BY <1>3 DEF TaskCall, Context
  <2>2. \A d \in Context : pc[d] \notin Inside
    BY <2>1, AloneOutside DEF Moves, Inside, Inv
  <2> QED
    BY <1>0, <1>1, <2>1, <2>2 DEF Moves, Inside, TypeOK, At
<1>4. CASE SwitchTask
  <2>1. basepri = 0 /\ pc' = pc /\ UNCHANGED ring
    BY <1>4 DEF Inv, SwitchTask, Masked, Exclusion, MaskInv, KernelLevel
  <2>2. \A d \in Context : pc[d] \notin Inside
    BY <2>1 DEF Inv, Exclusion, MaskInv, KernelLevel
  <2> QED
    BY <1>1, <2>1, <2>2 DEF Inside, At
<1>5. ASSUME NEW c \in Context, Step(c) PROVE Contents' = Contents
  <2>1. CASE SaveMask(c)
    <3>1. Moves(c, "enter", "mask") /\ UNCHANGED ring
      BY <2>1 DEF SaveMask
    <3>2. \A d \in Context : pc[d] \notin Inside
      BY <3>1, AloneOutside DEF Moves, Inside, Inv
    <3> QED
      BY <1>0, <1>1, <3>1, <3>2 DEF Moves, Inside, TypeOK, At
  <2>2. CASE SetMask(c)
    <3>1. Moves(c, "mask", "test") /\ UNCHANGED ring
      BY <2>2 DEF SetMask
    <3>2. \A d \in Context : pc[d] \notin Inside
      BY <3>1, AloneOutside DEF Moves, Inside, Inv
    <3> QED
      BY <1>0, <1>1, <3>1, <3>2 DEF Moves, Inside, TypeOK, At
  <2>3. CASE TestPasses(c) \/ TestRefuses(c)
    <3>1. PICK to \in {"moveHead", "read", "refused"} : Moves(c, "test", to) /\ UNCHANGED ring
      BY <2>3 DEF TestPasses, TestRefuses
    <3>2. "test" \in Inside /\ to \in Inside
      BY DEF Inside
    <3> QED
      BY <1>0, <1>1, <3>1, <3>2, WhereInside
  <2>4. CASE MoveHead(c)
    <3>1. Moves(c, "moveHead", "write") /\ UNCHANGED <<size, tail, buf>>
          /\ "moveHead" \in Inside /\ "write" \in Inside
      BY <2>4 DEF MoveHead, Inside
    <3>2. Live' = Live
      BY <1>0, <3>1, WhereInside DEF Live
    <3> QED
      BY <1>0, <3>1, <3>2, SameContents
  <2>5. CASE Write(c)
    <3>1. Moves(c, "write", "count") /\ UNCHANGED <<size, head, tail>>
          /\ buf' = [buf EXCEPT ![head] = item[c]]
          /\ "write" \in Inside /\ "count" \in Inside
      BY <2>5 DEF Write, Inside
    <3>2. Live' = Live /\ Live = size /\ size < Max /\ head = Wrap(tail + size)
      BY <1>0, <3>1, WhereInside DEF Live, Inv, QueueInv, IndicesAgree
    <3>3. ASSUME NEW i \in 1 .. Live
          PROVE  buf'[Wrap(tail + i - 1)] = buf[Wrap(tail + i - 1)]
      <4> DEFINE m == i - 1
      <4>1. m \in 0 .. Max - 1 /\ size \in 0 .. Max - 1 /\ m # size /\ tail + i - 1 = tail + m
        BY <1>0, <3>2, StaticQueueAssumption DEF TypeOK
      <4>2. Wrap(tail + m) # head /\ Wrap(tail + m) \in 0 .. Max - 1
        BY <1>0, <3>2, <4>1, WrapInjective, WrapInside
      <4> QED
        BY <1>0, <3>1, <4>1, <4>2 DEF TypeOK
    <3> QED
      BY <1>0, <3>1, <3>2, <3>3, SameContents
  <2>6. CASE Read(c)
    <3>1. Moves(c, "read", "moveTail") /\ UNCHANGED ring
          /\ "read" \in Inside /\ "moveTail" \in Inside
      BY <2>6 DEF Read, Inside
    <3> QED
      BY <1>0, <1>1, <3>1, WhereInside
  <2>7. CASE Uncount(c)
    <3>1. Moves(c, "uncount", "leave") /\ UNCHANGED <<head, tail, buf>> /\ size' = size - 1
          /\ "uncount" \in Inside /\ "leave" \in Inside
      BY <2>7 DEF Uncount, Inside
    <3>2. Live' = Live
      BY <1>0, <3>1, WhereInside DEF Live
    <3> QED
      BY <1>0, <3>1, <3>2, SameContents
  <2>8. CASE LeaveSection(c)
    <3>1. PICK from \in {"leave", "refused"} : Moves(c, from, "idle") /\ UNCHANGED ring
      BY <2>8 DEF LeaveSection
    <3>2. \A d \in Context : d # c => pc[d] \notin Inside
      BY <1>0, <3>1, AloneInside DEF Moves, Inside
    <3>3. \A d \in Context : pc'[d] \notin Inside /\ pc[d] # "uncount"
      BY <1>0, <3>1, <3>2 DEF Moves, TypeOK, Inside
    <3> QED
      BY <1>1, <3>1, <3>3 DEF At, Inside
  <2> QED
    BY <1>5, <2>1, <2>2, <2>3, <2>4, <2>5, <2>6, <2>7, <2>8 DEF Step
<1>6. CASE UNCHANGED vars
  BY <1>6 DEF vars, Contents, Live, At, Wrap
<1> QED
  BY <1>2, <1>3, <1>4, <1>5, <1>6 DEF Next

\* A step of the queue is a step of Fifo or a stutter.
LEMMA StepImplements == Inv /\ Inv' /\ [Next]_vars => [Queue!Next]_Contents
<1> SUFFICES ASSUME Inv, Inv', [Next]_vars PROVE [Queue!Next]_Contents
  OBVIOUS
<1>1. ASSUME NEW c \in Context, Count(c) PROVE Queue!Next
  <2>1. item[c] \in Items
    BY DEF Inv, Exclusion, TypeOK
  <2> QED
    BY <1>1, <2>1, CountAppends DEF Queue!Next, Queue!Send
<1>2. ASSUME NEW c \in Context, MoveTail(c) PROVE Queue!Next
  BY <1>2, MoveTailDrops DEF Queue!Next, Queue!Receive
<1>3. ASSUME \A c \in Context : ~ Count(c) /\ ~ MoveTail(c) PROVE UNCHANGED Contents
  BY <1>3, OthersKeep
<1> QED
  BY <1>1, <1>2, <1>3

\* send and receive, however interrupted, implement an atomic bounded first
\* in, first out queue.
THEOREM QueueImplementsFifo == Spec => ImplementsFifo
<1>1. Init => Queue!Init
  <2>1. Init => Live = 0
    BY DEF Init, Live, At
  <2> QED
    BY <2>1 DEF Queue!Init, Contents
<1> QED
  BY <1>1, InitInv, NextInv, StepImplements, PTL DEF Spec, ImplementsFifo, Queue!Spec
===============================================================================
