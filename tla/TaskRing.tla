------------------------------ MODULE TaskRing -------------------------------
(***************************************************************************)
(* What a ready list promises its scheduler: a bounded sequence of         *)
(* distinct tasks with a cursor.  out is what the last call returned.      *)
(***************************************************************************)
EXTENDS ReadyList

CONSTANTS Items, MaxSize

VARIABLES ring, out

Init == ring = EmptyList /\ out = NoTask

Add(t) ==
  LET added == t \notin Elems(ring) /\ Len(ring.list) < MaxSize
  IN  /\ ring' = IF added THEN AddTask(ring, t) ELSE ring
      /\ out' = IF added THEN t ELSE NoTask

Remove(t) == ring' = RemoveTask(ring, t) /\ out' = NoTask

FindNext == ring' = Advance(ring) /\ out' = ring'.cur

FindCurrent == out' = ring.cur /\ UNCHANGED ring

Next == (\E t \in Items : Add(t) \/ Remove(t)) \/ FindNext \/ FindCurrent

Spec == Init /\ [][Next]_<<ring, out>>
=============================================================================
