------------------------------ MODULE ReadyList ------------------------------
(***************************************************************************)
(* The ready list of one priority group (scheduler/ready_list.hpp) as a    *)
(* value: the tasks in the order of the circular list, first to last, and  *)
(* the task the cursor m_current points at.  When the list is empty the    *)
(* code never reads m_current (every reader tests count() first and the    *)
(* first addTask overwrites it), so an empty list has the single value     *)
(* EmptyList.  The pointer structure behind it is module CircularList,     *)
(* which is checked to implement these operators.                          *)
(***************************************************************************)
EXTENDS Integers, Sequences

NoTask == -1

EmptyList == [list |-> <<>>, cur |-> NoTask]

Elems(l) == {l.list[i] : i \in DOMAIN l.list}

Position(s, t) == CHOOSE i \in DOMAIN s : s[i] = t

\* nextIndex: the element after t, the first one after the last.
Following(s, t) ==
  LET i == Position(s, t) IN s[IF i = Len(s) THEN 1 ELSE i + 1]

\* CircularList::remove seen as a sequence: the others keep their order.
Without(s, t) ==
  LET i == Position(s, t)
  IN  [j \in 1 .. Len(s) - 1 |-> IF j < i THEN s[j] ELSE s[j + 1]]

\* A mutant: the cursor goes to every task that is added.
AddTaskTakesCursor(l, t) ==
  IF t \in Elems(l) THEN l ELSE [list |-> Append(l.list, t), cur |-> t]

\* A duplicate is refused; the first task added becomes the cursor.
AddTask(l, t) ==
  IF t \in Elems(l)
    THEN l
    ELSE [list |-> Append(l.list, t),
          cur  |-> IF l.list = <<>> THEN t ELSE l.cur]

\* A mutant: the cursor is not moved off the task that is removed.
RemoveTaskKeepsCursor(l, t) ==
  IF t \notin Elems(l) THEN l
  ELSE IF Len(l.list) = 1 THEN EmptyList
  ELSE [list |-> Without(l.list, t), cur |-> l.cur]

\* When the cursor is removed it moves to the next task, not to the first.
RemoveTask(l, t) ==
  IF t \notin Elems(l) THEN l
  ELSE IF Len(l.list) = 1 THEN EmptyList
  ELSE [list |-> Without(l.list, t),
        cur  |-> IF l.cur = t THEN Following(l.list, t) ELSE l.cur]

\* A mutant: round robin that never moves on.
AdvanceStuck(l) == l

\* findNextTask advances the cursor of the group and returns it.
Advance(l) ==
  IF Len(l.list) > 1 THEN [l EXCEPT !.cur = Following(l.list, l.cur)] ELSE l
=============================================================================
