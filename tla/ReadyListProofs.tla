---------------------------- MODULE ReadyListProofs ----------------------------
(***************************************************************************)
(* What the operations of a ready list preserve and return, for lists of   *)
(* any length over any set of tasks.                                       *)
(***************************************************************************)
EXTENDS ReadyList, TLAPS

\* The type of a ready list of tasks from S.
ListOf(S) == [list : Seq(S), cur : S \cup {NoTask}]

Distinct(l) == \A i, j \in DOMAIN l.list : l.list[i] = l.list[j] => i = j

CursorSound(l) == IF l.list = <<>> THEN l = EmptyList ELSE l.cur \in Elems(l)

Sound(l) == Distinct(l) /\ CursorSound(l)

\* The position of a listed task is one.
LEMMA PositionFacts ==
  ASSUME NEW S, NEW l \in ListOf(S), NEW t \in Elems(l)
  PROVE  /\ Position(l.list, t) \in 1 .. Len(l.list)
         /\ l.list[Position(l.list, t)] = t
BY DEF ListOf, Elems, Position

LEMMA EmptyListFacts ==
  ASSUME NEW S
  PROVE  EmptyList \in ListOf(S) /\ Sound(EmptyList) /\ Elems(EmptyList) = {}
BY DEF EmptyList, ListOf, Sound, Distinct, CursorSound, Elems

\* An empty list has no elements, and only an empty one.
LEMMA ElemsEmpty ==
  ASSUME NEW S, NEW l \in ListOf(S)
  PROVE  Elems(l) \subseteq S /\ (l.list = <<>> <=> Elems(l) = {})
<1>1. l.list \in Seq(S) /\ DOMAIN l.list = 1 .. Len(l.list) /\ Len(l.list) \in Nat
  BY DEF ListOf
<1>2. Elems(l) \subseteq S
  BY <1>1 DEF Elems
<1>3. ASSUME l.list # <<>> PROVE l.list[1] \in Elems(l)
  <2>1. Len(l.list) # 0
    BY <1>1, <1>3
  <2> QED
    BY <1>1, <2>1 DEF Elems
<1>4. ASSUME l.list = <<>> PROVE Elems(l) = {}
  BY <1>4 DEF Elems
<1> QED
  BY <1>2, <1>3, <1>4

\* addTask adds an absent task and keeps the cursor of a list that has one.
LEMMA AddTaskFacts ==
  ASSUME NEW S, NEW l \in ListOf(S), Sound(l), NEW t \in S, t \notin Elems(l)
  PROVE  /\ AddTask(l, t) \in ListOf(S) /\ Sound(AddTask(l, t))
         /\ Elems(AddTask(l, t)) = Elems(l) \cup {t}
         /\ AddTask(l, t).list # <<>>
         /\ AddTask(l, t).cur = IF l.list = <<>> THEN t ELSE l.cur
<1> DEFINE n == Len(l.list)
           m == AddTask(l, t)
<1>1. l.list \in Seq(S) /\ l.cur \in S \cup {NoTask} /\ n \in Nat
  BY DEF ListOf
<1>2. m = [list |-> Append(l.list, t), cur |-> IF l.list = <<>> THEN t ELSE l.cur]
  BY DEF AddTask
<1>3. /\ m.list \in Seq(S) /\ Len(m.list) = n + 1 /\ m.list[n + 1] = t
      /\ \A i \in 1 .. n : m.list[i] = l.list[i]
      /\ DOMAIN m.list = 1 .. n + 1 /\ DOMAIN l.list = 1 .. n
  BY <1>1, <1>2
<1>4. m \in ListOf(S)
  BY <1>1, <1>2, <1>3 DEF ListOf
<1>5. Elems(m) = Elems(l) \cup {t}
  <2>1. \A i \in 1 .. n + 1 : i \in 1 .. n \/ i = n + 1
    BY <1>1
  <2>2. \A i \in 1 .. n : i \in 1 .. n + 1
    BY <1>1
  <2>3. n + 1 \in 1 .. n + 1
    BY <1>1
  <2> QED
    BY <1>3, <2>1, <2>2, <2>3 DEF Elems
<1>6. Distinct(m)
  <2> SUFFICES ASSUME NEW i \in 1 .. n + 1, NEW j \in 1 .. n + 1, m.list[i] = m.list[j]
               PROVE  i = j
    BY <1>3 DEF Distinct
  <2>1. \A k \in 1 .. n : l.list[k] # t
    BY <1>3 DEF Elems
  <2>2. CASE i \in 1 .. n /\ j \in 1 .. n
    BY <1>3, <2>2 DEF Sound, Distinct
  <2>3. CASE i = n + 1 \/ j = n + 1
    BY <1>1, <1>3, <2>1, <2>3
  <2> QED
    BY <1>1, <2>2, <2>3
<1>7. m.list # <<>> /\ m.cur = IF l.list = <<>> THEN t ELSE l.cur
  BY <1>1, <1>2
<1>8. CursorSound(m)
  BY <1>5, <1>7 DEF Sound, CursorSound
<1> QED
  BY <1>4, <1>5, <1>6, <1>7, <1>8 DEF Sound

\* A sequence without one of its elements holds the others, once each.
LEMMA WithoutFacts ==
  ASSUME NEW S, NEW l \in ListOf(S), Distinct(l), NEW t \in Elems(l)
  PROVE  /\ Without(l.list, t) \in Seq(S) /\ Len(Without(l.list, t)) = Len(l.list) - 1
         /\ {Without(l.list, t)[i] : i \in DOMAIN Without(l.list, t)} = Elems(l) \ {t}
         /\ \A i, j \in DOMAIN Without(l.list, t) :
              Without(l.list, t)[i] = Without(l.list, t)[j] => i = j
<1> DEFINE s == l.list
           n == Len(s)
           p == Position(s, t)
<1>0. PICK w : w = Without(s, t)
  OBVIOUS
<1>1. s \in Seq(S) /\ n \in Nat /\ DOMAIN s = 1 .. n /\ p \in 1 .. n /\ s[p] = t
  BY PositionFacts DEF ListOf
<1>2. w = [j \in 1 .. n - 1 |-> IF j < p THEN s[j] ELSE s[j + 1]]
  BY <1>0 DEF Without
<1>3. \A j \in 1 .. n - 1 : j \in 1 .. n /\ j + 1 \in 1 .. n
  BY <1>1
<1>4. \A j \in 1 .. n - 1 : w[j] = (IF j < p THEN s[j] ELSE s[j + 1]) /\ w[j] \in S
  BY <1>1, <1>2, <1>3
<1>5. w \in Seq(S) /\ Len(w) = n - 1 /\ DOMAIN w = 1 .. n - 1
  BY <1>1, <1>2, <1>4
<1>6. \A i, j \in 1 .. n : s[i] = s[j] => i = j
  BY <1>1 DEF Distinct
<1>7. \A i, j \in 1 .. n - 1 : w[i] = w[j] => i = j
  BY <1>1, <1>3, <1>4, <1>6
<1>8. ASSUME NEW j \in 1 .. n - 1 PROVE w[j] \in Elems(l) /\ w[j] # t
  <2>1. PICK k \in 1 .. n : w[j] = s[k] /\ k # p
    <3>1. CASE j < p
      BY <1>1, <1>3, <1>4, <3>1, SMTT(30)
    <3>2. CASE ~ (j < p)
      <4>1. j + 1 \in 1 .. n /\ j + 1 # p
        BY <1>1, <1>3, <3>2
      <4> QED
        BY <1>4, <3>2, <4>1
    <3> QED
      BY <3>1, <3>2
  <2> QED
    BY <1>1, <1>6, <2>1 DEF Elems
<1>9. ASSUME NEW u \in Elems(l), u # t PROVE \E j \in 1 .. n - 1 : w[j] = u
  <2>1. PICK i \in 1 .. n : s[i] = u
    BY <1>1 DEF Elems
  <2>2. CASE i < p
    BY <1>1, <1>4, <2>1, <2>2
  <2>3. CASE i > p
    <3>1. i - 1 \in 1 .. n - 1 /\ ~ (i - 1 < p) /\ (i - 1) + 1 = i
      BY <1>1, <2>3
    <3> QED
      BY <1>4, <2>1, <3>1
  <2>4. i # p
    BY <1>1, <1>9, <2>1
  <2> QED
    BY <1>1, <2>2, <2>3, <2>4
<1>10. {w[i] : i \in DOMAIN w} = Elems(l) \ {t}
  BY <1>5, <1>8, <1>9
<1> QED
  BY <1>0, <1>5, <1>7, <1>10

\* The task after a listed one is listed, and is another one unless it is alone.
LEMMA FollowingFacts ==
  ASSUME NEW S, NEW l \in ListOf(S), Distinct(l), NEW t \in Elems(l)
  PROVE  /\ Following(l.list, t) \in Elems(l)
         /\ Len(l.list) > 1 => Following(l.list, t) # t
<1> DEFINE p == Position(l.list, t)
           q == IF p = Len(l.list) THEN 1 ELSE p + 1
<1>1. /\ Len(l.list) \in Nat /\ DOMAIN l.list = 1 .. Len(l.list)
      /\ p \in 1 .. Len(l.list) /\ l.list[p] = t
  BY PositionFacts DEF ListOf
<1>2. q \in 1 .. Len(l.list) /\ (Len(l.list) > 1 => q # p)
  BY <1>1
<1>3. Following(l.list, t) = l.list[q]
  BY DEF Following
<1> QED
  BY <1>1, <1>2, <1>3 DEF Elems, Distinct

\* removeTask removes the task, keeps the others, and moves only its own cursor.
LEMMA RemoveTaskFacts ==
  ASSUME NEW S, NEW l \in ListOf(S), Sound(l), NEW t
  PROVE  /\ RemoveTask(l, t) \in ListOf(S) /\ Sound(RemoveTask(l, t))
         /\ Elems(RemoveTask(l, t)) = Elems(l) \ {t}
         /\ l.cur \in Elems(l) \ {t} => RemoveTask(l, t).cur = l.cur
<1>1. CASE t \notin Elems(l)
  BY <1>1 DEF RemoveTask
<1>2. CASE t \in Elems(l) /\ Len(l.list) = 1
  <2>1. Elems(l) = {t}
    <3>1. DOMAIN l.list = {1}
      BY <1>2 DEF ListOf
    <3> QED
      BY <1>2, <3>1 DEF Elems
  <2>2. RemoveTask(l, t) = EmptyList
    BY <1>2 DEF RemoveTask
  <2> QED
    BY <2>1, <2>2, EmptyListFacts
<1>3. CASE t \in Elems(l) /\ Len(l.list) # 1
  <2> DEFINE w == Without(l.list, t)
             m == RemoveTask(l, t)
  <2>1. Len(l.list) > 1 /\ Len(l.list) \in Nat /\ l.list # <<>>
    <3>1. Len(l.list) \in Nat /\ Position(l.list, t) \in 1 .. Len(l.list)
      BY <1>3, PositionFacts DEF ListOf
    <3>2. \A n \in Nat : \A p \in 1 .. n : n # 1 => n > 1
      OBVIOUS
    <3>3. Len(l.list) # 1
      BY <1>3
    <3>4. Len(l.list) > 1
      BY <3>1, <3>2, <3>3
    <3>5. l.list # <<>>
      BY <3>4
    <3> QED
      BY <3>1, <3>4, <3>5
  <2>2. l.cur \in Elems(l) /\ Distinct(l)
    BY <2>1 DEF Sound, CursorSound
  <2>3. m = [list |-> w, cur |-> IF l.cur = t THEN Following(l.list, t) ELSE l.cur]
    BY <1>3 DEF RemoveTask
  <2>4. /\ w \in Seq(S) /\ Len(w) = Len(l.list) - 1
        /\ {w[i] : i \in DOMAIN w} = Elems(l) \ {t}
        /\ \A i, j \in DOMAIN w : w[i] = w[j] => i = j
    BY <1>3, <2>2, WithoutFacts
  <2>5. /\ IF l.cur = t THEN m.cur = Following(l.list, t) ELSE m.cur = l.cur
        /\ m.list = w
    BY <2>3
  <2>6. Following(l.list, t) \in Elems(l) \ {t}
    BY <1>3, <2>1, <2>2, FollowingFacts
  <2>7. Elems(m) = Elems(l) \ {t} /\ m.cur \in Elems(m)
    BY <2>2, <2>4, <2>5, <2>6 DEF Elems
  <2>8. m.cur \in S /\ m \in ListOf(S)
    BY <2>3, <2>4, <2>7, ElemsEmpty DEF ListOf
  <2>9. m.list # <<>> /\ Distinct(m)
    BY <2>1, <2>4, <2>5 DEF Distinct
  <2>10. Sound(m)
    BY <2>7, <2>9 DEF Sound, CursorSound
  <2>11. l.cur \in Elems(l) \ {t} => m.cur = l.cur
    BY <2>5
  <2> QED
    BY <2>7, <2>8, <2>10, <2>11
<1> QED
  BY <1>1, <1>2, <1>3

\* findNextTask moves the cursor of a group within the group, and off the
\* task it was at unless that one is alone.
LEMMA AdvanceFacts ==
  ASSUME NEW S, NEW l \in ListOf(S), Sound(l), l.list # <<>>
  PROVE  /\ Advance(l) \in ListOf(S) /\ Sound(Advance(l))
         /\ Advance(l).list = l.list /\ Elems(Advance(l)) = Elems(l)
         /\ Advance(l).cur \in Elems(l)
         /\ Len(l.list) > 1 => Advance(l).cur # l.cur
<1>1. l.cur \in Elems(l) /\ Distinct(l)
  BY DEF Sound, CursorSound
<1>2. CASE Len(l.list) > 1
  <2>1. Advance(l) = [l EXCEPT !.cur = Following(l.list, l.cur)]
    BY <1>2 DEF Advance
  <2>2. Following(l.list, l.cur) \in Elems(l) /\ Following(l.list, l.cur) # l.cur
    BY <1>1, <1>2, FollowingFacts
  <2>3. Following(l.list, l.cur) \in S
    BY <2>2, ElemsEmpty
  <2>4. Advance(l).list = l.list /\ Advance(l).cur = Following(l.list, l.cur)
        /\ Advance(l) \in ListOf(S)
    BY <2>1, <2>3 DEF ListOf
  <2> QED
    BY <1>1, <2>2, <2>4 DEF Sound, Distinct, CursorSound, Elems
<1>3. CASE ~ (Len(l.list) > 1)
  BY <1>1, <1>3 DEF Advance
<1> QED
  BY <1>2, <1>3
===============================================================================
