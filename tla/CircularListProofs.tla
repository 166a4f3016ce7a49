-------------------------- MODULE CircularListProofs --------------------------
(***************************************************************************)
(* The pointers of a ready list, for every number of nodes and every set   *)
(* of tasks: they form one ring, and each operation on them is the         *)
(* operation of TaskRing on the sequence they stand for.                   *)
(*                                                                         *)
(* The inductive invariant names the ring: a sequence s of the allocated   *)
(* nodes, whose neighbours are linked.  An addition appends to s and a     *)
(* removal takes a node out of it, so that no induction along the links    *)
(* is needed except to see that Walk, which follows m_next, is s.          *)
(***************************************************************************)
EXTENDS CircularList, FiniteSetTheorems, WellFoundedInduction, TLAPS

\* The place after i and the one before i on a ring of count nodes.
After(i) == IF i = count THEN 1 ELSE i + 1
Behind(i) == IF i = 1 THEN count ELSE i - 1

\* s lists the allocated nodes in the order of the links.
Lists(s) ==
  /\ s \in [1 .. count -> used]
  /\ \A n \in used : \E i \in 1 .. count : s[i] = n
  /\ \A i, j \in 1 .. count : s[i] = s[j] => i = j
  /\ count > 0 => s[1] = first /\ s[count] = last
  /\ \A i \in 1 .. count : /\ nodes[s[i]].next = s[After(i)]
                           /\ nodes[s[i]].prev = s[Behind(i)]

\* No two nodes hold the same task.
DataSound ==
  /\ \A n \in used : nodes[n].data \in Items
  /\ \A m, n \in used : nodes[m].data = nodes[n].data => m = n

LInv ==
  /\ TypeOK
  /\ Cardinality(used) = count
  /\ count > 0 => cursor \in used
  /\ DataSound
  /\ \E s \in [1 .. count -> used] : Lists(s)

-------------------------------------------------------------------------------
(* Following the links. *)

\* Two sequences that differ differ at a first place.
LEMMA FirstDifference ==
  ASSUME NEW n \in Nat, NEW v, NEW w, \E i \in 1 .. n : v[i] # w[i]
  PROVE  \E i \in 1 .. n : v[i] # w[i] /\ \A j \in 1 .. n : j < i => v[j] = w[j]
<1> DEFINE R == {ss \in Nat \X Nat : ss[1] < ss[2]}
           D == {i \in 1 .. n : v[i] # w[i]}
<1>1. IsWellFoundedOn(R, Nat)
  BY NatLessThanWellFounded DEF OpToRel
<1>2. D \subseteq Nat /\ D # {}
  OBVIOUS
<1>3. PICK i \in D : \A j \in D : ~ (<<j, i>> \in R)
  BY <1>1, <1>2, WFMin, Zenon
<1>4. ASSUME NEW j \in 1 .. n, j < i PROVE v[j] = w[j]
  <2>1. i \in Nat /\ j \in Nat
    BY <1>2
  <2>2. <<j, i>> \in R
    BY <1>4, <2>1
  <2> QED
    BY <1>3, <2>2
<1> QED
  BY <1>3, <1>4

\* Walk goes along the ring.
LEMMA WalkFacts ==
  ASSUME TypeOK, NEW s, Lists(s), count > 0
  PROVE  \A i \in 1 .. count : Walk[i] = s[i]
<1>1. count \in Nat
  BY DEF TypeOK
<1>2. Walk = [i \in 1 .. count |-> IF i = 1 THEN first ELSE nodes[Walk[i - 1]].next]
  <2>1. ASSUME NEW i \in 1 .. count
        PROVE  s[i] = IF i = 1 THEN first ELSE nodes[s[i - 1]].next
    <3>1. i # 1 => i - 1 \in 1 .. count /\ After(i - 1) = i
      BY <1>1 DEF After
    <3> QED
      BY <3>1 DEF Lists
  <2>2. s = [i \in 1 .. count |-> IF i = 1 THEN first ELSE nodes[s[i - 1]].next]
    BY <2>1 DEF Lists
  <2>3. \E w : w = [i \in 1 .. count |-> IF i = 1 THEN first ELSE nodes[w[i - 1]].next]
    BY <2>2
  <2> QED
    BY <2>3, Zenon DEF Walk
<1> SUFFICES ASSUME NEW i \in 1 .. count, Walk[i] # s[i],
                    \A j \in 1 .. count : j < i => Walk[j] = s[j]
             PROVE  FALSE
  BY <1>1, FirstDifference
<1>3. CASE i = 1
  BY <1>2, <1>3 DEF Lists
<1>4. CASE i # 1
  <2>1. i - 1 \in 1 .. count /\ i - 1 < i /\ i - 1 # count /\ After(i - 1) = i
    BY <1>1, <1>4 DEF After
  <2>2. Walk[i] = nodes[s[i - 1]].next
    BY <1>2, <1>4, <2>1
  <2> QED
    BY <2>1, <2>2 DEF Lists
<1> QED
  BY <1>3, <1>4

\* find looks at every allocated node, and finds the one that holds t.
LEMMA FindFacts ==
  ASSUME LInv, NEW s, Lists(s), NEW t
  PROVE  /\ Found(t) <=> \E n \in used : nodes[n].data = t
         /\ Found(t) => \E k \in 1 .. count : Find(t) = s[k] /\ nodes[s[k]].data = t
<1>1. TypeOK /\ count \in Nat /\ \A n \in used : \E i \in 1 .. count : s[i] = n
  BY DEF LInv, TypeOK, Lists
<1>2. \A i \in 1 .. count : Walk[i] = s[i]
  BY <1>1, WalkFacts
<1>3. /\ \A i \in 1 .. count : s[i] \in used
      /\ \A i, j \in 1 .. count : s[i] = s[j] => i = j
  BY DEF Lists
<1>4. \A i, j \in 1 .. count : nodes[s[i]].data = nodes[s[j]].data => i = j
  BY <1>3 DEF LInv, DataSound
<1>5. Found(t) <=> \E n \in used : nodes[n].data = t
  <2>1. Found(t) <=> \E i \in 1 .. count : nodes[s[i]].data = t
    BY <1>2 DEF Found
  <2> QED
    BY <1>1, <1>3, <2>1
<1>6. ASSUME Found(t)
      PROVE  \E k \in 1 .. count : Find(t) = s[k] /\ nodes[s[k]].data = t
  <2>1. PICK k \in 1 .. count : nodes[s[k]].data = t
    BY <1>2, <1>6 DEF Found
  <2>2. /\ nodes[Walk[k]].data = t
        /\ \A j \in 1 .. k - 1 : nodes[Walk[j]].data # t
    <3>1. \A j \in 1 .. k - 1 : j \in 1 .. count /\ j # k
      BY <1>1
    <3> QED
      BY <1>2, <1>4, <2>1, <3>1
  <2>3. \A i \in 1 .. count : nodes[Walk[i]].data = t => i = k
    BY <1>2, <1>4, <2>1
  <2>4. Find(t) = Walk[k]
    BY <2>2, <2>3 DEF Find
  <2> QED
    BY <1>2, <2>1, <2>4
<1> QED
  BY <1>5, <1>6

\* The least free node.
LEMMA FirstFreeFacts ==
  ASSUME TypeOK, used # Node
  PROVE  FirstFree \in Node \ used
<1> DEFINE R == {ss \in Nat \X Nat : ss[1] < ss[2]}
           S == Node \ used
<1>1. IsWellFoundedOn(R, Nat)
  BY NatLessThanWellFounded DEF OpToRel
<1>2. S \subseteq Nat /\ S # {}
  <2>1. Node \subseteq Nat
    BY CircularListAssumption DEF Node
  <2>2. used \subseteq Node
    BY DEF TypeOK
  <2> QED
    BY <2>1, <2>2
<1>3. PICK n \in S : \A m \in S : ~ (<<m, n>> \in R)
  BY <1>1, <1>2, WFMin, Zenon
<1>4. \A m \in S : n <= m
  <2> TAKE m \in S
  <2>1. n \in Nat /\ m \in Nat /\ (m < n => <<m, n>> \in R)
    BY <1>2
  <2> QED
    BY <1>3, <2>1
<1>5. \E x \in Node \ used : \A m \in Node \ used : x <= m
  BY <1>4
<1> QED
  BY <1>5, Zenon DEF FirstFree

\* As many nodes are allocated as the list has, and there are MaxSize nodes.
LEMMA CountFacts ==
  ASSUME LInv
  PROVE  /\ IsFiniteSet(used) /\ count \in Nat /\ MaxSize \in Nat
         /\ used # Node <=> count < MaxSize
         /\ count = 0 <=> used = {}
<1>1. IsFiniteSet(Node) /\ Cardinality(Node) = MaxSize /\ MaxSize \in Nat
  <2>1. 0 \in Int /\ MaxSize - 1 \in Int /\ ~ (0 > MaxSize - 1) /\ MaxSize \in Nat
    BY CircularListAssumption
  <2>2. Cardinality(0 .. MaxSize - 1) = (MaxSize - 1) - 0 + 1 /\ IsFiniteSet(0 .. MaxSize - 1)
    BY <2>1, FS_Interval
  <2> QED
    BY <2>1, <2>2 DEF Node
<1>2. used \in SUBSET Node /\ Cardinality(used) = count /\ count \in Nat /\ count <= MaxSize
  BY DEF LInv, TypeOK
<1>3. IsFiniteSet(used) /\ (Cardinality(Node) = Cardinality(used) => Node = used)
  BY <1>1, <1>2, FS_Subset
<1>4. count = 0 <=> used = {}
  BY <1>2, <1>3, FS_EmptySet
<1> QED
  BY <1>1, <1>2, <1>3, <1>4

-------------------------------------------------------------------------------
(* Adding a node. *)

NodeType == [next : Node, prev : Node, data : Nat]

\* The ends of the ring.
LEMMA EndFacts ==
  ASSUME LInv, NEW s, Lists(s), count > 0
  PROVE  /\ 1 \in 1 .. count /\ count \in 1 .. count
         /\ first = s[1] /\ last = s[count] /\ first \in used /\ last \in used
         /\ first = last <=> count = 1
<1>1. count \in Nat
  BY DEF LInv, TypeOK
<1>2. 1 \in 1 .. count /\ count \in 1 .. count
  BY <1>1
<1> QED
  BY <1>2 DEF Lists

\* What linking a new node changes: the neighbours of the two ends.
LEMMA LinkFacts ==
  ASSUME TypeOK, NEW new \in Node, NEW t \in Nat,
         count > 0 => first # new /\ last # new /\ (first = last <=> count = 1)
  PROVE  /\ Link(new, t) \in [Node -> NodeType]
         /\ Link(new, t)[new].next = IF count = 0 THEN new ELSE first
         /\ Link(new, t)[new].prev = IF count = 0 THEN new ELSE last
         /\ Link(new, t)[new].data = t
         /\ \A n \in Node : n # new =>
              /\ Link(new, t)[n].next = IF count > 0 /\ n = last THEN new ELSE nodes[n].next
              /\ Link(new, t)[n].prev = IF count > 0 /\ n = first THEN new ELSE nodes[n].prev
              /\ Link(new, t)[n].data = nodes[n].data
<1> DEFINE l == Link(new, t)
<1>1. /\ nodes \in [Node -> NodeType] /\ first \in Node /\ last \in Node /\ count \in Nat
  BY DEF TypeOK, NodeType
<1>2. CASE count = 0
  <2>1. l = [nodes EXCEPT ![new] = [next |-> new, prev |-> new, data |-> t]]
    BY <1>2 DEF Link
  <2> QED
    BY <1>1, <1>2, <2>1 DEF NodeType
<1>3. CASE count > 0
  <2> DEFINE a == [nodes EXCEPT ![last].next = new]
             b == [a EXCEPT ![first].prev = new]
  <2>1. l = [b EXCEPT ![new] = [next |-> first, prev |-> last, data |-> t]]
    <3>1. CASE count = 1
      BY <1>3, <3>1 DEF Link
    <3>2. CASE count > 1
      BY <1>1, <3>2 DEF Link
    <3> QED
      BY <1>1, <1>3, <3>1, <3>2
  <2>2. a \in [Node -> NodeType]
    BY <1>1 DEF NodeType
  <2>3. \A n \in Node :
        /\ a[n].next = IF n = last THEN new ELSE nodes[n].next
        /\ a[n].prev = nodes[n].prev /\ a[n].data = nodes[n].data
    BY <1>1 DEF NodeType
  <2> HIDE DEF a
  <2>4. b \in [Node -> NodeType]
    BY <1>1, <2>2 DEF NodeType
  <2>5. \A n \in Node :
        /\ b[n].prev = IF n = first THEN new ELSE a[n].prev
        /\ b[n].next = a[n].next /\ b[n].data = a[n].data
    BY <1>1, <2>2 DEF NodeType
  <2> HIDE DEF b
  <2>6. /\ l \in [Node -> NodeType]
        /\ l[new] = [next |-> first, prev |-> last, data |-> t]
        /\ \A n \in Node : n # new => l[n] = b[n]
    BY <1>1, <2>1, <2>4 DEF NodeType
  <2> QED
    BY <1>3, <2>3, <2>5, <2>6
<1> QED
  BY <1>1, <1>2, <1>3

\* An addition appends a new node to the ring.
LEMMA AddFacts ==
  ASSUME LInv, NEW s, Lists(s), NEW t \in Items, AddNode(t)
  PROVE  \E r, new :
           /\ new \in Node \ used /\ used' = used \cup {new} /\ count' = count + 1
           /\ nodes' \in [Node -> NodeType]
           /\ r[count + 1] = new /\ \A i \in 1 .. count : r[i] = s[i]
           /\ Lists(r)'
           /\ nodes'[new].data = t /\ \A n \in used : nodes'[n].data = nodes[n].data
           /\ cursor' = (IF count = 0 THEN new ELSE cursor)
           /\ first' = (IF count = 0 THEN new ELSE first) /\ last' = new
<1>1. PICK new : new = FirstFree
  OBVIOUS
<1>2. TypeOK /\ used \subseteq Node /\ count \in Nat /\ t \in Nat
  BY CircularListAssumption DEF LInv, TypeOK
<1>3. new \in Node \ used
  BY <1>1, <1>2, FirstFreeFacts DEF AddNode
<1>4. /\ used' = used \cup {new} /\ nodes' = Link(new, t) /\ count' = count + 1
      /\ first' = (IF count = 0 THEN new ELSE first) /\ last' = new
      /\ cursor' = (IF count = 0 THEN new ELSE cursor)
  BY <1>1 DEF AddNode
<1>5. /\ \A i \in 1 .. count : s[i] \in used /\ s[i] # new /\ s[i] \in Node
      /\ \A i, j \in 1 .. count : s[i] = s[j] => i = j
      /\ \A n \in used : \E i \in 1 .. count : s[i] = n
  BY <1>2, <1>3 DEF Lists
<1>6. count > 0 => /\ 1 \in 1 .. count /\ count \in 1 .. count
                   /\ first = s[1] /\ last = s[count]
                   /\ (first = last <=> count = 1)
  BY EndFacts
<1>7. /\ nodes' \in [Node -> NodeType]
      /\ nodes'[new].next = IF count = 0 THEN new ELSE first
      /\ nodes'[new].prev = IF count = 0 THEN new ELSE last
      /\ nodes'[new].data = t
      /\ \A n \in Node : n # new =>
           /\ nodes'[n].next = IF count > 0 /\ n = last THEN new ELSE nodes[n].next
           /\ nodes'[n].prev = IF count > 0 /\ n = first THEN new ELSE nodes[n].prev
           /\ nodes'[n].data = nodes[n].data
  BY <1>2, <1>3, <1>4, <1>5, <1>6, LinkFacts
<1>8. PICK r : r = [i \in 1 .. count + 1 |-> IF i = count + 1 THEN new ELSE s[i]]
  OBVIOUS
<1>9. /\ r[count + 1] = new /\ \A i \in 1 .. count : r[i] = s[i]
      /\ \A i \in 1 .. count + 1 : i \in 1 .. count \/ i = count + 1
      /\ \A i \in 1 .. count : i \in 1 .. count + 1 /\ i # count + 1
      /\ count + 1 \in 1 .. count + 1
  BY <1>2, <1>8
<1>10. r \in [1 .. count + 1 -> used']
  BY <1>4, <1>5, <1>8, <1>9
<1>11. \A n \in used' : \E i \in 1 .. count + 1 : r[i] = n
  BY <1>4, <1>5, <1>9
<1>12. \A i, j \in 1 .. count + 1 : r[i] = r[j] => i = j
  BY <1>5, <1>9
<1>13. r[1] = first' /\ r[count + 1] = last'
  BY <1>2, <1>4, <1>6, <1>9
<1>14. ASSUME NEW i \in 1 .. count + 1
       PROVE  nodes'[r[i]].next = r[IF i = count + 1 THEN 1 ELSE i + 1]
  <2>1. CASE i = count + 1
    BY <1>2, <1>4, <1>7, <1>9, <1>13, <2>1
  <2>2. CASE i # count + 1 /\ i = count
    <3>1. i \in 1 .. count /\ count > 0
      BY <1>2, <1>9, <2>2
    <3> QED
      BY <1>5, <1>6, <1>7, <1>9, <2>2, <3>1
  <2>3. CASE i # count + 1 /\ i # count
    <3>1. i \in 1 .. count /\ count > 0 /\ i + 1 \in 1 .. count
      BY <1>2, <1>9, <2>3
    <3>2. s[i] # last /\ nodes[s[i]].next = s[i + 1]
      BY <1>5, <1>6, <2>3, <3>1 DEF Lists, After
    <3> QED
      BY <1>5, <1>7, <1>9, <2>3, <3>1, <3>2
  <2> QED
    BY <2>1, <2>2, <2>3
<1>15. ASSUME NEW i \in 1 .. count + 1
       PROVE  nodes'[r[i]].prev = r[IF i = 1 THEN count + 1 ELSE i - 1]
  <2>1. CASE i = count + 1
    <3>1. count = 0 => i = 1
      BY <2>1
    <3>2. count > 0 => i # 1 /\ i - 1 = count
      BY <1>2, <2>1
    <3> QED
      BY <1>2, <1>6, <1>7, <1>9, <2>1, <3>1, <3>2
  <2>2. CASE i # count + 1 /\ i = 1
    BY <1>2, <1>5, <1>6, <1>7, <1>9, <2>2
  <2>3. CASE i # count + 1 /\ i # 1
    <3>1. i \in 1 .. count /\ count > 0 /\ i - 1 \in 1 .. count
      BY <1>2, <1>9, <2>3
    <3>2. s[i] # first /\ nodes[s[i]].prev = s[i - 1]
      BY <1>5, <1>6, <2>3, <3>1 DEF Lists, Behind
    <3> QED
      BY <1>5, <1>7, <1>9, <2>3, <3>1, <3>2
  <2> QED
    BY <2>1, <2>2, <2>3
<1>16. Lists(r)'
  BY <1>4, <1>10, <1>11, <1>12, <1>13, <1>14, <1>15 DEF Lists, After, Behind
<1>17. \A n \in used : nodes'[n].data = nodes[n].data
  BY <1>2, <1>3, <1>7
<1> QED
  BY <1>3, <1>4, <1>7, <1>9, <1>16, <1>17
-------------------------------------------------------------------------------
(* Removing a node. *)

\* What unlinking node n changes: its two neighbours are linked to each other.
LEMMA UnlinkFacts ==
  ASSUME TypeOK, NEW n \in Node
  PROVE  /\ Unlink(n) \in [Node -> NodeType]
         /\ \A m \in Node :
              /\ Unlink(n)[m].next = IF m = nodes[n].prev THEN nodes[n].next ELSE nodes[m].next
              /\ Unlink(n)[m].prev = IF m = nodes[n].next THEN nodes[n].prev ELSE nodes[m].prev
              /\ Unlink(n)[m].data = nodes[m].data
<1> DEFINE p == nodes[n].prev
           x == nodes[n].next
           hop == [nodes EXCEPT ![p].next = x]
           u == [hop EXCEPT ![x].prev = p]
<1>1. nodes \in [Node -> NodeType]
  BY DEF TypeOK, NodeType
<1>2. p \in Node /\ x \in Node
  BY <1>1 DEF NodeType
<1>3. Unlink(n) = u
  BY DEF Unlink
<1> HIDE DEF p, x
<1>4. hop \in [Node -> NodeType]
  BY <1>1, <1>2 DEF NodeType
<1>5. \A m \in Node :
        /\ hop[m].next = IF m = p THEN x ELSE nodes[m].next
        /\ hop[m].prev = nodes[m].prev /\ hop[m].data = nodes[m].data
  BY <1>1, <1>2 DEF NodeType
<1> HIDE DEF hop
<1>6. u \in [Node -> NodeType]
  BY <1>2, <1>4 DEF NodeType
<1>7. \A m \in Node :
        /\ u[m].prev = IF m = x THEN p ELSE hop[m].prev
        /\ u[m].next = hop[m].next /\ u[m].data = hop[m].data
  BY <1>2, <1>4 DEF NodeType
<1> HIDE DEF u
<1> QED
  BY <1>3, <1>5, <1>6, <1>7 DEF p, x

\* The step takes the node at place k, which holds t, out of the ring s.
TakesOut(s, r, k, t) ==
  /\ k \in 1 .. count /\ Find(t) = s[k] /\ nodes[s[k]].data = t
  /\ used' = used \ {s[k]} /\ count' = count - 1
  /\ nodes' \in [Node -> NodeType]
  /\ \A n \in Node : nodes'[n].data = nodes[n].data
  /\ \A j \in 1 .. count - 1 : r[j] = s[IF j < k THEN j ELSE j + 1]
  /\ Lists(r)'
  /\ cursor' = IF cursor = s[k] /\ count > 1 THEN s[After(k)] ELSE cursor
  /\ first' \in Node /\ last' \in Node

LEMMA RemoveFacts ==
  ASSUME LInv, NEW s, Lists(s), NEW t, RemoveNode(t)
  PROVE  \E r, k : TakesOut(s, r, k, t)
<1>1. /\ TypeOK /\ used \subseteq Node /\ count \in Nat
      /\ first \in Node /\ last \in Node /\ nodes \in [Node -> NodeType]
  BY DEF LInv, TypeOK, NodeType
<1>2. PICK k \in 1 .. count : Find(t) = s[k] /\ nodes[s[k]].data = t
  BY FindFacts DEF RemoveNode
<1>3. PICK r : r = [j \in 1 .. count - 1 |-> s[IF j < k THEN j ELSE j + 1]]
  OBVIOUS
<1> DEFINE P(j) == IF j < k THEN j ELSE j + 1
           c == count - 1
<1>4. /\ \A i \in 1 .. count : s[i] \in used /\ s[i] \in Node
      /\ \A i, j \in 1 .. count : s[i] = s[j] => i = j
      /\ \A n \in used : \E i \in 1 .. count : s[i] = n
      /\ \A i \in 1 .. count : nodes[s[i]].next = s[After(i)] /\ nodes[s[i]].prev = s[Behind(i)]
      /\ first = s[1] /\ last = s[count]
  BY <1>1, <1>2 DEF Lists
<1>5. /\ used' = used \ {s[k]} /\ count' = c
      /\ cursor' = (IF cursor = s[k] /\ count > 1 THEN s[After(k)] ELSE cursor)
      /\ nodes' = (IF count > 1 THEN Unlink(s[k]) ELSE nodes)
      /\ first' = (IF count > 1 /\ s[k] = first THEN s[After(k)] ELSE first)
      /\ last' = (IF count > 1 /\ s[k] # first /\ s[k] = last THEN s[Behind(k)] ELSE last)
  BY <1>2, <1>4 DEF RemoveNode, LastAfter
<1>6. \A i \in 1 .. count : After(i) \in 1 .. count /\ Behind(i) \in 1 .. count
  BY <1>1 DEF After, Behind
<1>7. /\ nodes' \in [Node -> NodeType]
      /\ \A n \in Node : nodes'[n].data = nodes[n].data
      /\ count > 1 => \A n \in Node :
           /\ nodes'[n].next = IF n = s[Behind(k)] THEN s[After(k)] ELSE nodes[n].next
           /\ nodes'[n].prev = IF n = s[After(k)] THEN s[Behind(k)] ELSE nodes[n].prev
  BY <1>1, <1>4, <1>5, UnlinkFacts
<1>8. \A j \in 1 .. c : r[j] = s[P(j)] /\ P(j) \in 1 .. count /\ P(j) # k
  BY <1>1, <1>3
<1>9. \A i \in 1 .. count : i # k => \E j \in 1 .. c : P(j) = i
  <2> TAKE i \in 1 .. count
  <2>1. CASE i < k
    <3>1. i \in 1 .. c /\ P(i) = i
      BY <1>1, <2>1
    <3> QED
      BY <3>1
  <2>2. CASE i > k
    <3>1. i - 1 \in 1 .. c /\ P(i - 1) = i
      BY <1>1, <2>2
    <3> QED
      BY <3>1
  <2> QED
    BY <2>1, <2>2
<1>10. r \in [1 .. c -> used']
  <2>1. \A j \in 1 .. c : r[j] \in used'
    BY <1>4, <1>5, <1>8
  <2> QED
    BY <1>3, <2>1
<1>11. \A n \in used' : \E j \in 1 .. c : r[j] = n
  <2> TAKE n \in used'
  <2>1. PICK i \in 1 .. count : s[i] = n
    BY <1>4, <1>5
  <2>2. i # k
    BY <1>5, <2>1
  <2> QED
    BY <1>8, <1>9, <2>1, <2>2
<1>12. \A i, j \in 1 .. c : r[i] = r[j] => i = j
  <2>1. \A i, j \in 1 .. c : P(i) = P(j) => i = j
    BY <1>1
  <2> QED
    BY <1>4, <1>8, <2>1
<1>13. c > 0 => r[1] = first' /\ r[c] = last'
  <2> SUFFICES ASSUME c > 0 PROVE r[1] = first' /\ r[c] = last'
    OBVIOUS
  <2>1. /\ count > 1 /\ 1 \in 1 .. c /\ c \in 1 .. c
        /\ 1 \in 1 .. count /\ count \in 1 .. count
    BY <1>1
  <2>2. (s[k] = first <=> k = 1) /\ (s[k] = last <=> k = count)
    BY <1>4, <2>1
  <2>3. /\ P(1) = (IF k = 1 THEN After(k) ELSE 1)
        /\ P(c) = (IF k # 1 /\ k = count THEN Behind(k) ELSE count)
    BY <1>1, <2>1 DEF After, Behind
  <2> QED
    BY <1>4, <1>5, <1>8, <2>1, <2>2, <2>3
<1>14. ASSUME NEW j \in 1 .. c
       PROVE  /\ nodes'[r[j]].next = r[IF j = c THEN 1 ELSE j + 1]
              /\ nodes'[r[j]].prev = r[IF j = 1 THEN c ELSE j - 1]
  <2> DEFINE a == IF j = c THEN 1 ELSE j + 1
             b == IF j = 1 THEN c ELSE j - 1
  <2>1. /\ count > 1 /\ a \in 1 .. c /\ b \in 1 .. c
        /\ P(a) = IF P(j) = Behind(k) THEN After(k) ELSE After(P(j))
        /\ P(b) = IF P(j) = After(k) THEN Behind(k) ELSE Behind(P(j))
    BY <1>1 DEF After, Behind
  <2>2. /\ P(j) \in 1 .. count /\ r[j] = s[P(j)] /\ s[P(j)] \in Node
        /\ r[a] = s[P(a)] /\ r[b] = s[P(b)]
    BY <1>4, <1>8, <2>1
  <2>3. /\ s[P(j)] = s[Behind(k)] <=> P(j) = Behind(k)
        /\ s[P(j)] = s[After(k)] <=> P(j) = After(k)
    BY <1>4, <1>6, <2>2
  <2>4. nodes[s[P(j)]].next = s[After(P(j))] /\ nodes[s[P(j)]].prev = s[Behind(P(j))]
    BY <1>4, <2>2
  <2> HIDE DEF P, a, b
  <2>5. nodes'[r[j]].next = r[a] /\ nodes'[r[j]].prev = r[b]
    BY <1>7, <2>1, <2>2, <2>3, <2>4
  <2> QED
    BY <2>5 DEF a, b
<1>15. Lists(r)'
  BY <1>5, <1>10, <1>11, <1>12, <1>13, <1>14 DEF Lists, After, Behind
<1>16. first' \in Node /\ last' \in Node
  BY <1>1, <1>4, <1>5, <1>6
<1>17. TakesOut(s, r, k, t)
  BY <1>2, <1>5, <1>7, <1>8, <1>15, <1>16 DEF TakesOut
<1> QED
  BY <1>17

-------------------------------------------------------------------------------
(* The invariant. *)

LEMMA InitLInv == Init => LInv
<1> SUFFICES ASSUME Init PROVE LInv
  OBVIOUS
<1>1. 0 \in Node /\ MaxSize \in Nat
  BY CircularListAssumption DEF Node
<1>2. TypeOK
  BY <1>1 DEF Init, TypeOK, Nothing
<1>3. Cardinality(used) = count
  BY FS_EmptySet DEF Init
<1>4. PICK s : s = [i \in 1 .. count |-> first]
  OBVIOUS
<1>5. used = {} /\ count = 0 /\ \A i \in 1 .. count : FALSE
  BY DEF Init
<1>6. s \in [1 .. count -> used]
  BY <1>4, <1>5
<1>7. Lists(s)
  BY <1>5, <1>6 DEF Lists
<1>8. DataSound /\ ~ (count > 0)
  BY <1>5 DEF DataSound
<1> QED
  BY <1>2, <1>3, <1>6, <1>7, <1>8 DEF LInv

LEMMA AddLInv ==
  ASSUME LInv, NEW t \in Items, AddNode(t)
  PROVE  LInv'
<1>1. PICK s : Lists(s)
  BY DEF LInv
<1>2. PICK r, new :
        /\ new \in Node \ used /\ used' = used \cup {new} /\ count' = count + 1
        /\ nodes' \in [Node -> NodeType]
        /\ Lists(r)'
        /\ nodes'[new].data = t /\ \A n \in used : nodes'[n].data = nodes[n].data
        /\ cursor' = (IF count = 0 THEN new ELSE cursor)
        /\ first' = (IF count = 0 THEN new ELSE first) /\ last' = new
  BY <1>1, AddFacts
<1>3. /\ TypeOK /\ DataSound /\ IsFiniteSet(used) /\ Cardinality(used) = count
      /\ count \in Nat /\ MaxSize \in Nat /\ count < MaxSize
      /\ count > 0 => cursor \in used
  BY CountFacts DEF LInv, AddNode
<1>4. TypeOK'
  <2>1. used' \subseteq Node /\ first' \in Node /\ last' \in Node /\ cursor' \in Node
    BY <1>2, <1>3 DEF TypeOK
  <2>2. count' \in 0 .. MaxSize
    BY <1>2, <1>3
  <2>3. out' \in Items \cup {Nothing}
    BY DEF AddNode
  <2> QED
    BY <1>2, <2>1, <2>2, <2>3 DEF TypeOK, NodeType
<1>5. Cardinality(used') = count'
  BY <1>2, <1>3, FS_AddElement
<1>6. cursor' \in used'
  BY <1>2, <1>3
<1>7. DataSound'
  <2>1. ~ \E n \in used : nodes[n].data = t
    BY <1>1, FindFacts DEF AddNode
  <2> QED
    BY <1>2, <1>3, <2>1 DEF DataSound
<1> QED
  BY <1>2, <1>4, <1>5, <1>6, <1>7 DEF LInv, Lists

LEMMA RemoveLInv ==
  ASSUME LInv, NEW t, RemoveNode(t)
  PROVE  LInv'
<1>1. PICK s : Lists(s)
  BY DEF LInv
<1>2. PICK r, k : TakesOut(s, r, k, t)
  BY <1>1, RemoveFacts
<1>3. /\ TypeOK /\ DataSound /\ IsFiniteSet(used) /\ Cardinality(used) = count
      /\ count \in Nat /\ MaxSize \in Nat /\ used \subseteq Node
      /\ count > 0 => cursor \in used
  BY CountFacts DEF LInv, TypeOK
<1>4. s[k] \in used
  BY <1>1, <1>2 DEF Lists, TakesOut
<1>5. count > 1 => s[After(k)] \in used /\ s[After(k)] # s[k]
  <2>1. count > 1 => After(k) \in 1 .. count /\ After(k) # k
    BY <1>2, <1>3 DEF After, TakesOut
  <2> QED
    BY <1>1, <1>2, <2>1 DEF Lists, TakesOut
<1>6. TypeOK'
  <2>1. used' \subseteq Node /\ cursor' \in Node
    BY <1>2, <1>3, <1>5 DEF TypeOK, TakesOut
  <2>2. count' \in 0 .. MaxSize
    BY <1>2, <1>3 DEF TypeOK, TakesOut
  <2>3. out' \in Items \cup {Nothing}
    BY DEF RemoveNode
  <2> QED
    BY <1>2, <2>1, <2>2, <2>3 DEF TypeOK, NodeType, TakesOut
<1>7. Cardinality(used') = count'
  BY <1>2, <1>3, <1>4, FS_RemoveElement DEF TakesOut
<1>8. count' > 0 => cursor' \in used'
  BY <1>2, <1>3, <1>5 DEF TakesOut
<1>9. DataSound'
  BY <1>2, <1>3 DEF DataSound, TakesOut
<1> QED
  BY <1>2, <1>6, <1>7, <1>8, <1>9 DEF LInv, Lists, TakesOut

\* The other operations leave the ring as it is.
Unlinked == UNCHANGED <<used, nodes, first, last, count>>

LEMMA UnlinkedLInv ==
  ASSUME LInv, Unlinked, cursor' \in Node, count > 0 => cursor' \in used,
         out' \in Items \cup {Nothing}
  PROVE  LInv'
<1>1. TypeOK' /\ DataSound'
  BY DEF LInv, TypeOK, DataSound, Unlinked
<1>2. PICK s \in [1 .. count -> used] : Lists(s)
  BY DEF LInv
<1>3. Lists(s)'
  BY <1>2 DEF Lists, Unlinked, After, Behind
<1> QED
  BY <1>1, <1>2, <1>3 DEF LInv, Unlinked

\* The node after the cursor is on the ring.
LEMMA CursorFacts ==
  ASSUME LInv, count > 0
  PROVE  /\ cursor \in used /\ nodes[cursor].next \in used
         /\ nodes[cursor].data \in Items /\ nodes[nodes[cursor].next].data \in Items
<1>1. PICK s : Lists(s)
  BY DEF LInv
<1>2. PICK i \in 1 .. count : s[i] = cursor
  BY <1>1 DEF LInv, Lists
<1>3. After(i) \in 1 .. count
  BY DEF LInv, TypeOK, After
<1>4. cursor \in used /\ nodes[cursor].next \in used
  BY <1>1, <1>2, <1>3 DEF Lists
<1> QED
  BY <1>4 DEF LInv, DataSound

LEMMA NextLInv ==
  ASSUME LInv, [Next]_vars
  PROVE  LInv'
<1>1. TypeOK /\ count \in Nat /\ (count > 0 => cursor \in used)
  BY DEF LInv, TypeOK
<1>2. ASSUME NEW t \in Items, AddRefused(t) \/ RemoveAbsent(t) PROVE LInv'
  BY <1>1, <1>2, UnlinkedLInv DEF AddRefused, RemoveAbsent, Unlinked, TypeOK
<1>3. ASSUME NEW t \in Items, AddNode(t) PROVE LInv'
  BY <1>3, AddLInv
<1>4. ASSUME NEW t \in Items, RemoveNode(t) PROVE LInv'
  BY <1>4, RemoveLInv
<1>5. CASE FindNextTask
  <2>1. Unlinked /\ cursor' = (IF count > 1 THEN nodes[cursor].next ELSE cursor)
    BY <1>5 DEF FindNextTask, Unlinked
  <2>2. count > 0 => cursor' \in used /\ nodes[cursor'].data \in Items
    BY <1>1, <2>1, CursorFacts
  <2>3. cursor' \in Node
    BY <1>1, <2>1, <2>2 DEF TypeOK
  <2>4. out' \in Items \cup {Nothing}
    BY <1>5, <2>2 DEF FindNextTask
  <2> QED
    BY <2>1, <2>2, <2>3, <2>4, UnlinkedLInv
<1>6. CASE FindCurrentTask
  <2>1. out' \in Items \cup {Nothing}
    BY <1>6, CursorFacts DEF FindCurrentTask
  <2> QED
    BY <1>1, <1>6, <2>1, UnlinkedLInv DEF FindCurrentTask, Unlinked, TypeOK
<1>7. CASE UNCHANGED vars
  BY <1>1, <1>7, UnlinkedLInv DEF vars, Unlinked, TypeOK
<1> QED
  BY <1>2, <1>3, <1>4, <1>5, <1>6, <1>7 DEF Next

LEMMA ListInvariant == Spec => []LInv
<1>1. LInv /\ [Next]_vars => LInv'
  BY NextLInv
<1> QED
  BY <1>1, InitLInv, PTL DEF Spec

\* Every variable of a ready list keeps its type: an index is one of a node,
\* and a result is a task or nothing.
THEOREM TypeCorrect == Spec => []TypeOK
<1>1. LInv => TypeOK
  BY DEF LInv
<1> QED
  BY <1>1, ListInvariant, PTL

\* The links of the allocated nodes form one ring in both directions, on which
\* the cursor lies, whatever was added and removed (common/circular_list.hpp).
THEOREM RingHolds == Spec => []OneRing
<1>1. ASSUME LInv PROVE OneRing
  <2> SUFFICES ASSUME count > 0
               PROVE  /\ {Walk[i] : i \in 1 .. count} = used
                      /\ nodes[Walk[count]].next = first
                      /\ last = Walk[count]
                      /\ \A n \in used : nodes[nodes[n].next].prev = n
    BY <1>1 DEF LInv, OneRing
  <2>1. PICK s : Lists(s)
    BY <1>1 DEF LInv
  <2>2. \A i \in 1 .. count : Walk[i] = s[i]
    BY <1>1, <2>1, WalkFacts DEF LInv
  <2>3. {Walk[i] : i \in 1 .. count} = used
    BY <2>1, <2>2 DEF Lists
  <2>4. nodes[Walk[count]].next = first /\ last = Walk[count]
    BY <1>1, <2>1, <2>2, EndFacts DEF Lists, After
  <2>5. ASSUME NEW n \in used PROVE nodes[nodes[n].next].prev = n
    <3>1. PICK i \in 1 .. count : s[i] = n
      BY <2>1 DEF Lists
    <3>2. After(i) \in 1 .. count /\ Behind(After(i)) = i
      BY <1>1 DEF LInv, TypeOK, After, Behind
    <3> QED
      BY <2>1, <3>1, <3>2 DEF Lists
  <2> QED
    BY <2>3, <2>4, <2>5
<1> QED
  BY <1>1, ListInvariant, PTL

-------------------------------------------------------------------------------
(* The sequence the pointers stand for. *)

\* The list of a ring s, read off without following the links.
Abstract(s) ==
  [list |-> [i \in 1 .. count |-> nodes[s[i]].data],
   cur  |-> IF count = 0 THEN Nothing ELSE nodes[cursor].data]

Represented == \A s : Lists(s) => AbstractRing = Abstract(s)

LEMMA RingRepresented == LInv => Represented
<1> SUFFICES ASSUME LInv, NEW s, Lists(s) PROVE AbstractRing = Abstract(s)
  BY DEF Represented
<1>1. count \in Nat
  BY DEF LInv, TypeOK
<1>2. CASE count = 0
  <2>1. [i \in 1 .. count |-> nodes[s[i]].data] = <<>>
    BY <1>2
  <2> QED
    BY <1>2, <2>1 DEF AbstractRing, Abstract
<1>3. CASE count > 0
  <2>1. \A i \in 1 .. count : Walk[i] = s[i]
    BY <1>3, WalkFacts DEF LInv
  <2>2. [i \in 1 .. count |-> nodes[Walk[i]].data] = [i \in 1 .. count |-> nodes[s[i]].data]
    BY <2>1
  <2>3. count # 0
    BY <1>3
  <2>4. AbstractRing = [list |-> [i \in 1 .. count |-> nodes[Walk[i]].data],
                        cur |-> nodes[cursor].data]
    BY <2>3, Zenon DEF AbstractRing
  <2>5. Abstract(s) = [list |-> [i \in 1 .. count |-> nodes[s[i]].data],
                       cur |-> nodes[cursor].data]
    BY <2>3, Zenon DEF Abstract
  <2> QED
    BY <2>2, <2>4, <2>5, Zenon
<1> QED
  BY <1>1, <1>2, <1>3

\* The listed tasks, each at its place, and the place of the cursor.
LEMMA AbstractFacts ==
  ASSUME LInv, NEW s, Lists(s)
  PROVE  /\ Abstract(s).list \in Seq(Items) /\ Len(Abstract(s).list) = count
         /\ DOMAIN Abstract(s).list = 1 .. count
         /\ \A i \in 1 .. count : Abstract(s).list[i] = nodes[s[i]].data
         /\ \A i, j \in 1 .. count : Abstract(s).list[i] = Abstract(s).list[j] => i = j
         /\ count > 0 => \E k \in 1 .. count : cursor = s[k] /\ Abstract(s).cur = Abstract(s).list[k]
         /\ \A t : t \in Ring!Elems(Abstract(s)) <=> Found(t)
<1>1. count \in Nat
  BY DEF LInv, TypeOK
<1> DEFINE q == [i \in 1 .. count |-> nodes[s[i]].data]
<1>2. Abstract(s).list = q /\ (count > 0 => Abstract(s).cur = nodes[cursor].data)
  BY DEF Abstract
<1>3. \A i \in 1 .. count : q[i] = nodes[s[i]].data /\ s[i] \in used /\ q[i] \in Items
  BY DEF Lists, LInv, DataSound
<1>4. q \in Seq(Items) /\ Len(q) = count /\ DOMAIN q = 1 .. count
  BY <1>1, <1>3
<1> HIDE DEF q
<1>5. \A i, j \in 1 .. count : q[i] = q[j] => i = j
  <2>1. \A m, n \in used : nodes[m].data = nodes[n].data => m = n
    BY DEF LInv, DataSound
  <2>2. \A i, j \in 1 .. count : s[i] = s[j] => i = j
    BY DEF Lists
  <2> QED
    BY <1>3, <2>1, <2>2
<1>6. count > 0 => \E k \in 1 .. count : cursor = s[k]
  BY DEF LInv, Lists
<1>7. ASSUME NEW t PROVE t \in Ring!Elems(Abstract(s)) <=> Found(t)
  <2>1. t \in Ring!Elems(Abstract(s)) <=> \E i \in 1 .. count : nodes[s[i]].data = t
    BY <1>2, <1>3, <1>4 DEF Ring!Elems
  <2>2. Found(t) <=> \E n \in used : nodes[n].data = t
    BY FindFacts
  <2> QED
    BY <1>3, <2>1, <2>2 DEF Lists
<1> QED
  BY <1>2, <1>3, <1>4, <1>5, <1>6, <1>7

\* In a list without duplicates a task is at one place, and what follows it is
\* at the next one.
LEMMA PlaceFacts ==
  ASSUME NEW q \in Seq(Items), NEW k \in 1 .. Len(q),
         \A i, j \in 1 .. Len(q) : q[i] = q[j] => i = j
  PROVE  /\ Ring!Position(q, q[k]) = k
         /\ Ring!Following(q, q[k]) = q[IF k = Len(q) THEN 1 ELSE k + 1]
<1>1. Ring!Position(q, q[k]) = k
  <2>1. DOMAIN q = 1 .. Len(q)
    OBVIOUS
  <2>2. \A i \in DOMAIN q : q[i] = q[k] <=> i = k
    BY <2>1
  <2> QED
    BY <2>1, <2>2 DEF Ring!Position
<1> QED
  BY <1>1 DEF Ring!Following

LEMMA AddImplements ==
  ASSUME LInv, LInv', Represented, Represented', NEW t \in Items, AddNode(t)
  PROVE  Ring!Add(t)
<1>1. PICK s : Lists(s)
  BY DEF LInv
<1>2. PICK r, new :
        /\ new \in Node \ used /\ count' = count + 1
        /\ r[count + 1] = new /\ \A i \in 1 .. count : r[i] = s[i]
        /\ Lists(r)'
        /\ nodes'[new].data = t /\ \A n \in used : nodes'[n].data = nodes[n].data
        /\ cursor' = (IF count = 0 THEN new ELSE cursor)
  BY <1>1, AddFacts
<1> DEFINE q == Abstract(s).list
           x == [i \in 1 .. count + 1 |-> nodes'[r[i]].data]
<1>3. AbstractRing = Abstract(s) /\ AbstractRing' = Abstract(r)'
  BY <1>1, <1>2 DEF Represented
<1>4. /\ q \in Seq(Items) /\ Len(q) = count /\ DOMAIN q = 1 .. count
      /\ \A i \in 1 .. count : q[i] = nodes[s[i]].data
      /\ t \notin Ring!Elems(Abstract(s))
  BY <1>1, AbstractFacts DEF AddNode
<1>5. count \in Nat /\ MaxSize \in Nat /\ count < MaxSize
  BY CountFacts DEF AddNode
<1>6. /\ Abstract(r)'.list = x
      /\ Abstract(r)'.cur = IF count = 0 THEN t ELSE Abstract(s).cur
      /\ Abstract(r)' = [list |-> Abstract(r)'.list, cur |-> Abstract(r)'.cur]
  <2>1. count > 0 => cursor \in used
    BY DEF LInv
  <2> QED
    BY <1>2, <1>5, <2>1 DEF Abstract
<1>7. x = Append(q, t)
  <2> HIDE DEF q
  <2>1. \A i \in 1 .. count : x[i] = q[i]
    BY <1>1, <1>2, <1>4, <1>5 DEF Lists
  <2>2. x[count + 1] = t
    BY <1>2, <1>5
  <2>3. x \in Seq(Items) /\ Len(x) = count + 1
    <3>1. \A i \in 1 .. count + 1 : i \in 1 .. count \/ i = count + 1
      BY <1>5
    <3>2. \A i \in 1 .. count : q[i] \in Items
      BY <1>4
    <3>3. \A i \in 1 .. count + 1 : x[i] \in Items
      BY <2>1, <2>2, <3>1, <3>2
    <3> QED
      BY <1>5, <3>3
  <2> HIDE DEF x
  <2> QED
    BY <1>4, <1>5, <2>1, <2>2, <2>3
<1>8. q = <<>> <=> count = 0
  BY <1>4, <1>5
<1>9. AbstractRing' = Ring!AddTask(AbstractRing, t)
  BY <1>3, <1>4, <1>6, <1>7, <1>8 DEF Ring!AddTask
<1> QED
  BY <1>3, <1>4, <1>5, <1>9 DEF Ring!Add, AddNode

LEMMA RemoveImplements ==
  ASSUME LInv, Represented, Represented', NEW t \in Items, RemoveNode(t)
  PROVE  Ring!Remove(t)
<1>1. PICK s : Lists(s)
  BY DEF LInv
<1>2. PICK r, k : TakesOut(s, r, k, t)
  BY <1>1, RemoveFacts
<1> DEFINE q == Abstract(s).list
           x == [j \in 1 .. count - 1 |-> nodes'[r[j]].data]
<1>3. AbstractRing = Abstract(s) /\ AbstractRing' = Abstract(r)'
  BY <1>1, <1>2 DEF Represented, TakesOut
<1>4. /\ q \in Seq(Items) /\ Len(q) = count /\ DOMAIN q = 1 .. count
      /\ \A i \in 1 .. count : q[i] = nodes[s[i]].data
      /\ \A i, j \in 1 .. count : q[i] = q[j] => i = j
      /\ count > 0 => \E i \in 1 .. count : cursor = s[i] /\ Abstract(s).cur = q[i]
      /\ t \in Ring!Elems(Abstract(s))
  BY <1>1, AbstractFacts DEF RemoveNode
<1>5. /\ count \in Nat /\ k \in Nat /\ k <= count /\ q[k] = t
      /\ \A i \in 1 .. count : s[i] \in Node
  <2>1. count \in Nat /\ used \subseteq Node
    BY DEF LInv, TypeOK
  <2>2. \A i \in 1 .. count : s[i] \in used
    BY <1>1 DEF Lists
  <2> QED
    BY <1>2, <1>4, <2>1, <2>2 DEF TakesOut
<1> HIDE DEF q
<1>6. Ring!Position(q, t) = k /\ Ring!Following(q, t) = q[After(k)]
  <2>1. k \in 1 .. Len(q) /\ \A i, j \in 1 .. Len(q) : q[i] = q[j] => i = j
    BY <1>2, <1>4, <1>5 DEF TakesOut
  <2> QED
    BY <1>4, <1>5, <2>1, PlaceFacts DEF After
<1>7. AbstractRing' = Ring!RemoveTask(AbstractRing, t)
  <2>1. CASE count = 1
    <3>1. count' = 0 /\ [i \in 1 .. count' |-> nodes'[r[i]].data] = <<>>
      BY <1>2, <2>1 DEF TakesOut
    <3>2. Abstract(r)' = Ring!EmptyList
      BY <3>1 DEF Abstract, Ring!EmptyList, Ring!NoTask, Nothing
    <3> QED
      BY <1>3, <1>4, <2>1, <3>2 DEF Ring!RemoveTask, q
  <2>2. CASE count > 1
    <3>1. x = Ring!Without(q, t)
      <4>1. ASSUME NEW j \in 1 .. count - 1
            PROVE  nodes'[r[j]].data = IF j < k THEN q[j] ELSE q[j + 1]
        <5>1. (j < k => j \in 1 .. count) /\ (~ (j < k) => j + 1 \in 1 .. count)
          BY <1>5
        <5>2. nodes'[r[j]].data = nodes[r[j]].data
              /\ r[j] = s[IF j < k THEN j ELSE j + 1]
          <6>1. r[j] = s[IF j < k THEN j ELSE j + 1]
            BY <1>2 DEF TakesOut
          <6>2. r[j] \in Node
            BY <1>5, <5>1, <6>1
          <6> QED
            BY <1>2, <6>1, <6>2 DEF TakesOut
        <5> QED
          BY <1>4, <5>1, <5>2
      <4>2. x = [j \in 1 .. count - 1 |-> IF j < k THEN q[j] ELSE q[j + 1]]
        BY <4>1
      <4> HIDE DEF x
      <4> QED
        BY <1>4, <1>6, <4>2 DEF Ring!Without
    <3>2. PICK i \in 1 .. count : cursor = s[i] /\ Abstract(s).cur = q[i]
      BY <1>4, <2>2
    <3>3. nodes'[cursor'].data = IF Abstract(s).cur = t THEN Ring!Following(q, t) ELSE Abstract(s).cur
      <4>1. cursor = s[k] <=> i = k
        BY <1>1, <1>2, <3>2 DEF Lists, TakesOut
      <4>2. Abstract(s).cur = t <=> i = k
        BY <1>2, <1>4, <1>5, <3>2 DEF TakesOut
      <4>3. After(k) \in 1 .. count
        BY <1>2, <1>5 DEF After, TakesOut
      <4>4. CASE i = k
        BY <1>2, <1>4, <1>5, <1>6, <2>2, <4>1, <4>2, <4>3, <4>4 DEF TakesOut
      <4>5. CASE i # k
        BY <1>2, <1>4, <1>5, <2>2, <3>2, <4>1, <4>2, <4>5 DEF TakesOut
      <4> QED
        BY <4>4, <4>5
    <3>4. Abstract(r)' = [list |-> x, cur |-> nodes'[cursor'].data]
      <4>1. count' = count - 1 /\ count' # 0
        BY <1>2, <2>2 DEF TakesOut
      <4> QED
        BY <4>1 DEF Abstract
    <3>5. Ring!RemoveTask(Abstract(s), t) =
            [list |-> Ring!Without(q, t),
             cur |-> IF Abstract(s).cur = t THEN Ring!Following(q, t) ELSE Abstract(s).cur]
      <4>1. Len(q) # 1
        BY <1>4, <2>2
      <4> QED
        BY <1>4, <4>1, Zenon DEF Ring!RemoveTask, q
    <3> QED
      BY <1>3, <3>1, <3>3, <3>4, <3>5, Zenon
  <2> QED
    BY <1>2, <1>5, <2>1, <2>2 DEF TakesOut
<1> QED
  BY <1>7 DEF Ring!Remove, RemoveNode, Ring!NoTask, Nothing

\* The listed tasks do not change when neither the links nor the cursor do.
LEMMA SameRing ==
  ASSUME Unlinked, cursor' = cursor
  PROVE  AbstractRing' = AbstractRing
<1>1. Walk' = Walk
  BY DEF Walk, Unlinked
<1> QED
  BY <1>1 DEF AbstractRing, Unlinked

LEMMA FindNextImplements ==
  ASSUME LInv, LInv', Represented, Represented', FindNextTask
  PROVE  Ring!FindNext
<1>1. PICK s : Lists(s)
  BY DEF LInv
<1>2. /\ Unlinked /\ cursor' = (IF count > 1 THEN nodes[cursor].next ELSE cursor)
      /\ out' = (IF count > 0 THEN nodes[cursor'].data ELSE Nothing)
  BY DEF FindNextTask, Unlinked
<1>3. Lists(s)'
  BY <1>1, <1>2 DEF Lists, Unlinked, After, Behind
<1>4. AbstractRing = Abstract(s) /\ AbstractRing' = Abstract(s)'
  BY <1>1, <1>3 DEF Represented
<1> DEFINE q == Abstract(s).list
<1>5. /\ q \in Seq(Items) /\ Len(q) = count /\ DOMAIN q = 1 .. count
      /\ \A i \in 1 .. count : q[i] = nodes[s[i]].data
      /\ \A i, j \in 1 .. count : q[i] = q[j] => i = j
      /\ count > 0 => \E i \in 1 .. count : cursor = s[i] /\ Abstract(s).cur = q[i]
  BY <1>1, AbstractFacts
<1>6. count \in Nat
  BY DEF LInv, TypeOK
<1>7. /\ Abstract(s)' = [list |-> q, cur |-> IF count = 0 THEN Nothing ELSE nodes[cursor'].data]
      /\ Abstract(s) = [list |-> q, cur |-> IF count = 0 THEN Nothing ELSE nodes[cursor].data]
  BY <1>2 DEF Abstract, Unlinked
<1> HIDE DEF q
<1>8. CASE count > 1
  <2>1. PICK k \in 1 .. count : cursor = s[k] /\ Abstract(s).cur = q[k]
    BY <1>5, <1>8
  <2>2. After(k) \in 1 .. count /\ nodes[cursor].next = s[After(k)]
    BY <1>1, <1>6, <2>1 DEF Lists, After
  <2>3. Ring!Following(q, Abstract(s).cur) = q[After(k)]
    BY <1>5, <2>1, PlaceFacts DEF After
  <2>4. nodes[cursor'].data = q[After(k)]
    BY <1>2, <1>5, <1>8, <2>2
  <2>5. AbstractRing' = Ring!Advance(AbstractRing)
    <3>1. Abstract(s).list = q /\ Len(q) > 1
      BY <1>5, <1>8 DEF q
    <3> QED
      BY <1>4, <1>6, <1>7, <1>8, <2>3, <2>4, <3>1 DEF Ring!Advance
  <2>6. count # 0
    BY <1>8
  <2>7. (AbstractRing').cur = nodes[cursor'].data
    BY <1>4, <1>7, <2>6
  <2>8. out' = nodes[cursor'].data
    BY <1>2, <1>6, <1>8
  <2> QED
    BY <2>5, <2>7, <2>8 DEF Ring!FindNext
<1>9. CASE ~ (count > 1)
  <2>1. AbstractRing' = AbstractRing
    BY <1>2, <1>9, SameRing
  <2>2. AbstractRing' = Ring!Advance(AbstractRing)
    BY <1>4, <1>5, <1>9, <2>1 DEF Ring!Advance, q
  <2> QED
    BY <1>2, <1>4, <1>6, <1>7, <1>9, <2>2 DEF Ring!FindNext
<1> QED
  BY <1>8, <1>9

LEMMA StepImplementsRing ==
  LInv /\ LInv' /\ Represented /\ Represented' /\ [Next]_vars
    => [Ring!Next]_<<AbstractRing, out>>
<1> SUFFICES ASSUME LInv, LInv', Represented, Represented', [Next]_vars
             PROVE  [Ring!Next]_<<AbstractRing, out>>
  OBVIOUS
<1>1. PICK s : Lists(s)
  BY DEF LInv
<1>2. /\ AbstractRing = Abstract(s) /\ Len(Abstract(s).list) = count
      /\ \A t : t \in Ring!Elems(Abstract(s)) <=> Found(t)
      /\ count \in Nat /\ MaxSize \in Nat /\ (used # Node <=> count < MaxSize)
  BY <1>1, AbstractFacts, CountFacts DEF Represented
<1>3. ASSUME NEW t \in Items, AddRefused(t) PROVE Ring!Add(t)
  <2>1. AbstractRing' = AbstractRing /\ out' = Nothing
    BY <1>3, SameRing DEF AddRefused, Unlinked
  <2>2. ~ (t \notin Ring!Elems(AbstractRing) /\ Len(AbstractRing.list) < MaxSize)
    BY <1>2, <1>3 DEF AddRefused
  <2> QED
    BY <2>1, <2>2 DEF Ring!Add, Ring!NoTask, Nothing
<1>4. ASSUME NEW t \in Items, AddNode(t) PROVE Ring!Add(t)
  BY <1>4, AddImplements
<1>5. ASSUME NEW t \in Items, RemoveAbsent(t) PROVE Ring!Remove(t)
  <2>1. AbstractRing' = AbstractRing /\ out' = Nothing
    BY <1>5, SameRing DEF RemoveAbsent, Unlinked
  <2>2. t \notin Ring!Elems(AbstractRing)
    BY <1>2, <1>5 DEF RemoveAbsent
  <2> QED
    BY <2>1, <2>2 DEF Ring!Remove, Ring!RemoveTask, Ring!NoTask, Nothing
<1>6. ASSUME NEW t \in Items, RemoveNode(t) PROVE Ring!Remove(t)
  BY <1>6, RemoveImplements
<1>7. CASE FindNextTask
  BY <1>7, FindNextImplements DEF Ring!Next
<1>8. CASE FindCurrentTask
  <2>1. AbstractRing' = AbstractRing
    BY <1>8, SameRing DEF FindCurrentTask, Unlinked
  <2>2. AbstractRing.cur = (IF count > 0 THEN nodes[cursor].data ELSE Nothing)
    BY <1>2 DEF AbstractRing
  <2> QED
    BY <1>8, <2>1, <2>2 DEF FindCurrentTask, Ring!Next, Ring!FindCurrent
<1>9. CASE UNCHANGED vars
  BY <1>9, SameRing DEF vars, Unlinked
<1> QED
  BY <1>3, <1>4, <1>5, <1>6, <1>7, <1>8, <1>9 DEF Next, Ring!Next

\* Every operation on the links is the operation of TaskRing on the sequence
\* they stand for: tasks are served in order of arrival, a removal leaves the
\* others in their order, and each call returns what the sequence returns
\* (scheduler/ready_list.hpp over common/circular_list.hpp).
THEOREM RingImplements == Spec => ImplementsTaskRing
<1>1. Init => AbstractRing = Ring!EmptyList /\ out = Ring!NoTask
  BY DEF Init, AbstractRing, Ring!EmptyList, Ring!NoTask, Nothing
<1>2. Init => Ring!Init
  BY <1>1 DEF Ring!Init
<1>3. LInv /\ [Next]_vars => LInv'
  BY NextLInv
<1> QED
  BY <1>2, <1>3, InitLInv, RingRepresented, StepImplementsRing, PTL
  DEF Spec, ImplementsTaskRing, Ring!Spec
===============================================================================
