----------------------------- MODULE CircularList ----------------------------
(***************************************************************************)
(* The circular doubly linked list (common/circular_list.hpp) over its     *)
(* pool of statically allocated nodes (common/memory_buffer.hpp), driven   *)
(* by the four operations of scheduler/ready_list.hpp on one priority      *)
(* group.  Nodes are taken lowest free index first, so list order and      *)
(* node order differ after the first removal.  Fields of freed nodes keep  *)
(* their old contents, as in the code.                                     *)
(***************************************************************************)
EXTENDS Integers, Sequences, FiniteSets

CONSTANTS Items,    \* task ids that may be added
          MaxSize   \* task::max_number, the number of nodes

ASSUME CircularListAssumption == MaxSize \in Nat \ {0} /\ Items \subseteq Nat

Node == 0 .. MaxSize - 1

VARIABLES used,     \* MemoryBuffer::m_status, the set of allocated nodes
          nodes,    \* m_next, m_prev and m_data of every node
          first, last, count,
          cursor,   \* ready_list::TaskList::m_current
          out       \* the value the last operation returned, -1 for none

vars == <<used, nodes, first, last, count, cursor, out>>

Nothing == -1

Init ==
  /\ used = {}
  /\ nodes = [n \in Node |-> [next |-> 0, prev |-> 0, data |-> 0]]
  /\ first = 0 /\ last = 0 /\ count = 0 /\ cursor = 0
  /\ out = Nothing

\* The node reached from m_first after i - 1 steps along m_next.
Walk[i \in 1 .. count] == IF i = 1 THEN first ELSE nodes[Walk[i - 1]].next

\* find compares count nodes from m_first on and returns the first match.
Found(t) == \E i \in 1 .. count : nodes[Walk[i]].data = t

Find(t) ==
  LET i == CHOOSE i \in 1 .. count :
             /\ nodes[Walk[i]].data = t
             /\ \A j \in 1 .. i - 1 : nodes[Walk[j]].data # t
  IN  Walk[i]

FirstFree == CHOOSE n \in Node \ used : \A m \in Node \ used : n <= m

\* A mutant: the new node is not linked back to the first one.
LinkOpenEnded(new, t) ==
  CASE count = 0 -> [nodes EXCEPT ![new] = [next |-> new, prev |-> new, data |-> t]]
    [] count = 1 -> [nodes EXCEPT ![first].next = new, ![first].prev = new,
                                  ![new] = [next |-> first, prev |-> first, data |-> t]]
    [] OTHER     -> [nodes EXCEPT ![last].next = new,
                                  ![new] = [next |-> first, prev |-> last, data |-> t]]

\* CircularList::add once the node is allocated: the three cases of m_count.
Link(new, t) ==
  CASE count = 0 -> [nodes EXCEPT ![new] = [next |-> new, prev |-> new, data |-> t]]
    [] count = 1 -> [nodes EXCEPT ![first].next = new, ![first].prev = new,
                                  ![new] = [next |-> first, prev |-> first, data |-> t]]
    [] OTHER     -> [nodes EXCEPT ![last].next = new, ![first].prev = new,
                                  ![new] = [next |-> first, prev |-> last, data |-> t]]

AddRefused(t) ==
  /\ Found(t) \/ used = Node
  /\ out' = Nothing
  /\ UNCHANGED <<used, nodes, first, last, count, cursor>>

AddNode(t) ==
  /\ ~ Found(t) /\ used # Node
  /\ LET new == FirstFree
     IN  /\ used' = used \cup {new}
         /\ nodes' = Link(new, t)
         /\ first' = IF count = 0 THEN new ELSE first
         /\ last' = new
         /\ cursor' = IF count = 0 THEN new ELSE cursor
  /\ count' = count + 1
  /\ out' = t

\* CircularList::remove of node n when others remain.
Unlink(n) ==
  LET p == nodes[n].prev
      x == nodes[n].next
      hop == [nodes EXCEPT ![p].next = x]
  IN  [hop EXCEPT ![x].prev = p]

\* A mutant: m_last is left on the node that was freed.
LastAfterStale(n) == last

LastAfter(n) == IF n # first /\ n = last THEN nodes[n].prev ELSE last

\* A mutant: m_count is decremented although nothing was found.
RemoveAbsentCounts(t) ==
  /\ ~ Found(t)
  /\ count' = count - 1
  /\ out' = Nothing
  /\ UNCHANGED <<used, nodes, first, last, cursor>>

RemoveAbsent(t) ==
  /\ ~ Found(t)
  /\ out' = Nothing
  /\ UNCHANGED <<used, nodes, first, last, count, cursor>>

RemoveNode(t) ==
  /\ Found(t)
  /\ LET n == Find(t)
         others == count > 1
     IN  /\ cursor' = IF cursor = n /\ others THEN nodes[n].next ELSE cursor
         /\ nodes' = IF others THEN Unlink(n) ELSE nodes
         /\ first' = IF others /\ n = first THEN nodes[n].next ELSE first
         /\ last' = IF others THEN LastAfter(n) ELSE last
         /\ used' = used \ {n}
  /\ count' = count - 1
  /\ out' = Nothing

\* findNextTask: only a group of two or more advances its cursor.
FindNextTask ==
  /\ cursor' = IF count > 1 THEN nodes[cursor].next ELSE cursor
  /\ out' = IF count > 0 THEN nodes[cursor'].data ELSE Nothing
  /\ UNCHANGED <<used, nodes, first, last, count>>

FindCurrentTask ==
  /\ out' = IF count > 0 THEN nodes[cursor].data ELSE Nothing
  /\ UNCHANGED <<used, nodes, first, last, count, cursor>>

Next ==
  \/ \E t \in Items : AddRefused(t) \/ AddNode(t) \/ RemoveAbsent(t) \/ RemoveNode(t)
  \/ FindNextTask
  \/ FindCurrentTask

Spec == Init /\ [][Next]_vars

-----------------------------------------------------------------------------
\* Every variable has its type.
TypeOK ==
  /\ used \subseteq Node
  /\ nodes \in [Node -> [next : Node, prev : Node, data : Nat]]
  /\ first \in Node /\ last \in Node /\ cursor \in Node
  /\ count \in 0 .. MaxSize
  /\ out \in Items \cup {Nothing}

\* The links of the allocated nodes form one ring in both directions: m_prev
\* undoes m_next, m_last closes on m_first, and count steps along m_next
\* visit every allocated node and come back.  The asserts of
\* MemoryBuffer::at (an accessed node is allocated) hold with it.
OneRing ==
  /\ Cardinality(used) = count
  /\ count > 0 =>
       /\ {Walk[i] : i \in 1 .. count} = used
       /\ nodes[Walk[count]].next = first
       /\ last = Walk[count]
       /\ cursor \in used
       /\ \A n \in used : nodes[nodes[n].next].prev = n

\* The sequence the pointers stand for, and the list they implement.
AbstractRing ==
  IF count = 0 THEN [list |-> <<>>, cur |-> Nothing]
  ELSE [list |-> [i \in 1 .. count |-> nodes[Walk[i]].data],
        cur  |-> nodes[cursor].data]

Ring == INSTANCE TaskRing WITH ring <- AbstractRing

\* Every operation on the pointers is the operation on the sequence: same
\* order of service, same cursor after a removal, same result returned.
ImplementsTaskRing == Ring!Spec
=============================================================================
