------------------------------ MODULE LinkList ------------------------------
(***************************************************************************)
(* woort_linklist.c: a list linked both ways.  A pointer to a node, or to  *)
(* the storage in it, is the node's address; malloc gives any that is free. *)
(* The callers of emplace_back and emplace_front write the element at once. *)
(***************************************************************************)
EXTENDS Integers, Sequences, FiniteSets, Functions

CONSTANTS
  Values,
  Nodes,      \* the addresses of nodes
  PopsLonger  \* bound: whether the last of several elements is ever popped

NULL == 0

LinkListAssumption == IsFiniteSet(Nodes) /\ NULL \notin Nodes

VARIABLES
  m_head,
  m_tail,
  nodes,   \* m_prev, m_next and the element of each node that is allocated
  call,
  status   \* "ok", or "freed" by deinit

vars == <<m_head, m_tail, nodes, call, status>>

Init ==
  /\ m_head = NULL
  /\ m_tail = NULL
  /\ nodes = <<>>
  /\ call = <<"init">>
  /\ status = "ok"

Ok == status = "ok"

Allocated == DOMAIN nodes

-----------------------------------------------------------------------------
\* The node that is reached after k steps (woort_linklist_index, and k times
\* woort_linklist_next); nothing is reached through a node that was freed.
NodeAt[k \in Nat] ==
  IF k = 0 THEN m_head
  ELSE IF NodeAt[k - 1] \in Allocated THEN nodes[NodeAt[k - 1]].next ELSE NULL

Steps == {k \in 0 .. Cardinality(Allocated) : NodeAt[k] # NULL}

\* The nodes in the order of an iteration.
Iterated == [k \in 1 .. Cardinality(Steps) |-> NodeAt[k - 1]]

Without(gone) == [x \in Allocated \ gone |-> nodes[x]]

-----------------------------------------------------------------------------
PushBack(v) ==
  /\ Ok
  /\ \E n \in Nodes \ Allocated :
       /\ nodes' = [x \in Allocated \cup {n} |->
                      IF x = n THEN [prev |-> m_tail, next |-> NULL, value |-> v]
                      ELSE IF x = m_tail THEN [nodes[x] EXCEPT !.next = n]
                      ELSE nodes[x]]
       /\ m_head' = IF m_tail = NULL THEN n ELSE m_head
       /\ m_tail' = n
  /\ call' = <<"push_back", <<v>>>>
  /\ UNCHANGED status

\* Bug: the node that was first keeps its m_prev.
LinkedInFrontOneWay(n, v) ==
  [x \in Allocated \cup {n} |->
     IF x = n THEN [prev |-> NULL, next |-> m_head, value |-> v] ELSE nodes[x]]

LinkedInFront(n, v) ==
  [x \in Allocated \cup {n} |->
     IF x = n THEN [prev |-> NULL, next |-> m_head, value |-> v]
     ELSE IF x = m_head THEN [nodes[x] EXCEPT !.prev = n]
     ELSE nodes[x]]

PushFront(v) ==
  /\ Ok
  /\ \E n \in Nodes \ Allocated :
       /\ nodes' = LinkedInFront(n, v)
       /\ m_tail' = IF m_head = NULL THEN n ELSE m_tail
       /\ m_head' = n
  /\ call' = <<"push_front", <<v>>>>
  /\ UNCHANGED status

\* There is no memory for a node, or no node to pop.
Refuse ==
  /\ Ok
  /\ call' = <<"refused">>
  /\ UNCHANGED <<m_head, m_tail, nodes, status>>

\* Bug: the last node is taken for the first.
UnlinkedFromTail(n) ==
  [x \in Allocated \ {n} |->
     [nodes[x] EXCEPT !.next = IF x = nodes[n].prev THEN NULL ELSE @,
                      !.prev = IF x = nodes[n].next THEN nodes[n].prev ELSE @]]

Unlinked(n) ==
  [x \in Allocated \ {n} |->
     [nodes[x] EXCEPT !.next = IF x = nodes[n].prev THEN nodes[n].next ELSE @,
                      !.prev = IF x = nodes[n].next THEN nodes[n].prev ELSE @]]

Position(n) == CHOOSE k \in DOMAIN Iterated : Iterated[k] = n

Erase(n) ==
  /\ Ok
  /\ nodes' = Unlinked(n)
  /\ m_tail' = IF nodes[n].next = NULL THEN nodes[n].prev ELSE m_tail
  /\ m_head' = IF nodes[n].prev = NULL THEN nodes[n].next ELSE m_head
  /\ call' = <<"erase", Position(n)>>
  /\ UNCHANGED status

PopFront ==
  /\ Ok
  /\ m_head # NULL
  /\ LET next == nodes[m_head].next IN
       /\ nodes' = [x \in Allocated \ {m_head} |->
                      IF x = next THEN [nodes[x] EXCEPT !.prev = NULL] ELSE nodes[x]]
       /\ m_head' = next
       /\ m_tail' = IF next = NULL THEN NULL ELSE m_tail
  /\ call' = <<"pop_front">>
  /\ UNCHANGED status

\* Whether there is a node before the last is asked of m_next, which is NULL:
\* the list loses all its nodes, of which one is freed.
PopBack ==
  /\ Ok
  /\ m_tail # NULL
  /\ m_head = m_tail \/ PopsLonger
  /\ LET last == nodes[m_tail] IN
       IF last.next # NULL
       THEN /\ nodes' = [x \in Allocated \ {m_tail} |->
                           IF x = last.prev THEN [nodes[x] EXCEPT !.next = NULL] ELSE nodes[x]]
            /\ m_tail' = last.prev
            /\ UNCHANGED m_head
       ELSE /\ nodes' = Without({m_tail})
            /\ m_head' = NULL
            /\ m_tail' = NULL
  /\ call' = <<"pop_back">>
  /\ UNCHANGED status

\* The nodes that deinit walks over are freed.
FreeAll == nodes' = Without({NodeAt[k] : k \in Steps})

Clear ==
  /\ Ok
  /\ FreeAll
  /\ m_head' = NULL
  /\ m_tail' = NULL
  /\ call' = <<"clear">>
  /\ UNCHANGED status

\* m_head and m_tail stay as they are.
Deinit ==
  /\ Ok
  /\ FreeAll
  /\ status' = "freed"
  /\ call' = <<"clear">>
  /\ UNCHANGED <<m_head, m_tail>>

-----------------------------------------------------------------------------
Next ==
  \/ \E v \in Values : PushBack(v) \/ PushFront(v)
  \/ \E n \in Allocated : Erase(n)
  \/ PopFront \/ PopBack \/ Refuse \/ Clear \/ Deinit

Spec == Init /\ [][Next]_vars

-----------------------------------------------------------------------------
TypeOK ==
  /\ m_head \in Nodes \cup {NULL}
  /\ m_tail \in Nodes \cup {NULL}
  /\ Allocated \subseteq Nodes
  /\ nodes \in [Allocated -> [prev : Nodes \cup {NULL}, next : Nodes \cup {NULL},
                              value : Values]]
  /\ status \in {"ok", "freed"}

\* The nodes of order, and no others, are allocated and linked in that order.
LinkedAs(order) ==
  /\ IsInjective(order)
  /\ Range(order) = Allocated
  /\ m_head = IF order = <<>> THEN NULL ELSE order[1]
  /\ m_tail = IF order = <<>> THEN NULL ELSE order[Len(order)]
  /\ \A k \in DOMAIN order :
       /\ nodes[order[k]].prev = IF k = 1 THEN NULL ELSE order[k - 1]
       /\ nodes[order[k]].next = IF k = Len(order) THEN NULL ELSE order[k + 1]

\* Backwards the list is linked as an iteration finds it forwards, both ends
\* are right, and no node is lost: not even when the list is given up.
ListIsLinked ==
  /\ Ok => LinkedAs(Iterated)
  /\ ~Ok => Allocated = {}

Contents == IF Ok THEN [k \in DOMAIN Iterated |-> nodes[Iterated[k]].value] ELSE <<>>

Abstract == INSTANCE Sequence WITH
  seq <- Contents,
  Chunks <- {<<v>> : v \in Values},
  Sizes <- {}

\* An iteration gives the sequence that the calls made, across pushes and
\* removals at both ends and in the middle, and nodes that are used again.
ListIsSequence == Abstract!Spec

\* woort_linklist.c:232, "Only one node in list.", says pop_back where it empties
\* the list: then no node is left.
EmptyHoldsNothing == m_head = NULL => Allocated = {}
=============================================================================
