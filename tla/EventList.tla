------------------------------ MODULE EventList ------------------------------
(***************************************************************************)
(* intersection_event_list.c and CollisionWorld_detectIntersection(): the  *)
(* linked lists of events, as nodes with addresses, through one time step  *)
(* after another.                                                          *)
(*                                                                         *)
(* Each strand of the detection appends to its own view of the reducer;    *)
(* the views of neighbouring strands are merged when both are through, in  *)
(* an order the scheduler chooses.  Then the list is counted, sorted, read *)
(* by the collision solver, and freed.                                     *)
(***************************************************************************)
EXTENDS Integers, Sequences, FiniteSets, SequencesExt

CONSTANTS
  Addresses,    \* where malloc may put a node
  NULL,
  Findings,     \* what the strands find in a step: a sequence of events for each strand
  MaxSteps

\* of the events: for NO_INTERSECTION there is none
IntersectionType == {"L1_WITH_L2", "L2_WITH_L1", "ALREADY_INTERSECTED"}

ASSUME EventListAssumption ==
  /\ NULL \notin Addresses /\ IsFiniteSet(Addresses) /\ MaxSteps \in Nat
  /\ Findings \subseteq Seq(Seq([l1 : Nat, l2 : Nat, type : IntersectionType])) /\ << >> \notin Findings

\* The detection compares two lines once in a step, so that a pair is found once: this
\* is what PairwiseDetection promises.
SamePair(e, f) == e.l1 = f.l1 /\ e.l2 = f.l2
PairsFoundOnce(f) ==
  \A i, j \in DOMAIN f : \A k \in DOMAIN f[i], m \in DOMAIN f[j] :
    SamePair(f[i][k], f[j][m]) => i = j /\ k = m
FoundOnce == \A f \in Findings : PairsFoundOnce(f)

VARIABLES
  nodes,        \* the nodes that are allocated
  views,        \* the views of EVENT_LIST_REDUCER, in the serial order of their strands
  work,         \* what the strand of each view has still to append
  promised,     \* what each view has to hold, in order
  list,         \* intersectionEventList
  cursor,       \* startNode or curNode
  solved,       \* the events the solver was called for
  numLineLineCollisions,
  pc,           \* "idle", "detect", "sort", "solve" or "delete"
  step

vars == <<nodes, views, work, promised, list, cursor, solved, numLineLineCollisions, pc, step>>

Empty == [head |-> NULL, tail |-> NULL, size |-> 0]

-----------------------------------------------------------------------------
(* The operations on a list.                                               *)

Data(n) == [l1 |-> n.l1, l2 |-> n.l2, type |-> n.type]

\* Mutant: the second line is not looked at.
compareData_FirstLine(n, m) == IF n.l1 < m.l1 THEN -1 ELSE IF n.l1 = m.l1 THEN 0 ELSE 1
compareData(n, m) ==
  IF n.l1 < m.l1 THEN -1
  ELSE IF n.l1 # m.l1 THEN 1
  ELSE IF n.l2 < m.l2 THEN -1 ELSE IF n.l2 = m.l2 THEN 0 ELSE 1

swapData(ns, a, b) ==
  [ns EXCEPT ![a].l1 = ns[b].l1, ![a].l2 = ns[b].l2, ![a].type = ns[b].type,
             ![b].l1 = ns[a].l1, ![b].l2 = ns[a].l2, ![b].type = ns[a].type]

\* The list when the node at a was appended
Appended(lst, a) ==
  [head |-> IF lst.head = NULL THEN a ELSE lst.head, tail |-> a, size |-> lst.size + 1]

Linked(ns, a, b) == IF a = NULL THEN ns ELSE [ns EXCEPT ![a].next = b]

\* The nodes when e was appended to the list in a node at a
WithNode(ns, lst, a, e) ==
  Linked([x \in DOMAIN ns \cup {a} |->
            IF x = a THEN [l1 |-> e.l1, l2 |-> e.l2, type |-> e.type, next |-> NULL] ELSE ns[x]],
         IF lst.head = NULL THEN NULL ELSE lst.tail, a)

\* Mutant: the tail stays.
mergeNodes_OldTail(ns, left, right) ==
  [nodes |-> IF right.size = 0 \/ left.size = 0 THEN ns ELSE Linked(ns, left.tail, right.head),
   left  |-> IF right.size = 0 THEN left ELSE IF left.size = 0 THEN right
             ELSE [head |-> left.head, tail |-> left.tail, size |-> left.size + right.size],
   right |-> Empty]

mergeNodes(ns, left, right) ==
  [nodes |-> IF right.size = 0 \/ left.size = 0 THEN ns ELSE Linked(ns, left.tail, right.head),
   left  |-> IF right.size = 0 THEN left ELSE IF left.size = 0 THEN right
             ELSE [head |-> left.head, tail |-> right.tail, size |-> left.size + right.size],
   right |-> IF right.size = 0 THEN right ELSE Empty]

\* The addresses that the next pointers lead to from a, one after another
Hops(ns, a) ==
  LET at[n \in 0..Cardinality(DOMAIN ns)] ==
        IF n = 0 THEN a ELSE IF at[n - 1] \in DOMAIN ns THEN ns[at[n - 1]].next ELSE NULL
  IN at
\* The addresses from a to the end of the list, in order; a cycle has no more
\* of them than there are nodes
From(ns, a) ==
  LET at == Hops(ns, a)
      length == Cardinality({n \in 1..Cardinality(DOMAIN ns) : at[n - 1] \in DOMAIN ns})
  IN [i \in 1..length |-> at[i - 1]]
Contents(ns, lst) == LET at == From(ns, lst.head) IN [i \in DOMAIN at |-> Data(ns[at[i]])]

-----------------------------------------------------------------------------
(* A time step.                                                            *)

Init ==
  /\ nodes = [a \in {} |-> Empty] /\ list = Empty /\ cursor = NULL
  /\ views = <<Empty>> /\ work = << <<>> >> /\ promised = << <<>> >>
  /\ solved = <<>> /\ numLineLineCollisions = 0
  /\ pc = "idle" /\ step = 0

\* Every strand but the first gets a new view.
Begin ==
  /\ pc = "idle" /\ step < MaxSteps
  /\ \E f \in Findings :
       /\ work' = f
       /\ views' = [i \in DOMAIN f |-> IF i = 1 THEN views[1] ELSE Empty]
       /\ promised' = [i \in DOMAIN f |-> <<>>]
  /\ pc' = "detect" /\ step' = step + 1
  /\ UNCHANGED <<nodes, list, cursor, solved, numLineLineCollisions>>

\* IntersectionEventList_appendNode(): the strand of view i found an event.
AppendNode(i) ==
  /\ pc = "detect" /\ work[i] # <<>>
  /\ \E a \in Addresses \ DOMAIN nodes :
       /\ nodes' = WithNode(nodes, views[i], a, Head(work[i]))
       /\ views' = [views EXCEPT ![i] = Appended(views[i], a)]
  /\ work' = [work EXCEPT ![i] = Tail(work[i])]
  /\ promised' = [promised EXCEPT ![i] = Append(@, Head(work[i]))]
  /\ UNCHANGED <<list, cursor, solved, numLineLineCollisions, pc, step>>

\* malloc has no memory for it: the event is dropped.
AppendFails(i) ==
  /\ pc = "detect" /\ work[i] # <<>>
  /\ work' = [work EXCEPT ![i] = Tail(work[i])]
  /\ UNCHANGED <<nodes, views, promised, list, cursor, solved, numLineLineCollisions, pc, step>>

\* event_list_reduce() of two neighbours, and event_list_destroy() of the right one
Reduce(i) ==
  /\ pc = "detect" /\ i < Len(views) /\ work[i] = <<>> /\ work[i + 1] = <<>>
  /\ LET m == mergeNodes(nodes, views[i], views[i + 1]) IN
       /\ nodes' = [a \in DOMAIN nodes \ Range(From(m.nodes, m.right.head)) |-> m.nodes[a]]
       /\ views' = RemoveAt([views EXCEPT ![i] = m.left], i + 1)
  /\ work' = RemoveAt(work, i + 1)
  /\ promised' = RemoveAt([promised EXCEPT ![i] = @ \o promised[i + 1]], i + 1)
  /\ UNCHANGED <<list, cursor, solved, numLineLineCollisions, pc, step>>

\* All strands are through: the events are counted and handed over.
Collect ==
  /\ pc = "detect" /\ Len(views) = 1 /\ work[1] = <<>>
  /\ LET m == mergeNodes(nodes, list, views[1]) IN
       /\ numLineLineCollisions' = numLineLineCollisions + views[1].size
       /\ nodes' = m.nodes /\ list' = m.left /\ views' = <<m.right>>
       /\ cursor' = m.left.head
  /\ pc' = "sort"
  /\ UNCHANGED <<work, promised, solved, step>>

\* The first of the smallest of the nodes at these addresses
Least(at) ==
  CHOOSE i \in DOMAIN at :
    /\ \A j \in DOMAIN at : compareData(nodes[at[i]], nodes[at[j]]) <= 0
    /\ \A j \in 1..(i - 1) : compareData(nodes[at[i]], nodes[at[j]]) # 0

\* One round of sort_IntersectionEventList(), or its end
Sort ==
  /\ pc = "sort"
  /\ IF cursor = NULL
     THEN pc' = "solve" /\ cursor' = list.head /\ UNCHANGED nodes
     ELSE LET at == From(nodes, cursor) IN
          /\ nodes' = IF at[Least(at)] = cursor THEN nodes ELSE swapData(nodes, at[Least(at)], cursor)
          /\ cursor' = nodes[cursor].next
          /\ UNCHANGED pc
  /\ UNCHANGED <<views, work, promised, list, solved, numLineLineCollisions, step>>

\* CollisionWorld_collisionSolver() for the next event
Solve ==
  /\ pc = "solve" /\ cursor # NULL
  /\ solved' = Append(solved, Data(nodes[cursor]))
  /\ cursor' = nodes[cursor].next
  /\ UNCHANGED <<nodes, views, work, promised, list, numLineLineCollisions, pc, step>>

Solved ==
  /\ pc = "solve" /\ cursor = NULL
  /\ pc' = "delete" /\ cursor' = list.head /\ solved' = <<>>
  /\ UNCHANGED <<nodes, views, work, promised, list, numLineLineCollisions, step>>

\* Mutant: the loop stops at the tail.
AtEnd_Tail(a) == a = list.tail
\* IntersectionEventList_deleteNodes() has freed the last node.
AtEnd(a) == a = NULL

deleteNodes ==
  /\ pc = "delete"
  /\ IF AtEnd(cursor)
     THEN /\ list' = Empty /\ pc' = "idle" /\ promised' = << <<>> >>
          /\ UNCHANGED <<nodes, cursor>>
     ELSE /\ nodes' = [a \in DOMAIN nodes \ {cursor} |-> nodes[a]]
          /\ cursor' = nodes[cursor].next
          /\ UNCHANGED <<list, pc, promised>>
  /\ UNCHANGED <<views, work, solved, numLineLineCollisions, step>>

\* The program has made its steps.  Nothing else may stop it.
Stop == pc = "idle" /\ step = MaxSteps /\ UNCHANGED vars

Next ==
  \/ Begin
  \/ \E i \in DOMAIN views : AppendNode(i)
  \/ \E i \in DOMAIN views : AppendFails(i)
  \/ \E i \in DOMAIN views : Reduce(i)
  \/ Collect \/ Sort \/ Solve \/ Solved \/ deleteNodes \/ Stop

Spec == Init /\ [][Next]_vars

-----------------------------------------------------------------------------
(* Properties.                                                             *)

Pointers == Addresses \cup {NULL}
Events   == UNION {UNION {Range(f[i]) : i \in DOMAIN f} : f \in Findings}

\* A list never counts more nodes than there can be.
TypeOK ==
  /\ \A a \in DOMAIN nodes : a \in Addresses /\ Data(nodes[a]) \in Events /\ nodes[a].next \in Pointers
  /\ \A lst \in Range(views) \cup {list} :
       lst \in [head : Pointers, tail : Pointers, size : 0..Cardinality(Addresses)]
  /\ Len(views) = Len(work) /\ Len(views) = Len(promised) /\ views # <<>>
  /\ cursor \in Pointers /\ numLineLineCollisions \in Nat
  /\ pc \in {"idle", "detect", "sort", "solve", "delete"} /\ step \in 0..MaxSteps

WellFormed(lst) ==
  LET at == From(nodes, lst.head) IN
  IF lst.size = 0 THEN lst = Empty
  ELSE Len(at) = lst.size /\ lst.tail = at[Len(at)] /\ nodes[lst.tail].next = NULL

\* Every view holds the events its strands appended, in their serial order,
\* whatever was merged with it: mergeNodes() is associative and loses no
\* node of either list, so the list the solver gets does not depend on the
\* schedule.  size, head and tail agree with the chain of nodes.
ViewsHold ==
  /\ TypeOK
  /\ pc = "detect" => \A i \in DOMAIN views : WellFormed(views[i]) /\ Contents(nodes, views[i]) = promised[i]
  /\ pc \in {"sort", "solve"} => WellFormed(list) /\ Len(From(nodes, list.head)) = Len(promised[1])

\* Where the lists begin that own nodes, from what is still to be freed
Owners == IF pc = "delete" THEN <<cursor>> ELSE [i \in DOMAIN views |-> views[i].head] \o <<list.head>>
Owned(k) == From(nodes, Owners[k])

\* Every node that is allocated is in one list, and in one only, so that
\* deleteNodes() frees each once and no step leaves one behind; and no pointer
\* that is still used leads to a node that was freed.
NoLeak ==
  /\ UNION {Range(Owned(k)) : k \in DOMAIN Owners} = DOMAIN nodes
  /\ \A k, l \in DOMAIN Owners : \A i \in DOMAIN Owned(k), j \in DOMAIN Owned(l) :
       Owned(k)[i] = Owned(l)[j] => k = l /\ i = j
  /\ cursor \in DOMAIN nodes \cup {NULL}
  /\ \A a \in DOMAIN nodes : nodes[a].next \in DOMAIN nodes \cup {NULL}
  /\ \A i \in DOMAIN views : {views[i].head, views[i].tail} \subseteq DOMAIN nodes \cup {NULL}

\* The events a step reports are counted, and each is solved once, in the
\* order of the ids, however the strands ran and the views were merged:
\* CollisionWorld_detectIntersection() is deterministic.
Reported == IF pc \in {"detect", "sort", "solve"} THEN {Data(nodes[a]) : a \in DOMAIN nodes} ELSE {}
Mode     == IF pc = "detect" THEN "detect" ELSE IF pc \in {"sort", "solve"} THEN "solve" ELSE "idle"
Promise  == INSTANCE OrderedEvents WITH
              reported <- Reported, collisions <- numLineLineCollisions, mode <- Mode
ImplementsOrderedEvents == Promise!Spec
=============================================================================
