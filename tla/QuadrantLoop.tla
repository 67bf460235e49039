---------------------------- MODULE QuadrantLoop ----------------------------
(***************************************************************************)
(* One call of sort_lines_by_quadrant(), step by step, for every order of  *)
(* the lines and every assignment of quadrants to them.  The caller,       *)
(* QuadTree_buildQuadTree(), counted the lines of each quadrant before.    *)
(***************************************************************************)
EXTENDS QuadrantSort

CONSTANT Lines       \* the lines of a node of the quadtree

ASSUME LinesAssumption == IsFiniteSet(Lines)

num_lines == Cardinality(Lines)
Indices   == 0..(num_lines - 1)

VARIABLES
  quadrantOf,   \* what get_quadrant_number() says of each line; it does not change
  sort          \* the state of the loops

vars == <<quadrantOf, sort>>

\* The counts of the first loop of QuadTree_buildQuadTree()
children_sizes == [q \in 0..4 |-> Cardinality({l \in Lines : quadrantOf[l] = q})]

Orders == OrdersOf(Lines)

Init ==
  /\ quadrantOf \in [Lines -> 0..4]
  /\ \E lines \in Orders : sort = SortInit(lines, [i \in Indices |-> quadrantOf[lines[i]]])

Search == /\ ~SortDone(sort) /\ Searching(sort, children_sizes)
          /\ sort' = SearchStep(sort)
          /\ UNCHANGED quadrantOf

Advance == /\ ~SortDone(sort) /\ ~Searching(sort, children_sizes)
           /\ sort' = NextQuadrant(sort, children_sizes)
           /\ UNCHANGED quadrantOf

Next == Search \/ Advance

Spec     == Init /\ [][Next]_vars
FairSpec == Spec /\ WF_vars(Next)

-----------------------------------------------------------------------------
(* Properties.                                                             *)

\* The locals stay numbers of places in the array, the arrays total.
TypeOK ==
  /\ quadrantOf \in [Lines -> 0..4]
  /\ sort.lines \in [Indices -> Lines] /\ sort.assignment \in [Indices -> 0..4]
  /\ sort.index_in_quadrant \in 0..num_lines /\ sort.index_to_swap \in 0..num_lines
  /\ sort.quadrant_start \in 0..num_lines /\ sort.quadrant \in 0..4

\* The while loop has no bound of its own: it stops because every quadrant
\* has as many lines ahead as it was counted to have.  So it never looks
\* behind the end of assignment, nor swaps a line to a place behind it.
InBounds ==
  ~SortDone(sort) /\ Searching(sort, children_sizes) =>
    sort.index_in_quadrant \in Indices /\ Target(sort) \in Indices

\* The arrays are swapped together and no line is lost: lines is still an
\* order of the same lines, and assignment still says where each belongs.
Paired ==
  /\ sort.lines \in Orders
  /\ \A i \in Indices : sort.assignment[i] = quadrantOf[sort.lines[i]]

\* When the loops are done the lines are in the order of their quadrants,
\* the ones no quadrant contains at the end: line_q1 to large_lines of
\* QuadTree_buildQuadTree() delimit the lines of each.
Sorted == SortDone(sort) => sort.lines \in Arrangements(Lines, quadrantOf)

\* The loops end.
Terminates == <>SortDone(sort)
=============================================================================
