---------------------------- MODULE QuadrantSort ----------------------------
(***************************************************************************)
(* sort_lines_by_quadrant() of quadtree.c, as the state of its loops and   *)
(* the step they repeat.  The arrays lines and assignment are functions on *)
(* 0..num_lines-1; a state of the loops is a record with the locals of the *)
(* function and the two arrays it permutes in place.                       *)
(***************************************************************************)
EXTENDS Integers, FiniteSets

\* The orders of a set of lines in an array
OrdersOf(lines) ==
  LET places == 0..(Cardinality(lines) - 1) IN
  {a \in [places -> lines] : /\ \A l \in lines : \E i \in places : a[i] = l
                            /\ \A i, j \in places : a[i] = a[j] => i = j}

\* What the function promises its caller: the lines in the order of their
\* quadrants, in any order within a quadrant.
Arrangements(lines, quadrantOf) ==
  {a \in OrdersOf(lines) :
     \A i, j \in 0..(Cardinality(lines) - 1) : i < j => quadrantOf[a[i]] <= quadrantOf[a[j]]}

Quadrants == 0..3     \* the children of a node
NoQuadrant == 4       \* a line that no quadrant contains

SortInit(lines, assignment) ==
  [lines |-> lines, assignment |-> assignment,
   index_in_quadrant |-> 0, index_to_swap |-> 0, quadrant_start |-> 0, quadrant |-> 0]

SortDone(s) == s.quadrant = NoQuadrant

\* The place of the next line of this quadrant
Target(s) == s.quadrant_start + s.index_to_swap

\* The while loop goes on: a line of this quadrant has not been placed yet.
Searching(s, children_sizes) == s.index_to_swap < children_sizes[s.quadrant]

\* Mutant: the line found overwrites the one in its place.
Exchanged_Lost(a, i, j) == [a EXCEPT ![j] = a[i]]
Exchanged(a, i, j)      == [a EXCEPT ![i] = a[j], ![j] = a[i]]

\* Mutant: a line of another quadrant is looked at again and again.
SearchStep_Stuck(s) ==
  IF s.assignment[s.index_in_quadrant] # s.quadrant THEN s
  ELSE [s EXCEPT !.index_in_quadrant = @ + 1, !.index_to_swap = @ + 1,
                 !.lines = Exchanged(@, s.index_in_quadrant, Target(s)),
                 !.assignment = Exchanged(@, s.index_in_quadrant, Target(s))]

\* The search looks at one more line, and exchanges it if it belongs here.
SearchStep(s) ==
  LET found == s.assignment[s.index_in_quadrant] = s.quadrant IN
  [lines             |-> IF found THEN Exchanged(s.lines, s.index_in_quadrant, Target(s)) ELSE s.lines,
   assignment        |-> IF found THEN Exchanged(s.assignment, s.index_in_quadrant, Target(s)) ELSE s.assignment,
   index_in_quadrant |-> s.index_in_quadrant + 1,
   index_to_swap     |-> IF found THEN s.index_to_swap + 1 ELSE s.index_to_swap,
   quadrant_start    |-> s.quadrant_start,
   quadrant          |-> s.quadrant]

\* Mutants: the search does not go back to the start of the quadrant, the
\* number of lines placed is not reset.
NextQuadrant_NoRewind(s, children_sizes) ==
  [s EXCEPT !.index_to_swap = 0, !.quadrant_start = @ + children_sizes[s.quadrant], !.quadrant = @ + 1]
NextQuadrant_NoReset(s, children_sizes) ==
  [s EXCEPT !.quadrant_start = @ + children_sizes[s.quadrant], !.quadrant = @ + 1,
            !.index_in_quadrant = s.quadrant_start + children_sizes[s.quadrant]]

\* The for loop moves to the next quadrant.
NextQuadrant(s, children_sizes) ==
  [lines             |-> s.lines,
   assignment        |-> s.assignment,
   index_in_quadrant |-> s.quadrant_start + children_sizes[s.quadrant],
   index_to_swap     |-> 0,
   quadrant_start    |-> s.quadrant_start + children_sizes[s.quadrant],
   quadrant          |-> s.quadrant + 1]
=============================================================================
