--------------------------- MODULE CollisionWorld ---------------------------
(***************************************************************************)
(* collision_world.c: the lines in the box, one time step after another.   *)
(*                                                                         *)
(* A step computes the rectangles that the lines sweep, reports the pairs  *)
(* that meet, lets the collision solver change their velocities, moves the *)
(* lines, and turns those that are beyond a wall.  What is done with the   *)
(* reports between their detection and the solver is module EventList's    *)
(* subject; which pairs are compared at all is QuadTree's.                 *)
(*                                                                         *)
(* Positions are on a grid, velocities are shifts per time step.  The      *)
(* solver's arithmetic is left open: any velocity may come out of it,      *)
(* unless it divides by zero, which gives NaN.                             *)
(***************************************************************************)
EXTENDS Intersection, Rectangles, Sequences, FiniteSetsExt, SequencesExt

CONSTANTS
  NaN,          \* a vector that is not a number
  Starts,       \* the lines at the beginning, by id
  Velocities,   \* what the solver may give a line
  Box,          \* BOX_XMIN to BOX_YMAX
  MaxSteps

ASSUME CollisionWorldAssumption ==
  /\ NaN \notin Vectors /\ Velocities \subseteq Vectors
  /\ Box \in [xmin : Int, xmax : Int, ymin : Int, ymax : Int]
  /\ \A s \in Starts : IsFiniteSet(DOMAIN s) /\ DOMAIN s \subseteq Nat /\ \A i \in DOMAIN s :
       /\ s[i] \in [p1 : Vectors, p2 : Vectors, velocity : Vectors] /\ s[i].p1 # s[i].p2
       /\ \A p \in {s[i].p1, s[i].p2} : p[1] \in Box.xmin..Box.xmax /\ p[2] \in Box.ymin..Box.ymax

VARIABLES
  lines,        \* collisionWorld->lines, by id
  rectangle,    \* the rectangle of each line
  events,       \* the events of this step whose solver call is still to come, sorted
  solved,       \* the lines the solver was called for in this step
  numLineWallCollisions, numLineLineCollisions,
  pc,           \* the part of CollisionWorld_updateLines() that is next
  step

vars == <<lines, rectangle, events, solved, numLineWallCollisions, numLineLineCollisions, pc, step>>

Ids   == DOMAIN lines
Pairs == {p \in Ids \X Ids : p[1] < p[2]}

\* A line with such a velocity has a position that is NaN after the step.
Lost(l) == l.velocity = NaN

-----------------------------------------------------------------------------
(* A time step.                                                            *)

\* Mutant: where the line is, not where it goes.
Rect_makeFromLine_Here(l) ==
  [xmin |-> Min({l.p1[1], l.p2[1]}), xmax |-> Max({l.p1[1], l.p2[1]}),
   ymin |-> Min({l.p1[2], l.p2[2]}), ymax |-> Max({l.p1[2], l.p2[2]})]
Rect_makeFromLine(l) ==
  LET ends == {l.p1, l.p2, Vec_add(l.p1, l.velocity), Vec_add(l.p2, l.velocity)} IN
  [xmin |-> Min({p[1] : p \in ends}), xmax |-> Max({p[1] : p \in ends}),
   ymin |-> Min({p[2] : p \in ends}), ymax |-> Max({p[2] : p \in ends})]

Init ==
  /\ lines \in Starts /\ rectangle = [i \in Ids |-> NaN] /\ events = <<>> /\ solved = {}
  /\ numLineWallCollisions = 0 /\ numLineLineCollisions = 0
  /\ pc = "rectangles" /\ step = 0

\* CollisionWorld_updateRectangles()
updateRectangles ==
  /\ pc = "rectangles" /\ step < MaxSteps
  /\ rectangle' = [i \in Ids |-> IF Lost(lines[i]) THEN NaN ELSE Rect_makeFromLine(lines[i])]
  /\ pc' = "detect"
  /\ UNCHANGED <<lines, events, solved, numLineWallCollisions, numLineLineCollisions, step>>

\* check_line_intersect() for the pair: a comparison with NaN is false.
Reported(i, j) ==
  /\ ~Lost(lines[i]) /\ ~Lost(lines[j])
  /\ bounding_box_intersect(rectangle[i], rectangle[j])
  /\ intersect(lines[i], lines[j]) # "NO_INTERSECTION"

Event(i, j) == [l1 |-> i, l2 |-> j, type |-> intersect(lines[i], lines[j])]
Before(e, f) == e.l1 < f.l1 \/ (e.l1 = f.l1 /\ e.l2 < f.l2)

\* The sequences of these events in the order of their lines
Sorted(found) ==
  {s \in [1..Cardinality(found) -> found] :
     Range(s) = found /\ \A i, j \in DOMAIN s : i < j => Before(s[i], s[j])}

\* CollisionWorld_detectIntersection(), up to the loop over the sorted events
detectIntersection ==
  /\ pc = "detect"
  /\ LET found == {Event(p[1], p[2]) : p \in {q \in Pairs : Reported(q[1], q[2])}} IN
       /\ events' \in Sorted(found)
       /\ numLineLineCollisions' = numLineLineCollisions + Cardinality(found)
  /\ solved' = {} /\ pc' = "solve"
  /\ UNCHANGED <<lines, rectangle, numLineWallCollisions, step>>

\* The velocities the solver may give two lines that meet
NewVelocities(l1, l2, type) ==
  LET d1   == Vec_subtract(l1.p1, l1.p2)
      d2   == Vec_subtract(l2.p1, l2.p2)
      face == IF type = "L1_WITH_L2" THEN d2 ELSE d1
  IN IF type = "ALREADY_INTERSECTED"
     THEN {v \in (Velocities \cup {NaN}) \X (Velocities \cup {NaN}) :
             /\ (v[1] = NaN) = (Lost(l1) \/ crossProduct(d1, d2) = 0)    \* u is 0 / 0
             /\ (v[2] = NaN) = (Lost(l2) \/ crossProduct(d1, d2) = 0)}
     ELSE IF Lost(l1) \/ Lost(l2) THEN {<<NaN, NaN>>}
     ELSE IF crossProduct(Vec_subtract(l1.velocity, l2.velocity), face) = 0    \* alike across the face
     THEN {<<l1.velocity, l2.velocity>>}
     ELSE Velocities \X Velocities

\* CollisionWorld_collisionSolver() for the next event.  The lines have not
\* moved yet, and the type is that of the velocities before any solver call.
collisionSolver ==
  /\ pc = "solve" /\ events # <<>>
  /\ LET e == Head(events) IN
       /\ \E v \in NewVelocities(lines[e.l1], lines[e.l2], e.type) :
            lines' = [lines EXCEPT ![e.l1].velocity = v[1], ![e.l2].velocity = v[2]]
       /\ solved' = solved \cup {e.l1, e.l2}
  /\ events' = Tail(events)
  /\ UNCHANGED <<rectangle, numLineWallCollisions, numLineLineCollisions, pc, step>>

Moved(l) == [l EXCEPT !.p1 = IF Lost(l) THEN NaN ELSE Vec_add(l.p1, l.velocity),
                      !.p2 = IF Lost(l) THEN NaN ELSE Vec_add(l.p2, l.velocity)]

\* CollisionWorld_updatePosition()
updatePosition ==
  /\ pc = "solve" /\ events = <<>>
  /\ lines' = [i \in Ids |-> Moved(lines[i])]
  /\ pc' = "walls"
  /\ UNCHANGED <<rectangle, events, solved, numLineWallCollisions, numLineLineCollisions, step>>

\* Mutant: a line beyond the wall is turned whichever way it goes.
Turned_Always(a, b, v, least, most) == IF a < least \/ b < least \/ a > most \/ b > most THEN -v ELSE v
\* The velocity along one axis, for the coordinates a and b of the ends
Turned(a, b, v, least, most) ==
  LET right == IF (a > most \/ b > most) /\ v > 0 THEN -v ELSE v IN
  IF (a < least \/ b < least) /\ right < 0 THEN -right ELSE right

Collided(l) ==
  IF Lost(l) THEN l
  ELSE [l EXCEPT !.velocity = <<Turned(l.p1[1], l.p2[1], l.velocity[1], Box.xmin, Box.xmax),
                                Turned(l.p1[2], l.p2[2], l.velocity[2], Box.ymin, Box.ymax)>>]

\* CollisionWorld_lineWallCollision()
lineWallCollision ==
  /\ pc = "walls"
  /\ lines' = [i \in Ids |-> Collided(lines[i])]
  /\ numLineWallCollisions' = numLineWallCollisions + Cardinality({i \in Ids : lines'[i] # lines[i]})
  /\ pc' = "rectangles" /\ step' = step + 1
  /\ UNCHANGED <<rectangle, events, solved, numLineLineCollisions>>

\* The demo has shown its frames.
Stop == pc = "rectangles" /\ step = MaxSteps /\ UNCHANGED vars

Next == updateRectangles \/ detectIntersection \/ collisionSolver \/ updatePosition \/ lineWallCollision \/ Stop

Spec == Init /\ [][Next]_vars

-----------------------------------------------------------------------------
(* Properties.                                                             *)

\* Segments touch unless their extents are apart, or one is on one side of the other.
OneSide(a, b, c, d) == direction(a, b, c) * direction(a, b, d) > 0
Extent(a, b) == [xmin |-> Min({a[1], b[1]}), xmax |-> Max({a[1], b[1]}),
                 ymin |-> Min({a[2], b[2]}), ymax |-> Max({a[2], b[2]})]
Touch(a, b, c, d) ==
  /\ ~ApartInX(Extent(a, b), Extent(c, d)) /\ ~ApartInY(Extent(a, b), Extent(c, d))
  /\ ~OneSide(a, b, c, d) /\ ~OneSide(c, d, a, b)

\* p after k/n of a step with velocity v, n times enlarged
At(p, v, k, n) == Vec_add(Vec_multiply(p, n), Vec_multiply(v, k))

Abs(k) == IF k < 0 THEN -k ELSE k

\* The denominators of the times at which an end of a line can reach the other
Denominators(l1, l2) ==
  LET v == Vec_subtract(l2.velocity, l1.velocity) IN
  {1} \cup ({Abs(k) : k \in {v[1], v[2], crossProduct(v, Vec_subtract(l1.p1, l1.p2)),
                             crossProduct(v, Vec_subtract(l2.p1, l2.p2))}} \ {0})

\* The lines meet at some time of the step.
Meet(l1, l2) ==
  \E n \in Denominators(l1, l2) : \E k \in 0..n :
    Touch(At(l1.p1, l1.velocity, k, n), At(l1.p2, l1.velocity, k, n),
          At(l2.p1, l2.velocity, k, n), At(l2.p2, l2.velocity, k, n))

Running(i, j) == ~Lost(lines[i]) /\ ~Lost(lines[j])

\* intersect() looks at the parallelogram that one line sweeps as the other
\* sees it.  It answers that they meet exactly if they do so at some time of
\* the step, as both are seen from the box.
MeetsExactly ==
  pc = "detect" => \A p \in Pairs : Running(p[1], p[2]) =>
    (intersect(lines[p[1]], lines[p[2]]) # "NO_INTERSECTION") = Meet(lines[p[1]], lines[p[2]])

\* Lines that meet are compared: their rectangles pass the fast path, and no
\* node of the quadtree, however its box is cut, gives them to different
\* quadrants.  The rectangles are those of the velocities that are compared.
Compared ==
  pc = "detect" => \A p \in Pairs : Running(p[1], p[2]) /\ Meet(lines[p[1]], lines[p[2]]) =>
    /\ bounding_box_intersect(rectangle[p[1]], rectangle[p[2]])
    /\ \A x \in Box.xmin..Box.xmax, y \in Box.ymin..Box.ymax :
         LET box == [xmin |-> x, xmax |-> x, ymin |-> y, ymax |-> y]
             q(i) == get_quadrant_number(rectangle[i], box)
         IN q(p[1]) = q(p[2]) \/ 4 \in {q(p[1]), q(p[2])}

\* Lines that touch between two steps were both reported and solved, or were
\* moved by the solver, in the step before: they do not slip into each other.
NoSurprise ==
  pc = "detect" /\ step > 0 => \A p \in Pairs :
    Running(p[1], p[2]) /\ intersect(lines[p[1]], lines[p[2]]) = "ALREADY_INTERSECTED" => solved \cap {p[1], p[2]} # {}

\* The walls along an axis, and the lines that are beyond them
Least(c) == IF c = 1 THEN Box.xmin ELSE Box.ymin
Most(c)  == IF c = 1 THEN Box.xmax ELSE Box.ymax
BeyondLeast(l, c) == l.p1[c] < Least(c) \/ l.p2[c] < Least(c)
BeyondMost(l, c)  == l.p1[c] > Most(c) \/ l.p2[c] > Most(c)

\* A line that is beyond a wall, and that the solver did not touch, does not go
\* further beyond that wall.
ComesBack ==
  pc = "solve" /\ pc' = "walls" =>
    \A i \in Ids \ solved : ~Lost(lines[i]) =>
      \A c \in 1..2 :
        /\ BeyondMost(lines[i], c)  => lines'[i].p1[c] <= lines[i].p1[c] /\ lines'[i].p2[c] <= lines[i].p2[c]
        /\ BeyondLeast(lines[i], c) => lines'[i].p1[c] >= lines[i].p1[c] /\ lines'[i].p2[c] >= lines[i].p2[c]

OnOneLine(l1, l2) == direction(l1.p1, l1.p2, l2.p1) = 0 /\ direction(l1.p1, l1.p2, l2.p2) = 0

\* A velocity becomes NaN only in the solver, for a line that lies on one line
\* with the other or that meets one whose velocity is NaN by an earlier event.
LostToSolver ==
  \A i \in Ids : ~Lost(lines[i]) /\ Lost(lines'[i]) =>
    /\ pc = "solve" /\ events # <<>>
    /\ \E j \in Ids \ {i} :
         /\ {i, j} = {Head(events).l1, Head(events).l2}
         /\ Lost(lines[j]) \/ OnOneLine(lines[i], lines[j])

\* A line stays in play.  One that is beyond a wall does not go further out,
\* unless the solver sent it there: the walls turn a line once and let it come
\* back.  And the solver "compute[s] velocities so that the two lines can get
\* unstuck": none is NaN, unless the two lines lie on one line already, or one
\* of them was lost to such a pair before.
StaysInPlay == [][ComesBack /\ LostToSolver]_vars
=============================================================================
