----------------------------- MODULE Rectangles -----------------------------
(***************************************************************************)
(* The rectangles of quadtree.c: those that lines sweep in a time step and *)
(* those that the nodes of the tree stand for.                             *)
(***************************************************************************)
EXTENDS Integers

Rects == [xmin : Int, xmax : Int, ymin : Int, ymax : Int]

mid_x(box) == (box.xmin + box.xmax) \div 2
mid_y(box) == (box.ymin + box.ymax) \div 2

\* Mutant: a line that only touches a middle line is given to a quadrant.
get_quadrant_number_Touching(r, box) ==
  CASE r.xmax <= mid_x(box) /\ r.ymax <= mid_y(box) -> 0
    [] r.xmin >= mid_x(box) /\ r.ymax <= mid_y(box) -> 1
    [] r.xmax <= mid_x(box) /\ r.ymin >= mid_y(box) -> 2
    [] r.xmin >= mid_x(box) /\ r.ymin >= mid_y(box) -> 3
    [] OTHER -> 4

\* The quadrant that contains the rectangle, 4 if none does
get_quadrant_number(r, box) ==
  CASE r.xmax < mid_x(box) /\ r.ymax < mid_y(box) -> 0
    [] r.xmin > mid_x(box) /\ r.ymax < mid_y(box) -> 1
    [] r.xmax < mid_x(box) /\ r.ymin > mid_y(box) -> 2
    [] r.xmin > mid_x(box) /\ r.ymin > mid_y(box) -> 3
    [] OTHER -> 4

\* The box of a quadrant
QuadrantBox(box, q) ==
  [xmin |-> IF q \in {0, 2} THEN box.xmin ELSE mid_x(box),
   xmax |-> IF q \in {0, 2} THEN mid_x(box) ELSE box.xmax,
   ymin |-> IF q \in {0, 1} THEN box.ymin ELSE mid_y(box),
   ymax |-> IF q \in {0, 1} THEN mid_y(box) ELSE box.ymax]

ApartInX(r, s) == r.xmax < s.xmin \/ s.xmax < r.xmin
ApartInY(r, s) == r.ymax < s.ymin \/ s.ymax < r.ymin

\* The fast path: only rectangles that are apart in both dimensions fail.
bounding_box_intersect(r, s) == ~(ApartInY(r, s) /\ ApartInX(r, s))
=============================================================================
