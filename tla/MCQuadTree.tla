----------------------------- MODULE MCQuadTree -----------------------------
(***************************************************************************)
(* Scenes for the quadtree: a box of eight by eight, which is cut at 4 and *)
(* then at 2 and 6.                                                        *)
(***************************************************************************)
EXTENDS QuadTree

Rect(xmin, xmax, ymin, ymax) == [xmin |-> xmin, xmax |-> xmax, ymin |-> ymin, ymax |-> ymax]

Square == Rect(0, 8, 0, 8)

\* Two lines that meet at the middle of the box, two of the first quadrant
\* that meet at its middle, and one each of the second and the third
SixRects == {Rect(3, 4, 1, 1), Rect(4, 7, 1, 3), Rect(2, 3, 0, 1), Rect(1, 2, 0, 1), Rect(5, 5, 1, 1), Rect(1, 1, 5, 7)}

AllScenes == [Lines -> SixRects]
=============================================================================
