---------------------------- MODULE Intersection ----------------------------
(***************************************************************************)
(* intersection_detection.c on a grid: do two moving lines meet before the *)
(* next time step, and which of them runs into the other?                  *)
(*                                                                         *)
(* A vector is a pair of integers.  A line has the ends p1 and p2 and a    *)
(* velocity, which is its shift in a time step.                            *)
(***************************************************************************)
EXTENDS Integers, FiniteSets

Vectors == Int \X Int

Vec_add(v, w)      == <<v[1] + w[1], v[2] + w[2]>>
Vec_subtract(v, w) == <<v[1] - w[1], v[2] - w[2]>>
Vec_multiply(v, k) == <<k * v[1], k * v[2]>>

crossProduct(v, w) == v[1] * w[2] - w[1] * v[2]

\* Which side of the line from pi to pj is pk on?
direction(pi, pj, pk) == crossProduct(Vec_subtract(pk, pi), Vec_subtract(pj, pi))

Between(a, b, c) == (a <= c /\ c <= b) \/ (b <= c /\ c <= a)

\* pk is known to be on the line through pi and pj.
onSegment(pi, pj, pk) == Between(pi[1], pj[1], pk[1]) /\ Between(pi[2], pj[2], pk[2])

Opposite(d1, d2) == (d1 > 0 /\ d2 < 0) \/ (d1 < 0 /\ d2 > 0)

intersectLines(p1, p2, p3, p4) ==
  \/ /\ Opposite(direction(p3, p4, p1), direction(p3, p4, p2))
     /\ Opposite(direction(p1, p2, p3), direction(p1, p2, p4))
  \/ direction(p3, p4, p1) = 0 /\ onSegment(p3, p4, p1)
  \/ direction(p3, p4, p2) = 0 /\ onSegment(p3, p4, p2)
  \/ direction(p1, p2, p3) = 0 /\ onSegment(p1, p2, p3)
  \/ direction(p1, p2, p4) = 0 /\ onSegment(p1, p2, p4)

pointInParallelogram(point, p1, p2, p3, p4) ==
  /\ Opposite(direction(p1, p2, point), direction(p3, p4, point))
  /\ Opposite(direction(p1, p3, point), direction(p2, p4, point))

\* atan2(v) is in the half (-pi, 0) or [0, pi].
Lower(v) == v[2] < 0

\* Vec_argument(v) < Vec_argument(w), which is what a negative angle means:
\* the difference is not brought back to (-pi, pi]
ArgumentBelow(v, w) ==
  \/ Lower(v) /\ ~Lower(w)
  \/ Lower(v) = Lower(w) /\ (crossProduct(v, w) > 0 \/ (crossProduct(v, w) = 0 /\ v[1] > 0 /\ w[1] < 0 /\ v[2] = 0))

\* Mutant: only the ends are swept, not what is between them.
intersect_Ends(l1, l2) ==
  LET velocity == Vec_subtract(l2.velocity, l1.velocity)
      p1 == Vec_add(l2.p1, velocity)
      p2 == Vec_add(l2.p2, velocity)
  IN IF intersectLines(l1.p1, l1.p2, l2.p1, l2.p2) THEN "ALREADY_INTERSECTED"
     ELSE IF intersectLines(l1.p1, l1.p2, p1, l2.p1) \/ intersectLines(l1.p1, l1.p2, p2, l2.p2) THEN "L2_WITH_L1"
     ELSE IF intersectLines(l1.p1, l1.p2, p1, p2) THEN "L1_WITH_L2"
     ELSE "NO_INTERSECTION"

intersect(l1, l2) ==
  LET velocity == Vec_subtract(l2.velocity, l1.velocity)    \* of l2, as l1 sees it
      p1       == Vec_add(l2.p1, velocity)
      p2       == Vec_add(l2.p2, velocity)
      v1       == Vec_subtract(l1.p1, l1.p2)
      v2       == Vec_subtract(l2.p1, l2.p2)
      across   == intersectLines(l1.p1, l1.p2, p1, p2)
      top      == intersectLines(l1.p1, l1.p2, p1, l2.p1)
      bottom   == intersectLines(l1.p1, l1.p2, p2, l2.p2)
      crossed  == {e \in 1..3 : <<across, top, bottom>>[e]}
      inside   == \A point \in {l1.p1, l1.p2} : pointInParallelogram(point, l2.p1, l2.p2, p1, p2)
  IN IF intersectLines(l1.p1, l1.p2, l2.p1, l2.p2) THEN "ALREADY_INTERSECTED"
     ELSE IF Cardinality(crossed) = 2 THEN "L2_WITH_L1"
     ELSE IF inside THEN "L1_WITH_L2"
     ELSE IF crossed = {} THEN "NO_INTERSECTION"
     ELSE IF top /\ ArgumentBelow(v1, v2) THEN "L2_WITH_L1"
     ELSE IF bottom /\ ~top /\ ArgumentBelow(v2, v1) THEN "L2_WITH_L1"
     ELSE "L1_WITH_L2"
=============================================================================
