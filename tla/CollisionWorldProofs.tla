------------------------ MODULE CollisionWorldProofs ------------------------
\* Proofs about CollisionWorld for any lines on the grid, any box, any
\* velocities the solver may give and any number of steps.
EXTENDS CollisionWorld, FiniteSetTheorems, FunctionTheorems, SequenceTheorems, TLAPS

\* A line that is not lost is on the grid.
LinesInv ==
  \A i \in Ids :
    /\ lines[i] \in [p1 : Vectors \cup {NaN}, p2 : Vectors \cup {NaN}, velocity : Vectors \cup {NaN}]
    /\ ~Lost(lines[i]) => lines[i] \in [p1 : Vectors, p2 : Vectors, velocity : Vectors]

\* The rectangles are those of the lines as they are compared.
RectanglesInv ==
  pc = "detect" => \A i \in Ids : ~Lost(lines[i]) => rectangle[i] = Rect_makeFromLine(lines[i])

LEMMA LinesInit == Init => LinesInv /\ RectanglesInv
  BY CollisionWorldAssumption DEF Init, Ids, LinesInv, RectanglesInv, Lost

LEMMA SolverKeepsLost ==
  ASSUME NEW l1, NEW l2, NEW type, NEW v \in NewVelocities(l1, l2, type)
  PROVE  /\ v[1] \in Vectors \cup {NaN, l1.velocity} /\ v[2] \in Vectors \cup {NaN, l2.velocity}
         /\ Lost(l1) => v[1] = NaN
         /\ Lost(l2) => v[2] = NaN
  BY CollisionWorldAssumption DEF NewVelocities, Lost

LEMMA CollidedType ==
  ASSUME NEW l \in [p1 : Vectors, p2 : Vectors, velocity : Vectors], ~Lost(l)
  PROVE  Collided(l) \in [p1 : Vectors, p2 : Vectors, velocity : Vectors]
<1>1. ASSUME NEW a, NEW b, NEW v \in Int, NEW least, NEW most
      PROVE  Turned(a, b, v, least, most) \in Int
  BY DEF Turned
<1>2. l.velocity[1] \in Int /\ l.velocity[2] \in Int
  BY DEF Vectors
<1>. QED
  BY <1>1, <1>2 DEF Collided, Vectors

LEMMA LinesStep ==
  ASSUME LinesInv, [Next]_vars
  PROVE  LinesInv'
<1>1. CASE collisionSolver
  <2>. DEFINE e == Head(events)
  <2>1. PICK v \in NewVelocities(lines[e.l1], lines[e.l2], e.type) :
          lines' = [lines EXCEPT ![e.l1].velocity = v[1], ![e.l2].velocity = v[2]]
    BY <1>1 DEF collisionSolver
  <2>. HIDE DEF e
  <2>2. /\ v[1] \in Vectors \cup {NaN, lines[e.l1].velocity} /\ v[2] \in Vectors \cup {NaN, lines[e.l2].velocity}
        /\ Lost(lines[e.l1]) => v[1] = NaN
        /\ Lost(lines[e.l2]) => v[2] = NaN
    BY SolverKeepsLost
  <2>3. Ids' = Ids
    BY <2>1 DEF Ids
  <2>4. ASSUME NEW i \in Ids
        PROVE  lines'[i] = [lines[i] EXCEPT !.velocity = IF i = e.l2 THEN v[2] ELSE IF i = e.l1 THEN v[1] ELSE @]
    <3>1. CASE i = e.l2
      BY <2>1, <2>4, <3>1 DEF Ids, LinesInv
    <3>2. CASE i # e.l2 /\ i = e.l1
      BY <2>1, <2>4, <3>2 DEF Ids, LinesInv
    <3>3. CASE i # e.l2 /\ i # e.l1
      BY <2>1, <2>4, <3>3 DEF Ids, LinesInv
    <3>. QED
      BY <3>1, <3>2, <3>3
  <2>5. ASSUME NEW i \in Ids
        PROVE  /\ lines'[i] \in [p1 : Vectors \cup {NaN}, p2 : Vectors \cup {NaN}, velocity : Vectors \cup {NaN}]
               /\ ~Lost(lines'[i]) => lines'[i] \in [p1 : Vectors, p2 : Vectors, velocity : Vectors]
    <3>. DEFINE velocity == IF i = e.l2 THEN v[2] ELSE IF i = e.l1 THEN v[1] ELSE lines[i].velocity
    <3>1. lines[i] \in [p1 : Vectors \cup {NaN}, p2 : Vectors \cup {NaN}, velocity : Vectors \cup {NaN}]
      BY DEF LinesInv
    <3>2. lines'[i] = [lines[i] EXCEPT !.velocity = velocity]
      BY <2>4
    <3>3. velocity \in Vectors \cup {NaN} /\ (velocity # NaN => ~Lost(lines[i]))
      BY <2>2, <3>1 DEF Lost
    <3>. HIDE DEF velocity
    <3>4. /\ lines'[i] = [p1 |-> lines[i].p1, p2 |-> lines[i].p2, velocity |-> velocity]
          /\ lines[i].p1 \in Vectors \cup {NaN} /\ lines[i].p2 \in Vectors \cup {NaN}
      BY <3>1, <3>2
    <3>5. ~Lost(lines[i]) => lines[i].p1 \in Vectors /\ lines[i].p2 \in Vectors
      BY DEF LinesInv
    <3>. QED
      BY <3>3, <3>4, <3>5 DEF Lost
  <2>. QED
    BY <2>3, <2>5 DEF LinesInv
<1>2. CASE updatePosition
  <2>1. ASSUME NEW l \in [p1 : Vectors, p2 : Vectors, velocity : Vectors]
        PROVE  Vec_add(l.p1, l.velocity) \in Vectors /\ Vec_add(l.p2, l.velocity) \in Vectors
    BY DEF Vec_add, Vectors
  <2>. QED
    BY <1>2, <2>1 DEF updatePosition, LinesInv, Ids, Moved, Lost
<1>3. CASE lineWallCollision
  <2>2. \A l \in [p1 : Vectors, p2 : Vectors, velocity : Vectors] :
          ~Lost(l) => Collided(l) \in [p1 : Vectors, p2 : Vectors, velocity : Vectors]
    BY CollidedType
  <2>3. lines' = [i \in Ids |-> Collided(lines[i])]
    BY <1>3 DEF lineWallCollision
  <2>4. ASSUME NEW i \in Ids, Lost(lines[i])
        PROVE  lines'[i] = lines[i]
    BY <2>3, <2>4 DEF Collided
  <2>. QED
    BY <2>2, <2>3, <2>4 DEF LinesInv, Ids
<1>4. CASE updateRectangles \/ detectIntersection \/ Stop \/ UNCHANGED vars
  BY <1>4 DEF updateRectangles, detectIntersection, Stop, vars, LinesInv, Ids
<1>. QED
  BY <1>1, <1>2, <1>3, <1>4 DEF Next

LEMMA RectanglesStep ==
  ASSUME RectanglesInv, [Next]_vars
  PROVE  RectanglesInv'
  BY DEF RectanglesInv, Next, updateRectangles, detectIntersection, collisionSolver, updatePosition,
         lineWallCollision, Stop, vars, Ids

-----------------------------------------------------------------------------
(* Rectangles.                                                             *)

LEMMA LeastAndMost ==
  ASSUME NEW a \in Int, NEW b \in Int, NEW c \in Int, NEW d \in Int
  PROVE  /\ Min({a, b, c, d}) \in Int /\ \A x \in {a, b, c, d} : Min({a, b, c, d}) <= x
         /\ Max({a, b, c, d}) \in Int /\ \A x \in {a, b, c, d} : x <= Max({a, b, c, d})
<1>. DEFINE S == {a, b, c, d}
<1>1. \E m \in S : \A x \in S : m <= x
  OBVIOUS
<1>2. \E m \in S : \A x \in S : m >= x
  OBVIOUS
<1>3. Min(S) \in S /\ \A x \in S : Min(S) <= x
  BY <1>1 DEF Min
<1>4. Max(S) \in S /\ \A x \in S : Max(S) >= x
  BY <1>2 DEF Max
<1>. QED
  BY <1>3, <1>4

LEMMA OneOfTwo ==
  ASSUME NEW a \in Int, NEW b \in Int
  PROVE  Min({a, b}) \in {a, b} /\ Max({a, b}) \in {a, b}
<1>1. \E m \in {a, b} : \A x \in {a, b} : m <= x
  OBVIOUS
<1>2. \E m \in {a, b} : \A x \in {a, b} : m >= x
  OBVIOUS
<1>. QED
  BY <1>1, <1>2 DEF Min, Max

\* The rectangle contains both ends, before the step and after it.
HasPoint(r, p) == r.xmin <= p[1] /\ p[1] <= r.xmax /\ r.ymin <= p[2] /\ p[2] <= r.ymax
IsRectangle(r) == r.xmin \in Int /\ r.xmax \in Int /\ r.ymin \in Int /\ r.ymax \in Int

LEMMA RectangleOfLine ==
  ASSUME NEW l \in [p1 : Vectors, p2 : Vectors, velocity : Vectors]
  PROVE  LET r == Rect_makeFromLine(l)
         IN  /\ IsRectangle(r)
             /\ HasPoint(r, l.p1) /\ HasPoint(r, Vec_add(l.p1, l.velocity))
             /\ HasPoint(r, l.p2) /\ HasPoint(r, Vec_add(l.p2, l.velocity))
<1>. DEFINE q1 == Vec_add(l.p1, l.velocity)
            q2 == Vec_add(l.p2, l.velocity)
            ends == {l.p1, l.p2, q1, q2}
            r == Rect_makeFromLine(l)
<1>1. /\ l.p1[1] \in Int /\ l.p2[1] \in Int /\ q1[1] \in Int /\ q2[1] \in Int
      /\ l.p1[2] \in Int /\ l.p2[2] \in Int /\ q1[2] \in Int /\ q2[2] \in Int
  BY DEF Vectors, Vec_add
<1>. HIDE DEF q1, q2
<1>2. /\ {p[1] : p \in ends} = {l.p1[1], l.p2[1], q1[1], q2[1]}
      /\ {p[2] : p \in ends} = {l.p1[2], l.p2[2], q1[2], q2[2]}
  OBVIOUS
<1>3. r = [xmin |-> Min({l.p1[1], l.p2[1], q1[1], q2[1]}), xmax |-> Max({l.p1[1], l.p2[1], q1[1], q2[1]}),
           ymin |-> Min({l.p1[2], l.p2[2], q1[2], q2[2]}), ymax |-> Max({l.p1[2], l.p2[2], q1[2], q2[2]})]
  BY <1>2 DEF Rect_makeFromLine, q1, q2
<1>. HIDE DEF r
<1>4. /\ r.xmin \in Int /\ \A x \in {l.p1[1], l.p2[1], q1[1], q2[1]} : r.xmin <= x
      /\ r.xmax \in Int /\ \A x \in {l.p1[1], l.p2[1], q1[1], q2[1]} : x <= r.xmax
  <2>. DEFINE xs == {l.p1[1], l.p2[1], q1[1], q2[1]}
  <2>1. Min(xs) \in Int /\ Max(xs) \in Int /\ \A x \in xs : Min(xs) <= x /\ x <= Max(xs)
    BY <1>1, LeastAndMost
  <2>. QED
    BY <1>3, <2>1
<1>5. /\ r.ymin \in Int /\ \A x \in {l.p1[2], l.p2[2], q1[2], q2[2]} : r.ymin <= x
      /\ r.ymax \in Int /\ \A x \in {l.p1[2], l.p2[2], q1[2], q2[2]} : x <= r.ymax
  <2>. DEFINE ys == {l.p1[2], l.p2[2], q1[2], q2[2]}
  <2>1. Min(ys) \in Int /\ Max(ys) \in Int /\ \A y \in ys : Min(ys) <= y /\ y <= Max(ys)
    BY <1>1, LeastAndMost
  <2>. QED
    BY <1>3, <2>1
<1>. QED
  BY <1>4, <1>5 DEF IsRectangle, HasPoint, q1, q2, r

\* What is at a before a step and at a + v behind it is between the two in it.
LEMMA OnTheWay ==
  ASSUME NEW least \in Int, NEW most \in Int, NEW a \in Int, NEW v \in Int,
         least <= a, a <= most, least <= a + v, a + v <= most,
         NEW n \in Nat, NEW k \in 0..n
  PROVE  n * least <= n * a + k * v /\ n * a + k * v <= n * most
<1>1. (n - k) * (a - least) >= 0 /\ k * (a + v - least) >= 0
  OBVIOUS
<1>2. (n - k) * (most - a) >= 0 /\ k * (most - a - v) >= 0
  OBVIOUS
<1>3. (n - k) * (a - least) + k * (a + v - least) = n * a + k * v - n * least
  OBVIOUS
<1>4. (n - k) * (most - a) + k * (most - a - v) = n * most - n * a - k * v
  OBVIOUS
<1>. QED
  BY <1>1, <1>2, <1>3, <1>4

Overlap(r, s) == ~ApartInX(r, s) /\ ~ApartInY(r, s)

\* The extent of the line at any time of the step, n times enlarged
LEMMA ExtentInRectangle ==
  ASSUME NEW l \in [p1 : Vectors, p2 : Vectors, velocity : Vectors], NEW n \in Nat, NEW k \in 0..n
  PROVE  LET r == Rect_makeFromLine(l)
             e == Extent(At(l.p1, l.velocity, k, n), At(l.p2, l.velocity, k, n))
         IN  /\ IsRectangle(e)
             /\ n * r.xmin <= e.xmin /\ e.xmax <= n * r.xmax
             /\ n * r.ymin <= e.ymin /\ e.ymax <= n * r.ymax
<1>. DEFINE r == Rect_makeFromLine(l)
            a == At(l.p1, l.velocity, k, n)
            b == At(l.p2, l.velocity, k, n)
            e == Extent(a, b)
<1>1. /\ l.p1[1] \in Int /\ l.p1[2] \in Int /\ l.p2[1] \in Int /\ l.p2[2] \in Int
      /\ l.velocity[1] \in Int /\ l.velocity[2] \in Int
  BY DEF Vectors
<1>2. /\ a[1] = n * l.p1[1] + k * l.velocity[1] /\ a[2] = n * l.p1[2] + k * l.velocity[2]
      /\ b[1] = n * l.p2[1] + k * l.velocity[1] /\ b[2] = n * l.p2[2] + k * l.velocity[2]
  BY DEF At, Vec_add, Vec_multiply
<1>3. a[1] \in Int /\ a[2] \in Int /\ b[1] \in Int /\ b[2] \in Int
  BY <1>1, <1>2
<1>4. /\ IsRectangle(r)
      /\ HasPoint(r, l.p1) /\ HasPoint(r, <<l.p1[1] + l.velocity[1], l.p1[2] + l.velocity[2]>>)
      /\ HasPoint(r, l.p2) /\ HasPoint(r, <<l.p2[1] + l.velocity[1], l.p2[2] + l.velocity[2]>>)
  BY RectangleOfLine DEF Vec_add
<1>. HIDE DEF r, a, b
<1>5. \A x \in {a[1], b[1]} : n * r.xmin <= x /\ x <= n * r.xmax
  <2>1. /\ r.xmin \in Int /\ r.xmax \in Int
        /\ r.xmin <= l.p1[1] /\ l.p1[1] <= r.xmax /\ r.xmin <= l.p2[1] /\ l.p2[1] <= r.xmax
        /\ r.xmin <= l.p1[1] + l.velocity[1] /\ l.p1[1] + l.velocity[1] <= r.xmax
        /\ r.xmin <= l.p2[1] + l.velocity[1] /\ l.p2[1] + l.velocity[1] <= r.xmax
    BY <1>4 DEF IsRectangle, HasPoint
  <2>2. n * r.xmin <= a[1] /\ a[1] <= n * r.xmax
    BY <1>1, <1>2, <2>1, OnTheWay
  <2>3. n * r.xmin <= b[1] /\ b[1] <= n * r.xmax
    BY <1>1, <1>2, <2>1, OnTheWay
  <2>. QED
    BY <2>2, <2>3
<1>6. \A y \in {a[2], b[2]} : n * r.ymin <= y /\ y <= n * r.ymax
  <2>1. /\ r.ymin \in Int /\ r.ymax \in Int
        /\ r.ymin <= l.p1[2] /\ l.p1[2] <= r.ymax /\ r.ymin <= l.p2[2] /\ l.p2[2] <= r.ymax
        /\ r.ymin <= l.p1[2] + l.velocity[2] /\ l.p1[2] + l.velocity[2] <= r.ymax
        /\ r.ymin <= l.p2[2] + l.velocity[2] /\ l.p2[2] + l.velocity[2] <= r.ymax
    BY <1>4 DEF IsRectangle, HasPoint
  <2>2. n * r.ymin <= a[2] /\ a[2] <= n * r.ymax
    BY <1>1, <1>2, <2>1, OnTheWay
  <2>3. n * r.ymin <= b[2] /\ b[2] <= n * r.ymax
    BY <1>1, <1>2, <2>1, OnTheWay
  <2>. QED
    BY <2>2, <2>3
<1>. HIDE DEF e
<1>7. e.xmin \in {a[1], b[1]} /\ e.xmax \in {a[1], b[1]} /\ e.ymin \in {a[2], b[2]} /\ e.ymax \in {a[2], b[2]}
  <2>1. e = [xmin |-> Min({a[1], b[1]}), xmax |-> Max({a[1], b[1]}),
             ymin |-> Min({a[2], b[2]}), ymax |-> Max({a[2], b[2]})]
    BY DEF e, Extent
  <2>. QED
    BY <1>3, <2>1, OneOfTwo
<1>8. IsRectangle(e)
  BY <1>3, <1>7 DEF IsRectangle
<1>. QED
  BY <1>5, <1>6, <1>7, <1>8 DEF r, a, b, e

\* Lines that meet at some time of the step have rectangles that overlap.
LEMMA MeetOverlap ==
  ASSUME NEW l1 \in [p1 : Vectors, p2 : Vectors, velocity : Vectors],
         NEW l2 \in [p1 : Vectors, p2 : Vectors, velocity : Vectors], Meet(l1, l2)
  PROVE  Overlap(Rect_makeFromLine(l1), Rect_makeFromLine(l2))
<1>0. PICK n \in Denominators(l1, l2) :
        \E k \in 0..n : Touch(At(l1.p1, l1.velocity, k, n), At(l1.p2, l1.velocity, k, n),
                             At(l2.p1, l2.velocity, k, n), At(l2.p2, l2.velocity, k, n))
  BY DEF Meet
<1>1. n \in Nat \ {0}
  <2>. DEFINE v == Vec_subtract(l2.velocity, l1.velocity)
              d1 == Vec_subtract(l1.p1, l1.p2)
              d2 == Vec_subtract(l2.p1, l2.p2)
  <2>1. v[1] \in Int /\ v[2] \in Int /\ d1[1] \in Int /\ d1[2] \in Int /\ d2[1] \in Int /\ d2[2] \in Int
    BY DEF Vec_subtract, Vectors
  <2>2. crossProduct(v, d1) \in Int /\ crossProduct(v, d2) \in Int
    BY <2>1 DEF crossProduct
  <2>3. \A k \in Int : Abs(k) \in Nat
    BY DEF Abs
  <2>4. n \in {1} \cup ({Abs(k) : k \in {v[1], v[2], crossProduct(v, d1), crossProduct(v, d2)}} \ {0})
    BY DEF Denominators
  <2>. QED
    BY <2>1, <2>2, <2>3, <2>4
<1>2. PICK k \in 0..n :
        Touch(At(l1.p1, l1.velocity, k, n), At(l1.p2, l1.velocity, k, n),
              At(l2.p1, l2.velocity, k, n), At(l2.p2, l2.velocity, k, n))
  BY <1>0
<1>. DEFINE r == Rect_makeFromLine(l1)
            s == Rect_makeFromLine(l2)
            e == Extent(At(l1.p1, l1.velocity, k, n), At(l1.p2, l1.velocity, k, n))
            f == Extent(At(l2.p1, l2.velocity, k, n), At(l2.p2, l2.velocity, k, n))
<1>3. ~ApartInX(e, f) /\ ~ApartInY(e, f)
  BY <1>2 DEF Touch
<1>4. /\ IsRectangle(e) /\ n * r.xmin <= e.xmin /\ e.xmax <= n * r.xmax
      /\ n * r.ymin <= e.ymin /\ e.ymax <= n * r.ymax
  BY <1>1, ExtentInRectangle
<1>5. /\ IsRectangle(f) /\ n * s.xmin <= f.xmin /\ f.xmax <= n * s.xmax
      /\ n * s.ymin <= f.ymin /\ f.ymax <= n * s.ymax
  BY <1>1, ExtentInRectangle
<1>6. IsRectangle(r) /\ IsRectangle(s)
  BY RectangleOfLine
<1>7. ASSUME NEW least \in Int, NEW most \in Int, n * least <= n * most
      PROVE  least <= most
  <2>1. ASSUME most < least
        PROVE  FALSE
    <3>1. n * (least - most) > 0
      BY <1>1, <2>1
    <3>2. n * (least - most) = n * least - n * most
      BY <1>1
    <3>. QED
      BY <1>1, <1>7, <3>1, <3>2
  <2>. QED
    BY <2>1
<1>. HIDE DEF r, s, e, f
<1>8. /\ n * r.xmin <= n * s.xmax /\ n * s.xmin <= n * r.xmax
      /\ n * r.ymin <= n * s.ymax /\ n * s.ymin <= n * r.ymax
  <2>1. \A z \in Int : n * z \in Int
    BY <1>1
  <2>. QED
    BY <1>3, <1>4, <1>5, <1>6, <2>1 DEF IsRectangle, ApartInX, ApartInY
<1>9. r.xmin <= s.xmax /\ s.xmin <= r.xmax /\ r.ymin <= s.ymax /\ s.ymin <= r.ymax
  BY <1>6, <1>7, <1>8 DEF IsRectangle
<1>. QED
  BY <1>6, <1>9 DEF Overlap, IsRectangle, ApartInX, ApartInY, r, s

\* Whatever box the quadtree cuts, it does not give to different quadrants
\* what overlaps.
LEMMA QuadrantsTogether ==
  ASSUME NEW r, NEW s, IsRectangle(r), IsRectangle(s), Overlap(r, s),
         NEW box, mid_x(box) \in Int, mid_y(box) \in Int
  PROVE  \/ get_quadrant_number(r, box) = get_quadrant_number(s, box)
         \/ 4 \in {get_quadrant_number(r, box), get_quadrant_number(s, box)}
  BY DEF get_quadrant_number, Overlap, ApartInX, ApartInY, IsRectangle

\* No filter hides a pair that meets: neither the fast path nor the tree, for
\* any lines, velocities and boxes, and in any step.
THEOREM MeetingPairsCompared == Spec => []Compared
<1>1. LinesInv /\ RectanglesInv => Compared
  <2>. SUFFICES ASSUME LinesInv, RectanglesInv, pc = "detect",
                       NEW p \in Pairs, Running(p[1], p[2]), Meet(lines[p[1]], lines[p[2]])
                PROVE  /\ bounding_box_intersect(rectangle[p[1]], rectangle[p[2]])
                       /\ \A x \in Box.xmin..Box.xmax, y \in Box.ymin..Box.ymax :
                            LET box == [xmin |-> x, xmax |-> x, ymin |-> y, ymax |-> y]
                                q(i) == get_quadrant_number(rectangle[i], box)
                            IN q(p[1]) = q(p[2]) \/ 4 \in {q(p[1]), q(p[2])}
    BY DEF Compared
  <2>. DEFINE r == rectangle[p[1]]
              s == rectangle[p[2]]
  <2>1. p[1] \in Ids /\ p[2] \in Ids /\ ~Lost(lines[p[1]]) /\ ~Lost(lines[p[2]])
    BY DEF Pairs, Running
  <2>2. r = Rect_makeFromLine(lines[p[1]]) /\ s = Rect_makeFromLine(lines[p[2]])
    BY <2>1 DEF RectanglesInv
  <2>3. /\ lines[p[1]] \in [p1 : Vectors, p2 : Vectors, velocity : Vectors]
        /\ lines[p[2]] \in [p1 : Vectors, p2 : Vectors, velocity : Vectors]
    BY <2>1 DEF LinesInv
  <2>4. Overlap(r, s) /\ IsRectangle(r) /\ IsRectangle(s)
    BY <2>2, <2>3, MeetOverlap, RectangleOfLine
  <2>5. bounding_box_intersect(r, s)
    BY <2>4 DEF Overlap, bounding_box_intersect
  <2>6. ASSUME NEW x \in Box.xmin..Box.xmax, NEW y \in Box.ymin..Box.ymax
        PROVE  LET box == [xmin |-> x, xmax |-> x, ymin |-> y, ymax |-> y]
                   q(i) == get_quadrant_number(rectangle[i], box)
               IN q(p[1]) = q(p[2]) \/ 4 \in {q(p[1]), q(p[2])}
    <3>. DEFINE box == [xmin |-> x, xmax |-> x, ymin |-> y, ymax |-> y]
    <3>1. mid_x(box) \in Int /\ mid_y(box) \in Int
      BY DEF mid_x, mid_y
    <3>. QED
      BY <2>4, <3>1, QuadrantsTogether
  <2>. QED
    BY <2>5, <2>6
<1>. QED
  BY <1>1, LinesInit, LinesStep, RectanglesStep, PTL DEF Spec
-----------------------------------------------------------------------------
(* The walls.                                                              *)

Line == [p1 : Vectors, p2 : Vectors, velocity : Vectors]

\* The line is no longer than the box along the axis, and that does not change.
Fits(l, c) == l.p1[c] - l.p2[c] <= Most(c) - Least(c) /\ l.p2[c] - l.p1[c] <= Most(c) - Least(c)

\* Beyond a wall it is on its way back.
Inward(l, c) ==
  /\ BeyondMost(l, c)  => l.velocity[c] <= 0
  /\ BeyondLeast(l, c) => l.velocity[c] >= 0

WallsInv ==
  \A i \in Ids : ~Lost(lines[i]) =>
    \A c \in 1..2 :
      /\ Fits(lines[i], c)
      /\ pc \in {"rectangles", "detect"} \/ (pc = "solve" /\ i \notin solved) => Inward(lines[i], c)

LEMMA Coordinate ==
  ASSUME NEW l \in Line, NEW c \in 1..2
  PROVE  /\ l.p1[c] \in Int /\ l.p2[c] \in Int /\ l.velocity[c] \in Int
         /\ Least(c) \in Int /\ Most(c) \in Int
<1>1. c = 1 \/ c = 2
  OBVIOUS
<1>2. l.p1[c] \in Int /\ l.p2[c] \in Int /\ l.velocity[c] \in Int
  BY <1>1 DEF Line, Vectors
<1>3. Least(c) \in Int /\ Most(c) \in Int
  BY CollisionWorldAssumption DEF Least, Most
<1>. QED
  BY <1>2, <1>3

LEMMA WallsInit == Init => WallsInv
<1>. SUFFICES ASSUME Init, NEW i \in Ids, NEW c \in 1..2
              PROVE  Fits(lines[i], c) /\ Inward(lines[i], c)
  BY DEF WallsInv
<1>. DEFINE l == lines[i]
<1>1. l \in Line /\ \A p \in {l.p1, l.p2} : p[1] \in Box.xmin..Box.xmax /\ p[2] \in Box.ymin..Box.ymax
  BY CollisionWorldAssumption DEF Init, Ids, Line
<1>. HIDE DEF l
<1>2. l.p1[c] \in Least(c)..Most(c) /\ l.p2[c] \in Least(c)..Most(c)
  <2>1. c = 1 \/ c = 2
    OBVIOUS
  <2>. QED
    BY <1>1, <2>1 DEF Least, Most
<1>3. Fits(l, c) /\ Inward(l, c)
  BY <1>1, <1>2, Coordinate DEF Fits, Inward, BeyondMost, BeyondLeast
<1>. QED
  BY <1>3 DEF l

LEMMA MovedFits ==
  ASSUME NEW l \in Line, ~Lost(l), NEW c \in 1..2
  PROVE  /\ Moved(l).p1[c] = l.p1[c] + l.velocity[c] /\ Moved(l).p2[c] = l.p2[c] + l.velocity[c]
         /\ Fits(l, c) => Fits(Moved(l), c)
<1>1. c = 1 \/ c = 2
  OBVIOUS
<1>2. Moved(l).p1 = Vec_add(l.p1, l.velocity) /\ Moved(l).p2 = Vec_add(l.p2, l.velocity)
  BY DEF Moved, Line
<1>3. Moved(l).p1[c] = l.p1[c] + l.velocity[c] /\ Moved(l).p2[c] = l.p2[c] + l.velocity[c]
  BY <1>1, <1>2 DEF Vec_add
<1>. QED
  BY <1>3, Coordinate DEF Fits

\* lineWallCollision() turns what goes away, and a line that is no longer than
\* the box is not turned twice.
LEMMA CollidedInward ==
  ASSUME NEW l \in Line, ~Lost(l), NEW c \in 1..2, Fits(l, c)
  PROVE  Fits(Collided(l), c) /\ Inward(Collided(l), c)
<1>1. Collided(l).p1 = l.p1 /\ Collided(l).p2 = l.p2
      /\ Collided(l).velocity = <<Turned(l.p1[1], l.p2[1], l.velocity[1], Box.xmin, Box.xmax),
                                  Turned(l.p1[2], l.p2[2], l.velocity[2], Box.ymin, Box.ymax)>>
  BY DEF Collided, Line
<1>2. Collided(l).velocity[c] = Turned(l.p1[c], l.p2[c], l.velocity[c], Least(c), Most(c))
  <2>1. c = 1 \/ c = 2
    OBVIOUS
  <2>. QED
    BY <1>1, <2>1 DEF Least, Most
<1>3. /\ l.p1[c] \in Int /\ l.p2[c] \in Int /\ l.velocity[c] \in Int /\ Least(c) \in Int /\ Most(c) \in Int
  BY Coordinate
<1>. QED
  BY <1>1, <1>2, <1>3 DEF Fits, Inward, BeyondMost, BeyondLeast, Turned

LEMMA WallsStep ==
  ASSUME LinesInv, WallsInv, [Next]_vars
  PROVE  WallsInv'
<1>0. \A i \in Ids : ~Lost(lines[i]) => lines[i] \in Line
  BY DEF LinesInv, Line
<1>1. CASE collisionSolver
  <2>. DEFINE e == Head(events)
  <2>1. PICK v \in NewVelocities(lines[e.l1], lines[e.l2], e.type) :
          lines' = [lines EXCEPT ![e.l1].velocity = v[1], ![e.l2].velocity = v[2]]
    BY <1>1 DEF collisionSolver
  <2>2. solved' = solved \cup {e.l1, e.l2} /\ pc' = pc /\ pc = "solve" /\ Ids' = Ids
    BY <1>1, <2>1 DEF collisionSolver, Ids
  <2>3. /\ Lost(lines[e.l1]) => v[1] = NaN
        /\ Lost(lines[e.l2]) => v[2] = NaN
    BY SolverKeepsLost
  <2>. HIDE DEF e
  <2>4. ASSUME NEW i \in Ids, ~Lost(lines'[i])
        PROVE  /\ ~Lost(lines[i]) /\ lines'[i].p1 = lines[i].p1 /\ lines'[i].p2 = lines[i].p2
               /\ i \notin solved' => lines'[i] = lines[i]
    <3>1. lines[i] \in [p1 : Vectors \cup {NaN}, p2 : Vectors \cup {NaN}, velocity : Vectors \cup {NaN}]
      BY DEF LinesInv
    <3>2. CASE i = e.l2
      BY <2>1, <2>2, <2>3, <2>4, <3>1, <3>2 DEF Ids, Lost
    <3>3. CASE i # e.l2 /\ i = e.l1
      BY <2>1, <2>2, <2>3, <2>4, <3>1, <3>3 DEF Ids, Lost
    <3>4. CASE i # e.l2 /\ i # e.l1
      BY <2>1, <2>4, <3>4 DEF Ids
    <3>. QED
      BY <3>2, <3>3, <3>4
  <2>5. ASSUME NEW i \in Ids, ~Lost(lines'[i]), NEW c \in 1..2
        PROVE  Fits(lines'[i], c) /\ (i \notin solved' => Inward(lines'[i], c))
    BY <2>2, <2>4, <2>5 DEF WallsInv, Fits
  <2>. QED
    BY <2>2, <2>5 DEF WallsInv, Fits, Inward, BeyondMost, BeyondLeast, Lost, Least, Most
<1>2. CASE updatePosition
  <2>1. pc' = "walls" /\ Ids' = Ids /\ \A i \in Ids : lines'[i] = Moved(lines[i])
    BY <1>2 DEF updatePosition, Ids
  <2>2. ASSUME NEW i \in Ids, ~Lost(lines'[i]), NEW c \in 1..2
        PROVE  Fits(lines'[i], c)
    <3>1. ~Lost(lines[i])
      <4>1. lines[i] \in [p1 : Vectors \cup {NaN}, p2 : Vectors \cup {NaN}, velocity : Vectors \cup {NaN}]
        BY DEF LinesInv
      <4>2. Moved(lines[i]).velocity = lines[i].velocity
        BY <4>1 DEF Moved
      <4>. QED
        BY <2>1, <2>2, <4>2 DEF Lost
    <3>. QED
      BY <1>0, <2>1, <3>1, MovedFits DEF WallsInv
  <2>. QED
    BY <2>1, <2>2 DEF WallsInv, Fits, Lost, Least, Most
<1>3. CASE lineWallCollision
  <2>1. Ids' = Ids /\ \A i \in Ids : lines'[i] = Collided(lines[i])
    BY <1>3 DEF lineWallCollision, Ids
  <2>2. ASSUME NEW i \in Ids, ~Lost(lines'[i]), NEW c \in 1..2
        PROVE  Fits(lines'[i], c) /\ Inward(lines'[i], c)
    <3>1. ~Lost(lines[i])
      BY <2>1, <2>2 DEF Collided
    <3>. QED
      BY <1>0, <2>1, <3>1, CollidedInward DEF WallsInv
  <2>. QED
    BY <2>1, <2>2 DEF WallsInv, Fits, Inward, BeyondMost, BeyondLeast, Lost, Least, Most
<1>4. CASE updateRectangles \/ detectIntersection \/ Stop \/ UNCHANGED vars
  <2>1. /\ UNCHANGED lines
        /\ pc' \in {"rectangles", "detect"} \/ (pc' = "solve" /\ (pc = "detect" \/ (pc = "solve" /\ solved' = solved)))
             => pc \in {"rectangles", "detect"} \/ (pc = "solve" /\ solved' = solved)
        /\ pc' = "solve" => pc = "detect" \/ (pc = "solve" /\ solved' = solved)
        /\ pc' \in {"rectangles", "detect"} => pc \in {"rectangles", "detect"}
    BY <1>4 DEF updateRectangles, detectIntersection, Stop, vars
  <2>. QED
    BY <2>1 DEF WallsInv, Ids, Fits, Inward, BeyondMost, BeyondLeast, Lost, Least, Most
<1>. QED
  BY <1>1, <1>2, <1>3, <1>4 DEF Next

LEMMA ComesBackStep ==
  ASSUME LinesInv, WallsInv, [Next]_vars
  PROVE  [ComesBack]_vars
<1>. SUFFICES ASSUME Next, pc = "solve", pc' = "walls",
                     NEW i \in Ids \ solved, ~Lost(lines[i]), NEW c \in 1..2
              PROVE  /\ BeyondMost(lines[i], c)  => lines'[i].p1[c] <= lines[i].p1[c] /\ lines'[i].p2[c] <= lines[i].p2[c]
                     /\ BeyondLeast(lines[i], c) => lines'[i].p1[c] >= lines[i].p1[c] /\ lines'[i].p2[c] >= lines[i].p2[c]
  BY DEF ComesBack
<1>. DEFINE l == lines[i]
<1>1. lines'[i] = Moved(l)
  BY DEF Next, updateRectangles, detectIntersection, collisionSolver, updatePosition, lineWallCollision, Stop, vars, Ids
<1>2. l \in Line /\ Inward(l, c)
  BY DEF LinesInv, WallsInv, Line
<1>. HIDE DEF l
<1>3. /\ l.p1[c] \in Int /\ l.p2[c] \in Int /\ l.velocity[c] \in Int
      /\ Moved(l).p1[c] = l.p1[c] + l.velocity[c] /\ Moved(l).p2[c] = l.p2[c] + l.velocity[c]
  BY <1>2, Coordinate, MovedFits DEF l
<1>4. /\ BeyondMost(l, c)  => Moved(l).p1[c] <= l.p1[c] /\ Moved(l).p2[c] <= l.p2[c]
      /\ BeyondLeast(l, c) => Moved(l).p1[c] >= l.p1[c] /\ Moved(l).p2[c] >= l.p2[c]
  BY <1>2, <1>3 DEF Inward
<1>. QED
  BY <1>1, <1>4 DEF l

-----------------------------------------------------------------------------
(* What meets at the end of a step is reported before it.                  *)

LEMMA DirectionMoved ==
  ASSUME NEW a \in Vectors, NEW b \in Vectors, NEW c \in Vectors, NEW v \in Vectors
  PROVE  direction(Vec_add(a, v), Vec_add(b, v), Vec_add(c, v)) = direction(a, b, c)
<1>1. ASSUME NEW p \in Vectors, NEW q \in Vectors
      PROVE  Vec_subtract(Vec_add(p, v), Vec_add(q, v)) = Vec_subtract(p, q)
  <2>1. /\ p[1] \in Int /\ p[2] \in Int /\ q[1] \in Int /\ q[2] \in Int /\ v[1] \in Int /\ v[2] \in Int
    BY DEF Vectors
  <2>. QED
    BY <2>1 DEF Vec_subtract, Vec_add
<1>2. /\ Vec_subtract(Vec_add(c, v), Vec_add(a, v)) = Vec_subtract(c, a)
      /\ Vec_subtract(Vec_add(b, v), Vec_add(a, v)) = Vec_subtract(b, a)
  BY <1>1
<1>. QED
  BY <1>2 DEF direction

LEMMA SegmentMoved ==
  ASSUME NEW a \in Vectors, NEW b \in Vectors, NEW c \in Vectors, NEW v \in Vectors
  PROVE  onSegment(Vec_add(a, v), Vec_add(b, v), Vec_add(c, v)) <=> onSegment(a, b, c)
<1>1. /\ a[1] \in Int /\ a[2] \in Int /\ b[1] \in Int /\ b[2] \in Int
      /\ c[1] \in Int /\ c[2] \in Int /\ v[1] \in Int /\ v[2] \in Int
  BY DEF Vectors
<1>. QED
  BY <1>1 DEF onSegment, Between, Vec_add

\* Whether segments touch does not depend on where the origin is.
LEMMA IntersectMoved ==
  ASSUME NEW a \in Vectors, NEW b \in Vectors, NEW c \in Vectors, NEW d \in Vectors, NEW v \in Vectors
  PROVE  intersectLines(Vec_add(a, v), Vec_add(b, v), Vec_add(c, v), Vec_add(d, v)) <=> intersectLines(a, b, c, d)
<1>1. /\ direction(Vec_add(c, v), Vec_add(d, v), Vec_add(a, v)) = direction(c, d, a)
      /\ direction(Vec_add(c, v), Vec_add(d, v), Vec_add(b, v)) = direction(c, d, b)
      /\ direction(Vec_add(a, v), Vec_add(b, v), Vec_add(c, v)) = direction(a, b, c)
      /\ direction(Vec_add(a, v), Vec_add(b, v), Vec_add(d, v)) = direction(a, b, d)
  BY DirectionMoved
<1>2. /\ onSegment(Vec_add(c, v), Vec_add(d, v), Vec_add(a, v)) <=> onSegment(c, d, a)
      /\ onSegment(Vec_add(c, v), Vec_add(d, v), Vec_add(b, v)) <=> onSegment(c, d, b)
      /\ onSegment(Vec_add(a, v), Vec_add(b, v), Vec_add(c, v)) <=> onSegment(a, b, c)
      /\ onSegment(Vec_add(a, v), Vec_add(b, v), Vec_add(d, v)) <=> onSegment(a, b, d)
  BY SegmentMoved
<1>. QED
  BY <1>1, <1>2 DEF intersectLines

LEMMA Mean ==
  ASSUME NEW e \in Int, NEW f \in Int, NEW g \in Int, NEW h \in Int, e > 0, f > 0, g > 0, h > 0, e + f = g + h,
         NEW w \in Int, NEW x \in Int, NEW y \in Int, NEW z \in Int, NEW m \in Int,
         w < m, x < m, m <= y, m <= z
  PROVE  e * w + f * x < g * y + h * z
<1>1. e * (m - w) > 0 /\ f * (m - x) > 0 /\ g * (y - m) >= 0 /\ h * (z - m) >= 0
  OBVIOUS
<1>2. /\ e * (m - w) = e * m - e * w /\ f * (m - x) = f * m - f * x
      /\ g * (y - m) = g * y - g * m /\ h * (z - m) = h * z - h * m
  OBVIOUS
<1>3. e * m + f * m = (e + f) * m /\ g * m + h * m = (g + h) * m
  OBVIOUS
<1>4. /\ e * m \in Int /\ f * m \in Int /\ g * m \in Int /\ h * m \in Int /\ (e + f) * m \in Int
      /\ e * w \in Int /\ f * x \in Int /\ g * y \in Int /\ h * z \in Int
  OBVIOUS
<1>5. e * m + f * m = g * m + h * m
  BY <1>3
<1>. QED
  BY <1>1, <1>2, <1>4, <1>5

LEMMA Cramer ==
  ASSUME NEW u \in Int, NEW v \in Int, NEW w \in Int, NEW x \in Int, NEW y \in Int, NEW z \in Int
  PROVE  (u * z - y * v) * w - (w * z - y * x) * u - (u * x - w * v) * y = 0
<1>1. /\ (u * z - y * v) * w = u * z * w - y * v * w
      /\ (w * z - y * x) * u = w * z * u - y * x * u
      /\ (u * x - w * v) * y = u * x * y - w * v * y
  OBVIOUS
<1>2. u * z * w = w * z * u /\ y * v * w = w * v * y /\ y * x * u = u * x * y
  OBVIOUS
<1>3. u * z * w \in Int /\ y * v * w \in Int /\ w * z * u \in Int /\ y * x * u \in Int /\ u * x * y \in Int /\ w * v * y \in Int
  OBVIOUS
<1>. QED
  BY <1>1, <1>2, <1>3

\* Where two segments cross, as a mean of the ends of either
LEMMA Crossing ==
  ASSUME NEW a \in Vectors, NEW b \in Vectors, NEW c \in Vectors, NEW d \in Vectors
  PROVE  LET e == direction(c, d, a)
             f == direction(c, d, b)
             g == direction(a, b, c)
             h == direction(a, b, d)
         IN /\ e \in Int /\ f \in Int /\ g \in Int /\ h \in Int
            /\ e - f = h - g
            /\ e * b[1] - f * a[1] = h * c[1] - g * d[1]
<1>. DEFINE e == direction(c, d, a)
            f == direction(c, d, b)
            g == direction(a, b, c)
            h == direction(a, b, d)
<1>1. /\ a[1] \in Int /\ a[2] \in Int /\ b[1] \in Int /\ b[2] \in Int
      /\ c[1] \in Int /\ c[2] \in Int /\ d[1] \in Int /\ d[2] \in Int
  BY DEF Vectors
<1>2. /\ e = (a[1] - c[1]) * (d[2] - c[2]) - (d[1] - c[1]) * (a[2] - c[2])
      /\ f = (b[1] - c[1]) * (d[2] - c[2]) - (d[1] - c[1]) * (b[2] - c[2])
      /\ g = (c[1] - a[1]) * (b[2] - a[2]) - (b[1] - a[1]) * (c[2] - a[2])
      /\ h = (d[1] - a[1]) * (b[2] - a[2]) - (b[1] - a[1]) * (d[2] - a[2])
  BY DEF direction, crossProduct, Vec_subtract
<1>. HIDE DEF e, f, g, h
<1>3. e \in Int /\ f \in Int /\ g \in Int /\ h \in Int
  BY <1>1, <1>2
<1>4. e - f = h - g
  BY <1>1, <1>2
<1>5. e * b[1] - f * a[1] = h * c[1] - g * d[1]
  <2>. DEFINE u == a[1] - c[1]
              v == a[2] - c[2]
              w == b[1] - c[1]
              x == b[2] - c[2]
              y == d[1] - c[1]
              z == d[2] - c[2]
  <2>1. /\ u \in Int /\ v \in Int /\ w \in Int /\ x \in Int /\ y \in Int /\ z \in Int
        /\ a[1] = u + c[1] /\ b[1] = w + c[1] /\ d[1] = y + c[1]
    BY <1>1
  <2>2. e = u * z - y * v /\ f = w * z - y * x
    BY <1>2
  <2>3. g = w * v - u * x
    BY <1>1, <1>2
  <2>. HIDE DEF u, v, w, x, y, z
  <2>4. e * w - f * u - (u * x - w * v) * y = 0
    BY <2>1, <2>2, Cramer
  <2>5. (u * x - w * v) * y = -(g * y)
    BY <2>1, <2>3
  <2>6. /\ e * b[1] = e * w + e * c[1] /\ f * a[1] = f * u + f * c[1] /\ g * d[1] = g * y + g * c[1]
    BY <1>1, <1>3, <2>1
  <2>8. h * c[1] = e * c[1] - f * c[1] + g * c[1]
    <3>1. h = (e - f) + g
      BY <1>3, <1>4
    <3>2. ((e - f) + g) * c[1] = e * c[1] - f * c[1] + g * c[1]
      BY <1>1, <1>3
    <3>. QED
      BY <3>1, <3>2
  <2>7. /\ e * w \in Int /\ f * u \in Int /\ g * y \in Int /\ e * c[1] \in Int /\ f * c[1] \in Int /\ g * c[1] \in Int
    BY <1>1, <1>3, <2>1
  <2>. QED
    BY <2>4, <2>5, <2>6, <2>7, <2>8
<1>. QED
  BY <1>3, <1>4, <1>5 DEF e, f, g, h

\* Segments that touch are not apart.
LEMMA TouchingNotApart ==
  ASSUME NEW a \in Vectors, NEW b \in Vectors, NEW c \in Vectors, NEW d \in Vectors,
         intersectLines(a, b, c, d), NEW m \in Int
  PROVE  /\ ~(a[1] < m /\ b[1] < m /\ m <= c[1] /\ m <= d[1])
         /\ ~(c[1] < m /\ d[1] < m /\ m <= a[1] /\ m <= b[1])
<1>. DEFINE e == direction(c, d, a)
            f == direction(c, d, b)
            g == direction(a, b, c)
            h == direction(a, b, d)
<1>1. /\ a[1] \in Int /\ b[1] \in Int /\ c[1] \in Int /\ d[1] \in Int
  BY DEF Vectors
<1>2. /\ e \in Int /\ f \in Int /\ g \in Int /\ h \in Int
      /\ e - f = h - g
      /\ e * b[1] - f * a[1] = h * c[1] - g * d[1]
  BY Crossing
<1>3. \/ Opposite(e, f) /\ Opposite(g, h)
      \/ Between(c[1], d[1], a[1]) \/ Between(c[1], d[1], b[1])
      \/ Between(a[1], b[1], c[1]) \/ Between(a[1], b[1], d[1])
  BY DEF intersectLines, onSegment
<1>. HIDE DEF e, f, g, h
<1>4. CASE Between(c[1], d[1], a[1]) \/ Between(c[1], d[1], b[1]) \/ Between(a[1], b[1], c[1]) \/ Between(a[1], b[1], d[1])
  BY <1>1, <1>4 DEF Between
<1>5. CASE Opposite(e, f) /\ Opposite(g, h)
  <2>1. \/ e > 0 /\ -f > 0 /\ h > 0 /\ -g > 0
        \/ -e > 0 /\ f > 0 /\ -h > 0 /\ g > 0
    BY <1>2, <1>5 DEF Opposite
  <2>2. /\ (-f) * a[1] = -(f * a[1]) /\ (-g) * d[1] = -(g * d[1])
        /\ (-e) * b[1] = -(e * b[1]) /\ (-h) * c[1] = -(h * c[1])
        /\ e * b[1] \in Int /\ f * a[1] \in Int /\ h * c[1] \in Int /\ g * d[1] \in Int
    BY <1>1, <1>2
  <2>3. CASE e > 0 /\ -f > 0 /\ h > 0 /\ -g > 0
    <3>1. e + (-f) = h + (-g)
      BY <1>2
    <3>. DEFINE ff == -f
                gg == -g
    <3>0. ff \in Int /\ gg \in Int /\ ff > 0 /\ gg > 0 /\ e + ff = h + gg
      BY <1>2, <2>3, <3>1
    <3>5. ff * a[1] = -(f * a[1]) /\ gg * d[1] = -(g * d[1])
      BY <2>2
    <3>. HIDE DEF ff, gg
    <3>2. a[1] < m /\ b[1] < m /\ m <= c[1] /\ m <= d[1] => e * b[1] + ff * a[1] < h * c[1] + gg * d[1]
      BY <1>1, <1>2, <2>3, <3>0, Mean
    <3>3. c[1] < m /\ d[1] < m /\ m <= a[1] /\ m <= b[1] => h * c[1] + gg * d[1] < e * b[1] + ff * a[1]
      BY <1>1, <1>2, <2>3, <3>0, Mean
    <3>. QED
      BY <1>2, <2>2, <3>2, <3>3, <3>5
  <2>4. CASE -e > 0 /\ f > 0 /\ -h > 0 /\ g > 0
    <3>1. (-e) + f = (-h) + g
      BY <1>2
    <3>. DEFINE ee == -e
                hh == -h
    <3>0. ee \in Int /\ hh \in Int /\ ee > 0 /\ hh > 0 /\ ee + f = hh + g
      BY <1>2, <2>4, <3>1
    <3>5. ee * b[1] = -(e * b[1]) /\ hh * c[1] = -(h * c[1])
      BY <2>2
    <3>. HIDE DEF ee, hh
    <3>2. a[1] < m /\ b[1] < m /\ m <= c[1] /\ m <= d[1] => ee * b[1] + f * a[1] < hh * c[1] + g * d[1]
      BY <1>1, <1>2, <2>4, <3>0, Mean
    <3>3. c[1] < m /\ d[1] < m /\ m <= a[1] /\ m <= b[1] => hh * c[1] + g * d[1] < ee * b[1] + f * a[1]
      BY <1>1, <1>2, <2>4, <3>0, Mean
    <3>. QED
      BY <1>2, <2>2, <3>2, <3>3, <3>5
  <2>. QED
    BY <2>1, <2>3, <2>4
<1>. QED
  BY <1>3, <1>4, <1>5

\* Lines that touch when they have moved are reported before.
LEMMA EndReported ==
  ASSUME NEW l1 \in Line, NEW l2 \in Line,
         intersectLines(Vec_add(l1.p1, l1.velocity), Vec_add(l1.p2, l1.velocity),
                        Vec_add(l2.p1, l2.velocity), Vec_add(l2.p2, l2.velocity))
  PROVE  /\ intersect(l1, l2) # "NO_INTERSECTION"
         /\ bounding_box_intersect(Rect_makeFromLine(l1), Rect_makeFromLine(l2))
<1>. DEFINE velocity == Vec_subtract(l2.velocity, l1.velocity)
            p1       == Vec_add(l2.p1, velocity)
            p2       == Vec_add(l2.p2, velocity)
            r        == Rect_makeFromLine(l1)
            s        == Rect_makeFromLine(l2)
<1>1. /\ l1.p1 \in Vectors /\ l1.p2 \in Vectors /\ l1.velocity \in Vectors
      /\ l2.p1 \in Vectors /\ l2.p2 \in Vectors /\ l2.velocity \in Vectors
  BY DEF Line
<1>2. /\ velocity \in Vectors /\ p1 \in Vectors /\ p2 \in Vectors
      /\ \A p \in Vectors, q \in Vectors : Vec_add(p, q) \in Vectors
  BY <1>1 DEF Vectors, Vec_add, Vec_subtract
<1>3. Vec_add(p1, l1.velocity) = Vec_add(l2.p1, l2.velocity) /\ Vec_add(p2, l1.velocity) = Vec_add(l2.p2, l2.velocity)
  BY <1>1 DEF Vectors, Vec_add, Vec_subtract
<1>4. intersectLines(l1.p1, l1.p2, p1, p2)
  <2>. HIDE DEF p1, p2
  <2>1. intersectLines(Vec_add(l1.p1, l1.velocity), Vec_add(l1.p2, l1.velocity),
                       Vec_add(p1, l1.velocity), Vec_add(p2, l1.velocity))
    BY <1>3
  <2>. QED
    BY <1>1, <1>2, <2>1, IntersectMoved
<1>5. intersect(l1, l2) # "NO_INTERSECTION"
  <2>. DEFINE top      == intersectLines(l1.p1, l1.p2, p1, l2.p1)
              bottom   == intersectLines(l1.p1, l1.p2, p2, l2.p2)
              sides    == <<intersectLines(l1.p1, l1.p2, p1, p2), top, bottom>>
              crossed  == {e \in 1..3 : sides[e]}
  <2>0. sides[1]
    <3>. HIDE DEF top, bottom, p1, p2
    <3>. QED
      BY <1>4
  <2>1. 1 \in crossed
    <3>. HIDE DEF sides
    <3>. QED
      BY <2>0
  <2>. HIDE DEF crossed
  <2>2. crossed # {}
    BY <2>1
  <2>. QED
    BY <2>2 DEF intersect, crossed
<1>6. bounding_box_intersect(r, s)
  <2>1. /\ IsRectangle(r) /\ HasPoint(r, Vec_add(l1.p1, l1.velocity)) /\ HasPoint(r, Vec_add(l1.p2, l1.velocity))
        /\ IsRectangle(s) /\ HasPoint(s, Vec_add(l2.p1, l2.velocity)) /\ HasPoint(s, Vec_add(l2.p2, l2.velocity))
    BY RectangleOfLine DEF Line
  <2>. DEFINE a == Vec_add(l1.p1, l1.velocity)
              b == Vec_add(l1.p2, l1.velocity)
              c == Vec_add(l2.p1, l2.velocity)
              d == Vec_add(l2.p2, l2.velocity)
  <2>2. /\ a \in Vectors /\ b \in Vectors /\ c \in Vectors /\ d \in Vectors /\ intersectLines(a, b, c, d)
    BY <1>1, <1>2
  <2>. HIDE DEF a, b, c, d, r, s
  <2>3. /\ a[1] \in Int /\ b[1] \in Int /\ c[1] \in Int /\ d[1] \in Int
    BY <2>2 DEF Vectors
  <2>4. /\ r.xmin <= a[1] /\ a[1] <= r.xmax /\ r.xmin <= b[1] /\ b[1] <= r.xmax
        /\ s.xmin <= c[1] /\ c[1] <= s.xmax /\ s.xmin <= d[1] /\ d[1] <= s.xmax
        /\ r.xmin \in Int /\ r.xmax \in Int /\ s.xmin \in Int /\ s.xmax \in Int
    BY <2>1 DEF HasPoint, IsRectangle, a, b, c, d
  <2>5. ~(a[1] < s.xmin /\ b[1] < s.xmin /\ s.xmin <= c[1] /\ s.xmin <= d[1])
    BY <2>2, <2>4, TouchingNotApart
  <2>6. ~(c[1] < r.xmin /\ d[1] < r.xmin /\ r.xmin <= a[1] /\ r.xmin <= b[1])
    BY <2>2, <2>4, TouchingNotApart
  <2>. QED
    BY <2>3, <2>4, <2>5, <2>6 DEF bounding_box_intersect, ApartInX
<1>. QED
  BY <1>5, <1>6

-----------------------------------------------------------------------------
(* The events of a step.                                                   *)

\* What intersect() may answer
Verdicts == {"ALREADY_INTERSECTED", "L1_WITH_L2", "L2_WITH_L1", "NO_INTERSECTION"}

\* The ids are those of a finite number of lines.
IdsInv == IsFiniteSet(Ids) /\ Ids \subseteq Nat

\* No line is a point.
ExtendedInv == \A i \in Ids : ~Lost(lines[i]) => lines[i].p1 # lines[i].p2

Touching(i, j) == intersectLines(lines[i].p1, lines[i].p2, lines[j].p1, lines[j].p2)

\* They touch when they have moved.
Ahead(i, j) ==
  intersectLines(Vec_add(lines[i].p1, lines[i].velocity), Vec_add(lines[i].p2, lines[i].velocity),
                 Vec_add(lines[j].p1, lines[j].velocity), Vec_add(lines[j].p2, lines[j].velocity))

\* The events are those of pairs, and the lines stay where they were compared.
EventsInv ==
  pc = "solve" =>
    /\ events \in Seq([l1 : Ids, l2 : Ids, type : Verdicts])
    /\ \A n \in 1..Len(events) :
         /\ events[n].l1 < events[n].l2
         /\ events[n].type = "ALREADY_INTERSECTED" => Touching(events[n].l1, events[n].l2)

\* What will touch after the step has been solved, or is about to be; what
\* touches then has been.
SurpriseInv ==
  /\ pc = "solve" => \A p \in Pairs : Running(p[1], p[2]) /\ Ahead(p[1], p[2]) =>
       \/ solved \cap {p[1], p[2]} # {}
       \/ \E n \in 1..Len(events) : events[n].l1 = p[1] /\ events[n].l2 = p[2]
  /\ pc = "walls" \/ (pc \in {"rectangles", "detect"} /\ step > 0) => \A p \in Pairs :
       Running(p[1], p[2]) /\ Touching(p[1], p[2]) => solved \cap {p[1], p[2]} # {}

LEMMA EventsInit == Init => IdsInv /\ ExtendedInv /\ EventsInv /\ SurpriseInv
  BY CollisionWorldAssumption DEF Init, Ids, IdsInv, ExtendedInv, EventsInv, SurpriseInv

LEMMA SameIds ==
  ASSUME [Next]_vars
  PROVE  Ids' = Ids
  BY DEF Next, updateRectangles, detectIntersection, collisionSolver, updatePosition, lineWallCollision, Stop, vars, Ids

LEMMA IdsStep ==
  ASSUME IdsInv, [Next]_vars
  PROVE  IdsInv'
  BY SameIds DEF IdsInv

\* What one call of the solver changes
LEMMA SolverStep ==
  ASSUME LinesInv, collisionSolver
  PROVE  /\ events # <<>> /\ pc = "solve" /\ pc' = "solve" /\ events' = Tail(events)
         /\ solved' = solved \cup {Head(events).l1, Head(events).l2}
         /\ \A i \in Ids : /\ lines'[i].p1 = lines[i].p1 /\ lines'[i].p2 = lines[i].p2
                           /\ ~Lost(lines'[i]) => ~Lost(lines[i])
                           /\ i \notin {Head(events).l1, Head(events).l2} => lines'[i] = lines[i]
<1>. DEFINE e == Head(events)
<1>1. PICK v \in NewVelocities(lines[e.l1], lines[e.l2], e.type) :
        lines' = [lines EXCEPT ![e.l1].velocity = v[1], ![e.l2].velocity = v[2]]
  BY DEF collisionSolver
<1>2. events # <<>> /\ pc = "solve" /\ pc' = "solve" /\ events' = Tail(events) /\ solved' = solved \cup {e.l1, e.l2}
  BY DEF collisionSolver
<1>3. /\ Lost(lines[e.l1]) => v[1] = NaN
      /\ Lost(lines[e.l2]) => v[2] = NaN
  BY SolverKeepsLost
<1>. HIDE DEF e
<1>4. ASSUME NEW i \in Ids
      PROVE  /\ lines'[i].p1 = lines[i].p1 /\ lines'[i].p2 = lines[i].p2
             /\ ~Lost(lines'[i]) => ~Lost(lines[i])
             /\ i \notin {e.l1, e.l2} => lines'[i] = lines[i]
  <2>1. lines[i] \in [p1 : Vectors \cup {NaN}, p2 : Vectors \cup {NaN}, velocity : Vectors \cup {NaN}]
    BY DEF LinesInv
  <2>2. CASE i = e.l2
    BY <1>1, <1>3, <2>1, <2>2 DEF Ids, Lost
  <2>3. CASE i # e.l2 /\ i = e.l1
    BY <1>1, <1>3, <2>1, <2>3 DEF Ids, Lost
  <2>4. CASE i # e.l2 /\ i # e.l1
    BY <1>1, <2>4 DEF Ids
  <2>. QED
    BY <2>2, <2>3, <2>4
<1>. QED
  BY <1>2, <1>4 DEF e

LEMMA ExtendedStep ==
  ASSUME LinesInv, ExtendedInv, [Next]_vars
  PROVE  ExtendedInv'
<1>0. Ids' = Ids
  BY SameIds
<1>1. CASE collisionSolver
  BY <1>0, <1>1, SolverStep DEF ExtendedInv
<1>2. CASE updatePosition
  <2>1. ASSUME NEW i \in Ids, ~Lost(lines'[i])
        PROVE  lines'[i].p1 # lines'[i].p2
    <3>1. lines'[i] = Moved(lines[i])
      BY <1>2 DEF updatePosition, Ids
    <3>2. lines[i] \in [p1 : Vectors \cup {NaN}, p2 : Vectors \cup {NaN}, velocity : Vectors \cup {NaN}]
      BY DEF LinesInv
    <3>3. ~Lost(lines[i])
      BY <2>1, <3>1, <3>2 DEF Lost, Moved
    <3>4. /\ lines[i].p1 \in Vectors /\ lines[i].p2 \in Vectors /\ lines[i].velocity \in Vectors
          /\ lines[i].p1 # lines[i].p2
      BY <3>3 DEF LinesInv, ExtendedInv
    <3>5. lines'[i].p1 = Vec_add(lines[i].p1, lines[i].velocity) /\ lines'[i].p2 = Vec_add(lines[i].p2, lines[i].velocity)
      BY <3>1, <3>2, <3>3 DEF Moved
    <3>6. ASSUME NEW p \in Vectors, NEW q \in Vectors, NEW v \in Vectors, Vec_add(p, v) = Vec_add(q, v)
          PROVE  p = q
      <4>1. /\ p[1] \in Int /\ p[2] \in Int /\ q[1] \in Int /\ q[2] \in Int /\ v[1] \in Int /\ v[2] \in Int
            /\ p = <<p[1], p[2]>> /\ q = <<q[1], q[2]>>
        BY DEF Vectors
      <4>2. p[1] + v[1] = q[1] + v[1] /\ p[2] + v[2] = q[2] + v[2]
        BY <3>6 DEF Vec_add
      <4>3. p[1] = q[1] /\ p[2] = q[2]
        <5>1. \A x, y, z \in Int : x + z = y + z => x = y
          OBVIOUS
        <5>. HIDE <3>6
        <5>. QED
          BY <4>1, <4>2, <5>1
      <4>. QED
        BY <4>1, <4>3
    <3>. QED
      BY <3>4, <3>5, <3>6
  <2>. QED
    BY <1>0, <2>1 DEF ExtendedInv
<1>3. CASE lineWallCollision
  <2>1. ASSUME NEW i \in Ids, ~Lost(lines'[i])
        PROVE  lines'[i].p1 # lines'[i].p2
    <3>1. lines'[i] = Collided(lines[i])
      BY <1>3 DEF lineWallCollision, Ids
    <3>2. ~Lost(lines[i])
      BY <2>1, <3>1 DEF Collided
    <3>3. lines[i] \in [p1 : Vectors, p2 : Vectors, velocity : Vectors] /\ lines[i].p1 # lines[i].p2
      BY <3>2 DEF LinesInv, ExtendedInv
    <3>. QED
      BY <3>1, <3>2, <3>3 DEF Collided
  <2>. QED
    BY <1>0, <2>1 DEF ExtendedInv
<1>4. CASE updateRectangles \/ detectIntersection \/ Stop \/ UNCHANGED vars
  <2>1. UNCHANGED lines
    BY <1>4 DEF updateRectangles, detectIntersection, Stop, vars
  <2>. QED
    BY <1>0, <2>1 DEF ExtendedInv, Lost
<1>. QED
  BY <1>1, <1>2, <1>3, <1>4 DEF Next

\* intersect() looks first at how the lines are.
LEMMA Verdict ==
  ASSUME NEW l1, NEW l2
  PROVE  /\ intersect(l1, l2) \in Verdicts
         /\ intersect(l1, l2) = "ALREADY_INTERSECTED" <=> intersectLines(l1.p1, l1.p2, l2.p1, l2.p2)
<1>. DEFINE velocity == Vec_subtract(l2.velocity, l1.velocity)
            p1       == Vec_add(l2.p1, velocity)
            p2       == Vec_add(l2.p2, velocity)
            v1       == Vec_subtract(l1.p1, l1.p2)
            v2       == Vec_subtract(l2.p1, l2.p2)
            across   == intersectLines(l1.p1, l1.p2, p1, p2)
            top      == intersectLines(l1.p1, l1.p2, p1, l2.p1)
            bottom   == intersectLines(l1.p1, l1.p2, p2, l2.p2)
            crossed  == {e \in 1..3 : <<across, top, bottom>>[e]}
            a == intersectLines(l1.p1, l1.p2, l2.p1, l2.p2)
            b == Cardinality(crossed) = 2
            c == \A point \in {l1.p1, l1.p2} : pointInParallelogram(point, l2.p1, l2.p2, p1, p2)
            d == crossed = {}
            e == top /\ ArgumentBelow(v1, v2)
            f == bottom /\ ~top /\ ArgumentBelow(v2, v1)
<1>1. intersect(l1, l2) =
        IF a THEN "ALREADY_INTERSECTED" ELSE IF b THEN "L2_WITH_L1" ELSE IF c THEN "L1_WITH_L2"
        ELSE IF d THEN "NO_INTERSECTION" ELSE IF e THEN "L2_WITH_L1" ELSE IF f THEN "L2_WITH_L1" ELSE "L1_WITH_L2"
  BY DEF intersect
<1>. HIDE DEF a, b, c, d, e, f
<1>2. intersect(l1, l2) \in Verdicts /\ (intersect(l1, l2) = "ALREADY_INTERSECTED" <=> a)
  BY <1>1 DEF Verdicts
<1>. QED
  BY <1>2 DEF a

\* The events that the detection finds
LEMMA Detected ==
  ASSUME LinesInv, RectanglesInv, IdsInv, detectIntersection
  PROVE  /\ pc' = "solve" /\ UNCHANGED lines /\ solved' = {}
         /\ events' \in Seq([l1 : Ids, l2 : Ids, type : Verdicts])
         /\ \A n \in 1..Len(events') :
              \E p \in Pairs : events'[n] = Event(p[1], p[2])
         /\ \A p \in Pairs : Reported(p[1], p[2]) => \E n \in 1..Len(events') : events'[n] = Event(p[1], p[2])
<1>. DEFINE reported == {q \in Pairs : Reported(q[1], q[2])}
            found == {Event(p[1], p[2]) : p \in reported}
<1>1. pc' = "solve" /\ UNCHANGED lines /\ solved' = {} /\ events' \in Sorted(found)
  BY DEF detectIntersection
<1>2. Pairs \subseteq Ids \X Ids /\ reported \subseteq Pairs
  BY DEF Pairs
<1>3. IsFiniteSet(found)
  <2>1. IsFiniteSet(Ids \X Ids)
    BY FS_Product DEF IdsInv
  <2>2. IsFiniteSet(reported)
    BY <1>2, <2>1, FS_Subset
  <2>. DEFINE F == [p \in reported |-> Event(p[1], p[2])]
  <2>3. F \in Surjection(reported, found)
    <3>1. F \in [reported -> found] /\ \A f \in found : \E p \in reported : F[p] = f
      OBVIOUS
    <3>. QED
      BY <3>1 DEF Surjection
  <2>. HIDE DEF reported, found, F
  <2>. QED
    BY <2>2, <2>3, FS_Surjection
<1>4. Cardinality(found) \in Nat
  BY <1>3, FS_CardinalityType
<1>5. found \subseteq [l1 : Ids, l2 : Ids, type : Verdicts]
  <2>1. ASSUME NEW p \in Pairs
        PROVE  Event(p[1], p[2]) \in [l1 : Ids, l2 : Ids, type : Verdicts]
    <3>1. intersect(lines[p[1]], lines[p[2]]) \in Verdicts
      BY Verdict
    <3>. QED
      BY <1>2, <3>1 DEF Event
  <2>. QED
    BY <1>2, <2>1
<1>6. events' \in [1..Cardinality(found) -> found] /\ Range(events') = found
  BY <1>1 DEF Sorted
<1>. HIDE DEF found
<1>7. Len(events') = Cardinality(found) /\ events' \in Seq([l1 : Ids, l2 : Ids, type : Verdicts])
  <2>. DEFINE n == Cardinality(found)
  <2>1. n \in Nat /\ events' \in [1..n -> found]
    BY <1>4, <1>6
  <2>. HIDE DEF n
  <2>2. events' \in [1..n -> [l1 : Ids, l2 : Ids, type : Verdicts]]
    BY <1>5, <2>1
  <2>. DEFINE E == [l1 : Ids, l2 : Ids, type : Verdicts]
  <2>3. events' \in [1..n -> E]
    BY <2>2
  <2>4. Len(events') = n /\ events' \in Seq(E)
    <3>. HIDE DEF E
    <3>. QED
      BY <2>1, <2>3
  <2>. QED
    BY <2>4 DEF n
<1>8. ASSUME NEW n \in 1..Len(events')
      PROVE  \E p \in Pairs : events'[n] = Event(p[1], p[2])
  <2>1. events'[n] \in found
    BY <1>6, <1>7
  <2>. QED
    BY <1>2, <2>1 DEF found
<1>9. ASSUME NEW p \in Pairs, Reported(p[1], p[2])
      PROVE  \E n \in 1..Len(events') : events'[n] = Event(p[1], p[2])
  <2>1. Event(p[1], p[2]) \in found
    BY <1>9 DEF found
  <2>. QED
    BY <1>6, <1>7, <2>1 DEF Range
<1>. QED
  BY <1>1, <1>7, <1>8, <1>9

\* The events that are left, and the one the solver is called for
LEMMA EventsLeft ==
  ASSUME EventsInv, pc = "solve", events # <<>>
  PROVE  /\ Head(events) = events[1] /\ 1 \in 1..Len(events)
         /\ Tail(events) \in Seq([l1 : Ids, l2 : Ids, type : Verdicts])
         /\ Len(Tail(events)) = Len(events) - 1
         /\ \A n \in 1..Len(Tail(events)) : n + 1 \in 1..Len(events) /\ Tail(events)[n] = events[n + 1]
         /\ \A n \in 1..Len(events) : n # 1 => n - 1 \in 1..Len(Tail(events)) /\ Tail(events)[n - 1] = events[n]
<1>. DEFINE E == [l1 : Ids, l2 : Ids, type : Verdicts]
<1>1. events \in Seq(E)
  BY DEF EventsInv
<1>. HIDE DEF E
<1>2. /\ Len(events) \in Nat /\ Len(events) > 0 /\ Head(events) = events[1]
      /\ Tail(events) \in Seq(E) /\ Len(Tail(events)) = Len(events) - 1
      /\ \A n \in 1..Len(Tail(events)) : Tail(events)[n] = events[n + 1]
  BY <1>1
<1>3. \A n \in 1..Len(events) : n # 1 => n - 1 \in 1..Len(Tail(events)) /\ Tail(events)[n - 1] = events[n]
  <2>1. ASSUME NEW n \in 1..Len(events), n # 1
        PROVE  n - 1 \in 1..Len(Tail(events)) /\ Tail(events)[n - 1] = events[n]
    <3>1. n - 1 \in 1..Len(Tail(events)) /\ (n - 1) + 1 = n
      BY <1>2, <2>1
    <3>. QED
      BY <1>2, <3>1
  <2>. QED
    BY <2>1
<1>. QED
  BY <1>2, <1>3 DEF E

LEMMA EventsStep ==
  ASSUME LinesInv, RectanglesInv, IdsInv, EventsInv, [Next]_vars
  PROVE  EventsInv'
<1>0. Ids' = Ids
  BY SameIds
<1>1. CASE detectIntersection
  <2>1. ASSUME NEW n \in 1..Len(events')
        PROVE  /\ events'[n].l1 < events'[n].l2
               /\ events'[n].type = "ALREADY_INTERSECTED" => Touching(events'[n].l1, events'[n].l2)
    <3>1. PICK p \in Pairs : events'[n] = Event(p[1], p[2])
      BY <1>1, Detected
    <3>2. events'[n].l1 = p[1] /\ events'[n].l2 = p[2] /\ events'[n].type = intersect(lines[p[1]], lines[p[2]])
      BY <3>1 DEF Event
    <3>3. p[1] < p[2]
      BY DEF Pairs
    <3>4. intersect(lines[p[1]], lines[p[2]]) = "ALREADY_INTERSECTED" => Touching(p[1], p[2])
      BY Verdict DEF Touching
    <3>. QED
      BY <3>2, <3>3, <3>4
  <2>2. events' \in Seq([l1 : Ids, l2 : Ids, type : Verdicts]) /\ UNCHANGED lines
    BY <1>1, Detected
  <2>. QED
    BY <1>0, <2>1, <2>2 DEF EventsInv, Touching
<1>2. CASE collisionSolver
  <2>1. /\ pc = "solve" /\ events # <<>> /\ events' = Tail(events)
        /\ \A i \in Ids : lines'[i].p1 = lines[i].p1 /\ lines'[i].p2 = lines[i].p2
    BY <1>2, SolverStep
  <2>2. /\ events' \in Seq([l1 : Ids, l2 : Ids, type : Verdicts])
        /\ \A n \in 1..Len(events') : n + 1 \in 1..Len(events) /\ events'[n] = events[n + 1]
    BY <2>1, EventsLeft
  <2>3. ASSUME NEW n \in 1..Len(events')
        PROVE  /\ events'[n].l1 < events'[n].l2
               /\ events'[n].type = "ALREADY_INTERSECTED" => Touching(events[n].l1, events[n].l2)'
    <3>1. events[n + 1] \in [l1 : Ids, l2 : Ids, type : Verdicts]
      <4>1. events \in Seq([l1 : Ids, l2 : Ids, type : Verdicts])
        BY <2>1 DEF EventsInv
      <4>. QED
        BY <2>2, <4>1, ElementOfSeq
    <3>2. PICK e \in [l1 : Ids, l2 : Ids, type : Verdicts] : e = events[n + 1]
      BY <3>1
    <3>3. events'[n] = e /\ e.l1 < e.l2 /\ (e.type = "ALREADY_INTERSECTED" => Touching(e.l1, e.l2))
      BY <2>1, <2>2, <3>2 DEF EventsInv
    <3>4. Touching(e.l1, e.l2)' <=> Touching(e.l1, e.l2)
      BY <2>1 DEF Touching
    <3>5. events'[n].l1 < events'[n].l2 /\ (events'[n].type = "ALREADY_INTERSECTED" => Touching(e.l1, e.l2)')
      BY <3>3, <3>4
    <3>6. e.l1 = events'[n].l1 /\ e.l2 = events'[n].l2
      BY <3>3
    <3>. QED
      BY <3>5, <3>6 DEF Touching
  <2>4. \A n \in 1..Len(events') :
          /\ events'[n].l1 < events'[n].l2
          /\ events'[n].type = "ALREADY_INTERSECTED" => Touching(events[n].l1, events[n].l2)'
    BY <2>3
  <2>. QED
    BY <1>0, <2>2, <2>4 DEF EventsInv, Touching
<1>3. CASE updateRectangles \/ updatePosition \/ lineWallCollision
  BY <1>3 DEF updateRectangles, updatePosition, lineWallCollision, EventsInv
<1>4. CASE Stop \/ UNCHANGED vars
  BY <1>0, <1>4 DEF Stop, vars, EventsInv, Touching
<1>. QED
  BY <1>1, <1>2, <1>3, <1>4 DEF Next

LEMMA SurpriseStep ==
  ASSUME LinesInv, RectanglesInv, IdsInv, EventsInv, SurpriseInv, [Next]_vars
  PROVE  SurpriseInv'
<1>0. Ids' = Ids /\ Pairs' = Pairs
  BY SameIds DEF Pairs
<1>1. CASE detectIntersection
  <2>1. /\ pc = "detect" /\ pc' = "solve" /\ UNCHANGED lines
        /\ \A p \in Pairs : Reported(p[1], p[2]) => \E n \in 1..Len(events') : events'[n] = Event(p[1], p[2])
    BY <1>1, Detected DEF detectIntersection
  <2>2. ASSUME NEW p \in Pairs, Running(p[1], p[2]), Ahead(p[1], p[2])
        PROVE  \E n \in 1..Len(events') : events'[n].l1 = p[1] /\ events'[n].l2 = p[2]
    <3>. DEFINE l1 == lines[p[1]]
                l2 == lines[p[2]]
    <3>1. p[1] \in Ids /\ p[2] \in Ids /\ ~Lost(l1) /\ ~Lost(l2)
      BY <2>2 DEF Pairs, Running
    <3>2. l1 \in Line /\ l2 \in Line
      BY <3>1 DEF LinesInv, Line
    <3>3. rectangle[p[1]] = Rect_makeFromLine(l1) /\ rectangle[p[2]] = Rect_makeFromLine(l2)
      BY <2>1, <3>1 DEF RectanglesInv
    <3>4. intersect(l1, l2) # "NO_INTERSECTION" /\ bounding_box_intersect(Rect_makeFromLine(l1), Rect_makeFromLine(l2))
      BY <2>2, <3>2, EndReported DEF Ahead
    <3>5. Reported(p[1], p[2])
      BY <3>1, <3>3, <3>4 DEF Reported
    <3>6. PICK n \in 1..Len(events') : events'[n] = Event(p[1], p[2])
      BY <2>1, <3>5
    <3>7. events'[n].l1 = p[1] /\ events'[n].l2 = p[2]
      BY <3>6 DEF Event
    <3>. QED
      BY <3>7
  <2>. QED
    BY <1>0, <2>1, <2>2 DEF SurpriseInv, Running, Ahead, Lost
<1>2. CASE collisionSolver
  <2>. DEFINE e == Head(events)
  <2>1. /\ pc = "solve" /\ pc' = "solve" /\ events # <<>> /\ events' = Tail(events) /\ solved' = solved \cup {e.l1, e.l2}
        /\ \A i \in Ids : /\ ~Lost(lines'[i]) => ~Lost(lines[i])
                          /\ i \notin {e.l1, e.l2} => lines'[i] = lines[i]
    BY <1>2, SolverStep
  <2>2. ASSUME NEW p \in Pairs, Running(p[1], p[2])', Ahead(p[1], p[2])', solved' \cap {p[1], p[2]} = {}
        PROVE  \E n \in 1..Len(events') : events'[n].l1 = p[1] /\ events'[n].l2 = p[2]
    <3>1. p[1] \in Ids /\ p[2] \in Ids /\ p[1] \notin {e.l1, e.l2} /\ p[2] \notin {e.l1, e.l2} /\ solved \cap {p[1], p[2]} = {}
      BY <2>1, <2>2 DEF Pairs
    <3>2. lines'[p[1]] = lines[p[1]] /\ lines'[p[2]] = lines[p[2]]
      BY <2>1, <3>1
    <3>3. Running(p[1], p[2]) /\ Ahead(p[1], p[2])
      BY <2>2, <3>2 DEF Running, Ahead, Lost
    <3>4. PICK n \in 1..Len(events) : events[n].l1 = p[1] /\ events[n].l2 = p[2]
      BY <2>1, <3>1, <3>3 DEF SurpriseInv
    <3>5. n # 1
      BY <2>1, <3>1, <3>4, EventsLeft
    <3>6. n - 1 \in 1..Len(events') /\ events'[n - 1] = events[n]
      BY <2>1, <3>5, EventsLeft
    <3>. QED
      BY <3>4, <3>6
  <2>. QED
    BY <1>0, <2>1, <2>2 DEF SurpriseInv
<1>3. CASE updatePosition
  <2>1. /\ pc = "solve" /\ events = <<>> /\ pc' = "walls" /\ UNCHANGED solved
        /\ \A i \in Ids : lines'[i] = Moved(lines[i])
    BY <1>3 DEF updatePosition, Ids
  <2>2. ASSUME NEW i \in Ids, ~Lost(lines'[i])
        PROVE  /\ ~Lost(lines[i]) /\ lines'[i].p1 = Vec_add(lines[i].p1, lines[i].velocity)
               /\ lines'[i].p2 = Vec_add(lines[i].p2, lines[i].velocity)
    <3>1. lines[i] \in [p1 : Vectors \cup {NaN}, p2 : Vectors \cup {NaN}, velocity : Vectors \cup {NaN}]
      BY DEF LinesInv
    <3>. QED
      BY <2>1, <2>2, <3>1 DEF Moved, Lost
  <2>3. ASSUME NEW p \in Pairs, Running(p[1], p[2])', Touching(p[1], p[2])'
        PROVE  solved \cap {p[1], p[2]} # {}
    <3>1. p[1] \in Ids /\ p[2] \in Ids
      BY DEF Pairs
    <3>2. Running(p[1], p[2]) /\ Ahead(p[1], p[2])
      BY <2>2, <2>3, <3>1 DEF Running, Ahead, Touching
    <3>3. \A n \in 1..Len(events) : FALSE
      BY <2>1
    <3>. QED
      BY <2>1, <3>2, <3>3 DEF SurpriseInv
  <2>. QED
    BY <1>0, <2>1, <2>3 DEF SurpriseInv
<1>4. CASE lineWallCollision
  <2>1. /\ pc = "walls" /\ pc' = "rectangles" /\ UNCHANGED solved
        /\ \A i \in Ids : lines'[i] = Collided(lines[i])
    BY <1>4 DEF lineWallCollision, Ids
  <2>2. ASSUME NEW i \in Ids, ~Lost(lines'[i])
        PROVE  ~Lost(lines[i]) /\ lines'[i].p1 = lines[i].p1 /\ lines'[i].p2 = lines[i].p2
    <3>1. lines[i] \in [p1 : Vectors \cup {NaN}, p2 : Vectors \cup {NaN}, velocity : Vectors \cup {NaN}]
      BY DEF LinesInv
    <3>. QED
      BY <2>1, <2>2, <3>1 DEF Collided, Lost
  <2>3. ASSUME NEW p \in Pairs, Running(p[1], p[2])', Touching(p[1], p[2])'
        PROVE  solved \cap {p[1], p[2]} # {}
    <3>1. p[1] \in Ids /\ p[2] \in Ids
      BY DEF Pairs
    <3>2. Running(p[1], p[2]) /\ Touching(p[1], p[2])
      BY <2>2, <2>3, <3>1 DEF Running, Touching
    <3>. QED
      BY <2>1, <3>2 DEF SurpriseInv
  <2>. QED
    BY <1>0, <2>1, <2>3 DEF SurpriseInv
<1>5. CASE updateRectangles \/ Stop \/ UNCHANGED vars
  <2>1. /\ UNCHANGED <<lines, events, solved, step>>
        /\ pc' = "solve" => pc = "solve"
        /\ pc' = "walls" => pc = "walls"
        /\ pc' \in {"rectangles", "detect"} => pc \in {"rectangles", "detect"}
    BY <1>5 DEF updateRectangles, Stop, vars
  <2>. QED
    BY <1>0, <2>1 DEF SurpriseInv, Running, Touching, Ahead, Lost
<1>. QED
  BY <1>1, <1>2, <1>3, <1>4, <1>5 DEF Next

-----------------------------------------------------------------------------
(* Lines that the solver loses.                                            *)

\* The ends of one segment are on the line of the other: so are the ends of
\* that one on the line of the first.
LEMMA CrossingOf ==
  ASSUME NEW a \in Vectors, NEW b \in Vectors, NEW c \in Vectors, NEW d \in Vectors,
         NEW e, e = direction(c, d, a), NEW f, f = direction(c, d, b),
         NEW g, g = direction(a, b, c), NEW h, h = direction(a, b, d)
  PROVE  /\ e \in Int /\ f \in Int /\ g \in Int /\ h \in Int /\ e - f = h - g
         /\ e * b[1] - f * a[1] = h * c[1] - g * d[1]
  BY Crossing

LEMMA NoWeights ==
  ASSUME NEW e \in Int, NEW f \in Int, NEW g \in Int, NEW h \in Int,
         NEW w \in Int, NEW x \in Int, NEW y \in Int, NEW z \in Int,
         e - f = h - g, e * x - f * w = h * y - g * z
  PROVE  e = 0 /\ f = 0 => g = h /\ h * y = g * z
<1>1. ASSUME e = 0, f = 0
      PROVE  e * x = 0 /\ f * w = 0
  BY <1>1
<1>2. h * y \in Int /\ g * z \in Int
  OBVIOUS
<1>. QED
  BY <1>1, <1>2

\* The same, when the ends of one are on the line of the other
LEMMA CrossingNowhere ==
  ASSUME NEW a \in Vectors, NEW b \in Vectors, NEW c \in Vectors, NEW d \in Vectors,
         NEW g, g = direction(a, b, c), NEW h, h = direction(a, b, d),
         NEW e, e = direction(c, d, a), NEW f, f = direction(c, d, b)
  PROVE  g \in Int /\ h \in Int /\ (e = 0 /\ f = 0 => g = h /\ h * c[1] = g * d[1])
<1>1. /\ a[1] \in Int /\ b[1] \in Int /\ c[1] \in Int /\ d[1] \in Int
  BY DEF Vectors
<1>2. /\ e \in Int /\ f \in Int /\ g \in Int /\ h \in Int /\ e - f = h - g
      /\ e * b[1] - f * a[1] = h * c[1] - g * d[1]
  BY CrossingOf
<1>3. \A w, x, y, z \in Int : e * x - f * w = h * y - g * z => (e = 0 /\ f = 0 => g = h /\ h * y = g * z)
  BY <1>2, NoWeights
<1>4. e * b[1] - f * a[1] = h * c[1] - g * d[1] => (e = 0 /\ f = 0 => g = h /\ h * c[1] = g * d[1])
  BY <1>1, <1>3
<1>. QED
  BY <1>2, <1>4

LEMMA OnEachOther ==
  ASSUME NEW a \in Vectors, NEW b \in Vectors, NEW c \in Vectors, NEW d \in Vectors, c # d,
         direction(c, d, a) = 0, direction(c, d, b) = 0
  PROVE  direction(a, b, c) = 0 /\ direction(a, b, d) = 0
<1>. DEFINE Swapped(p) == <<p[2], p[1]>>
            g == direction(a, b, c)
            h == direction(a, b, d)
<1>0. /\ a[1] \in Int /\ a[2] \in Int /\ b[1] \in Int /\ b[2] \in Int
      /\ c[1] \in Int /\ c[2] \in Int /\ d[1] \in Int /\ d[2] \in Int
      /\ c = <<c[1], c[2]>> /\ d = <<d[1], d[2]>>
  BY DEF Vectors
<1>1. g \in Int /\ h \in Int /\ g = h /\ h * c[1] = g * d[1]
  <2>. DEFINE e == direction(c, d, a)
              f == direction(c, d, b)
  <2>1. e = 0 /\ f = 0
    OBVIOUS
  <2>. QED
    BY <2>1, CrossingNowhere
<1>2. ASSUME NEW p \in Vectors, NEW q \in Vectors, NEW r \in Vectors
      PROVE  Swapped(p) \in Vectors /\ direction(Swapped(p), Swapped(q), Swapped(r)) = 0 - direction(p, q, r)
  <2>1. /\ p[1] \in Int /\ p[2] \in Int /\ q[1] \in Int /\ q[2] \in Int /\ r[1] \in Int /\ r[2] \in Int
    BY DEF Vectors
  <2>2. Swapped(p) \in Vectors
    BY <2>1 DEF Vectors
  <2>3. /\ direction(p, q, r) = (r[1] - p[1]) * (q[2] - p[2]) - (q[1] - p[1]) * (r[2] - p[2])
        /\ direction(Swapped(p), Swapped(q), Swapped(r)) = (r[2] - p[2]) * (q[1] - p[1]) - (q[2] - p[2]) * (r[1] - p[1])
    BY DEF direction, crossProduct, Vec_subtract
  <2>4. \A x, y, z, w \in Int : w * z - y * x = 0 - (x * y - z * w)
    OBVIOUS
  <2>5. r[1] - p[1] \in Int /\ q[2] - p[2] \in Int /\ q[1] - p[1] \in Int /\ r[2] - p[2] \in Int
    BY <2>1
  <2>. HIDE DEF Swapped
  <2>. QED
    BY <2>2, <2>3, <2>4, <2>5
<1>3. h * c[2] = g * d[2]
  <2>. DEFINE e == direction(Swapped(c), Swapped(d), Swapped(a))
              f == direction(Swapped(c), Swapped(d), Swapped(b))
              i == direction(Swapped(a), Swapped(b), Swapped(c))
              j == direction(Swapped(a), Swapped(b), Swapped(d))
  <2>1. /\ Swapped(a) \in Vectors /\ Swapped(b) \in Vectors /\ Swapped(c) \in Vectors /\ Swapped(d) \in Vectors
        /\ e = 0 - direction(c, d, a) /\ f = 0 - direction(c, d, b) /\ i = 0 - g /\ j = 0 - h
    BY <1>2
  <2>2. Swapped(a)[1] = a[2] /\ Swapped(b)[1] = b[2] /\ Swapped(c)[1] = c[2] /\ Swapped(d)[1] = d[2]
    OBVIOUS
  <2>. HIDE DEF Swapped
  <2>3. e = 0 /\ f = 0
    <3>1. direction(c, d, a) = 0 /\ direction(c, d, b) = 0
      OBVIOUS
    <3>. HIDE DEF e, f
    <3>. QED
      BY <2>1, <3>1
  <2>4. j * Swapped(c)[1] = i * Swapped(d)[1]
    BY <2>1, <2>3, CrossingNowhere
  <2>5. (0 - h) * c[2] = (0 - g) * d[2]
    <3>. HIDE DEF i, j, g, h
    <3>. QED
      BY <2>1, <2>2, <2>4
  <2>6. (0 - h) * c[2] = 0 - (h * c[2]) /\ (0 - g) * d[2] = 0 - (g * d[2]) /\ h * c[2] \in Int /\ g * d[2] \in Int
    BY <1>0, <1>1
  <2>. HIDE DEF g, h
  <2>. QED
    BY <2>5, <2>6
<1>. HIDE DEF g, h
<1>4. ASSUME NEW x \in Int, NEW y \in Int, NEW k \in Int, k * x = k * y, k # 0
      PROVE  x = y
  BY <1>4
<1>5. g # 0 => c[1] = d[1] /\ c[2] = d[2]
  BY <1>0, <1>1, <1>3, <1>4
<1>6. g = 0 /\ h = 0
  BY <1>0, <1>1, <1>5
<1>. QED
  BY <1>6 DEF g, h

\* Lines that touch without crossing are on one line.
LEMMA ParallelOnOneLine ==
  ASSUME NEW l1 \in Line, NEW l2 \in Line, l1.p1 # l1.p2, l2.p1 # l2.p2,
         intersectLines(l1.p1, l1.p2, l2.p1, l2.p2),
         crossProduct(Vec_subtract(l1.p1, l1.p2), Vec_subtract(l2.p1, l2.p2)) = 0
  PROVE  OnOneLine(l1, l2) /\ OnOneLine(l2, l1)
<1>. DEFINE a == l1.p1
            b == l1.p2
            c == l2.p1
            d == l2.p2
            e == direction(c, d, a)
            f == direction(c, d, b)
            g == direction(a, b, c)
            h == direction(a, b, d)
<1>1. a \in Vectors /\ b \in Vectors /\ c \in Vectors /\ d \in Vectors
  BY DEF Line
<1>2. intersectLines(a, b, c, d) /\ crossProduct(Vec_subtract(a, b), Vec_subtract(c, d)) = 0 /\ a # b /\ c # d
  OBVIOUS
<1>. HIDE DEF a, b, c, d
<1>3. /\ a[1] \in Int /\ a[2] \in Int /\ b[1] \in Int /\ b[2] \in Int
      /\ c[1] \in Int /\ c[2] \in Int /\ d[1] \in Int /\ d[2] \in Int
  BY <1>1 DEF Vectors
<1>4. e \in Int /\ f \in Int /\ g \in Int /\ h \in Int /\ e - f = h - g
  BY <1>1, Crossing
<1>5. e = f
  <2>1. (a[1] - b[1]) * (c[2] - d[2]) - (c[1] - d[1]) * (a[2] - b[2]) = 0
    BY <1>2 DEF crossProduct, Vec_subtract
  <2>2. /\ e = (a[1] - c[1]) * (d[2] - c[2]) - (d[1] - c[1]) * (a[2] - c[2])
        /\ f = (b[1] - c[1]) * (d[2] - c[2]) - (d[1] - c[1]) * (b[2] - c[2])
    BY DEF direction, crossProduct, Vec_subtract
  <2>. HIDE DEF e, f
  <2>. QED
    BY <1>3, <2>1, <2>2
<1>6. (Opposite(e, f) /\ Opposite(g, h)) \/ e = 0 \/ f = 0 \/ g = 0 \/ h = 0
  BY <1>2 DEF intersectLines
<1>7. e = 0 \/ f = 0 \/ g = 0 \/ h = 0
  <2>. HIDE DEF e, f, g, h
  <2>. QED
    BY <1>4, <1>5, <1>6 DEF Opposite
<1>8. e = 0 /\ f = 0 /\ g = 0 /\ h = 0
  <2>1. (e = 0 /\ f = 0) \/ (g = 0 /\ h = 0)
    <3>. HIDE DEF e, f, g, h
    <3>. QED
      BY <1>4, <1>5, <1>7
  <2>2. e = 0 /\ f = 0 => g = 0 /\ h = 0
    BY <1>1, <1>2, OnEachOther
  <2>3. g = 0 /\ h = 0 => e = 0 /\ f = 0
    BY <1>1, <1>2, OnEachOther
  <2>. QED
    BY <2>1, <2>2, <2>3
<1>. QED
  BY <1>8 DEF OnOneLine, a, b, c, d

\* When the solver loses a line, the other is lost already or on one line with it.
LEMMA LostVelocity ==
  ASSUME NEW l1, NEW l2, NEW type, NEW v \in NewVelocities(l1, l2, type),
         Lost(l1) \/ l1 \in Line, Lost(l2) \/ l2 \in Line,
         (~Lost(l1) /\ v[1] = NaN) \/ (~Lost(l2) /\ v[2] = NaN)
  PROVE  \/ Lost(l1) \/ Lost(l2)
         \/ /\ type = "ALREADY_INTERSECTED"
            /\ crossProduct(Vec_subtract(l1.p1, l1.p2), Vec_subtract(l2.p1, l2.p2)) = 0
  BY CollisionWorldAssumption DEF NewVelocities, Lost

LEMMA LostStep ==
  ASSUME LinesInv, ExtendedInv, IdsInv, EventsInv, Next
  PROVE  LostToSolver
<1>0. \A i \in Ids : ~Lost(lines[i]) => lines[i] \in Line
  BY DEF LinesInv, Line
<1>1. CASE collisionSolver
  <2>1. pc = "solve" /\ events # <<>> /\ \A i \in Ids : i \notin {Head(events).l1, Head(events).l2} => lines'[i] = lines[i]
    BY <1>1, SolverStep
  <2>2. PICK e \in [l1 : Ids, l2 : Ids, type : Verdicts] : e = Head(events)
    <3>1. events \in Seq([l1 : Ids, l2 : Ids, type : Verdicts])
      BY <2>1 DEF EventsInv
    <3>2. Head(events) = events[1] /\ 1 \in 1..Len(events)
      BY <2>1, EventsLeft
    <3>. QED
      BY <3>1, <3>2, ElementOfSeq
  <2>3. PICK v \in NewVelocities(lines[e.l1], lines[e.l2], e.type) :
          lines' = [lines EXCEPT ![e.l1].velocity = v[1], ![e.l2].velocity = v[2]]
    BY <1>1, <2>2 DEF collisionSolver
  <2>4. e.l1 \in Ids /\ e.l2 \in Ids /\ e.l1 # e.l2 /\ (e.type = "ALREADY_INTERSECTED" => Touching(e.l1, e.l2))
    <3>1. e.l1 < e.l2 /\ (e.type = "ALREADY_INTERSECTED" => Touching(e.l1, e.l2))
      BY <2>1, <2>2, EventsLeft DEF EventsInv
    <3>2. e.l1 \in Nat /\ e.l2 \in Nat
      BY DEF IdsInv
    <3>. QED
      BY <3>1, <3>2
  <2>5. /\ Lost(lines'[e.l1]) => v[1] = NaN
        /\ Lost(lines'[e.l2]) => v[2] = NaN
    <3>1. \A i \in Ids : lines[i] \in [p1 : Vectors \cup {NaN}, p2 : Vectors \cup {NaN}, velocity : Vectors \cup {NaN}]
      BY DEF LinesInv
    <3>. QED
      BY <2>3, <2>4, <3>1 DEF Lost, Ids
  <2>6. ASSUME NEW i \in Ids, ~Lost(lines[i]), Lost(lines'[i])
        PROVE  \E j \in Ids \ {i} : {i, j} = {e.l1, e.l2} /\ (Lost(lines[j]) \/ OnOneLine(lines[i], lines[j]))
    <3>1. i \in {e.l1, e.l2}
      BY <2>1, <2>2, <2>6
    <3>2. \/ Lost(lines[e.l1]) \/ Lost(lines[e.l2])
          \/ /\ Touching(e.l1, e.l2)
             /\ crossProduct(Vec_subtract(lines[e.l1].p1, lines[e.l1].p2), Vec_subtract(lines[e.l2].p1, lines[e.l2].p2)) = 0
      <4>1. Lost(lines[e.l1]) \/ lines[e.l1] \in Line
        BY <1>0, <2>4
      <4>2. Lost(lines[e.l2]) \/ lines[e.l2] \in Line
        BY <1>0, <2>4
      <4>3. (~Lost(lines[e.l1]) /\ v[1] = NaN) \/ (~Lost(lines[e.l2]) /\ v[2] = NaN)
        <5>1. CASE i = e.l1
          BY <2>5, <2>6, <5>1
        <5>2. CASE i = e.l2
          BY <2>5, <2>6, <5>2
        <5>. QED
          BY <3>1, <5>1, <5>2
      <4>. QED
        BY <2>4, <4>1, <4>2, <4>3, LostVelocity
    <3>3. \/ Lost(lines[e.l1]) \/ Lost(lines[e.l2])
          \/ OnOneLine(lines[e.l1], lines[e.l2]) /\ OnOneLine(lines[e.l2], lines[e.l1])
      BY <1>0, <2>4, <3>2, ParallelOnOneLine DEF Touching, ExtendedInv
    <3>4. CASE i = e.l1
      BY <2>4, <2>6, <3>3, <3>4
    <3>5. CASE i = e.l2
      BY <2>4, <2>6, <3>3, <3>5
    <3>. QED
      BY <3>1, <3>4, <3>5
  <2>. QED
    BY <2>1, <2>2, <2>6 DEF LostToSolver
<1>2. CASE ~collisionSolver
  <2>1. ASSUME NEW i \in Ids, Lost(lines'[i])
        PROVE  Lost(lines[i])
    <3>1. lines[i] \in [p1 : Vectors \cup {NaN}, p2 : Vectors \cup {NaN}, velocity : Vectors \cup {NaN}]
      BY DEF LinesInv
    <3>2. CASE updatePosition
      BY <2>1, <3>1, <3>2 DEF updatePosition, Moved, Lost, Ids
    <3>3. CASE lineWallCollision
      <4>1. lines'[i] = Collided(lines[i])
        BY <3>3 DEF lineWallCollision, Ids
      <4>2. ASSUME ~Lost(lines[i])
            PROVE  FALSE
        <5>1. lines[i] \in [p1 : Vectors, p2 : Vectors, velocity : Vectors]
          BY <4>2 DEF LinesInv
        <5>2. Collided(lines[i]).velocity \in Vectors
          BY <4>2, <5>1, CollidedType
        <5>. QED
          BY <2>1, <4>1, <5>2, CollisionWorldAssumption DEF Lost
      <4>. QED
        BY <4>2
    <3>4. CASE updateRectangles \/ detectIntersection \/ Stop
      BY <2>1, <3>4 DEF updateRectangles, detectIntersection, Stop, vars, Lost
    <3>. QED
      BY <1>2, <3>2, <3>3, <3>4 DEF Next
  <2>. QED
    BY <2>1 DEF LostToSolver
<1>. QED
  BY <1>1, <1>2

\* Lines that touch between two steps were moved by the solver before, for any
\* lines, velocities and walls: what will touch is reported, and what is
\* reported is solved.
THEOREM NoneUnnoticed == Spec => []NoSurprise
<1>1. SurpriseInv => NoSurprise
  BY Verdict DEF SurpriseInv, NoSurprise, Touching
<1>. QED
  BY <1>1, LinesInit, LinesStep, RectanglesStep, EventsInit, IdsStep, EventsStep, SurpriseStep, PTL DEF Spec

\* A line stays in play, whatever lines there are: it comes back from the
\* walls, and the solver loses it only to one with which it is on one line or
\* that is lost already.
THEOREM LinesStayInPlay == Spec => StaysInPlay
<1>1. LinesInv /\ ExtendedInv /\ IdsInv /\ EventsInv /\ [Next]_vars => [LostToSolver]_vars
  BY LostStep
<1>2. LinesInv /\ WallsInv /\ [Next]_vars => [ComesBack]_vars
  BY ComesBackStep
<1>3. LinesInv /\ WallsInv /\ ExtendedInv /\ IdsInv /\ EventsInv /\ [Next]_vars => [ComesBack /\ LostToSolver]_vars
  BY <1>1, <1>2
<1>. QED
  BY <1>3, LinesInit, LinesStep, RectanglesStep, WallsInit, WallsStep, EventsInit, IdsStep, ExtendedStep, EventsStep, PTL
     DEF Spec, StaysInPlay

-----------------------------------------------------------------------------
(* What intersect() answers is whether the lines meet during the step.      *)
(*                                                                         *)
(* Everything is seen from the first line, from a to b: the second one,    *)
(* from c to d, is shifted by v and sweeps a parallelogram.  A point of a  *)
(* line is a mean of its ends, and its weights are natural numbers.        *)
(*                                                                         *)
(* 1. intersectLines(), Touch and a common point are the same for segments *)
(*    (SameMeeting).                                                       *)
(* 2. An end that runs into the first line is on it at a time whose        *)
(*    denominator is one of Denominators (EndOnPath); the same holds for   *)
(*    the first line's ends in the parallelogram (InsideReaches).          *)
(* 3. A first line with a point in the parallelogram has both ends within  *)
(*    it or a point on one of its sides (SweptSides, SweptFlat).           *)

-----------------------------------------------------------------------------
(* Segments have a point in common if and only if intersectLines() says so.*)

\* The means of a and b, and of c and d, by these weights are the same point.
Shared(a, b, c, d, p, q, r, s) ==
  /\ p \in Nat /\ q \in Nat /\ r \in Nat /\ s \in Nat /\ p + q = r + s /\ p + q > 0
  /\ p * a[1] + q * b[1] = r * c[1] + s * d[1]
  /\ p * a[2] + q * b[2] = r * c[2] + s * d[2]

HavePoint(a, b, c, d) == \E p, q, r, s \in Nat : Shared(a, b, c, d, p, q, r, s)

\* The extent of a segment is that of its ends.
LEMMA ExtentIs ==
  ASSUME NEW a, NEW b, a[1] \in Int, a[2] \in Int, b[1] \in Int, b[2] \in Int
  PROVE  LET e == Extent(a, b) IN
         /\ e.xmin \in {a[1], b[1]} /\ e.xmax \in {a[1], b[1]} /\ e.ymin \in {a[2], b[2]} /\ e.ymax \in {a[2], b[2]}
         /\ \A x \in {a[1], b[1]} : x <= e.xmax /\ e.xmin <= x
         /\ \A y \in {a[2], b[2]} : y <= e.ymax /\ e.ymin <= y
<1>1. ASSUME NEW x \in Int, NEW y \in Int
      PROVE  /\ Min({x, y}) \in {x, y} /\ \A z \in {x, y} : Min({x, y}) <= z
             /\ Max({x, y}) \in {x, y} /\ \A z \in {x, y} : z <= Max({x, y})
  <2>1. \E m \in {x, y} : \A z \in {x, y} : m <= z
    OBVIOUS
  <2>2. \E m \in {x, y} : \A z \in {x, y} : m >= z
    OBVIOUS
  <2>. QED
    BY <2>1, <2>2 DEF Min, Max
<1>. QED
  BY <1>1 DEF Extent

\* Numbers below others have no mean in common with them.
LEMMA MeansApart ==
  ASSUME NEW p \in Nat, NEW q \in Nat, NEW r \in Nat, NEW s \in Nat, p + q = r + s, p + q > 0,
         NEW w \in Int, NEW x \in Int, NEW y \in Int, NEW z \in Int,
         p * w + q * x = r * y + s * z
  PROVE  ~(w < y /\ w < z /\ x < y /\ x < z)
<1>. SUFFICES ASSUME w < y, w < z, x < y, x < z
              PROVE  FALSE
  OBVIOUS
<1>1. PICK m \in Int : w <= m /\ x <= m /\ m < y /\ m < z
  <2>1. CASE w <= x
    BY <2>1
  <2>2. CASE x <= w
    BY <2>2
  <2>. QED
    BY <2>1, <2>2
<1>2. p * (m - w) >= 0 /\ q * (m - x) >= 0 /\ r * (y - m - 1) >= 0 /\ s * (z - m - 1) >= 0
  BY <1>1
<1>3. /\ p * (m - w) = p * m - p * w /\ q * (m - x) = q * m - q * x
      /\ r * (y - m - 1) = (r * y - r * m) - r /\ s * (z - m - 1) = (s * z - s * m) - s
  OBVIOUS
<1>4. p * m + q * m = (p + q) * m /\ r * m + s * m = (r + s) * m /\ (p + q) * m = (r + s) * m
  OBVIOUS
<1>5. /\ p * m \in Int /\ q * m \in Int /\ r * m \in Int /\ s * m \in Int /\ (p + q) * m \in Int
      /\ p * w \in Int /\ q * x \in Int /\ r * y \in Int /\ s * z \in Int
  OBVIOUS
<1>. QED
  BY <1>2, <1>3, <1>4, <1>5

\* What is seen from a segment to the sides of a point on it
LEMMA SideOfMean ==
  ASSUME NEW a \in Vectors, NEW b \in Vectors, NEW c \in Vectors, NEW d \in Vectors,
         NEW p, NEW q, NEW r, NEW s, Shared(a, b, c, d, p, q, r, s)
  PROVE  r * direction(a, b, c) + s * direction(a, b, d) = 0
<1>. DEFINE a1 == a[1]
            a2 == a[2]
            b1 == b[1]
            b2 == b[2]
            c1 == c[1]
            c2 == c[2]
            d1 == d[1]
            d2 == d[2]
<1>a. /\ a1 \in Int /\ a2 \in Int /\ b1 \in Int /\ b2 \in Int
      /\ c1 \in Int /\ c2 \in Int /\ d1 \in Int /\ d2 \in Int
  BY DEF Vectors
<1>b. /\ p \in Nat /\ q \in Nat /\ r \in Nat /\ s \in Nat /\ p + q = r + s
      /\ p * a1 + q * b1 = r * c1 + s * d1 /\ p * a2 + q * b2 = r * c2 + s * d2
  BY DEF Shared
<1>c. /\ direction(a, b, c) = (c1 - a1) * (b2 - a2) - (b1 - a1) * (c2 - a2)
      /\ direction(a, b, d) = (d1 - a1) * (b2 - a2) - (b1 - a1) * (d2 - a2)
  BY DEF direction, crossProduct, Vec_subtract
<1>. HIDE DEF a1, a2, b1, b2, c1, c2, d1, d2
<1>. DEFINE x == b1 - a1
            y == b2 - a2
<1>1. r * (c1 - a1) + s * (d1 - a1) = q * x
  <2>1. /\ r * (c1 - a1) = r * c1 - r * a1 /\ s * (d1 - a1) = s * d1 - s * a1 /\ q * x = q * b1 - q * a1
        /\ r * a1 + s * a1 = (r + s) * a1 /\ (r + s) * a1 = (p + q) * a1 /\ (p + q) * a1 = p * a1 + q * a1
    BY <1>a, <1>b
  <2>2. /\ r * c1 \in Int /\ r * a1 \in Int /\ s * d1 \in Int /\ s * a1 \in Int /\ q * b1 \in Int /\ q * a1 \in Int /\ p * a1 \in Int
    BY <1>a, <1>b
  <2>. QED
    BY <1>b, <2>1, <2>2
<1>2. r * (c2 - a2) + s * (d2 - a2) = q * y
  <2>1. /\ r * (c2 - a2) = r * c2 - r * a2 /\ s * (d2 - a2) = s * d2 - s * a2 /\ q * y = q * b2 - q * a2
        /\ r * a2 + s * a2 = (r + s) * a2 /\ (r + s) * a2 = (p + q) * a2 /\ (p + q) * a2 = p * a2 + q * a2
    BY <1>a, <1>b
  <2>2. /\ r * c2 \in Int /\ r * a2 \in Int /\ s * d2 \in Int /\ s * a2 \in Int /\ q * b2 \in Int /\ q * a2 \in Int /\ p * a2 \in Int
    BY <1>a, <1>b
  <2>. QED
    BY <1>b, <2>1, <2>2
<1>3. x \in Int /\ y \in Int
  BY <1>a
<1>4. \A u, v, w, z \in Int : r * (u * y - x * v) + s * (w * y - x * z) = (r * u + s * w) * y - x * (r * v + s * z)
  BY <1>b, <1>3
<1>5. r * ((c1 - a1) * y - x * (c2 - a2)) + s * ((d1 - a1) * y - x * (d2 - a2)) = (q * x) * y - x * (q * y)
  <2>1. c1 - a1 \in Int /\ c2 - a2 \in Int /\ d1 - a1 \in Int /\ d2 - a2 \in Int
    BY <1>a
  <2>. HIDE DEF x, y
  <2>. QED
    BY <1>1, <1>2, <1>4, <2>1
<1>6. (q * x) * y = x * (q * y)
  BY <1>b, <1>3
<1>7. (q * x) * y \in Int
  BY <1>b, <1>3
<1>. QED
  BY <1>c, <1>5, <1>6, <1>7

\* Of two segments with a point in common none is on one side of the other.
LEMMA NoSide ==
  ASSUME NEW a \in Vectors, NEW b \in Vectors, NEW c \in Vectors, NEW d \in Vectors,
         NEW p, NEW q, NEW r, NEW s, Shared(a, b, c, d, p, q, r, s)
  PROVE  ~OneSide(a, b, c, d)
<1>1. /\ a[1] \in Int /\ a[2] \in Int /\ b[1] \in Int /\ b[2] \in Int
      /\ c[1] \in Int /\ c[2] \in Int /\ d[1] \in Int /\ d[2] \in Int
  BY DEF Vectors
<1>2. /\ p \in Nat /\ q \in Nat /\ r \in Nat /\ s \in Nat /\ p + q = r + s /\ p + q > 0
      /\ p * a[1] + q * b[1] = r * c[1] + s * d[1] /\ p * a[2] + q * b[2] = r * c[2] + s * d[2]
  BY DEF Shared
<1>. DEFINE g == direction(a, b, c)
            h == direction(a, b, d)
<1>4. g \in Int /\ h \in Int
  BY <1>1 DEF direction, crossProduct, Vec_subtract
<1>5. r * g + s * h = 0
  BY SideOfMean
<1>. HIDE DEF g, h
<1>6. ~(g > 0 /\ h > 0) /\ ~(g < 0 /\ h < 0)
  <2>1. r > 0 \/ s > 0
    BY <1>2
  <2>2. g > 0 /\ h > 0 => r * g >= 0 /\ s * h >= 0 /\ (r > 0 => r * g > 0) /\ (s > 0 => s * h > 0)
    BY <1>2, <1>4
  <2>3. g < 0 /\ h < 0 => r * g <= 0 /\ s * h <= 0 /\ (r > 0 => r * g < 0) /\ (s > 0 => s * h < 0)
    BY <1>2, <1>4
  <2>4. r * g \in Int /\ s * h \in Int
    BY <1>2, <1>4
  <2>. QED
    BY <1>5, <2>1, <2>2, <2>3, <2>4
<1>7. g * h > 0 => (g > 0 /\ h > 0) \/ (g < 0 /\ h < 0)
  BY <1>4
<1>. QED
  BY <1>6, <1>7 DEF OneSide, g, h

\* The point may be said of either, and of either end.
LEMMA SharedSwapped ==
  ASSUME NEW a \in Vectors, NEW b \in Vectors, NEW c \in Vectors, NEW d \in Vectors,
         NEW p, NEW q, NEW r, NEW s, Shared(a, b, c, d, p, q, r, s)
  PROVE  /\ Shared(c, d, a, b, r, s, p, q)
         /\ Shared(b, a, c, d, q, p, r, s)
  BY DEF Shared, Vectors

\* Segments with a point in common touch.
LEMMA PointTouches ==
  ASSUME NEW a \in Vectors, NEW b \in Vectors, NEW c \in Vectors, NEW d \in Vectors, HavePoint(a, b, c, d)
  PROVE  Touch(a, b, c, d)
<1>1. PICK p, q, r, s \in Nat : Shared(a, b, c, d, p, q, r, s)
  BY DEF HavePoint
<1>2. /\ a[1] \in Int /\ a[2] \in Int /\ b[1] \in Int /\ b[2] \in Int
      /\ c[1] \in Int /\ c[2] \in Int /\ d[1] \in Int /\ d[2] \in Int
  BY DEF Vectors
<1>3. ~OneSide(a, b, c, d) /\ ~OneSide(c, d, a, b)
  BY <1>1, NoSide, SharedSwapped
<1>4. /\ p + q = r + s /\ p + q > 0
      /\ p * a[1] + q * b[1] = r * c[1] + s * d[1] /\ p * a[2] + q * b[2] = r * c[2] + s * d[2]
  BY <1>1 DEF Shared
<1>. DEFINE u == Extent(a, b)
            v == Extent(c, d)
<1>5. /\ u.xmin \in {a[1], b[1]} /\ u.xmax \in {a[1], b[1]} /\ u.ymin \in {a[2], b[2]} /\ u.ymax \in {a[2], b[2]}
      /\ \A x \in {a[1], b[1]} : x <= u.xmax /\ u.xmin <= x
      /\ \A y \in {a[2], b[2]} : y <= u.ymax /\ u.ymin <= y
  BY <1>2, ExtentIs
<1>6. /\ v.xmin \in {c[1], d[1]} /\ v.xmax \in {c[1], d[1]} /\ v.ymin \in {c[2], d[2]} /\ v.ymax \in {c[2], d[2]}
      /\ \A x \in {c[1], d[1]} : x <= v.xmax /\ v.xmin <= x
      /\ \A y \in {c[2], d[2]} : y <= v.ymax /\ v.ymin <= y
  BY <1>2, ExtentIs
<1>. HIDE DEF u, v
<1>7. /\ ~(a[1] < c[1] /\ a[1] < d[1] /\ b[1] < c[1] /\ b[1] < d[1])
      /\ ~(a[2] < c[2] /\ a[2] < d[2] /\ b[2] < c[2] /\ b[2] < d[2])
  <2>1. ~(a[1] < c[1] /\ a[1] < d[1] /\ b[1] < c[1] /\ b[1] < d[1])
    BY <1>2, <1>4, MeansApart
  <2>2. ~(a[2] < c[2] /\ a[2] < d[2] /\ b[2] < c[2] /\ b[2] < d[2])
    BY <1>2, <1>4, MeansApart
  <2>. QED
    BY <2>1, <2>2
<1>8. /\ ~(c[1] < a[1] /\ c[1] < b[1] /\ d[1] < a[1] /\ d[1] < b[1])
      /\ ~(c[2] < a[2] /\ c[2] < b[2] /\ d[2] < a[2] /\ d[2] < b[2])
  <2>1. r * c[1] + s * d[1] = p * a[1] + q * b[1] /\ r * c[2] + s * d[2] = p * a[2] + q * b[2] /\ r + s = p + q /\ r + s > 0
    BY <1>4
  <2>2. ~(c[1] < a[1] /\ c[1] < b[1] /\ d[1] < a[1] /\ d[1] < b[1])
    BY <1>2, <2>1, MeansApart
  <2>3. ~(c[2] < a[2] /\ c[2] < b[2] /\ d[2] < a[2] /\ d[2] < b[2])
    BY <1>2, <2>1, MeansApart
  <2>. QED
    BY <2>2, <2>3
<1>9. ~ApartInX(u, v) /\ ~ApartInY(u, v)
  BY <1>2, <1>5, <1>6, <1>7, <1>8 DEF ApartInX, ApartInY
<1>. QED
  BY <1>3, <1>9 DEF Touch, u, v

\* A mean of two numbers is between them.
LEMMA MeanBetween ==
  ASSUME NEW p \in Int, NEW q \in Int, (p >= 0 /\ q >= 0) \/ (p <= 0 /\ q <= 0), p + q # 0,
         NEW x \in Int, NEW y \in Int, NEW z \in Int, (p + q) * z = p * x + q * y
  PROVE  Between(x, y, z)
<1>1. p * (z - x) = q * (y - z)
  <2>1. p * (z - x) = p * z - p * x /\ q * (y - z) = q * y - q * z /\ (p + q) * z = p * z + q * z
    OBVIOUS
  <2>2. p * z \in Int /\ p * x \in Int /\ q * z \in Int /\ q * y \in Int
    OBVIOUS
  <2>. QED
    BY <2>1, <2>2
<1>2. ~(z < x /\ z < y)
  <2>1. ASSUME z < x, z < y
        PROVE  FALSE
    <3>1. /\ p > 0 => p * (z - x) < 0
          /\ p < 0 => p * (z - x) > 0
          /\ q > 0 => q * (y - z) > 0
          /\ q < 0 => q * (y - z) < 0
          /\ p = 0 => p * (z - x) = 0
          /\ q = 0 => q * (y - z) = 0
      BY <2>1
    <3>2. p * (z - x) \in Int /\ q * (y - z) \in Int
      OBVIOUS
    <3>. QED
      BY <1>1, <3>1, <3>2
  <2>. QED
    BY <2>1
<1>3. ~(z > x /\ z > y)
  <2>1. ASSUME z > x, z > y
        PROVE  FALSE
    <3>1. /\ p > 0 => p * (z - x) > 0
          /\ p < 0 => p * (z - x) < 0
          /\ q > 0 => q * (y - z) < 0
          /\ q < 0 => q * (y - z) > 0
          /\ p = 0 => p * (z - x) = 0
          /\ q = 0 => q * (y - z) = 0
      BY <2>1
    <3>2. p * (z - x) \in Int /\ q * (y - z) \in Int
      OBVIOUS
    <3>. QED
      BY <1>1, <3>1, <3>2
  <2>. QED
    BY <2>1
<1>. QED
  BY <1>2, <1>3 DEF Between

\* The second coordinate of where two segments cross, as Crossing has the first
LEMMA CrossingSecond ==
  ASSUME NEW a \in Vectors, NEW b \in Vectors, NEW c \in Vectors, NEW d \in Vectors,
         NEW e, e = direction(c, d, a), NEW f, f = direction(c, d, b),
         NEW g, g = direction(a, b, c), NEW h, h = direction(a, b, d)
  PROVE  e * b[2] - f * a[2] = h * c[2] - g * d[2]
<1>. DEFINE Swapped(p) == <<p[2], p[1]>>
<1>1. ASSUME NEW p \in Vectors, NEW q \in Vectors, NEW r \in Vectors
      PROVE  Swapped(p) \in Vectors /\ direction(Swapped(p), Swapped(q), Swapped(r)) = 0 - direction(p, q, r)
  <2>1. /\ p[1] \in Int /\ p[2] \in Int /\ q[1] \in Int /\ q[2] \in Int /\ r[1] \in Int /\ r[2] \in Int
    BY DEF Vectors
  <2>2. Swapped(p) \in Vectors
    BY <2>1 DEF Vectors
  <2>3. /\ direction(p, q, r) = (r[1] - p[1]) * (q[2] - p[2]) - (q[1] - p[1]) * (r[2] - p[2])
        /\ direction(Swapped(p), Swapped(q), Swapped(r)) = (r[2] - p[2]) * (q[1] - p[1]) - (q[2] - p[2]) * (r[1] - p[1])
    BY DEF direction, crossProduct, Vec_subtract
  <2>4. \A x, y, z, w \in Int : w * z - y * x = 0 - (x * y - z * w)
    OBVIOUS
  <2>5. r[1] - p[1] \in Int /\ q[2] - p[2] \in Int /\ q[1] - p[1] \in Int /\ r[2] - p[2] \in Int
    BY <2>1
  <2>. HIDE DEF Swapped
  <2>. QED
    BY <2>2, <2>3, <2>4, <2>5
<1>2. /\ Swapped(a)[1] = a[2] /\ Swapped(b)[1] = b[2] /\ Swapped(c)[1] = c[2] /\ Swapped(d)[1] = d[2]
  OBVIOUS
<1>3. /\ a[2] \in Int /\ b[2] \in Int /\ c[2] \in Int /\ d[2] \in Int
  BY DEF Vectors
<1>. HIDE DEF Swapped
<1>4. /\ Swapped(a) \in Vectors /\ Swapped(b) \in Vectors /\ Swapped(c) \in Vectors /\ Swapped(d) \in Vectors
      /\ direction(Swapped(c), Swapped(d), Swapped(a)) = 0 - e /\ direction(Swapped(c), Swapped(d), Swapped(b)) = 0 - f
      /\ direction(Swapped(a), Swapped(b), Swapped(c)) = 0 - g /\ direction(Swapped(a), Swapped(b), Swapped(d)) = 0 - h
  BY <1>1
<1>5. (0 - e) * b[2] - (0 - f) * a[2] = (0 - h) * c[2] - (0 - g) * d[2]
  <2>. DEFINE k == Swapped(a)
              l == Swapped(b)
              m == Swapped(c)
              n == Swapped(d)
              ee == 0 - e
              ff == 0 - f
              gg == 0 - g
              hh == 0 - h
  <2>1. k \in Vectors /\ l \in Vectors /\ m \in Vectors /\ n \in Vectors
    BY <1>4
  <2>2. ee = direction(m, n, k) /\ ff = direction(m, n, l) /\ gg = direction(k, l, m) /\ hh = direction(k, l, n)
    BY <1>4
  <2>3. k[1] = a[2] /\ l[1] = b[2] /\ m[1] = c[2] /\ n[1] = d[2]
    BY <1>2
  <2>. HIDE DEF k, l, m, n, ee, ff, gg, hh
  <2>4. ee * l[1] - ff * k[1] = hh * m[1] - gg * n[1]
    BY <2>1, <2>2, CrossingOf
  <2>. QED
    BY <2>3, <2>4 DEF ee, ff, gg, hh
<1>6. e \in Int /\ f \in Int /\ g \in Int /\ h \in Int
  BY CrossingOf
<1>7. /\ (0 - e) * b[2] = 0 - e * b[2] /\ (0 - f) * a[2] = 0 - f * a[2]
      /\ (0 - h) * c[2] = 0 - h * c[2] /\ (0 - g) * d[2] = 0 - g * d[2]
      /\ e * b[2] \in Int /\ f * a[2] \in Int /\ h * c[2] \in Int /\ g * d[2] \in Int
  BY <1>3, <1>6
<1>. QED
  BY <1>5, <1>7

\* An end of one that is on the line of the other, whose ends it has not on one
\* side, is on the other.
LEMMA EndOnOther ==
  ASSUME NEW a \in Vectors, NEW b \in Vectors, NEW c \in Vectors, NEW d \in Vectors
  PROVE  direction(c, d, a) = 0 /\ direction(c, d, b) # 0 /\ ~OneSide(a, b, c, d) => onSegment(c, d, a)
<1>. DEFINE e == direction(c, d, a)
            f == direction(c, d, b)
            g == direction(a, b, c)
            h == direction(a, b, d)
<1>1. /\ a[1] \in Int /\ a[2] \in Int /\ b[1] \in Int /\ b[2] \in Int
      /\ c[1] \in Int /\ c[2] \in Int /\ d[1] \in Int /\ d[2] \in Int
  BY DEF Vectors
<1>2. /\ e \in Int /\ f \in Int /\ g \in Int /\ h \in Int
      /\ e - f = h - g
      /\ e * b[1] - f * a[1] = h * c[1] - g * d[1]
  BY CrossingOf
<1>3. e * b[2] - f * a[2] = h * c[2] - g * d[2]
  BY CrossingSecond
<1>. HIDE DEF e, f, g, h
<1>. SUFFICES ASSUME e = 0, f # 0, ~(g * h > 0)
              PROVE  onSegment(c, d, a)
  BY DEF OneSide, e, f, g, h
<1>4. e = 0 /\ f # 0 /\ ~(g * h > 0)
  OBVIOUS
<1>5. (h >= 0 /\ -g >= 0) \/ (h <= 0 /\ -g <= 0)
  <2>1. (g > 0 /\ h > 0) \/ (g < 0 /\ h < 0) => g * h > 0
    BY <1>2
  <2>. QED
    BY <1>2, <1>4, <2>1
<1>. DEFINE q == 0 - g
<1>6. q \in Int /\ h + q # 0 /\ ((h >= 0 /\ q >= 0) \/ (h <= 0 /\ q <= 0))
  BY <1>2, <1>4, <1>5
<1>8. ASSUME NEW w \in Int, NEW x \in Int, NEW y \in Int, NEW z \in Int, e * w - f * z = h * x - g * y
      PROVE  (h + q) * z = h * x + q * y
  <2>1. e * w = 0 /\ q * y = 0 - g * y /\ h + q = 0 - f /\ (0 - f) * z = 0 - f * z
    BY <1>2, <1>4
  <2>2. f * z \in Int /\ h * x \in Int /\ g * y \in Int
    BY <1>2
  <2>. HIDE DEF q
  <2>. QED
    BY <1>8, <2>1, <2>2
<1>. HIDE DEF q
<1>9. Between(c[1], d[1], a[1])
  <2>1. (h + q) * a[1] = h * c[1] + q * d[1]
    BY <1>1, <1>2, <1>8
  <2>. QED
    BY <1>1, <1>2, <1>6, <2>1, MeanBetween
<1>10. Between(c[2], d[2], a[2])
  <2>1. (h + q) * a[2] = h * c[2] + q * d[2]
    BY <1>1, <1>3, <1>8
  <2>. QED
    BY <1>1, <1>2, <1>6, <2>1, MeanBetween
<1>. QED
  BY <1>9, <1>10 DEF onSegment

LEMMA DirectionTurned ==
  ASSUME NEW a \in Vectors, NEW b \in Vectors, NEW c \in Vectors
  PROVE  direction(b, a, c) = 0 - direction(a, b, c) /\ direction(a, b, c) \in Int
<1>1. /\ a[1] \in Int /\ a[2] \in Int /\ b[1] \in Int /\ b[2] \in Int /\ c[1] \in Int /\ c[2] \in Int
  BY DEF Vectors
<1>2. /\ direction(a, b, c) = (c[1] - a[1]) * (b[2] - a[2]) - (b[1] - a[1]) * (c[2] - a[2])
      /\ direction(b, a, c) = (c[1] - b[1]) * (a[2] - b[2]) - (a[1] - b[1]) * (c[2] - b[2])
  BY DEF direction, crossProduct, Vec_subtract
<1>3. \A r, s, t, u, v, w \in Int : (v - t) * (s - u) - (r - t) * (w - u) = 0 - ((v - r) * (u - s) - (t - r) * (w - s))
  OBVIOUS
<1>4. direction(b, a, c) = 0 - direction(a, b, c)
  BY <1>1, <1>2, <1>3
<1>. QED
  BY <1>1, <1>2, <1>4

\* The rise from x, x2 to y, y2 is as s to k.
Rise(k, s, x, x2, y, y2) == k * (y2 - x2) = s * (y - x)

\* On a line that is not along the second axis, what is between in the first
\* coordinate is so in the second.
LEMMA Along ==
  ASSUME NEW k \in Int \ {0}, NEW s \in Int,
         NEW x \in Int, NEW y \in Int, NEW z \in Int, NEW x2 \in Int, NEW y2 \in Int, NEW z2 \in Int,
         Rise(k, s, x, x2, z, z2), Rise(k, s, z, z2, y, y2), Between(x, y, z)
  PROVE  Between(x2, y2, z2)
<1>. DEFINE p == z2 - x2
            q == y2 - z2
            u == z - x
            v == y - z
<1>1. p \in Int /\ q \in Int /\ u \in Int /\ v \in Int /\ k * p = s * u /\ k * q = s * v
  BY DEF Rise
<1>2. (u >= 0 /\ v >= 0) \/ (u <= 0 /\ v <= 0)
  BY DEF Between
<1>3. (p >= 0 /\ q >= 0) \/ (p <= 0 /\ q <= 0) => Between(x2, y2, z2)
  BY DEF Between
<1>. HIDE DEF p, q, u, v
<1>4. (s * u >= 0 /\ s * v >= 0) \/ (s * u <= 0 /\ s * v <= 0)
  BY <1>1, <1>2
<1>5. CASE k > 0
  BY <1>1, <1>3, <1>4, <1>5
<1>6. CASE k < 0
  BY <1>1, <1>3, <1>4, <1>6
<1>. QED
  BY <1>5, <1>6

\* Numbers that no other number parts
LEMMA OneInOther ==
  ASSUME NEW a \in Int, NEW b \in Int, NEW c \in Int, NEW d \in Int,
         ~(a < c /\ a < d /\ b < c /\ b < d), ~(c < a /\ c < b /\ d < a /\ d < b)
  PROVE  Between(c, d, a) \/ Between(c, d, b) \/ Between(a, b, c) \/ Between(a, b, d)
  BY DEF Between

\* Points of a line, in the coordinates in which it has two
LEMMA AlongLine ==
  ASSUME NEW k \in Int \ {0}, NEW s \in Int,
         NEW a \in Int, NEW b \in Int, NEW c \in Int, NEW d \in Int,
         NEW a2 \in Int, NEW b2 \in Int, NEW c2 \in Int, NEW d2 \in Int,
         Rise(k, s, c, c2, a, a2), Rise(k, s, c, c2, b, b2), Rise(k, s, c, c2, d, d2),
         Between(c, d, a) \/ Between(c, d, b) \/ Between(a, b, c) \/ Between(a, b, d)
  PROVE  \/ Between(c, d, a) /\ Between(c2, d2, a2)
         \/ Between(c, d, b) /\ Between(c2, d2, b2)
         \/ Between(a, b, c) /\ Between(a2, b2, c2)
         \/ Between(a, b, d) /\ Between(a2, b2, d2)
<1>1. ASSUME NEW x \in Int, NEW y \in Int, NEW x2 \in Int, NEW y2 \in Int,
             Rise(k, s, c, c2, x, x2), Rise(k, s, c, c2, y, y2)
      PROVE  Rise(k, s, y, y2, x, x2)
  <2>1. k * (x2 - c2) = s * (x - c) /\ k * (y2 - c2) = s * (y - c)
    BY <1>1 DEF Rise
  <2>2. k * (x2 - y2) = k * (x2 - c2) - k * (y2 - c2) /\ s * (x - y) = s * (x - c) - s * (y - c)
    OBVIOUS
  <2>. QED
    BY <2>1, <2>2 DEF Rise
<1>2. Rise(k, s, c, c2, c, c2)
  BY DEF Rise
<1>3. CASE Between(c, d, a)
  <2>1. Rise(k, s, c, c2, a, a2) /\ Rise(k, s, a, a2, d, d2)
    BY <1>1
  <2>. QED
    BY <1>3, <2>1, Along
<1>4. CASE Between(c, d, b)
  <2>1. Rise(k, s, c, c2, b, b2) /\ Rise(k, s, b, b2, d, d2)
    BY <1>1
  <2>. QED
    BY <1>4, <2>1, Along
<1>5. CASE Between(a, b, c)
  <2>1. Rise(k, s, a, a2, c, c2) /\ Rise(k, s, c, c2, b, b2)
    BY <1>1, <1>2
  <2>. QED
    BY <1>5, <2>1, Along
<1>6. CASE Between(a, b, d)
  <2>1. Rise(k, s, a, a2, d, d2) /\ Rise(k, s, d, d2, b, b2)
    BY <1>1
  <2>. QED
    BY <1>6, <2>1, Along
<1>. QED
  BY <1>3, <1>4, <1>5, <1>6

\* On one line, segments whose extents are not apart have an end on each other.
LEMMA TouchOnLine ==
  ASSUME NEW a \in Vectors, NEW b \in Vectors, NEW c \in Vectors, NEW d \in Vectors,
         direction(c, d, a) = 0, direction(c, d, b) = 0,
         ~ApartInX(Extent(a, b), Extent(c, d)), ~ApartInY(Extent(a, b), Extent(c, d))
  PROVE  onSegment(c, d, a) \/ onSegment(c, d, b) \/ onSegment(a, b, c) \/ onSegment(a, b, d)
<1>1. /\ a[1] \in Int /\ a[2] \in Int /\ b[1] \in Int /\ b[2] \in Int
      /\ c[1] \in Int /\ c[2] \in Int /\ d[1] \in Int /\ d[2] \in Int
  BY DEF Vectors
<1>. DEFINE u == Extent(a, b)
            v == Extent(c, d)
<1>2. /\ u.xmin \in {a[1], b[1]} /\ u.xmax \in {a[1], b[1]} /\ u.ymin \in {a[2], b[2]} /\ u.ymax \in {a[2], b[2]}
      /\ \A x \in {a[1], b[1]} : x <= u.xmax /\ u.xmin <= x
      /\ \A y \in {a[2], b[2]} : y <= u.ymax /\ u.ymin <= y
  BY <1>1, ExtentIs
<1>3. /\ v.xmin \in {c[1], d[1]} /\ v.xmax \in {c[1], d[1]} /\ v.ymin \in {c[2], d[2]} /\ v.ymax \in {c[2], d[2]}
      /\ \A x \in {c[1], d[1]} : x <= v.xmax /\ v.xmin <= x
      /\ \A y \in {c[2], d[2]} : y <= v.ymax /\ v.ymin <= y
  BY <1>1, ExtentIs
<1>4. ~ApartInX(u, v) /\ ~ApartInY(u, v)
  OBVIOUS
<1>. HIDE DEF u, v
<1>5. \/ Between(c[1], d[1], a[1]) \/ Between(c[1], d[1], b[1])
      \/ Between(a[1], b[1], c[1]) \/ Between(a[1], b[1], d[1])
  <2>1. /\ ~(a[1] < c[1] /\ a[1] < d[1] /\ b[1] < c[1] /\ b[1] < d[1])
        /\ ~(c[1] < a[1] /\ c[1] < b[1] /\ d[1] < a[1] /\ d[1] < b[1])
    BY <1>1, <1>2, <1>3, <1>4 DEF ApartInX
  <2>. QED
    BY <1>1, <2>1, OneInOther
<1>6. \/ Between(c[2], d[2], a[2]) \/ Between(c[2], d[2], b[2])
      \/ Between(a[2], b[2], c[2]) \/ Between(a[2], b[2], d[2])
  <2>1. /\ ~(a[2] < c[2] /\ a[2] < d[2] /\ b[2] < c[2] /\ b[2] < d[2])
        /\ ~(c[2] < a[2] /\ c[2] < b[2] /\ d[2] < a[2] /\ d[2] < b[2])
    BY <1>1, <1>2, <1>3, <1>4 DEF ApartInY
  <2>. QED
    BY <1>1, <2>1, OneInOther
<1>. DEFINE k == d[1] - c[1]
            s == d[2] - c[2]
<1>7. /\ Rise(k, s, c[1], c[2], a[1], a[2]) /\ Rise(s, k, c[2], c[1], a[2], a[1])
      /\ Rise(k, s, c[1], c[2], b[1], b[2]) /\ Rise(s, k, c[2], c[1], b[2], b[1])
      /\ Rise(k, s, c[1], c[2], d[1], d[2]) /\ Rise(s, k, c[2], c[1], d[2], d[1])
  <2>1. /\ direction(c, d, a) = (a[1] - c[1]) * s - k * (a[2] - c[2])
        /\ direction(c, d, b) = (b[1] - c[1]) * s - k * (b[2] - c[2])
    BY DEF direction, crossProduct, Vec_subtract
  <2>2. k \in Int /\ s \in Int
    BY <1>1
  <2>3. a[1] - c[1] \in Int /\ a[2] - c[2] \in Int /\ b[1] - c[1] \in Int /\ b[2] - c[2] \in Int
    BY <1>1
  <2>4. k * (d[2] - c[2]) = s * (d[1] - c[1])
    BY <2>2
  <2>5. (a[1] - c[1]) * s - k * (a[2] - c[2]) = 0 /\ (b[1] - c[1]) * s - k * (b[2] - c[2]) = 0
    BY <2>1
  <2>. HIDE DEF k, s
  <2>6. \A x, y \in Int : x * s - k * y = 0 => k * y = s * x
    BY <2>2
  <2>7. k * (a[2] - c[2]) = s * (a[1] - c[1]) /\ k * (b[2] - c[2]) = s * (b[1] - c[1])
    BY <2>3, <2>5, <2>6
  <2>. QED
    BY <2>4, <2>7 DEF Rise
<1>8. k \in Int /\ s \in Int
  BY <1>1
<1>9. CASE k = 0 /\ s = 0
  <2>1. d[1] = c[1] /\ d[2] = c[2]
    BY <1>1, <1>9
  <2>2. Between(a[1], b[1], c[1]) /\ Between(a[2], b[2], c[2])
    BY <1>1, <1>5, <1>6, <2>1 DEF Between
  <2>. QED
    BY <2>2 DEF onSegment
<1>10. CASE k # 0
  <2>. HIDE DEF k, s
  <2>. QED
    BY <1>1, <1>5, <1>7, <1>8, <1>10, AlongLine DEF onSegment
<1>11. CASE s # 0
  <2>. HIDE DEF k, s
  <2>. QED
    BY <1>1, <1>6, <1>7, <1>8, <1>11, AlongLine DEF onSegment
<1>. QED
  BY <1>9, <1>10, <1>11

\* What touches by extents and sides intersects.
LEMMA TouchIntersects ==
  ASSUME NEW a \in Vectors, NEW b \in Vectors, NEW c \in Vectors, NEW d \in Vectors, Touch(a, b, c, d)
  PROVE  intersectLines(a, b, c, d)
<1>. DEFINE e == direction(c, d, a)
            f == direction(c, d, b)
            g == direction(a, b, c)
            h == direction(a, b, d)
<1>1. e \in Int /\ f \in Int /\ g \in Int /\ h \in Int /\ e - f = h - g
  BY CrossingOf
<1>2. /\ direction(b, a, c) = 0 - g /\ direction(b, a, d) = 0 - h
      /\ direction(d, c, a) = 0 - e /\ direction(d, c, b) = 0 - f
  BY DirectionTurned
<1>3. ~OneSide(a, b, c, d) /\ ~OneSide(c, d, a, b)
  BY DEF Touch
<1>4. ~(g * h > 0) /\ ~(e * f > 0)
  BY <1>3 DEF OneSide
<1>5. /\ ~OneSide(b, a, c, d) /\ ~OneSide(d, c, a, b)
  <2>1. (0 - g) * (0 - h) = g * h /\ (0 - e) * (0 - f) = e * f
    BY <1>1
  <2>. HIDE DEF e, f, g, h
  <2>. QED
    BY <1>2, <1>4, <2>1 DEF OneSide
<1>6. e = 0 /\ f # 0 => onSegment(c, d, a)
  BY <1>3, EndOnOther
<1>7. f = 0 /\ e # 0 => onSegment(c, d, b)
  BY <1>5, EndOnOther
<1>8. g = 0 /\ h # 0 => onSegment(a, b, c)
  BY <1>3, EndOnOther
<1>9. h = 0 /\ g # 0 => onSegment(a, b, d)
  BY <1>5, EndOnOther
<1>10. e = 0 /\ f = 0 /\ g = 0 /\ h = 0 => onSegment(c, d, a) \/ onSegment(c, d, b) \/ onSegment(a, b, c) \/ onSegment(a, b, d)
  BY TouchOnLine DEF Touch
<1>. HIDE DEF e, f, g, h
<1>11. (e = 0 /\ f = 0) <=> (g = 0 /\ h = 0)
  <2>1. (e > 0 /\ f > 0) \/ (e < 0 /\ f < 0) => e * f > 0
    BY <1>1
  <2>2. (g > 0 /\ h > 0) \/ (g < 0 /\ h < 0) => g * h > 0
    BY <1>1
  <2>. QED
    BY <1>1, <1>4, <2>1, <2>2
<1>12. e # 0 /\ f # 0 => Opposite(e, f)
  <2>1. (e > 0 /\ f > 0) \/ (e < 0 /\ f < 0) => e * f > 0
    BY <1>1
  <2>. QED
    BY <1>1, <1>4, <2>1 DEF Opposite
<1>13. g # 0 /\ h # 0 => Opposite(g, h)
  <2>1. (g > 0 /\ h > 0) \/ (g < 0 /\ h < 0) => g * h > 0
    BY <1>1
  <2>. QED
    BY <1>1, <1>4, <2>1 DEF Opposite
<1>14. \/ Opposite(e, f) /\ Opposite(g, h)
       \/ e = 0 /\ onSegment(c, d, a)
       \/ f = 0 /\ onSegment(c, d, b)
       \/ g = 0 /\ onSegment(a, b, c)
       \/ h = 0 /\ onSegment(a, b, d)
  BY <1>6, <1>7, <1>8, <1>9, <1>10, <1>11, <1>12, <1>13
<1>. QED
  BY <1>14 DEF intersectLines, e, f, g, h

\* The weights of a point on a segment
Weighs(r, s, a, b, x) == (r + s) * x = r * a + s * b

\* Steps in proportion: x is to a as x2 is to a2.
AsFar(a, b, x, a2, b2, x2) == (x - a) * (b2 - a2) = (b - a) * (x2 - a2)

LEMMA WeightsOf ==
  ASSUME NEW a, NEW b, NEW x, NEW a2, NEW b2, NEW x2,
         a \in Int, b \in Int, x \in Int, a2 \in Int, b2 \in Int, x2 \in Int,
         a # b, Between(a, b, x), AsFar(a, b, x, a2, b2, x2)
  PROVE  \E r, s \in Nat : r + s > 0 /\ Weighs(r, s, a, b, x) /\ Weighs(r, s, a2, b2, x2)
<1>0. (x - a) * (b2 - a2) = (b - a) * (x2 - a2)
  BY DEF AsFar
<1>1. CASE a < b
  <2>. DEFINE r == b - x
              s == x - a
  <2>1. r \in Nat /\ s \in Nat /\ r + s = b - a /\ r + s > 0
    BY <1>1 DEF Between
  <2>2. (b - a) * x = (b - x) * a + (x - a) * b
    OBVIOUS
  <2>3. (b - a) * x2 = (b - x) * a2 + (x - a) * b2
    <3>1. /\ (b - a) * (x2 - a2) = (b - a) * x2 - (b - a) * a2
          /\ (x - a) * (b2 - a2) = (x - a) * b2 - (x - a) * a2
          /\ (b - a) * a2 - (x - a) * a2 = (b - x) * a2
      OBVIOUS
    <3>2. (b - a) * x2 \in Int /\ (b - a) * a2 \in Int /\ (x - a) * b2 \in Int /\ (x - a) * a2 \in Int /\ (b - x) * a2 \in Int
      OBVIOUS
    <3>. QED
      BY <1>0, <3>1, <3>2
  <2>4. Weighs(r, s, a, b, x) /\ Weighs(r, s, a2, b2, x2)
    BY <2>1, <2>2, <2>3 DEF Weighs
  <2>. HIDE DEF r, s
  <2>. QED
    BY <2>1, <2>4
<1>2. CASE b < a
  <2>. DEFINE r == x - b
              s == a - x
  <2>1. r \in Nat /\ s \in Nat /\ r + s = a - b /\ r + s > 0
    BY <1>2 DEF Between
  <2>2. (a - b) * x = (x - b) * a + (a - x) * b
    OBVIOUS
  <2>3. (a - b) * x2 = (x - b) * a2 + (a - x) * b2
    <3>1. /\ (b - a) * (x2 - a2) = (a - b) * a2 - (a - b) * x2
          /\ (x - a) * (b2 - a2) = (a - x) * a2 - (a - x) * b2
          /\ (a - b) * a2 - (a - x) * a2 = (x - b) * a2
      OBVIOUS
    <3>2. (a - b) * x2 \in Int /\ (a - b) * a2 \in Int /\ (a - x) * b2 \in Int /\ (a - x) * a2 \in Int /\ (x - b) * a2 \in Int
      OBVIOUS
    <3>. QED
      BY <1>0, <3>1, <3>2
  <2>4. Weighs(r, s, a, b, x) /\ Weighs(r, s, a2, b2, x2)
    BY <2>1, <2>2, <2>3 DEF Weighs
  <2>. HIDE DEF r, s
  <2>. QED
    BY <2>1, <2>4
<1>. QED
  BY <1>1, <1>2

\* A point on a segment is a mean of its ends.
LEMMA OnSegmentMean ==
  ASSUME NEW a \in Vectors, NEW b \in Vectors, NEW x \in Vectors, direction(a, b, x) = 0, onSegment(a, b, x)
  PROVE  \E r, s \in Nat : r + s > 0 /\ Weighs(r, s, a[1], b[1], x[1]) /\ Weighs(r, s, a[2], b[2], x[2])
<1>1. /\ a[1] \in Int /\ a[2] \in Int /\ b[1] \in Int /\ b[2] \in Int /\ x[1] \in Int /\ x[2] \in Int
  BY DEF Vectors
<1>2. Between(a[1], b[1], x[1]) /\ Between(a[2], b[2], x[2])
  BY DEF onSegment
<1>3. (x[1] - a[1]) * (b[2] - a[2]) - (b[1] - a[1]) * (x[2] - a[2]) = 0
  BY DEF direction, crossProduct, Vec_subtract
<1>4. \A t, u, v, w \in Int : t * u - v * w = 0 => t * u = v * w /\ w * v = u * t
  OBVIOUS
<1>5. /\ (x[1] - a[1]) * (b[2] - a[2]) = (b[1] - a[1]) * (x[2] - a[2])
      /\ (x[2] - a[2]) * (b[1] - a[1]) = (b[2] - a[2]) * (x[1] - a[1])
  <2>1. x[1] - a[1] \in Int /\ b[2] - a[2] \in Int /\ b[1] - a[1] \in Int /\ x[2] - a[2] \in Int
    BY <1>1
  <2>. QED
    BY <1>3, <1>4, <2>1
<1>6. CASE a[1] # b[1]
  <2>1. AsFar(a[1], b[1], x[1], a[2], b[2], x[2])
    BY <1>5 DEF AsFar
  <2>. QED
    BY <1>1, <1>2, <1>6, <2>1, WeightsOf
<1>7. CASE a[2] # b[2]
  <2>1. AsFar(a[2], b[2], x[2], a[1], b[1], x[1])
    BY <1>5 DEF AsFar
  <2>2. \E r, s \in Nat : r + s > 0 /\ Weighs(r, s, a[2], b[2], x[2]) /\ Weighs(r, s, a[1], b[1], x[1])
    BY <1>1, <1>2, <1>7, <2>1, WeightsOf
  <2>. QED
    BY <2>2
<1>8. CASE a[1] = b[1] /\ a[2] = b[2]
  <2>1. x[1] = a[1] /\ x[2] = a[2]
    BY <1>1, <1>2, <1>8 DEF Between
  <2>2. Weighs(1, 0, a[1], b[1], x[1]) /\ Weighs(1, 0, a[2], b[2], x[2])
    BY <1>1, <2>1 DEF Weighs
  <2>3. 1 \in Nat /\ 0 \in Nat /\ 1 + 0 > 0
    OBVIOUS
  <2>. QED
    BY <2>2, <2>3
<1>. QED
  BY <1>6, <1>7, <1>8

LEMMA EndShared ==
  ASSUME NEW a \in Vectors, NEW b \in Vectors, NEW c \in Vectors, NEW d \in Vectors,
         direction(c, d, a) = 0, onSegment(c, d, a)
  PROVE  \E m, r, s \in Nat : Shared(a, b, c, d, m, 0, r, s)
<1>1. PICK r, s \in Nat : r + s > 0 /\ Weighs(r, s, c[1], d[1], a[1]) /\ Weighs(r, s, c[2], d[2], a[2])
  BY OnSegmentMean
<1>2. /\ a[1] \in Int /\ a[2] \in Int /\ b[1] \in Int /\ b[2] \in Int
      /\ c[1] \in Int /\ c[2] \in Int /\ d[1] \in Int /\ d[2] \in Int
  BY DEF Vectors
<1>3. (r + s) * a[1] + 0 * b[1] = r * c[1] + s * d[1] /\ (r + s) * a[2] + 0 * b[2] = r * c[2] + s * d[2]
  <2>1. (r + s) * a[1] = r * c[1] + s * d[1] /\ (r + s) * a[2] = r * c[2] + s * d[2]
    BY <1>1 DEF Weighs
  <2>2. 0 * b[1] = 0 /\ 0 * b[2] = 0 /\ (r + s) * a[1] \in Int /\ (r + s) * a[2] \in Int
    BY <1>2
  <2>. QED
    BY <2>1, <2>2
<1>4. r + s \in Nat /\ 0 \in Nat /\ (r + s) + 0 = r + s /\ (r + s) + 0 > 0
  BY <1>1
<1>5. Shared(a, b, c, d, r + s, 0, r, s)
  BY <1>1, <1>3, <1>4 DEF Shared
<1>. QED
  BY <1>4, <1>5

\* What intersects has a point in common.
LEMMA IntersectHasPoint ==
  ASSUME NEW a \in Vectors, NEW b \in Vectors, NEW c \in Vectors, NEW d \in Vectors, intersectLines(a, b, c, d)
  PROVE  HavePoint(a, b, c, d)
<1>. DEFINE e == direction(c, d, a)
            f == direction(c, d, b)
            g == direction(a, b, c)
            h == direction(a, b, d)
<1>1. e \in Int /\ f \in Int /\ g \in Int /\ h \in Int /\ e - f = h - g /\ e * b[1] - f * a[1] = h * c[1] - g * d[1]
  BY CrossingOf
<1>2. e * b[2] - f * a[2] = h * c[2] - g * d[2]
  BY CrossingSecond
<1>3. /\ a[1] \in Int /\ a[2] \in Int /\ b[1] \in Int /\ b[2] \in Int
      /\ c[1] \in Int /\ c[2] \in Int /\ d[1] \in Int /\ d[2] \in Int
  BY DEF Vectors
<1>4. \/ Opposite(e, f) /\ Opposite(g, h)
      \/ e = 0 /\ onSegment(c, d, a)
      \/ f = 0 /\ onSegment(c, d, b)
      \/ g = 0 /\ onSegment(a, b, c)
      \/ h = 0 /\ onSegment(a, b, d)
  BY DEF intersectLines
<1>5. CASE e = 0 /\ onSegment(c, d, a)
  BY <1>5, EndShared DEF HavePoint
<1>6. CASE f = 0 /\ onSegment(c, d, b)
  <2>1. PICK m, r, s \in Nat : Shared(b, a, c, d, m, 0, r, s)
    BY <1>6, EndShared
  <2>2. Shared(a, b, c, d, 0, m, r, s)
    BY <2>1, SharedSwapped
  <2>. QED
    BY <2>1, <2>2 DEF HavePoint
<1>7. CASE g = 0 /\ onSegment(a, b, c)
  <2>1. PICK m, r, s \in Nat : Shared(c, d, a, b, m, 0, r, s)
    BY <1>7, EndShared
  <2>2. Shared(a, b, c, d, r, s, m, 0)
    BY <2>1, SharedSwapped
  <2>. QED
    BY <2>1, <2>2 DEF HavePoint
<1>8. CASE h = 0 /\ onSegment(a, b, d)
  <2>1. PICK m, r, s \in Nat : Shared(d, c, a, b, m, 0, r, s)
    BY <1>8, EndShared
  <2>2. Shared(c, d, a, b, 0, m, r, s)
    BY <2>1, SharedSwapped
  <2>3. Shared(a, b, c, d, r, s, 0, m)
    BY <2>2, SharedSwapped
  <2>. QED
    BY <2>1, <2>3 DEF HavePoint
<1>9. CASE Opposite(e, f) /\ Opposite(g, h)
  <2>. HIDE DEF e, f, g, h
  <2>1. \/ e > 0 /\ 0 - f > 0 /\ h > 0 /\ 0 - g > 0
        \/ 0 - e > 0 /\ f > 0 /\ 0 - h > 0 /\ g > 0
    BY <1>1, <1>9 DEF Opposite
  <2>2. ASSUME e > 0, 0 - f > 0, h > 0, 0 - g > 0
        PROVE  Shared(a, b, c, d, 0 - f, e, h, 0 - g)
    <3>1. ASSUME NEW t \in Int, NEW u \in Int, NEW v \in Int, NEW w \in Int, e * u - f * t = h * v - g * w
          PROVE  (0 - f) * t + e * u = h * v + (0 - g) * w
      <4>1. /\ (0 - f) * t = 0 - f * t /\ (0 - g) * w = 0 - g * w
            /\ f * t \in Int /\ g * w \in Int /\ e * u \in Int /\ h * v \in Int
        BY <1>1
      <4>. QED
        BY <3>1, <4>1
    <3>2. (0 - f) * a[1] + e * b[1] = h * c[1] + (0 - g) * d[1] /\ (0 - f) * a[2] + e * b[2] = h * c[2] + (0 - g) * d[2]
      <4>1. e * b[1] - f * a[1] = h * c[1] - g * d[1]
        BY <1>1
      <4>2. (0 - f) * a[1] + e * b[1] = h * c[1] + (0 - g) * d[1]
        BY <1>3, <3>1, <4>1
      <4>3. (0 - f) * a[2] + e * b[2] = h * c[2] + (0 - g) * d[2]
        BY <1>3, <3>1, <1>2
      <4>. QED
        BY <4>2, <4>3
    <3>3. 0 - f \in Nat /\ e \in Nat /\ h \in Nat /\ 0 - g \in Nat /\ (0 - f) + e = h + (0 - g) /\ (0 - f) + e > 0
      BY <1>1, <2>2
    <3>. QED
      BY <3>2, <3>3 DEF Shared
  <2>3. ASSUME 0 - e > 0, f > 0, 0 - h > 0, g > 0
        PROVE  Shared(a, b, c, d, f, 0 - e, 0 - h, g)
    <3>1. ASSUME NEW t \in Int, NEW u \in Int, NEW v \in Int, NEW w \in Int, e * u - f * t = h * v - g * w
          PROVE  f * t + (0 - e) * u = (0 - h) * v + g * w
      <4>1. /\ (0 - e) * u = 0 - e * u /\ (0 - h) * v = 0 - h * v
            /\ f * t \in Int /\ g * w \in Int /\ e * u \in Int /\ h * v \in Int
        BY <1>1
      <4>. QED
        BY <3>1, <4>1
    <3>2. f * a[1] + (0 - e) * b[1] = (0 - h) * c[1] + g * d[1] /\ f * a[2] + (0 - e) * b[2] = (0 - h) * c[2] + g * d[2]
      <4>1. e * b[1] - f * a[1] = h * c[1] - g * d[1]
        BY <1>1
      <4>2. f * a[1] + (0 - e) * b[1] = (0 - h) * c[1] + g * d[1]
        BY <1>3, <3>1, <4>1
      <4>3. f * a[2] + (0 - e) * b[2] = (0 - h) * c[2] + g * d[2]
        BY <1>3, <3>1, <1>2
      <4>. QED
        BY <4>2, <4>3
    <3>3. f \in Nat /\ 0 - e \in Nat /\ 0 - h \in Nat /\ g \in Nat /\ f + (0 - e) = (0 - h) + g /\ f + (0 - e) > 0
      BY <1>1, <2>3
    <3>. QED
      BY <3>2, <3>3 DEF Shared
  <2>4. /\ 0 - f > 0 => 0 - f \in Nat
        /\ 0 - e > 0 => 0 - e \in Nat
        /\ 0 - h > 0 => 0 - h \in Nat
        /\ 0 - g > 0 => 0 - g \in Nat
        /\ e > 0 => e \in Nat
        /\ f > 0 => f \in Nat
        /\ g > 0 => g \in Nat
        /\ h > 0 => h \in Nat
    BY <1>1
  <2>. QED
    BY <2>1, <2>2, <2>3, <2>4 DEF HavePoint
<1>. QED
  BY <1>4, <1>5, <1>6, <1>7, <1>8, <1>9

\* The three ways to say that segments meet
LEMMA SameMeeting ==
  ASSUME NEW a \in Vectors, NEW b \in Vectors, NEW c \in Vectors, NEW d \in Vectors
  PROVE  /\ intersectLines(a, b, c, d) <=> HavePoint(a, b, c, d)
         /\ Touch(a, b, c, d) <=> HavePoint(a, b, c, d)
  BY PointTouches, TouchIntersects, IntersectHasPoint

\* One coordinate of a common point of the segments from a to b and from c to d
\* after k/n of the shift v of the second one
Meets1(a, b, c, d, v, n, k, p, q, r, s) == n * (p * a + q * b) = n * (r * c + s * d) + (p + q) * (k * v)

\* The same, seen from outside
Moving1(a, b, c, d, x, y, n, k, p, q, r, s) ==
  p * (n * a + k * x) + q * (n * b + k * x) = r * (n * c + k * y) + s * (n * d + k * y)

\* The weights of a common point after k/n of the shift
Reaches(a, b, c, d, v, n, k, p, q, r, s) ==
  /\ p \in Nat /\ q \in Nat /\ r \in Nat /\ s \in Nat /\ p + q = r + s /\ p + q > 0
  /\ Meets1(a[1], b[1], c[1], d[1], v[1], n, k, p, q, r, s)
  /\ Meets1(a[2], b[2], c[2], d[2], v[2], n, k, p, q, r, s)

\* One coordinate, seen from outside and from the first line
LEMMA SeenFromFirst ==
  ASSUME NEW a, NEW b, NEW c, NEW d, NEW x, NEW y, NEW v, NEW n, NEW k, NEW p, NEW q, NEW r, NEW s,
         a \in Int, b \in Int, c \in Int, d \in Int, x \in Int, y \in Int, v = y - x,
         n \in Int, k \in Int, p \in Int, q \in Int, r \in Int, s \in Int, p + q = r + s
  PROVE  Moving1(a, b, c, d, x, y, n, k, p, q, r, s) <=> Meets1(a, b, c, d, v, n, k, p, q, r, s)
<1>1. p * (n * a + k * x) + q * (n * b + k * x) = n * (p * a + q * b) + (p + q) * (k * x)
  OBVIOUS
<1>2. r * (n * c + k * y) + s * (n * d + k * y) = n * (r * c + s * d) + (r + s) * (k * y)
  OBVIOUS
<1>3. (p + q) * (k * (y - x)) = (p + q) * (k * y) - (p + q) * (k * x)
  OBVIOUS
<1>4. /\ n * (p * a + q * b) \in Int /\ n * (r * c + s * d) \in Int
      /\ (p + q) * (k * x) \in Int /\ (p + q) * (k * y) \in Int
  OBVIOUS
<1>5. (r + s) * (k * y) = (p + q) * (k * y)
  OBVIOUS
<1>. QED
  BY <1>1, <1>2, <1>3, <1>4, <1>5 DEF Meets1, Moving1

LEMMA AtShared ==
  ASSUME NEW a \in Vectors, NEW b \in Vectors, NEW c \in Vectors, NEW d \in Vectors, NEW x \in Vectors, NEW y \in Vectors,
         NEW n \in Int, NEW k \in Int, NEW p, NEW q, NEW r, NEW s
  PROVE  Shared(At(a, x, k, n), At(b, x, k, n), At(c, y, k, n), At(d, y, k, n), p, q, r, s)
           <=> Reaches(a, b, c, d, Vec_subtract(y, x), n, k, p, q, r, s)
<1>1. /\ a[1] \in Int /\ a[2] \in Int /\ b[1] \in Int /\ b[2] \in Int
      /\ c[1] \in Int /\ c[2] \in Int /\ d[1] \in Int /\ d[2] \in Int
      /\ x[1] \in Int /\ x[2] \in Int /\ y[1] \in Int /\ y[2] \in Int
  BY DEF Vectors
<1>2. /\ Vec_subtract(y, x)[1] = y[1] - x[1] /\ Vec_subtract(y, x)[2] = y[2] - x[2]
      /\ \A u, w \in Vectors : At(u, w, k, n)[1] = n * u[1] + k * w[1] /\ At(u, w, k, n)[2] = n * u[2] + k * w[2]
  BY DEF Vec_subtract, At, Vec_add, Vec_multiply
<1>. SUFFICES ASSUME p \in Nat, q \in Nat, r \in Nat, s \in Nat, p + q = r + s
              PROVE  Shared(At(a, x, k, n), At(b, x, k, n), At(c, y, k, n), At(d, y, k, n), p, q, r, s)
                       <=> Reaches(a, b, c, d, Vec_subtract(y, x), n, k, p, q, r, s)
  BY DEF Shared, Reaches
<1>3. Moving1(a[1], b[1], c[1], d[1], x[1], y[1], n, k, p, q, r, s)
        <=> Meets1(a[1], b[1], c[1], d[1], y[1] - x[1], n, k, p, q, r, s)
  BY <1>1, SeenFromFirst
<1>4. Moving1(a[2], b[2], c[2], d[2], x[2], y[2], n, k, p, q, r, s)
        <=> Meets1(a[2], b[2], c[2], d[2], y[2] - x[2], n, k, p, q, r, s)
  BY <1>1, SeenFromFirst
<1>. QED
  BY <1>2, <1>3, <1>4 DEF Shared, Reaches, Moving1

\* Some time of the step with this denominator
ReachesIn(a, b, c, d, v, n) == \E k \in 0..n : \E p, q, r, s \in Nat : Reaches(a, b, c, d, v, n, k, p, q, r, s)

\* Lines meet when they have a common point at one of the times.
LEMMA MeetReaches ==
  ASSUME NEW l1 \in Line, NEW l2 \in Line, \A n \in Denominators(l1, l2) : n \in Nat
  PROVE  Meet(l1, l2) <=> \E n \in Denominators(l1, l2) :
                            ReachesIn(l1.p1, l1.p2, l2.p1, l2.p2, Vec_subtract(l2.velocity, l1.velocity), n)
<1>. DEFINE a == l1.p1
            b == l1.p2
            c == l2.p1
            d == l2.p2
            x == l1.velocity
            y == l2.velocity
<1>1. a \in Vectors /\ b \in Vectors /\ c \in Vectors /\ d \in Vectors /\ x \in Vectors /\ y \in Vectors
  BY DEF Line
<1>2. ASSUME NEW n \in Denominators(l1, l2), NEW k \in 0..n
      PROVE  Touch(At(a, x, k, n), At(b, x, k, n), At(c, y, k, n), At(d, y, k, n))
               <=> \E p, q, r, s \in Nat : Reaches(a, b, c, d, Vec_subtract(y, x), n, k, p, q, r, s)
  <2>1. n \in Int /\ k \in Int
    OBVIOUS
  <2>2. \A u, w \in Vectors : At(u, w, k, n) \in Vectors
    BY <2>1 DEF At, Vec_add, Vec_multiply, Vectors
  <2>3. /\ At(a, x, k, n) \in Vectors /\ At(b, x, k, n) \in Vectors
        /\ At(c, y, k, n) \in Vectors /\ At(d, y, k, n) \in Vectors
    BY <1>1, <2>2
  <2>4. Touch(At(a, x, k, n), At(b, x, k, n), At(c, y, k, n), At(d, y, k, n))
          <=> HavePoint(At(a, x, k, n), At(b, x, k, n), At(c, y, k, n), At(d, y, k, n))
    BY <2>3, SameMeeting
  <2>5. \A p, q, r, s \in Nat : Shared(At(a, x, k, n), At(b, x, k, n), At(c, y, k, n), At(d, y, k, n), p, q, r, s)
                                  <=> Reaches(a, b, c, d, Vec_subtract(y, x), n, k, p, q, r, s)
    BY <1>1, <2>1, AtShared
  <2>. QED
    BY <2>4, <2>5 DEF HavePoint
<1>3. Meet(l1, l2) <=> \E n \in Denominators(l1, l2) : \E k \in 0..n :
                         Touch(At(a, x, k, n), At(b, x, k, n), At(c, y, k, n), At(d, y, k, n))
  BY DEF Meet
<1>. HIDE DEF a, b, c, d, x, y
<1>4. Meet(l1, l2) <=> \E n \in Denominators(l1, l2) : ReachesIn(a, b, c, d, Vec_subtract(y, x), n)
  BY <1>2, <1>3 DEF ReachesIn
<1>. QED
  BY <1>4 DEF a, b, c, d, x, y

\* One coordinate of the moment at which a point is on a segment: x and y are
\* the ends of the segment, seen from the point, and v is its shift.
Hits1(x, y, v, n, k, p, q) == n * (p * x + q * y) = (p + q) * (k * v)

\* Both coordinates
Hits(x, y, v, x2, y2, v2, n, k, p, q) ==
  /\ p \in Nat /\ q \in Nat /\ p + q > 0
  /\ Hits1(x, y, v, n, k, p, q) /\ Hits1(x2, y2, v2, n, k, p, q)

\* It is on the segment at r/(p+q) of its shift.
Passes(x, y, v, x2, y2, v2, p, q, r) ==
  /\ p \in Nat /\ q \in Nat /\ r \in Nat /\ p + q > 0 /\ r <= p + q
  /\ p * x + q * y = r * v /\ p * x2 + q * y2 = r * v2

\* The shift and the segment have the same direction.
Alongside(x, y, v, x2, y2, v2) == v * (x2 - y2) = (x - y) * v2

LEMMA EndsOnPath ==
  ASSUME NEW x \in Int, NEW y \in Int, NEW v \in Int, NEW x2 \in Int, NEW y2 \in Int, NEW v2 \in Int,
         NEW p, NEW q, NEW r, Passes(x, y, v, x2, y2, v2, p, q, r), Alongside(x, y, v, x2, y2, v2)
  PROVE  v * x2 = x * v2 /\ v * y2 = y * v2
<1>. DEFINE t == v * x2 - x * v2
<1>1. v * y2 - y * v2 = t
  <2>1. v * (x2 - y2) = v * x2 - v * y2 /\ (x - y) * v2 = x * v2 - y * v2
    OBVIOUS
  <2>2. v * x2 \in Int /\ v * y2 \in Int /\ x * v2 \in Int /\ y * v2 \in Int
    OBVIOUS
  <2>. QED
    BY <2>1, <2>2 DEF Alongside
<1>2. /\ p \in Nat /\ q \in Nat /\ r \in Nat /\ p + q > 0
      /\ p * x + q * y = r * v /\ p * x2 + q * y2 = r * v2
  BY DEF Passes
<1>3. v * (p * x2 + q * y2) = (p * x + q * y) * v2
  <2>1. v * (r * v2) = (r * v) * v2
    BY <1>2
  <2>. QED
    BY <1>2, <2>1
<1>4. p * t + q * (v * y2 - y * v2) = v * (p * x2 + q * y2) - (p * x + q * y) * v2
  BY <1>2
<1>5. v * (p * x2 + q * y2) \in Int /\ t \in Int
  BY <1>2
<1>6. p * t + q * t = 0
  BY <1>1, <1>3, <1>4, <1>5
<1>7. (p + q) * t = p * t + q * t
  BY <1>2, <1>5
<1>8. t = 0
  <2>. HIDE DEF t
  <2>. QED
    BY <1>2, <1>5, <1>6, <1>7
<1>9. v * x2 \in Int /\ x * v2 \in Int /\ v * y2 \in Int /\ y * v2 \in Int
  OBVIOUS
<1>. QED
  BY <1>1, <1>8, <1>9

\* A point that moves along the segment meets an end of it, or begins on it.
LEMMA PathForward ==
  ASSUME NEW x \in Int, NEW y \in Int, NEW v \in Int, NEW x2 \in Int, NEW y2 \in Int, NEW v2 \in Int,
         NEW p, NEW q, NEW r, Passes(x, y, v, x2, y2, v2, p, q, r), Alongside(x, y, v, x2, y2, v2), v > 0
  PROVE  \/ \E m, h \in Nat : Hits(x, y, v, x2, y2, v2, 1, 0, m, h)
         \/ \E k \in 0..v : \E m, h \in Nat : Hits(x, y, v, x2, y2, v2, v, k, m, h)
<1>1. v * x2 = x * v2 /\ v * y2 = y * v2
  BY EndsOnPath
<1>2. CASE 0 <= x /\ x <= v
  <2>1. Hits1(x, y, v, v, x, 1, 0)
    BY DEF Hits1
  <2>2. v * (1 * x2 + 0 * y2) = v * x2 /\ (1 + 0) * (x * v2) = x * v2
    OBVIOUS
  <2>3. Hits1(x2, y2, v2, v, x, 1, 0)
    BY <1>1, <2>2 DEF Hits1
  <2>4. 1 \in Nat /\ 0 \in Nat /\ 1 + 0 > 0 /\ x \in 0..v
    BY <1>2
  <2>. QED
    BY <2>1, <2>3, <2>4 DEF Hits
<1>3. CASE 0 <= y /\ y <= v
  <2>1. Hits1(x, y, v, v, y, 0, 1)
    BY DEF Hits1
  <2>2. v * (0 * x2 + 1 * y2) = v * y2 /\ (0 + 1) * (y * v2) = y * v2
    OBVIOUS
  <2>3. Hits1(x2, y2, v2, v, y, 0, 1)
    BY <1>1, <2>2 DEF Hits1
  <2>4. 1 \in Nat /\ 0 \in Nat /\ 0 + 1 > 0 /\ y \in 0..v
    BY <1>3
  <2>. QED
    BY <2>1, <2>3, <2>4 DEF Hits
<1>4. y * x2 - x * y2 = 0
  <2>1. v * (y * x2 - x * y2) = y * (v * x2) - x * (v * y2)
    OBVIOUS
  <2>2. y * (x * v2) - x * (y * v2) = 0
    OBVIOUS
  <2>3. v * (y * x2 - x * y2) = 0
    BY <1>1, <2>1, <2>2
  <2>4. y * x2 - x * y2 \in Int
    OBVIOUS
  <2>. QED
    BY <2>3, <2>4
<1>5. CASE x < 0 /\ y > 0
  <2>1. Hits1(x, y, v, 1, 0, y, 0 - x)
    BY DEF Hits1
  <2>2. 1 * (y * x2 + (0 - x) * y2) = y * x2 - x * y2 /\ (y + (0 - x)) * (0 * v2) = 0
    OBVIOUS
  <2>3. Hits1(x2, y2, v2, 1, 0, y, 0 - x)
    BY <1>4, <2>2 DEF Hits1
  <2>4. y \in Nat /\ 0 - x \in Nat /\ y + (0 - x) > 0
    BY <1>5
  <2>. QED
    BY <2>1, <2>3, <2>4 DEF Hits
<1>6. CASE y < 0 /\ x > 0
  <2>1. Hits1(x, y, v, 1, 0, 0 - y, x)
    BY DEF Hits1
  <2>2. 1 * ((0 - y) * x2 + x * y2) = 0 - (y * x2 - x * y2) /\ ((0 - y) + x) * (0 * v2) = 0
    OBVIOUS
  <2>3. Hits1(x2, y2, v2, 1, 0, 0 - y, x)
    BY <1>4, <2>2 DEF Hits1
  <2>4. 0 - y \in Nat /\ x \in Nat /\ (0 - y) + x > 0
    BY <1>6
  <2>. QED
    BY <2>1, <2>3, <2>4 DEF Hits
<1>7. /\ p \in Nat /\ q \in Nat /\ r \in Nat /\ p + q > 0 /\ r <= p + q /\ p * x + q * y = r * v
  BY DEF Passes
<1>8. ~(x < 0 /\ y < 0)
  <2>. SUFFICES ASSUME x < 0, y < 0
                PROVE  FALSE
    OBVIOUS
  <2>1. p * x <= 0 /\ q * y <= 0 /\ (p > 0 => p * x < 0) /\ (q > 0 => q * y < 0) /\ r * v >= 0
    BY <1>7
  <2>2. p > 0 \/ q > 0
    BY <1>7
  <2>3. p * x \in Int /\ q * y \in Int /\ r * v \in Int
    BY <1>7
  <2>. QED
    BY <1>7, <2>1, <2>2, <2>3
<1>9. ~(x > v /\ y > v)
  <2>. SUFFICES ASSUME x > v, y > v
                PROVE  FALSE
    OBVIOUS
  <2>1. /\ p * (x - v) >= 0 /\ q * (y - v) >= 0 /\ (p > 0 => p * (x - v) > 0) /\ (q > 0 => q * (y - v) > 0)
        /\ ((p + q) - r) * v >= 0
    BY <1>7
  <2>2. p > 0 \/ q > 0
    BY <1>7
  <2>3. p * (x - v) + q * (y - v) + ((p + q) - r) * v = p * x + q * y - r * v
    BY <1>7
  <2>4. p * (x - v) \in Int /\ q * (y - v) \in Int /\ ((p + q) - r) * v \in Int /\ r * v \in Int
    BY <1>7
  <2>. QED
    BY <1>7, <2>1, <2>2, <2>3, <2>4
<1>. QED
  BY <1>2, <1>3, <1>5, <1>6, <1>8, <1>9

LEMMA HitsBackward ==
  ASSUME NEW x \in Int, NEW y \in Int, NEW v \in Int, NEW x2 \in Int, NEW y2 \in Int, NEW v2 \in Int,
         NEW n \in Int, NEW k \in Int, NEW p, NEW q,
         Hits(0 - x, 0 - y, 0 - v, 0 - x2, 0 - y2, 0 - v2, n, k, p, q)
  PROVE  Hits(x, y, v, x2, y2, v2, n, k, p, q)
<1>1. /\ p \in Nat /\ q \in Nat /\ p + q > 0
      /\ n * (p * (0 - x) + q * (0 - y)) = (p + q) * (k * (0 - v))
      /\ n * (p * (0 - x2) + q * (0 - y2)) = (p + q) * (k * (0 - v2))
  BY DEF Hits, Hits1
<1>2. ASSUME NEW t \in Int, NEW u \in Int, NEW w \in Int, n * (p * (0 - t) + q * (0 - u)) = (p + q) * (k * (0 - w))
      PROVE  Hits1(t, u, w, n, k, p, q)
  <2>1. n * (p * (0 - t) + q * (0 - u)) = 0 - n * (p * t + q * u)
    BY <1>1
  <2>2. (p + q) * (k * (0 - w)) = 0 - (p + q) * (k * w)
    BY <1>1
  <2>3. n * (p * t + q * u) \in Int /\ (p + q) * (k * w) \in Int
    BY <1>1
  <2>. QED
    BY <1>2, <2>1, <2>2, <2>3 DEF Hits1
<1>3. Hits1(x, y, v, n, k, p, q)
  BY <1>1, <1>2
<1>4. Hits1(x2, y2, v2, n, k, p, q)
  BY <1>1, <1>2
<1>. QED
  BY <1>1, <1>3, <1>4 DEF Hits

LEMMA PathAlong ==
  ASSUME NEW x, NEW y, NEW v, NEW x2, NEW y2, NEW v2, x \in Int, y \in Int, v \in Int, x2 \in Int, y2 \in Int, v2 \in Int,
         NEW p, NEW q, NEW r, Passes(x, y, v, x2, y2, v2, p, q, r), Alongside(x, y, v, x2, y2, v2), v # 0
  PROVE  \/ \E m, h \in Nat : Hits(x, y, v, x2, y2, v2, 1, 0, m, h)
         \/ \E k \in 0..Abs(v) : \E m, h \in Nat : Hits(x, y, v, x2, y2, v2, Abs(v), k, m, h)
<1>1. CASE v > 0
  <2>1. Abs(v) = v
    BY <1>1 DEF Abs
  <2>. QED
    BY <1>1, <2>1, PathForward
<1>2. CASE v < 0
  <2>1. Abs(v) = 0 - v /\ 0 - v > 0 /\ 0 - v \in Int
    BY <1>2 DEF Abs
  <2>2. Passes(0 - x, 0 - y, 0 - v, 0 - x2, 0 - y2, 0 - v2, p, q, r)
    <3>1. /\ p \in Nat /\ q \in Nat /\ r \in Nat /\ p + q > 0 /\ r <= p + q
          /\ p * x + q * y = r * v /\ p * x2 + q * y2 = r * v2
      BY DEF Passes
    <3>2. ASSUME NEW t \in Int, NEW u \in Int, NEW w \in Int, p * t + q * u = r * w
          PROVE  p * (0 - t) + q * (0 - u) = r * (0 - w)
      <4>1. p * (0 - t) + q * (0 - u) = 0 - (p * t + q * u) /\ r * (0 - w) = 0 - r * w
        BY <3>1
      <4>. QED
        BY <3>2, <4>1
    <3>3. p * (0 - x) + q * (0 - y) = r * (0 - v)
      BY <3>1, <3>2
    <3>4. p * (0 - x2) + q * (0 - y2) = r * (0 - v2)
      BY <3>1, <3>2
    <3>. QED
      BY <3>1, <3>3, <3>4 DEF Passes
  <2>3. Alongside(0 - x, 0 - y, 0 - v, 0 - x2, 0 - y2, 0 - v2)
    <3>1. (0 - v) * ((0 - x2) - (0 - y2)) = v * (x2 - y2) /\ ((0 - x) - (0 - y)) * (0 - v2) = (x - y) * v2
      OBVIOUS
    <3>. QED
      BY <3>1 DEF Alongside
  <2>. DEFINE a == 0 - x
              b == 0 - y
              c == 0 - v
              a2 == 0 - x2
              b2 == 0 - y2
              c2 == 0 - v2
  <2>4. a \in Int /\ b \in Int /\ c \in Int /\ a2 \in Int /\ b2 \in Int /\ c2 \in Int /\ c > 0
    BY <2>1
  <2>5. Passes(a, b, c, a2, b2, c2, p, q, r) /\ Alongside(a, b, c, a2, b2, c2)
    BY <2>2, <2>3
  <2>6. \A n, k \in Int : \A m, h \in Nat : Hits(a, b, c, a2, b2, c2, n, k, m, h) => Hits(x, y, v, x2, y2, v2, n, k, m, h)
    BY HitsBackward
  <2>7. Abs(v) = c
    BY <2>1
  <2>. HIDE DEF a, b, c, a2, b2, c2
  <2>8. \/ \E m, h \in Nat : Hits(a, b, c, a2, b2, c2, 1, 0, m, h)
        \/ \E k \in 0..c : \E m, h \in Nat : Hits(a, b, c, a2, b2, c2, c, k, m, h)
    BY <2>4, <2>5, PathForward
  <2>9. 1 \in Int /\ 0 \in Int /\ \A k \in 0..c : k \in Int
    BY <2>4
  <2>. QED
    BY <2>4, <2>6, <2>7, <2>8, <2>9
<1>. QED
  BY <1>1, <1>2

\* A point that moves across the segment is on it at one time.
LEMMA PathAcross ==
  ASSUME NEW x, NEW y, NEW v, NEW x2, NEW y2, NEW v2, x \in Int, y \in Int, v \in Int, x2 \in Int, y2 \in Int, v2 \in Int,
         NEW p, NEW q, NEW r, Passes(x, y, v, x2, y2, v2, p, q, r),
         NEW t, t = v * (x2 - y2) - (x - y) * v2, t # 0
  PROVE  \E k \in 0..Abs(t) : \E m, h \in Nat : Hits(x, y, v, x2, y2, v2, Abs(t), k, m, h)
<1>. DEFINE w == p + q
            u == y * x2 - x * y2
<1>1. /\ p \in Nat /\ q \in Nat /\ r \in Nat /\ w > 0 /\ r <= w /\ w \in Nat
      /\ p * x + q * y = r * v /\ p * x2 + q * y2 = r * v2
  BY DEF Passes
<1>2. t \in Int /\ u \in Int
  OBVIOUS
<1>3. r * t = w * u
  <2>1. r * t = (r * v) * (x2 - y2) - (x - y) * (r * v2)
    BY <1>1
  <2>2. (p * x + q * y) * (x2 - y2) - (x - y) * (p * x2 + q * y2) = (p + q) * (y * x2 - x * y2)
    BY <1>1
  <2>. QED
    BY <1>1, <2>1, <2>2
<1>4. w * u - r * t = 0 /\ r * t \in Int /\ w * u \in Int
  BY <1>1, <1>2, <1>3
<1>5. ASSUME NEW g \in Int, NEW e \in Int, r * g = w * e, g > 0
      PROVE  e \in 0..g
  <2>1. e >= 0
    <3>. SUFFICES ASSUME e < 0
                  PROVE  FALSE
      OBVIOUS
    <3>1. w * e < 0 /\ r * g >= 0
      BY <1>1, <1>5
    <3>. QED
      BY <1>1, <1>5, <3>1
  <2>2. e <= g
    <3>. SUFFICES ASSUME e > g
                  PROVE  FALSE
      OBVIOUS
    <3>1. w * (e - g) > 0 /\ (w - r) * g >= 0
      BY <1>1, <1>5
    <3>2. w * (e - g) + (w - r) * g = w * e - r * g
      BY <1>1
    <3>3. w * e - r * g = 0 /\ w * (e - g) \in Int /\ (w - r) * g \in Int
      BY <1>1, <1>5
    <3>. QED
      BY <3>1, <3>2, <3>3
  <2>. QED
    BY <2>1, <2>2
<1>6. ASSUME NEW g \in Int, NEW e \in Int, r * g = w * e
      PROVE  Hits(x, y, v, x2, y2, v2, g, e, p, q)
  <2>1. ASSUME NEW z \in Int, NEW s \in Int, s = r * z
        PROVE  g * s = w * (e * z)
    <3>1. g * (r * z) = (r * g) * z
      BY <1>1
    <3>2. (w * e) * z = w * (e * z)
      BY <1>1
    <3>. QED
      BY <1>6, <2>1, <3>1, <3>2
  <2>2. p * x + q * y \in Int /\ p * x2 + q * y2 \in Int
    BY <1>1
  <2>3. g * (p * x + q * y) = w * (e * v)
    BY <1>1, <2>1, <2>2
  <2>4. g * (p * x2 + q * y2) = w * (e * v2)
    BY <1>1, <2>1, <2>2
  <2>. QED
    BY <1>1, <2>3, <2>4 DEF Hits, Hits1
<1>. HIDE DEF w, u
<1>7. CASE t > 0
  <2>1. Abs(t) = t
    BY <1>2, <1>7 DEF Abs
  <2>2. u \in 0..t
    BY <1>2, <1>3, <1>5, <1>7
  <2>3. Hits(x, y, v, x2, y2, v2, t, u, p, q)
    BY <1>2, <1>3, <1>6
  <2>. QED
    BY <1>1, <2>1, <2>2, <2>3
<1>8. CASE t < 0
  <2>1. Abs(t) = 0 - t /\ 0 - t > 0 /\ 0 - t \in Int /\ 0 - u \in Int
    BY <1>2, <1>8 DEF Abs
  <2>2. r * (0 - t) = w * (0 - u)
    <3>1. r * (0 - t) = 0 - r * t /\ w * (0 - u) = 0 - w * u
      BY <1>1, <1>2
    <3>. QED
      BY <1>3, <3>1
  <2>3. 0 - u \in 0..(0 - t)
    BY <1>5, <2>1, <2>2
  <2>4. Hits(x, y, v, x2, y2, v2, 0 - t, 0 - u, p, q)
    BY <1>6, <2>1, <2>2
  <2>. QED
    BY <1>1, <2>1, <2>3, <2>4
<1>. QED
  BY <1>2, <1>7, <1>8

\* The moment at which an end c that is shifted by v is on the segment from a to b
HitsEnd(a, b, c, v, n, k, p, q) ==
  Hits(a[1] - c[1], b[1] - c[1], v[1], a[2] - c[2], b[2] - c[2], v[2], n, k, p, q)

\* The denominators that this needs
Times(a, b, v) == {1} \cup {Abs(t) : t \in {v[1], v[2], crossProduct(v, Vec_subtract(a, b))} \ {0}}

LEMMA HitsTurned ==
  ASSUME NEW x, NEW y, NEW v, NEW x2, NEW y2, NEW v2, NEW n, NEW k, NEW p, NEW q,
         Hits(x2, y2, v2, x, y, v, n, k, p, q)
  PROVE  Hits(x, y, v, x2, y2, v2, n, k, p, q)
  BY DEF Hits

LEMMA EndOnPath ==
  ASSUME NEW a \in Vectors, NEW b \in Vectors, NEW c \in Vectors, NEW v \in Vectors, HavePoint(a, b, Vec_add(c, v), c)
  PROVE  \E n \in Times(a, b, v) : \E k \in 0..n : \E m, h \in Nat : HitsEnd(a, b, c, v, n, k, m, h)
<1>. DEFINE x  == a[1] - c[1]
            y  == b[1] - c[1]
            v1 == v[1]
            x2 == a[2] - c[2]
            y2 == b[2] - c[2]
            v2 == v[2]
            t  == v1 * (x2 - y2) - (x - y) * v2
<1>1. /\ a[1] \in Int /\ a[2] \in Int /\ b[1] \in Int /\ b[2] \in Int
      /\ c[1] \in Int /\ c[2] \in Int /\ v1 \in Int /\ v2 \in Int
  BY DEF Vectors
<1>2. x \in Int /\ y \in Int /\ x2 \in Int /\ y2 \in Int /\ t \in Int
  BY <1>1
<1>3. t = crossProduct(v, Vec_subtract(a, b))
  <2>1. x2 - y2 = a[2] - b[2] /\ x - y = a[1] - b[1]
    BY <1>1
  <2>. QED
    BY <2>1 DEF crossProduct, Vec_subtract
<1>4. PICK p, q, r, s \in Nat : Shared(a, b, Vec_add(c, v), c, p, q, r, s)
  BY DEF HavePoint
<1>5. Passes(x, y, v1, x2, y2, v2, p, q, r)
  <2>1. /\ p + q = r + s /\ p + q > 0
        /\ p * a[1] + q * b[1] = r * (c[1] + v1) + s * c[1]
        /\ p * a[2] + q * b[2] = r * (c[2] + v2) + s * c[2]
    BY <1>4 DEF Shared, Vec_add
  <2>. DEFINE P(e, f, g, u) == p * e + q * f = r * (g + u) + s * g
  <2>2. ASSUME NEW e \in Int, NEW f \in Int, NEW g \in Int, NEW u \in Int, P(e, f, g, u)
        PROVE  p * (e - g) + q * (f - g) = r * u
    <3>0. p * e + q * f = r * (g + u) + s * g
      BY <2>2
    <3>1. p * (e - g) + q * (f - g) = (p * e + q * f) - (p + q) * g
      OBVIOUS
    <3>2. r * (g + u) + s * g = r * u + (r + s) * g
      OBVIOUS
    <3>3. (p + q) * g = (r + s) * g /\ r * u \in Int /\ (p + q) * g \in Int
      BY <2>1
    <3>. QED
      BY <3>0, <3>1, <3>2, <3>3
  <2>3. p * x + q * y = r * v1
    <3>. DEFINE e == a[1]
                f == b[1]
                g == c[1]
                u == v[1]
    <3>1. e \in Int /\ f \in Int /\ g \in Int /\ u \in Int /\ P(e, f, g, u)
      BY <1>1, <2>1
    <3>2. x = e - g /\ y = f - g /\ v1 = u
      OBVIOUS
    <3>. HIDE DEF P, e, f, g, u, x, y, v1
    <3>3. p * (e - g) + q * (f - g) = r * u
      BY <2>2, <3>1
    <3>. QED
      BY <3>2, <3>3
  <2>4. p * x2 + q * y2 = r * v2
    <3>. DEFINE e == a[2]
                f == b[2]
                g == c[2]
                u == v[2]
    <3>1. e \in Int /\ f \in Int /\ g \in Int /\ u \in Int /\ P(e, f, g, u)
      BY <1>1, <2>1
    <3>2. x2 = e - g /\ y2 = f - g /\ v2 = u
      OBVIOUS
    <3>. HIDE DEF P, e, f, g, u, x2, y2, v2
    <3>3. p * (e - g) + q * (f - g) = r * u
      BY <2>2, <3>1
    <3>. QED
      BY <3>2, <3>3
  <2>5. r <= p + q
    BY <2>1
  <2>. QED
    BY <2>1, <2>3, <2>4, <2>5 DEF Passes
<1>6. \A n, k, m, h : Hits(x, y, v1, x2, y2, v2, n, k, m, h) => HitsEnd(a, b, c, v, n, k, m, h)
  BY DEF HitsEnd
<1>7. 1 \in Times(a, b, v) /\ 0 \in 0..1 /\ (v1 # 0 => Abs(v1) \in Times(a, b, v))
      /\ (v2 # 0 => Abs(v2) \in Times(a, b, v)) /\ (t # 0 => Abs(t) \in Times(a, b, v))
  BY <1>3 DEF Times
<1>8. t = 0 => Alongside(x, y, v1, x2, y2, v2) /\ Alongside(x2, y2, v2, x, y, v1)
  <2>1. v1 * (x2 - y2) \in Int /\ (x - y) * v2 \in Int
    BY <1>1
  <2>2. v2 * (x - y) = (x - y) * v2 /\ (x2 - y2) * v1 = v1 * (x2 - y2)
    BY <1>1, <1>2
  <2>. QED
    BY <2>1, <2>2 DEF Alongside
<1>. DEFINE tt == t
<1>9. tt = v1 * (x2 - y2) - (x - y) * v2 /\ tt = t
  OBVIOUS
<1>. HIDE DEF x, y, v1, x2, y2, v2, t, tt
<1>10. CASE t # 0
  <2>1. \E k \in 0..Abs(tt) : \E m, h \in Nat : Hits(x, y, v1, x2, y2, v2, Abs(tt), k, m, h)
    BY <1>1, <1>2, <1>5, <1>9, <1>10, PathAcross
  <2>2. PICK k \in 0..Abs(tt) : \E m, h \in Nat : Hits(x, y, v1, x2, y2, v2, Abs(tt), k, m, h)
    BY <2>1
  <2>3. PICK m, h \in Nat : Hits(x, y, v1, x2, y2, v2, Abs(tt), k, m, h)
    BY <2>2
  <2>4. HitsEnd(a, b, c, v, Abs(tt), k, m, h) /\ Abs(tt) \in Times(a, b, v)
    BY <1>6, <1>7, <1>9, <1>10, <2>3
  <2>. QED
    BY <2>4
<1>11. CASE t = 0 /\ v1 # 0
  <2>1. \/ \E m, h \in Nat : Hits(x, y, v1, x2, y2, v2, 1, 0, m, h)
        \/ \E k \in 0..Abs(v1) : \E m, h \in Nat : Hits(x, y, v1, x2, y2, v2, Abs(v1), k, m, h)
    BY <1>1, <1>2, <1>5, <1>8, <1>11, PathAlong
  <2>2. \/ \E m, h \in Nat : HitsEnd(a, b, c, v, 1, 0, m, h)
        \/ \E k \in 0..Abs(v1) : \E m, h \in Nat : HitsEnd(a, b, c, v, Abs(v1), k, m, h)
    BY <1>6, <2>1
  <2>. QED
    BY <1>7, <1>11, <2>2
<1>12. CASE t = 0 /\ v2 # 0
  <2>1. Passes(x2, y2, v2, x, y, v1, p, q, r)
    BY <1>5 DEF Passes
  <2>2. \/ \E m, h \in Nat : Hits(x2, y2, v2, x, y, v1, 1, 0, m, h)
        \/ \E k \in 0..Abs(v2) : \E m, h \in Nat : Hits(x2, y2, v2, x, y, v1, Abs(v2), k, m, h)
    BY <1>1, <1>2, <1>8, <1>12, <2>1, PathAlong
  <2>3. \A n, k, m, h : Hits(x2, y2, v2, x, y, v1, n, k, m, h) => Hits(x, y, v1, x2, y2, v2, n, k, m, h)
    BY HitsTurned
  <2>4. \/ \E m, h \in Nat : HitsEnd(a, b, c, v, 1, 0, m, h)
        \/ \E k \in 0..Abs(v2) : \E m, h \in Nat : HitsEnd(a, b, c, v, Abs(v2), k, m, h)
    BY <1>6, <2>2, <2>3
  <2>. QED
    BY <1>7, <1>12, <2>4
<1>13. CASE v1 = 0 /\ v2 = 0
  <2>1. /\ p \in Nat /\ q \in Nat /\ p + q > 0 /\ r \in Nat
        /\ p * x + q * y = r * v1 /\ p * x2 + q * y2 = r * v2
    BY <1>5 DEF Passes
  <2>2. r * v1 = 0 /\ r * v2 = 0 /\ (p + q) * (0 * v1) = 0 /\ (p + q) * (0 * v2) = 0
    BY <1>13, <2>1
  <2>3. 1 * (p * x + q * y) = p * x + q * y /\ 1 * (p * x2 + q * y2) = p * x2 + q * y2
    BY <1>2, <2>1
  <2>4. Hits(x, y, v1, x2, y2, v2, 1, 0, p, q)
    BY <2>1, <2>2, <2>3 DEF Hits, Hits1
  <2>. QED
    BY <1>6, <1>7, <2>4
<1>. QED
  BY <1>10, <1>11, <1>12, <1>13

LEMMA EndReaches ==
  ASSUME NEW a \in Vectors, NEW b \in Vectors, NEW c \in Vectors, NEW d \in Vectors, NEW v \in Vectors,
         NEW n \in Int, NEW k \in Int, NEW p, NEW q, HitsEnd(a, b, c, v, n, k, p, q)
  PROVE  Reaches(a, b, c, d, v, n, k, p, q, p + q, 0) /\ Reaches(a, b, d, c, v, n, k, p, q, 0, p + q)
<1>1. /\ a[1] \in Int /\ a[2] \in Int /\ b[1] \in Int /\ b[2] \in Int
      /\ c[1] \in Int /\ c[2] \in Int /\ d[1] \in Int /\ d[2] \in Int /\ v[1] \in Int /\ v[2] \in Int
  BY DEF Vectors
<1>2. /\ p \in Nat /\ q \in Nat /\ p + q > 0
      /\ Hits1(a[1] - c[1], b[1] - c[1], v[1], n, k, p, q) /\ Hits1(a[2] - c[2], b[2] - c[2], v[2], n, k, p, q)
  BY DEF HitsEnd, Hits
<1>3. ASSUME NEW e \in Int, NEW f \in Int, NEW g \in Int, NEW i \in Int, NEW u \in Int, Hits1(e - g, f - g, u, n, k, p, q)
      PROVE  Meets1(e, f, g, i, u, n, k, p, q, p + q, 0) /\ Meets1(e, f, i, g, u, n, k, p, q, 0, p + q)
  <2>1. n * (p * (e - g) + q * (f - g)) = (p + q) * (k * u)
    BY <1>3 DEF Hits1
  <2>2. n * (p * (e - g) + q * (f - g)) = n * (p * e + q * f) - n * ((p + q) * g)
    BY <1>2
  <2>3. (p + q) * g + 0 * i = (p + q) * g /\ 0 * i + (p + q) * g = (p + q) * g
    BY <1>2
  <2>4. n * (p * e + q * f) \in Int /\ n * ((p + q) * g) \in Int
    BY <1>2
  <2>5. n * (p * e + q * f) = n * ((p + q) * g) + (p + q) * (k * u)
    BY <2>1, <2>2, <2>4
  <2>. QED
    BY <2>3, <2>5 DEF Meets1
<1>. DEFINE a1 == a[1]
            b1 == b[1]
            c1 == c[1]
            d1 == d[1]
            v1 == v[1]
            a2 == a[2]
            b2 == b[2]
            c2 == c[2]
            d2 == d[2]
            v2 == v[2]
<1>4. Meets1(a1, b1, c1, d1, v1, n, k, p, q, p + q, 0) /\ Meets1(a1, b1, d1, c1, v1, n, k, p, q, 0, p + q)
  <2>1. Hits1(a1 - c1, b1 - c1, v1, n, k, p, q) /\ a1 \in Int /\ b1 \in Int /\ c1 \in Int /\ d1 \in Int /\ v1 \in Int
    BY <1>1, <1>2
  <2>. HIDE DEF a1, b1, c1, d1, v1
  <2>. QED
    BY <1>3, <2>1
<1>5. Meets1(a2, b2, c2, d2, v2, n, k, p, q, p + q, 0) /\ Meets1(a2, b2, d2, c2, v2, n, k, p, q, 0, p + q)
  <2>1. Hits1(a2 - c2, b2 - c2, v2, n, k, p, q) /\ a2 \in Int /\ b2 \in Int /\ c2 \in Int /\ d2 \in Int /\ v2 \in Int
    BY <1>1, <1>2
  <2>. HIDE DEF a2, b2, c2, d2, v2
  <2>. QED
    BY <1>3, <2>1
<1>6. p + q \in Nat /\ 0 \in Nat /\ p + q = (p + q) + 0 /\ p + q = 0 + (p + q)
  BY <1>2
<1>. QED
  BY <1>2, <1>4, <1>5, <1>6 DEF Reaches

\* The parallelogram that the segment from c to d sweeps, with its sign, and
\* how far a point is along the segment and along the shift
Area(c, d, v)  == crossProduct(Vec_subtract(d, c), v)
AlongSegment(c, v, x) == crossProduct(Vec_subtract(x, c), v)
AlongShift(c, d, x) == crossProduct(Vec_subtract(d, c), Vec_subtract(x, c))

\* The same for a parallelogram of the other sign
Toward(t, z) == IF t > 0 THEN z ELSE 0 - z

\* One coordinate of a point in terms of the sides
Framed1(x, c, d, v, e, g, h) == e * x = (e - g) * c + g * d + h * v

Framed(x, c, d, v, e, g, h) ==
  /\ e \in Nat /\ e > 0 /\ g \in Int /\ h \in Int
  /\ Framed1(x[1], c[1], d[1], v[1], e, g, h) /\ Framed1(x[2], c[2], d[2], v[2], e, g, h)

LEMMA FrameExact ==
  ASSUME NEW c \in Vectors, NEW d \in Vectors, NEW v \in Vectors, NEW x \in Vectors
  PROVE  /\ Area(c, d, v) \in Int /\ AlongSegment(c, v, x) \in Int /\ AlongShift(c, d, x) \in Int
         /\ Framed1(x[1], c[1], d[1], v[1], Area(c, d, v), AlongSegment(c, v, x), AlongShift(c, d, x))
         /\ Framed1(x[2], c[2], d[2], v[2], Area(c, d, v), AlongSegment(c, v, x), AlongShift(c, d, x))
<1>. DEFINE c1 == c[1]
            c2 == c[2]
            d1 == d[1]
            d2 == d[2]
            v1 == v[1]
            v2 == v[2]
            x1 == x[1]
            x2 == x[2]
            e == (d1 - c1) * v2 - v1 * (d2 - c2)
            g == (x1 - c1) * v2 - v1 * (x2 - c2)
            h == (d1 - c1) * (x2 - c2) - (x1 - c1) * (d2 - c2)
<1>1. /\ c1 \in Int /\ c2 \in Int /\ d1 \in Int /\ d2 \in Int
      /\ v1 \in Int /\ v2 \in Int /\ x1 \in Int /\ x2 \in Int
  BY DEF Vectors
<1>2. Area(c, d, v) = e /\ AlongSegment(c, v, x) = g /\ AlongShift(c, d, x) = h
  BY DEF Area, AlongSegment, AlongShift, crossProduct, Vec_subtract
<1>. HIDE DEF c1, c2, d1, d2, v1, v2, x1, x2
<1>3. e \in Int /\ g \in Int /\ h \in Int
  BY <1>1
<1>4. e * x1 = (e - g) * c1 + g * d1 + h * v1
  BY <1>1
<1>5. e * x2 = (e - g) * c2 + g * d2 + h * v2
  BY <1>1
<1>. HIDE DEF e, g, h
<1>. QED
  BY <1>2, <1>3, <1>4, <1>5 DEF Framed1, c1, c2, d1, d2, v1, v2, x1, x2

LEMMA FrameTurned ==
  ASSUME NEW x, NEW c, NEW d, NEW v, NEW e, NEW g, NEW h, x \in Int, c \in Int, d \in Int, v \in Int,
         e \in Int, g \in Int, h \in Int, Framed1(x, c, d, v, e, g, h)
  PROVE  Framed1(x, c, d, v, 0 - e, 0 - g, 0 - h)
<1>1. e * x = (e - g) * c + g * d + h * v
  BY DEF Framed1
<1>2. (0 - e) * x = 0 - e * x
  OBVIOUS
<1>3. ((0 - e) - (0 - g)) * c + (0 - g) * d + (0 - h) * v = 0 - ((e - g) * c + g * d + h * v)
  OBVIOUS
<1>. QED
  BY <1>1, <1>2, <1>3 DEF Framed1

\* A parallelogram that is not flat gives every point its place.
LEMMA FrameOf ==
  ASSUME NEW c \in Vectors, NEW d \in Vectors, NEW v \in Vectors, NEW x \in Vectors,
         NEW t, t = Area(c, d, v), t # 0
  PROVE  Framed(x, c, d, v, Abs(t), Toward(t, AlongSegment(c, v, x)), Toward(t, AlongShift(c, d, x)))
<1>1. t \in Int /\ AlongSegment(c, v, x) \in Int /\ AlongShift(c, d, x) \in Int
  BY FrameExact
<1>. DEFINE g == AlongSegment(c, v, x)
            h == AlongShift(c, d, x)
            c1 == c[1]
            c2 == c[2]
            d1 == d[1]
            d2 == d[2]
            v1 == v[1]
            v2 == v[2]
            x1 == x[1]
            x2 == x[2]
<1>2. Framed1(x1, c1, d1, v1, t, g, h) /\ Framed1(x2, c2, d2, v2, t, g, h)
  BY FrameExact
<1>3. /\ c1 \in Int /\ c2 \in Int /\ d1 \in Int /\ d2 \in Int
      /\ v1 \in Int /\ v2 \in Int /\ x1 \in Int /\ x2 \in Int
  BY DEF Vectors
<1>4. g \in Int /\ h \in Int
  BY <1>1
<1>. HIDE DEF g, h, c1, c2, d1, d2, v1, v2, x1, x2
<1>5. Framed1(x1, c1, d1, v1, 0 - t, 0 - g, 0 - h) /\ Framed1(x2, c2, d2, v2, 0 - t, 0 - g, 0 - h)
  BY <1>1, <1>2, <1>3, <1>4, FrameTurned
<1>6. CASE t > 0
  <2>1. Abs(t) = t /\ Toward(t, g) = g /\ Toward(t, h) = h
    BY <1>1, <1>6 DEF Abs, Toward
  <2>2. t \in Nat
    BY <1>1, <1>6
  <2>. QED
    BY <1>2, <1>4, <1>6, <2>1, <2>2 DEF Framed, g, h, c1, c2, d1, d2, v1, v2, x1, x2
<1>7. CASE t < 0
  <2>1. Abs(t) = 0 - t /\ Toward(t, g) = 0 - g /\ Toward(t, h) = 0 - h
    BY <1>1, <1>7 DEF Abs, Toward
  <2>2. 0 - t \in Nat /\ 0 - t > 0 /\ 0 - g \in Int /\ 0 - h \in Int
    BY <1>1, <1>4, <1>7
  <2>. QED
    BY <1>5, <2>1, <2>2 DEF Framed, g, h, c1, c2, d1, d2, v1, v2, x1, x2
<1>. QED
  BY <1>1, <1>6, <1>7

\* Between the sides
Within(e, g, h) == 0 < g /\ g < e /\ 0 < h /\ h < e

\* What pointInParallelogram() finds
LEMMA InsideIs ==
  ASSUME NEW c \in Vectors, NEW d \in Vectors, NEW v \in Vectors, NEW x \in Vectors,
         NEW t, t = Area(c, d, v)
  PROVE  pointInParallelogram(x, c, d, Vec_add(c, v), Vec_add(d, v))
           <=> t # 0 /\ Within(Abs(t), Toward(t, AlongSegment(c, v, x)), Toward(t, AlongShift(c, d, x)))
<1>. DEFINE g == AlongSegment(c, v, x)
            h == AlongShift(c, d, x)
<1>1. t \in Int /\ g \in Int /\ h \in Int
  BY FrameExact
<1>. DEFINE c1 == c[1]
            c2 == c[2]
            d1 == d[1]
            d2 == d[2]
            v1 == v[1]
            v2 == v[2]
            x1 == x[1]
            x2 == x[2]
<1>2. /\ c1 \in Int /\ c2 \in Int /\ d1 \in Int /\ d2 \in Int
      /\ v1 \in Int /\ v2 \in Int /\ x1 \in Int /\ x2 \in Int
  BY DEF Vectors
<1>3. /\ t = (d1 - c1) * v2 - v1 * (d2 - c2)
      /\ g = (x1 - c1) * v2 - v1 * (x2 - c2)
      /\ h = (d1 - c1) * (x2 - c2) - (x1 - c1) * (d2 - c2)
  BY DEF Area, AlongSegment, AlongShift, crossProduct, Vec_subtract
<1>4. /\ direction(c, d, x) = (x1 - c1) * (d2 - c2) - (d1 - c1) * (x2 - c2)
      /\ direction(Vec_add(c, v), Vec_add(d, v), x)
           = (x1 - (c1 + v1)) * ((d2 + v2) - (c2 + v2)) - ((d1 + v1) - (c1 + v1)) * (x2 - (c2 + v2))
      /\ direction(c, Vec_add(c, v), x) = (x1 - c1) * ((c2 + v2) - c2) - ((c1 + v1) - c1) * (x2 - c2)
      /\ direction(d, Vec_add(d, v), x) = (x1 - d1) * ((d2 + v2) - d2) - ((d1 + v1) - d1) * (x2 - d2)
  BY DEF direction, crossProduct, Vec_subtract, Vec_add
<1>. HIDE DEF c1, c2, d1, d2, v1, v2, x1, x2
<1>5. direction(c, d, x) = 0 - h
  <2>1. (x1 - c1) * (d2 - c2) - (d1 - c1) * (x2 - c2) = 0 - ((d1 - c1) * (x2 - c2) - (x1 - c1) * (d2 - c2))
    BY <1>2
  <2>. QED
    BY <1>3, <1>4, <2>1
<1>6. direction(Vec_add(c, v), Vec_add(d, v), x) = t - h
  <2>1. (x1 - (c1 + v1)) * ((d2 + v2) - (c2 + v2)) - ((d1 + v1) - (c1 + v1)) * (x2 - (c2 + v2))
          = ((d1 - c1) * v2 - v1 * (d2 - c2)) - ((d1 - c1) * (x2 - c2) - (x1 - c1) * (d2 - c2))
    BY <1>2
  <2>. QED
    BY <1>3, <1>4, <2>1
<1>7. direction(c, Vec_add(c, v), x) = g
  <2>1. (x1 - c1) * ((c2 + v2) - c2) - ((c1 + v1) - c1) * (x2 - c2) = (x1 - c1) * v2 - v1 * (x2 - c2)
    BY <1>2
  <2>. QED
    BY <1>3, <1>4, <2>1
<1>8. direction(d, Vec_add(d, v), x) = g - t
  <2>1. (x1 - d1) * ((d2 + v2) - d2) - ((d1 + v1) - d1) * (x2 - d2)
          = ((x1 - c1) * v2 - v1 * (x2 - c2)) - ((d1 - c1) * v2 - v1 * (d2 - c2))
    BY <1>2
  <2>. QED
    BY <1>3, <1>4, <2>1
<1>9. pointInParallelogram(x, c, d, Vec_add(c, v), Vec_add(d, v)) <=> Opposite(0 - h, t - h) /\ Opposite(g, g - t)
  BY <1>5, <1>6, <1>7, <1>8 DEF pointInParallelogram
<1>. HIDE DEF g, h
<1>10. Opposite(0 - h, t - h) /\ Opposite(g, g - t) <=> t # 0 /\ Within(Abs(t), Toward(t, g), Toward(t, h))
  <2>1. CASE t > 0
    BY <1>1, <2>1 DEF Opposite, Within, Abs, Toward
  <2>2. CASE t < 0
    BY <1>1, <2>2 DEF Opposite, Within, Abs, Toward
  <2>3. CASE t = 0
    BY <1>1, <2>3 DEF Opposite
  <2>. QED
    BY <1>1, <2>1, <2>2, <2>3
<1>. QED
  BY <1>9, <1>10 DEF g, h

\* Lines that meet at the beginning of the step, or at its end
LEMMA FirstAndLast ==
  ASSUME NEW a \in Vectors, NEW b \in Vectors, NEW c \in Vectors, NEW d \in Vectors, NEW v \in Vectors,
         HavePoint(a, b, c, d) \/ HavePoint(a, b, Vec_add(c, v), Vec_add(d, v))
  PROVE  ReachesIn(a, b, c, d, v, 1)
<1>. DEFINE a1 == a[1]
            b1 == b[1]
            c1 == c[1]
            d1 == d[1]
            v1 == v[1]
            a2 == a[2]
            b2 == b[2]
            c2 == c[2]
            d2 == d[2]
            v2 == v[2]
<1>1. /\ a1 \in Int /\ a2 \in Int /\ b1 \in Int /\ b2 \in Int
      /\ c1 \in Int /\ c2 \in Int /\ d1 \in Int /\ d2 \in Int /\ v1 \in Int /\ v2 \in Int
  BY DEF Vectors
<1>2. 0 \in 0..1 /\ 1 \in 0..1
  OBVIOUS
<1>3. CASE HavePoint(a, b, c, d)
  <2>1. PICK p, q, r, s \in Nat : Shared(a, b, c, d, p, q, r, s)
    BY <1>3 DEF HavePoint
  <2>2. p + q = r + s /\ p + q > 0 /\ p * a1 + q * b1 = r * c1 + s * d1 /\ p * a2 + q * b2 = r * c2 + s * d2
    BY <2>1 DEF Shared
  <2>. HIDE DEF a1, b1, c1, d1, v1, a2, b2, c2, d2, v2
  <2>3. /\ (p + q) * (0 * v1) = 0 /\ (p + q) * (0 * v2) = 0
        /\ 1 * (p * a1 + q * b1) = p * a1 + q * b1 /\ 1 * (r * c1 + s * d1) = r * c1 + s * d1
        /\ 1 * (p * a2 + q * b2) = p * a2 + q * b2 /\ 1 * (r * c2 + s * d2) = r * c2 + s * d2
        /\ (r * c1 + s * d1) + 0 = r * c1 + s * d1 /\ (r * c2 + s * d2) + 0 = r * c2 + s * d2
    BY <1>1
  <2>4. Meets1(a1, b1, c1, d1, v1, 1, 0, p, q, r, s) /\ Meets1(a2, b2, c2, d2, v2, 1, 0, p, q, r, s)
    BY <2>2, <2>3 DEF Meets1
  <2>5. Reaches(a, b, c, d, v, 1, 0, p, q, r, s)
    BY <2>2, <2>4 DEF Reaches, a1, b1, c1, d1, v1, a2, b2, c2, d2, v2
  <2>. QED
    BY <1>2, <2>5 DEF ReachesIn
<1>4. CASE HavePoint(a, b, Vec_add(c, v), Vec_add(d, v))
  <2>1. PICK p, q, r, s \in Nat : Shared(a, b, Vec_add(c, v), Vec_add(d, v), p, q, r, s)
    BY <1>4 DEF HavePoint
  <2>2. /\ p + q = r + s /\ p + q > 0
        /\ p * a1 + q * b1 = r * (c1 + v1) + s * (d1 + v1) /\ p * a2 + q * b2 = r * (c2 + v2) + s * (d2 + v2)
    BY <2>1 DEF Shared, Vec_add
  <2>. DEFINE P(e, f, g, h, u) == p * e + q * f = r * (g + u) + s * (h + u)
  <2>3. ASSUME NEW e \in Int, NEW f \in Int, NEW g \in Int, NEW h \in Int, NEW u \in Int, P(e, f, g, h, u)
        PROVE  Meets1(e, f, g, h, u, 1, 1, p, q, r, s)
    <3>1. p * e + q * f = r * (g + u) + s * (h + u)
      BY <2>3
    <3>2. r * (g + u) + s * (h + u) = (r * g + s * h) + (r + s) * u
      OBVIOUS
    <3>3. (r + s) * u = (p + q) * (1 * u) /\ 1 * (p * e + q * f) = p * e + q * f /\ 1 * (r * g + s * h) = r * g + s * h
      BY <2>2
    <3>. QED
      BY <3>1, <3>2, <3>3 DEF Meets1
  <2>4. P(a1, b1, c1, d1, v1) /\ P(a2, b2, c2, d2, v2)
    BY <2>2
  <2>. HIDE DEF P, a1, b1, c1, d1, v1, a2, b2, c2, d2, v2
  <2>5. Meets1(a1, b1, c1, d1, v1, 1, 1, p, q, r, s)
    BY <1>1, <2>3, <2>4
  <2>6. Meets1(a2, b2, c2, d2, v2, 1, 1, p, q, r, s)
    BY <1>1, <2>3, <2>4
  <2>7. Reaches(a, b, c, d, v, 1, 1, p, q, r, s)
    BY <2>2, <2>5, <2>6 DEF Reaches, a1, b1, c1, d1, v1, a2, b2, c2, d2, v2
  <2>. QED
    BY <1>2, <2>7 DEF ReachesIn
<1>. QED
  BY <1>3, <1>4

LEMMA TimesNatural ==
  ASSUME NEW a \in Vectors, NEW b \in Vectors, NEW v \in Vectors
  PROVE  \A n \in Times(a, b, v) : n \in Nat
<1>1. /\ a[1] \in Int /\ a[2] \in Int /\ b[1] \in Int /\ b[2] \in Int /\ v[1] \in Int /\ v[2] \in Int
  BY DEF Vectors
<1>2. crossProduct(v, Vec_subtract(a, b)) \in Int
  BY <1>1 DEF crossProduct, Vec_subtract
<1>3. \A t \in Int : Abs(t) \in Nat
  BY DEF Abs
<1>. QED
  BY <1>1, <1>2, <1>3 DEF Times

\* Lines of which an end of the second one runs into the first
LEMMA EndsReach ==
  ASSUME NEW a \in Vectors, NEW b \in Vectors, NEW c \in Vectors, NEW d \in Vectors, NEW v \in Vectors,
         HavePoint(a, b, Vec_add(c, v), c) \/ HavePoint(a, b, Vec_add(d, v), d)
  PROVE  \E n \in Times(a, b, v) : ReachesIn(a, b, c, d, v, n)
<1>1. \A n \in Times(a, b, v) : n \in Nat
  BY TimesNatural
<1>2. CASE HavePoint(a, b, Vec_add(c, v), c)
  <2>1. PICK n \in Times(a, b, v) : \E k \in 0..n : \E m, h \in Nat : HitsEnd(a, b, c, v, n, k, m, h)
    BY <1>2, EndOnPath
  <2>2. PICK k \in 0..n : \E m, h \in Nat : HitsEnd(a, b, c, v, n, k, m, h)
    BY <2>1
  <2>3. PICK m, h \in Nat : HitsEnd(a, b, c, v, n, k, m, h)
    BY <2>2
  <2>4. n \in Int /\ k \in Int
    BY <1>1
  <2>5. Reaches(a, b, c, d, v, n, k, m, h, m + h, 0)
    BY <2>3, <2>4, EndReaches
  <2>6. m + h \in Nat /\ 0 \in Nat
    OBVIOUS
  <2>. QED
    BY <2>5, <2>6 DEF ReachesIn
<1>3. CASE HavePoint(a, b, Vec_add(d, v), d)
  <2>1. PICK n \in Times(a, b, v) : \E k \in 0..n : \E m, h \in Nat : HitsEnd(a, b, d, v, n, k, m, h)
    BY <1>3, EndOnPath
  <2>2. PICK k \in 0..n : \E m, h \in Nat : HitsEnd(a, b, d, v, n, k, m, h)
    BY <2>1
  <2>3. PICK m, h \in Nat : HitsEnd(a, b, d, v, n, k, m, h)
    BY <2>2
  <2>4. n \in Int /\ k \in Int
    BY <1>1
  <2>5. Reaches(a, b, c, d, v, n, k, m, h, 0, m + h)
    BY <2>3, <2>4, EndReaches
  <2>6. m + h \in Nat /\ 0 \in Nat
    OBVIOUS
  <2>. QED
    BY <2>5, <2>6 DEF ReachesIn
<1>. QED
  BY <1>2, <1>3

\* A first line that begins within the parallelogram
LEMMA InsideReaches ==
  ASSUME NEW a \in Vectors, NEW b \in Vectors, NEW c \in Vectors, NEW d \in Vectors, NEW v \in Vectors,
         NEW e, NEW g, NEW h, Framed(a, c, d, v, e, g, h), Within(e, g, h)
  PROVE  ReachesIn(a, b, c, d, v, e)
<1>1. e \in Nat /\ e > 0 /\ g \in Nat /\ h \in Nat /\ e - g \in Nat /\ h \in 0..e /\ 0 \in Nat
  BY DEF Framed, Within
<1>2. ASSUME NEW x \in Int, NEW y \in Int, NEW i \in Int, NEW j \in Int, NEW u \in Int, Framed1(x, i, j, u, e, g, h)
      PROVE  Meets1(x, y, i, j, u, e, h, e, 0, e - g, g)
  <2>1. e * x = ((e - g) * i + g * j) + h * u
    BY <1>2 DEF Framed1
  <2>2. e * x + 0 * y = e * x /\ e + 0 = e
    BY <1>1
  <2>3. e * (((e - g) * i + g * j) + h * u) = e * ((e - g) * i + g * j) + e * (h * u)
    BY <1>1
  <2>. QED
    BY <2>1, <2>2, <2>3 DEF Meets1
<1>. DEFINE a1 == a[1]
            b1 == b[1]
            c1 == c[1]
            d1 == d[1]
            v1 == v[1]
            a2 == a[2]
            b2 == b[2]
            c2 == c[2]
            d2 == d[2]
            v2 == v[2]
<1>3. /\ a1 \in Int /\ a2 \in Int /\ b1 \in Int /\ b2 \in Int
      /\ c1 \in Int /\ c2 \in Int /\ d1 \in Int /\ d2 \in Int /\ v1 \in Int /\ v2 \in Int
  BY DEF Vectors
<1>4. Framed1(a1, c1, d1, v1, e, g, h) /\ Framed1(a2, c2, d2, v2, e, g, h)
  BY DEF Framed
<1>. HIDE DEF a1, b1, c1, d1, v1, a2, b2, c2, d2, v2
<1>5. Meets1(a1, b1, c1, d1, v1, e, h, e, 0, e - g, g)
  BY <1>2, <1>3, <1>4
<1>6. Meets1(a2, b2, c2, d2, v2, e, h, e, 0, e - g, g)
  BY <1>2, <1>3, <1>4
<1>7. e + 0 = (e - g) + g /\ e + 0 > 0
  BY <1>1
<1>8. Reaches(a, b, c, d, v, e, h, e, 0, e - g, g)
  BY <1>1, <1>5, <1>6, <1>7 DEF Reaches, a1, b1, c1, d1, v1, a2, b2, c2, d2, v2
<1>. QED
  BY <1>1, <1>8 DEF ReachesIn

\* What a quantity that has the values x and y at the ends of the first line
\* comes to at the point with these weights
Value(p, q, x, y) == p * x + q * y

\* What is not negative at two points is not negative at this one.
Keeps(p1, q1, p2, q2, p, q) ==
  \A z, t \in Int : Value(p1, q1, z, t) >= 0 /\ Value(p2, q2, z, t) >= 0 => Value(p, q, z, t) >= 0

\* Between a point where it is not positive and one where it is not negative
\* it is zero somewhere, and what is not negative at both is not negative there.
LEMMA ZeroBetween ==
  ASSUME NEW p1, NEW q1, NEW p2, NEW q2, p1 \in Nat, q1 \in Nat, p2 \in Nat, q2 \in Nat, p1 + q1 > 0, p2 + q2 > 0,
         NEW x, NEW y, x \in Int, y \in Int, Value(p1, q1, x, y) <= 0, Value(p2, q2, x, y) >= 0
  PROVE  \E p, q \in Nat : p + q > 0 /\ Value(p, q, x, y) = 0 /\ Keeps(p1, q1, p2, q2, p, q)
<1>. DEFINE u1 == Value(p1, q1, x, y)
            u2 == Value(p2, q2, x, y)
<1>1. u1 \in Int /\ u2 \in Int /\ u1 <= 0 /\ u2 >= 0
  BY DEF Value
<1>2. CASE u1 = 0
  BY <1>2 DEF Keeps
<1>3. CASE u2 = 0
  BY <1>3 DEF Keeps
<1>4. CASE u1 < 0 /\ u2 > 0
  <2>. DEFINE m == 0 - u1
              p == u2 * p1 + m * p2
              q == u2 * q1 + m * q2
  <2>0. m \in Int /\ m > 0 /\ m * u2 = u2 * m
    BY <1>1, <1>4
  <2>. HIDE DEF u1, u2, m
  <2>1. p \in Nat /\ q \in Nat
    BY <1>1, <1>4, <2>0
  <2>2. p + q > 0
    <3>1. p + q = u2 * (p1 + q1) + m * (p2 + q2)
      BY <1>1, <2>0
    <3>2. u2 * (p1 + q1) > 0 /\ m * (p2 + q2) > 0
      BY <1>1, <1>4, <2>0
    <3>3. u2 * (p1 + q1) \in Int /\ m * (p2 + q2) \in Int
      BY <1>1, <2>0
    <3>. QED
      BY <3>1, <3>2, <3>3
  <2>3. ASSUME NEW z \in Int, NEW t \in Int
        PROVE  Value(p, q, z, t) = u2 * Value(p1, q1, z, t) + m * Value(p2, q2, z, t)
    BY <1>1, <2>0 DEF Value
  <2>4. Value(p, q, x, y) = 0
    <3>1. Value(p, q, x, y) = u2 * u1 + m * u2
      BY <2>3 DEF u1, u2
    <3>2. u2 * u1 + m * u2 = 0
      BY <1>1 DEF m
    <3>. QED
      BY <3>1, <3>2
  <2>5. ASSUME NEW z \in Int, NEW t \in Int, Value(p1, q1, z, t) >= 0, Value(p2, q2, z, t) >= 0
        PROVE  Value(p, q, z, t) >= 0
    <3>1. Value(p1, q1, z, t) \in Int /\ Value(p2, q2, z, t) \in Int
      BY DEF Value
    <3>2. u2 * Value(p1, q1, z, t) >= 0 /\ m * Value(p2, q2, z, t) >= 0
      BY <1>1, <1>4, <2>0, <2>5, <3>1
    <3>3. u2 * Value(p1, q1, z, t) \in Int /\ m * Value(p2, q2, z, t) \in Int
      BY <1>1, <2>0, <3>1
    <3>4. Value(p, q, z, t) = u2 * Value(p1, q1, z, t) + m * Value(p2, q2, z, t)
      BY <2>3
    <3>. QED
      BY <3>2, <3>3, <3>4
  <2>. HIDE DEF p, q
  <2>. QED
    BY <2>1, <2>2, <2>4, <2>5 DEF Keeps
<1>. QED
  BY <1>1, <1>2, <1>3, <1>4

\* In the parallelogram: the place along the segment is from 0 to e, and so is
\* the place along the shift
In(p, q, e, x, y) == Value(p, q, x, y) >= 0 /\ Value(p, q, e - x, e - y) >= 0
\* On one of two opposite sides
Edge(p, q, e, x, y) == Value(p, q, x, y) = 0 \/ Value(p, q, e - x, e - y) = 0

OnSide(p, q, e, g1, g2, h1, h2) ==
  /\ p \in Nat /\ q \in Nat /\ p + q > 0
  /\ In(p, q, e, g1, g2) /\ In(p, q, e, h1, h2)
  /\ Edge(p, q, e, g1, g2) \/ Edge(p, q, e, h1, h2)

\* One pair of sides cuts off what is beyond it.
LEMMA CutOff ==
  ASSUME NEW p1 \in Nat, NEW q1 \in Nat, NEW p2 \in Nat, NEW q2 \in Nat, p1 + q1 > 0, p2 + q2 > 0,
         NEW e \in Nat, e > 0, NEW x \in Int, NEW y \in Int, In(p2, q2, e, x, y),
         Value(p1, q1, x, y) <= 0 \/ Value(p1, q1, e - x, e - y) <= 0
  PROVE  \E p, q \in Nat :
           /\ p + q > 0 /\ In(p, q, e, x, y) /\ Edge(p, q, e, x, y)
           /\ \A z, t \in Int : In(p1, q1, e, z, t) /\ In(p2, q2, e, z, t) => In(p, q, e, z, t)
<1>1. Value(p1, q1, x, y) + Value(p1, q1, e - x, e - y) = (p1 + q1) * e
  BY DEF Value
<1>2. (p1 + q1) * e > 0 /\ (p1 + q1) * e \in Int
  OBVIOUS
<1>3. Value(p1, q1, x, y) \in Int /\ Value(p1, q1, e - x, e - y) \in Int
  BY DEF Value
<1>4. Value(p2, q2, x, y) >= 0 /\ Value(p2, q2, e - x, e - y) >= 0
  BY DEF In
<1>. DEFINE x2 == e - x
            y2 == e - y
<1>5. x2 \in Int /\ y2 \in Int /\ \A z \in Int : e - z \in Int
  OBVIOUS
<1>6. CASE Value(p1, q1, x, y) <= 0
  <2>0. PICK p, q \in Nat : p + q > 0 /\ Value(p, q, x, y) = 0 /\ Keeps(p1, q1, p2, q2, p, q)
    BY <1>4, <1>6, ZeroBetween
  <2>1. /\ p + q > 0 /\ Value(p, q, x, y) = 0
        /\ \A z, t \in Int : Value(p1, q1, z, t) >= 0 /\ Value(p2, q2, z, t) >= 0 => Value(p, q, z, t) >= 0
    BY <2>0 DEF Keeps
  <2>2. Value(p1, q1, e - x, e - y) >= 0
    BY <1>1, <1>2, <1>3, <1>6
  <2>3. In(p, q, e, x, y)
    <3>1. Value(p, q, x2, y2) >= 0
      <4>1. Value(p1, q1, x2, y2) >= 0 /\ Value(p2, q2, x2, y2) >= 0
        BY <1>4, <2>2
      <4>. HIDE DEF x2, y2
      <4>. QED
        BY <1>5, <2>1, <4>1
    <3>. QED
      BY <2>1, <3>1 DEF In
  <2>4. ASSUME NEW z \in Int, NEW t \in Int, In(p1, q1, e, z, t), In(p2, q2, e, z, t)
        PROVE  In(p, q, e, z, t)
    <3>1. Value(p, q, z, t) >= 0
      BY <2>1, <2>4 DEF In
    <3>. DEFINE z2 == e - z
                t2 == e - t
    <3>2. z2 \in Int /\ t2 \in Int /\ Value(p1, q1, z2, t2) >= 0 /\ Value(p2, q2, z2, t2) >= 0
      BY <2>4 DEF In
    <3>3. Value(p, q, z2, t2) >= 0
      <4>. HIDE DEF z2, t2
      <4>. QED
        BY <2>1, <3>2
    <3>. QED
      BY <3>1, <3>3 DEF In
  <2>5. Edge(p, q, e, x, y)
    BY <2>1 DEF Edge
  <2>. QED
    BY <2>1, <2>3, <2>4, <2>5
<1>7. CASE Value(p1, q1, e - x, e - y) <= 0
  <2>. DEFINE Good(p, q) == p + q > 0 /\ Value(p, q, x2, y2) = 0 /\ Keeps(p1, q1, p2, q2, p, q)
  <2>1. \E p, q \in Nat : Good(p, q)
    <3>1. Value(p1, q1, x2, y2) <= 0 /\ Value(p2, q2, x2, y2) >= 0
      BY <1>4, <1>7
    <3>. HIDE DEF x2, y2
    <3>. QED
      BY <1>5, <3>1, ZeroBetween
  <2>0. PICK p, q \in Nat : Good(p, q)
    BY <2>1
  <2>2. /\ p + q > 0 /\ Value(p, q, x2, y2) = 0
        /\ \A z, t \in Int : Value(p1, q1, z, t) >= 0 /\ Value(p2, q2, z, t) >= 0 => Value(p, q, z, t) >= 0
    BY <2>0 DEF Keeps
  <2>3. Value(p1, q1, x, y) >= 0
    BY <1>1, <1>2, <1>3, <1>7
  <2>4. Value(p, q, x, y) >= 0
    BY <1>4, <2>2, <2>3
  <2>5. In(p, q, e, x, y)
    BY <2>2, <2>4 DEF In
  <2>6. ASSUME NEW z \in Int, NEW t \in Int, In(p1, q1, e, z, t), In(p2, q2, e, z, t)
        PROVE  In(p, q, e, z, t)
    <3>1. Value(p, q, z, t) >= 0
      BY <2>2, <2>6 DEF In
    <3>. DEFINE z2 == e - z
                t2 == e - t
    <3>2. z2 \in Int /\ t2 \in Int /\ Value(p1, q1, z2, t2) >= 0 /\ Value(p2, q2, z2, t2) >= 0
      BY <2>6 DEF In
    <3>3. Value(p, q, z2, t2) >= 0
      <4>. HIDE DEF z2, t2
      <4>. QED
        BY <2>2, <3>2
    <3>. QED
      BY <3>1, <3>3 DEF In
  <2>7. Edge(p, q, e, x, y)
    BY <2>2 DEF Edge
  <2>. QED
    BY <2>2, <2>5, <2>6, <2>7
<1>. QED
  BY <1>6, <1>7

\* A first line that has a point in the parallelogram begins within it, or has
\* a point on a side.
LEMMA SideOrWithin ==
  ASSUME NEW p2 \in Nat, NEW q2 \in Nat, p2 + q2 > 0, NEW e \in Nat, e > 0,
         NEW g1 \in Int, NEW g2 \in Int, NEW h1 \in Int, NEW h2 \in Int,
         In(p2, q2, e, g1, g2), In(p2, q2, e, h1, h2)
  PROVE  Within(e, g1, h1) \/ \E p, q : OnSide(p, q, e, g1, g2, h1, h2)
<1>1. PICK p1, q1 \in Nat :
        /\ p1 + q1 > 0 /\ In(p1, q1, e, g1, g2)
        /\ Edge(p1, q1, e, g1, g2) \/ (p1 = 1 /\ q1 = 0 /\ 0 < g1 /\ g1 < e)
  <2>1. Value(1, 0, g1, g2) = g1 /\ Value(1, 0, e - g1, e - g2) = e - g1 /\ 1 \in Nat /\ 0 \in Nat /\ 1 + 0 > 0
    BY DEF Value
  <2>2. CASE 0 < g1 /\ g1 < e
    BY <2>1, <2>2 DEF In
  <2>3. CASE g1 <= 0 \/ e <= g1
    <3>1. Value(1, 0, g1, g2) <= 0 \/ Value(1, 0, e - g1, e - g2) <= 0
      BY <2>1, <2>3
    <3>2. PICK p, q \in Nat : p + q > 0 /\ In(p, q, e, g1, g2) /\ Edge(p, q, e, g1, g2)
      BY <2>1, <3>1, CutOff
    <3>. QED
      BY <3>2
  <2>. QED
    BY <2>2, <2>3
<1>2. CASE Value(p1, q1, h1, h2) <= 0 \/ Value(p1, q1, e - h1, e - h2) <= 0
  <2>1. PICK p, q \in Nat :
           /\ p + q > 0 /\ In(p, q, e, h1, h2) /\ Edge(p, q, e, h1, h2)
           /\ \A z, t \in Int : In(p1, q1, e, z, t) /\ In(p2, q2, e, z, t) => In(p, q, e, z, t)
    BY <1>1, <1>2, CutOff
  <2>2. OnSide(p, q, e, g1, g2, h1, h2)
    BY <1>1, <2>1 DEF OnSide
  <2>. QED
    BY <2>2
<1>3. CASE ~(Value(p1, q1, h1, h2) <= 0) /\ ~(Value(p1, q1, e - h1, e - h2) <= 0)
  <2>1. Value(p1, q1, h1, h2) > 0 /\ Value(p1, q1, e - h1, e - h2) > 0
    BY <1>3 DEF Value
  <2>2. In(p1, q1, e, h1, h2)
    BY <2>1 DEF In, Value
  <2>3. CASE Edge(p1, q1, e, g1, g2)
    BY <1>1, <2>2, <2>3 DEF OnSide
  <2>4. CASE p1 = 1 /\ q1 = 0 /\ 0 < g1 /\ g1 < e
    <3>1. Value(1, 0, h1, h2) = h1 /\ Value(1, 0, e - h1, e - h2) = e - h1
      BY DEF Value
    <3>2. 0 < h1 /\ 0 < e - h1
      BY <2>1, <2>4, <3>1
    <3>. QED
      BY <2>4, <3>2 DEF Within
  <2>. QED
    BY <1>1, <2>3, <2>4
<1>. QED
  BY <1>2, <1>3

\* One coordinate of a point of the first line, w times enlarged, in terms of the sides
Placed1(x, y, c, d, v, i, j, w, g, h) == i * x + j * y = ((w - g) * c + g * d) + h * v

LEMMA PlacedOf ==
  ASSUME NEW x, NEW y, NEW c, NEW d, NEW v, x \in Int, y \in Int, c \in Int, d \in Int, v \in Int,
         NEW e, NEW g1, NEW g2, NEW h1, NEW h2, NEW p, NEW q, e \in Int, g1 \in Int, g2 \in Int, h1 \in Int, h2 \in Int,
         p \in Int, q \in Int, Framed1(x, c, d, v, e, g1, h1), Framed1(y, c, d, v, e, g2, h2)
  PROVE  Placed1(x, y, c, d, v, e * p, e * q, (p + q) * e, Value(p, q, g1, g2), Value(p, q, h1, h2))
<1>1. e * x = (e - g1) * c + g1 * d + h1 * v /\ e * y = (e - g2) * c + g2 * d + h2 * v
  BY DEF Framed1
<1>2. (e * p) * x + (e * q) * y = p * (e * x) + q * (e * y)
  OBVIOUS
<1>3. p * ((e - g1) * c + g1 * d + h1 * v) + q * ((e - g2) * c + g2 * d + h2 * v)
        = (((p + q) * e - (p * g1 + q * g2)) * c + (p * g1 + q * g2) * d) + (p * h1 + q * h2) * v
  OBVIOUS
<1>. QED
  BY <1>1, <1>2, <1>3 DEF Placed1, Value

\* A point on a side is one that the first line has in common with it.
LEMMA SideShared ==
  ASSUME NEW a \in Vectors, NEW b \in Vectors, NEW c \in Vectors, NEW d \in Vectors, NEW v \in Vectors,
         NEW i \in Nat, NEW j \in Nat, NEW w \in Nat, NEW g \in Nat, NEW h \in Nat, i + j = w, w > 0, g <= w, h <= w,
         Placed1(a[1], b[1], c[1], d[1], v[1], i, j, w, g, h), Placed1(a[2], b[2], c[2], d[2], v[2], i, j, w, g, h),
         g = 0 \/ g = w \/ h = 0 \/ h = w
  PROVE  \/ HavePoint(a, b, c, d) \/ HavePoint(a, b, Vec_add(c, v), Vec_add(d, v))
         \/ HavePoint(a, b, Vec_add(c, v), c) \/ HavePoint(a, b, Vec_add(d, v), d)
<1>. DEFINE a1 == a[1]
            b1 == b[1]
            c1 == c[1]
            d1 == d[1]
            v1 == v[1]
            a2 == a[2]
            b2 == b[2]
            c2 == c[2]
            d2 == d[2]
            v2 == v[2]
<1>1. /\ a1 \in Int /\ a2 \in Int /\ b1 \in Int /\ b2 \in Int
      /\ c1 \in Int /\ c2 \in Int /\ d1 \in Int /\ d2 \in Int /\ v1 \in Int /\ v2 \in Int
  BY DEF Vectors
<1>2. i * a1 + j * b1 = ((w - g) * c1 + g * d1) + h * v1 /\ i * a2 + j * b2 = ((w - g) * c2 + g * d2) + h * v2
  BY DEF Placed1
<1>3. w - g \in Nat /\ w - h \in Nat /\ i + j = (w - g) + g /\ i + j = h + (w - h) /\ i + j > 0
  OBVIOUS
<1>4. /\ Vec_add(c, v)[1] = c1 + v1 /\ Vec_add(c, v)[2] = c2 + v2
      /\ Vec_add(d, v)[1] = d1 + v1 /\ Vec_add(d, v)[2] = d2 + v2
  BY DEF Vec_add
<1>5. CASE h = 0
  <2>. HIDE DEF a1, b1, c1, d1, v1, a2, b2, c2, d2, v2
  <2>1. ((w - g) * c1 + g * d1) + h * v1 = (w - g) * c1 + g * d1 /\ ((w - g) * c2 + g * d2) + h * v2 = (w - g) * c2 + g * d2
    BY <1>1, <1>5
  <2>2. Shared(a, b, c, d, i, j, w - g, g)
    BY <1>2, <1>3, <2>1 DEF Shared, a1, b1, c1, d1, v1, a2, b2, c2, d2, v2
  <2>. QED
    BY <1>3, <2>2 DEF HavePoint
<1>6. CASE h = w
  <2>. HIDE DEF a1, b1, c1, d1, v1, a2, b2, c2, d2, v2
  <2>1. /\ ((w - g) * c1 + g * d1) + h * v1 = (w - g) * (c1 + v1) + g * (d1 + v1)
        /\ ((w - g) * c2 + g * d2) + h * v2 = (w - g) * (c2 + v2) + g * (d2 + v2)
    BY <1>1, <1>6
  <2>2. i * a1 + j * b1 = (w - g) * (c1 + v1) + g * (d1 + v1) /\ i * a2 + j * b2 = (w - g) * (c2 + v2) + g * (d2 + v2)
    BY <1>2, <2>1
  <2>3. Shared(a, b, Vec_add(c, v), Vec_add(d, v), i, j, w - g, g)
    BY <1>3, <1>4, <2>2 DEF Shared, a1, b1, c1, d1, v1, a2, b2, c2, d2, v2
  <2>. QED
    BY <1>3, <2>3 DEF HavePoint
<1>7. CASE g = 0
  <2>. HIDE DEF a1, b1, c1, d1, v1, a2, b2, c2, d2, v2
  <2>1. /\ ((w - g) * c1 + g * d1) + h * v1 = h * (c1 + v1) + (w - h) * c1
        /\ ((w - g) * c2 + g * d2) + h * v2 = h * (c2 + v2) + (w - h) * c2
    BY <1>1, <1>7
  <2>2. i * a1 + j * b1 = h * (c1 + v1) + (w - h) * c1 /\ i * a2 + j * b2 = h * (c2 + v2) + (w - h) * c2
    BY <1>2, <2>1
  <2>3. Shared(a, b, Vec_add(c, v), c, i, j, h, w - h)
    BY <1>3, <1>4, <2>2 DEF Shared, a1, b1, c1, d1, v1, a2, b2, c2, d2, v2
  <2>. QED
    BY <1>3, <2>3 DEF HavePoint
<1>8. CASE g = w
  <2>. HIDE DEF a1, b1, c1, d1, v1, a2, b2, c2, d2, v2
  <2>1. /\ ((w - g) * c1 + g * d1) + h * v1 = h * (d1 + v1) + (w - h) * d1
        /\ ((w - g) * c2 + g * d2) + h * v2 = h * (d2 + v2) + (w - h) * d2
    BY <1>1, <1>8
  <2>2. i * a1 + j * b1 = h * (d1 + v1) + (w - h) * d1 /\ i * a2 + j * b2 = h * (d2 + v2) + (w - h) * d2
    BY <1>2, <2>1
  <2>3. Shared(a, b, Vec_add(d, v), d, i, j, h, w - h)
    BY <1>3, <1>4, <2>2 DEF Shared, a1, b1, c1, d1, v1, a2, b2, c2, d2, v2
  <2>. QED
    BY <1>3, <2>3 DEF HavePoint
<1>. QED
  BY <1>5, <1>6, <1>7, <1>8

\* One of the sides has a point in common with the first line.
MeetsSide(a, b, c, d, v) ==
  \/ HavePoint(a, b, c, d) \/ HavePoint(a, b, Vec_add(c, v), Vec_add(d, v))
  \/ HavePoint(a, b, Vec_add(c, v), c) \/ HavePoint(a, b, Vec_add(d, v), d)

LEMMA OnSideShared ==
  ASSUME NEW a \in Vectors, NEW b \in Vectors, NEW c \in Vectors, NEW d \in Vectors, NEW v \in Vectors,
         NEW e, NEW g1, NEW g2, NEW h1, NEW h2, Framed(a, c, d, v, e, g1, h1), Framed(b, c, d, v, e, g2, h2),
         NEW p, NEW q, OnSide(p, q, e, g1, g2, h1, h2)
  PROVE  MeetsSide(a, b, c, d, v)
<1>1. /\ e \in Nat /\ e > 0 /\ g1 \in Int /\ g2 \in Int /\ h1 \in Int /\ h2 \in Int
      /\ Framed1(a[1], c[1], d[1], v[1], e, g1, h1) /\ Framed1(a[2], c[2], d[2], v[2], e, g1, h1)
      /\ Framed1(b[1], c[1], d[1], v[1], e, g2, h2) /\ Framed1(b[2], c[2], d[2], v[2], e, g2, h2)
  BY DEF Framed
<1>2. /\ p \in Nat /\ q \in Nat /\ p + q > 0
      /\ In(p, q, e, g1, g2) /\ In(p, q, e, h1, h2) /\ (Edge(p, q, e, g1, g2) \/ Edge(p, q, e, h1, h2))
  BY DEF OnSide
<1>. DEFINE i == e * p
            j == e * q
            w == (p + q) * e
            g == Value(p, q, g1, g2)
            h == Value(p, q, h1, h2)
<1>3. i \in Nat /\ j \in Nat /\ w \in Nat /\ i + j = w /\ w > 0
  BY <1>1, <1>2
<1>4. g \in Int /\ h \in Int /\ Value(p, q, e - g1, e - g2) = w - g /\ Value(p, q, e - h1, e - h2) = w - h
  BY <1>1, <1>2 DEF Value
<1>5. /\ a[1] \in Int /\ a[2] \in Int /\ b[1] \in Int /\ b[2] \in Int
      /\ c[1] \in Int /\ c[2] \in Int /\ d[1] \in Int /\ d[2] \in Int /\ v[1] \in Int /\ v[2] \in Int
  BY DEF Vectors
<1>6. Placed1(a[1], b[1], c[1], d[1], v[1], i, j, w, g, h) /\ Placed1(a[2], b[2], c[2], d[2], v[2], i, j, w, g, h)
  <2>1. p \in Int /\ q \in Int /\ e \in Int
    BY <1>1, <1>2
  <2>. QED
    BY <1>1, <1>5, <2>1, PlacedOf
<1>. HIDE DEF i, j, w, g, h
<1>7. g \in Nat /\ h \in Nat /\ g <= w /\ h <= w /\ (g = 0 \/ g = w \/ h = 0 \/ h = w)
  <2>1. g >= 0 /\ w - g >= 0 /\ h >= 0 /\ w - h >= 0 /\ (g = 0 \/ w - g = 0 \/ h = 0 \/ w - h = 0)
    BY <1>2, <1>4 DEF In, Edge, g, h
  <2>. QED
    BY <1>3, <1>4, <2>1
<1>. QED
  BY <1>3, <1>6, <1>7, SideShared DEF MeetsSide

\* A point of the first line is in the parallelogram: on the segment after a part of its shift.
Swept1(x, y, c, d, v, p, q, r, s, t) == p * x + q * y = (r * c + s * d) + t * v

Swept(a, b, c, d, v, p, q, r, s, t) ==
  /\ p \in Nat /\ q \in Nat /\ r \in Nat /\ s \in Nat /\ t \in Nat /\ p + q = r + s /\ p + q > 0 /\ t <= p + q
  /\ Swept1(a[1], b[1], c[1], d[1], v[1], p, q, r, s, t) /\ Swept1(a[2], b[2], c[2], d[2], v[2], p, q, r, s, t)

LEMMA ReachesSwept ==
  ASSUME NEW a \in Vectors, NEW b \in Vectors, NEW c \in Vectors, NEW d \in Vectors, NEW v \in Vectors,
         NEW n \in Nat, n > 0, NEW k \in 0..n, NEW p, NEW q, NEW r, NEW s, Reaches(a, b, c, d, v, n, k, p, q, r, s)
  PROVE  Swept(a, b, c, d, v, n * p, n * q, n * r, n * s, (p + q) * k)
<1>1. /\ p \in Nat /\ q \in Nat /\ r \in Nat /\ s \in Nat /\ p + q = r + s /\ p + q > 0
      /\ Meets1(a[1], b[1], c[1], d[1], v[1], n, k, p, q, r, s) /\ Meets1(a[2], b[2], c[2], d[2], v[2], n, k, p, q, r, s)
  BY DEF Reaches
<1>2. ASSUME NEW x, NEW y, NEW i, NEW j, NEW u, x \in Int, y \in Int, i \in Int, j \in Int, u \in Int,
             Meets1(x, y, i, j, u, n, k, p, q, r, s)
      PROVE  Swept1(x, y, i, j, u, n * p, n * q, n * r, n * s, (p + q) * k)
  <2>1. n * (p * x + q * y) = n * (r * i + s * j) + (p + q) * (k * u)
    BY <1>2 DEF Meets1
  <2>2. n * (p * x + q * y) = (n * p) * x + (n * q) * y
    BY <1>1, <1>2
  <2>3. n * (r * i + s * j) = (n * r) * i + (n * s) * j
    BY <1>1, <1>2
  <2>4. (p + q) * (k * u) = ((p + q) * k) * u
    BY <1>1, <1>2
  <2>. QED
    BY <2>1, <2>2, <2>3, <2>4 DEF Swept1
<1>3. /\ a[1] \in Int /\ a[2] \in Int /\ b[1] \in Int /\ b[2] \in Int
      /\ c[1] \in Int /\ c[2] \in Int /\ d[1] \in Int /\ d[2] \in Int /\ v[1] \in Int /\ v[2] \in Int
  BY DEF Vectors
<1>4. Swept1(a[1], b[1], c[1], d[1], v[1], n * p, n * q, n * r, n * s, (p + q) * k)
  BY <1>1, <1>2, <1>3
<1>5. Swept1(a[2], b[2], c[2], d[2], v[2], n * p, n * q, n * r, n * s, (p + q) * k)
  BY <1>1, <1>2, <1>3
<1>6. n * p \in Nat /\ n * q \in Nat /\ n * r \in Nat /\ n * s \in Nat /\ (p + q) * k \in Nat
  BY <1>1
<1>7. n * p + n * q = n * (p + q) /\ n * r + n * s = n * (r + s) /\ n * (p + q) > 0 /\ n * (p + q) = n * (r + s)
  BY <1>1
<1>8. (p + q) * k <= n * (p + q)
  <2>1. n * (p + q) - (p + q) * k = (p + q) * (n - k) /\ (p + q) * (n - k) >= 0
    BY <1>1
  <2>2. n * (p + q) \in Int /\ (p + q) * k \in Int
    BY <1>1
  <2>. QED
    BY <2>1, <2>2
<1>. QED
  BY <1>4, <1>5, <1>6, <1>7, <1>8 DEF Swept

\* The place of that point, in terms of the sides
LEMMA PlaceOfSwept ==
  ASSUME NEW a \in Vectors, NEW b \in Vectors, NEW c \in Vectors, NEW d \in Vectors, NEW v \in Vectors,
         NEW p, NEW q, NEW r, NEW s, NEW t, Swept(a, b, c, d, v, p, q, r, s, t)
  PROVE  /\ Value(p, q, AlongSegment(c, v, a), AlongSegment(c, v, b)) = s * Area(c, d, v)
         /\ Value(p, q, AlongShift(c, d, a), AlongShift(c, d, b)) = t * Area(c, d, v)
<1>. DEFINE a1 == a[1]
            b1 == b[1]
            c1 == c[1]
            d1 == d[1]
            v1 == v[1]
            a2 == a[2]
            b2 == b[2]
            c2 == c[2]
            d2 == d[2]
            v2 == v[2]
<1>1. /\ a1 \in Int /\ a2 \in Int /\ b1 \in Int /\ b2 \in Int
      /\ c1 \in Int /\ c2 \in Int /\ d1 \in Int /\ d2 \in Int /\ v1 \in Int /\ v2 \in Int
  BY DEF Vectors
<1>2. /\ p \in Nat /\ q \in Nat /\ r \in Nat /\ s \in Nat /\ t \in Nat /\ p + q = r + s
      /\ p * a1 + q * b1 = (r * c1 + s * d1) + t * v1 /\ p * a2 + q * b2 = (r * c2 + s * d2) + t * v2
  BY DEF Swept, Swept1
<1>3. /\ Area(c, d, v) = (d1 - c1) * v2 - v1 * (d2 - c2)
      /\ AlongSegment(c, v, a) = (a1 - c1) * v2 - v1 * (a2 - c2)
      /\ AlongSegment(c, v, b) = (b1 - c1) * v2 - v1 * (b2 - c2)
      /\ AlongShift(c, d, a) = (d1 - c1) * (a2 - c2) - (a1 - c1) * (d2 - c2)
      /\ AlongShift(c, d, b) = (d1 - c1) * (b2 - c2) - (b1 - c1) * (d2 - c2)
  BY DEF Area, AlongSegment, AlongShift, crossProduct, Vec_subtract
<1>. DEFINE m1 == p * (a1 - c1) + q * (b1 - c1)
            m2 == p * (a2 - c2) + q * (b2 - c2)
<1>. HIDE DEF a1, b1, c1, d1, v1, a2, b2, c2, d2, v2
<1>4. ASSUME NEW x \in Int, NEW y \in Int, NEW i \in Int, NEW j \in Int, NEW u \in Int,
             NEW z, z = p * x + q * y, z = (r * i + s * j) + t * u
      PROVE  p * (x - i) + q * (y - i) = s * (j - i) + t * u
  <2>1. p * (x - i) + q * (y - i) = (p * x + q * y) - (p + q) * i
    BY <1>2
  <2>2. s * (j - i) + t * u = ((r * i + s * j) + t * u) - (r + s) * i
    BY <1>2
  <2>3. (p + q) * i = (r + s) * i
    BY <1>2
  <2>. QED
    BY <1>4, <2>1, <2>2, <2>3
<1>5. m1 = s * (d1 - c1) + t * v1
  <2>. DEFINE z == p * a1 + q * b1
  <2>1. z = p * a1 + q * b1 /\ z = (r * c1 + s * d1) + t * v1
    BY <1>2
  <2>. HIDE DEF z
  <2>. QED
    BY <1>1, <1>4, <2>1
<1>6. m2 = s * (d2 - c2) + t * v2
  <2>. DEFINE z == p * a2 + q * b2
  <2>1. z = p * a2 + q * b2 /\ z = (r * c2 + s * d2) + t * v2
    BY <1>2
  <2>. HIDE DEF z
  <2>. QED
    BY <1>1, <1>4, <2>1
<1>7. Value(p, q, AlongSegment(c, v, a), AlongSegment(c, v, b)) = s * Area(c, d, v)
  <2>1. p * ((a1 - c1) * v2 - v1 * (a2 - c2)) + q * ((b1 - c1) * v2 - v1 * (b2 - c2)) = m1 * v2 - v1 * m2
    BY <1>1, <1>2
  <2>2. (s * (d1 - c1) + t * v1) * v2 - v1 * (s * (d2 - c2) + t * v2) = s * ((d1 - c1) * v2 - v1 * (d2 - c2))
    BY <1>1, <1>2
  <2>. QED
    BY <1>3, <1>5, <1>6, <2>1, <2>2 DEF Value
<1>8. Value(p, q, AlongShift(c, d, a), AlongShift(c, d, b)) = t * Area(c, d, v)
  <2>1. p * ((d1 - c1) * (a2 - c2) - (a1 - c1) * (d2 - c2)) + q * ((d1 - c1) * (b2 - c2) - (b1 - c1) * (d2 - c2))
          = (d1 - c1) * m2 - m1 * (d2 - c2)
    BY <1>1, <1>2
  <2>2. (d1 - c1) * (s * (d2 - c2) + t * v2) - (s * (d1 - c1) + t * v1) * (d2 - c2) = t * ((d1 - c1) * v2 - v1 * (d2 - c2))
    BY <1>1, <1>2
  <2>. QED
    BY <1>3, <1>5, <1>6, <2>1, <2>2 DEF Value
<1>. QED
  BY <1>7, <1>8

LEMMA TowardValue ==
  ASSUME NEW t, NEW x, NEW y, NEW p, NEW q, NEW k, t \in Int, x \in Int, y \in Int, p \in Int, q \in Int, k \in Nat,
         t # 0, Value(p, q, x, y) = k * t
  PROVE  Value(p, q, Toward(t, x), Toward(t, y)) = k * Abs(t)
<1>1. p * x + q * y = k * t
  BY DEF Value
<1>2. CASE t > 0
  <2>1. Toward(t, x) = x /\ Toward(t, y) = y /\ Abs(t) = t
    BY <1>2 DEF Toward, Abs
  <2>. QED
    BY <2>1
<1>3. CASE t < 0
  <2>1. Toward(t, x) = 0 - x /\ Toward(t, y) = 0 - y /\ Abs(t) = 0 - t
    BY <1>3 DEF Toward, Abs
  <2>2. p * (0 - x) + q * (0 - y) = 0 - (p * x + q * y) /\ k * (0 - t) = 0 - k * t
    OBVIOUS
  <2>. QED
    BY <1>1, <2>1, <2>2 DEF Value
<1>. QED
  BY <1>2, <1>3

LEMMA SweptIn ==
  ASSUME NEW p \in Nat, NEW q \in Nat, NEW e \in Nat, e > 0, NEW x, NEW y, x \in Int, y \in Int,
         NEW k \in Nat, k <= p + q, Value(p, q, x, y) = k * e
  PROVE  In(p, q, e, x, y) /\ In(q, p, e, y, x)
<1>1. k * e >= 0 /\ k * e \in Int /\ ((p + q) - k) * e >= 0
  OBVIOUS
<1>2. Value(p, q, e - x, e - y) = ((p + q) - k) * e
  <2>1. p * (e - x) + q * (e - y) = (p + q) * e - (p * x + q * y)
    OBVIOUS
  <2>2. ((p + q) - k) * e = (p + q) * e - k * e
    OBVIOUS
  <2>. QED
    BY <2>1, <2>2 DEF Value
<1>3. Value(q, p, y, x) = Value(p, q, x, y) /\ Value(q, p, e - y, e - x) = Value(p, q, e - x, e - y)
  BY DEF Value
<1>. QED
  BY <1>1, <1>2, <1>3 DEF In

LEMMA OnSideTurned ==
  ASSUME NEW p, NEW q, NEW e \in Nat, NEW g1, NEW g2, NEW h1, NEW h2, g1 \in Int, g2 \in Int, h1 \in Int, h2 \in Int,
         OnSide(q, p, e, g2, g1, h2, h1)
  PROVE  OnSide(p, q, e, g1, g2, h1, h2)
<1>1. p \in Nat /\ q \in Nat /\ p + q = q + p
  BY DEF OnSide
<1>2. /\ Value(p, q, g1, g2) = Value(q, p, g2, g1) /\ Value(p, q, e - g1, e - g2) = Value(q, p, e - g2, e - g1)
      /\ Value(p, q, h1, h2) = Value(q, p, h2, h1) /\ Value(p, q, e - h1, e - h2) = Value(q, p, e - h2, e - h1)
  BY <1>1 DEF Value
<1>. QED
  BY <1>1, <1>2 DEF OnSide, In, Edge

\* Where the parallelogram is not flat, what meets it begins within it at both
\* ends or meets one of its sides.
LEMMA SweptSides ==
  ASSUME NEW a \in Vectors, NEW b \in Vectors, NEW c \in Vectors, NEW d \in Vectors, NEW v \in Vectors,
         NEW p, NEW q, NEW r, NEW s, NEW t, Swept(a, b, c, d, v, p, q, r, s, t), Area(c, d, v) # 0
  PROVE  \/ MeetsSide(a, b, c, d, v)
         \/ \A x \in {a, b} : pointInParallelogram(x, c, d, Vec_add(c, v), Vec_add(d, v))
<1>. DEFINE m  == Area(c, d, v)
            e  == Abs(m)
            f1 == AlongSegment(c, v, a)
            f2 == AlongSegment(c, v, b)
            k1 == AlongShift(c, d, a)
            k2 == AlongShift(c, d, b)
            g1 == Toward(m, f1)
            g2 == Toward(m, f2)
            h1 == Toward(m, k1)
            h2 == Toward(m, k2)
<1>1. m \in Int /\ f1 \in Int /\ f2 \in Int /\ k1 \in Int /\ k2 \in Int
  BY FrameExact
<1>2. Framed(a, c, d, v, e, g1, h1) /\ Framed(b, c, d, v, e, g2, h2)
  BY FrameOf
<1>3. Value(p, q, f1, f2) = s * m /\ Value(p, q, k1, k2) = t * m
  BY PlaceOfSwept
<1>4. /\ p \in Nat /\ q \in Nat /\ r \in Nat /\ s \in Nat /\ t \in Nat
      /\ p + q > 0 /\ q + p > 0 /\ s <= p + q /\ t <= p + q
  BY DEF Swept
<1>5. /\ pointInParallelogram(a, c, d, Vec_add(c, v), Vec_add(d, v)) <=> Within(e, g1, h1)
      /\ pointInParallelogram(b, c, d, Vec_add(c, v), Vec_add(d, v)) <=> Within(e, g2, h2)
  BY InsideIs
<1>. HIDE DEF m, f1, f2, k1, k2
<1>6. Value(p, q, g1, g2) = s * e /\ Value(p, q, h1, h2) = t * e
  <2>1. m # 0 /\ p \in Int /\ q \in Int
    BY <1>4 DEF m
  <2>. QED
    BY <1>1, <1>3, <1>4, <2>1, TowardValue
<1>. HIDE DEF e, g1, g2, h1, h2
<1>7. e \in Nat /\ e > 0 /\ g1 \in Int /\ g2 \in Int /\ h1 \in Int /\ h2 \in Int
  BY <1>2 DEF Framed
<1>8. In(p, q, e, g1, g2) /\ In(q, p, e, g2, g1)
  BY <1>4, <1>6, <1>7, SweptIn
<1>9. In(p, q, e, h1, h2) /\ In(q, p, e, h2, h1)
  BY <1>4, <1>6, <1>7, SweptIn
<1>10. Within(e, g1, h1) \/ \E i, j : OnSide(i, j, e, g1, g2, h1, h2)
  BY <1>4, <1>7, <1>8, <1>9, SideOrWithin
<1>11. Within(e, g2, h2) \/ \E i, j : OnSide(i, j, e, g1, g2, h1, h2)
  <2>1. Within(e, g2, h2) \/ \E i, j : OnSide(i, j, e, g2, g1, h2, h1)
    BY <1>4, <1>7, <1>8, <1>9, SideOrWithin
  <2>2. \A i, j : OnSide(i, j, e, g2, g1, h2, h1) => OnSide(j, i, e, g1, g2, h1, h2)
    BY <1>7, OnSideTurned
  <2>. QED
    BY <2>1, <2>2
<1>12. \A i, j : OnSide(i, j, e, g1, g2, h1, h2) => MeetsSide(a, b, c, d, v)
  BY <1>2, OnSideShared
<1>. QED
  BY <1>5, <1>10, <1>11, <1>12

\* One coordinate of a place, m times enlarged: x is the segment's extent, y that of its shift.
SamePlace1(x, y, m, s, t, g, h) == g * x + h * y = m * (s * x + t * y)

\* It is on a side.
AtSide(w, m, g, h) ==
  /\ m \in Nat /\ g \in Nat /\ h \in Nat /\ m > 0 /\ g <= m * w /\ h <= m * w
  /\ (g = 0 \/ g = m * w \/ h = 0 \/ h = m * w)

\* Segments and shifts on one line cover no more than the segments and the shifts of the ends.
LEMMA FlatForward ==
  ASSUME NEW x \in Int, NEW y \in Int, x > 0, y # 0, NEW w \in Nat, NEW s \in Nat, NEW t \in Nat, s <= w, t <= w
  PROVE  \E m, g, h \in Nat : AtSide(w, m, g, h) /\ SamePlace1(x, y, m, s, t, g, h)
<1>. DEFINE z == s * x + t * y
<1>1. z \in Int
  OBVIOUS
<1>2. s * x <= w * x /\ s * x \in Int /\ w * x \in Int /\ t * y \in Int /\ s * x >= 0
  <2>1. (w - s) * x >= 0 /\ (w - s) * x = w * x - s * x /\ s * x >= 0
    OBVIOUS
  <2>. QED
    BY <2>1
<1>3. CASE z >= 0 /\ z <= w * x
  <2>. HIDE DEF z
  <2>1. AtSide(w, x, z, 0)
    BY <1>1, <1>3 DEF AtSide
  <2>2. z * x + 0 * y = x * z
    BY <1>1
  <2>3. SamePlace1(x, y, x, s, t, z, 0)
    BY <2>2 DEF SamePlace1, z
  <2>. QED
    BY <2>1, <2>3 DEF AtSide
<1>4. CASE z > w * x
  <2>1. y > 0
    <3>. SUFFICES ASSUME y < 0
                  PROVE  FALSE
      OBVIOUS
    <3>1. t * y <= 0
      OBVIOUS
    <3>. QED
      BY <1>2, <1>4, <3>1
  <2>. DEFINE h == z - w * x
  <2>2. h \in Nat /\ h <= y * w /\ y * w \in Nat
    <3>1. (w - t) * y >= 0 /\ (w - t) * y = y * w - t * y
      BY <2>1
    <3>2. y * w \in Int
      OBVIOUS
    <3>3. h \in Nat
      BY <1>1, <1>2, <1>4
    <3>4. h <= t * y
      BY <1>2
    <3>5. y * w >= 0
      BY <2>1
    <3>. QED
      BY <1>2, <3>1, <3>2, <3>3, <3>4, <3>5
  <2>3. (y * w) * x + h * y = y * z
    BY <1>1
  <2>. HIDE DEF h, z
  <2>4. AtSide(w, y, y * w, h)
    BY <2>1, <2>2 DEF AtSide
  <2>5. SamePlace1(x, y, y, s, t, y * w, h)
    BY <2>3 DEF SamePlace1, z
  <2>6. y \in Nat
    BY <2>1
  <2>. QED
    BY <2>2, <2>4, <2>5, <2>6
<1>5. CASE z < 0
  <2>1. y < 0
    <3>. SUFFICES ASSUME y > 0
                  PROVE  FALSE
      OBVIOUS
    <3>1. t * y >= 0
      OBVIOUS
    <3>. QED
      BY <1>2, <1>5, <3>1
  <2>. DEFINE m == 0 - y
              h == 0 - z
  <2>2. h \in Nat /\ m \in Nat /\ m > 0 /\ h <= m * w
    <3>1. (w - t) * (0 - y) >= 0 /\ (w - t) * (0 - y) = (0 - y) * w + t * y
      BY <2>1
    <3>2. (0 - y) * w \in Int
      OBVIOUS
    <3>3. h \in Nat /\ m \in Nat /\ m > 0
      BY <1>1, <1>5, <2>1
    <3>4. h <= 0 - t * y
      BY <1>2
    <3>. QED
      BY <1>2, <3>1, <3>2, <3>3, <3>4
  <2>3. 0 * x + h * y = m * z
    BY <1>1
  <2>. HIDE DEF h, z, m
  <2>4. AtSide(w, m, 0, h)
    BY <2>1, <2>2 DEF AtSide
  <2>5. SamePlace1(x, y, m, s, t, 0, h)
    BY <2>3 DEF SamePlace1, z
  <2>. QED
    BY <2>2, <2>4, <2>5
<1>. QED
  BY <1>1, <1>2, <1>3, <1>4, <1>5

LEMMA SamePlaceTurned ==
  ASSUME NEW x, NEW y, NEW m, NEW s, NEW t, NEW g, NEW h, x \in Int, y \in Int, m \in Int, s \in Int, t \in Int, g \in Int, h \in Int,
         NEW i, NEW j, i = 0 - x, j = 0 - y, SamePlace1(i, j, m, s, t, g, h)
  PROVE  SamePlace1(x, y, m, s, t, g, h)
<1>1. g * (0 - x) + h * (0 - y) = m * (s * (0 - x) + t * (0 - y))
  BY DEF SamePlace1
<1>2. g * (0 - x) + h * (0 - y) = 0 - (g * x + h * y)
  OBVIOUS
<1>3. m * (s * (0 - x) + t * (0 - y)) = 0 - m * (s * x + t * y)
  OBVIOUS
<1>4. g * x + h * y \in Int /\ m * (s * x + t * y) \in Int
  OBVIOUS
<1>. QED
  BY <1>1, <1>2, <1>3, <1>4 DEF SamePlace1

LEMMA FlatPlace ==
  ASSUME NEW x, NEW y, x \in Int, y \in Int, x # 0, NEW w \in Nat, NEW s \in Nat, NEW t \in Nat, s <= w, t <= w
  PROVE  \E m, g, h \in Nat : AtSide(w, m, g, h) /\ SamePlace1(x, y, m, s, t, g, h)
<1>1. CASE y = 0
  <2>1. SamePlace1(x, y, 1, s, t, s, 0) /\ AtSide(w, 1, s, 0)
    BY <1>1 DEF SamePlace1, AtSide
  <2>. QED
    BY <2>1 DEF AtSide
<1>2. CASE y # 0 /\ x > 0
  BY <1>2, FlatForward
<1>3. CASE y # 0 /\ x < 0
  <2>. DEFINE i == 0 - x
              j == 0 - y
  <2>1. i \in Int /\ j \in Int /\ i > 0 /\ j # 0
    BY <1>3
  <2>0. i = 0 - x /\ j = 0 - y
    OBVIOUS
  <2>. HIDE DEF i, j
  <2>2. ASSUME NEW m, NEW g, NEW h, m \in Nat, g \in Nat, h \in Nat, SamePlace1(i, j, m, s, t, g, h)
        PROVE  SamePlace1(x, y, m, s, t, g, h)
    <3>1. m \in Int /\ g \in Int /\ h \in Int /\ s \in Int /\ t \in Int
      BY <2>2
    <3>. QED
      BY <2>0, <2>2, <3>1, SamePlaceTurned
  <2>3. \E m, g, h \in Nat : AtSide(w, m, g, h) /\ SamePlace1(i, j, m, s, t, g, h)
    BY <2>1, FlatForward
  <2>. QED
    BY <2>2, <2>3
<1>. QED
  BY <1>1, <1>2, <1>3

LEMMA OtherPlace ==
  ASSUME NEW x, NEW y, NEW x2, NEW y2, x \in Int, y \in Int, x2 \in Int, y2 \in Int, x # 0, x * y2 - y * x2 = 0,
         NEW m, NEW s, NEW t, NEW g, NEW h, m \in Int, s \in Int, t \in Int, g \in Int, h \in Int,
         SamePlace1(x, y, m, s, t, g, h)
  PROVE  SamePlace1(x2, y2, m, s, t, g, h)
<1>1. g * x + h * y = m * (s * x + t * y)
  BY DEF SamePlace1
<1>. DEFINE k == (g * x2 + h * y2) - m * (s * x2 + t * y2)
            l == (g * x + h * y) - m * (s * x + t * y)
<1>2. x * k = x2 * l + (h - m * t) * (x * y2 - y * x2)
  OBVIOUS
<1>3. l = 0 /\ x2 * 0 = 0 /\ (h - m * t) * 0 = 0
  <2>1. g * x + h * y \in Int
    OBVIOUS
  <2>. QED
    BY <1>1, <2>1
<1>4. x * k = 0
  BY <1>2, <1>3
<1>5. k \in Int
  OBVIOUS
<1>6. k = 0
  <2>. HIDE DEF k
  <2>. QED
    BY <1>4, <1>5
<1>7. g * x2 + h * y2 \in Int /\ m * (s * x2 + t * y2) \in Int
  OBVIOUS
<1>. QED
  BY <1>6, <1>7 DEF SamePlace1

LEMMA PlacedAgain ==
  ASSUME NEW x, NEW y, NEW c, NEW d, NEW v, x \in Int, y \in Int, c \in Int, d \in Int, v \in Int,
         NEW p, NEW q, NEW r, NEW s, NEW t, p \in Int, q \in Int, r \in Int, s \in Int, t \in Int, p + q = r + s,
         Swept1(x, y, c, d, v, p, q, r, s, t),
         NEW m, NEW g, NEW h, m \in Int, g \in Int, h \in Int, NEW u, u = d - c, SamePlace1(u, v, m, s, t, g, h)
  PROVE  Placed1(x, y, c, d, v, m * p, m * q, m * (p + q), g, h)
<1>1. p * x + q * y = (r * c + s * d) + t * v
  BY DEF Swept1
<1>2. (m * p) * x + (m * q) * y = m * (p * x + q * y)
  OBVIOUS
<1>3. g * u + h * v = m * (s * u + t * v)
  BY DEF SamePlace1
<1>4. (r * c + s * d) + t * v = (r + s) * c + (s * u + t * v)
  OBVIOUS
<1>5. m * ((r + s) * c + (s * u + t * v)) = (m * (p + q)) * c + m * (s * u + t * v)
  OBVIOUS
<1>6. ((m * (p + q) - g) * c + g * d) + h * v = (m * (p + q)) * c + (g * u + h * v)
  OBVIOUS
<1>. QED
  BY <1>1, <1>2, <1>3, <1>4, <1>5, <1>6 DEF Placed1

LEMMA AtSideMeets ==
  ASSUME NEW a \in Vectors, NEW b \in Vectors, NEW c \in Vectors, NEW d \in Vectors, NEW v \in Vectors,
         NEW p, NEW q, NEW r, NEW s, NEW t, Swept(a, b, c, d, v, p, q, r, s, t),
         NEW m, NEW g, NEW h, AtSide(p + q, m, g, h),
         NEW u1, NEW u2, u1 = d[1] - c[1], u2 = d[2] - c[2],
         SamePlace1(u1, v[1], m, s, t, g, h), SamePlace1(u2, v[2], m, s, t, g, h)
  PROVE  MeetsSide(a, b, c, d, v)
<1>1. /\ p \in Nat /\ q \in Nat /\ r \in Nat /\ s \in Nat /\ t \in Nat /\ p + q = r + s /\ p + q > 0
      /\ Swept1(a[1], b[1], c[1], d[1], v[1], p, q, r, s, t) /\ Swept1(a[2], b[2], c[2], d[2], v[2], p, q, r, s, t)
  BY DEF Swept
<1>2. /\ m \in Nat /\ g \in Nat /\ h \in Nat /\ m > 0 /\ g <= m * (p + q) /\ h <= m * (p + q)
      /\ (g = 0 \/ g = m * (p + q) \/ h = 0 \/ h = m * (p + q))
  BY DEF AtSide
<1>3. /\ a[1] \in Int /\ a[2] \in Int /\ b[1] \in Int /\ b[2] \in Int
      /\ c[1] \in Int /\ c[2] \in Int /\ d[1] \in Int /\ d[2] \in Int /\ v[1] \in Int /\ v[2] \in Int
  BY DEF Vectors
<1>4. /\ p \in Int /\ q \in Int /\ r \in Int /\ s \in Int /\ t \in Int /\ m \in Int /\ g \in Int /\ h \in Int
  BY <1>1, <1>2
<1>. DEFINE i == m * p
            j == m * q
            w == m * (p + q)
<1>5. Placed1(a[1], b[1], c[1], d[1], v[1], i, j, w, g, h)
  BY <1>1, <1>3, <1>4, PlacedAgain
<1>6. Placed1(a[2], b[2], c[2], d[2], v[2], i, j, w, g, h)
  BY <1>1, <1>3, <1>4, PlacedAgain
<1>7. i \in Nat /\ j \in Nat /\ w \in Nat /\ i + j = w /\ w > 0
  BY <1>1, <1>2
<1>8. g <= w /\ h <= w /\ (g = 0 \/ g = w \/ h = 0 \/ h = w)
  BY <1>2
<1>. HIDE DEF i, j, w
<1>. QED
  BY <1>2, <1>5, <1>6, <1>7, <1>8, SideShared DEF MeetsSide

\* Where the parallelogram is flat, what meets it meets one of its sides.
LEMMA SweptFlat ==
  ASSUME NEW a \in Vectors, NEW b \in Vectors, NEW c \in Vectors, NEW d \in Vectors, NEW v \in Vectors,
         NEW p, NEW q, NEW r, NEW s, NEW t, Swept(a, b, c, d, v, p, q, r, s, t), Area(c, d, v) = 0
  PROVE  MeetsSide(a, b, c, d, v)
<1>. DEFINE u1 == d[1] - c[1]
            u2 == d[2] - c[2]
            v1 == v[1]
            v2 == v[2]
            w  == p + q
<1>1. u1 \in Int /\ u2 \in Int /\ v1 \in Int /\ v2 \in Int
  BY DEF Vectors
<1>2. p \in Nat /\ q \in Nat /\ r \in Nat /\ s \in Nat /\ t \in Nat /\ w \in Nat /\ s <= w /\ t <= w /\ w > 0
  BY DEF Swept
<1>3. u1 * v2 - v1 * u2 = 0
  BY DEF Area, crossProduct, Vec_subtract
<1>4. u2 * v1 - v2 * u1 = 0
  BY <1>1, <1>3
<1>5. ASSUME NEW m, NEW g, NEW h, AtSide(w, m, g, h), SamePlace1(u1, v1, m, s, t, g, h), SamePlace1(u2, v2, m, s, t, g, h)
      PROVE  MeetsSide(a, b, c, d, v)
  BY <1>5, AtSideMeets
<1>6. s \in Int /\ t \in Int /\ \A k \in Nat : k \in Int
  BY <1>2
<1>. HIDE DEF u1, u2, v1, v2, w
<1>7. CASE u1 # 0
  <2>1. PICK m, g, h \in Nat : AtSide(w, m, g, h) /\ SamePlace1(u1, v1, m, s, t, g, h)
    BY <1>1, <1>2, <1>7, FlatPlace
  <2>2. SamePlace1(u2, v2, m, s, t, g, h)
    BY <1>1, <1>3, <1>6, <1>7, <2>1, OtherPlace
  <2>. QED
    BY <1>5, <2>1, <2>2
<1>8. CASE u2 # 0
  <2>1. PICK m, g, h \in Nat : AtSide(w, m, g, h) /\ SamePlace1(u2, v2, m, s, t, g, h)
    BY <1>1, <1>2, <1>8, FlatPlace
  <2>2. SamePlace1(u1, v1, m, s, t, g, h)
    BY <1>1, <1>4, <1>6, <1>8, <2>1, OtherPlace
  <2>. QED
    BY <1>5, <2>1, <2>2
<1>9. CASE u1 = 0 /\ u2 = 0
  <2>1. SamePlace1(u1, v1, 1, s, t, 0, t) /\ SamePlace1(u2, v2, 1, s, t, 0, t)
    BY <1>1, <1>2, <1>9 DEF SamePlace1
  <2>2. AtSide(w, 1, 0, t)
    BY <1>2 DEF AtSide
  <2>. QED
    BY <1>5, <2>1, <2>2
<1>. QED
  BY <1>7, <1>8, <1>9

\* What intersect() looks at
Examined(a, b, c, d, v) ==
  \/ intersectLines(a, b, c, d) \/ intersectLines(a, b, Vec_add(c, v), Vec_add(d, v))
  \/ intersectLines(a, b, Vec_add(c, v), c) \/ intersectLines(a, b, Vec_add(d, v), d)
  \/ \A x \in {a, b} : pointInParallelogram(x, c, d, Vec_add(c, v), Vec_add(d, v))

LEMMA SidesExamined ==
  ASSUME NEW a \in Vectors, NEW b \in Vectors, NEW c \in Vectors, NEW d \in Vectors, NEW v \in Vectors
  PROVE  Examined(a, b, c, d, v) <=>
           \/ MeetsSide(a, b, c, d, v)
           \/ \A x \in {a, b} : pointInParallelogram(x, c, d, Vec_add(c, v), Vec_add(d, v))
<1>1. Vec_add(c, v) \in Vectors /\ Vec_add(d, v) \in Vectors
  BY DEF Vec_add, Vectors
<1>2. /\ intersectLines(a, b, c, d) <=> HavePoint(a, b, c, d)
      /\ intersectLines(a, b, Vec_add(c, v), Vec_add(d, v)) <=> HavePoint(a, b, Vec_add(c, v), Vec_add(d, v))
      /\ intersectLines(a, b, Vec_add(c, v), c) <=> HavePoint(a, b, Vec_add(c, v), c)
      /\ intersectLines(a, b, Vec_add(d, v), d) <=> HavePoint(a, b, Vec_add(d, v), d)
  BY <1>1, SameMeeting
<1>. QED
  BY <1>2 DEF Examined, MeetsSide

LEMMA ReachesExamined ==
  ASSUME NEW a \in Vectors, NEW b \in Vectors, NEW c \in Vectors, NEW d \in Vectors, NEW v \in Vectors,
         NEW n \in Nat, n > 0, ReachesIn(a, b, c, d, v, n)
  PROVE  Examined(a, b, c, d, v)
<1>1. PICK k \in 0..n : \E p, q, r, s \in Nat : Reaches(a, b, c, d, v, n, k, p, q, r, s)
  BY DEF ReachesIn
<1>2. PICK p, q, r, s \in Nat : Reaches(a, b, c, d, v, n, k, p, q, r, s)
  BY <1>1
<1>3. Swept(a, b, c, d, v, n * p, n * q, n * r, n * s, (p + q) * k)
  BY <1>2, ReachesSwept
<1>4. PICK i, j, l, m, t : Swept(a, b, c, d, v, i, j, l, m, t)
  BY <1>3
<1>5. CASE Area(c, d, v) = 0
  BY <1>4, <1>5, SweptFlat, SidesExamined
<1>6. CASE Area(c, d, v) # 0
  BY <1>4, <1>6, SweptSides, SidesExamined
<1>. QED
  BY <1>5, <1>6

LEMMA ExaminedReaches ==
  ASSUME NEW a \in Vectors, NEW b \in Vectors, NEW c \in Vectors, NEW d \in Vectors, NEW v \in Vectors,
         Examined(a, b, c, d, v)
  PROVE  \/ \E n \in Times(a, b, v) : ReachesIn(a, b, c, d, v, n)
         \/ Area(c, d, v) # 0 /\ ReachesIn(a, b, c, d, v, Abs(Area(c, d, v)))
<1>1. CASE MeetsSide(a, b, c, d, v)
  <2>1. 1 \in Times(a, b, v)
    BY DEF Times
  <2>2. CASE HavePoint(a, b, c, d) \/ HavePoint(a, b, Vec_add(c, v), Vec_add(d, v))
    BY <2>1, <2>2, FirstAndLast
  <2>3. CASE HavePoint(a, b, Vec_add(c, v), c) \/ HavePoint(a, b, Vec_add(d, v), d)
    BY <2>3, EndsReach
  <2>. QED
    BY <1>1, <2>2, <2>3 DEF MeetsSide
<1>2. CASE pointInParallelogram(a, c, d, Vec_add(c, v), Vec_add(d, v))
  <2>. DEFINE m == Area(c, d, v)
              g == Toward(m, AlongSegment(c, v, a))
              h == Toward(m, AlongShift(c, d, a))
              e == Abs(m)
  <2>1. m # 0 /\ Within(e, g, h)
    BY <1>2, InsideIs
  <2>2. Framed(a, c, d, v, e, g, h)
    BY <2>1, FrameOf
  <2>. HIDE DEF e, g, h
  <2>3. ReachesIn(a, b, c, d, v, e)
    BY <2>1, <2>2, InsideReaches
  <2>. QED
    BY <2>1, <2>3 DEF e
<1>. QED
  BY <1>1, <1>2, SidesExamined

\* The denominators are those of the moments above.
LEMMA DenominatorsAre ==
  ASSUME NEW l1 \in Line, NEW l2 \in Line, NEW v, v = Vec_subtract(l2.velocity, l1.velocity)
  PROVE  /\ \A n \in Denominators(l1, l2) : n \in Nat /\ n > 0
         /\ Times(l1.p1, l1.p2, v) \subseteq Denominators(l1, l2)
         /\ Area(l2.p1, l2.p2, v) # 0 => Abs(Area(l2.p1, l2.p2, v)) \in Denominators(l1, l2)
<1>. DEFINE a == l1.p1
            b == l1.p2
            c == l2.p1
            d == l2.p2
            m == crossProduct(v, Vec_subtract(a, b))
            k == crossProduct(v, Vec_subtract(c, d))
<1>1. a \in Vectors /\ b \in Vectors /\ c \in Vectors /\ d \in Vectors /\ l1.velocity \in Vectors /\ l2.velocity \in Vectors
  BY DEF Line
<1>2. /\ a[1] \in Int /\ a[2] \in Int /\ b[1] \in Int /\ b[2] \in Int /\ v[1] \in Int /\ v[2] \in Int
      /\ c[1] \in Int /\ c[2] \in Int /\ d[1] \in Int /\ d[2] \in Int
  BY <1>1 DEF Vectors, Vec_subtract
<1>3. m \in Int /\ k \in Int
  <2>1. m = v[1] * (a[2] - b[2]) - (a[1] - b[1]) * v[2] /\ k = v[1] * (c[2] - d[2]) - (c[1] - d[1]) * v[2]
    BY DEF crossProduct, Vec_subtract
  <2>. HIDE DEF a, b, c, d, m, k
  <2>. QED
    BY <1>2, <2>1
<1>4. Area(c, d, v) = k
  <2>1. /\ Area(c, d, v) = (d[1] - c[1]) * v[2] - v[1] * (d[2] - c[2])
        /\ k = v[1] * (c[2] - d[2]) - (c[1] - d[1]) * v[2]
    BY DEF Area, crossProduct, Vec_subtract
  <2>. HIDE DEF a, b, c, d, m, k
  <2>2. (d[1] - c[1]) * v[2] - v[1] * (d[2] - c[2]) = v[1] * (c[2] - d[2]) - (c[1] - d[1]) * v[2]
    BY <1>2
  <2>. QED
    BY <2>1, <2>2
<1>5. Denominators(l1, l2) = {1} \cup ({Abs(t) : t \in {v[1], v[2], m, k}} \ {0})
  BY DEF Denominators
<1>6. Times(a, b, v) = {1} \cup {Abs(t) : t \in {v[1], v[2], m} \ {0}}
  BY DEF Times
<1>7. \A t \in Int : Abs(t) \in Nat /\ (t # 0 => Abs(t) # 0)
  BY DEF Abs
<1>. HIDE DEF a, b, c, d, m, k
<1>8. \A n \in Denominators(l1, l2) : n \in Nat /\ n > 0
  <2>. SUFFICES ASSUME NEW n \in Denominators(l1, l2), n # 1
                PROVE  n \in Nat /\ n > 0
    OBVIOUS
  <2>1. n # 0 /\ \E t \in {v[1], v[2], m, k} : n = Abs(t)
    BY <1>5
  <2>2. n \in Nat
    BY <1>2, <1>3, <1>7, <2>1
  <2>. QED
    BY <2>1, <2>2
<1>9. Times(a, b, v) \subseteq Denominators(l1, l2)
  BY <1>2, <1>3, <1>5, <1>6, <1>7
<1>10. k # 0 => Abs(k) \in Denominators(l1, l2)
  BY <1>3, <1>5, <1>7
<1>. QED
  BY <1>4, <1>8, <1>9, <1>10 DEF a, b, c, d

LEMMA MeetExamined ==
  ASSUME NEW l1 \in Line, NEW l2 \in Line
  PROVE  Meet(l1, l2) <=> Examined(l1.p1, l1.p2, l2.p1, l2.p2, Vec_subtract(l2.velocity, l1.velocity))
<1>. DEFINE a == l1.p1
            b == l1.p2
            c == l2.p1
            d == l2.p2
            v == Vec_subtract(l2.velocity, l1.velocity)
            N == Denominators(l1, l2)
<1>1. a \in Vectors /\ b \in Vectors /\ c \in Vectors /\ d \in Vectors /\ l1.velocity \in Vectors /\ l2.velocity \in Vectors
  BY DEF Line
<1>2. v \in Vectors
  BY <1>1 DEF Vec_subtract, Vectors
<1>3. /\ \A n \in N : n \in Nat /\ n > 0
      /\ Times(a, b, v) \subseteq N
      /\ Area(c, d, v) # 0 => Abs(Area(c, d, v)) \in N
  BY DenominatorsAre
<1>4. Meet(l1, l2) <=> \E n \in N : ReachesIn(a, b, c, d, v, n)
  BY <1>3, MeetReaches
<1>. HIDE DEF a, b, c, d, v, N
<1>5. (\E n \in N : ReachesIn(a, b, c, d, v, n)) => Examined(a, b, c, d, v)
  BY <1>1, <1>2, <1>3, ReachesExamined
<1>6. Examined(a, b, c, d, v) => \E n \in N : ReachesIn(a, b, c, d, v, n)
  BY <1>1, <1>2, <1>3, ExaminedReaches
<1>. QED
  BY <1>4, <1>5, <1>6 DEF a, b, c, d, v

\* intersect() answers that lines do not meet if nothing that it looks at does.
LEMMA NoIntersection ==
  ASSUME NEW l1, NEW l2
  PROVE  intersect(l1, l2) # "NO_INTERSECTION"
           <=> Examined(l1.p1, l1.p2, l2.p1, l2.p2, Vec_subtract(l2.velocity, l1.velocity))
<1>. DEFINE velocity == Vec_subtract(l2.velocity, l1.velocity)
            p1       == Vec_add(l2.p1, velocity)
            p2       == Vec_add(l2.p2, velocity)
            v1       == Vec_subtract(l1.p1, l1.p2)
            v2       == Vec_subtract(l2.p1, l2.p2)
            across   == intersectLines(l1.p1, l1.p2, p1, p2)
            top      == intersectLines(l1.p1, l1.p2, p1, l2.p1)
            bottom   == intersectLines(l1.p1, l1.p2, p2, l2.p2)
            crossed  == {e \in 1..3 : <<across, top, bottom>>[e]}
            a == intersectLines(l1.p1, l1.p2, l2.p1, l2.p2)
            b == Cardinality(crossed) = 2
            c == \A point \in {l1.p1, l1.p2} : pointInParallelogram(point, l2.p1, l2.p2, p1, p2)
            d == crossed = {}
            e == top /\ ArgumentBelow(v1, v2)
            f == bottom /\ ~top /\ ArgumentBelow(v2, v1)
<1>1. intersect(l1, l2) =
        IF a THEN "ALREADY_INTERSECTED" ELSE IF b THEN "L2_WITH_L1" ELSE IF c THEN "L1_WITH_L2"
        ELSE IF d THEN "NO_INTERSECTION" ELSE IF e THEN "L2_WITH_L1" ELSE IF f THEN "L2_WITH_L1" ELSE "L1_WITH_L2"
  BY DEF intersect
<1>2. Examined(l1.p1, l1.p2, l2.p1, l2.p2, velocity) <=> a \/ across \/ top \/ bottom \/ c
  BY DEF Examined
<1>. HIDE DEF across, top, bottom
<1>3. d <=> ~across /\ ~top /\ ~bottom
  <2>1. 1 \in crossed <=> across
    OBVIOUS
  <2>2. 2 \in crossed <=> top
    OBVIOUS
  <2>3. 3 \in crossed <=> bottom
    OBVIOUS
  <2>4. crossed \subseteq {1, 2, 3}
    OBVIOUS
  <2>. HIDE DEF crossed
  <2>5. crossed = {} <=> 1 \notin crossed /\ 2 \notin crossed /\ 3 \notin crossed
    BY <2>4
  <2>. QED
    BY <2>1, <2>2, <2>3, <2>5
<1>4. d => ~b
  <2>. HIDE DEF crossed
  <2>. QED
    BY FS_EmptySet
<1>. HIDE DEF a, b, c, d, e, f
<1>5. intersect(l1, l2) # "NO_INTERSECTION" <=> a \/ b \/ c \/ ~d
  BY <1>1
<1>. QED
  BY <1>2, <1>3, <1>4, <1>5

\* What intersect() finds is that the lines meet.
LEMMA IntersectMeets ==
  ASSUME NEW l1 \in Line, NEW l2 \in Line
  PROVE  (intersect(l1, l2) # "NO_INTERSECTION") = Meet(l1, l2)
  BY MeetExamined, NoIntersection DEF Meet

\* intersect() reports two lines exactly if they meet during the step, for any
\* lines and velocities and in any step: none of the tests that it leaves out
\* would find another pair, and none that it makes finds a pair that never meets.
THEOREM ReportsAreMeetings == Spec => []MeetsExactly
<1>1. LinesInv => MeetsExactly
  <2>. SUFFICES ASSUME LinesInv, pc = "detect", NEW p \in Pairs, Running(p[1], p[2])
                PROVE  (intersect(lines[p[1]], lines[p[2]]) # "NO_INTERSECTION") = Meet(lines[p[1]], lines[p[2]])
    BY DEF MeetsExactly
  <2>1. p[1] \in Ids /\ p[2] \in Ids /\ ~Lost(lines[p[1]]) /\ ~Lost(lines[p[2]])
    BY DEF Pairs, Running
  <2>2. lines[p[1]] \in Line /\ lines[p[2]] \in Line
    BY <2>1 DEF LinesInv, Line
  <2>. QED
    BY <2>2, IntersectMeets
<1>. QED
  BY <1>1, LinesInit, LinesStep, PTL DEF Spec
=============================================================================
