--------------------------- MODULE QuadTreeProofs ---------------------------
(***************************************************************************)
(* Theorems about QuadTree, for any number of lines, any rectangles, any   *)
(* depth of the tree and any order of the strands.                         *)
(*                                                                         *)
(* The invariant is a picture of the tree: R, the nodes reached from the   *)
(* root, part the array; the lines below a node are those of its subtree;  *)
(* lines that may meet lie in one node or one above the other; builds that *)
(* run are at leaves.  Building keeps it.  The detection is then a set of  *)
(* comparisons, each of another pair, and V, the nodes that were called:   *)
(* what is pending is not listed, and what was compared is if it meets.    *)
(***************************************************************************)
EXTENDS QuadTree, Functions, FiniteSetTheorems, NaturalsInduction, WellFoundedInduction, TLAPS

-----------------------------------------------------------------------------
(* Induction, by the least number that is an exception, and the tree.      *)

\* A set of naturals that is not empty has a least one.
LEMMA LeastNatural ==
  ASSUME NEW S \in SUBSET Nat, S # {}
  PROVE  \E n \in S : \A m \in S : n <= m
<1>1. \E R : IsWellFoundedOn(R, Nat) /\ \A m, k \in Nat : m < k => <<m, k>> \in R
  <2>1. \A m, k \in Nat : m < k => <<m, k>> \in OpToRel(<, Nat)
    BY DEF OpToRel
  <2>. QED
    BY <2>1, NatLessThanWellFounded
<1>2. PICK R : IsWellFoundedOn(R, Nat) /\ \A m, k \in Nat : m < k => <<m, k>> \in R
  BY <1>1
<1>3. S \subseteq Nat
  OBVIOUS
<1>4. PICK n \in S : \A m \in S : ~(<<m, n>> \in R)
  <2>1. IsWellFoundedOn(R, Nat)
    BY <1>2
  <2>. QED
    BY <1>3, <2>1, WFMin
<1>5. \A m \in S : n <= m
  <2>. TAKE m \in S
  <2>1. ~(m < n)
    BY <1>2, <1>3, <1>4
  <2>. QED
    BY <1>3, <2>1
<1>. QED
  BY <1>5

\* TreeSize is the function its definition describes.
LEMMA TreeSizeDefined ==
  TreeSize = [d \in 0..MAX_DEPTH |-> IF d = 0 THEN 1 ELSE 4 * TreeSize[d - 1] + 1]
<1>. DEFINE Upto(m, f) == f = [d \in 0..m |-> IF d = 0 THEN 1 ELSE 4 * f[d - 1] + 1]
            bad == {m \in 0..MAX_DEPTH : ~\E f : Upto(m, f)}
<1>1. MAX_DEPTH \in Nat
  BY QuadTreeAssumption
<1>2. bad = {}
  <2>. SUFFICES ASSUME bad # {} PROVE FALSE
    OBVIOUS
  <2>1. PICK m \in bad : \A k \in bad : m <= k
    <3>1. bad \in SUBSET Nat
      BY <1>1
    <3>. HIDE DEF bad
    <3>. QED
      BY <3>1, LeastNatural
  <2>2. CASE m = 0
    <3>1. Upto(0, [d \in 0..0 |-> 1])
      OBVIOUS
    <3>. QED
      BY <2>1, <2>2, <3>1
  <2>3. CASE m # 0
    <3>1. m \in Nat /\ m - 1 \in 0..MAX_DEPTH /\ m - 1 \notin bad
      BY <1>1, <2>1, <2>3
    <3>2. PICK f : Upto(m - 1, f)
      BY <3>1
    <3>. DEFINE g == [d \in 0..m |-> IF d = 0 THEN 1 ELSE 4 * f[d - 1] + 1]
    <3>3. \A d \in 1..m : g[d - 1] = f[d - 1]
      BY <1>1, <2>1, <3>2
    <3>4. g = [d \in 0..m |-> IF d = 0 THEN 1 ELSE 4 * g[d - 1] + 1]
      <4>1. \A d \in 0..m : (IF d = 0 THEN 1 ELSE 4 * f[d - 1] + 1) = (IF d = 0 THEN 1 ELSE 4 * g[d - 1] + 1)
        <5>. TAKE d \in 0..m
        <5>1. d = 0 \/ d \in 1..m
          BY <3>1
        <5>. HIDE DEF g
        <5>. QED
          BY <3>3, <5>1
      <4>. HIDE DEF bad, Upto
      <4>. QED
        BY <4>1
    <3>. QED
      BY <2>1, <3>4
  <2>. QED
    BY <2>2, <2>3
<1>3. \E f : Upto(MAX_DEPTH, f)
  BY <1>1, <1>2
<1>. QED
  BY <1>3 DEF TreeSize

\* The sizes of the trees of the levels 0 to d grow with d.
LEMMA TreeSizes ==
  /\ MAX_DEPTH \in Nat \ {0}
  /\ \A d \in 0..MAX_DEPTH : TreeSize[d] \in Nat \ {0} /\ TreeSize[d] <= TreeSize[MAX_DEPTH]
  /\ TreeSize[0] = 1
  /\ \A d \in 1..MAX_DEPTH : TreeSize[d] = 4 * TreeSize[d - 1] + 1
<1>1. MAX_DEPTH \in Nat \ {0}
  BY QuadTreeAssumption
<1>2. TreeSize[0] = 1 /\ \A d \in 1..MAX_DEPTH : TreeSize[d] = 4 * TreeSize[d - 1] + 1
  <2>1. 0 \in 0..MAX_DEPTH /\ \A d \in 1..MAX_DEPTH : d \in 0..MAX_DEPTH /\ d # 0
    BY <1>1
  <2>. QED
    BY <2>1, TreeSizeDefined
<1>3. \A d \in 0..MAX_DEPTH : TreeSize[d] \in Nat \ {0}
  <2>. DEFINE bad == {d \in 0..MAX_DEPTH : TreeSize[d] \notin Nat \ {0}}
  <2>. SUFFICES ASSUME bad # {} PROVE FALSE
    OBVIOUS
  <2>1. PICK d \in bad : \A e \in bad : d <= e
    <3>1. bad \in SUBSET Nat
      BY <1>1
    <3>. HIDE DEF bad
    <3>. QED
      BY <3>1, LeastNatural
  <2>2. d \in 0..MAX_DEPTH /\ d # 0
    BY <1>2, <2>1
  <2>3. d - 1 \in 0..MAX_DEPTH /\ d \in 1..MAX_DEPTH /\ ~(d <= d - 1)
    BY <1>1, <2>2
  <2>4. TreeSize[d - 1] \in Nat
    BY <2>1, <2>3
  <2>5. TreeSize[d] \in Nat \ {0}
    BY <1>2, <2>3, <2>4
  <2>. QED
    BY <2>1, <2>5
<1>4. \A d \in 0..MAX_DEPTH : TreeSize[d] <= TreeSize[MAX_DEPTH]
  <2>. DEFINE bad == {k \in 0..MAX_DEPTH : ~(TreeSize[MAX_DEPTH - k] <= TreeSize[MAX_DEPTH])}
  <2>1. bad = {}
    <3>. SUFFICES ASSUME bad # {} PROVE FALSE
      OBVIOUS
    <3>1. PICK k \in bad : \A e \in bad : k <= e
      <4>1. bad \in SUBSET Nat
        BY <1>1
      <4>. HIDE DEF bad
      <4>. QED
        BY <4>1, LeastNatural
    <3>2. k \in 0..MAX_DEPTH /\ MAX_DEPTH - k \in 0..MAX_DEPTH
      BY <1>1, <3>1
    <3>3. k # 0
      BY <1>1, <1>3, <3>1
    <3>4. k - 1 \in 0..MAX_DEPTH /\ k - 1 \notin bad /\ MAX_DEPTH - (k - 1) = (MAX_DEPTH - k) + 1
          /\ (MAX_DEPTH - k) + 1 \in 1..MAX_DEPTH /\ ((MAX_DEPTH - k) + 1) - 1 = MAX_DEPTH - k
      BY <1>1, <3>1, <3>2, <3>3
    <3>5. TreeSize[(MAX_DEPTH - k) + 1] <= TreeSize[MAX_DEPTH]
      BY <3>4
    <3>6. TreeSize[(MAX_DEPTH - k) + 1] = 4 * TreeSize[MAX_DEPTH - k] + 1
      BY <1>2, <3>4
    <3>7. TreeSize[MAX_DEPTH - k] <= TreeSize[MAX_DEPTH]
      <4>1. TreeSize[MAX_DEPTH - k] \in Nat /\ TreeSize[MAX_DEPTH] \in Nat
        BY <1>1, <1>3, <3>2
      <4>. QED
        BY <3>5, <3>6, <4>1
    <3>. QED
      BY <3>1, <3>7
  <2>. SUFFICES ASSUME NEW d \in 0..MAX_DEPTH PROVE TreeSize[d] <= TreeSize[MAX_DEPTH]
    OBVIOUS
  <2>2. MAX_DEPTH - d \in 0..MAX_DEPTH /\ MAX_DEPTH - (MAX_DEPTH - d) = d
    BY <1>1
  <2>. QED
    BY <2>1, <2>2
<1>. QED
  BY <1>1, <1>2, <1>3, <1>4

-----------------------------------------------------------------------------
(* The inductive invariant.  R are the nodes reached from the root.        *)

\* A leaf of the tree as it is now
Leaf(n) == tree[n].child_lines = NULL

\* R is what is reached from the root through the nodes that are split.
Grown(R) ==
  /\ R \subseteq Nodes /\ 0 \in R
  /\ \A n \in R : n # 0 => \E m \in R : ~Leaf(m) /\ \E q \in Quadrants : n = Child(m, q)
  /\ \A m \in R : ~Leaf(m) => \A q \in Quadrants : Child(m, q) \in R

\* Each place of the array is in one of these nodes, and in no other.
Parted(R) ==
  /\ \A n \in R : 0 <= tree[n].lines /\ tree[n].lines + tree[n].num_lines <= numOfLines
  /\ \A n \in R : ~Leaf(n) => tree[n].child_lines + tree[n].child_num_lines <= numOfLines
  /\ \A i \in Slots : \E n \in R : i \in Own(n)
  /\ \A n, m \in R : n # m => Own(n) \cap Own(m) = {}

\* The lines below a node are those of its children and of what is below
\* them, and no others.
Nested(R) ==
  /\ \A n \in R : ~Leaf(n) => Below(n) = UNION {Segment(Child(n, q)) : q \in Quadrants}
  /\ \A n, m \in R : ~Leaf(n) => Own(m) \subseteq Below(n) \/ Own(m) \cap Below(n) = {}
  /\ \A n \in R : ~Leaf(n) => Own(n) \cap Below(n) = {}
  /\ \A n, m \in R : ~Leaf(n) /\ ~Leaf(m) =>
       \A i \in Own(n), j \in Own(m) : ~(j \in Below(n) /\ i \in Below(m))

\* Lines that may meet are in one node, or one is below the other.
Together(R) ==
  \A n, m \in R : \A i \in Own(n), j \in Own(m) : intersect(lines[i], lines[j]) =>
    \/ n = m
    \/ ~Leaf(n) /\ j \in Below(n)
    \/ ~Leaf(m) /\ i \in Below(m)

\* A node of this level: the nodes are numbered level by level.
OnLevel(n, d) == IF d = 0 THEN n = 0 ELSE TreeSize[d - 1] <= n /\ n < TreeSize[d]

\* The builds to come, and what they will leave
Waiting(R) ==
  /\ builds \subseteq [index : Nodes, box : Rects, depth : 0..(MAX_DEPTH - 1)]
  /\ \A b \in builds : b.index \in R /\ Leaf(b.index) /\ OnLevel(b.index, b.depth)
  /\ \A b, c \in builds : b.index = c.index => b = c
  /\ \A n \in R : Leaf(n) /\ tree[n].num_lines > MAX_BIN =>
       (\E b \in builds : b.index = n) \/ Child(n, 0) \notin Nodes

Picture(R) == Grown(R) /\ Parted(R) /\ Nested(R) /\ Together(R) /\ Waiting(R)

\* The lines, the rectangles and the nodes
TreeTypeOK ==
  /\ lines \in [Slots -> Lines] /\ \A l \in Lines : \E i \in Slots : lines[i] = l
  /\ tree \in [Nodes -> [lines : -1..numOfLines, child_lines : -1..numOfLines,
                          num_lines : 0..numOfLines, child_num_lines : 0..numOfLines]]
  /\ scene \in [Lines -> Rects]
  /\ phase \in {"idle", "build", "detect"} /\ step \in 0..MaxSteps

\* What the tree, the lines and the builds are between any two steps
TreeInv ==
  /\ TreeTypeOK
  /\ phase # "build" => builds = {}
  /\ phase # "detect" => strands = {}
  /\ phase # "idle" => \E R \in SUBSET Nodes : Picture(R)

\* The comparison of one pair, by check_within_quadtree() or by
\* check_with_children(): i and j are those of its loops.
IsTask(fn, n, i, j) ==
  \/ fn = "within" /\ i \in Nat /\ j \in Nat /\ i < j /\ j < tree[n].num_lines
  \/ fn = "children" /\ ~Leaf(n) /\ i \in Nat /\ j \in Nat
     /\ i < tree[n].child_num_lines /\ j < tree[n].num_lines

\* Where its lines lie, and the pair that would be listed
FirstSlot(fn, n, i) == (IF fn = "within" THEN tree[n].lines ELSE tree[n].child_lines) + i
SecondSlot(n, j) == tree[n].lines + j
PairOf(fn, n, i, j) == Ordered(lines[FirstSlot(fn, n, i)], lines[SecondSlot(n, j)])

\* The two kinds of loops, and the strands of their iterations
Loops == {"within", "children"}
StrandTypes == [fn : Loops, index : Nodes, i : Nat, j : Nat, pc : {"line1", "line2", "check"}]

\* The comparison is still to be made: its node is not called yet, or its
\* iteration has not come to it.
Pending(V, fn, n, i, j) ==
  n \notin V \/ \E s \in strands : s.fn = fn /\ s.index = n /\ s.i = i /\ s.j <= j

\* V are the nodes that were called: whole paths from the root, whose
\* children are called too, will be, or need not be.
Visits(R, V) ==
  /\ V \subseteq R
  /\ \A m \in R : \A q \in Quadrants : ~Leaf(m) /\ Child(m, q) \in V => m \in V
  /\ 0 \in V \/ DetectStrand(0) \in strands
  /\ \A m \in V : \A q \in Quadrants : ~Leaf(m) =>
       Child(m, q) \in V \/ DetectStrand(Child(m, q)) \in strands \/ ~Busy(Child(m, q))

\* A strand is a call to come, or an iteration at a comparison of a node that
\* was called; no iteration has two strands.
StrandsOK(R, V) ==
  /\ \A s \in strands : s.fn = "detect" =>
       /\ s = DetectStrand(s.index) /\ s.index \in R \ V
       /\ s.index # 0 => \E m \in V : ~Leaf(m) /\ \E q \in Quadrants : s.index = Child(m, q)
  /\ \A s \in strands : s.fn # "detect" =>
       /\ s \in StrandTypes
       /\ s.index \in V /\ IsTask(s.fn, s.index, s.i, s.j)
  /\ \A s, t \in strands : s.fn = t.fn /\ s.index = t.index /\ s.i = t.i => s = t

\* line1 and line2 hold lines when they are used; they are those the iteration
\* has stored if the loops run in turn.
FramesOK(inTurn) ==
  /\ \A f \in DOMAIN frames : frames[f] \in [line1 : Nat, line2 : Nat]
  /\ \A s \in strands : s.pc \in {"line2", "check"} =>
       /\ Frame(s) \in DOMAIN frames /\ frames[Frame(s)].line1 \in Lines
       /\ inTurn => frames[Frame(s)].line1 = FirstLine(s)
  /\ \A s \in strands : s.pc = "check" =>
       /\ frames[Frame(s)].line2 \in Lines
       /\ inTurn => frames[Frame(s)].line2 = SecondLine(s)

\* The pair of a comparison that was made is listed if it meets, and that of
\* one to come is not.
Found(R, V) ==
  /\ \A fn \in Loops, n \in R, i, j \in 0..numOfLines : IsTask(fn, n, i, j) =>
       IF Pending(V, fn, n, i, j) THEN PairOf(fn, n, i, j) \notin DOMAIN events
       ELSE PairOf(fn, n, i, j) \in Hits => PairOf(fn, n, i, j) \in DOMAIN events

\* The list holds pairs that meet, each once, and is counted rightly.
EventsOK ==
  /\ DOMAIN events \subseteq Hits /\ \A p \in DOMAIN events : events[p] = 1
  /\ size = Cardinality(DOMAIN events)

-----------------------------------------------------------------------------
(* Lines, nodes and quadrants.                                             *)

\* The lines and their places are as many.
LEMMA Places ==
  /\ numOfLines \in Nat /\ IsFiniteSet(Lines)
  /\ IsFiniteSet(Slots) /\ Cardinality(Slots) = numOfLines
<1>1. numOfLines \in Nat /\ IsFiniteSet(Lines)
  BY QuadTreeAssumption, FS_CardinalityType DEF numOfLines
<1>2. IsFiniteSet(0..(numOfLines - 1)) /\ Cardinality(0..(numOfLines - 1)) = numOfLines
  <2>1. 0 \in Int /\ numOfLines - 1 \in Int
    BY <1>1
  <2>2. /\ IsFiniteSet(0..(numOfLines - 1))
        /\ Cardinality(0..(numOfLines - 1)) = IF 0 > numOfLines - 1 THEN 0 ELSE (numOfLines - 1) - 0 + 1
    BY <2>1, FS_Interval
  <2>. QED
    BY <1>1, <2>2
<1>. QED
  BY <1>1, <1>2 DEF Slots

\* An array that holds every line holds none twice.
LEMMA HeldOnce ==
  ASSUME NEW a \in [Slots -> Lines], \A l \in Lines : \E i \in Slots : a[i] = l
  PROVE  \A i, j \in Slots : a[i] = a[j] => i = j
<1>1. a \in Surjection(Slots, Lines)
  BY DEF Surjection
<1>2. Cardinality(Slots) = Cardinality(Lines) /\ IsFiniteSet(Slots)
  BY Places DEF numOfLines
<1>3. a \in Injection(Slots, Lines)
  BY <1>1, <1>2, FS_SurjSameCardinalityImpliesInj
<1>. QED
  BY <1>3 DEF Injection, IsInjective

\* A set of places without gaps from the first is the first of its number.
LEMMA Prefix ==
  ASSUME NEW D, NEW n \in Nat, D \subseteq 0..(n - 1),
         \A i \in D : \A j \in 0..(n - 1) : j < i => j \in D
  PROVE  IsFiniteSet(D) /\ Cardinality(D) \in Nat /\ D = 0..(Cardinality(D) - 1)
<1>1. IsFiniteSet(0..(n - 1))
  BY FS_Interval
<1>2. IsFiniteSet(D)
  BY <1>1, FS_Subset
<1>3. Cardinality(D) \in Nat
  BY <1>2, FS_CardinalityType
<1>4. \A i \in D : i \in 0..(Cardinality(D) - 1)
  <2>. TAKE i \in D
  <2>1. i \in Nat /\ i + 1 \in Nat
    OBVIOUS
  <2>2. 0..i \subseteq D
    <3>. SUFFICES ASSUME NEW j \in 0..i PROVE j \in D
      OBVIOUS
    <3>1. j = i \/ (j \in 0..(n - 1) /\ j < i)
      BY <2>1
    <3>. QED
      BY <3>1
  <2>3. IsFiniteSet(0..i) /\ Cardinality(0..i) = i + 1
    <3>1. 0 \in Int /\ i \in Int
      BY <2>1
    <3>2. Cardinality(0..i) = IF 0 > i THEN 0 ELSE i - 0 + 1
      BY <3>1, FS_Interval
    <3>. QED
      BY <2>1, <3>1, <3>2, FS_Interval
  <2>4. Cardinality(0..i) <= Cardinality(D)
    BY <1>2, <2>2, FS_Subset
  <2>. QED
    BY <1>3, <2>1, <2>3, <2>4
<1>5. IsFiniteSet(0..(Cardinality(D) - 1)) /\ Cardinality(0..(Cardinality(D) - 1)) = Cardinality(D)
  <2>1. 0 \in Int /\ Cardinality(D) - 1 \in Int
    BY <1>3
  <2>2. /\ IsFiniteSet(0..(Cardinality(D) - 1))
        /\ Cardinality(0..(Cardinality(D) - 1)) = IF 0 > Cardinality(D) - 1 THEN 0 ELSE (Cardinality(D) - 1) - 0 + 1
    BY <2>1, FS_Interval
  <2>. QED
    BY <1>3, <2>2
<1>6. D \subseteq 0..(Cardinality(D) - 1)
  BY <1>4
<1>7. D = 0..(Cardinality(D) - 1)
  BY <1>5, <1>6, FS_Subset
<1>. QED
  BY <1>2, <1>3, <1>7

\* The children of a node, and the node a child is of
LEMMA Children ==
  /\ \A n \in Nat, q \in Quadrants : Child(n, q) \in Nat /\ Child(n, q) > n
  /\ \A n, m \in Nat, q, p \in Quadrants : Child(n, q) = Child(m, p) => n = m /\ q = p
BY DEF Child, Quadrants

\* The children of a node are on the next level, and below the last there
\* is none.
LEMMA LevelDown ==
  ASSUME NEW n \in Nat, NEW d \in 0..(MAX_DEPTH - 1), OnLevel(n, d), NEW q \in Quadrants
  PROVE  /\ OnLevel(Child(n, q), d + 1) /\ Child(n, q) \in Nodes
         /\ d + 1 = MAX_DEPTH => Child(Child(n, q), 0) \notin Nodes
<1>1. MAX_DEPTH \in Nat \ {0} /\ d \in Nat /\ d + 1 \in 1..MAX_DEPTH /\ (d + 1) - 1 = d
  BY TreeSizes
<1>2. /\ TreeSize[d] \in Nat /\ TreeSize[d + 1] \in Nat /\ TreeSize[d + 1] = 4 * TreeSize[d] + 1
      /\ TreeSize[d + 1] <= TreeSize[MAX_DEPTH] /\ TreeSize[MAX_DEPTH] \in Nat
  BY <1>1, TreeSizes
<1>3. q \in 0..3 /\ Child(n, q) = 4 * n + 1 + q
  BY DEF Quadrants, Child
<1>4. n < TreeSize[d] /\ 4 * n + 1 + q >= TreeSize[d]
  <2>1. CASE d = 0
    BY <1>1, <1>3, <2>1, TreeSizes DEF OnLevel
  <2>2. CASE d # 0
    <3>1. d \in 1..MAX_DEPTH /\ d - 1 \in 0..MAX_DEPTH
      BY <1>1, <2>2
    <3>2. TreeSize[d] = 4 * TreeSize[d - 1] + 1 /\ TreeSize[d - 1] \in Nat
      BY <3>1, TreeSizes
    <3>. QED
      BY <1>3, <2>2, <3>2 DEF OnLevel
  <2>. QED
    BY <2>1, <2>2
<1>5. Child(n, q) \in Nat /\ TreeSize[d] <= Child(n, q) /\ Child(n, q) < TreeSize[d + 1]
  BY <1>2, <1>3, <1>4
<1>6. OnLevel(Child(n, q), d + 1)
  BY <1>1, <1>5 DEF OnLevel
<1>7. Child(n, q) \in Nodes
  BY <1>2, <1>5 DEF Nodes, QUADTREE_SIZE
<1>8. d + 1 = MAX_DEPTH => Child(Child(n, q), 0) \notin Nodes
  <2>1. Child(Child(n, q), 0) = 4 * Child(n, q) + 1
    BY <1>5 DEF Child
  <2>. QED
    BY <1>2, <1>5, <2>1 DEF Nodes, QUADTREE_SIZE
<1>. QED
  BY <1>6, <1>7, <1>8

\* Lines of different quadrants do not meet.
LEMMA QuadrantsApart ==
  ASSUME NEW r \in Rects, NEW s \in Rects, NEW box \in Rects,
         get_quadrant_number(r, box) # get_quadrant_number(s, box),
         get_quadrant_number(r, box) \in Quadrants, get_quadrant_number(s, box) \in Quadrants
  PROVE  ApartInX(r, s) \/ ApartInY(r, s)
<1>1. mid_x(box) \in Int /\ mid_y(box) \in Int
  BY DEF Rects, mid_x, mid_y
<1>2. /\ r.xmin \in Int /\ r.xmax \in Int /\ r.ymin \in Int /\ r.ymax \in Int
      /\ s.xmin \in Int /\ s.xmax \in Int /\ s.ymin \in Int /\ s.ymax \in Int
  BY DEF Rects
<1>. QED
  BY <1>1, <1>2 DEF get_quadrant_number, ApartInX, ApartInY, Quadrants

\* A quadrant is a rectangle.
LEMMA BoxTyped ==
  ASSUME NEW box \in Rects, NEW q \in Quadrants
  PROVE  QuadrantBox(box, q) \in Rects
<1>1. mid_x(box) \in Int /\ mid_y(box) \in Int
  BY DEF Rects, mid_x, mid_y
<1>. QED
  BY <1>1 DEF QuadrantBox, Rects

\* A quadrant has a number from 0 to 4.
LEMMA QuadrantTyped ==
  \A r, box : get_quadrant_number(r, box) \in 0..4
BY DEF get_quadrant_number

-----------------------------------------------------------------------------
(* The sorted array.                                                       *)

\* Where the pointers of QuadTree_buildQuadTree() point
LEMMA Starts ==
  ASSUME NEW base \in Int, NEW sz, \A q \in 0..4 : sz[q] \in Nat
  PROVE  /\ QuadrantStart(base, sz, 0) = base
         /\ \A q \in 0..3 : QuadrantStart(base, sz, q + 1) = QuadrantStart(base, sz, q) + sz[q]
         /\ \A q \in 0..4 : QuadrantStart(base, sz, q) \in Int /\ QuadrantStart(base, sz, q) >= base
                            /\ QuadrantStart(base, sz, q) = base + QuadrantStart(0, sz, q)
         /\ QuadrantStart(base, sz, 4) = base + sz[0] + sz[1] + sz[2] + sz[3]
<1>1. sz[0] \in Nat /\ sz[1] \in Nat /\ sz[2] \in Nat /\ sz[3] \in Nat /\ sz[4] \in Nat
  OBVIOUS
<1>2. \A b \in Int : /\ QuadrantStart(b, sz, 0) = b /\ QuadrantStart(b, sz, 1) = b + sz[0]
         /\ QuadrantStart(b, sz, 2) = b + sz[0] + sz[1] /\ QuadrantStart(b, sz, 3) = b + sz[0] + sz[1] + sz[2]
         /\ QuadrantStart(b, sz, 4) = b + sz[0] + sz[1] + sz[2] + sz[3]
  BY <1>1 DEF QuadrantStart, NoQuadrant
<1>3. \A q \in 0..4 : q = 0 \/ q = 1 \/ q = 2 \/ q = 3 \/ q = 4
  OBVIOUS
<1>4. \A q \in 0..3 : q = 0 \/ q = 1 \/ q = 2 \/ q = 3
  OBVIOUS
<1>5. \A q \in 0..3 : QuadrantStart(base, sz, q + 1) = QuadrantStart(base, sz, q) + sz[q]
  <2>. TAKE q \in 0..3
  <2>. QED
    BY <1>1, <1>2, <1>4
<1>6. \A q \in 0..4 : QuadrantStart(base, sz, q) \in Int /\ QuadrantStart(base, sz, q) >= base
                      /\ QuadrantStart(base, sz, q) = base + QuadrantStart(0, sz, q)
  <2>. TAKE q \in 0..4
  <2>. QED
    BY <1>1, <1>2, <1>3
<1>. QED
  BY <1>2, <1>5, <1>6

\* In an arrangement, the lines of each quadrant are where the pointers say.
LEMMA Sorting ==
  ASSUME NEW own, IsFiniteSet(own), NEW quad \in [own -> 0..4], NEW sorted \in Arrangements(own, quad),
         NEW sz, \A q \in 0..4 : sz[q] = Cardinality({l \in own : quad[l] = q})
  PROVE  /\ \A q \in 0..4 : sz[q] \in Nat
         /\ QuadrantStart(0, sz, 4) + sz[4] = Cardinality(own)
         /\ \A q \in 0..4 : \A i \in 0..(Cardinality(own) - 1) :
              QuadrantStart(0, sz, q) <= i /\ i < QuadrantStart(0, sz, q) + sz[q] => quad[sorted[i]] = q
<1>. DEFINE n    == Cardinality(own)
            P(q) == {i \in 0..(n - 1) : quad[sorted[i]] = q}
            D(q) == {i \in 0..(n - 1) : quad[sorted[i]] <= q}
            c(q) == Cardinality(D(q))
<1>1. n \in Nat /\ IsFiniteSet(0..(n - 1)) /\ Cardinality(0..(n - 1)) = n
  <2>1. n \in Nat
    BY FS_CardinalityType
  <2>2. 0 \in Int /\ n - 1 \in Int
    BY <2>1
  <2>3. IsFiniteSet(0..(n - 1)) /\ Cardinality(0..(n - 1)) = IF 0 > n - 1 THEN 0 ELSE (n - 1) - 0 + 1
    BY <2>2, FS_Interval
  <2>. QED
    BY <2>1, <2>3
<1>2. /\ sorted \in [0..(n - 1) -> own]
      /\ \A l \in own : \E i \in 0..(n - 1) : sorted[i] = l
      /\ \A i, j \in 0..(n - 1) : sorted[i] = sorted[j] => i = j
      /\ \A i, j \in 0..(n - 1) : i < j => quad[sorted[i]] <= quad[sorted[j]]
  BY DEF Arrangements, OrdersOf
<1>3. \A i \in 0..(n - 1) : quad[sorted[i]] \in 0..4
  BY <1>2
<1>4. ASSUME NEW q \in 0..4 PROVE IsFiniteSet(P(q)) /\ Cardinality(P(q)) = sz[q] /\ sz[q] \in Nat
  <2>. DEFINE In == {l \in own : quad[l] = q}
              f  == [i \in P(q) |-> sorted[i]]
  <2>1. IsFiniteSet(P(q))
    BY <1>1, FS_Subset
  <2>2. f \in [P(q) -> In]
    BY <1>2
  <2>3. \A i, j \in P(q) : f[i] = f[j] => i = j
    BY <1>2
  <2>4. \A l \in In : \E i \in P(q) : f[i] = l
    BY <1>2
  <2>5. f \in Bijection(P(q), In)
    BY <2>2, <2>3, <2>4 DEF Bijection, Injection, Surjection, IsInjective
  <2>6. Cardinality(In) = Cardinality(P(q))
    BY <2>1, <2>5, FS_Bijection DEF ExistsBijection
  <2>7. Cardinality(P(q)) \in Nat
    BY <2>1, FS_CardinalityType
  <2>. QED
    BY <2>1, <2>6, <2>7
<1>5. ASSUME NEW q \in Int PROVE IsFiniteSet(D(q)) /\ c(q) \in Nat /\ D(q) = 0..(c(q) - 1)
  <2>1. D(q) \subseteq 0..(n - 1)
    OBVIOUS
  <2>2. \A i \in D(q) : \A j \in 0..(n - 1) : j < i => j \in D(q)
    <3>. SUFFICES ASSUME NEW i \in D(q), NEW j \in 0..(n - 1), j < i PROVE quad[sorted[j]] <= q
      OBVIOUS
    <3>1. quad[sorted[j]] <= quad[sorted[i]] /\ quad[sorted[i]] <= q
      BY <1>2
    <3>2. quad[sorted[j]] \in 0..4 /\ quad[sorted[i]] \in 0..4
      BY <1>3
    <3>. QED
      BY <3>1, <3>2
  <2>. HIDE DEF D
  <2>. QED
    BY <1>1, <2>1, <2>2, Prefix
<1>6. ASSUME NEW q \in 0..4 PROVE c(q) = c(q - 1) + sz[q]
  <2>1. D(q) = D(q - 1) \cup P(q) /\ D(q - 1) \cap P(q) = {}
    BY <1>3
  <2>2. q - 1 \in Int
    OBVIOUS
  <2>3. IsFiniteSet(D(q - 1)) /\ IsFiniteSet(P(q)) /\ c(q - 1) \in Nat /\ Cardinality(P(q)) = sz[q] /\ sz[q] \in Nat
    <3>. HIDE DEF P, D
    <3>. QED
      BY <1>4, <1>5, <2>2 DEF c
  <2>4. Cardinality(D(q - 1) \cup P(q)) = Cardinality(D(q - 1)) + Cardinality(P(q)) - Cardinality(D(q - 1) \cap P(q))
    BY <2>3, FS_Union
  <2>5. Cardinality(D(q - 1) \cap P(q)) = 0
    BY <2>1, FS_EmptySet
  <2>. HIDE DEF D, P
  <2>. QED
    BY <2>1, <2>3, <2>4, <2>5
<1>7. c(-1) = 0
  <2>1. D(-1) = {}
    BY <1>3
  <2>. QED
    BY <2>1, FS_EmptySet
<1>8. c(4) = n
  <2>1. D(4) = 0..(n - 1)
    BY <1>3
  <2>. QED
    BY <1>1, <2>1
<1>9. \A q \in 0..4 : sz[q] \in Nat
  BY <1>4
<1>. HIDE DEF c, D, P
<1>10. /\ c(0) = sz[0] /\ c(1) = sz[0] + sz[1] /\ c(2) = sz[0] + sz[1] + sz[2]
       /\ c(3) = sz[0] + sz[1] + sz[2] + sz[3] /\ c(4) = sz[0] + sz[1] + sz[2] + sz[3] + sz[4]
  <2>1. c(0) = c(0 - 1) + sz[0] /\ c(1) = c(1 - 1) + sz[1] /\ c(2) = c(2 - 1) + sz[2]
        /\ c(3) = c(3 - 1) + sz[3] /\ c(4) = c(4 - 1) + sz[4]
    BY <1>6
  <2>2. sz[0] \in Nat /\ sz[1] \in Nat /\ sz[2] \in Nat /\ sz[3] \in Nat /\ sz[4] \in Nat
    BY <1>9
  <2>3. 0 - 1 = -1 /\ 1 - 1 = 0 /\ 2 - 1 = 1 /\ 3 - 1 = 2 /\ 4 - 1 = 3
    OBVIOUS
  <2>. QED
    BY <1>7, <2>1, <2>2, <2>3
<1>11. \A q \in 0..4 : QuadrantStart(0, sz, q) = c(q - 1)
  <2>. TAKE q \in 0..4
  <2>1. q = 0 \/ q = 1 \/ q = 2 \/ q = 3 \/ q = 4
    OBVIOUS
  <2>2. sz[0] \in Nat /\ sz[1] \in Nat /\ sz[2] \in Nat /\ sz[3] \in Nat /\ sz[4] \in Nat
    BY <1>9
  <2>3. 0 - 1 = -1 /\ 1 - 1 = 0 /\ 2 - 1 = 1 /\ 3 - 1 = 2 /\ 4 - 1 = 3
    OBVIOUS
  <2>. QED
    BY <1>7, <1>10, <2>1, <2>2, <2>3 DEF QuadrantStart, NoQuadrant
<1>12. \A q \in 0..4 : \A i \in 0..(n - 1) : c(q - 1) <= i /\ i < c(q) => quad[sorted[i]] = q
  <2>. SUFFICES ASSUME NEW q \in 0..4, NEW i \in 0..(n - 1), c(q - 1) <= i, i < c(q)
                PROVE  quad[sorted[i]] = q
    OBVIOUS
  <2>1. q \in Int /\ q - 1 \in Int /\ i \in Nat
    BY <1>1
  <2>2. D(q) = 0..(c(q) - 1) /\ c(q) \in Nat /\ D(q - 1) = 0..(c(q - 1) - 1) /\ c(q - 1) \in Nat
    BY <1>5, <2>1
  <2>3. i \in D(q) /\ i \notin D(q - 1)
    BY <2>1, <2>2
  <2>. QED
    BY <1>3, <2>1, <2>3 DEF D
<1>13. QuadrantStart(0, sz, 4) + sz[4] = n
  <2>1. QuadrantStart(0, sz, 4) = c(3)
    BY <1>11
  <2>2. sz[0] \in Nat /\ sz[1] \in Nat /\ sz[2] \in Nat /\ sz[3] \in Nat /\ sz[4] \in Nat
    BY <1>9
  <2>. QED
    BY <1>8, <1>10, <2>1, <2>2
<1>14. \A q \in 0..4 : c(q) = c(q - 1) + sz[q]
  BY <1>6
<1>. QED
  BY <1>9, <1>11, <1>12, <1>13, <1>14

-----------------------------------------------------------------------------
(* Nodes are written.                                                      *)

\* The values of a node
NodeTypes == [lines : -1..numOfLines, child_lines : -1..numOfLines,
              num_lines : 0..numOfLines, child_num_lines : 0..numOfLines]

\* QuadTree_new() starts a leaf anew and writes no other node.
LEMMA NewNode ==
  ASSUME NEW t \in [Nodes -> NodeTypes], NEW index \in Nodes, NEW n \in 0..numOfLines, NEW ptr \in 0..numOfLines,
         NEW u, u = QuadTree_new(t, index, n, ptr)
  PROVE  /\ u \in [Nodes -> NodeTypes]
         /\ u[index].lines = ptr /\ u[index].num_lines = n /\ u[index].child_lines = NULL
         /\ \A m \in Nodes : m # index => u[m] = t[m]
<1>. DEFINE r == [[[t[index] EXCEPT !.lines = ptr] EXCEPT !.num_lines = n] EXCEPT !.child_lines = NULL]
<1>1. numOfLines \in Nat /\ NULL = -1
  BY Places DEF NULL
<1>2. ptr \in -1..numOfLines /\ NULL \in -1..numOfLines
  BY <1>1
<1>3. u = [t EXCEPT ![index] = r]
  BY DEF QuadTree_new
<1>4. r \in NodeTypes /\ r.lines = ptr /\ r.num_lines = n /\ r.child_lines = NULL
  <2>. DEFINE r1 == [t[index] EXCEPT !.lines = ptr]
              r2 == [r1 EXCEPT !.num_lines = n]
  <2>1. r1 \in NodeTypes /\ r1.lines = ptr
    BY <1>2 DEF NodeTypes
  <2>2. r2 \in NodeTypes /\ r2.lines = ptr /\ r2.num_lines = n
    <3>. HIDE DEF r1
    <3>. QED
      BY <2>1 DEF NodeTypes
  <2>3. r = [r2 EXCEPT !.child_lines = NULL]
    OBVIOUS
  <2>. HIDE DEF r1, r2, r
  <2>. QED
    BY <1>2, <2>2, <2>3 DEF NodeTypes
<1>. HIDE DEF r
<1>. QED
  BY <1>3, <1>4

\* The node that is split, and its four children
LEMMA SplitTree ==
  ASSUME TreeTypeOK, NEW k \in Nodes, \A q \in Quadrants : Child(k, q) \in Nodes,
         NEW r \in NodeTypes, NEW sz, NEW st,
         \A q \in Quadrants : sz[q] \in 0..numOfLines /\ st[q] \in 0..numOfLines
  PROVE  \E u \in [Nodes -> NodeTypes] :
           /\ u = QuadTree_new(QuadTree_new(QuadTree_new(QuadTree_new([tree EXCEPT ![k] = r],
                    Child(k, 0), sz[0], st[0]), Child(k, 1), sz[1], st[1]), Child(k, 2), sz[2], st[2]), Child(k, 3), sz[3], st[3])
           /\ u[k] = r
           /\ \A q \in Quadrants : /\ u[Child(k, q)].lines = st[q] /\ u[Child(k, q)].num_lines = sz[q]
                                   /\ u[Child(k, q)].child_lines = NULL
           /\ \A m \in Nodes : m # k /\ (\A q \in Quadrants : m # Child(k, q)) => u[m] = tree[m]
<1>1. /\ 0 \in Quadrants /\ 1 \in Quadrants /\ 2 \in Quadrants /\ 3 \in Quadrants /\ k \in Nat
      /\ \A q \in Quadrants : q = 0 \/ q = 1 \/ q = 2 \/ q = 3
  BY DEF Quadrants, Nodes
<1>2. /\ \A q \in Quadrants : Child(k, q) # k
      /\ \A q, p \in Quadrants : Child(k, q) = Child(k, p) => q = p
  <2>1. \A q \in Quadrants : Child(k, q) \in Nat /\ Child(k, q) > k
    BY <1>1, Children
  <2>2. \A q \in Quadrants : Child(k, q) # k
    <3>. TAKE q \in Quadrants
    <3>. QED
      BY <1>1, <2>1
  <2>3. \A q, p \in Quadrants : Child(k, q) = Child(k, p) => q = p
    <3>. TAKE q, p \in Quadrants
    <3>1. k \in Nat
      BY <1>1
    <3>. QED
      BY <3>1, Children
  <2>. QED
    BY <2>2, <2>3
<1>. DEFINE t == [tree EXCEPT ![k] = r]
<1>3. t \in [Nodes -> NodeTypes] /\ t[k] = r /\ \A m \in Nodes : m # k => t[m] = tree[m]
  BY DEF TreeTypeOK, NodeTypes
<1>. HIDE DEF t
<1>. DEFINE u0 == QuadTree_new(t, Child(k, 0), sz[0], st[0])
            u1 == QuadTree_new(u0, Child(k, 1), sz[1], st[1])
            u2 == QuadTree_new(u1, Child(k, 2), sz[2], st[2])
            u == QuadTree_new(u2, Child(k, 3), sz[3], st[3])
<1>4. /\ u0 \in [Nodes -> NodeTypes]
      /\ u0[Child(k, 0)].lines = st[0] /\ u0[Child(k, 0)].num_lines = sz[0] /\ u0[Child(k, 0)].child_lines = NULL
      /\ \A m \in Nodes : m # Child(k, 0) => u0[m] = t[m]
  <2>1. Child(k, 0) \in Nodes /\ sz[0] \in 0..numOfLines /\ st[0] \in 0..numOfLines
    BY <1>1
  <2>2. u0 = QuadTree_new(t, Child(k, 0), sz[0], st[0])
    OBVIOUS
  <2>. HIDE DEF u0, u1, u2, u
  <2>. QED
    BY <1>3, <2>1, <2>2, NewNode
<1>5. /\ u1 \in [Nodes -> NodeTypes]
      /\ u1[Child(k, 1)].lines = st[1] /\ u1[Child(k, 1)].num_lines = sz[1] /\ u1[Child(k, 1)].child_lines = NULL
      /\ \A m \in Nodes : m # Child(k, 1) => u1[m] = u0[m]
  <2>1. Child(k, 1) \in Nodes /\ sz[1] \in 0..numOfLines /\ st[1] \in 0..numOfLines
    BY <1>1
  <2>2. u1 = QuadTree_new(u0, Child(k, 1), sz[1], st[1])
    OBVIOUS
  <2>. HIDE DEF u0, u1, u2, u
  <2>. QED
    BY <1>4, <2>1, <2>2, NewNode
<1>6. /\ u2 \in [Nodes -> NodeTypes]
      /\ u2[Child(k, 2)].lines = st[2] /\ u2[Child(k, 2)].num_lines = sz[2] /\ u2[Child(k, 2)].child_lines = NULL
      /\ \A m \in Nodes : m # Child(k, 2) => u2[m] = u1[m]
  <2>1. Child(k, 2) \in Nodes /\ sz[2] \in 0..numOfLines /\ st[2] \in 0..numOfLines
    BY <1>1
  <2>2. u2 = QuadTree_new(u1, Child(k, 2), sz[2], st[2])
    OBVIOUS
  <2>. HIDE DEF u0, u1, u2, u
  <2>. QED
    BY <1>5, <2>1, <2>2, NewNode
<1>7. /\ u \in [Nodes -> NodeTypes]
      /\ u[Child(k, 3)].lines = st[3] /\ u[Child(k, 3)].num_lines = sz[3] /\ u[Child(k, 3)].child_lines = NULL
      /\ \A m \in Nodes : m # Child(k, 3) => u[m] = u2[m]
  <2>1. Child(k, 3) \in Nodes /\ sz[3] \in 0..numOfLines /\ st[3] \in 0..numOfLines
    BY <1>1
  <2>2. u = QuadTree_new(u2, Child(k, 3), sz[3], st[3])
    OBVIOUS
  <2>. HIDE DEF u0, u1, u2, u
  <2>. QED
    BY <1>6, <2>1, <2>2, NewNode
<1>. HIDE DEF u0, u1, u2, u
<1>8. u[k] = r
  BY <1>1, <1>2, <1>3, <1>4, <1>5, <1>6, <1>7
<1>9. \A m \in Nodes : m # k /\ (\A q \in Quadrants : m # Child(k, q)) => u[m] = tree[m]
  BY <1>1, <1>3, <1>4, <1>5, <1>6, <1>7
<1>10. /\ u[Child(k, 0)] = u0[Child(k, 0)] /\ u[Child(k, 1)] = u1[Child(k, 1)] /\ u[Child(k, 2)] = u2[Child(k, 2)]
  <2>1. /\ Child(k, 0) # Child(k, 1) /\ Child(k, 0) # Child(k, 2) /\ Child(k, 0) # Child(k, 3)
        /\ Child(k, 1) # Child(k, 2) /\ Child(k, 1) # Child(k, 3) /\ Child(k, 2) # Child(k, 3)
    BY <1>1 DEF Child
  <2>. QED
    BY <1>1, <1>5, <1>6, <1>7, <2>1
<1>11. \A q \in Quadrants : /\ u[Child(k, q)].lines = st[q] /\ u[Child(k, q)].num_lines = sz[q]
                           /\ u[Child(k, q)].child_lines = NULL
  BY <1>1, <1>4, <1>5, <1>6, <1>7, <1>10
<1>12. u = QuadTree_new(QuadTree_new(QuadTree_new(QuadTree_new(t,
              Child(k, 0), sz[0], st[0]), Child(k, 1), sz[1], st[1]), Child(k, 2), sz[2], st[2]), Child(k, 3), sz[3], st[3])
  BY DEF u0, u1, u2, u
<1>. QED
  BY <1>7, <1>8, <1>9, <1>11, <1>12 DEF t

-----------------------------------------------------------------------------
(* A build, in terms of what it leaves.                                    *)

\* What a build does to the array: the lines of its node stay among
\* themselves, and those of each quadrant come together.
LinesSorted(b, sz) ==
  LET base == tree[b.index].lines
      num  == tree[b.index].num_lines
  IN
  /\ \A q \in 0..4 : sz[q] \in Nat
  /\ QuadrantStart(base, sz, 4) + sz[4] = base + num
  /\ lines' \in [Slots -> Lines]
  /\ \A i \in Slots : ~(base <= i /\ i < base + num) => lines'[i] = lines[i]
  /\ \A i \in Slots : base <= i /\ i < base + num =>
       \E j \in Slots : base <= j /\ j < base + num /\ lines'[i] = lines[j]
  /\ \A j \in Slots : base <= j /\ j < base + num =>
       \E i \in Slots : base <= i /\ i < base + num /\ lines'[i] = lines[j]
  /\ \A q \in 0..4 : \A i \in Slots :
       QuadrantStart(base, sz, q) <= i /\ i < QuadrantStart(base, sz, q) + sz[q] =>
         get_quadrant_number(scene[lines'[i]], b.box) = q

\* What a build does to the tree: the node keeps what no quadrant takes, and
\* each child starts as a leaf with the lines of its quadrant.
TreeSplit(b, sz) ==
  LET base == tree[b.index].lines IN
  /\ tree' \in [Nodes -> NodeTypes]
  /\ tree'[b.index].lines = QuadrantStart(base, sz, 4) /\ tree'[b.index].num_lines = sz[4]
  /\ tree'[b.index].child_lines = base /\ tree'[b.index].child_num_lines = tree[b.index].num_lines - sz[4]
  /\ \A q \in Quadrants : /\ tree'[Child(b.index, q)].lines = QuadrantStart(base, sz, q)
                          /\ tree'[Child(b.index, q)].num_lines = sz[q]
                          /\ tree'[Child(b.index, q)].child_lines = NULL
  /\ \A m \in Nodes : m # b.index /\ (\A q \in Quadrants : m # Child(b.index, q)) => tree'[m] = tree[m]

\* The build of a child, and which children get one
Spawned(b, q) == [index |-> Child(b.index, q), box |-> QuadrantBox(b.box, q), depth |-> b.depth + 1]

BuildsSpawned(b, sz) ==
  /\ \A c \in builds' : (c \in builds /\ c # b) \/ \E q \in Quadrants : Splits(sz[q], b.depth) /\ c = Spawned(b, q)
  /\ \A c \in builds : c # b => c \in builds'
  /\ \A q \in Quadrants : Splits(sz[q], b.depth) => Spawned(b, q) \in builds'

\* A build sorts, splits and spawns.
LEMMA BuildFacts ==
  ASSUME TreeTypeOK, NEW b \in builds, b.index \in Nodes, \A q \in Quadrants : Child(b.index, q) \in Nodes,
         0 <= tree[b.index].lines, tree[b.index].lines + tree[b.index].num_lines <= numOfLines, Build(b)
  PROVE  \E sz : LinesSorted(b, sz) /\ TreeSplit(b, sz) /\ BuildsSpawned(b, sz)
<1>. DEFINE num  == tree[b.index].num_lines
            base == tree[b.index].lines
            own  == {lines[i] : i \in base..(base + num - 1)}
            quad == [l \in own |-> get_quadrant_number(scene[l], b.box)]
            sz   == [q \in 0..4 |-> Cardinality({l \in own : quad[l] = q})]
            In(i) == base <= i /\ i < base + num
<1>1. num \in Nat /\ base \in Nat /\ numOfLines \in Nat /\ base + num <= numOfLines
  <2>1. tree[b.index] \in NodeTypes
    BY DEF TreeTypeOK, NodeTypes
  <2>. QED
    BY <2>1, Places DEF NodeTypes
<1>2. /\ \A i \in Slots : i \in Nat
      /\ \A i : i \in base..(base + num - 1) <=> i \in Slots /\ In(i)
      /\ \A i \in Slots : In(i) => i - base \in 0..(num - 1) /\ (i - base) + base = i
      /\ \A k \in 0..(num - 1) : k + base \in Slots /\ In(k + base) /\ (k + base) - base = k
  BY <1>1 DEF Slots
<1>3. IsFiniteSet(own) /\ Cardinality(own) = num
  <2>. DEFINE D == base..(base + num - 1)
              f == [i \in D |-> lines[i]]
  <2>1. IsFiniteSet(D) /\ Cardinality(D) = num
    <3>1. base \in Int /\ base + num - 1 \in Int
      BY <1>1
    <3>2. IsFiniteSet(D) /\ Cardinality(D) = IF base > base + num - 1 THEN 0 ELSE (base + num - 1) - base + 1
      BY <3>1, FS_Interval
    <3>. QED
      BY <1>1, <3>2
  <2>2. f \in [D -> own]
    OBVIOUS
  <2>3. \A l \in own : \E i \in D : f[i] = l
    OBVIOUS
  <2>4. \A i, j \in D : f[i] = f[j] => i = j
    <3>1. \A i, j \in Slots : lines[i] = lines[j] => i = j
      BY HeldOnce DEF TreeTypeOK
    <3>. QED
      BY <1>2, <3>1
  <2>5. f \in Bijection(D, own)
    BY <2>2, <2>3, <2>4 DEF Bijection, Injection, Surjection, IsInjective
  <2>. QED
    BY <2>1, <2>5, FS_Bijection DEF ExistsBijection
<1>4. quad \in [own -> 0..4]
  BY QuadrantTyped
<1>5. PICK sorted \in Arrangements(own, quad) :
        lines' = [i \in Slots |-> IF base <= i /\ i < base + num THEN sorted[i - base] ELSE lines[i]]
  BY DEF Build
<1>6. \A q \in 0..4 : sz[q] = Cardinality({l \in own : quad[l] = q})
  OBVIOUS
<1>. HIDE DEF sz
<1>7. /\ \A q \in 0..4 : sz[q] \in Nat
      /\ QuadrantStart(0, sz, 4) + sz[4] = num
      /\ \A q \in 0..4 : \A i \in 0..(num - 1) :
           QuadrantStart(0, sz, q) <= i /\ i < QuadrantStart(0, sz, q) + sz[q] => quad[sorted[i]] = q
  <2>. HIDE DEF own, quad, sz, num
  <2>. QED
    BY <1>3, <1>4, <1>5, <1>6, Sorting, SMTT(30)
<1>8. /\ sorted \in [0..(num - 1) -> own]
      /\ \A l \in own : \E i \in 0..(num - 1) : sorted[i] = l
  <2>. HIDE DEF own, quad, num
  <2>. QED
    BY <1>3 DEF Arrangements, OrdersOf
<1>9. /\ QuadrantStart(base, sz, 0) = base
      /\ \A q \in 0..3 : QuadrantStart(base, sz, q + 1) = QuadrantStart(base, sz, q) + sz[q]
      /\ \A q \in 0..4 : QuadrantStart(base, sz, q) \in Int /\ QuadrantStart(base, sz, q) >= base
                         /\ QuadrantStart(base, sz, q) = base + QuadrantStart(0, sz, q)
      /\ QuadrantStart(base, sz, 4) = base + sz[0] + sz[1] + sz[2] + sz[3]
  <2>. HIDE DEF sz, base
  <2>. QED
    <3>1. base \in Int /\ \A q \in 0..4 : sz[q] \in Nat
      BY <1>1, <1>7
    <3>. QED
      BY <3>1, Starts, Zenon
<1>10. \A l \in own : \E i \in Slots : In(i) /\ l = lines[i]
  BY <1>2
<1>11. \A i \in Slots : In(i) => lines[i] \in own
  BY <1>2
<1>12. \A i \in Slots : (In(i) => lines'[i] = sorted[i - base]) /\ (~In(i) => lines'[i] = lines[i])
  BY <1>5
<1>13. lines' \in [Slots -> Lines]
  <2>1. own \subseteq Lines
    BY <1>2, <1>10 DEF TreeTypeOK
  <2>2. \A i \in Slots : (IF base <= i /\ i < base + num THEN sorted[i - base] ELSE lines[i]) \in Lines
    BY <1>2, <1>8, <2>1 DEF TreeTypeOK
  <2>. HIDE DEF own, quad, num, base
  <2>. QED
    BY <1>5, <2>2
<1>14. LinesSorted(b, sz)
  <2>1. QuadrantStart(base, sz, 4) + sz[4] = base + num
    <3>1. QuadrantStart(base, sz, 4) = base + QuadrantStart(0, sz, 4) /\ sz[4] \in Nat
          /\ QuadrantStart(0, sz, 4) \in Int
      <4>1. 4 \in 0..4 /\ 0 \in Int
        OBVIOUS
      <4>. HIDE DEF sz
      <4>. QED
        BY <1>7, <1>9, <4>1, Starts
    <3>. HIDE DEF sz, base, num
    <3>. QED
      BY <1>1, <1>7, <3>1
  <2>2. \A i \in Slots : In(i) => \E j \in Slots : In(j) /\ lines'[i] = lines[j]
    <3>. TAKE i \in Slots
    <3>. HAVE In(i)
    <3>1. i - base \in 0..(num - 1) /\ lines'[i] = sorted[i - base]
      BY <1>2, <1>12
    <3>. HIDE DEF own, num, base, In
    <3>. QED
      BY <1>8, <1>10, <3>1
  <2>3. \A j \in Slots : In(j) => \E i \in Slots : In(i) /\ lines'[i] = lines[j]
    <3>. TAKE j \in Slots
    <3>. HAVE In(j)
    <3>1. lines[j] \in own
      BY <1>11
    <3>2. PICK k \in 0..(num - 1) : sorted[k] = lines[j]
      <4>. HIDE DEF own, num
      <4>. QED
        BY <1>8, <3>1
    <3>3. k + base \in Slots /\ In(k + base) /\ lines'[k + base] = sorted[k]
      BY <1>2, <1>12
    <3>. HIDE DEF In, base, num, own
    <3>. QED
      BY <3>2, <3>3
  <2>4. \A q \in 0..4 : \A i \in Slots :
           QuadrantStart(base, sz, q) <= i /\ i < QuadrantStart(base, sz, q) + sz[q] =>
             get_quadrant_number(scene[lines'[i]], b.box) = q
    <3>. TAKE q \in 0..4
    <3>. TAKE i \in Slots
    <3>. HAVE QuadrantStart(base, sz, q) <= i /\ i < QuadrantStart(base, sz, q) + sz[q]
    <3>1. /\ QuadrantStart(base, sz, q) \in Int /\ QuadrantStart(base, sz, q) >= base
          /\ QuadrantStart(base, sz, q) = base + QuadrantStart(0, sz, q) /\ QuadrantStart(0, sz, q) \in Int
      <4>1. 0 \in Int
        OBVIOUS
      <4>. HIDE DEF sz, base
      <4>. QED
        BY <1>7, <1>9, <4>1, Starts
    <3>2. QuadrantStart(base, sz, q) + sz[q] <= base + num
      <4>1. sz[0] \in Nat /\ sz[1] \in Nat /\ sz[2] \in Nat /\ sz[3] \in Nat /\ sz[4] \in Nat
        BY <1>7
      <4>2. q = 0 \/ q = 1 \/ q = 2 \/ q = 3 \/ q = 4
        OBVIOUS
      <4>. HIDE DEF sz, base, num
      <4>3. /\ QuadrantStart(base, sz, 1) = QuadrantStart(base, sz, 0) + sz[0]
            /\ QuadrantStart(base, sz, 2) = QuadrantStart(base, sz, 1) + sz[1]
            /\ QuadrantStart(base, sz, 3) = QuadrantStart(base, sz, 2) + sz[2]
            /\ QuadrantStart(base, sz, 4) = QuadrantStart(base, sz, 3) + sz[3]
        <5>1. 0 \in 0..3 /\ 1 \in 0..3 /\ 2 \in 0..3 /\ 3 \in 0..3 /\ 0 + 1 = 1 /\ 1 + 1 = 2 /\ 2 + 1 = 3 /\ 3 + 1 = 4
          OBVIOUS
        <5>. QED
          BY <1>9, <5>1
      <4>. QED
        BY <1>1, <1>9, <2>1, <4>1, <4>2, <4>3
    <3>3. In(i) /\ i \in Nat
      <4>1. sz[q] \in Nat /\ i \in Nat
        BY <1>2, <1>7
      <4>. HIDE DEF sz, num, base
      <4>. QED
        BY <1>1, <3>1, <3>2, <4>1
    <3>4. i - base \in 0..(num - 1) /\ lines'[i] = sorted[i - base]
      BY <1>2, <1>12, <3>3
    <3>5. QuadrantStart(0, sz, q) <= i - base /\ i - base < QuadrantStart(0, sz, q) + sz[q]
      <4>1. sz[q] \in Nat
        BY <1>7
      <4>. HIDE DEF sz, num, base
      <4>. QED
        BY <1>1, <3>1, <3>3, <4>1
    <3>6. quad[sorted[i - base]] = q
      <4>. HIDE DEF sz, num, base, quad, own
      <4>. QED
        BY <1>7, <3>4, <3>5
    <3>7. sorted[i - base] \in own
      <4>. HIDE DEF sz, num, base, quad, own
      <4>. QED
        BY <1>8, <3>4
    <3>. QED
      BY <3>4, <3>6, <3>7
  <2>. HIDE DEF sz
  <2>. QED
    BY <1>7, <1>12, <1>13, <2>1, <2>2, <2>3, <2>4 DEF LinesSorted
<1>15. TreeSplit(b, sz)
  <2>. DEFINE st == [q \in 0..4 |-> QuadrantStart(base, sz, q)]
              r  == [lines |-> st[4], num_lines |-> sz[4], child_lines |-> base, child_num_lines |-> num - sz[4]]
  <2>1. QuadrantStart(base, sz, 4) + sz[4] = base + num
    BY <1>14 DEF LinesSorted
  <2>2. \A q \in 0..4 : st[q] \in 0..numOfLines /\ sz[q] \in 0..numOfLines
    <3>. TAKE q \in 0..4
    <3>1. sz[0] \in Nat /\ sz[1] \in Nat /\ sz[2] \in Nat /\ sz[3] \in Nat /\ sz[4] \in Nat
      BY <1>7
    <3>2. q = 0 \/ q = 1 \/ q = 2 \/ q = 3 \/ q = 4
      OBVIOUS
    <3>3. st[q] = QuadrantStart(base, sz, q)
      OBVIOUS
    <3>. HIDE DEF sz, st, base, num
    <3>4. /\ QuadrantStart(base, sz, 1) = QuadrantStart(base, sz, 0) + sz[0]
          /\ QuadrantStart(base, sz, 2) = QuadrantStart(base, sz, 1) + sz[1]
          /\ QuadrantStart(base, sz, 3) = QuadrantStart(base, sz, 2) + sz[2]
          /\ QuadrantStart(base, sz, 4) = QuadrantStart(base, sz, 3) + sz[3]
      <4>1. 0 \in 0..3 /\ 1 \in 0..3 /\ 2 \in 0..3 /\ 3 \in 0..3 /\ 0 + 1 = 1 /\ 1 + 1 = 2 /\ 2 + 1 = 3 /\ 3 + 1 = 4
        OBVIOUS
      <4>. QED
        BY <1>9, <4>1
    <3>. QED
      BY <1>1, <1>9, <2>1, <3>1, <3>2, <3>3, <3>4
  <2>3. r \in NodeTypes
    <3>1. sz[4] \in 0..numOfLines /\ st[4] \in 0..numOfLines
      <4>1. 4 \in 0..4
        OBVIOUS
      <4>. HIDE DEF st
      <4>. QED
        BY <2>2, <4>1
    <3>2. base \in 0..numOfLines /\ num - sz[4] \in 0..numOfLines
      <4>1. QuadrantStart(base, sz, 4) >= base /\ QuadrantStart(base, sz, 4) \in Int
        <5>1. 4 \in 0..4
          OBVIOUS
        <5>. HIDE DEF base
        <5>. QED
          BY <1>9, <5>1
      <4>. HIDE DEF sz, base, num, st
      <4>. QED
        BY <1>1, <2>1, <3>1, <4>1
    <3>. HIDE DEF sz, base, num, st
    <3>. QED
      BY <1>1, <3>1, <3>2 DEF NodeTypes
  <2>4. \A q \in Quadrants : sz[q] \in 0..numOfLines /\ st[q] \in 0..numOfLines
    <3>1. \A q \in Quadrants : q \in 0..4
      BY DEF Quadrants
    <3>. HIDE DEF st
    <3>. QED
      BY <2>2, <3>1
  <2>5. tree' = QuadTree_new(QuadTree_new(QuadTree_new(QuadTree_new([tree EXCEPT ![b.index] = r],
                    Child(b.index, 0), sz[0], st[0]), Child(b.index, 1), sz[1], st[1]),
                    Child(b.index, 2), sz[2], st[2]), Child(b.index, 3), sz[3], st[3])
    <3>. DEFINE s(q) == QuadrantStart(base, sz, q)
                v    == [lines |-> s(4), num_lines |-> sz[4], child_lines |-> base, child_num_lines |-> num - sz[4]]
    <3>1. tree' = QuadTree_new(QuadTree_new(QuadTree_new(QuadTree_new([tree EXCEPT ![b.index] = v],
                    Child(b.index, 0), sz[0], s(0)), Child(b.index, 1), sz[1], s(1)),
                    Child(b.index, 2), sz[2], s(2)), Child(b.index, 3), sz[3], s(3))
      BY DEF Build, NoQuadrant, sz
    <3>2. st[0] = s(0) /\ st[1] = s(1) /\ st[2] = s(2) /\ st[3] = s(3) /\ st[4] = s(4)
      OBVIOUS
    <3>. HIDE DEF s, st, num, base
    <3>. QED
      BY <3>1, <3>2
  <2>6. st[4] = QuadrantStart(base, sz, 4) /\ \A q \in Quadrants : st[q] = QuadrantStart(base, sz, q)
    BY DEF Quadrants
  <2>7. r.lines = st[4] /\ r.num_lines = sz[4] /\ r.child_lines = base /\ r.child_num_lines = num - sz[4]
    OBVIOUS
  <2>8. \E u \in [Nodes -> NodeTypes] :
           /\ u = QuadTree_new(QuadTree_new(QuadTree_new(QuadTree_new([tree EXCEPT ![b.index] = r],
                    Child(b.index, 0), sz[0], st[0]), Child(b.index, 1), sz[1], st[1]),
                    Child(b.index, 2), sz[2], st[2]), Child(b.index, 3), sz[3], st[3])
           /\ u[b.index] = r
           /\ \A q \in Quadrants : /\ u[Child(b.index, q)].lines = st[q] /\ u[Child(b.index, q)].num_lines = sz[q]
                                   /\ u[Child(b.index, q)].child_lines = NULL
           /\ \A m \in Nodes : m # b.index /\ (\A q \in Quadrants : m # Child(b.index, q)) => u[m] = tree[m]
    <3>. HIDE DEF sz, st, r
    <3>. QED
      BY <2>3, <2>4, SplitTree
  <2>. HIDE DEF sz, st, r
  <2>. QED
    BY <2>5, <2>6, <2>7, <2>8 DEF TreeSplit
<1>16. BuildsSpawned(b, sz)
  <2>1. builds' = (builds \ {b}) \cup {Spawned(b, q) : q \in {p \in Quadrants : Splits(sz[p], b.depth)}}
    BY DEF Build, Spawned, sz
  <2>. HIDE DEF sz
  <2>. QED
    BY <2>1 DEF BuildsSpawned
<1>. HIDE DEF sz
<1>. QED
  BY <1>14, <1>15, <1>16

-----------------------------------------------------------------------------
(* A build keeps the picture.                                              *)

\* The parts of a split node's places: those of the quadrants, then its own
Cell(base, sz, q) == QuadrantStart(base, sz, q)..((QuadrantStart(base, sz, q) + sz[q]) - 1)

\* The parts make up the places of the node, and no two overlap.
LEMMA Cells ==
  ASSUME NEW base \in Nat, NEW num \in Nat, NEW sz, \A q \in 0..4 : sz[q] \in Nat,
         QuadrantStart(base, sz, 4) + sz[4] = base + num
  PROVE  /\ \A q \in 0..4 : QuadrantStart(base, sz, q) \in Nat /\ QuadrantStart(base, sz, q) >= base
                            /\ QuadrantStart(base, sz, q) + sz[q] <= base + num
         /\ \A q \in 0..4 : Cell(base, sz, q) \subseteq base..(base + num - 1)
         /\ \A j \in base..(base + num - 1) : \E q \in 0..4 : j \in Cell(base, sz, q)
         /\ \A q, p \in 0..4 : q # p => Cell(base, sz, q) \cap Cell(base, sz, p) = {}
         /\ base..(base + (num - sz[4]) - 1) = UNION {Cell(base, sz, q) : q \in Quadrants}
         /\ num - sz[4] \in Nat
<1>1. sz[0] \in Nat /\ sz[1] \in Nat /\ sz[2] \in Nat /\ sz[3] \in Nat /\ sz[4] \in Nat
  OBVIOUS
<1>. DEFINE s0 == base
            s1 == s0 + sz[0]
            s2 == s1 + sz[1]
            s3 == s2 + sz[2]
            s4 == s3 + sz[3]
<1>2. /\ QuadrantStart(base, sz, 0) = s0 /\ QuadrantStart(base, sz, 1) = s1 /\ QuadrantStart(base, sz, 2) = s2
      /\ QuadrantStart(base, sz, 3) = s3 /\ QuadrantStart(base, sz, 4) = s4
  BY <1>1 DEF QuadrantStart, NoQuadrant
<1>3. /\ s0 \in Nat /\ s1 \in Nat /\ s2 \in Nat /\ s3 \in Nat /\ s4 \in Nat
      /\ base <= s0 /\ s0 + sz[0] = s1 /\ s1 + sz[1] = s2 /\ s2 + sz[2] = s3 /\ s3 + sz[3] = s4 /\ s4 + sz[4] = base + num
      /\ s0 <= s1 /\ s1 <= s2 /\ s2 <= s3 /\ s3 <= s4 /\ s4 <= base + num /\ s0 = base
  BY <1>1, <1>2
<1>. HIDE DEF s0, s1, s2, s3, s4
<1>4. /\ Cell(base, sz, 0) = s0..(s1 - 1) /\ Cell(base, sz, 1) = s1..(s2 - 1) /\ Cell(base, sz, 2) = s2..(s3 - 1)
      /\ Cell(base, sz, 3) = s3..(s4 - 1) /\ Cell(base, sz, 4) = s4..(base + num - 1)
  <2>1. /\ s0 + sz[0] = s1 /\ s1 + sz[1] = s2 /\ s2 + sz[2] = s3
        /\ s3 + sz[3] = s4 /\ s4 + sz[4] = base + num
    BY <1>3
  <2>2. Cell(base, sz, 0) = s0..(s1 - 1)
    <3>1. QuadrantStart(base, sz, 0) = s0 /\ s0 + sz[0] = s1
          /\ s0 \in Int /\ sz[0] \in Int /\ s1 \in Int
      BY <1>1, <1>2, <1>3, <2>1
    <3>2. QuadrantStart(base, sz, 0) + sz[0] = s1
      BY <3>1, Zenon
    <3>. QED
      BY <3>1, <3>2, Zenon DEF Cell
  <2>3. Cell(base, sz, 1) = s1..(s2 - 1)
    <3>1. QuadrantStart(base, sz, 1) = s1 /\ s1 + sz[1] = s2
          /\ s1 \in Int /\ sz[1] \in Int /\ s2 \in Int
      BY <1>1, <1>2, <1>3, <2>1
    <3>2. QuadrantStart(base, sz, 1) + sz[1] = s2
      BY <3>1, Zenon
    <3>. QED
      BY <3>1, <3>2, Zenon DEF Cell
  <2>4. Cell(base, sz, 2) = s2..(s3 - 1)
    <3>1. QuadrantStart(base, sz, 2) = s2 /\ s2 + sz[2] = s3
          /\ s2 \in Int /\ sz[2] \in Int /\ s3 \in Int
      BY <1>1, <1>2, <1>3, <2>1
    <3>2. QuadrantStart(base, sz, 2) + sz[2] = s3
      BY <3>1, Zenon
    <3>. QED
      BY <3>1, <3>2, Zenon DEF Cell
  <2>5. Cell(base, sz, 3) = s3..(s4 - 1)
    <3>1. QuadrantStart(base, sz, 3) = s3 /\ s3 + sz[3] = s4
          /\ s3 \in Int /\ sz[3] \in Int /\ s4 \in Int
      BY <1>1, <1>2, <1>3, <2>1
    <3>2. QuadrantStart(base, sz, 3) + sz[3] = s4
      BY <3>1, Zenon
    <3>. QED
      BY <3>1, <3>2, Zenon DEF Cell
  <2>6. Cell(base, sz, 4) = s4..((base + num) - 1)
    <3>1. QuadrantStart(base, sz, 4) = s4 /\ s4 + sz[4] = (base + num)
          /\ s4 \in Int /\ sz[4] \in Int /\ (base + num) \in Int
      BY <1>1, <1>2, <1>3, <2>1
    <3>2. QuadrantStart(base, sz, 4) + sz[4] = (base + num)
      BY <3>1, Zenon
    <3>. QED
      BY <3>1, <3>2, Zenon DEF Cell
  <2>. QED
    BY <2>2, <2>3, <2>4, <2>5, <2>6
<1>5. \A q \in 0..4 : q = 0 \/ q = 1 \/ q = 2 \/ q = 3 \/ q = 4
  OBVIOUS
<1>6. \A q \in 0..4 : QuadrantStart(base, sz, q) \in Nat /\ QuadrantStart(base, sz, q) >= base
                      /\ QuadrantStart(base, sz, q) + sz[q] <= base + num
  <2>. TAKE q \in 0..4
  <2>. QED
    BY <1>1, <1>2, <1>3, <1>5
<1>7. \A q \in 0..4 : Cell(base, sz, q) \subseteq base..(base + num - 1)
  <2>. TAKE q \in 0..4
  <2>1. sz[q] \in Nat
    OBVIOUS
  <2>. QED
    BY <1>6, <2>1 DEF Cell
<1>8. \A j \in base..(base + num - 1) : \E q \in 0..4 : j \in Cell(base, sz, q)
  <2>. TAKE j \in base..(base + num - 1)
  <2>1. \/ j \in s0..(s1 - 1) \/ j \in s1..(s2 - 1) \/ j \in s2..(s3 - 1)
        \/ j \in s3..(s4 - 1) \/ j \in s4..(base + num - 1)
    BY <1>3
  <2>2. 0 \in 0..4 /\ 1 \in 0..4 /\ 2 \in 0..4 /\ 3 \in 0..4 /\ 4 \in 0..4
    OBVIOUS
  <2>. QED
    BY <1>4, <2>1, <2>2
<1>9. \A q, p \in 0..4 : q # p => Cell(base, sz, q) \cap Cell(base, sz, p) = {}
  <2>. SUFFICES ASSUME NEW q \in 0..4, NEW p \in 0..4, q < p PROVE Cell(base, sz, q) \cap Cell(base, sz, p) = {}
    <3>1. \A q, p \in 0..4 : q # p => q < p \/ p < q
      OBVIOUS
    <3>. QED
      BY <3>1
  <2>1. QuadrantStart(base, sz, q) + sz[q] <= QuadrantStart(base, sz, p)
    BY <1>1, <1>2, <1>3, <1>5
  <2>2. sz[q] \in Nat /\ sz[p] \in Nat /\ QuadrantStart(base, sz, q) \in Nat /\ QuadrantStart(base, sz, p) \in Nat
    BY <1>6
  <2>. QED
    BY <2>1, <2>2 DEF Cell
<1>10. num - sz[4] \in Nat /\ base + (num - sz[4]) = s4
  BY <1>1, <1>3
<1>11. base..(base + (num - sz[4]) - 1) = UNION {Cell(base, sz, q) : q \in Quadrants}
  <2>1. ASSUME NEW j \in base..(s4 - 1) PROVE \E q \in Quadrants : j \in Cell(base, sz, q)
    <3>1. j \in s0..(s1 - 1) \/ j \in s1..(s2 - 1) \/ j \in s2..(s3 - 1) \/ j \in s3..(s4 - 1)
      BY <1>3
    <3>2. 0 \in Quadrants /\ 1 \in Quadrants /\ 2 \in Quadrants /\ 3 \in Quadrants
      BY DEF Quadrants
    <3>. QED
      BY <1>4, <3>1, <3>2
  <2>2. ASSUME NEW q \in Quadrants, NEW j \in Cell(base, sz, q) PROVE j \in base..(s4 - 1)
    <3>1. q = 0 \/ q = 1 \/ q = 2 \/ q = 3
      BY DEF Quadrants
    <3>2. (q = 0 => j \in s0..(s1 - 1)) /\ (q = 1 => j \in s1..(s2 - 1)) /\ (q = 2 => j \in s2..(s3 - 1)) /\ (q = 3 => j \in s3..(s4 - 1))
      BY <1>4
    <3>. QED
      BY <1>3, <3>1, <3>2
  <2>3. base..(s4 - 1) = UNION {Cell(base, sz, q) : q \in Quadrants}
    BY <2>1, <2>2
  <2>. QED
    BY <1>10, <2>3
<1>. QED
  BY <1>6, <1>7, <1>8, <1>9, <1>10, <1>11

\* A call of QuadTree_buildQuadTree() makes the tree grow by four children, and
\* it stays a tree that parts the lines.
LEMMA BuildGrows ==
  ASSUME TreeInv, NEW b \in builds, Build(b)
  PROVE  TreeInv'
<1>1. phase = "build" /\ phase' = phase /\ step' = step /\ scene' = scene /\ strands' = strands
  BY DEF TreeInv, TreeTypeOK, Build
<1>2. PICK R \in SUBSET Nodes : Picture(R)
  BY <1>1 DEF TreeInv
<1>. DEFINE k    == b.index
            base == tree[k].lines
            num  == tree[k].num_lines
            R2   == R \cup {Child(k, q) : q \in Quadrants}
<1>3. /\ k \in R /\ k \in Nodes /\ k \in Nat /\ Leaf(k) /\ OnLevel(k, b.depth)
      /\ b.depth \in 0..(MAX_DEPTH - 1) /\ b.box \in Rects
  BY <1>2 DEF Picture, Waiting, Nodes
<1>4. \A q \in Quadrants : /\ Child(k, q) \in Nodes /\ OnLevel(Child(k, q), b.depth + 1)
                           /\ b.depth + 1 = MAX_DEPTH => Child(Child(k, q), 0) \notin Nodes
  BY <1>3, LevelDown
<1>5. \A q \in Quadrants : /\ Child(k, q) \notin R /\ Child(k, q) # k /\ Child(k, q) # 0
                           /\ \A p \in Quadrants : Child(k, q) = Child(k, p) => q = p
  <2>. TAKE q \in Quadrants
  <2>1. Child(k, q) # k /\ Child(k, q) # 0
    BY <1>3 DEF Child, Quadrants
  <2>2. \A p \in Quadrants : Child(k, q) = Child(k, p) => q = p
    BY <1>3 DEF Child, Quadrants
  <2>3. ASSUME Child(k, q) \in R PROVE FALSE
    <3>1. PICK m \in R : ~Leaf(m) /\ \E p \in Quadrants : Child(k, q) = Child(m, p)
      BY <1>2, <2>1, <2>3 DEF Picture, Grown
    <3>2. m \in Nat /\ m # k
      BY <1>2, <1>3, <3>1 DEF Nodes
    <3>. QED
      BY <1>3, <3>1, <3>2 DEF Child, Quadrants
  <2>. QED
    BY <2>1, <2>2, <2>3
<1>6. base \in Nat /\ num \in Nat /\ base + num <= numOfLines /\ numOfLines \in Nat
  <2>1. tree[k] \in NodeTypes /\ 0 <= base /\ base + num <= numOfLines
    BY <1>2, <1>3 DEF TreeInv, TreeTypeOK, NodeTypes, Picture, Parted
  <2>. QED
    BY <2>1, Places DEF NodeTypes
<1>7. PICK sz : LinesSorted(b, sz) /\ TreeSplit(b, sz) /\ BuildsSpawned(b, sz)
  BY <1>3, <1>4, <1>6, BuildFacts DEF TreeInv
<1>. DEFINE C(q) == Cell(base, sz, q)
<1>8. /\ \A q \in 0..4 : sz[q] \in Nat
      /\ QuadrantStart(base, sz, 4) + sz[4] = base + num
  BY <1>7 DEF LinesSorted
<1>9. /\ \A q \in 0..4 : QuadrantStart(base, sz, q) \in Nat /\ QuadrantStart(base, sz, q) >= base
                         /\ QuadrantStart(base, sz, q) + sz[q] <= base + num
      /\ \A q \in 0..4 : C(q) \subseteq base..(base + num - 1)
      /\ \A j \in base..(base + num - 1) : \E q \in 0..4 : j \in C(q)
      /\ \A q, p \in 0..4 : q # p => C(q) \cap C(p) = {}
      /\ base..(base + (num - sz[4]) - 1) = UNION {C(q) : q \in Quadrants}
      /\ num - sz[4] \in Nat
  <2>. HIDE DEF base, num
  <2>. QED
    BY <1>6, <1>8, Cells
<1>10. \A n \in R : n # k => tree'[n] = tree[n]
  BY <1>2, <1>5, <1>7 DEF TreeSplit
<1>11. /\ Own(k) = base..(base + num - 1)
       /\ Own(k)' = C(4)
       /\ Below(k)' = UNION {C(q) : q \in Quadrants} /\ Below(k)' \subseteq Own(k)
       /\ ~Leaf(k)' /\ Segment(k)' = Own(k) /\ Segment(k) = Own(k)
  <2>1. Own(k) = base..(base + num - 1)
    BY DEF Own
  <2>2. Own(k)' = C(4)
    <3>1. Own(k)' = QuadrantStart(base, sz, 4)..(QuadrantStart(base, sz, 4) + sz[4] - 1)
      BY <1>7 DEF Own, TreeSplit
    <3>2. QuadrantStart(base, sz, 4) \in Nat /\ sz[4] \in Nat
      <4>1. 4 \in 0..4
        OBVIOUS
      <4>. HIDE DEF base, num, C
      <4>. QED
        BY <1>8, <1>9, <4>1
    <3>. HIDE DEF base, num
    <3>. QED
      BY <3>1, <3>2 DEF Cell
  <2>3. Below(k)' = base..(base + (num - sz[4]) - 1)
    BY <1>7 DEF Below, TreeSplit
  <2>4. Below(k)' = UNION {C(q) : q \in Quadrants}
    BY <1>9, <2>3
  <2>5. ~Leaf(k)'
    BY <1>6, <1>7 DEF Leaf, TreeSplit, NULL
  <2>6. Segment(k)' = Own(k)' \cup Below(k)' /\ Segment(k) = Own(k)
    BY <1>3, <2>5 DEF Segment, Leaf
  <2>7. \A q \in Quadrants : q \in 0..4
    BY DEF Quadrants
  <2>8. \A q \in 0..4 : q \in Quadrants \/ q = 4
    BY DEF Quadrants
  <2>9. C(4) \cup UNION {C(q) : q \in Quadrants} = base..(base + num - 1)
    <3>. HIDE DEF C, base, num
    <3>1. C(4) \subseteq base..(base + num - 1) /\ \A q \in Quadrants : C(q) \subseteq base..(base + num - 1)
      <4>1. 4 \in 0..4
        OBVIOUS
      <4>. QED
        BY <1>9, <2>7, <4>1
    <3>2. \A j \in base..(base + num - 1) : j \in C(4) \/ \E q \in Quadrants : j \in C(q)
      BY <1>9, <2>8
    <3>. QED
      BY <3>1, <3>2
  <2>. HIDE DEF C, base, num
  <2>. QED
    BY <2>1, <2>2, <2>4, <2>5, <2>6, <2>9
<1>12. \A q \in Quadrants : Own(Child(k, q))' = C(q) /\ Leaf(Child(k, q))' /\ Segment(Child(k, q))' = C(q)
  <2>. TAKE q \in Quadrants
  <2>1. Own(Child(k, q))' = QuadrantStart(base, sz, q)..(QuadrantStart(base, sz, q) + sz[q] - 1)
    BY <1>7 DEF Own, TreeSplit
  <2>2. QuadrantStart(base, sz, q) \in Nat /\ sz[q] \in Nat
    <3>1. q \in 0..4
      BY DEF Quadrants
    <3>. QED
      BY <1>8, <1>9, <3>1
  <2>3. Own(Child(k, q))' = C(q)
    <3>. HIDE DEF base, num
    <3>. QED
      BY <2>1, <2>2 DEF Cell
  <2>4. Leaf(Child(k, q))'
    BY <1>7 DEF Leaf, TreeSplit
  <2>. QED
    BY <2>3, <2>4 DEF Segment, Leaf
<1>13. \A n \in R : n # k => Own(n)' = Own(n) /\ Below(n)' = Below(n) /\ Segment(n)' = Segment(n) /\ (Leaf(n)' <=> Leaf(n))
  BY <1>10 DEF Own, Below, Segment, Leaf
<1>. DEFINE N(q) == IF q = 4 THEN k ELSE Child(k, q)
<1>14. /\ \A q \in 0..4 : N(q) \in R2 /\ Own(N(q))' = C(q) /\ C(q) \subseteq Own(k) /\ N(q) \in Nodes
       /\ \A q \in Quadrants : N(q) = Child(k, q) /\ q \in 0..4 /\ q # 4
       /\ N(4) = k
       /\ \A n \in R2 : (n \in R /\ n # k) \/ \E q \in 0..4 : n = N(q)
       /\ \A q, p \in 0..4 : N(q) = N(p) => q = p
       /\ \A q \in 0..4 : N(q) \notin R \/ N(q) = k
  <2>1. \A q \in 0..4 : q = 4 \/ q \in Quadrants
    BY DEF Quadrants
  <2>2. \A q \in Quadrants : N(q) = Child(k, q) /\ q \in 0..4 /\ q # 4
    BY DEF Quadrants
  <2>3. N(4) = k
    OBVIOUS
  <2>. HIDE DEF N, C, base, num
  <2>4. \A q \in 0..4 : N(q) \in R2 /\ Own(N(q))' = C(q) /\ N(q) \in Nodes
    BY <1>3, <1>4, <1>11, <1>12, <2>1, <2>2, <2>3
  <2>5. \A q \in 0..4 : C(q) \subseteq Own(k)
    BY <1>9, <1>11
  <2>6. \A n \in R2 : (n \in R /\ n # k) \/ \E q \in 0..4 : n = N(q)
    <3>1. 4 \in 0..4
      OBVIOUS
    <3>. QED
      BY <2>2, <2>3, <3>1
  <2>7. \A q, p \in 0..4 : N(q) = N(p) => q = p
    BY <1>5, <2>1, <2>2, <2>3
  <2>8. \A q \in 0..4 : N(q) \notin R \/ N(q) = k
    BY <1>5, <2>1, <2>2, <2>3
  <2>. QED
    BY <2>2, <2>3, <2>4, <2>5, <2>6, <2>7, <2>8
<1>. HIDE DEF N, C, base, num
<1>15. Grown(R2)'
  <2>1. R2 \subseteq Nodes /\ 0 \in R2
    BY <1>2, <1>4 DEF Picture, Grown
  <2>2. ASSUME NEW n \in R2, n # 0
        PROVE  \E m \in R2 : ~Leaf(m)' /\ \E q \in Quadrants : n = Child(m, q)
    <3>1. CASE n \in R
      <4>1. PICK m \in R : ~Leaf(m) /\ \E q \in Quadrants : n = Child(m, q)
        BY <1>2, <2>2, <3>1 DEF Picture, Grown
      <4>2. ~Leaf(m)'
        BY <1>3, <1>13, <4>1
      <4>. QED
        BY <4>1, <4>2
    <3>2. CASE n \notin R
      <4>1. PICK q \in Quadrants : n = Child(k, q)
        BY <3>2
      <4>. QED
        BY <1>3, <1>11, <4>1
    <3>. QED
      BY <3>1, <3>2
  <2>3. ASSUME NEW m \in R2, ~Leaf(m)', NEW q \in Quadrants
        PROVE  Child(m, q) \in R2
    <3>1. CASE m = k
      BY <3>1
    <3>2. CASE m # k
      <4>1. m \in R
        BY <1>12, <2>3, <3>2
      <4>2. ~Leaf(m)
        BY <1>13, <2>3, <3>2, <4>1
      <4>. QED
        BY <1>2, <4>1, <4>2 DEF Picture, Grown
    <3>. QED
      BY <3>1, <3>2
  <2>. HIDE DEF R2
  <2>. QED
    BY <2>1, <2>2, <2>3 DEF Grown
<1>16. Parted(R2)'
  <2>1. ASSUME NEW n \in R2 PROVE 0 <= tree'[n].lines /\ tree'[n].lines + tree'[n].num_lines <= numOfLines
    <3>1. CASE n \in R /\ n # k
      BY <1>2, <1>10, <3>1 DEF Picture, Parted
    <3>2. CASE ~(n \in R /\ n # k)
      <4>1. PICK q \in 0..4 : n = N(q)
        BY <1>14, <3>2
      <4>2. tree'[n].lines = QuadrantStart(base, sz, q) /\ tree'[n].num_lines = sz[q]
        <5>1. q = 4 \/ q \in Quadrants
          BY DEF Quadrants
        <5>. QED
          BY <1>7, <1>14, <4>1, <5>1 DEF TreeSplit, base
      <4>3. sz[q] \in Nat
        BY <1>8
      <4>. QED
        BY <1>6, <1>9, <4>2, <4>3
    <3>. QED
      BY <3>1, <3>2
  <2>2. ASSUME NEW n \in R2, ~Leaf(n)' PROVE tree'[n].child_lines + tree'[n].child_num_lines <= numOfLines
    <3>1. CASE n = k
      <4>1. tree'[n].child_lines = base /\ tree'[n].child_num_lines = num - sz[4]
        BY <1>7, <3>1 DEF TreeSplit, base, num
      <4>2. sz[4] \in Nat
        BY <1>8
      <4>. QED
        BY <1>6, <1>9, <4>1, <4>2
    <3>2. CASE n # k
      <4>1. n \in R /\ ~Leaf(n)
        BY <1>12, <1>13, <2>2, <3>2
      <4>. QED
        BY <1>2, <1>10, <3>2, <4>1 DEF Picture, Parted
    <3>. QED
      BY <3>1, <3>2
  <2>3. ASSUME NEW i \in Slots PROVE \E n \in R2 : i \in Own(n)'
    <3>1. PICK n \in R : i \in Own(n)
      BY <1>2 DEF Picture, Parted
    <3>2. CASE n = k
      <4>1. PICK q \in 0..4 : i \in C(q)
        BY <1>9, <1>11, <3>1, <3>2
      <4>. QED
        BY <1>14, <4>1
    <3>3. CASE n # k
      BY <1>13, <3>1, <3>3
    <3>. QED
      BY <3>2, <3>3
  <2>4. ASSUME NEW n \in R2, NEW m \in R2, n # m PROVE Own(n)' \cap Own(m)' = {}
    <3>1. \A x, y \in R : x # y => Own(x) \cap Own(y) = {}
      BY <1>2 DEF Picture, Parted
    <3>2. \A x \in R2 : \/ x \in R /\ x # k /\ Own(x)' = Own(x)
                        \/ \E q \in 0..4 : x = N(q) /\ Own(x)' = C(q) /\ C(q) \subseteq Own(k)
      BY <1>13, <1>14
    <3>3. CASE n \in R /\ n # k /\ Own(n)' = Own(n)
      BY <1>3, <3>1, <3>2, <3>3, <2>4
    <3>4. CASE \E q \in 0..4 : n = N(q) /\ Own(n)' = C(q) /\ C(q) \subseteq Own(k)
      <4>1. PICK q \in 0..4 : n = N(q) /\ Own(n)' = C(q) /\ C(q) \subseteq Own(k)
        BY <3>4
      <4>2. CASE m \in R /\ m # k /\ Own(m)' = Own(m)
        BY <1>3, <3>1, <4>1, <4>2
      <4>3. CASE \E p \in 0..4 : m = N(p) /\ Own(m)' = C(p)
        BY <1>9, <2>4, <4>1, <4>3
      <4>. QED
        BY <3>2, <4>2, <4>3
    <3>. QED
      BY <3>2, <3>3, <3>4
  <2>. HIDE DEF R2
  <2>. QED
    BY <2>1, <2>2, <2>3, <2>4 DEF Parted, Slots
<1>17. /\ \A n \in R : ~Leaf(n) => Below(n) = UNION {Segment(Child(n, q)) : q \in Quadrants}
       /\ \A n, m \in R : ~Leaf(n) => Own(m) \subseteq Below(n) \/ Own(m) \cap Below(n) = {}
       /\ \A n \in R : ~Leaf(n) => Own(n) \cap Below(n) = {}
       /\ \A n, m \in R : ~Leaf(n) /\ ~Leaf(m) => \A i \in Own(n), j \in Own(m) : ~(j \in Below(n) /\ i \in Below(m))
       /\ \A n \in R : ~Leaf(n) => \A q \in Quadrants : Child(n, q) \in R
       /\ \A n, m \in R : n # m => Own(n) \cap Own(m) = {}
  BY <1>2 DEF Picture, Nested, Grown, Parted
<1>18. /\ \A n \in R2 : ~Leaf(n)' => n \in R /\ (n # k => ~Leaf(n) /\ Below(n)' = Below(n))
       /\ \A x \in R2 : \/ x \in R /\ x # k /\ Own(x)' = Own(x)
                        \/ \E q \in 0..4 : x = N(q) /\ Own(x)' = C(q) /\ C(q) \subseteq Own(k)
  BY <1>3, <1>12, <1>13, <1>14
<1>19. Nested(R2)'
  <2>1. ASSUME NEW n \in R2, ~Leaf(n)'
        PROVE  Below(n)' = UNION {Segment(Child(n, q))' : q \in Quadrants}
    <3>1. CASE n = k
      <4>1. \A q \in Quadrants : Segment(Child(n, q))' = C(q)
        BY <1>12, <3>1
      <4>. QED
        BY <1>11, <3>1, <4>1
    <3>2. CASE n # k
      <4>1. n \in R /\ ~Leaf(n) /\ Below(n)' = Below(n)
        BY <1>18, <2>1, <3>2
      <4>2. \A q \in Quadrants : Child(n, q) \in R /\ Segment(Child(n, q))' = Segment(Child(n, q))
        BY <1>11, <1>13, <1>17, <4>1
      <4>. QED
        BY <1>17, <4>1, <4>2
    <3>. QED
      BY <3>1, <3>2
  <2>2. ASSUME NEW n \in R2, NEW m \in R2, ~Leaf(n)'
        PROVE  Own(m)' \subseteq Below(n)' \/ Own(m)' \cap Below(n)' = {}
    <3>1. CASE n = k
      <4>1. CASE m \in R /\ m # k /\ Own(m)' = Own(m)
        <5>1. Own(m) \cap Own(k) = {}
          BY <1>3, <1>17, <4>1
        <5>. QED
          BY <1>11, <3>1, <4>1, <5>1
      <4>2. CASE \E q \in 0..4 : m = N(q) /\ Own(m)' = C(q)
        <5>1. PICK q \in 0..4 : m = N(q) /\ Own(m)' = C(q)
          BY <4>2
        <5>2. q \in Quadrants => Own(m)' \subseteq Below(n)'
          BY <1>11, <3>1, <5>1
        <5>3. q = 4 => Own(m)' \cap Below(n)' = {}
          <6>1. \A p \in Quadrants : C(4) \cap C(p) = {}
            <7>1. 4 \in 0..4
              OBVIOUS
            <7>. QED
              BY <1>9, <1>14, <7>1
          <6>. QED
            BY <1>11, <3>1, <5>1, <6>1
        <5>4. q = 4 \/ q \in Quadrants
          BY DEF Quadrants
        <5>. QED
          BY <5>2, <5>3, <5>4
      <4>. QED
        BY <1>18, <4>1, <4>2
    <3>2. CASE n # k
      <4>1. n \in R /\ ~Leaf(n) /\ Below(n)' = Below(n)
        BY <1>18, <2>2, <3>2
      <4>2. \E x \in R : Own(m)' \subseteq Own(x)
        BY <1>3, <1>18
      <4>. QED
        BY <1>17, <4>1, <4>2
    <3>. QED
      BY <3>1, <3>2
  <2>3. ASSUME NEW n \in R2, ~Leaf(n)'
        PROVE  Own(n)' \cap Below(n)' = {}
    <3>1. CASE n = k
      <4>1. \A p \in Quadrants : C(4) \cap C(p) = {}
        <5>1. 4 \in 0..4
          OBVIOUS
        <5>. QED
          BY <1>9, <1>14, <5>1
      <4>. QED
        BY <1>11, <3>1, <4>1
    <3>2. CASE n # k
      <4>1. n \in R /\ ~Leaf(n) /\ Below(n)' = Below(n) /\ Own(n)' = Own(n)
        BY <1>13, <1>18, <2>3, <3>2
      <4>. QED
        BY <1>17, <4>1
    <3>. QED
      BY <3>1, <3>2
  <2>4. ASSUME NEW n \in R2, NEW m \in R2, ~Leaf(n)', ~Leaf(m)', NEW i \in Own(n)', NEW j \in Own(m)',
               j \in Below(n)', i \in Below(m)'
        PROVE  FALSE
    <3>0. n \in R /\ m \in R
      BY <1>18, <2>4
    <3>1. CASE n = k /\ m = k
      BY <2>3, <2>4, <3>1
    <3>2. CASE n = k /\ m # k
      <4>1. Own(m)' = Own(m) /\ j \in Own(k)
        BY <1>11, <1>13, <2>4, <3>0, <3>2
      <4>. QED
        BY <1>3, <1>17, <2>4, <3>0, <3>2, <4>1
    <3>3. CASE n # k /\ m = k
      <4>1. Own(n)' = Own(n) /\ i \in Own(k)
        BY <1>11, <1>13, <2>4, <3>0, <3>3
      <4>. QED
        BY <1>3, <1>17, <2>4, <3>0, <3>3, <4>1
    <3>4. CASE n # k /\ m # k
      <4>1. /\ Own(n)' = Own(n) /\ Own(m)' = Own(m) /\ Below(n)' = Below(n) /\ Below(m)' = Below(m)
            /\ ~Leaf(n) /\ ~Leaf(m)
        BY <1>13, <2>4, <3>0, <3>4
      <4>. QED
        BY <1>17, <2>4, <3>0, <4>1
    <3>. QED
      BY <3>1, <3>2, <3>3, <3>4
  <2>. HIDE DEF R2
  <2>5. \A n \in R2 : ~Leaf(n)' => Below(n)' = UNION {Segment(Child(n, q))' : q \in Quadrants}
    BY <2>1
  <2>. QED
    BY <2>5, <2>2, <2>3, <2>4 DEF Nested
<1>20. \A n \in R : Own(n) \subseteq Slots
  <2>. TAKE n \in R
  <2>1. n \in Nodes
    BY <1>2
  <2>2. tree[n] \in NodeTypes
    BY <2>1 DEF TreeInv, TreeTypeOK, NodeTypes
  <2>3. 0 <= tree[n].lines /\ tree[n].lines + tree[n].num_lines <= numOfLines
    BY <1>2 DEF Picture, Parted
  <2>4. tree[n].lines \in Int /\ tree[n].num_lines \in Int
    BY <1>6, <2>2 DEF NodeTypes
  <2>. QED
    BY <1>6, <2>3, <2>4 DEF Own, Slots
<1>21. \A i \in Own(k) : i \in Slots /\ \E j \in Own(k) : j \in Slots /\ lines'[i] = lines[j]
  <2>. TAKE i \in Own(k)
  <2>1. i \in Slots /\ i \in base..(base + num - 1)
    BY <1>3, <1>11, <1>20
  <2>2. base <= i /\ i < base + num
    BY <1>6, <2>1
  <2>3. PICK j \in Slots : base <= j /\ j < base + num /\ lines'[i] = lines[j]
    BY <1>7, <2>1, <2>2 DEF LinesSorted, base, num
  <2>4. j \in base..(base + num - 1)
    BY <1>6, <2>3 DEF Slots
  <2>. QED
    BY <1>11, <2>1, <2>3, <2>4
<1>22. \A i \in Slots : i \notin Own(k) => lines'[i] = lines[i]
  <2>. TAKE i \in Slots
  <2>. HAVE i \notin Own(k)
  <2>1. ~(base <= i /\ i < base + num)
    BY <1>6, <1>11 DEF Slots
  <2>. QED
    BY <1>7, <2>1 DEF LinesSorted, base, num
<1>23. Together(R2)'
  <2>1. \A n, m \in R : \A i \in Own(n), j \in Own(m) : intersect(lines[i], lines[j]) =>
          n = m \/ (~Leaf(n) /\ j \in Below(n)) \/ (~Leaf(m) /\ i \in Below(m))
    BY <1>2 DEF Picture, Together
  <2>. SUFFICES ASSUME NEW n \in R2, NEW m \in R2, NEW i \in Own(n)', NEW j \in Own(m)',
                       intersect(lines[i], lines[j])', n # m
                PROVE  (~Leaf(n)' /\ j \in Below(n)') \/ (~Leaf(m)' /\ i \in Below(m)')
    BY DEF Together
  <2>2. \A i0, j0 : lines'[i] = lines[i0] /\ lines'[j] = lines[j0] => intersect(lines[i0], lines[j0])
    BY <1>1 DEF intersect
  <2>3. CASE (n \in R /\ n # k /\ Own(n)' = Own(n)) /\ (m \in R /\ m # k /\ Own(m)' = Own(m))
    <3>1. lines'[i] = lines[i] /\ lines'[j] = lines[j]
      <4>1. i \in Slots /\ j \in Slots /\ i \notin Own(k) /\ j \notin Own(k)
        BY <1>3, <1>17, <1>20, <2>3
      <4>. QED
        BY <1>22, <4>1
    <3>2. (~Leaf(n) /\ j \in Below(n)) \/ (~Leaf(m) /\ i \in Below(m))
      BY <2>1, <2>2, <2>3, <3>1
    <3>. QED
      BY <1>13, <2>3, <3>2
  <2>4. CASE (n \in R /\ n # k /\ Own(n)' = Own(n)) /\ (\E q \in 0..4 : m = N(q) /\ Own(m)' = C(q) /\ C(q) \subseteq Own(k))
    <3>1. lines'[i] = lines[i]
      <4>1. i \in Slots /\ i \notin Own(k)
        BY <1>3, <1>17, <1>20, <2>4
      <4>. QED
        BY <1>22, <4>1
    <3>2. j \in Own(k)
      BY <2>4
    <3>3. PICK j0 \in Own(k) : lines'[j] = lines[j0]
      BY <1>21, <3>2
    <3>4. ~Leaf(n) /\ j0 \in Below(n)
      BY <1>3, <2>1, <2>2, <2>4, <3>1, <3>3
    <3>5. j \in Below(n)
      BY <1>3, <1>17, <2>4, <3>2, <3>3, <3>4
    <3>. QED
      BY <1>13, <2>4, <3>4, <3>5
  <2>5. CASE (\E q \in 0..4 : n = N(q) /\ Own(n)' = C(q) /\ C(q) \subseteq Own(k)) /\ (m \in R /\ m # k /\ Own(m)' = Own(m))
    <3>1. lines'[j] = lines[j]
      <4>1. j \in Slots /\ j \notin Own(k)
        BY <1>3, <1>17, <1>20, <2>5
      <4>. QED
        BY <1>22, <4>1
    <3>2. i \in Own(k)
      BY <2>5
    <3>3. PICK i0 \in Own(k) : lines'[i] = lines[i0]
      BY <1>21, <3>2
    <3>4. ~Leaf(m) /\ i0 \in Below(m)
      BY <1>3, <2>1, <2>2, <2>5, <3>1, <3>3
    <3>5. i \in Below(m)
      BY <1>3, <1>17, <2>5, <3>2, <3>3, <3>4
    <3>. QED
      BY <1>13, <2>5, <3>4, <3>5
  <2>6. CASE (\E q \in 0..4 : n = N(q) /\ Own(n)' = C(q) /\ C(q) \subseteq Own(k))
             /\ (\E q \in 0..4 : m = N(q) /\ Own(m)' = C(q) /\ C(q) \subseteq Own(k))
    <3>1. PICK q \in 0..4 : n = N(q) /\ Own(n)' = C(q) /\ C(q) \subseteq Own(k)
      BY <2>6
    <3>2. PICK p \in 0..4 : m = N(p) /\ Own(m)' = C(p) /\ C(p) \subseteq Own(k)
      BY <2>6
    <3>3. (q = 4 \/ q \in Quadrants) /\ (p = 4 \/ p \in Quadrants) /\ q # p
      BY <3>1, <3>2 DEF Quadrants
    <3>4. CASE q = 4
      BY <1>11, <1>14, <3>1, <3>2, <3>3, <3>4
    <3>5. CASE p = 4
      BY <1>11, <1>14, <3>1, <3>2, <3>3, <3>5
    <3>6. CASE q \in Quadrants /\ p \in Quadrants
      <4>1. i \in Slots /\ j \in Slots
        BY <1>21, <3>1, <3>2
      <4>2. /\ QuadrantStart(base, sz, q) <= i /\ i < QuadrantStart(base, sz, q) + sz[q]
            /\ QuadrantStart(base, sz, p) <= j /\ j < QuadrantStart(base, sz, p) + sz[p]
        <5>1. i \in C(q) /\ j \in C(p)
          BY <3>1, <3>2
        <5>2. sz[q] \in Nat /\ sz[p] \in Nat /\ QuadrantStart(base, sz, q) \in Nat /\ QuadrantStart(base, sz, p) \in Nat
          BY <1>8, <1>9
        <5>. QED
          BY <5>1, <5>2 DEF C, Cell
      <4>3. get_quadrant_number(scene[lines'[i]], b.box) = q /\ get_quadrant_number(scene[lines'[j]], b.box) = p
        BY <1>7, <4>1, <4>2 DEF LinesSorted, base
      <4>4. scene[lines'[i]] \in Rects /\ scene[lines'[j]] \in Rects
        BY <1>7, <4>1 DEF LinesSorted, TreeInv, TreeTypeOK
      <4>5. ApartInX(scene[lines'[i]], scene[lines'[j]]) \/ ApartInY(scene[lines'[i]], scene[lines'[j]])
        BY <1>3, <3>3, <3>6, <4>3, <4>4, QuadrantsApart
      <4>. QED
        BY <1>1, <4>5 DEF intersect
    <3>. QED
      BY <3>3, <3>4, <3>5, <3>6
  <2>. QED
    BY <1>18, <2>3, <2>4, <2>5, <2>6
<1>24. Waiting(R2)'
  <2>1. /\ builds \subseteq [index : Nodes, box : Rects, depth : 0..(MAX_DEPTH - 1)]
        /\ \A c \in builds : c.index \in R /\ Leaf(c.index) /\ OnLevel(c.index, c.depth)
        /\ \A c, d \in builds : c.index = d.index => c = d
        /\ \A n \in R : Leaf(n) /\ tree[n].num_lines > MAX_BIN =>
             (\E c \in builds : c.index = n) \/ Child(n, 0) \notin Nodes
    BY <1>2 DEF Picture, Waiting
  <2>2. MAX_DEPTH \in Nat /\ MAX_BIN \in Nat
    BY QuadTreeAssumption
  <2>3. \A c \in builds' : (c \in builds /\ c # b) \/ \E q \in Quadrants : Splits(sz[q], b.depth) /\ c = Spawned(b, q)
    BY <1>7 DEF BuildsSpawned
  <2>4. ASSUME NEW q \in Quadrants, Splits(sz[q], b.depth)
        PROVE  /\ Spawned(b, q) \in [index : Nodes, box : Rects, depth : 0..(MAX_DEPTH - 1)]
               /\ Spawned(b, q).index = Child(k, q) /\ Spawned(b, q).depth = b.depth + 1
    <3>1. b.depth + 1 \in 0..(MAX_DEPTH - 1)
      BY <1>3, <2>2, <2>4 DEF Splits
    <3>2. QuadrantBox(b.box, q) \in Rects
      BY <1>3, BoxTyped
    <3>. QED
      BY <1>4, <3>1, <3>2 DEF Spawned, k
  <2>5. builds' \subseteq [index : Nodes, box : Rects, depth : 0..(MAX_DEPTH - 1)]
    BY <2>1, <2>3, <2>4
  <2>6. ASSUME NEW c \in builds'
        PROVE  c.index \in R2 /\ Leaf(c.index)' /\ OnLevel(c.index, c.depth)
    <3>1. CASE c \in builds /\ c # b
      <4>1. c.index \in R /\ c.index # k /\ Leaf(c.index) /\ OnLevel(c.index, c.depth)
        BY <2>1, <3>1 DEF k
      <4>. QED
        BY <1>13, <4>1
    <3>2. CASE \E q \in Quadrants : Splits(sz[q], b.depth) /\ c = Spawned(b, q)
      BY <1>4, <1>12, <2>4, <3>2
    <3>. QED
      BY <2>3, <3>1, <3>2
  <2>7. ASSUME NEW c \in builds', NEW d \in builds', c.index = d.index
        PROVE  c = d
    <3>1. CASE c \in builds /\ d \in builds
      BY <2>1, <2>7, <3>1
    <3>2. CASE (\E q \in Quadrants : Splits(sz[q], b.depth) /\ c = Spawned(b, q))
               /\ (\E q \in Quadrants : Splits(sz[q], b.depth) /\ d = Spawned(b, q))
      <4>1. PICK q \in Quadrants : Splits(sz[q], b.depth) /\ c = Spawned(b, q)
        BY <3>2
      <4>2. PICK p \in Quadrants : Splits(sz[p], b.depth) /\ d = Spawned(b, p)
        BY <3>2
      <4>3. q = p
        BY <1>5, <2>4, <2>7, <4>1, <4>2
      <4>. QED
        BY <4>1, <4>2, <4>3
    <3>3. CASE c \in builds /\ (\E q \in Quadrants : Splits(sz[q], b.depth) /\ d = Spawned(b, q))
      BY <1>5, <2>1, <2>4, <2>7, <3>3
    <3>4. CASE (\E q \in Quadrants : Splits(sz[q], b.depth) /\ c = Spawned(b, q)) /\ d \in builds
      BY <1>5, <2>1, <2>4, <2>7, <3>4
    <3>. QED
      BY <2>3, <3>1, <3>2, <3>3, <3>4
  <2>8. ASSUME NEW n \in R2, Leaf(n)', tree'[n].num_lines > MAX_BIN
        PROVE  (\E c \in builds' : c.index = n) \/ Child(n, 0) \notin Nodes
    <3>1. n # k
      BY <1>11, <2>8
    <3>2. CASE n \in R
      <4>1. Leaf(n) /\ tree[n].num_lines > MAX_BIN
        BY <1>10, <1>13, <2>8, <3>1, <3>2
      <4>2. CASE \E c \in builds : c.index = n
        <5>1. PICK c \in builds : c.index = n
          BY <4>2
        <5>2. c # b
          BY <3>1, <5>1 DEF k
        <5>. QED
          BY <1>7, <5>1, <5>2 DEF BuildsSpawned
      <4>3. CASE Child(n, 0) \notin Nodes
        BY <4>3
      <4>. QED
        BY <2>1, <3>2, <4>1, <4>2, <4>3
    <3>3. CASE n \notin R
      <4>1. PICK q \in Quadrants : n = Child(k, q)
        BY <3>3
      <4>2. sz[q] > MAX_BIN
        BY <1>7, <2>8, <4>1 DEF TreeSplit, k
      <4>3. CASE b.depth + 1 < MAX_DEPTH
        <5>1. Spawned(b, q) \in builds'
          BY <1>7, <4>2, <4>3 DEF BuildsSpawned, Splits
        <5>. QED
          BY <2>4, <4>1, <4>2, <4>3, <5>1 DEF Splits
      <4>4. CASE ~(b.depth + 1 < MAX_DEPTH)
        <5>1. b.depth + 1 = MAX_DEPTH
          BY <1>3, <2>2, <4>4
        <5>. QED
          BY <1>4, <4>1, <5>1
      <4>. QED
        BY <4>3, <4>4
    <3>. QED
      BY <3>2, <3>3
  <2>. HIDE DEF R2
  <2>. QED
    BY <2>5, <2>6, <2>7, <2>8 DEF Waiting, OnLevel
<1>25. TreeTypeOK'
  <2>1. \A l \in Lines : \E i \in Slots : lines'[i] = l
    <3>. TAKE l \in Lines
    <3>1. PICK j \in Slots : lines[j] = l
      BY DEF TreeInv, TreeTypeOK
    <3>2. CASE base <= j /\ j < base + num
      BY <1>7, <3>1, <3>2 DEF LinesSorted, base, num
    <3>3. CASE ~(base <= j /\ j < base + num)
      BY <1>7, <3>1, <3>3 DEF LinesSorted, base, num
    <3>. QED
      BY <3>2, <3>3
  <2>2. lines' \in [Slots -> Lines] /\ tree' \in [Nodes -> NodeTypes]
    BY <1>7 DEF LinesSorted, TreeSplit
  <2>. QED
    BY <1>1, <2>1, <2>2 DEF TreeTypeOK, TreeInv, NodeTypes, Slots
<1>26. R2 \in SUBSET Nodes /\ Picture(R2)'
  <2>1. R2 \in SUBSET Nodes
    BY <1>2, <1>4
  <2>. HIDE DEF R2
  <2>. QED
    BY <1>15, <1>16, <1>19, <1>23, <1>24, <2>1 DEF Picture
<1>27. strands' = {}
  BY <1>1 DEF TreeInv
<1>. HIDE DEF R2
<1>. QED
  BY <1>1, <1>25, <1>26, <1>27 DEF TreeInv

-----------------------------------------------------------------------------
(* The invariant of the tree.                                              *)

\* The first order of the lines, and an empty tree
LEMMA TreeInit == Init => TreeInv
<1>. SUFFICES ASSUME Init PROVE TreeInv
  OBVIOUS
<1>1. lines \in [Slots -> Lines] /\ \A i, j \in Slots : i < j => lines[i] < lines[j]
  BY DEF Init
<1>2. \A l \in Lines : \E i \in Slots : lines[i] = l
  <2>1. Lines \subseteq Nat
    BY QuadTreeAssumption
  <2>2. \A i, j \in Slots : lines[i] = lines[j] => i = j
    <3>. SUFFICES ASSUME NEW i \in Slots, NEW j \in Slots, i # j PROVE lines[i] # lines[j]
      OBVIOUS
    <3>1. i < j \/ j < i
      BY DEF Slots
    <3>2. lines[i] \in Nat /\ lines[j] \in Nat
      BY <1>1, <2>1
    <3>. QED
      BY <1>1, <3>1, <3>2
  <2>3. lines \in Injection(Slots, Lines)
    BY <1>1, <2>2 DEF Injection, IsInjective
  <2>4. Cardinality(Slots) = Cardinality(Lines)
    BY Places DEF numOfLines
  <2>5. lines \in Surjection(Slots, Lines)
    BY <2>3, <2>4, Places, FS_Injection
  <2>. QED
    BY <2>5 DEF Surjection
<1>3. tree \in [Nodes -> NodeTypes]
  <2>1. numOfLines \in Nat /\ NULL = -1
    BY Places DEF NULL
  <2>2. NULL \in -1..numOfLines /\ 0 \in 0..numOfLines
    BY <2>1
  <2>. QED
    BY <2>2 DEF Init, NodeTypes
<1>4. scene \in [Lines -> Rects]
  BY QuadTreeAssumption DEF Init
<1>5. phase = "idle" /\ builds = {} /\ strands = {} /\ step = 0 /\ 0 \in 0..MaxSteps
  BY QuadTreeAssumption DEF Init, NoStrands
<1>. QED
  BY <1>1, <1>2, <1>3, <1>4, <1>5 DEF TreeInv, TreeTypeOK, NodeTypes

\* A new step starts with all lines in the root.
LEMMA BeginRoots == ASSUME TreeInv, Begin PROVE TreeInv'
<1>. DEFINE b == [index |-> 0, box |-> Box, depth |-> 0]
<1>1. /\ phase = "idle" /\ phase' = "build" /\ step < MaxSteps /\ step' = step + 1 /\ scene' \in Scenes
      /\ lines' = lines /\ strands' = strands /\ builds' = {b}
      /\ tree' = QuadTree_new(tree, 0, numOfLines, 0)
  BY DEF Begin
<1>2. 0 \in Nodes /\ MAX_DEPTH \in Nat \ {0}
  BY TreeSizes DEF Nodes, QUADTREE_SIZE
<1>3. numOfLines \in Nat /\ 0 \in 0..numOfLines /\ numOfLines \in 0..numOfLines
  BY Places
<1>4. /\ tree' \in [Nodes -> NodeTypes]
      /\ tree'[0].lines = 0 /\ tree'[0].num_lines = numOfLines /\ tree'[0].child_lines = NULL
  <2>1. tree \in [Nodes -> NodeTypes]
    BY DEF TreeInv, TreeTypeOK, NodeTypes
  <2>. QED
    BY <1>1, <1>2, <1>3, <2>1, NewNode
<1>5. Own(0)' = Slots /\ Leaf(0)'
  BY <1>3, <1>4 DEF Own, Leaf, Slots
<1>6. scene' \in [Lines -> Rects] /\ Box \in Rects
  BY <1>1, QuadTreeAssumption
<1>7. Grown({0})'
  BY <1>2, <1>5 DEF Grown
<1>8. Parted({0})'
  BY <1>3, <1>4, <1>5 DEF Parted, Slots, numOfLines
<1>9. Nested({0})' /\ Together({0})'
  BY <1>5 DEF Nested, Together
<1>10. Waiting({0})'
  <2>1. b \in [index : Nodes, box : Rects, depth : 0..(MAX_DEPTH - 1)]
    BY <1>2, <1>6
  <2>2. b.index = 0 /\ b.depth = 0 /\ OnLevel(0, 0)
    BY DEF OnLevel
  <2>. HIDE DEF b
  <2>. QED
    BY <1>1, <1>5, <2>1, <2>2 DEF Waiting, OnLevel
<1>11. TreeTypeOK'
  <2>1. step' \in 0..MaxSteps
    BY <1>1, QuadTreeAssumption DEF TreeInv, TreeTypeOK
  <2>. QED
    BY <1>1, <1>4, <1>6, <2>1 DEF TreeInv, TreeTypeOK, NodeTypes, Slots
<1>12. {0} \in SUBSET Nodes /\ Picture({0})' /\ strands' = {}
  BY <1>1, <1>2, <1>7, <1>8, <1>9, <1>10 DEF Picture, TreeInv
<1>. QED
  BY <1>1, <1>11, <1>12 DEF TreeInv

\* The picture is one of the tree, the lines and the builds.
LEMMA PictureStays ==
  ASSUME UNCHANGED <<lines, scene, tree, builds>>, NEW R, Picture(R)
  PROVE  Picture(R)'
<1>1. Grown(R)'
  BY DEF Picture, Grown, Leaf
<1>2. Parted(R)'
  BY DEF Picture, Parted, Leaf, Own
<1>3. Nested(R)'
  BY DEF Picture, Nested, Leaf, Own, Below, Segment
<1>4. Together(R)'
  BY DEF Picture, Together, Leaf, Own, Below, intersect
<1>5. Waiting(R)'
  BY DEF Picture, Waiting, Leaf, OnLevel
<1>. QED
  BY <1>1, <1>2, <1>3, <1>4, <1>5 DEF Picture

\* Only builds and the start of a step change the picture.
LEMMA TreeStep == TreeInv /\ [Next]_vars => TreeInv'
<1>. SUFFICES ASSUME TreeInv, [Next]_vars PROVE TreeInv'
  OBVIOUS
<1>1. ASSUME UNCHANGED <<lines, scene, tree, builds, phase, step>>, strands # {} \/ strands' = strands PROVE TreeInv'
  <2>1. TreeTypeOK'
    BY <1>1 DEF TreeInv, TreeTypeOK
  <2>2. phase # "idle" => \E R \in SUBSET Nodes : Picture(R)'
    BY <1>1, PictureStays DEF TreeInv
  <2>. QED
    BY <1>1, <2>1, <2>2 DEF TreeInv
<1>2. CASE Begin
  BY <1>2, BeginRoots
<1>3. CASE \E b \in builds : Build(b)
  BY <1>3, BuildGrows
<1>4. CASE \E s \in strands : Detect(s) \/ StoreLine1(s) \/ StoreLine2(s) \/ Check(s)
  BY <1>1, <1>4 DEF Detect, StoreLine1, StoreLine2, Check
<1>5. CASE Built
  <2>1. /\ phase = "build" /\ builds = {} /\ phase' = "detect"
        /\ UNCHANGED <<lines, scene, tree, builds, step>>
    BY <1>5 DEF Built
  <2>2. TreeTypeOK'
    BY <2>1 DEF TreeInv, TreeTypeOK
  <2>3. \E R \in SUBSET Nodes : Picture(R)'
    BY <2>1, PictureStays DEF TreeInv
  <2>. QED
    BY <2>1, <2>2, <2>3 DEF TreeInv
<1>6. CASE End
  <2>1. /\ phase = "detect" /\ strands = {} /\ phase' = "idle" /\ scene' = [l \in Lines |-> Box]
        /\ UNCHANGED <<lines, tree, builds, strands, step>>
    BY <1>6 DEF End, NoStrands
  <2>2. scene' \in [Lines -> Rects]
    BY <2>1, QuadTreeAssumption
  <2>. QED
    BY <2>1, <2>2 DEF TreeInv, TreeTypeOK
<1>7. CASE Stop \/ UNCHANGED vars
  BY <1>1, <1>7 DEF Stop, vars
<1>. QED
  BY <1>2, <1>3, <1>4, <1>5, <1>6, <1>7 DEF Next, Work

\* Whatever the lines and however the builds interleave: in every reachable
\* state quadtree.c keeps a tree that parts the lines.
THEOREM TreeInvariant == Spec => []TreeInv
  BY TreeInit, TreeStep, PTL DEF Spec

-----------------------------------------------------------------------------
(* What the runs check of the tree.                                        *)

\* The node a child is of
LEMMA Parent ==
  /\ \A n \in Nat \ {0} : (n - 1) \div 4 \in Nat /\ (n - 1) \div 4 < n
       /\ \E q \in Quadrants : n = Child((n - 1) \div 4, q)
  /\ \A m \in Nat, q \in Quadrants : (Child(m, q) - 1) \div 4 = m
<1>1. \A n \in Nat \ {0} : (n - 1) \div 4 \in Nat /\ (n - 1) \div 4 < n
  OBVIOUS
<1>2. \A n \in Nat \ {0} : \E q \in Quadrants : n = Child((n - 1) \div 4, q)
  <2>. SUFFICES ASSUME NEW n \in Nat \ {0} PROVE \E q \in Quadrants : n = Child((n - 1) \div 4, q)
    OBVIOUS
  <2>. DEFINE r == (n - 1) - 4 * ((n - 1) \div 4)
  <2>1. r \in {0, 1, 2, 3}
    OBVIOUS
  <2>2. n = 4 * ((n - 1) \div 4) + 1 + r
    OBVIOUS
  <2>. QED
    BY <2>1, <2>2 DEF Child, Quadrants
<1>3. \A m \in Nat, q \in Quadrants : (Child(m, q) - 1) \div 4 = m
  <2>. SUFFICES ASSUME NEW m \in Nat, NEW q \in Quadrants PROVE (Child(m, q) - 1) \div 4 = m
    OBVIOUS
  <2>1. q \in 0..3 /\ Child(m, q) - 1 = 4 * m + q
    BY DEF Child, Quadrants
  <2>2. (4 * m + q) \div 4 = m
    BY <2>1
  <2>. QED
    BY <2>1, <2>2
<1>. QED
  BY <1>1, <1>2, <1>3

\* The nodes of a picture are those that the detection reaches.
LEMMA Reaches ==
  ASSUME NEW R \in SUBSET Nodes, Grown(R)
  PROVE  \A n \in Nodes : Reached[n] <=> n \in R
<1>. DEFINE parent(n) == (n - 1) \div 4
            f == [n \in Nodes |-> n \in R]
            right(g) == g = [n \in Nodes |-> n = 0 \/ (g[parent(n)] /\ tree[parent(n)].child_lines # NULL)]
            bad == {n \in Nodes : ~(Reached[n] <=> n \in R)}
<1>1. \A n \in Nodes : n \in Nat /\ (n # 0 => parent(n) \in Nodes /\ parent(n) < n)
  BY Parent, TreeSizes DEF Nodes, QUADTREE_SIZE
<1>2. \A n \in Nodes : (n \in R) <=> (n = 0 \/ (parent(n) \in R /\ ~Leaf(parent(n))))
  <2>. SUFFICES ASSUME NEW n \in Nodes, n # 0 PROVE n \in R <=> parent(n) \in R /\ ~Leaf(parent(n))
    BY DEF Grown
  <2>1. n \in Nat \ {0} /\ R \subseteq Nat
    BY <1>1
  <2>2. n \in R => parent(n) \in R /\ ~Leaf(parent(n))
    <3>. SUFFICES ASSUME n \in R PROVE parent(n) \in R /\ ~Leaf(parent(n))
      OBVIOUS
    <3>1. PICK m \in R : ~Leaf(m) /\ \E q \in Quadrants : n = Child(m, q)
      BY DEF Grown
    <3>2. parent(n) = m
      BY <2>1, <3>1, Parent
    <3>. QED
      BY <3>1, <3>2
  <2>3. ASSUME parent(n) \in R, ~Leaf(parent(n)) PROVE n \in R
    <3>1. PICK q \in Quadrants : n = Child(parent(n), q)
      BY <2>1, Parent
    <3>. QED
      BY <2>3, <3>1 DEF Grown
  <2>. QED
    BY <2>2, <2>3
<1>3. right(f)
  <2>1. \A n \in Nodes : (n \in R) = (n = 0 \/ (f[parent(n)] /\ tree[parent(n)].child_lines # NULL))
    <3>. SUFFICES ASSUME NEW n \in Nodes
                  PROVE (n \in R) = (n = 0 \/ (f[parent(n)] /\ tree[parent(n)].child_lines # NULL))
      OBVIOUS
    <3>1. CASE n = 0
      BY <3>1 DEF Grown
    <3>2. CASE n # 0
      <4>1. f[parent(n)] = (parent(n) \in R)
        BY <1>1, <3>2
      <4>2. (n \in R) = (parent(n) \in R /\ tree[parent(n)].child_lines # NULL)
        BY <1>2, <3>2 DEF Leaf
      <4>3. (n = 0) = FALSE
        BY <3>2
      <4>. HIDE DEF f, parent
      <4>. QED
        BY <4>1, <4>2, <4>3, Zenon
    <3>. QED
      BY <3>1, <3>2
  <2>. QED
    BY <2>1
<1>4. right(Reached)
  <2>1. Reached = CHOOSE g : right(g)
    BY DEF Reached
  <2>. HIDE DEF right, f
  <2>. QED
    BY <1>3, <2>1
<1>5. \A n \in Nodes : Reached[n] = (n = 0 \/ (Reached[parent(n)] /\ ~Leaf(parent(n))))
  BY <1>4, Zenon DEF Leaf
<1>6. bad = {}
  <2>. SUFFICES ASSUME bad # {} PROVE FALSE
    OBVIOUS
  <2>1. PICK n \in bad : \A m \in bad : n <= m
    <3>1. bad \in SUBSET Nat
      BY <1>1
    <3>. HIDE DEF bad
    <3>. QED
      BY <3>1, LeastNatural
  <2>2. n \in Nodes /\ n \in Nat /\ ~(Reached[n] <=> n \in R)
    BY <1>1
  <2>3. n # 0
    BY <1>2, <1>5, <2>2
  <2>4. parent(n) \in Nodes /\ parent(n) < n /\ parent(n) \in Nat
    BY <1>1, <2>2, <2>3
  <2>5. parent(n) \notin bad
    <3>. HIDE DEF bad
    <3>. QED
      BY <2>1, <2>2, <2>4
  <2>6. Reached[parent(n)] <=> parent(n) \in R
    BY <2>4, <2>5
  <2>. HIDE DEF bad
  <2>. QED
    BY <1>2, <1>5, <2>2, <2>3, <2>6
<1>. QED
  BY <1>6

\* The builds of a picture are at leaves, and no leaf has children in it.
LEMMA ApartWhileBuilding == TreeInv => BuildsApart /\ ChildrenFit
<1>. SUFFICES ASSUME TreeInv, builds # {} PROVE BuildsApart /\ ChildrenFit
  BY DEF BuildsApart, ChildrenFit
<1>1. phase = "build"
  BY DEF TreeInv
<1>2. PICK R \in SUBSET Nodes : Picture(R)
  BY <1>1 DEF TreeInv
<1>3. \A b \in builds : /\ b.index \in R /\ b.index \in Nat /\ Leaf(b.index)
                        /\ b.depth \in 0..(MAX_DEPTH - 1) /\ OnLevel(b.index, b.depth)
  BY <1>2, TreeSizes DEF Picture, Waiting, Nodes, QUADTREE_SIZE
<1>4. ChildrenFit
  BY <1>3, LevelDown DEF ChildrenFit
<1>5. ASSUME NEW b \in builds, NEW c \in builds, b # c
      PROVE  /\ Segment(b.index) \cap Segment(c.index) = {}
             /\ \A q \in Quadrants : b.index # Child(c.index, q)
             /\ \A p, q \in Quadrants : Child(b.index, p) # Child(c.index, q)
  <2>1. b.index # c.index
    BY <1>2, <1>5 DEF Picture, Waiting
  <2>2. Segment(b.index) = Own(b.index) /\ Segment(c.index) = Own(c.index)
    BY <1>3 DEF Segment, Leaf
  <2>3. Segment(b.index) \cap Segment(c.index) = {}
    BY <1>2, <1>3, <2>1, <2>2 DEF Picture, Parted
  <2>4. \A q \in Quadrants : b.index # Child(c.index, q)
    <3>. SUFFICES ASSUME NEW q \in Quadrants, b.index = Child(c.index, q) PROVE FALSE
      OBVIOUS
    <3>1. b.index # 0 /\ c.index \in Nat /\ R \subseteq Nat
      BY <1>3, Children, TreeSizes DEF Nodes, QUADTREE_SIZE
    <3>2. PICK m \in R : ~Leaf(m) /\ \E p \in Quadrants : b.index = Child(m, p)
      BY <1>2, <1>3, <3>1 DEF Picture, Grown
    <3>3. m = c.index
      BY <3>1, <3>2, Children
    <3>. QED
      BY <1>3, <3>2, <3>3
  <2>5. \A p, q \in Quadrants : Child(b.index, p) # Child(c.index, q)
    BY <1>3, <2>1, Children
  <2>. QED
    BY <2>3, <2>4, <2>5
<1>6. BuildsApart
  <2>. SUFFICES ASSUME NEW b \in builds, NEW c \in builds, b # c
                PROVE  /\ Segment(b.index) \cap Segment(c.index) = {}
                       /\ ({b.index} \cup {Child(b.index, q) : q \in Quadrants})
                            \cap ({c.index} \cup {Child(c.index, q) : q \in Quadrants}) = {}
    BY DEF BuildsApart
  <2>1. \A q \in Quadrants : b.index # Child(c.index, q)
    BY <1>5
  <2>2. \A q \in Quadrants : c.index # Child(b.index, q)
    BY <1>5
  <2>3. b.index # c.index
    BY <1>2 DEF Picture, Waiting
  <2>. QED
    BY <1>5, <2>1, <2>2, <2>3
<1>. QED
  BY <1>4, <1>6

\* When no build is left, the picture is the tree that is wanted.
LEMMA PartsWhenBuilt == TreeInv => TreePartition /\ LeavesFit
<1>. SUFFICES ASSUME TreeInv, phase = "detect" PROVE TreePartition /\ LeavesFit
  BY DEF TreePartition, LeavesFit
<1>1. PICK R \in SUBSET Nodes : Picture(R)
  BY DEF TreeInv
<1>2. \A n \in Nodes : Reached[n] <=> n \in R
  BY <1>1, Reaches DEF Picture
<1>3. LeavesFit
  <2>1. builds = {}
    BY DEF TreeInv
  <2>. QED
    BY <1>1, <1>2, <2>1 DEF LeavesFit, Picture, Waiting, Leaf
<1>4. ASSUME NEW i \in Slots PROVE Cardinality({n \in Nodes : Reached[n] /\ i \in Own(n)}) = 1
  <2>1. PICK n \in R : i \in Own(n)
    BY <1>1 DEF Picture, Parted
  <2>2. \A m \in R : i \in Own(m) => m = n
    BY <1>1, <2>1 DEF Picture, Parted
  <2>3. {m \in Nodes : Reached[m] /\ i \in Own(m)} = {n}
    BY <1>2, <2>1, <2>2
  <2>. QED
    BY <2>3, FS_Singleton
<1>5. \A n \in Nodes : Reached[n] /\ tree[n].child_lines # NULL =>
        Below(n) = UNION {Segment(Child(n, q)) : q \in Quadrants}
  BY <1>1, <1>2 DEF Picture, Nested, Leaf
<1>. QED
  BY <1>3, <1>4, <1>5 DEF TreePartition

\* The calls that QuadTree_buildQuadTree() spawns never touch the same part of
\* the array or the same nodes.
THEOREM BuildsStayApart == Spec => []BuildsApart
  BY TreeInvariant, ApartWhileBuilding, PTL

-----------------------------------------------------------------------------
(* Comparisons.                                                            *)

\* The fields of the nodes of a picture
LEMMA NodeBounds ==
  ASSUME TreeTypeOK, NEW R \in SUBSET Nodes, Picture(R), NEW n \in R
  PROVE  /\ n \in Nat /\ numOfLines \in Nat
         /\ tree[n].lines \in Nat /\ tree[n].num_lines \in Nat /\ tree[n].lines + tree[n].num_lines <= numOfLines
         /\ ~Leaf(n) => tree[n].child_lines \in Nat
         /\ tree[n].child_num_lines \in Nat /\ tree[n].child_lines \in Int
         /\ ~Leaf(n) => tree[n].child_lines + tree[n].child_num_lines <= numOfLines
<1>1. tree[n] \in [lines : -1..numOfLines, child_lines : -1..numOfLines,
                   num_lines : 0..numOfLines, child_num_lines : 0..numOfLines]
  BY DEF TreeTypeOK
<1>2. numOfLines \in Nat /\ NULL = -1 /\ n \in Nat
  BY Places, TreeSizes DEF NULL, Nodes, QUADTREE_SIZE
<1>3. tree[n].lines \in Int /\ 0 <= tree[n].lines /\ tree[n].lines + tree[n].num_lines <= numOfLines
  BY <1>1, <1>2 DEF Picture, Parted
<1>4. ~Leaf(n) => tree[n].child_lines + tree[n].child_num_lines <= numOfLines
  BY DEF Picture, Parted
<1>. QED
  BY <1>1, <1>2, <1>3, <1>4 DEF Leaf

\* What is compared are the lines of two places: the second is the node's own,
\* and the first is another of its own or one below it.
LEMMA TaskPlaces ==
  ASSUME TreeTypeOK, NEW R \in SUBSET Nodes, Picture(R), NEW n \in R,
         NEW fn \in Loops, NEW i, NEW j, IsTask(fn, n, i, j)
  PROVE  /\ FirstSlot(fn, n, i) \in Slots /\ SecondSlot(n, j) \in Slots
         /\ FirstSlot(fn, n, i) # SecondSlot(n, j)
         /\ SecondSlot(n, j) \in Own(n)
         /\ fn = "within" => FirstSlot(fn, n, i) \in Own(n)
         /\ fn = "children" => FirstSlot(fn, n, i) \in Below(n) /\ ~Leaf(n)
         /\ i \in 0..numOfLines /\ j \in 0..numOfLines
<1>1. /\ n \in Nat /\ numOfLines \in Nat
      /\ tree[n].lines \in Nat /\ tree[n].num_lines \in Nat /\ tree[n].lines + tree[n].num_lines <= numOfLines
      /\ ~Leaf(n) => tree[n].child_lines \in Nat
      /\ tree[n].child_num_lines \in Nat /\ tree[n].child_lines \in Int
      /\ ~Leaf(n) => tree[n].child_lines + tree[n].child_num_lines <= numOfLines
  BY NodeBounds
<1>2. ~Leaf(n) => Own(n) \cap Below(n) = {}
  BY DEF Picture, Nested
<1>3. CASE fn = "within"
  <2>1. i \in Nat /\ j \in Nat /\ i < j /\ j < tree[n].num_lines
    BY <1>3 DEF IsTask
  <2>2. FirstSlot(fn, n, i) = tree[n].lines + i /\ SecondSlot(n, j) = tree[n].lines + j
    BY <1>3 DEF FirstSlot, SecondSlot
  <2>. QED
    BY <1>1, <1>3, <2>1, <2>2 DEF Own, Slots
<1>4. CASE fn = "children"
  <2>1. ~Leaf(n) /\ i \in Nat /\ j \in Nat /\ i < tree[n].child_num_lines /\ j < tree[n].num_lines
    BY <1>4 DEF IsTask
  <2>2. FirstSlot(fn, n, i) = tree[n].child_lines + i /\ SecondSlot(n, j) = tree[n].lines + j
    BY <1>4 DEF FirstSlot, SecondSlot
  <2>3. /\ FirstSlot(fn, n, i) \in Slots /\ SecondSlot(n, j) \in Slots
        /\ SecondSlot(n, j) \in Own(n) /\ FirstSlot(fn, n, i) \in Below(n)
        /\ i \in 0..numOfLines /\ j \in 0..numOfLines
    BY <1>1, <2>1, <2>2 DEF Own, Below, Slots
  <2>. QED
    BY <1>2, <1>4, <2>1, <2>3
<1>. QED
  BY <1>3, <1>4 DEF Loops

\* Two pairs of lines are the same only if the lines are.
LEMMA SamePair ==
  ASSUME NEW a \in Nat, NEW b \in Nat, NEW c \in Nat, NEW d \in Nat, Ordered(a, b) = Ordered(c, d)
  PROVE  (a = c /\ b = d) \/ (a = d /\ b = c)
BY DEF Ordered

\* No two comparisons are of the same lines.
LEMMA TaskUnique ==
  ASSUME TreeTypeOK, NEW R \in SUBSET Nodes, Picture(R),
         NEW n \in R, NEW fn \in Loops, NEW i, NEW j, IsTask(fn, n, i, j),
         NEW m \in R, NEW gn \in Loops, NEW k, NEW l, IsTask(gn, m, k, l),
         PairOf(fn, n, i, j) = PairOf(gn, m, k, l)
  PROVE  fn = gn /\ n = m /\ i = k /\ j = l
<1>. DEFINE a == FirstSlot(fn, n, i)
            b == SecondSlot(n, j)
            c == FirstSlot(gn, m, k)
            d == SecondSlot(m, l)
<1>1. /\ a \in Slots /\ b \in Slots /\ a # b /\ b \in Own(n)
      /\ fn = "within" => a \in Own(n)
      /\ fn = "children" => a \in Below(n) /\ ~Leaf(n)
  BY TaskPlaces
<1>2. /\ c \in Slots /\ d \in Slots /\ c # d /\ d \in Own(m)
      /\ gn = "within" => c \in Own(m)
      /\ gn = "children" => c \in Below(m) /\ ~Leaf(m)
  BY TaskPlaces
<1>3. /\ \A x, y \in R : x # y => Own(x) \cap Own(y) = {}
      /\ \A x \in R : ~Leaf(x) => Own(x) \cap Below(x) = {}
      /\ \A x, y \in R : ~Leaf(x) /\ ~Leaf(y) => \A u \in Own(x), v \in Own(y) : ~(v \in Below(x) /\ u \in Below(y))
  BY DEF Picture, Parted, Nested
<1>4. (a = c /\ b = d) \/ (a = d /\ b = c)
  <2>1. lines \in [Slots -> Lines] /\ \A x, y \in Slots : lines[x] = lines[y] => x = y
    BY HeldOnce DEF TreeTypeOK
  <2>2. lines[a] \in Nat /\ lines[b] \in Nat /\ lines[c] \in Nat /\ lines[d] \in Nat
    BY <1>1, <1>2, <2>1, QuadTreeAssumption
  <2>3. Ordered(lines[a], lines[b]) = Ordered(lines[c], lines[d])
    BY DEF PairOf
  <2>. HIDE DEF a, b, c, d
  <2>4. (lines[a] = lines[c] /\ lines[b] = lines[d]) \/ (lines[a] = lines[d] /\ lines[b] = lines[c])
    BY <2>2, <2>3, SamePair
  <2>. QED
    BY <1>1, <1>2, <2>1, <2>4
<1>5. fn \in {"within", "children"} /\ gn \in {"within", "children"}
  BY DEF Loops
<1>6. n = m /\ fn = gn
  <2>. HIDE DEF a, b, c, d
  <2>1. CASE a = c /\ b = d
    BY <1>1, <1>2, <1>3, <1>5, <2>1
  <2>2. CASE a = d /\ b = c
    BY <1>1, <1>2, <1>3, <1>5, <2>2
  <2>. QED
    BY <1>4, <2>1, <2>2
<1>7. /\ tree[n].lines \in Int /\ tree[n].child_lines \in Int
      /\ i \in Int /\ j \in Int /\ k \in Int /\ l \in Int
      /\ fn = "within" => i < j /\ k < l
  BY <1>6, NodeBounds DEF IsTask
<1>8. ~(a = d /\ b = c)
  <2>1. CASE fn = "within"
    BY <1>6, <1>7, <2>1 DEF FirstSlot, SecondSlot
  <2>2. CASE fn = "children"
    <3>. HIDE DEF a, b, c, d
    <3>. QED
      BY <1>1, <1>2, <1>3, <1>6, <2>2
  <2>. QED
    BY <1>5, <2>1, <2>2
<1>9. i = k /\ j = l
  BY <1>4, <1>6, <1>7, <1>8 DEF FirstSlot, SecondSlot
<1>. QED
  BY <1>6, <1>9

-----------------------------------------------------------------------------
(* The strands.                                                            *)

\* Two lines that meet are compared, in one order or the other.
LEMMA HitIsTask ==
  ASSUME TreeTypeOK, phase # "idle", NEW R \in SUBSET Nodes, Picture(R), NEW p \in Hits
  PROVE  \E fn \in Loops, n \in R, i, j \in 0..numOfLines : IsTask(fn, n, i, j) /\ PairOf(fn, n, i, j) = p
<1>1. /\ p \in Lines \X Lines /\ p[1] < p[2] /\ p[1] \in Nat /\ p[2] \in Nat
      /\ intersect(p[1], p[2]) /\ intersect(p[2], p[1])
  <2>1. p \in Pairs /\ intersect(p[1], p[2])
    BY DEF Hits
  <2>2. p \in Lines \X Lines /\ p[1] < p[2] /\ p[1] \in Nat /\ p[2] \in Nat
    BY <2>1, QuadTreeAssumption DEF Pairs
  <2>. QED
    BY <2>1, <2>2 DEF intersect, ApartInX, ApartInY
<1>2. p = <<p[1], p[2]>> /\ Ordered(p[1], p[2]) = p /\ Ordered(p[2], p[1]) = p
  BY <1>1 DEF Ordered
<1>3. PICK a \in Slots, b \in Slots : lines[a] = p[1] /\ lines[b] = p[2]
  BY <1>1 DEF TreeTypeOK
<1>4. PICK n \in R : a \in Own(n)
  BY <1>3 DEF Picture, Parted
<1>5. PICK m \in R : b \in Own(m)
  BY <1>3 DEF Picture, Parted
<1>6. /\ n = m \/ (~Leaf(n) /\ b \in Below(n)) \/ (~Leaf(m) /\ a \in Below(m))
  BY <1>1, <1>3, <1>4, <1>5 DEF Picture, Together
<1>7. a \in Int /\ b \in Int /\ a # b
  BY <1>1, <1>3 DEF Slots
<1>. DEFINE C(fn, x, i, j) == IsTask(fn, x, i, j) /\ PairOf(fn, x, i, j) = p
<1>8. /\ \A x \in R, u \in Int, v \in Int :
           u \in Own(x) /\ v \in Own(x) /\ u < v /\ lines[u] \in {p[1], p[2]} /\ lines[v] \in {p[1], p[2]} /\ lines[u] # lines[v]
             => C("within", x, u - tree[x].lines, v - tree[x].lines)
  <2>. SUFFICES ASSUME NEW x \in R, NEW u \in Int, NEW v \in Int,
                       u \in Own(x), v \in Own(x), u < v,
                       lines[u] \in {p[1], p[2]}, lines[v] \in {p[1], p[2]}, lines[u] # lines[v]
                PROVE  C("within", x, u - tree[x].lines, v - tree[x].lines)
    OBVIOUS
  <2>1. tree[x].lines \in Nat /\ tree[x].num_lines \in Nat
    BY NodeBounds
  <2>2. IsTask("within", x, u - tree[x].lines, v - tree[x].lines)
    BY <2>1 DEF IsTask, Own
  <2>3. FirstSlot("within", x, u - tree[x].lines) = u /\ SecondSlot(x, v - tree[x].lines) = v
    BY <2>1 DEF FirstSlot, SecondSlot
  <2>4. PairOf("within", x, u - tree[x].lines, v - tree[x].lines) = Ordered(lines[u], lines[v])
    BY <2>3 DEF PairOf
  <2>5. Ordered(lines[u], lines[v]) = p
    BY <1>2
  <2>. QED
    BY <2>2, <2>4, <2>5
<1>9. /\ \A x \in R, u \in Int, v \in Int :
           ~Leaf(x) /\ u \in Below(x) /\ v \in Own(x) /\ lines[u] \in {p[1], p[2]} /\ lines[v] \in {p[1], p[2]} /\ lines[u] # lines[v]
             => C("children", x, u - tree[x].child_lines, v - tree[x].lines)
  <2>. SUFFICES ASSUME NEW x \in R, NEW u \in Int, NEW v \in Int,
                       ~Leaf(x), u \in Below(x), v \in Own(x),
                       lines[u] \in {p[1], p[2]}, lines[v] \in {p[1], p[2]}, lines[u] # lines[v]
                PROVE  C("children", x, u - tree[x].child_lines, v - tree[x].lines)
    OBVIOUS
  <2>1. tree[x].lines \in Nat /\ tree[x].num_lines \in Nat /\ tree[x].child_lines \in Int /\ tree[x].child_num_lines \in Nat
    BY NodeBounds
  <2>2. IsTask("children", x, u - tree[x].child_lines, v - tree[x].lines)
    BY <2>1 DEF IsTask, Own, Below
  <2>3. FirstSlot("children", x, u - tree[x].child_lines) = u /\ SecondSlot(x, v - tree[x].lines) = v
    BY <2>1 DEF FirstSlot, SecondSlot
  <2>4. PairOf("children", x, u - tree[x].child_lines, v - tree[x].lines) = Ordered(lines[u], lines[v])
    BY <2>3 DEF PairOf
  <2>5. Ordered(lines[u], lines[v]) = p
    BY <1>2
  <2>. QED
    BY <2>2, <2>4, <2>5
<1>10. \E fn \in Loops, x \in R : \E i, j : C(fn, x, i, j)
  <2>0. lines[a] \in {p[1], p[2]} /\ lines[b] \in {p[1], p[2]} /\ lines[a] # lines[b] /\ "within" \in Loops /\ "children" \in Loops
    BY <1>1, <1>3 DEF Loops
  <2>. HIDE DEF C
  <2>1. CASE n = m /\ a < b
    BY <1>4, <1>5, <1>7, <1>8, <2>0, <2>1
  <2>2. CASE n = m /\ b < a
    BY <1>4, <1>5, <1>7, <1>8, <2>0, <2>2
  <2>3. CASE ~Leaf(n) /\ b \in Below(n)
    BY <1>4, <1>7, <1>9, <2>0, <2>3
  <2>4. CASE ~Leaf(m) /\ a \in Below(m)
    BY <1>5, <1>7, <1>9, <2>0, <2>4
  <2>. QED
    BY <1>6, <1>7, <2>1, <2>2, <2>3, <2>4
<1>. QED
  BY <1>10, TaskPlaces

\* A node that is called starts its loops and the calls of its children.
LEMMA DetectVisits ==
  ASSUME TreeTypeOK, NEW R \in SUBSET Nodes, Picture(R), NEW V, Visits(R, V), StrandsOK(R, V),
         NEW s \in strands, Detect(s)
  PROVE  /\ s.index \in R \ V /\ s = DetectStrand(s.index)
         /\ Visits(R, V \cup {s.index})'
         /\ StrandsOK(R, V \cup {s.index})'
<1>. DEFINE k == s.index
            W == V \cup {k}
            new == IF Leaf(k) THEN {} ELSE ChildrenStrands(k) \cup {DetectStrand(Child(k, q)) : q \in {q \in Quadrants : Busy(Child(k, q))}}
<1>1. /\ s.fn = "detect" /\ strands' = (strands \ {s}) \cup WithinStrands(k) \cup new
      /\ UNCHANGED <<lines, tree>>
  BY DEF Detect, Leaf
<1>2. /\ s = DetectStrand(k) /\ k \in R /\ k \notin V /\ V \subseteq R
      /\ k # 0 => \E m \in V : ~Leaf(m) /\ \E q \in Quadrants : k = Child(m, q)
  BY <1>1 DEF StrandsOK, Visits
<1>3. R \subseteq Nodes /\ R \subseteq Nat /\ 0 \in R
  BY TreeSizes DEF Nodes, QUADTREE_SIZE, Picture, Grown
<1>4. /\ tree[k].num_lines \in Nat /\ tree[k].child_num_lines \in Nat
  BY <1>2, NodeBounds
<1>5. /\ \A m \in R, q \in Quadrants : ~Leaf(m) => Child(m, q) \in R
      /\ \A m, n \in R, q, p \in Quadrants : Child(m, q) = Child(n, p) => m = n /\ q = p
      /\ \A m \in R, q \in Quadrants : Child(m, q) # m /\ Child(m, q) # 0
  <2>1. \A m \in R, q \in Quadrants : ~Leaf(m) => Child(m, q) \in R
    BY DEF Picture, Grown
  <2>2. \A m \in R, q \in Quadrants : Child(m, q) \in Nat /\ Child(m, q) > m /\ m \in Nat
    BY <1>3, Children
  <2>. QED
    BY <1>3, <2>1, <2>2, Children
<1>6. \A t \in strands' : \/ t \in strands /\ t # s
                          \/ t \in WithinStrands(k)
                          \/ ~Leaf(k) /\ t \in ChildrenStrands(k)
                          \/ ~Leaf(k) /\ \E q \in Quadrants : t = DetectStrand(Child(k, q))
  BY <1>1
<1>7. \A t \in WithinStrands(k) : /\ t = [fn |-> "within", index |-> k, i |-> t.i, j |-> t.i + 1, pc |-> "line1"]
                                  /\ t.i \in Nat /\ t.i + 1 < tree[k].num_lines
  BY <1>4 DEF WithinStrands
<1>8. \A t \in ChildrenStrands(k) : /\ t = [fn |-> "children", index |-> k, i |-> t.i, j |-> 0, pc |-> "line1"]
                                    /\ t.i \in Nat /\ t.i < tree[k].child_num_lines /\ 0 < tree[k].num_lines
  BY <1>4 DEF ChildrenStrands
<1>9. \A n : DetectStrand(n).fn = "detect" /\ DetectStrand(n).index = n
  BY DEF DetectStrand
<1>10. \A t \in strands' : t.fn = "detect" =>
        /\ t = DetectStrand(t.index) /\ t.index \in R \ W
        /\ t.index # 0 => \E m \in W : ~Leaf(m) /\ \E q \in Quadrants : t.index = Child(m, q)
  <2>. SUFFICES ASSUME NEW t \in strands', t.fn = "detect"
                PROVE  /\ t = DetectStrand(t.index) /\ t.index \in R \ W
                       /\ t.index # 0 => \E m \in W : ~Leaf(m) /\ \E q \in Quadrants : t.index = Child(m, q)
    OBVIOUS
  <2>1. CASE t \in strands /\ t # s
    BY <1>2, <2>1 DEF StrandsOK
  <2>2. CASE ~Leaf(k) /\ \E q \in Quadrants : t = DetectStrand(Child(k, q))
    <3>1. PICK q \in Quadrants : t = DetectStrand(Child(k, q))
      BY <2>2
    <3>2. t.index = Child(k, q) /\ t.index \in R /\ t.index # k
      BY <1>2, <1>5, <1>9, <2>2, <3>1
    <3>3. t.index \notin V
      BY <1>2, <2>2, <3>2 DEF Visits
    <3>. QED
      BY <2>2, <3>1, <3>2, <3>3
  <2>3. t \notin WithinStrands(k) /\ t \notin ChildrenStrands(k)
    <3>1. t.fn # "within" /\ t.fn # "children"
      OBVIOUS
    <3>. QED
      BY <1>7, <1>8, <3>1
  <2>. QED
    BY <1>6, <2>1, <2>2, <2>3
<1>11. \A t \in strands' : t.fn # "detect" =>
        /\ t \in StrandTypes
        /\ t.index \in W /\ IsTask(t.fn, t.index, t.i, t.j)
        /\ t.index = k \/ t \in strands
  <2>. SUFFICES ASSUME NEW t \in strands', t.fn # "detect"
                PROVE  /\ t \in StrandTypes
                       /\ t.index \in W /\ IsTask(t.fn, t.index, t.i, t.j)
                       /\ t.index = k \/ t \in strands
    OBVIOUS
  <2>1. CASE t \in strands /\ t # s
    BY <2>1 DEF StrandsOK
  <2>2. CASE t \in WithinStrands(k)
    <3>1. t.fn = "within" /\ t.index = k /\ t.j = t.i + 1
      BY <1>7, <2>2
    <3>2. t \in StrandTypes
      BY <1>2, <1>3, <1>7, <2>2 DEF Loops, StrandTypes
    <3>. QED
      BY <1>7, <2>2, <3>1, <3>2 DEF IsTask
  <2>3. CASE ~Leaf(k) /\ t \in ChildrenStrands(k)
    <3>1. t.fn = "children" /\ t.index = k /\ t.j = 0
      BY <1>8, <2>3
    <3>2. t \in StrandTypes
      BY <1>2, <1>3, <1>8, <2>3 DEF Loops, StrandTypes
    <3>. QED
      BY <1>8, <2>3, <3>1, <3>2 DEF IsTask
  <2>. QED
    BY <1>6, <1>9, <2>1, <2>2, <2>3
<1>12. \A t, u \in strands' : t.fn = u.fn /\ t.index = u.index /\ t.i = u.i => t = u
  <2>. SUFFICES ASSUME NEW t \in strands', NEW u \in strands', t.fn = u.fn, t.index = u.index, t.i = u.i PROVE t = u
    OBVIOUS
  <2>1. CASE t.fn = "detect"
    BY <1>10, <2>1
  <2>2. CASE t.fn # "detect" /\ t.index # k
    BY <1>11, <2>2 DEF StrandsOK
  <2>3. CASE t.fn # "detect" /\ t.index = k
    <3>1. t \notin strands /\ u \notin strands
      BY <1>2, <2>3 DEF StrandsOK
    <3>2. t \in WithinStrands(k) \/ t \in ChildrenStrands(k)
      BY <1>6, <1>9, <2>3, <3>1
    <3>3. u \in WithinStrands(k) \/ u \in ChildrenStrands(k)
      BY <1>6, <1>9, <2>3, <3>1
    <3>. QED
      BY <1>7, <1>8, <3>2, <3>3
  <2>. QED
    BY <2>1, <2>2, <2>3
<1>13. StrandsOK(R, W)'
  <2>1. \A n : Leaf(n)' <=> Leaf(n)
    BY <1>1 DEF Leaf
  <2>2. \A fn, n, i, j : IsTask(fn, n, i, j)' <=> IsTask(fn, n, i, j)
    BY <1>1 DEF IsTask, Leaf
  <2>. HIDE DEF W, new
  <2>. QED
    BY <1>10, <1>11, <1>12, <2>1, <2>2 DEF StrandsOK
<1>14. Visits(R, W)'
  <2>1. W \subseteq R
    BY <1>2
  <2>2. ASSUME NEW m \in R, NEW q \in Quadrants, ~Leaf(m), Child(m, q) \in W PROVE m \in W
    <3>1. CASE Child(m, q) \in V
      BY <2>2, <3>1 DEF Visits
    <3>2. CASE Child(m, q) = k
      <4>1. PICK n \in V : \E p \in Quadrants : k = Child(n, p)
        BY <1>2, <1>5, <3>2
      <4>. QED
        BY <1>2, <1>5, <3>2, <4>1
    <3>. QED
      BY <2>2, <3>1, <3>2
  <2>3. \A t \in strands : t = s \/ t \in strands'
    BY <1>1
  <2>4. 0 \in W \/ DetectStrand(0) \in strands'
    BY <1>2, <1>9, <2>3 DEF Visits
  <2>5. ASSUME NEW m \in W, NEW q \in Quadrants, ~Leaf(m)
        PROVE  Child(m, q) \in W \/ DetectStrand(Child(m, q)) \in strands' \/ ~Busy(Child(m, q))
    <3>1. CASE m \in V
      BY <1>9, <2>3, <2>5, <3>1 DEF Visits
    <3>2. CASE m = k
      BY <1>1, <2>5, <3>2
    <3>. QED
      BY <2>5, <3>1, <3>2
  <2>6. (\A n : Leaf(n)' <=> Leaf(n)) /\ (\A n : Busy(n)' <=> Busy(n))
    BY <1>1 DEF Leaf, Busy
  <2>. HIDE DEF W, new
  <2>. QED
    BY <2>1, <2>2, <2>4, <2>5, <2>6 DEF Visits
<1>. QED
  BY <1>2, <1>13, <1>14

\* An iteration that goes on, or ends
LEMMA Advance ==
  ASSUME NEW R, NEW V, Visits(R, V), StrandsOK(R, V), NEW s \in strands, s.fn # "detect",
         NEW u \in StrandTypes, u.fn = s.fn, u.index = s.index, u.i = s.i, IsTask(u.fn, u.index, u.i, u.j),
         strands' = (strands \ {s}) \cup {u} \/ strands' = strands \ {s}, UNCHANGED tree
  PROVE  Visits(R, V)' /\ StrandsOK(R, V)'
<1>1. \A t \in strands' : (t \in strands /\ t # s) \/ t = u
  OBVIOUS
<1>2. \A t \in strands : t.fn = "detect" => t \in strands'
  OBVIOUS
<1>3. /\ \A n : Leaf(n)' <=> Leaf(n)
      /\ \A n : Busy(n)' <=> Busy(n)
      /\ \A fn, n, i, j : IsTask(fn, n, i, j)' <=> IsTask(fn, n, i, j)
  BY DEF Leaf, Busy, IsTask
<1>4. Visits(R, V)'
  <2>1. \A n : DetectStrand(n).fn = "detect"
    BY DEF DetectStrand
  <2>. QED
    BY <1>2, <1>3, <2>1 DEF Visits
<1>5. \A t \in strands' : t.fn = "detect" =>
       /\ t = DetectStrand(t.index) /\ t.index \in R \ V
       /\ t.index # 0 => \E m \in V : ~Leaf(m) /\ \E q \in Quadrants : t.index = Child(m, q)
  BY <1>1 DEF StrandsOK
<1>6. \A t \in strands' : t.fn # "detect" =>
       t \in StrandTypes /\ t.index \in V /\ IsTask(t.fn, t.index, t.i, t.j)
  BY <1>1 DEF StrandsOK, StrandTypes
<1>7. \A t, v \in strands' : t.fn = v.fn /\ t.index = v.index /\ t.i = v.i => t = v
  BY <1>1 DEF StrandsOK
<1>. QED
  BY <1>3, <1>4, <1>5, <1>6, <1>7 DEF StrandsOK, StrandTypes

\* What is stored is a line.
LEMMA StoredLines ==
  ASSUME TreeTypeOK, NEW R \in SUBSET Nodes, Picture(R), NEW V, Visits(R, V), StrandsOK(R, V),
         NEW s \in strands, s.fn # "detect"
  PROVE  /\ s \in StrandTypes /\ s.fn \in Loops /\ s.index \in R /\ IsTask(s.fn, s.index, s.i, s.j)
         /\ FirstLine(s) = lines[FirstSlot(s.fn, s.index, s.i)] /\ SecondLine(s) = lines[SecondSlot(s.index, s.j)]
         /\ FirstLine(s) \in Lines /\ SecondLine(s) \in Lines /\ FirstLine(s) # SecondLine(s)
         /\ FirstLine(s) \in Nat /\ SecondLine(s) \in Nat
<1>1. s \in StrandTypes /\ s.fn \in Loops /\ s.index \in R /\ IsTask(s.fn, s.index, s.i, s.j)
  BY DEF StrandsOK, StrandTypes, Visits
<1>2. FirstLine(s) = lines[FirstSlot(s.fn, s.index, s.i)] /\ SecondLine(s) = lines[SecondSlot(s.index, s.j)]
  BY DEF FirstLine, SecondLine, FirstSlot, SecondSlot
<1>3. /\ FirstSlot(s.fn, s.index, s.i) \in Slots /\ SecondSlot(s.index, s.j) \in Slots
      /\ FirstSlot(s.fn, s.index, s.i) # SecondSlot(s.index, s.j)
  BY <1>1, TaskPlaces
<1>4. lines \in [Slots -> Lines] /\ \A x, y \in Slots : lines[x] = lines[y] => x = y
  BY HeldOnce DEF TreeTypeOK
<1>5. FirstLine(s) \in Lines /\ SecondLine(s) \in Lines /\ FirstLine(s) # SecondLine(s)
  BY <1>2, <1>3, <1>4
<1>6. Lines \subseteq Nat
  BY QuadTreeAssumption
<1>. QED
  BY <1>1, <1>2, <1>5, <1>6

\* A strand that uses line1 is an iteration that has started.
LEMMA StartedAt ==
  ASSUME NEW R, NEW V, StrandsOK(R, V), NEW s \in strands, s.pc \in {"line2", "check"}
  PROVE  Started(s)
<1>1. s.fn = "detect" => s.pc = "call"
  BY DEF StrandsOK, DetectStrand
<1>. QED
  BY <1>1 DEF Started

\* A frame that is stored to holds the new line, and the others are as they were.
LEMMA Keeping ==
  ASSUME NEW inTurn \in BOOLEAN, FramesOK(inTurn), NEW s, NEW h \in [line1 : Nat, line2 : Nat], NEW g, g = Keep(s, h)
  PROVE  /\ Held(s) \in [line1 : Nat, line2 : Nat]
         /\ \A f \in DOMAIN g : g[f] \in [line1 : Nat, line2 : Nat]
         /\ Frame(s) \in DOMAIN g /\ g[Frame(s)] = h
         /\ \A f \in DOMAIN frames : f \in DOMAIN g /\ (f # Frame(s) => g[f] = frames[f])
<1>1. Held(s) \in [line1 : Nat, line2 : Nat]
  BY DEF Held, FramesOK
<1>2. DOMAIN g = DOMAIN frames \cup {Frame(s)}
  BY DEF Keep
<1>3. \A f \in DOMAIN g : g[f] = IF f = Frame(s) THEN h ELSE frames[f]
  BY DEF Keep
<1>. QED
  BY <1>1, <1>2, <1>3 DEF FramesOK

\* line1 is stored: the iteration is at its first pair.
LEMMA Store1Frames ==
  ASSUME NEW inTurn \in BOOLEAN, TreeTypeOK, NEW R \in SUBSET Nodes, Picture(R),
         NEW V, Visits(R, V), StrandsOK(R, V), FramesOK(inTurn),
         inTurn => LoopsInTurn, inTurn => LoopsInTurn', NEW s \in strands, StoreLine1(s)
  PROVE  /\ FramesOK(inTurn)' /\ Visits(R, V)' /\ StrandsOK(R, V)'
         /\ s.fn # "detect"
         /\ \E u \in StrandTypes : /\ strands' = (strands \ {s}) \cup {u}
                                   /\ u.fn = s.fn /\ u.index = s.index /\ u.i = s.i /\ u.j = s.j
<1>. DEFINE u == [s EXCEPT !.pc = "line2"]
            h == [Held(s) EXCEPT !.line1 = FirstLine(s)]
<1>1. /\ s.pc = "line1" /\ frames' = Keep(s, h) /\ strands' = (strands \ {s}) \cup {u} /\ UNCHANGED <<lines, tree>>
  BY DEF StoreLine1
<1>2. s.fn # "detect"
  <2>1. s.fn = "detect" => s.pc = "call"
    BY DEF StrandsOK, DetectStrand
  <2>. QED
    BY <1>1, <2>1
<1>3. s \in StrandTypes /\ IsTask(s.fn, s.index, s.i, s.j) /\ FirstLine(s) \in Lines /\ FirstLine(s) \in Nat
  BY <1>2, StoredLines
<1>4. u \in StrandTypes /\ u.fn = s.fn /\ u.index = s.index /\ u.i = s.i /\ u.j = s.j /\ u.pc = "line2"
  BY <1>3 DEF StrandTypes
<1>5. Held(s) \in [line1 : Nat, line2 : Nat]
  BY DEF Held, FramesOK
<1>6. h \in [line1 : Nat, line2 : Nat] /\ h.line1 = FirstLine(s) /\ h.line2 = Held(s).line2
  BY <1>3, <1>5
<1>7. Visits(R, V)' /\ StrandsOK(R, V)'
  <2>. HIDE DEF u, h
  <2>. QED
    BY <1>1, <1>2, <1>3, <1>4, Advance
<1>8. /\ \A f \in DOMAIN frames' : frames'[f] \in [line1 : Nat, line2 : Nat]
      /\ Frame(s) \in DOMAIN frames' /\ frames'[Frame(s)] = h
      /\ \A f \in DOMAIN frames : f \in DOMAIN frames' /\ (f # Frame(s) => frames'[f] = frames[f])
  <2>. HIDE DEF u, h
  <2>. QED
    BY <1>1, <1>6, Keeping
<1>9. \A t : FirstLine(t)' = FirstLine(t) /\ SecondLine(t)' = SecondLine(t)
  BY <1>1 DEF FirstLine, SecondLine
<1>10. Frame(u) = Frame(s) /\ FirstLine(u) = FirstLine(s)
  <2>. HIDE DEF u
  <2>. QED
    BY <1>4 DEF Frame, FirstLine
<1>11. ASSUME NEW t \in strands', t.pc \in {"line2", "check"}
       PROVE  /\ Frame(t) \in DOMAIN frames' /\ frames'[Frame(t)].line1 \in Lines
              /\ inTurn => frames'[Frame(t)].line1 = FirstLine(t)
              /\ t.pc = "check" => /\ frames'[Frame(t)].line2 \in Lines
                                   /\ inTurn => frames'[Frame(t)].line2 = SecondLine(t)
  <2>. HIDE DEF h
  <2>1. CASE t = u
    <3>1. t.pc # "check"
      BY <1>4, <2>1
    <3>. HIDE DEF u
    <3>. QED
      BY <1>3, <1>6, <1>8, <1>10, <2>1, <3>1
  <2>2. CASE t \in strands /\ t # s /\ Frame(t) = Frame(s)
    <3>1. ~inTurn
      <4>. SUFFICES ASSUME inTurn PROVE FALSE
        OBVIOUS
      <4>1. t \in strands' /\ u \in strands' /\ Started(t)
        BY <1>1, <1>11, <2>2, StartedAt
      <4>. HIDE DEF u
      <4>2. Started(u) /\ Frame(t) = Frame(u)
        BY <1>2, <1>4, <1>10, <2>2 DEF Started
      <4>3. t = u
        BY <4>1, <4>2 DEF LoopsInTurn, Frame, Started
      <4>. QED
        BY <1>4, <2>2, <4>3 DEF StrandsOK
    <3>2. t.pc = "check" => frames[Frame(s)].line2 \in Lines /\ Held(s) = frames[Frame(s)]
      BY <2>2, <1>11 DEF FramesOK, Held
    <3>. QED
      BY <1>3, <1>6, <1>8, <2>2, <3>1, <3>2
  <2>3. CASE t \in strands /\ t # s /\ Frame(t) # Frame(s)
    BY <1>8, <1>11, <2>3 DEF FramesOK
  <2>. QED
    BY <1>1, <2>1, <2>2, <2>3
<1>12. FramesOK(inTurn)'
  <2>1. \A t : Frame(t)' = Frame(t)
    BY DEF Frame
  <2>. HIDE DEF u, h
  <2>. QED
    BY <1>8, <1>9, <1>11, <2>1 DEF FramesOK
<1>. QED
  <2>. HIDE DEF u, h
  <2>. QED
    BY <1>1, <1>2, <1>4, <1>7, <1>12

\* line2 is stored for the next pair.
LEMMA Store2Frames ==
  ASSUME NEW inTurn \in BOOLEAN, TreeTypeOK, NEW R \in SUBSET Nodes, Picture(R),
         NEW V, Visits(R, V), StrandsOK(R, V), FramesOK(inTurn),
         inTurn => LoopsInTurn, inTurn => LoopsInTurn', NEW s \in strands, StoreLine2(s)
  PROVE  /\ FramesOK(inTurn)' /\ Visits(R, V)' /\ StrandsOK(R, V)'
         /\ s.fn # "detect"
         /\ \E u \in StrandTypes : /\ strands' = (strands \ {s}) \cup {u}
                                   /\ u.fn = s.fn /\ u.index = s.index /\ u.i = s.i /\ u.j = s.j
<1>. DEFINE u == [s EXCEPT !.pc = "check"]
            h == [Held(s) EXCEPT !.line2 = SecondLine(s)]
<1>1. /\ s.pc = "line2" /\ frames' = Keep(s, h) /\ strands' = (strands \ {s}) \cup {u} /\ UNCHANGED <<lines, tree>>
  BY DEF StoreLine2
<1>2. s.fn # "detect"
  <2>1. s.fn = "detect" => s.pc = "call"
    BY DEF StrandsOK, DetectStrand
  <2>. QED
    BY <1>1, <2>1
<1>3. s \in StrandTypes /\ IsTask(s.fn, s.index, s.i, s.j) /\ SecondLine(s) \in Lines /\ SecondLine(s) \in Nat
  BY <1>2, StoredLines
<1>4. u \in StrandTypes /\ u.fn = s.fn /\ u.index = s.index /\ u.i = s.i /\ u.j = s.j /\ u.pc = "check"
  BY <1>3 DEF StrandTypes
<1>5. Held(s) \in [line1 : Nat, line2 : Nat]
  BY DEF Held, FramesOK
<1>6. h \in [line1 : Nat, line2 : Nat] /\ h.line2 = SecondLine(s) /\ h.line1 = Held(s).line1
  BY <1>3, <1>5
<1>7. Visits(R, V)' /\ StrandsOK(R, V)'
  <2>. HIDE DEF u, h
  <2>. QED
    BY <1>1, <1>2, <1>3, <1>4, Advance
<1>8. /\ \A f \in DOMAIN frames' : frames'[f] \in [line1 : Nat, line2 : Nat]
      /\ Frame(s) \in DOMAIN frames' /\ frames'[Frame(s)] = h
      /\ \A f \in DOMAIN frames : f \in DOMAIN frames' /\ (f # Frame(s) => frames'[f] = frames[f])
  <2>. HIDE DEF u, h
  <2>. QED
    BY <1>1, <1>6, Keeping
<1>9. \A t : FirstLine(t)' = FirstLine(t) /\ SecondLine(t)' = SecondLine(t)
  BY <1>1 DEF FirstLine, SecondLine
<1>10. Frame(u) = Frame(s) /\ FirstLine(u) = FirstLine(s) /\ SecondLine(u) = SecondLine(s)
  <2>. HIDE DEF u
  <2>. QED
    BY <1>4 DEF Frame, FirstLine, SecondLine
<1>11. ASSUME NEW t \in strands', t.pc \in {"line2", "check"}
       PROVE  /\ Frame(t) \in DOMAIN frames' /\ frames'[Frame(t)].line1 \in Lines
              /\ inTurn => frames'[Frame(t)].line1 = FirstLine(t)
              /\ t.pc = "check" => /\ frames'[Frame(t)].line2 \in Lines
                                   /\ inTurn => frames'[Frame(t)].line2 = SecondLine(t)
  <2>. HIDE DEF h
  <2>1. CASE t = u
    <3>1. /\ Frame(s) \in DOMAIN frames /\ frames[Frame(s)].line1 \in Lines /\ Held(s) = frames[Frame(s)]
          /\ inTurn => frames[Frame(s)].line1 = FirstLine(s)
      BY <1>1 DEF FramesOK, Held
    <3>. HIDE DEF u
    <3>. QED
      BY <1>3, <1>6, <1>8, <1>10, <2>1, <3>1
  <2>2. CASE t \in strands /\ t # s /\ Frame(t) = Frame(s)
    <3>1. ~inTurn
      <4>1. Started(s) /\ Started(t)
        BY <1>1, <1>11, <2>2, StartedAt
      <4>. QED
        BY <2>2, <4>1 DEF LoopsInTurn
    <3>2. frames[Frame(s)].line1 \in Lines /\ Held(s) = frames[Frame(s)]
      BY <2>2, <1>11 DEF FramesOK, Held
    <3>. QED
      BY <1>3, <1>6, <1>8, <2>2, <3>1, <3>2
  <2>3. CASE t \in strands /\ t # s /\ Frame(t) # Frame(s)
    BY <1>8, <1>11, <2>3 DEF FramesOK
  <2>. QED
    BY <1>1, <2>1, <2>2, <2>3
<1>12. FramesOK(inTurn)'
  <2>1. \A t : Frame(t)' = Frame(t)
    BY DEF Frame
  <2>. HIDE DEF u, h
  <2>. QED
    BY <1>8, <1>9, <1>11, <2>1 DEF FramesOK
<1>. QED
  <2>. HIDE DEF u, h
  <2>. QED
    BY <1>1, <1>2, <1>4, <1>7, <1>12

\* A pair is compared, and the iteration goes on or ends.
LEMMA CheckFrames ==
  ASSUME NEW inTurn \in BOOLEAN, TreeTypeOK, NEW R \in SUBSET Nodes, Picture(R),
         NEW V, Visits(R, V), StrandsOK(R, V), FramesOK(inTurn),
         NEW s \in strands, Check(s)
  PROVE  /\ FramesOK(inTurn)' /\ Visits(R, V)' /\ StrandsOK(R, V)'
         /\ s.fn # "detect"
         /\ \/ /\ strands' = strands \ {s}
               /\ s.j + 1 >= tree[s.index].num_lines
            \/ \E u \in StrandTypes : /\ strands' = (strands \ {s}) \cup {u}
                                      /\ u.fn = s.fn /\ u.index = s.index /\ u.i = s.i /\ u.j = s.j + 1
         /\ Held(s).line1 \in Lines /\ Held(s).line2 \in Lines
         /\ inTurn => Held(s).line1 = FirstLine(s) /\ Held(s).line2 = SecondLine(s)
<1>. DEFINE u == [s EXCEPT !.j = s.j + 1, !.pc = "line2"]
<1>1. /\ s.pc = "check" /\ strands' = Continue(s) /\ UNCHANGED <<lines, tree, frames>>
  BY DEF Check
<1>2. s.fn # "detect"
  <2>1. s.fn = "detect" => s.pc = "call"
    BY DEF StrandsOK, DetectStrand
  <2>. QED
    BY <1>1, <2>1
<1>3. s \in StrandTypes /\ s.fn \in Loops /\ s.index \in R /\ IsTask(s.fn, s.index, s.i, s.j) /\ s.j \in Nat
  BY <1>2, StoredLines DEF StrandTypes
<1>4. u \in StrandTypes /\ u.fn = s.fn /\ u.index = s.index /\ u.i = s.i /\ u.j = s.j + 1 /\ u.pc = "line2"
  <2>. DEFINE v == [s EXCEPT !.j = s.j + 1]
  <2>1. v \in StrandTypes /\ v.fn = s.fn /\ v.index = s.index /\ v.i = s.i /\ v.j = s.j + 1
    BY <1>3 DEF StrandTypes
  <2>2. u = [v EXCEPT !.pc = "line2"]
    OBVIOUS
  <2>. HIDE DEF u, v
  <2>. QED
    BY <2>1, <2>2 DEF StrandTypes
<1>5. tree[s.index].num_lines \in Nat
  BY <1>3, NodeBounds
<1>6. \/ strands' = strands \ {s} /\ s.j + 1 >= tree[s.index].num_lines
      \/ strands' = (strands \ {s}) \cup {u} /\ s.j + 1 < tree[s.index].num_lines
  BY <1>1, <1>3, <1>5 DEF Continue
<1>7. Visits(R, V)' /\ StrandsOK(R, V)'
  <2>1. CASE strands' = (strands \ {s}) \cup {u} /\ s.j + 1 < tree[s.index].num_lines
    <3>1. IsTask(s.fn, s.index, s.i, s.j + 1)
      BY <1>3, <1>5, <2>1 DEF IsTask
    <3>. HIDE DEF u
    <3>. QED
      BY <1>1, <1>2, <1>4, <2>1, <3>1, Advance
  <2>2. CASE strands' = strands \ {s}
    BY <1>1, <1>2, <1>3, <2>2, Advance
  <2>. QED
    BY <1>6, <2>1, <2>2
<1>8. /\ Frame(s) \in DOMAIN frames /\ Held(s) = frames[Frame(s)]
      /\ frames[Frame(s)].line1 \in Lines /\ frames[Frame(s)].line2 \in Lines
      /\ inTurn => frames[Frame(s)].line1 = FirstLine(s) /\ frames[Frame(s)].line2 = SecondLine(s)
  BY <1>1 DEF FramesOK, Held
<1>9. Frame(u) = Frame(s) /\ FirstLine(u) = FirstLine(s)
  <2>. HIDE DEF u
  <2>. QED
    BY <1>4 DEF Frame, FirstLine
<1>10. /\ \A t : FirstLine(t)' = FirstLine(t) /\ SecondLine(t)' = SecondLine(t)
       /\ \A t : Frame(t)' = Frame(t)
  BY <1>1 DEF FirstLine, SecondLine, Frame
<1>11. \A t \in strands' : t = u \/ t \in strands
  <2>. HIDE DEF u
  <2>. QED
    BY <1>6
<1>12. FramesOK(inTurn)'
  <2>1. ASSUME NEW t \in strands', t.pc \in {"line2", "check"}
        PROVE  /\ Frame(t) \in DOMAIN frames /\ frames[Frame(t)].line1 \in Lines
               /\ inTurn => frames[Frame(t)].line1 = FirstLine(t)
               /\ t.pc = "check" => /\ frames[Frame(t)].line2 \in Lines
                                    /\ inTurn => frames[Frame(t)].line2 = SecondLine(t)
    <3>1. CASE t = u
      <4>. HIDE DEF u
      <4>. QED
        BY <1>4, <1>8, <1>9, <3>1
    <3>2. CASE t \in strands
      BY <2>1, <3>2 DEF FramesOK
    <3>. QED
      BY <1>11, <3>1, <3>2
  <2>. HIDE DEF u
  <2>. QED
    BY <1>1, <1>10, <2>1 DEF FramesOK
<1>. QED
  <2>. HIDE DEF u
  <2>. QED
    BY <1>2, <1>4, <1>6, <1>7, <1>8, <1>12

-----------------------------------------------------------------------------
(* What is found.                                                          *)

\* The list holds pairs of lines in the order of their ids.
EventTypes ==
  /\ \A p \in DOMAIN events : p \in Lines \X Lines /\ p[1] <= p[2] /\ events[p] \in Nat
  /\ size \in Nat

\* The pairs are a finite set.
LEMMA PairsFinite ==
  /\ IsFiniteSet(Pairs)
  /\ Hits \subseteq Pairs /\ IsFiniteSet(Hits)
<1>1. IsFiniteSet(Lines \X Lines)
  BY QuadTreeAssumption, FS_Product
<1>2. Pairs \subseteq Lines \X Lines
  BY DEF Pairs
<1>3. IsFiniteSet(Pairs)
  BY <1>1, <1>2, FS_Subset
<1>4. Hits \subseteq Pairs
  BY DEF Hits
<1>. QED
  BY <1>3, <1>4, FS_Subset

\* A pair that is found is appended to the list, and the others stay.
LEMMA Listing ==
  ASSUME EventTypes, NEW a \in Lines, NEW b \in Lines, check_line_intersect(a, b)
  PROVE  /\ EventTypes'
         /\ \/ /\ intersect(a, b)
               /\ DOMAIN events' = DOMAIN events \cup {Ordered(a, b)} /\ size' = size + 1
               /\ Ordered(a, b) \notin DOMAIN events => events'[Ordered(a, b)] = 1
               /\ \A p \in DOMAIN events : p # Ordered(a, b) => events'[p] = events[p]
            \/ ~intersect(a, b) /\ UNCHANGED <<events, size>>
<1>1. CASE ~intersect(a, b)
  BY <1>1 DEF check_line_intersect, EventTypes
<1>2. CASE intersect(a, b)
  <2>1. bounding_box_intersect(scene[a], scene[b])
    BY <1>2 DEF intersect, bounding_box_intersect
  <2>2. /\ events' = [p \in DOMAIN events \cup {Ordered(a, b)} |->
                      (IF p \in DOMAIN events THEN events[p] ELSE 0) + (IF p = Ordered(a, b) THEN 1 ELSE 0)]
        /\ size' = size + 1
    BY <1>2, <2>1 DEF check_line_intersect
  <2>3. Ordered(a, b) \in Lines \X Lines /\ Ordered(a, b)[1] <= Ordered(a, b)[2]
    BY QuadTreeAssumption DEF Ordered
  <2>4. DOMAIN events' = DOMAIN events \cup {Ordered(a, b)}
    BY <2>2
  <2>5. \A p \in DOMAIN events' : events'[p] =
          (IF p \in DOMAIN events THEN events[p] ELSE 0) + (IF p = Ordered(a, b) THEN 1 ELSE 0)
    BY <2>2
  <2>6. \A p \in DOMAIN events : events[p] \in Nat
    BY DEF EventTypes
  <2>7. \A p \in DOMAIN events' : events'[p] \in Nat
    BY <2>4, <2>5, <2>6
  <2>8. Ordered(a, b) \notin DOMAIN events => events'[Ordered(a, b)] = 1
    BY <2>4, <2>5
  <2>9. \A p \in DOMAIN events : p # Ordered(a, b) => events'[p] = events[p]
    BY <2>4, <2>5, <2>6
  <2>. QED
    BY <1>2, <2>2, <2>3, <2>4, <2>7, <2>8, <2>9 DEF EventTypes
<1>. QED
  BY <1>1, <1>2

\* A step that compares nothing leaves the same comparisons to come.
LEMMA FoundStays ==
  ASSUME NEW R, NEW V, NEW W, Found(R, V), UNCHANGED <<lines, scene, tree, events, phase>>,
         \A fn \in Loops, n \in R, i, j \in 0..numOfLines : IsTask(fn, n, i, j) =>
           (Pending(W, fn, n, i, j)' <=> Pending(V, fn, n, i, j))
  PROVE  Found(R, W)'
<1>1. Hits' = Hits
  BY DEF Hits, intersect
<1>2. \A fn, n, i, j : PairOf(fn, n, i, j)' = PairOf(fn, n, i, j)
  BY DEF PairOf, FirstSlot, SecondSlot
<1>3. \A fn, n, i, j : IsTask(fn, n, i, j)' <=> IsTask(fn, n, i, j)
  BY DEF IsTask, Leaf
<1>. QED
  BY <1>1, <1>2, <1>3 DEF Found, Loops

\* A node that is called has all its comparisons to come.
LEMMA DetectFound ==
  ASSUME TreeTypeOK, NEW R \in SUBSET Nodes, Picture(R), NEW V, Visits(R, V), StrandsOK(R, V), Found(R, V),
         phase = "detect", NEW s \in strands, Detect(s)
  PROVE  Found(R, V \cup {s.index})'
<1>. DEFINE k == s.index
            W == V \cup {k}
<1>1. /\ s.fn = "detect" /\ UNCHANGED <<lines, scene, tree, events, phase>>
      /\ strands' = (strands \ {s}) \cup WithinStrands(k) \cup
           IF tree[k].child_lines = NULL THEN {}
           ELSE ChildrenStrands(k) \cup {DetectStrand(Child(k, q)) : q \in {q \in Quadrants : Busy(Child(k, q))}}
  BY DEF Detect
<1>2. k \in R /\ k \notin V /\ s = DetectStrand(k)
  BY DetectVisits
<1>3. tree[k].num_lines \in Nat /\ tree[k].child_num_lines \in Nat
  BY <1>2, NodeBounds
<1>4. ASSUME NEW fn \in Loops, NEW n \in R, NEW i \in 0..numOfLines, NEW j \in 0..numOfLines, IsTask(fn, n, i, j)
      PROVE  Pending(W, fn, n, i, j)' <=> Pending(V, fn, n, i, j)
  <2>0. fn \in {"within", "children"} /\ numOfLines \in Nat
    BY Places DEF Loops
  <2>1. CASE n = k
    <3>1. Pending(V, fn, n, i, j)
      BY <1>2, <2>1 DEF Pending
    <3>2. CASE fn = "within"
      <4>1. i < j /\ j < tree[k].num_lines /\ i \in Nat /\ j \in Nat
        BY <1>4, <2>1, <3>2 DEF IsTask
      <4>. DEFINE t == [fn |-> "within", index |-> k, i |-> i, j |-> i + 1, pc |-> "line1"]
      <4>2. t \in WithinStrands(k)
        BY <1>3, <4>1 DEF WithinStrands
      <4>3. t \in strands'
        BY <1>1, <4>2
      <4>4. t.fn = fn /\ t.index = n /\ t.i = i /\ t.j <= j
        BY <2>1, <3>2, <4>1
      <4>. HIDE DEF t
      <4>. QED
        BY <3>1, <4>3, <4>4 DEF Pending
    <3>3. CASE fn = "children"
      <4>1. i < tree[k].child_num_lines /\ j < tree[k].num_lines /\ i \in Nat /\ j \in Nat /\ tree[k].child_lines # NULL
        BY <1>4, <2>1, <3>3 DEF IsTask, Leaf
      <4>. DEFINE t == [fn |-> "children", index |-> k, i |-> i, j |-> 0, pc |-> "line1"]
      <4>2. t \in ChildrenStrands(k)
        BY <1>3, <4>1 DEF ChildrenStrands
      <4>3. t \in strands'
        BY <1>1, <4>1, <4>2
      <4>4. t.fn = fn /\ t.index = n /\ t.i = i /\ t.j <= j
        BY <2>1, <3>3, <4>1
      <4>. HIDE DEF t
      <4>. QED
        BY <3>1, <4>3, <4>4 DEF Pending
    <3>. QED
      BY <2>0, <3>2, <3>3
  <2>2. CASE n # k
    <3>1. \A t : t.fn = fn /\ t.index = n => (t \in strands' <=> t \in strands)
      <4>1. \A t \in WithinStrands(k) : t.index = k
        BY DEF WithinStrands
      <4>2. \A t \in ChildrenStrands(k) : t.index = k
        BY DEF ChildrenStrands
      <4>3. \A m : DetectStrand(m).fn = "detect"
        BY DEF DetectStrand
      <4>. QED
        BY <1>1, <2>0, <2>2, <4>1, <4>2, <4>3
    <3>. QED
      BY <2>2, <3>1 DEF Pending
  <2>. QED
    BY <2>1, <2>2
<1>. QED
  <2>. HIDE DEF W
  <2>1. Found(R, W)'
    BY <1>1, <1>4, FoundStays
  <2>. QED
    BY <2>1 DEF W

\* Storing a line compares nothing.
LEMMA StoreFound ==
  ASSUME NEW R, NEW V, Found(R, V), UNCHANGED <<lines, scene, tree, events, phase>>,
         NEW s \in strands, NEW u, strands' = (strands \ {s}) \cup {u},
         u.fn = s.fn, u.index = s.index, u.i = s.i, u.j = s.j
  PROVE  Found(R, V)'
<1>1. \A fn, n, i, j : Pending(V, fn, n, i, j)' <=> Pending(V, fn, n, i, j)
  BY DEF Pending
<1>. QED
  BY <1>1, FoundStays

\* In its turn, an iteration compares the pair it is at: no other
\* comparison is of that pair, so that it is listed once if it meets.
LEMMA CheckFound ==
  ASSUME TreeTypeOK, phase = "detect", EventTypes, EventsOK, NEW R \in SUBSET Nodes, Picture(R),
         NEW V, Visits(R, V), StrandsOK(R, V), FramesOK(TRUE), Found(R, V),
         NEW s \in strands, Check(s)
  PROVE  /\ Found(R, V)' /\ EventsOK'
         /\ \/ UNCHANGED events
            \/ \E p \in Hits : /\ p \notin DOMAIN events /\ DOMAIN events' = DOMAIN events \cup {p}
                               /\ events'[p] = 1 /\ \A q \in DOMAIN events : events'[q] = events[q]
<1>. DEFINE fn0 == s.fn
            n0  == s.index
            i0  == s.i
            j0  == s.j
            p0  == PairOf(fn0, n0, i0, j0)
<1>1. /\ s.fn # "detect"
      /\ \/ strands' = strands \ {s} /\ s.j + 1 >= tree[s.index].num_lines
         \/ \E u \in StrandTypes : /\ strands' = (strands \ {s}) \cup {u}
                                   /\ u.fn = s.fn /\ u.index = s.index /\ u.i = s.i /\ u.j = s.j + 1
      /\ Held(s).line1 = FirstLine(s) /\ Held(s).line2 = SecondLine(s)
      /\ Held(s).line1 \in Lines /\ Held(s).line2 \in Lines
  BY CheckFrames
<1>2. /\ s \in StrandTypes /\ s.fn \in Loops /\ s.index \in R /\ IsTask(s.fn, s.index, s.i, s.j)
      /\ FirstLine(s) = lines[FirstSlot(s.fn, s.index, s.i)] /\ SecondLine(s) = lines[SecondSlot(s.index, s.j)]
      /\ FirstLine(s) \in Lines /\ SecondLine(s) \in Lines /\ FirstLine(s) # SecondLine(s)
      /\ FirstLine(s) \in Nat /\ SecondLine(s) \in Nat
  BY <1>1, StoredLines
<1>3. n0 \in V /\ j0 \in Nat /\ i0 \in 0..numOfLines /\ j0 \in 0..numOfLines
  BY <1>1, <1>2, TaskPlaces DEF StrandsOK
<1>4. p0 = Ordered(FirstLine(s), SecondLine(s))
  BY <1>2 DEF PairOf
<1>5. UNCHANGED <<lines, scene, tree, phase>> /\ check_line_intersect(FirstLine(s), SecondLine(s))
  BY <1>1 DEF Check
<1>6. \/ /\ intersect(FirstLine(s), SecondLine(s))
         /\ DOMAIN events' = DOMAIN events \cup {p0} /\ size' = size + 1
         /\ p0 \notin DOMAIN events => events'[p0] = 1
         /\ \A p \in DOMAIN events : p # p0 => events'[p] = events[p]
      \/ ~intersect(FirstLine(s), SecondLine(s)) /\ UNCHANGED <<events, size>>
  <2>. HIDE DEF p0
  <2>. QED
    BY <1>2, <1>4, <1>5, Listing
<1>7. p0 \in Hits <=> intersect(FirstLine(s), SecondLine(s))
  <2>1. p0 \in Pairs
    BY <1>2, <1>4 DEF Ordered, Pairs
  <2>2. (p0[1] = FirstLine(s) /\ p0[2] = SecondLine(s)) \/ (p0[2] = FirstLine(s) /\ p0[1] = SecondLine(s))
    BY <1>2, <1>4 DEF Ordered
  <2>3. intersect(FirstLine(s), SecondLine(s)) <=> intersect(SecondLine(s), FirstLine(s))
    BY DEF intersect, ApartInX, ApartInY
  <2>. HIDE DEF p0
  <2>. QED
    BY <2>1, <2>2, <2>3 DEF Hits
<1>8. Pending(V, fn0, n0, i0, j0) /\ p0 \notin DOMAIN events
  <2>1. Pending(V, fn0, n0, i0, j0)
    BY <1>3 DEF Pending
  <2>. QED
    BY <1>2, <1>3, <2>1 DEF Found
<1>9. /\ \A fn, n, i, j : PairOf(fn, n, i, j)' = PairOf(fn, n, i, j)
      /\ \A fn, n, i, j : IsTask(fn, n, i, j)' <=> IsTask(fn, n, i, j)
      /\ Hits' = Hits
  BY <1>5 DEF PairOf, FirstSlot, SecondSlot, IsTask, Leaf, Hits, intersect
<1>10. ASSUME NEW fn \in Loops, NEW n \in R, NEW i \in 0..numOfLines, NEW j \in 0..numOfLines, IsTask(fn, n, i, j)
       PROVE  IF fn = fn0 /\ n = n0 /\ i = i0 /\ j = j0 THEN ~Pending(V, fn, n, i, j)'
              ELSE Pending(V, fn, n, i, j)' <=> Pending(V, fn, n, i, j)
  <2>1. \A t \in strands : t.fn = fn0 /\ t.index = n0 /\ t.i = i0 => t = s
    BY DEF StrandsOK
  <2>2. j \in Nat /\ (n = n0 => j < tree[n0].num_lines /\ tree[n0].num_lines \in Nat)
    <3>1. n = n0 => tree[n0].num_lines \in Nat
      BY NodeBounds
    <3>. QED
      BY <1>10, <3>1 DEF IsTask
  <2>3. CASE fn = fn0 /\ n = n0 /\ i = i0
    <3>1. Pending(V, fn, n, i, j) <=> j0 <= j
      BY <1>3, <2>1, <2>3 DEF Pending
    <3>2. Pending(V, fn, n, i, j)' <=> j0 + 1 <= j
      <4>1. CASE strands' = strands \ {s} /\ s.j + 1 >= tree[s.index].num_lines
        <5>1. ~Pending(V, fn, n, i, j)'
          BY <1>3, <2>1, <2>3, <4>1 DEF Pending
        <5>2. ~(j0 + 1 <= j)
          BY <1>3, <2>2, <2>3, <4>1
        <5>. QED
          BY <5>1, <5>2
      <4>2. ASSUME NEW u \in StrandTypes, strands' = (strands \ {s}) \cup {u},
                   u.fn = s.fn, u.index = s.index, u.i = s.i, u.j = s.j + 1
            PROVE  Pending(V, fn, n, i, j)' <=> j0 + 1 <= j
        BY <1>3, <2>1, <2>3, <4>2 DEF Pending
      <4>. QED
        BY <1>1, <4>1, <4>2
    <3>. QED
      BY <1>3, <2>2, <2>3, <3>1, <3>2
  <2>4. CASE ~(fn = fn0 /\ n = n0 /\ i = i0)
    <3>1. \A t : t.fn = fn /\ t.index = n /\ t.i = i => (t \in strands' <=> t \in strands)
      BY <1>1, <2>4
    <3>. QED
      BY <2>4, <3>1 DEF Pending
  <2>. QED
    BY <2>3, <2>4
<1>. HIDE DEF p0
<1>11. Found(R, V)'
  <2>. SUFFICES ASSUME NEW fn \in Loops, NEW n \in R, NEW i \in 0..numOfLines, NEW j \in 0..numOfLines, IsTask(fn, n, i, j)
                PROVE  IF Pending(V, fn, n, i, j)' THEN PairOf(fn, n, i, j) \notin DOMAIN events'
                       ELSE PairOf(fn, n, i, j) \in Hits => PairOf(fn, n, i, j) \in DOMAIN events'
    BY <1>9 DEF Found, Loops
  <2>1. CASE fn = fn0 /\ n = n0 /\ i = i0 /\ j = j0
    <3>1. ~Pending(V, fn, n, i, j)' /\ PairOf(fn, n, i, j) = p0
      BY <1>10, <2>1 DEF p0
    <3>. QED
      BY <1>6, <1>7, <3>1
  <2>2. CASE ~(fn = fn0 /\ n = n0 /\ i = i0 /\ j = j0)
    <3>1. Pending(V, fn, n, i, j)' <=> Pending(V, fn, n, i, j)
      BY <1>10, <2>2
    <3>2. PairOf(fn, n, i, j) # p0
      BY <1>2, <2>2, TaskUnique DEF p0
    <3>3. IF Pending(V, fn, n, i, j) THEN PairOf(fn, n, i, j) \notin DOMAIN events
          ELSE PairOf(fn, n, i, j) \in Hits => PairOf(fn, n, i, j) \in DOMAIN events
      BY DEF Found
    <3>. QED
      BY <1>6, <3>1, <3>2, <3>3
  <2>. QED
    BY <2>1, <2>2
<1>12. EventsOK'
  <2>1. IsFiniteSet(DOMAIN events)
    BY PairsFinite, FS_Subset DEF EventsOK
  <2>2. CASE p0 \in Hits
    <3>1. Cardinality(DOMAIN events \cup {p0}) = Cardinality(DOMAIN events) + 1
      BY <1>8, <2>1, FS_AddElement
    <3>. QED
      BY <1>6, <1>7, <1>8, <1>9, <2>2, <3>1 DEF EventsOK
  <2>3. CASE p0 \notin Hits
    BY <1>6, <1>7, <1>9, <2>3 DEF EventsOK
  <2>. QED
    BY <2>2, <2>3
<1>. QED
  BY <1>6, <1>7, <1>8, <1>11, <1>12

-----------------------------------------------------------------------------
(* The invariant of the detection.                                         *)

\* How far the detection has come
Underway(inTurn, R, V) == Visits(R, V) /\ StrandsOK(R, V) /\ (inTurn => Found(R, V))

\* What the tree, the strands and the list are between any two steps
StrandInv(inTurn) ==
  /\ inTurn => LoopsInTurn
  /\ TreeInv /\ EventTypes /\ FramesOK(inTurn)
  /\ phase # "detect" => DOMAIN events = {}
  /\ phase = "detect" => \E R \in SUBSET Nodes : Picture(R) /\ \E V : Underway(inTurn, R, V)
  /\ inTurn => EventsOK

\* Nothing of the detection is there before the first step.
LEMMA StrandInit ==
  ASSUME NEW inTurn \in BOOLEAN, Init
  PROVE  StrandInv(inTurn)
<1>1. DOMAIN events = {} /\ size = 0 /\ strands = {} /\ DOMAIN frames = {} /\ phase = "idle"
  BY DEF Init, NoEvents, NoFrames, NoStrands
<1>2. EventsOK
  BY <1>1, FS_EmptySet DEF EventsOK
<1>. QED
  BY <1>1, <1>2, TreeInit DEF StrandInv, EventTypes, FramesOK, LoopsInTurn

\* The strands keep to the nodes and the lines they were started for.
LEMMA StrandStep ==
  ASSUME NEW inTurn \in BOOLEAN, StrandInv(inTurn), [Next]_vars, inTurn => LoopsInTurn'
  PROVE  StrandInv(inTurn)'
<1>0. TreeInv' /\ TreeInv /\ TreeTypeOK /\ EventTypes /\ FramesOK(inTurn) /\ (inTurn => LoopsInTurn)
  BY TreeStep DEF StrandInv, TreeInv
<1>1. CASE Begin
  <2>1. /\ phase = "idle" /\ phase' = "build" /\ UNCHANGED <<strands, frames, events, size>> /\ strands = {}
    BY <1>0, <1>1 DEF Begin, TreeInv
  <2>2. DOMAIN events = {} /\ DOMAIN events' = {}
    BY <2>1 DEF StrandInv
  <2>3. EventTypes' /\ (inTurn => EventsOK')
    BY <2>1, <2>2 DEF StrandInv, EventTypes, EventsOK
  <2>4. FramesOK(inTurn)'
    BY <1>0, <2>1 DEF FramesOK
  <2>. QED
    BY <1>0, <2>1, <2>2, <2>3, <2>4 DEF StrandInv
<1>2. CASE \E b \in builds : Build(b)
  <2>1. /\ UNCHANGED <<scene, strands, frames, events, size, phase>> /\ strands = {} /\ phase = "build"
    BY <1>0, <1>2 DEF Build, TreeInv, TreeTypeOK
  <2>2. DOMAIN events = {} /\ DOMAIN events' = {}
    BY <2>1 DEF StrandInv
  <2>3. EventTypes' /\ (inTurn => EventsOK')
    BY <2>1, <2>2 DEF StrandInv, EventTypes, EventsOK
  <2>4. FramesOK(inTurn)'
    BY <1>0, <2>1 DEF FramesOK
  <2>. QED
    BY <1>0, <2>1, <2>2, <2>3, <2>4 DEF StrandInv
<1>3. ASSUME NEW s \in strands, Detect(s) \/ StoreLine1(s) \/ StoreLine2(s) \/ Check(s)
      PROVE  StrandInv(inTurn)'
  <2>1. phase = "detect" /\ phase' = "detect" /\ UNCHANGED <<lines, scene, tree, builds>>
    BY <1>0, <1>3 DEF TreeInv, Detect, StoreLine1, StoreLine2, Check
  <2>2. PICK R \in SUBSET Nodes : Picture(R) /\ \E V : Underway(inTurn, R, V)
    BY <2>1 DEF StrandInv
  <2>3. PICK V : Underway(inTurn, R, V)
    BY <2>2
  <2>4. Visits(R, V) /\ StrandsOK(R, V) /\ (inTurn => Found(R, V))
    BY <2>3 DEF Underway
  <2>5. Picture(R)'
    BY <2>1, <2>2, PictureStays
  <2>6. ASSUME UNCHANGED <<events, size>> PROVE EventTypes' /\ (inTurn => EventsOK')
    <3>1. Hits' = Hits
      BY <2>1 DEF Hits, intersect
    <3>. QED
      BY <1>0, <2>6, <3>1 DEF StrandInv, EventTypes, EventsOK
  <2>7. CASE Detect(s)
    <3>1. UNCHANGED <<events, size, frames>>
      BY <2>7 DEF Detect
    <3>2. Visits(R, V \cup {s.index})' /\ StrandsOK(R, V \cup {s.index})'
      BY <1>0, <2>2, <2>4, <2>7, DetectVisits
    <3>3. inTurn => Found(R, V \cup {s.index})'
      BY <1>0, <2>1, <2>2, <2>4, <2>7, DetectFound
    <3>4. FramesOK(inTurn)'
      <4>1. \A t \in strands' : t.pc \in {"line2", "check"} => t \in strands
        BY <2>7 DEF Detect, WithinStrands, ChildrenStrands, DetectStrand
      <4>2. \A t : FirstLine(t)' = FirstLine(t) /\ SecondLine(t)' = SecondLine(t) /\ Frame(t)' = Frame(t)
        BY <2>1 DEF FirstLine, SecondLine, Frame
      <4>. QED
        BY <1>0, <3>1, <4>1, <4>2 DEF FramesOK
    <3>5. Underway(inTurn, R, V \cup {s.index})'
      BY <3>2, <3>3 DEF Underway
    <3>. QED
      BY <1>0, <2>1, <2>5, <2>6, <3>1, <3>4, <3>5 DEF StrandInv
  <2>8. CASE StoreLine1(s) \/ StoreLine2(s)
    <3>1. UNCHANGED <<events, size>>
      BY <2>8 DEF StoreLine1, StoreLine2
    <3>2. /\ FramesOK(inTurn)' /\ Visits(R, V)' /\ StrandsOK(R, V)'
          /\ \E u \in StrandTypes : /\ strands' = (strands \ {s}) \cup {u}
                                    /\ u.fn = s.fn /\ u.index = s.index /\ u.i = s.i /\ u.j = s.j
      <4>1. CASE StoreLine1(s)
        BY <1>0, <2>2, <2>4, <4>1, Store1Frames
      <4>2. CASE StoreLine2(s)
        BY <1>0, <2>2, <2>4, <4>2, Store2Frames
      <4>. QED
        BY <2>8, <4>1, <4>2
    <3>3. inTurn => Found(R, V)'
      BY <2>1, <2>4, <3>1, <3>2, StoreFound
    <3>4. Underway(inTurn, R, V)'
      BY <3>2, <3>3 DEF Underway
    <3>. QED
      BY <1>0, <2>1, <2>5, <2>6, <3>1, <3>2, <3>4 DEF StrandInv
  <2>9. CASE Check(s)
    <3>1. /\ FramesOK(inTurn)' /\ Visits(R, V)' /\ StrandsOK(R, V)'
          /\ Held(s).line1 \in Lines /\ Held(s).line2 \in Lines
      BY <1>0, <2>2, <2>4, <2>9, CheckFrames
    <3>2. EventTypes'
      <4>1. check_line_intersect(Held(s).line1, Held(s).line2)
        BY <2>9 DEF Check
      <4>. QED
        BY <1>0, <3>1, <4>1, Listing
    <3>3. inTurn => Found(R, V)' /\ EventsOK'
      BY <1>0, <2>1, <2>2, <2>4, <2>9, CheckFound DEF StrandInv
    <3>4. Underway(inTurn, R, V)'
      BY <3>1, <3>3 DEF Underway
    <3>. QED
      BY <1>0, <2>1, <2>5, <3>1, <3>2, <3>3, <3>4 DEF StrandInv
  <2>. QED
    BY <1>3, <2>7, <2>8, <2>9
<1>4. CASE Built
  <2>1. /\ phase = "build" /\ builds = {} /\ phase' = "detect" /\ strands' = {DetectStrand(0)}
        /\ UNCHANGED <<lines, scene, tree, builds, frames, events, size>>
    BY <1>4 DEF Built
  <2>2. DOMAIN events = {} /\ DOMAIN events' = {}
    BY <2>1 DEF StrandInv
  <2>3. PICK R \in SUBSET Nodes : Picture(R)
    BY <1>0, <2>1 DEF TreeInv
  <2>4. Picture(R)' /\ 0 \in R
    BY <2>1, <2>3, PictureStays DEF Picture, Grown
  <2>5. Visits(R, {})' /\ StrandsOK(R, {})'
    <3>1. DetectStrand(0).fn = "detect" /\ DetectStrand(0).index = 0
      BY DEF DetectStrand
    <3>. QED
      BY <2>1, <2>4, <3>1 DEF Visits, StrandsOK
  <2>6. Found(R, {})'
    BY <2>2 DEF Found, Pending
  <2>7. EventTypes' /\ (inTurn => EventsOK')
    BY <2>1, <2>2 DEF StrandInv, EventTypes, EventsOK
  <2>8. FramesOK(inTurn)'
    <3>1. \A t \in strands' : t.pc \notin {"line2", "check"}
      BY <2>1 DEF DetectStrand
    <3>. QED
      BY <1>0, <2>1, <3>1 DEF FramesOK
  <2>. QED
    BY <1>0, <2>1, <2>4, <2>5, <2>6, <2>7, <2>8 DEF StrandInv, Underway
<1>5. CASE End
  <2>1. phase' = "idle" /\ strands' = {} /\ DOMAIN events' = {} /\ size' = 0 /\ DOMAIN frames' = {}
    BY <1>5 DEF End, NoStrands, NoEvents, NoFrames
  <2>2. EventsOK'
    BY <2>1, FS_EmptySet DEF EventsOK
  <2>. QED
    BY <1>0, <2>1, <2>2 DEF StrandInv, EventTypes, FramesOK
<1>6. CASE Stop \/ UNCHANGED vars
  <2>1. UNCHANGED vars
    BY <1>6 DEF Stop
  <2>2. phase = "detect" => \E R \in SUBSET Nodes : Picture(R)' /\ \E V : Underway(inTurn, R, V)'
    <3>. SUFFICES ASSUME phase = "detect" PROVE \E R \in SUBSET Nodes : Picture(R)' /\ \E V : Underway(inTurn, R, V)'
      OBVIOUS
    <3>1. PICK R \in SUBSET Nodes : Picture(R) /\ \E V : Underway(inTurn, R, V)
      BY DEF StrandInv
    <3>2. Picture(R)'
      BY <2>1, <3>1, PictureStays DEF vars
    <3>3. PICK V : Underway(inTurn, R, V)
      BY <3>1
    <3>4. Visits(R, V)'
      BY <2>1, <3>3 DEF vars, Underway, Visits, Leaf, Busy
    <3>5. StrandsOK(R, V)'
      BY <2>1, <3>3 DEF vars, Underway, StrandsOK, Leaf, IsTask
    <3>6. inTurn => Found(R, V)'
      <4>1. \A fn, n, i, j : Pending(V, fn, n, i, j)' <=> Pending(V, fn, n, i, j)
        BY <2>1 DEF vars, Pending
      <4>. QED
        BY <2>1, <3>3, <4>1, FoundStays DEF vars, Underway
    <3>. QED
      BY <3>2, <3>4, <3>5, <3>6 DEF Underway
  <2>3. FramesOK(inTurn)'
    BY <1>0, <2>1 DEF vars, FramesOK, Frame, FirstLine, SecondLine
  <2>4. EventTypes' /\ (inTurn => EventsOK')
    BY <2>1 DEF vars, StrandInv, EventTypes, EventsOK, Hits, intersect
  <2>. QED
    BY <1>0, <2>1, <2>2, <2>3, <2>4 DEF StrandInv, vars
<1>. QED
  BY <1>1, <1>2, <1>3, <1>4, <1>5, <1>6 DEF Next, Work

\* The strands of detect_intersections() are at comparisons of nodes they have
\* reached, in every reachable state, whether or not iterations overlap.
THEOREM StrandInvariant == Spec => []StrandInv(FALSE)
<1>1. Init => StrandInv(FALSE)
  BY StrandInit
<1>2. StrandInv(FALSE) /\ [Next]_vars => StrandInv(FALSE)'
  BY StrandStep
<1>. QED
  BY <1>1, <1>2, PTL DEF Spec

\* With the loops in turn, line1 and line2 are those of the iteration, and what
\* is compared is found.
THEOREM InTurnInvariant == InTurnSpec => []StrandInv(TRUE)
<1>1. Init => StrandInv(TRUE)
  BY StrandInit
<1>2. StrandInv(TRUE) /\ [Next /\ LoopsInTurn']_vars => StrandInv(TRUE)'
  <2>. SUFFICES ASSUME StrandInv(TRUE), [Next /\ LoopsInTurn']_vars PROVE StrandInv(TRUE)'
    OBVIOUS
  <2>1. [Next]_vars
    OBVIOUS
  <2>2. LoopsInTurn'
    BY DEF StrandInv, vars, LoopsInTurn
  <2>. QED
    BY <2>1, <2>2, StrandStep
<1>. QED
  BY <1>1, <1>2, PTL DEF InTurnSpec

\* QuadTree_buildQuadTree() leaves a tree behind that stays in its array,
\* parts the lines and is as deep as it has to be.
THEOREM TreeIsShaped == Spec => []TreeShape
<1>1. StrandInv(FALSE) => TreeShape
  <2>. SUFFICES ASSUME StrandInv(FALSE) PROVE TreeShape
    OBVIOUS
  <2>1. TypeOK
    BY DEF StrandInv, TreeInv, TreeTypeOK, EventTypes, TypeOK
  <2>. QED
    BY <2>1, ApartWhileBuilding, PartsWhenBuilt DEF StrandInv, TreeShape
<1>. QED
  BY <1>1, StrandInvariant, PTL

-----------------------------------------------------------------------------
(* The quadtree finds what comparing all pairs finds.                      *)

\* When no strand is left, every pair that meets has been compared.
LEMMA AllCompared ==
  ASSUME StrandInv(TRUE), phase = "detect", strands = {}
  PROVE  DOMAIN events = Hits /\ size = Cardinality(Hits) /\ \A p \in Hits : events[p] = 1
<1>1. TreeTypeOK /\ EventsOK
  BY DEF StrandInv, TreeInv
<1>2. PICK R \in SUBSET Nodes : Picture(R) /\ \E V : Underway(TRUE, R, V)
  BY DEF StrandInv
<1>3. PICK V : Underway(TRUE, R, V)
  BY <1>2
<1>4. R \subseteq Nat
  BY TreeSizes DEF Nodes, QUADTREE_SIZE
<1>. DEFINE missed == {n \in R : n \notin V /\ Busy(n)}
<1>5. missed = {}
  <2>. SUFFICES ASSUME missed # {} PROVE FALSE
    OBVIOUS
  <2>1. PICK n \in missed : \A m \in missed : n <= m
    <3>1. missed \in SUBSET Nat
      BY <1>4
    <3>. HIDE DEF missed
    <3>. QED
      BY <3>1, LeastNatural
  <2>2. n # 0
    BY <1>3 DEF Underway, Visits
  <2>3. PICK m \in R : ~Leaf(m) /\ \E q \in Quadrants : n = Child(m, q)
    BY <1>2, <2>2 DEF Picture, Grown
  <2>4. m < n /\ m \in Nat /\ n \in Nat
    BY <1>4, <2>3, Children
  <2>5. m \in V
    <3>1. Busy(m)
      BY <2>3 DEF Busy, Leaf
    <3>2. m \notin missed
      <4>. HIDE DEF missed
      <4>. QED
        BY <2>1, <2>4
    <3>. QED
      BY <3>1, <3>2
  <2>. QED
    BY <1>3, <2>3, <2>5 DEF Underway, Visits
<1>6. ASSUME NEW p \in Hits PROVE p \in DOMAIN events
  <2>1. PICK fn \in Loops, n \in R, i \in 0..numOfLines, j \in 0..numOfLines :
          IsTask(fn, n, i, j) /\ PairOf(fn, n, i, j) = p
    BY <1>1, <1>2, HitIsTask
  <2>2. Busy(n)
    <3>1. tree[n].num_lines \in Nat
      BY <1>1, <1>2, NodeBounds
    <3>. QED
      BY <2>1, <3>1 DEF IsTask, Busy, Leaf
  <2>3. n \in V
    BY <1>5, <2>2
  <2>4. ~Pending(V, fn, n, i, j)
    BY <2>3 DEF Pending
  <2>. QED
    BY <1>3, <2>1, <2>4 DEF Underway, Found
<1>. QED
  BY <1>1, <1>6 DEF EventsOK

\* What the abstract specification sees of the list
reported == [p \in Pairs |-> IF p \in DOMAIN events THEN events[p] ELSE 0]

\* Comparing two lines that meet is Report, the end of a step is End, and what
\* builds or walks the tree is not seen.
LEMMA PairwiseStep ==
  ASSUME StrandInv(TRUE), [Next]_vars
  PROVE  [Pairwise!Next]_<<Hits, reported, numLineLineCollisions, phase # "idle">>
<1>0. TreeInv /\ TreeTypeOK /\ EventTypes /\ EventsOK /\ FramesOK(TRUE)
  BY DEF StrandInv, TreeInv
<1>1. CASE Begin
  <2>1. /\ phase = "idle" /\ phase' = "build" /\ UNCHANGED <<events, numLineLineCollisions>>
    BY <1>1 DEF Begin
  <2>2. Hits' \in SUBSET Pairs /\ UNCHANGED reported
    BY <2>1 DEF Hits, reported
  <2>3. Hits = {}
    BY <2>1 DEF Hits
  <2>4. Pairwise!Begin
    BY <2>1, <2>2, <2>3 DEF Pairwise!Begin, reported
  <2>. QED
    BY <2>4 DEF Pairwise!Next
<1>2. ASSUME UNCHANGED <<scene, events, numLineLineCollisions, phase>>
             \/ (UNCHANGED <<scene, events, numLineLineCollisions>> /\ phase = "build" /\ phase' = "detect")
      PROVE  UNCHANGED <<Hits, reported, numLineLineCollisions, phase # "idle">>
  BY <1>2 DEF Hits, reported, intersect
<1>3. CASE \E b \in builds : Build(b)
  BY <1>2, <1>3 DEF Build
<1>4. CASE \E s \in strands : Detect(s) \/ StoreLine1(s) \/ StoreLine2(s)
  BY <1>2, <1>4 DEF Detect, StoreLine1, StoreLine2
<1>5. ASSUME NEW s \in strands, Check(s)
      PROVE  [Pairwise!Next]_<<Hits, reported, numLineLineCollisions, phase # "idle">>
  <2>1. phase = "detect" /\ UNCHANGED <<scene, phase, numLineLineCollisions>>
    BY <1>0, <1>5 DEF TreeInv, Check
  <2>2. PICK R \in SUBSET Nodes : Picture(R) /\ \E V : Underway(TRUE, R, V)
    BY <2>1 DEF StrandInv
  <2>3. PICK V : Underway(TRUE, R, V)
    BY <2>2
  <2>4. \/ UNCHANGED events
        \/ \E p \in Hits : /\ p \notin DOMAIN events /\ DOMAIN events' = DOMAIN events \cup {p}
                           /\ events'[p] = 1 /\ \A q \in DOMAIN events : events'[q] = events[q]
    BY <1>0, <1>5, <2>1, <2>2, <2>3, CheckFound DEF Underway
  <2>5. CASE UNCHANGED events
    BY <1>2, <2>1, <2>5
  <2>6. ASSUME NEW p \in Hits, p \notin DOMAIN events, DOMAIN events' = DOMAIN events \cup {p},
               events'[p] = 1, \A q \in DOMAIN events : events'[q] = events[q]
        PROVE  Pairwise!Next
    <3>1. p \in Pairs
      BY PairsFinite
    <3>2. reported[p] = 0 /\ reported' = [reported EXCEPT ![p] = 1]
      BY <2>6, <3>1 DEF reported
    <3>3. Hits' = Hits
      BY <2>1 DEF Hits, intersect
    <3>4. Pairwise!Report(p)
      BY <2>1, <2>6, <3>2, <3>3 DEF Pairwise!Report, reported
    <3>. QED
      BY <3>1, <3>4 DEF Pairwise!Next
  <2>. QED
    BY <2>4, <2>5, <2>6
<1>6. CASE Built
  BY <1>2, <1>6 DEF Built
<1>7. CASE End
  <2>1. /\ phase = "detect" /\ strands = {} /\ phase' = "idle" /\ events' = NoEvents
        /\ numLineLineCollisions' = numLineLineCollisions + size
    BY <1>7 DEF End, NoStrands
  <2>2. DOMAIN events = Hits /\ size = Cardinality(Hits) /\ \A p \in Hits : events[p] = 1
    BY <2>1, AllCompared
  <2>3. \A p \in Hits : p \in Pairs /\ reported[p] = 1
    BY <2>2, PairsFinite DEF reported
  <2>4. Hits' = {} /\ reported' = [p \in Pairs |-> 0]
    BY <2>1 DEF Hits, reported, NoEvents
  <2>5. Pairwise!End
    <3>1. phase # "idle" /\ ~(phase # "idle")'
      BY <2>1
    <3>2. numLineLineCollisions' = numLineLineCollisions + Cardinality(Hits)
      BY <2>1, <2>2
    <3>3. \A p \in Hits : [q \in Pairs |-> IF q \in DOMAIN events THEN events[q] ELSE 0][p] = 1
      BY <2>3 DEF reported
    <3>4. [p \in Pairs |-> IF p \in DOMAIN events THEN events[p] ELSE 0]' = [p \in Pairs |-> 0]
      BY <2>4 DEF reported
    <3>5. Pairwise!Cardinality(Hits) = Cardinality(Hits)
      BY DEF Pairwise!Cardinality, Cardinality
    <3>. QED
      BY <2>4, <3>1, <3>2, <3>3, <3>4, <3>5 DEF Pairwise!End, Pairwise!Nothing
  <2>. QED
    BY <2>5 DEF Pairwise!Next
<1>8. CASE Stop \/ UNCHANGED vars
  BY <1>2, <1>8 DEF Stop, vars
<1>. QED
  BY <1>1, <1>3, <1>4, <1>5, <1>6, <1>7, <1>8 DEF Next, Work

\* While the iterations of a loop do not overlap, the quadtree finds and counts every
\* pair of lines that meet once in every step, like comparing all pairs, though the
\* iterations of a call share line1 and line2 and calls run at the same time.
THEOREM FindsPairwise == InTurnSpec => ImplementsPairwise
<1>1. Init => Pairwise!Init
  <2>. SUFFICES ASSUME Init PROVE Pairwise!Init
    OBVIOUS
  <2>1. phase = "idle" /\ DOMAIN events = {} /\ numLineLineCollisions = 0
    BY DEF Init, NoEvents
  <2>. QED
    BY <2>1 DEF Pairwise!Init, Pairwise!Nothing, Hits
<1>2. StrandInv(TRUE) /\ [Next]_vars => [Pairwise!Next]_Pairwise!vars
  BY PairwiseStep DEF Pairwise!vars, reported
<1>3. [Next /\ LoopsInTurn']_vars => [Next]_vars
  OBVIOUS
<1>. QED
  BY <1>1, <1>2, <1>3, InTurnInvariant, PTL DEF InTurnSpec, ImplementsPairwise, Pairwise!Spec
=============================================================================
