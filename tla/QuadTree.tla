------------------------------ MODULE QuadTree ------------------------------
(***************************************************************************)
(* detect_intersections_with_quadtree() of quadtree.c, called once per     *)
(* time step: the lines are sorted in place into a static quadtree by      *)
(* Cilk strands, and then strands compare the lines of every node with     *)
(* each other and with those below.                                        *)
(*                                                                         *)
(* Strands are logically parallel: any of them may take the next step.  A  *)
(* call of QuadTree_buildQuadTree() is one step, because the calls that    *)
(* run at a time work on different lines and nodes (BuildsApart).  A       *)
(* pointer into the array of lines is its offset.  A line is its id and    *)
(* the rectangle it sweeps in this step; two lines can only meet if their  *)
(* rectangles touch, and here they meet whenever they do.                  *)
(***************************************************************************)
EXTENDS QuadrantSort, Rectangles

CONSTANTS
  Lines,       \* the ids of the lines
  Scenes,      \* the rectangles the lines may sweep in a step, by id
  Box,         \* the rectangle of the root
  MAX_BIN,     \* a child with more lines is split
  MAX_DEPTH,   \* the depth of the leaves that are not
  GRAIN,       \* "grainsize 600": so many iterations are not divided
  MaxSteps     \* the steps of the run

ASSUME QuadTreeAssumption ==
  /\ Lines \subseteq Nat /\ IsFiniteSet(Lines)
  /\ Scenes \subseteq [Lines -> Rects] /\ Box \in Rects
  /\ \A s \in Scenes : \A l \in Lines : s[l].xmin <= s[l].xmax /\ s[l].ymin <= s[l].ymax
  /\ MAX_BIN \in Nat /\ MAX_DEPTH \in Nat \ {0} /\ GRAIN \in Nat /\ MaxSteps \in Nat

\* "4^0 + 4^1 + 4^2 + ... + 4^7" nodes are a tree of the levels 0 to 7.
TreeSize[d \in 0..MAX_DEPTH] == IF d = 0 THEN 1 ELSE 4 * TreeSize[d - 1] + 1
QUADTREE_SIZE == TreeSize[MAX_DEPTH]

Nodes     == 0..(QUADTREE_SIZE - 1)
numOfLines == Cardinality(Lines)
Slots     == 0..(numOfLines - 1)
NULL      == -1
Pairs     == {p \in Lines \X Lines : p[1] < p[2]}

VARIABLES
  lines,       \* collisionWorld->lines
  scene,       \* the rectangle of each line
  tree,        \* full_tree
  builds,      \* the calls of QuadTree_buildQuadTree() that are spawned
  strands,     \* the strands of the detection
  frames,      \* line1 and line2 of the running loops
  events,      \* how often each pair is in the list of events
  size,        \* the size of the list
  numLineLineCollisions,
  phase,       \* "idle", "build" or "detect"
  step

vars == <<lines, scene, tree, builds, strands, frames, events, size, numLineLineCollisions, phase, step>>

-----------------------------------------------------------------------------
\* The worst that intersect() can say of two lines
intersect(l1, l2) == ~ApartInX(scene[l1], scene[l2]) /\ ~ApartInY(scene[l1], scene[l2])

-----------------------------------------------------------------------------
(* Building the tree.                                                      *)

\* Mutant: a node keeps the child_lines it had in an earlier step.
QuadTree_new_Stale(t, index, num_lines, ptr) ==
  [t EXCEPT ![index].lines = ptr, ![index].num_lines = num_lines]
QuadTree_new(t, index, num_lines, ptr) ==
  [t EXCEPT ![index].lines = ptr, ![index].num_lines = num_lines, ![index].child_lines = NULL]

\* Mutant: each pointer is taken from the start of the node, not from the last.
QuadrantStart_FromBase(base, children_sizes, q) == IF q = 0 THEN base ELSE base + children_sizes[q - 1]
\* line_q1, line_q2, line_q3, line_q4 and large_lines
QuadrantStart(base, children_sizes, q) ==
  LET line_q2     == base + children_sizes[0]
      line_q3     == line_q2 + children_sizes[1]
      line_q4     == line_q3 + children_sizes[2]
      large_lines == line_q4 + children_sizes[3]
  IN  CASE q = 0 -> base [] q = 1 -> line_q2 [] q = 2 -> line_q3 [] q = 3 -> line_q4
        [] q = NoQuadrant -> large_lines

Child(index, q) == 4 * index + 1 + q

Splits(num_lines, depth) == num_lines > MAX_BIN /\ depth + 1 < MAX_DEPTH

\* A whole call of QuadTree_buildQuadTree(), but for the calls it spawns.
\* sort_lines_by_quadrant() leaves the lines in one of their arrangements.
Build(b) ==
  LET num_lines  == tree[b.index].num_lines
      base       == tree[b.index].lines
      own        == {lines[i] : i \in base..(base + num_lines - 1)}
      assignment == [l \in own |-> get_quadrant_number(scene[l], b.box)]
      sizes      == [q \in 0..4 |-> Cardinality({l \in own : assignment[l] = q})]
      start(q)   == QuadrantStart(base, sizes, q)
      split      == [tree EXCEPT ![b.index] =
                       [lines |-> start(NoQuadrant), num_lines |-> sizes[NoQuadrant],
                        child_lines |-> base, child_num_lines |-> num_lines - sizes[NoQuadrant]]]
      new(t, q)  == QuadTree_new(t, Child(b.index, q), sizes[q], start(q))
  IN
  /\ \E sorted \in Arrangements(own, assignment) :
       lines' = [i \in Slots |-> IF base <= i /\ i < base + num_lines THEN sorted[i - base] ELSE lines[i]]
  /\ tree' = new(new(new(new(split, 0), 1), 2), 3)
  /\ builds' = (builds \ {b}) \cup
       {[index |-> Child(b.index, q), box |-> QuadrantBox(b.box, q), depth |-> b.depth + 1] :
          q \in {q \in Quadrants : Splits(sizes[q], b.depth)}}
  /\ UNCHANGED <<scene, strands, frames, events, size, numLineLineCollisions, phase, step>>

-----------------------------------------------------------------------------
(* Detecting the intersections.                                            *)

NoStrands == {}

\* The iterations of the two kinds of loops that compare at least one pair
WithinStrands(index) ==
  {[fn |-> "within", index |-> index, i |-> i, j |-> i + 1, pc |-> "line1"] :
     i \in 0..(tree[index].num_lines - 2)}
ChildrenStrands(index) ==
  IF tree[index].num_lines = 0 THEN {}
  ELSE {[fn |-> "children", index |-> index, i |-> i, j |-> 0, pc |-> "line1"] :
          i \in 0..(tree[index].child_num_lines - 1)}
\* A leaf with no pair to compare is passed over like an iteration without one.
Busy(index) == tree[index].child_lines # NULL \/ tree[index].num_lines > 1
DetectStrand(index) == [fn |-> "detect", index |-> index, i |-> 0, j |-> 0, pc |-> "call"]

\* A call of detect_intersections(): the loops of the node, then those of its children
Detect(s) ==
  /\ s.fn = "detect"
  /\ strands' = (strands \ {s}) \cup WithinStrands(s.index) \cup
       IF tree[s.index].child_lines = NULL THEN {}
       ELSE ChildrenStrands(s.index) \cup 
              {DetectStrand(Child(s.index, q)) : q \in {q \in Quadrants : Busy(Child(s.index, q))}}
  /\ UNCHANGED <<lines, scene, tree, builds, frames, events, size, numLineLineCollisions, phase, step>>

FirstLine(s)  == lines[(IF s.fn = "within" THEN tree[s.index].lines ELSE tree[s.index].child_lines) + s.i]
SecondLine(s) == lines[tree[s.index].lines + s.j]

Ordered(l1, l2) == IF l1 >= l2 THEN <<l2, l1>> ELSE <<l1, l2>>

\* Two lines that may meet are appended to the list, whatever is in it.
check_line_intersect(l1, l2) ==
  IF bounding_box_intersect(scene[l1], scene[l2]) /\ intersect(l1, l2)
  THEN /\ events' = [p \in DOMAIN events \cup {Ordered(l1, l2)} |->
                      (IF p \in DOMAIN events THEN events[p] ELSE 0) + (IF p = Ordered(l1, l2) THEN 1 ELSE 0)]
       /\ size' = size + 1
  ELSE UNCHANGED <<events, size>>

\* The loop over j goes on, or the iteration ends.
Continue(s) ==
  IF s.j + 1 < tree[s.index].num_lines
  THEN (strands \ {s}) \cup {[s EXCEPT !.j = s.j + 1, !.pc = "line2"]}
  ELSE strands \ {s}

\* line1 and line2 belong to the call: its iterations have one pair of them.
Frame(s) == <<s.fn, s.index>>

Held(s)  == IF Frame(s) \in DOMAIN frames THEN frames[Frame(s)] ELSE [line1 |-> 0, line2 |-> 0]
Keep(s, held) == [f \in DOMAIN frames \cup {Frame(s)} |-> IF f = Frame(s) THEN held ELSE frames[f]]

\* An iteration that has stored line1 and not compared its last pair
Started(s) == s.fn # "detect" /\ s.pc # "line1"

\* The loop of check_within_quadtree() is one grain: one strand runs through it.
OneGrain(s) == s.fn = "within" /\ tree[s.index].num_lines <= GRAIN

\* line1 is stored before the loop over j, line2 for each pair.
StoreLine1(s) ==
  /\ s.pc = "line1"
  /\ OneGrain(s) => ~\E t \in strands : Started(t) /\ Frame(t) = Frame(s)
  /\ frames' = Keep(s, [Held(s) EXCEPT !.line1 = FirstLine(s)])
  /\ strands' = (strands \ {s}) \cup {[s EXCEPT !.pc = "line2"]}
  /\ UNCHANGED <<lines, scene, tree, builds, events, size, numLineLineCollisions, phase, step>>
StoreLine2(s) ==
  /\ s.pc = "line2"
  /\ frames' = Keep(s, [Held(s) EXCEPT !.line2 = SecondLine(s)])
  /\ strands' = (strands \ {s}) \cup {[s EXCEPT !.pc = "check"]}
  /\ UNCHANGED <<lines, scene, tree, builds, events, size, numLineLineCollisions, phase, step>>

\* check_line_intersect() is called with what the variables hold now.
Check(s) ==
  /\ s.pc = "check"
  /\ check_line_intersect(Held(s).line1, Held(s).line2)
  /\ strands' = Continue(s)
  /\ UNCHANGED <<lines, scene, tree, builds, frames, numLineLineCollisions, phase, step>>

-----------------------------------------------------------------------------
(* A time step.                                                            *)

NoFrames == [f \in {} |-> [line1 |-> 0, line2 |-> 0]]
NoEvents == [p \in {} |-> 0]

Init ==
  /\ lines \in {a \in [Slots -> Lines] : \A i, j \in Slots : i < j => a[i] < a[j]}
  /\ scene = [l \in Lines |-> Box]
  /\ tree = [n \in Nodes |-> [lines |-> NULL, child_lines |-> NULL, num_lines |-> 0, child_num_lines |-> 0]]
  /\ builds = {} /\ strands = NoStrands /\ frames = NoFrames
  /\ events = NoEvents /\ size = 0 /\ numLineLineCollisions = 0
  /\ phase = "idle" /\ step = 0

\* The lines have moved, and the root is built whatever its size.
Begin ==
  /\ phase = "idle" /\ step < MaxSteps
  /\ scene' \in Scenes
  /\ tree' = QuadTree_new(tree, 0, numOfLines, 0)
  /\ builds' = {[index |-> 0, box |-> Box, depth |-> 0]}
  /\ phase' = "build" /\ step' = step + 1
  /\ UNCHANGED <<lines, strands, frames, events, size, numLineLineCollisions>>

\* The cilk_sync of every build is passed.
Built ==
  /\ phase = "build" /\ builds = {}
  /\ strands' = {DetectStrand(0)} /\ phase' = "detect"
  /\ UNCHANGED <<lines, scene, tree, builds, frames, events, size, numLineLineCollisions, step>>

\* The views of the reducer are merged, the list is counted, and emptied
\* when its events have been solved.
End ==
  /\ phase = "detect" /\ strands = NoStrands
  /\ numLineLineCollisions' = numLineLineCollisions + size
  /\ events' = NoEvents /\ size' = 0 /\ phase' = "idle" /\ scene' = [l \in Lines |-> Box] /\ frames' = NoFrames
  /\ UNCHANGED <<lines, tree, builds, strands, step>>

Work == \/ \E b \in builds : Build(b)
        \/ \E s \in strands : Detect(s)
        \/ \E s \in strands : StoreLine1(s)
        \/ \E s \in strands : StoreLine2(s)
        \/ \E s \in strands : Check(s)
        \/ Built
        \/ End
\* The program has made its steps.  Nothing else may stop it.
Stop == phase = "idle" /\ step = MaxSteps /\ UNCHANGED vars

Next == Begin \/ Work \/ Stop

Spec == Init /\ [][Next]_vars

\* The iterations of a loop do not overlap, though the loops of other calls run
\* at the same time.  So it is on one worker; on several, the default grain lets
\* the iterations of check_with_children() overlap.
LoopsInTurn == \A s, t \in strands : Started(s) /\ Started(t) /\ Frame(s) = Frame(t) => s = t

\* The runs of the program in which no loop was divided among workers
InTurnSpec == Init /\ [][Next /\ LoopsInTurn']_vars

-----------------------------------------------------------------------------
(* Properties.                                                             *)

\* A node that detect_intersections(0) reaches
Reached[n \in Nodes] == n = 0 \/ (Reached[(n - 1) \div 4] /\ tree[(n - 1) \div 4].child_lines # NULL)

Own(n)     == tree[n].lines..(tree[n].lines + tree[n].num_lines - 1)
Below(n)   == tree[n].child_lines..(tree[n].child_lines + tree[n].child_num_lines - 1)
Segment(n) == IF tree[n].child_lines = NULL THEN Own(n) ELSE Own(n) \cup Below(n)

\* The array keeps every line, pointers stay in it, and events are of lines in
\* the order of their ids.
TypeOK ==
  /\ lines \in [Slots -> Lines] /\ \A l \in Lines : \E i \in Slots : lines[i] = l
  /\ tree \in [Nodes -> [lines : -1..numOfLines, child_lines : -1..numOfLines,
                          num_lines : 0..numOfLines, child_num_lines : 0..numOfLines]]
  /\ \A p \in DOMAIN events : p \in Lines \X Lines /\ p[1] <= p[2] /\ events[p] \in Nat
  /\ size \in Nat
  /\ phase \in {"idle", "build", "detect"} /\ step \in 0..MaxSteps

\* The builds that run at a time sort different parts of the array, and
\* neither writes a node the other reads or writes: the calls spawned by
\* QuadTree_buildQuadTree() need no lock.
BuildsApart ==
  \A b, c \in builds : b # c =>
    /\ Segment(b.index) \cap Segment(c.index) = {}
    /\ ({b.index} \cup {Child(b.index, q) : q \in Quadrants})
         \cap ({c.index} \cup {Child(c.index, q) : q \in Quadrants}) = {}

\* QUADTREE_SIZE is "4^0 + 4^1 + ... + 4^7": no build writes a child
\* behind the array, because it is not spawned at MAX_DEPTH.
ChildrenFit == \A b \in builds : \A q \in Quadrants : Child(b.index, q) \in Nodes

\* When the tree is built, each place of the array belongs to one node that
\* the detection reaches, and the lines below a node are those of its
\* subtree: nothing of the tree of an earlier step is left.
TreePartition ==
  phase = "detect" =>
    /\ \A i \in Slots : Cardinality({n \in Nodes : Reached[n] /\ i \in Own(n)}) = 1
    /\ \A n \in Nodes : Reached[n] /\ tree[n].child_lines # NULL =>
         Below(n) = UNION {Segment(Child(n, q)) : q \in Quadrants}

\* A node is left unsplit with more than MAX_BIN lines only at the last level.
LeavesFit ==
  phase = "detect" => \A n \in Nodes :
    Reached[n] /\ tree[n].child_lines = NULL /\ tree[n].num_lines > MAX_BIN
      => Child(n, 0) \notin Nodes

\* QuadTree_buildQuadTree() leaves a tree of the lines of this step behind,
\* whatever the tree of the step before looked like: it stays in its array, it
\* parts the lines, and it is as deep as it has to be.
TreeShape == TypeOK /\ ChildrenFit /\ TreePartition /\ LeavesFit

\* Every pair of lines that meet is found once in every step, and counted
\* once, however the lines lie in the tree and the calls run, as long as the
\* iterations of a loop do not overlap (InTurnSpec).
Hits == IF phase = "idle" THEN {} ELSE {p \in Pairs : intersect(p[1], p[2])}
Pairwise == INSTANCE PairwiseDetection WITH
  hits <- Hits, reported <- [p \in Pairs |-> IF p \in DOMAIN events THEN events[p] ELSE 0],
  collisions <- numLineLineCollisions, running <- phase # "idle"
ImplementsPairwise == Pairwise!Spec

\* check_within_quadtree() and check_with_children() compare "all pairs":
\* when the strands are done, each pair that meets is in the list once.
AllPairsFound ==
  phase = "detect" /\ strands = NoStrands =>
    DOMAIN events = Hits /\ \A p \in Hits : events[p] = 1
=============================================================================
