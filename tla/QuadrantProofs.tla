--------------------------- MODULE QuadrantProofs ---------------------------
(***************************************************************************)
(* sort_lines_by_quadrant() sorts, for every number of lines, every order  *)
(* and every assignment.  The invariant is the picture of the array:       *)
(*                                                                         *)
(*      quadrant_start    Target      index_in_quadrant                    *)
(*   +-----------------+-----------+----------------+-------------------+  *)
(*   | < quadrant,     | =         | >  quadrant    | >= quadrant,      |  *)
(*   | sorted          | quadrant  |                | not looked at yet |  *)
(*   +-----------------+-----------+----------------+-------------------+  *)
(*                                                                         *)
(* and the loops stay in it because the counts are those of the array:     *)
(* Counted, by a bijection between places and lines.                       *)
(***************************************************************************)
EXTENDS QuadrantLoop, Functions, FiniteSetTheorems, TLAPS

a     == sort.assignment
Start == sort.quadrant_start
Place == Target(sort)
Probe == sort.index_in_quadrant

Places(q) == {i \in Indices : a[i] = q}

Layout ==
  /\ Place <= Probe
  /\ \A i \in Indices : i < Start => a[i] < sort.quadrant
  /\ \A i \in Indices : Start <= i /\ i < Place => a[i] = sort.quadrant
  /\ \A i \in Indices : Place <= i => a[i] >= sort.quadrant
  /\ \A i \in Indices : Place <= i /\ i < Probe => a[i] # sort.quadrant
  /\ \A i, j \in Indices : i < j /\ j < Start => a[i] <= a[j]

IInv == TypeOK /\ Paired /\ Layout

\* The number of lines is a number.
LEMMA NumLines == num_lines \in Nat
BY LinesAssumption, FS_CardinalityType DEF num_lines

\* There are as many places with a quadrant as the caller counted lines in it.
LEMMA Counted ==
  ASSUME TypeOK, Paired, NEW q \in 0..4
  PROVE  IsFiniteSet(Places(q)) /\ Cardinality(Places(q)) = children_sizes[q]
<1> DEFINE In == {l \in Lines : quadrantOf[l] = q}
           f  == [i \in Places(q) |-> sort.lines[i]]
<1>1. IsFiniteSet(Indices)
  BY NumLines, FS_Interval DEF Indices
<1>2. IsFiniteSet(Places(q))
  BY <1>1, FS_Subset DEF Places
<1>3. \A i \in Places(q) : i \in Indices /\ sort.lines[i] \in In
  BY DEF TypeOK, Paired, Places, a
<1>4. f \in [Places(q) -> In]
  BY <1>3
<1>5. \A i, j \in Places(q) : f[i] = f[j] => i = j
  BY <1>3 DEF Paired, Orders, OrdersOf, Indices, num_lines
<1>6. \A l \in In : \E i \in Places(q) : f[i] = l
  <2> SUFFICES ASSUME NEW l \in In PROVE \E i \in Places(q) : f[i] = l
    OBVIOUS
  <2>1. PICK i \in Indices : sort.lines[i] = l
    BY DEF Paired, Orders, OrdersOf, Indices, num_lines
  <2>2. i \in Places(q)
    BY <2>1 DEF Paired, Places, a
  <2> QED
    BY <2>1, <2>2
<1>7. f \in Bijection(Places(q), In)
  BY <1>4, <1>5, <1>6 DEF Bijection, Injection, Surjection, IsInjective
<1>8. Cardinality(In) = Cardinality(Places(q))
  BY <1>2, <1>7, FS_Bijection DEF ExistsBijection
<1> QED
  BY <1>2, <1>8 DEF children_sizes

\* The lines of this quadrant that are placed are no more than it has, and
\* if they are fewer the search still has one ahead.
LEMMA Ahead ==
  ASSUME IInv, ~SortDone(sort)
  PROVE  /\ children_sizes[sort.quadrant] \in Nat
         /\ sort.index_to_swap <= children_sizes[sort.quadrant]
         /\ sort.index_to_swap < children_sizes[sort.quadrant]
              => \E i \in Indices : Probe <= i /\ a[i] = sort.quadrant
         /\ sort.index_to_swap = children_sizes[sort.quadrant]
              => \A i \in Indices : a[i] = sort.quadrant => i < Place
<1> DEFINE q == sort.quadrant
           Done == Start..(Place - 1)
<1>1. q \in 0..4 /\ Start \in Nat /\ Place \in Nat /\ Probe \in Nat /\ Probe <= num_lines
      /\ num_lines \in Nat /\ Place = Start + sort.index_to_swap /\ sort.index_to_swap \in Nat
  BY NumLines DEF IInv, TypeOK, Start, Place, Probe, Target
<1>2. /\ IsFiniteSet(Places(q))
      /\ Cardinality(Places(q)) = children_sizes[q]
  BY <1>1, Counted DEF IInv
<1>3. children_sizes[q] \in Nat
  BY <1>2, FS_CardinalityType
<1>4. Done \subseteq Places(q)
  BY <1>1 DEF IInv, Layout, Places, Indices
<1>5. IsFiniteSet(Done) /\ Cardinality(Done) = sort.index_to_swap
  <2>1. Start \in Int /\ Place - 1 \in Int
    BY <1>1
  <2>2. IsFiniteSet(Done) /\ Cardinality(Done) = IF Start > Place - 1 THEN 0 ELSE (Place - 1) - Start + 1
    BY <2>1, FS_Interval
  <2> QED
    BY <1>1, <2>2
<1>6. sort.index_to_swap <= children_sizes[q]
  BY <1>2, <1>4, <1>5, FS_Subset
<1>7. ASSUME sort.index_to_swap < children_sizes[q]
      PROVE  \E i \in Indices : Probe <= i /\ a[i] = q
  <2>1. Done # Places(q)
    BY <1>1, <1>2, <1>3, <1>5, <1>7
  <2>2. PICK i \in Places(q) : i \notin Done
    BY <1>4, <2>1
  <2>3. i \in Indices /\ i \in Int /\ a[i] = q
    BY DEF Places, Indices
  <2>4. ~(i < Start)
    BY <1>1, <2>3 DEF IInv, Layout
  <2>5. ~(Place <= i /\ i < Probe)
    BY <2>3 DEF IInv, Layout
  <2> QED
    BY <1>1, <2>2, <2>3, <2>4, <2>5
<1>8. ASSUME sort.index_to_swap = children_sizes[q]
      PROVE  \A i \in Indices : a[i] = q => i < Place
  <2>1. Done = Places(q)
    BY <1>2, <1>4, <1>5, <1>8, FS_Subset
  <2> QED
    BY <1>1, <2>1 DEF Places
<1> QED
  BY <1>3, <1>6, <1>7, <1>8

\* The loops start in the picture, with nothing placed.
LEMMA InitIInv == Init => IInv
<1> SUFFICES ASSUME Init PROVE IInv
  OBVIOUS
<1>1. PICK lines \in Orders : sort = SortInit(lines, [i \in Indices |-> quadrantOf[lines[i]]])
  BY DEF Init
<1>2. lines \in [Indices -> Lines] /\ quadrantOf \in [Lines -> 0..4]
  BY DEF Init, Orders, OrdersOf, Indices, num_lines
<1>3. /\ sort.lines = lines /\ sort.assignment = [i \in Indices |-> quadrantOf[lines[i]]]
      /\ sort.index_in_quadrant = 0 /\ sort.index_to_swap = 0
      /\ sort.quadrant_start = 0 /\ sort.quadrant = 0
  BY <1>1 DEF SortInit
<1>4. TypeOK
  BY <1>2, <1>3, NumLines DEF TypeOK
<1>5. Paired
  BY <1>2, <1>3 DEF Paired
<1>6. Layout
  BY <1>2, <1>3, NumLines DEF Layout, Place, Start, Probe, Target, a, Indices
<1> QED
  BY <1>4, <1>5, <1>6 DEF IInv

\* An exchange permutes the array.
LEMMA ExchangeOrders ==
  ASSUME NEW o \in Orders, NEW i \in Indices, NEW j \in Indices
  PROVE  Exchanged(o, i, j) \in Orders
<1> DEFINE e == Exchanged(o, i, j)
<1>1. o \in [Indices -> Lines]
  BY DEF Orders, OrdersOf, Indices, num_lines
<1>2. e \in [Indices -> Lines]
  BY <1>1 DEF Exchanged
<1>3. \A k \in Indices : e[k] = IF k = j THEN o[i] ELSE IF k = i THEN o[j] ELSE o[k]
  BY <1>1 DEF Exchanged
<1>4. \A l \in Lines : \E k \in Indices : e[k] = l
  BY <1>3 DEF Orders, OrdersOf, Indices, num_lines
<1>5. \A k, m \in Indices : e[k] = e[m] => k = m
  BY <1>3 DEF Orders, OrdersOf, Indices, num_lines
<1> QED
  BY <1>2, <1>4, <1>5 DEF Orders, OrdersOf, Indices, num_lines

\* A step of the search keeps the picture: what it finds goes to the place
\* of the first line that does not belong there.
LEMMA SearchIInv == ASSUME IInv, Search PROVE IInv'
<1> DEFINE q == sort.quadrant
<1>1. q \in 0..3 /\ Start \in Nat /\ Place \in Nat /\ Probe \in Nat
      /\ num_lines \in Nat /\ Place = Start + sort.index_to_swap /\ sort.index_to_swap \in Nat
      /\ Place <= Probe /\ Start <= Place
  BY NumLines DEF IInv, TypeOK, Layout, Start, Place, Probe, Target, Search, SortDone, NoQuadrant
<1>2. Probe \in Indices /\ Place \in Indices /\ Probe + 1 <= num_lines
  <2>1. PICK i \in Indices : Probe <= i
    BY Ahead DEF Search, Searching
  <2> QED
    BY <1>1, <2>1 DEF Indices
<1>3. sort' = SearchStep(sort) /\ quadrantOf' = quadrantOf
  BY DEF Search
<1>4. sort.lines \in [Indices -> Lines] /\ a \in [Indices -> 0..4] /\ quadrantOf \in [Lines -> 0..4]
  BY DEF IInv, TypeOK, a
<1>5. CASE a[Probe] = q
  <2>1. /\ sort'.lines = Exchanged(sort.lines, Probe, Place)
        /\ a' = Exchanged(a, Probe, Place)
        /\ Probe' = Probe + 1 /\ sort'.index_to_swap = sort.index_to_swap + 1
        /\ Start' = Start /\ sort'.quadrant = q
    BY <1>3, <1>5 DEF SearchStep, a, Probe, Start, Place
  <2>2. Place' = Place + 1
    BY <1>1, <2>1 DEF Place, Start, Target
  <2>3. \A k \in Indices : a'[k] = IF k = Place THEN q ELSE IF k = Probe THEN a[Place] ELSE a[k]
    BY <1>2, <1>4, <1>5, <2>1 DEF Exchanged
  <2>4. \A k \in Indices : sort'.lines[k] = IF k = Place THEN sort.lines[Probe]
                                            ELSE IF k = Probe THEN sort.lines[Place] ELSE sort.lines[k]
    BY <1>2, <1>4, <2>1 DEF Exchanged
  <2>5. a' \in [Indices -> 0..4] /\ sort'.lines \in [Indices -> Lines]
    BY <1>2, <1>4, <2>1 DEF Exchanged
  <2>6. TypeOK'
    BY <1>1, <1>2, <1>3, <1>4, <2>1, <2>5 DEF TypeOK, a, Probe, Start, num_lines, Indices
  <2>7. Paired'
    <3>1. sort'.lines \in Orders
      BY <1>2, <2>1, ExchangeOrders DEF IInv, Paired
    <3>2. \A k \in Indices : a'[k] = quadrantOf[sort'.lines[k]]
      BY <1>2, <1>5, <2>3, <2>4 DEF IInv, Paired, a
    <3> QED
      BY <1>3, <3>1, <3>2 DEF Paired, a, Orders, OrdersOf, Indices, num_lines
  <2>8. Layout'
    <3>1. \A k \in Indices : k \in Int
      BY DEF Indices
    <3>2. \A k \in Indices : k < Start => a'[k] < q /\ a'[k] = a[k]
      BY <1>1, <2>3, <3>1 DEF IInv, Layout
    <3>3. \A k \in Indices : Start <= k /\ k < Place + 1 => a'[k] = q
      BY <1>1, <2>3, <3>1 DEF IInv, Layout
    <3>4. \A k \in Indices : Place + 1 <= k => a'[k] >= q
      BY <1>1, <1>2, <2>3, <3>1 DEF IInv, Layout
    <3>5. \A k \in Indices : Place + 1 <= k /\ k < Probe + 1 => a'[k] # q
      BY <1>1, <1>2, <2>3, <3>1 DEF IInv, Layout
    <3>6. \A k, m \in Indices : k < m /\ m < Start => a'[k] <= a'[m]
      <4> SUFFICES ASSUME NEW k \in Indices, NEW m \in Indices, k < m, m < Start
                   PROVE  a'[k] <= a'[m]
        OBVIOUS
      <4>1. k < Start
        BY <1>1, <3>1
      <4>2. a'[k] = a[k] /\ a'[m] = a[m] /\ a[k] <= a[m]
        BY <3>2, <4>1 DEF IInv, Layout
      <4> QED
        BY <4>2
    <3> QED
      BY <1>1, <2>1, <2>2, <3>2, <3>3, <3>4, <3>5, <3>6 DEF Layout, Indices, num_lines
  <2> QED
    BY <2>6, <2>7, <2>8 DEF IInv
<1>6. CASE a[Probe] # q
  <2>1. /\ sort'.lines = sort.lines /\ a' = a
        /\ Probe' = Probe + 1 /\ sort'.index_to_swap = sort.index_to_swap
        /\ Start' = Start /\ sort'.quadrant = q
    BY <1>3, <1>6 DEF SearchStep, a, Probe, Start, Place
  <2>2. Place' = Place
    BY <2>1 DEF Place, Start, Target
  <2>3. TypeOK'
    BY <1>1, <1>2, <1>3, <2>1 DEF IInv, TypeOK, a, Probe, Start, num_lines, Indices
  <2>4. Paired'
    BY <1>3, <2>1 DEF IInv, Paired, a, Orders, OrdersOf, Indices, num_lines
  <2>5. Layout'
    BY <1>1, <1>2, <1>6, <2>1, <2>2 DEF IInv, Layout, Indices, num_lines
  <2> QED
    BY <2>3, <2>4, <2>5 DEF IInv
<1> QED
  BY <1>5, <1>6

\* The next quadrant starts where the lines of this one end, all of them
\* placed.
LEMMA AdvanceIInv == ASSUME IInv, Advance PROVE IInv'
<1> DEFINE q == sort.quadrant
<1>1. q \in 0..3 /\ Start \in Nat /\ Place \in Nat /\ Probe \in Nat
      /\ num_lines \in Nat /\ Place = Start + sort.index_to_swap /\ sort.index_to_swap \in Nat
      /\ Place <= Probe /\ Start <= Place /\ Probe <= num_lines
  BY NumLines DEF IInv, TypeOK, Layout, Start, Place, Probe, Target, Advance, SortDone, NoQuadrant
<1>2. sort.index_to_swap = children_sizes[q]
  BY <1>1, Ahead DEF Advance, Searching
<1>3. \A i \in Indices : a[i] = q => i < Place
  BY <1>2, Ahead DEF Advance
<1>4. /\ sort'.lines = sort.lines /\ a' = a /\ quadrantOf' = quadrantOf
      /\ Probe' = Place /\ sort'.index_to_swap = 0
      /\ Start' = Place /\ sort'.quadrant = q + 1
  BY <1>1, <1>2 DEF Advance, NextQuadrant, a, Probe, Start, Place
<1>5. Place' = Place
  BY <1>1, <1>4 DEF Place, Start, Target
<1>6. TypeOK'
  BY <1>1, <1>4 DEF IInv, TypeOK, a, Probe, Start, num_lines, Indices
<1>7. Paired'
  BY <1>4 DEF IInv, Paired, a, Orders, OrdersOf, Indices, num_lines
<1>8. Layout'
  <2>1. \A k \in Indices : k \in Int /\ a[k] \in Int
    <3>1. \A k \in Indices : a[k] \in 0..4
      BY DEF IInv, TypeOK, a
    <3> QED
      BY <3>1 DEF Indices
  <2>2. \A k \in Indices : k < Place => a[k] < q + 1
    BY <1>1, <2>1 DEF IInv, Layout
  <2>3. \A k \in Indices : Place <= k => a[k] >= q + 1
    BY <1>1, <1>3, <2>1 DEF IInv, Layout
  <2>4. \A k, m \in Indices : k < m /\ m < Place => a[k] <= a[m]
    BY <1>1, <2>1 DEF IInv, Layout
  <2> QED
    BY <1>1, <1>4, <1>5, <2>1, <2>2, <2>3, <2>4 DEF Layout, Indices, num_lines
<1> QED
  BY <1>6, <1>7, <1>8 DEF IInv

\* The picture is an invariant of the loops.
THEOREM LayoutInvariant == Spec => []IInv
<1>1. IInv /\ [Next]_vars => IInv'
  <2> SUFFICES ASSUME IInv, [Next]_vars PROVE IInv'
    OBVIOUS
  <2>1. CASE Search
    BY <2>1, SearchIInv
  <2>2. CASE Advance
    BY <2>2, AdvanceIInv
  <2>3. CASE UNCHANGED vars
    BY <2>3 DEF vars, IInv, TypeOK, Paired, Layout, Place, Start, Probe, Target, a, Orders, OrdersOf, Indices, num_lines
  <2> QED
    BY <2>1, <2>2, <2>3 DEF Next
<1> QED
  BY <1>1, InitIInv, PTL DEF Spec

\* sort_lines_by_quadrant() never reads or writes behind its arrays.
THEOREM StaysInBounds == Spec => []InBounds
<1>1. IInv => InBounds
  <2> SUFFICES ASSUME IInv, ~SortDone(sort), Searching(sort, children_sizes)
               PROVE  Probe \in Indices /\ Place \in Indices
    BY DEF InBounds, Probe, Place
  <2>1. PICK i \in Indices : Probe <= i
    BY Ahead DEF Searching
  <2>2. Probe \in Nat /\ Place \in Nat /\ Place <= Probe
    BY NumLines DEF IInv, TypeOK, Layout, Probe, Place, Target
  <2> QED
    BY <2>1, <2>2, NumLines DEF Indices
<1> QED
  BY <1>1, LayoutInvariant, PTL

\* The arrays stay paired and no line is lost.
THEOREM KeepsLines == Spec => []Paired
<1>1. IInv => Paired
  BY DEF IInv
<1> QED
  BY <1>1, LayoutInvariant, PTL

\* When the loops are done the lines are sorted by quadrant.
THEOREM Sorts == Spec => []Sorted
<1>1. IInv => Sorted
  <2> SUFFICES ASSUME IInv, SortDone(sort), NEW i \in Indices, NEW j \in Indices, i < j
               PROVE  a[i] <= a[j]
    BY DEF Sorted, Arrangements, IInv, Paired, Orders, Indices, num_lines, a
  <2>1. sort.quadrant = 4 /\ i \in Int /\ j \in Int /\ a[i] \in 0..4 /\ a[j] \in 0..4
        /\ Start \in Nat /\ Place \in Nat /\ Start <= Place
    BY NumLines DEF SortDone, NoQuadrant, Indices, IInv, TypeOK, a, Start, Place, Target
  <2>2. CASE j < Start
    BY <2>2 DEF IInv, Layout
  <2>3. CASE ~(j < Start)
    <3>1. a[j] >= 4
      <4>1. CASE j < Place
        BY <2>1, <2>3, <4>1 DEF IInv, Layout
      <4>2. CASE ~(j < Place)
        BY <2>1, <4>2 DEF IInv, Layout
      <4> QED
        BY <4>1, <4>2
    <3> QED
      BY <2>1, <3>1
  <2> QED
    BY <2>2, <2>3
<1> QED
  BY <1>1, LayoutInvariant, PTL
=============================================================================
