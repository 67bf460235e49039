--------------------------- MODULE AllocatorProofs ---------------------------
(***************************************************************************)
(* Theorems about Allocator, for heaps, widths, clients and traces of any  *)
(* size.                                                                   *)
(*                                                                         *)
(* The proofs go from the bottom up: numbers (powers of two, bins), walks  *)
(* along a chain, the types, lists, words and the blocks that own them,    *)
(* the free lists in memory, the blocks laid out one behind the other, and *)
(* then each operation of the allocator on such a picture.  The inductive  *)
(* invariant IInv says that there is a picture: a set of blocks, a subset  *)
(* of them free, and an order of the lists.  What the runs check is read   *)
(* off it at the end.                                                      *)
(***************************************************************************)
EXTENDS Allocator, FiniteSetTheorems, WellFoundedInduction, TLAPS

(* Induction, by the least number that is an exception.                    *)

\* A set of naturals that is not empty has a least one.
LEMMA LeastNatural ==
  ASSUME NEW S \in SUBSET Nat, S # {}
  PROVE  \E n \in S : \A m \in S : n <= m
<1>1. \E R : IsWellFoundedOn(R, Nat) /\ \A m, k \in Nat : m < k => <<m, k>> \in R
  <2>1. \A m, k \in Nat : m < k => <<m, k>> \in OpToRel(<, Nat)
    BY DEF OpToRel
  <2>. QED
    BY <2>1, NatLessThanWellFounded
<1>2. PICK R : IsWellFoundedOn(R, Nat) /\ \A m, k \in Nat : m < k => <<m, k>> \in R
  BY <1>1
<1>3. S \subseteq Nat
  OBVIOUS
<1>4. PICK n \in S : \A m \in S : ~(<<m, n>> \in R)
  <2>1. IsWellFoundedOn(R, Nat)
    BY <1>2
  <2>. QED
    BY <1>3, <2>1, WFMin
<1>5. \A m \in S : n <= m
  <2>. TAKE m \in S
  <2>1. ~(m < n)
    BY <1>2, <1>3, <1>4
  <2>. QED
    BY <1>3, <2>1
<1>. QED
  BY <1>5

-----------------------------------------------------------------------------
(* Powers of two, and the bins they separate.                              *)

\* PowerOf2 is the function its definition describes.
LEMMA PowersDefined ==
  PowerOf2 = [k \in 0..(MAX_BLOCK_SIZE_EXP + 1) |-> IF k = 0 THEN 1 ELSE 2 * PowerOf2[k - 1]]
<1>. DEFINE top == MAX_BLOCK_SIZE_EXP + 1
            Upto(m, f) == f = [k \in 0..m |-> IF k = 0 THEN 1 ELSE 2 * f[k - 1]]
            bad == {m \in 0..top : ~\E f : Upto(m, f)}
<1>1. top \in Nat
  BY ExpAssumption
<1>2. bad = {}
  <2>. SUFFICES ASSUME bad # {} PROVE FALSE
    OBVIOUS
  <2>1. PICK m \in bad : \A k \in bad : m <= k
    <3>1. bad \in SUBSET Nat
      BY <1>1
    <3>. HIDE DEF bad
    <3>. QED
      BY <3>1, LeastNatural
  <2>2. CASE m = 0
    <3>1. Upto(0, [k \in 0..0 |-> 1])
      OBVIOUS
    <3>. QED
      BY <2>1, <2>2, <3>1
  <2>3. CASE m # 0
    <3>1. m \in Nat /\ m - 1 \in 0..top /\ m - 1 \notin bad
      BY <1>1, <2>1, <2>3
    <3>2. PICK f : Upto(m - 1, f)
      BY <3>1
    <3>. DEFINE g == [k \in 0..m |-> IF k = 0 THEN 1 ELSE 2 * f[k - 1]]
    <3>3. \A k \in 1..m : g[k - 1] = f[k - 1]
      BY <1>1, <2>1, <3>2
    <3>4. g = [k \in 0..m |-> IF k = 0 THEN 1 ELSE 2 * g[k - 1]]
      <4>1. \A k \in 0..m : (IF k = 0 THEN 1 ELSE 2 * f[k - 1]) = (IF k = 0 THEN 1 ELSE 2 * g[k - 1])
        <5>. TAKE k \in 0..m
        <5>1. k = 0 \/ k \in 1..m
          BY <3>1
        <5>. HIDE DEF g
        <5>. QED
          BY <3>3, <5>1
      <4>. HIDE DEF bad, Upto
      <4>. QED
        BY <4>1
    <3>. QED
      BY <2>1, <3>4
  <2>. QED
    BY <2>2, <2>3
<1>3. \E f : Upto(top, f)
  BY <1>1, <1>2
<1>. QED
  BY <1>3 DEF PowerOf2

\* 1 << k doubles with k.
LEMMA Powers ==
  /\ PowerOf2[0] = 1
  /\ \A k \in 0..(MAX_BLOCK_SIZE_EXP + 1) : PowerOf2[k] \in Nat /\ PowerOf2[k] > 0
  /\ \A k \in 0..MAX_BLOCK_SIZE_EXP : PowerOf2[k + 1] = 2 * PowerOf2[k]
<1>. DEFINE top == MAX_BLOCK_SIZE_EXP + 1
            bad == {k \in 0..top : ~(PowerOf2[k] \in Nat /\ PowerOf2[k] > 0)}
<1>1. top \in Nat /\ PowerOf2[0] = 1
  BY PowersDefined, ExpAssumption
<1>2. \A k \in 0..MAX_BLOCK_SIZE_EXP : PowerOf2[k + 1] = 2 * PowerOf2[k]
  BY PowersDefined, ExpAssumption
<1>3. bad = {}
  <2>. SUFFICES ASSUME bad # {} PROVE FALSE
    OBVIOUS
  <2>1. PICK m \in bad : \A k \in bad : m <= k
    <3>1. bad \in SUBSET Nat
      BY <1>1
    <3>. HIDE DEF bad
    <3>. QED
      BY <3>1, LeastNatural
  <2>2. m # 0 /\ m - 1 \in 0..MAX_BLOCK_SIZE_EXP /\ m - 1 \notin bad
    BY <1>1, <2>1, ExpAssumption
  <2>3. PowerOf2[m] = 2 * PowerOf2[m - 1] /\ PowerOf2[m - 1] \in Nat /\ PowerOf2[m - 1] > 0
    BY <1>2, <2>2, ExpAssumption
  <2>. QED
    BY <2>1, <2>3
<1>. QED
  BY <1>1, <1>2, <1>3

\* 1 << k grows with k.
LEMMA PowersGrow ==
  \A j, k \in 0..(MAX_BLOCK_SIZE_EXP + 1) : j < k => PowerOf2[j] < PowerOf2[k]
<1>. DEFINE top == MAX_BLOCK_SIZE_EXP + 1
            bad == {k \in 0..top : ~\A j \in 0..top : j < k => PowerOf2[j] < PowerOf2[k]}
<1>1. bad = {}
  <2>. SUFFICES ASSUME bad # {} PROVE FALSE
    OBVIOUS
  <2>1. PICK m \in bad : \A k \in bad : m <= k
    <3>1. bad \in SUBSET Nat
      BY ExpAssumption
    <3>. HIDE DEF bad
    <3>. QED
      BY <3>1, LeastNatural
  <2>2. PICK j \in 0..top : j < m /\ ~(PowerOf2[j] < PowerOf2[m])
    BY <2>1
  <2>3. m - 1 \in 0..MAX_BLOCK_SIZE_EXP /\ m - 1 \in 0..top /\ m - 1 \notin bad
    BY <2>1, <2>2, ExpAssumption
  <2>4. PowerOf2[m] = 2 * PowerOf2[m - 1] /\ PowerOf2[m - 1] \in Nat /\ PowerOf2[m - 1] > 0
    BY <2>3, Powers, ExpAssumption
  <2>5. j = m - 1 \/ PowerOf2[j] < PowerOf2[m - 1]
    BY <2>2, <2>3, ExpAssumption
  <2>6. PowerOf2[j] \in Nat
    BY Powers
  <2>. QED
    BY <2>2, <2>4, <2>5, <2>6
<1>. QED
  BY <1>1

\* MAX_BLOCK_SIZE is a number.
LEMMA MaxBlockSize == MAX_BLOCK_SIZE \in Nat /\ MAX_BLOCK_SIZE > 0
  BY Powers, ExpAssumption DEF MAX_BLOCK_SIZE

\* From 8 on the powers are aligned.
LEMMA PowersAligned == \A k \in 3..(MAX_BLOCK_SIZE_EXP + 1) : PowerOf2[k] % 8 = 0
<1>. DEFINE top == MAX_BLOCK_SIZE_EXP + 1
            bad == {k \in 3..top : PowerOf2[k] % 8 # 0}
<1>1. PowerOf2[3] = 8
  <2>1. PowerOf2[1] = 2
    BY Powers, ExpAssumption
  <2>2. PowerOf2[2] = 4
    BY <2>1, Powers, ExpAssumption
  <2>. QED
    BY <2>2, Powers, ExpAssumption
<1>2. bad = {}
  <2>. SUFFICES ASSUME bad # {} PROVE FALSE
    OBVIOUS
  <2>1. PICK m \in bad : \A k \in bad : m <= k
    <3>1. bad \in SUBSET Nat
      BY ExpAssumption
    <3>. HIDE DEF bad
    <3>. QED
      BY <3>1, LeastNatural
  <2>2. m # 3
    BY <1>1, <2>1
  <2>3. m - 1 \in 0..MAX_BLOCK_SIZE_EXP /\ m - 1 \in 3..top /\ m - 1 \notin bad
    BY <2>1, <2>2, ExpAssumption
  <2>4. PowerOf2[m] = 2 * PowerOf2[m - 1] /\ PowerOf2[m - 1] \in Nat /\ PowerOf2[m - 1] % 8 = 0
    BY <2>3, Powers, ExpAssumption
  <2>. QED
    BY <2>1, <2>4
<1>. QED
  BY <1>2

\* log_2(n) finds the power of two that n is in reach of.
LEMMA Log2 ==
  ASSUME NEW n \in Nat, 0 < n, n < MAX_BLOCK_SIZE
  PROVE  /\ log_2(n) \in 0..(MAX_BLOCK_SIZE_EXP - 1)
         /\ PowerOf2[log_2(n)] <= n /\ n < PowerOf2[log_2(n) + 1]
<1>. DEFINE above == {k \in 0..MAX_BLOCK_SIZE_EXP : n < PowerOf2[k + 1]}
            p(k) == PowerOf2[k] <= n /\ n < PowerOf2[k + 1]
<1>1. MAX_BLOCK_SIZE_EXP - 1 \in above
  BY ExpAssumption DEF MAX_BLOCK_SIZE
<1>2. PICK m \in above : \A k \in above : m <= k
  <2>1. above \in SUBSET Nat
    BY ExpAssumption
  <2>. HIDE DEF above
  <2>. QED
    BY <1>1, <2>1, LeastNatural
<1>3. PowerOf2[m] <= n
  <2>1. CASE m = 0
    BY <2>1, Powers
  <2>2. CASE m # 0
    <3>1. m - 1 \in 0..MAX_BLOCK_SIZE_EXP /\ m - 1 \notin above /\ (m - 1) + 1 = m
      BY <1>2, <2>2, ExpAssumption
    <3>2. PowerOf2[m] \in Nat
      BY Powers, ExpAssumption
    <3>. QED
      BY <3>1, <3>2
  <2>. QED
    BY <2>1, <2>2
<1>4. log_2(n) \in 0..MAX_BLOCK_SIZE_EXP /\ p(log_2(n))
  BY <1>2, <1>3 DEF log_2
<1>5. log_2(n) # MAX_BLOCK_SIZE_EXP
  BY <1>4, Powers, ExpAssumption DEF MAX_BLOCK_SIZE
<1>. QED
  BY <1>4, <1>5, ExpAssumption

\* The total sizes that blocks have
Totals == {n \in 24..(MAX_BLOCK_SIZE - 2) : n % 8 = 0}

\* Every block has a bin, and is at least as large as the bin says.
LEMMA BinExists ==
  ASSUME NEW n \in Totals
  PROVE  /\ get_freelist_index(n) \in Bins
         /\ BinFloor(get_freelist_index(n)) \in Nat /\ BinFloor(get_freelist_index(n)) <= n
<1>. DEFINE k == log_2(n + 1)
<1>1. n \in Nat /\ n >= 24 /\ n % 8 = 0 /\ n + 1 < MAX_BLOCK_SIZE
  BY MaxBlockSize DEF Totals
<1>2. k \in 0..(MAX_BLOCK_SIZE_EXP - 1) /\ PowerOf2[k] <= n + 1 /\ n + 1 < PowerOf2[k + 1]
  BY <1>1, Log2
<1>. HIDE DEF k
<1>3. k >= 4
  <2>. SUFFICES ASSUME k < 4 PROVE FALSE
    BY <1>2, ExpAssumption
  <2>1. k + 1 = 4 \/ (k + 1 \in 0..(MAX_BLOCK_SIZE_EXP + 1) /\ k + 1 < 4 /\ 4 \in 0..(MAX_BLOCK_SIZE_EXP + 1))
    BY <1>2, ExpAssumption
  <2>2. PowerOf2[k + 1] <= PowerOf2[4]
    BY <2>1, PowersGrow, Powers, ExpAssumption
  <2>3. PowerOf2[4] = 16
    <3>1. PowerOf2[1] = 2
      BY Powers, ExpAssumption
    <3>2. PowerOf2[2] = 4
      BY <3>1, Powers, ExpAssumption
    <3>3. PowerOf2[3] = 8
      BY <3>2, Powers, ExpAssumption
    <3>. QED
      BY <3>3, Powers, ExpAssumption
  <2>4. PowerOf2[k + 1] \in Nat
    BY <1>2, Powers, ExpAssumption
  <2>. QED
    BY <1>1, <1>2, <2>2, <2>3, <2>4
<1>4. PowerOf2[k] \in Nat /\ PowerOf2[k] % 8 = 0
  BY <1>2, <1>3, Powers, PowersAligned, ExpAssumption
<1>5. PowerOf2[k] <= n
  BY <1>1, <1>2, <1>4
<1>6. get_freelist_index(n) = k - 4
  BY <1>1 DEF get_freelist_index, MIN_BLOCK_SIZE, MIN_BLOCK_SIZE_EXP, k
<1>7. k - 4 \in Bins
  BY <1>2, <1>3, ExpAssumption DEF Bins, NUM_FREE_LISTS, MIN_BLOCK_SIZE_EXP
<1>. QED
  BY <1>1, <1>2, <1>3, <1>4, <1>5, <1>6, <1>7, ExpAssumption DEF BinFloor, MIN_BLOCK_SIZE_ACTUAL, MIN_BLOCK_SIZE_EXP

(* What is reached along a chain.                                          *)

Along(next, S) == S \cup {next[p] : p \in S \cap DOMAIN next}
Stages(reach, first, next) ==
  reach = [n \in 0..MaxBlocks |-> IF n = 0 THEN {first} ELSE Along(next, reach[n - 1])]

\* The bound of the walks is a number.
LEMMA MaxBlocksType == MaxBlocks \in Nat
  BY HeapAssumption DEF MaxBlocks, MIN_BLOCK_SIZE_ACTUAL

\* The stages of a walk exist.
LEMMA ReachableDefined ==
  ASSUME NEW first, NEW next
  PROVE  \E reach : Stages(reach, first, next) /\ Reachable(first, next) = reach[MaxBlocks]
<1>. DEFINE Upto(m, f) == f = [n \in 0..m |-> IF n = 0 THEN {first} ELSE Along(next, f[n - 1])]
            bad == {m \in 0..MaxBlocks : ~\E f : Upto(m, f)}
<1>1. bad = {}
  <2>. SUFFICES ASSUME bad # {} PROVE FALSE
    OBVIOUS
  <2>1. PICK m \in bad : \A k \in bad : m <= k
    <3>1. bad \in SUBSET Nat
      BY MaxBlocksType
    <3>. HIDE DEF bad
    <3>. QED
      BY <3>1, LeastNatural
  <2>2. CASE m = 0
    <3>1. Upto(0, [n \in 0..0 |-> {first}])
      OBVIOUS
    <3>. QED
      BY <2>1, <2>2, <3>1
  <2>3. CASE m # 0
    <3>0. m \in 0..MaxBlocks
      BY <2>1
    <3>1. m \in Nat /\ m - 1 \in 0..MaxBlocks /\ m - 1 \notin bad
      <4>. HIDE DEF bad
      <4>. QED
        BY <2>1, <2>3, <3>0, MaxBlocksType
    <3>2. PICK f : Upto(m - 1, f)
      BY <3>1
    <3>. DEFINE g == [n \in 0..m |-> IF n = 0 THEN {first} ELSE Along(next, f[n - 1])]
    <3>3. \A k \in 1..m : g[k - 1] = f[k - 1]
      <4>. TAKE k \in 1..m
      <4>1. k - 1 \in 0..(m - 1) /\ k - 1 \in 0..m
        BY <3>1
      <4>2. f[k - 1] = IF k - 1 = 0 THEN {first} ELSE Along(next, f[k - 1 - 1])
        BY <3>2, <4>1
      <4>3. g[k - 1] = IF k - 1 = 0 THEN {first} ELSE Along(next, f[k - 1 - 1])
        BY <4>1
      <4>. QED
        BY <4>2, <4>3
    <3>4. g = [n \in 0..m |-> IF n = 0 THEN {first} ELSE Along(next, g[n - 1])]
      <4>1. \A n \in 0..m : (IF n = 0 THEN {first} ELSE Along(next, f[n - 1])) = (IF n = 0 THEN {first} ELSE Along(next, g[n - 1]))
        <5>. TAKE n \in 0..m
        <5>1. n = 0 \/ n \in 1..m
          BY <3>1
        <5>. HIDE DEF g
        <5>. QED
          BY <3>3, <5>1
      <4>. HIDE DEF bad, Upto
      <4>. QED
        BY <4>1
    <3>. QED
      BY <2>1, <3>4
  <2>. QED
    BY <2>2, <2>3
<1>2. \E f : Stages(f, first, next)
  <2>1. MaxBlocks \in 0..MaxBlocks /\ MaxBlocks \notin bad
    <3>. HIDE DEF bad
    <3>. QED
      BY <1>1, MaxBlocksType
  <2>2. \E f : Upto(MaxBlocks, f)
    BY <2>1
  <2>. QED
    BY <2>2 DEF Stages
<1>. DEFINE reach == CHOOSE f : Stages(f, first, next)
<1>3. Stages(reach, first, next)
  BY <1>2
<1>4. Reachable(first, next) = reach[MaxBlocks]
  BY DEF Reachable, Stages, Along
<1>. QED
  BY <1>3, <1>4

Closed(next, S) == \A p \in S \cap DOMAIN next : next[p] \in S

\* The chain of R from first to end, no longer than the heap has blocks.
Chain(first, next, end, R, rank) ==
  /\ R \subseteq DOMAIN next /\ end \notin DOMAIN next
  /\ first \in R \cup {end} /\ \A p \in R : next[p] \in R \cup {end}
  /\ \A p \in R : rank[p] \in Nat
  /\ \A p \in R : p = first \/ \E q \in R : next[q] = p /\ rank[q] < rank[p]

\* A walk along a chain that is no longer than the heap has blocks finds all
\* of the chain, its end, and nothing else.
LEMMA ReachableIs ==
  ASSUME NEW first, NEW next, NEW end, NEW R, NEW rank,
         IsFiniteSet(R), Cardinality(R) <= MaxBlocks, Chain(first, next, end, R, rank)
  PROVE  /\ R \subseteq Reachable(first, next) /\ Reachable(first, next) \subseteq R \cup {end}
         /\ first = end \/ (\E q \in R : next[q] = end) => end \in Reachable(first, next)
<1>1. PICK reach : Stages(reach, first, next) /\ Reachable(first, next) = reach[MaxBlocks]
  BY ReachableDefined
<1>2. reach[0] = {first} /\ \A n \in 0..MaxBlocks : n # 0 => reach[n] = Along(next, reach[n - 1])
  <2>1. \A n \in 0..MaxBlocks : reach[n] = IF n = 0 THEN {first} ELSE Along(next, reach[n - 1])
    BY <1>1, Zenon DEF Stages
  <2>. QED
    BY <2>1, MaxBlocksType
<1>3. \A n \in 0..MaxBlocks : reach[n] \subseteq R \cup {end} /\ first \in reach[n]
  <2>. DEFINE bad == {n \in 0..MaxBlocks : ~(reach[n] \subseteq R \cup {end} /\ first \in reach[n])}
  <2>. SUFFICES ASSUME bad # {} PROVE FALSE
    OBVIOUS
  <2>1. PICK n \in bad : \A k \in bad : n <= k
    <3>1. bad \in SUBSET Nat
      BY MaxBlocksType
    <3>. HIDE DEF bad
    <3>. QED
      BY <3>1, LeastNatural
  <2>2. n # 0
    BY <1>2, <2>1 DEF Chain
  <2>3. n - 1 \in 0..MaxBlocks /\ n - 1 \notin bad
    BY <2>1, <2>2, MaxBlocksType
  <2>. QED
    BY <1>2, <2>1, <2>2, <2>3 DEF Along, Chain
<1>4. IsFiniteSet(R \cup {end}) /\ Cardinality(R \cup {end}) = Cardinality(R) + 1
  BY FS_AddElement DEF Chain
<1>5. \A n \in 0..MaxBlocks : IsFiniteSet(reach[n]) /\ Cardinality(reach[n]) \in Nat
  BY <1>3, <1>4, FS_Subset, FS_CardinalityType
<1>6. \A n \in 0..MaxBlocks : Closed(next, reach[n]) \/ Cardinality(reach[n]) >= n + 1
  <2>. DEFINE bad == {n \in 0..MaxBlocks : ~(Closed(next, reach[n]) \/ Cardinality(reach[n]) >= n + 1)}
  <2>. SUFFICES ASSUME bad # {} PROVE FALSE
    OBVIOUS
  <2>1. PICK n \in bad : \A k \in bad : n <= k
    <3>1. bad \in SUBSET Nat
      BY MaxBlocksType
    <3>. HIDE DEF bad
    <3>. QED
      BY <3>1, LeastNatural
  <2>2. n # 0
    BY <1>2, <2>1, FS_Singleton
  <2>3. n \in 0..MaxBlocks /\ n - 1 \in 0..MaxBlocks /\ n - 1 \notin bad
    BY <2>1, <2>2, MaxBlocksType
  <2>4. reach[n] = Along(next, reach[n - 1])
    BY <1>2, <2>2, <2>3
  <2>5. CASE Closed(next, reach[n - 1])
    <3>1. reach[n] = reach[n - 1]
      BY <2>4, <2>5 DEF Along, Closed
    <3>. QED
      BY <2>1, <2>5, <3>1
  <2>6. CASE ~Closed(next, reach[n - 1])
    <3>1. PICK p \in reach[n - 1] \cap DOMAIN next : next[p] \notin reach[n - 1]
      BY <2>6 DEF Closed
    <3>2. reach[n - 1] \cup {next[p]} \subseteq reach[n]
      BY <2>4, <3>1 DEF Along
    <3>3. Cardinality(reach[n - 1] \cup {next[p]}) = Cardinality(reach[n - 1]) + 1
      BY <1>5, <2>3, <3>1, FS_AddElement, ZenonT(60)
    <3>4. Cardinality(reach[n - 1] \cup {next[p]}) <= Cardinality(reach[n])
      BY <1>5, <2>3, <3>2, FS_Subset
    <3>5. Cardinality(reach[n - 1]) >= n
      BY <2>3, <2>6
    <3>. QED
      BY <1>5, <2>1, <2>3, <3>3, <3>4, <3>5
  <2>. QED
    BY <2>5, <2>6
<1>. DEFINE all == reach[MaxBlocks]
<1>7. all \subseteq R \cup {end} /\ first \in all /\ IsFiniteSet(all) /\ Cardinality(all) \in Nat
  BY <1>3, <1>5, MaxBlocksType
<1>8. Closed(next, all)
  <2>. SUFFICES ASSUME Cardinality(all) >= MaxBlocks + 1 PROVE Closed(next, all)
    BY <1>6, MaxBlocksType
  <2>1. Cardinality(R) \in Nat
    BY FS_CardinalityType
  <2>2. Cardinality(all) <= Cardinality(R \cup {end})
    BY <1>4, <1>7, FS_Subset
  <2>3. Cardinality(all) = Cardinality(R \cup {end})
    BY <1>4, <1>7, <2>1, <2>2, MaxBlocksType
  <2>4. all = R \cup {end}
    BY <1>4, <1>7, <2>3, FS_Subset
  <2>. QED
    BY <2>4 DEF Closed, Chain
<1>9. R \subseteq all
  <2>. DEFINE missing == {rank[p] : p \in R \ all}
  <2>. SUFFICES ASSUME R \ all # {} PROVE FALSE
    OBVIOUS
  <2>1. missing \in SUBSET Nat /\ missing # {}
    BY DEF Chain
  <2>2. PICK least \in missing : \A k \in missing : least <= k
    <3>. HIDE DEF missing
    <3>. QED
      BY <2>1, LeastNatural
  <2>3. PICK p \in R \ all : least = rank[p]
    BY <2>2
  <2>4. PICK q \in R : next[q] = p /\ rank[q] < rank[p]
    BY <1>7, <2>3 DEF Chain
  <2>5. q \in all
    BY <2>2, <2>3, <2>4 DEF Chain
  <2>. QED
    BY <1>8, <2>3, <2>4, <2>5 DEF Closed, Chain
<1>. QED
  BY <1>1, <1>7, <1>8, <1>9 DEF Closed, Chain

-----------------------------------------------------------------------------
(* Types: each operation of the allocator maps heaps to heaps.             *)

\* What is stored is 32 bits wide.
LEMMA MaskType ==
  ASSUME NEW v \in Int
  PROVE  mask_size(v) \in Uint32
BY ExpAssumption, MaxBlockSize, HeapAssumption DEF Uint32, mask_size

\* So is what is loaded.
LEMMA LoadType ==
  ASSUME NEW h \in Heaps, NEW a
  PROVE  Load(h, a) \in Uint32
BY ExpAssumption, MaxBlockSize, HeapAssumption DEF Load, Heaps, Uint32

\* A root is a number.
LEMMA RootType ==
  ASSUME NEW h \in Heaps, NEW i
  PROVE  Root(h, i) \in Int
BY DEF Root, Heaps, NULL

\* A store leaves a heap.
LEMMA StoreType ==
  ASSUME NEW h \in Heaps, NEW a, NEW v \in Int
  PROVE  Store(h, a, v) \in Heaps
BY MaskType DEF Store, Heaps

\* So does the change of a root.
LEMMA SetRootType ==
  ASSUME NEW h \in Heaps, NEW i, NEW p \in Int
  PROVE  SetRoot(h, i, p) \in Heaps
BY DEF SetRoot, Heaps

\* Headers and footers say sizes.
LEMMA SizeType ==
  ASSUME NEW h \in Heaps, NEW p
  PROVE  /\ get_header(h, p) \in Nat
         /\ get_last_footer(h, p) \in Nat
         /\ LastBlockSize(h) \in Nat
<1>1. \A v \in Uint32 : unmask_size(v) \in Nat
  BY ExpAssumption, MaxBlockSize DEF Uint32, unmask_size
<1>2. QED
  BY <1>1, LoadType DEF get_header, get_last_footer, LastBlockSize

\* Tags are stores.
LEMMA SetTagType ==
  ASSUME NEW h \in Heaps, NEW p, NEW n, NEW v \in Int
  PROVE  set_header(h, p, v) \in Heaps /\ set_footer(h, p, n, v) \in Heaps
BY StoreType DEF set_header, set_footer

\* So are links.
LEMMA SetLinkType ==
  ASSUME NEW h \in Heaps, NEW p, NEW q \in Int
  PROVE  SetPrev(h, p, q) \in Heaps /\ SetNext(h, p, q) \in Heaps
<1>1. \A a : Store(h, a, q) \in Heaps
  BY StoreType
<1>2. \A a : StorePtr(h, a, q) \in Heaps
  BY <1>1, StoreType DEF StorePtr
<1>3. QED
  BY <1>2 DEF SetPrev, SetNext

\* A link is read as a number.
LEMMA LinkType ==
  ASSUME NEW h \in Heaps, NEW p
  PROVE  Prev(h, p) \in Int /\ Next_(h, p) \in Int
<1>1. Uint32 \subseteq Int
  BY DEF Uint32
<1>2. QED
  BY <1>1, LoadType DEF Prev, Next_

\* Pushing a block on a list leaves a heap.
LEMMA AddToFreeListType ==
  ASSUME NEW h \in Heaps, NEW p \in Int, NEW i
  PROVE  add_to_free_list(h, p, i) \in Heaps
<1> DEFINE first == Root(h, i)
           back  == IF first # NULL THEN SetPrev(h, first, p) ELSE h
<1>1. first \in Int
  BY RootType
<1>2. back \in Heaps
  BY SetLinkType
<1>3. SetPrev(back, p, NULL) \in Heaps
  BY <1>2, SetLinkType DEF NULL
<1>4. SetNext(SetPrev(back, p, NULL), p, first) \in Heaps
  BY <1>1, <1>3, SetLinkType
<1>5. SetRoot(SetNext(SetPrev(back, p, NULL), p, first), i, p) \in Heaps
  BY <1>4, SetRootType
<1>6. QED
  BY <1>5 DEF add_to_free_list

\* So does tagging it as well.
LEMMA AddFreeListType ==
  ASSUME NEW h \in Heaps, NEW p \in Int
  PROVE  add_free_list(h, p) \in Heaps
<1> DEFINE size == mask_size(get_header(h, p))
<1>1. size \in Int
  BY SizeType, MaskType DEF Uint32
<1>2. set_footer(h, p, size, size) \in Heaps
  BY <1>1, SetTagType
<1>3. QED
  BY <1>2, AddToFreeListType DEF add_free_list

\* So does taking it from its list.
LEMMA RemoveFreeListType ==
  ASSUME NEW h \in Heaps, NEW p
  PROVE  remove_free_list(h, p) \in Heaps
<1> DEFINE next == Next_(h, p)
           prev == Prev(h, p)
           fwd  == IF next # NULL THEN SetPrev(h, next, prev) ELSE h
<1>1. next \in Int /\ prev \in Int
  BY LinkType
<1>2. fwd \in Heaps
  BY <1>1, SetLinkType
<1>3. \A i : SetRoot(fwd, i, next) \in Heaps
  BY <1>1, <1>2, SetRootType
<1>4. SetNext(fwd, prev, next) \in Heaps
  BY <1>1, <1>2, SetLinkType
<1>5. QED
  BY <1>3, <1>4 DEF remove_free_list

\* So does mem_sbrk().
LEMMA SbrkType ==
  ASSUME NEW h \in Heaps, NEW n \in Int
  PROVE  mem_sbrk(h, n) \in Heaps
<1> DEFINE new == h.brk + mask_size(n)
<1>1. new \in Nat
  BY MaskType DEF Heaps, Uint32
<1>2. ASSUME CanGrow(h, n)
      PROVE  new \in 0..MAX_HEAP
  BY <1>1, <1>2, HeapAssumption DEF CanGrow
<1>3. ASSUME new \in 0..MAX_HEAP
      PROVE  [h EXCEPT !.brk = new] \in Heaps
  BY <1>3 DEF Heaps
<1>4. QED
  BY <1>2, <1>3 DEF mem_sbrk

\* So does split_block().
LEMMA SplitBlockType ==
  ASSUME NEW h \in Heaps, NEW p \in Int, NEW n \in Int
  PROVE  split_block(h, p, n) \in Heaps
<1> DEFINE full     == get_header(h, p)
           split    == Splittable(Total(h, p) - n)
           carved   == set_header(h, p + n, full - n)
           rest     == IF split THEN add_free_list(carved, p + n) ELSE h
           returned == IF split THEN n - HEADER_SIZE - FOOTER_SIZE ELSE full
<1>1. full \in Int /\ full - n \in Int /\ p + n \in Int
  BY SizeType
<1>2. returned \in Int
  BY <1>1 DEF HEADER_SIZE, FOOTER_SIZE
<1>3. carved \in Heaps
  BY <1>1, SetTagType
<1>4. rest \in Heaps
  BY <1>1, <1>3, AddFreeListType
<1>5. set_header(rest, p, returned) \in Heaps
  BY <1>2, <1>4, SetTagType
<1>6. set_footer(set_header(rest, p, returned), p, returned, FOOTER_ALLOC_FLAG) \in Heaps
  BY <1>5, SetTagType DEF FOOTER_ALLOC_FLAG
<1>7. QED
  BY <1>6 DEF split_block

\* So does memcpy().
LEMMA MemcpyType ==
  ASSUME NEW h \in Heaps, NEW dst \in Int, NEW src \in Int, NEW n \in Int
  PROVE  memcpy(h, dst, src, n) \in Heaps
<1> DEFINE mem == [a \in Words |-> IF dst <= a /\ a < dst + n THEN Load(h, src + (a - dst))
                                                           ELSE h.mem[a]]
<1>1. \A a \in Words : h.mem[a] \in Uint32
  BY DEF Heaps
<1>2. mem \in [Words -> Uint32]
  BY <1>1, LoadType
<1>3. QED
  BY <1>2 DEF memcpy, Heaps

\* So does my_init().
LEMMA InitType ==
  ASSUME NEW h \in Heaps
  PROVE  my_init(h) \in Heaps
<1>1. [h EXCEPT !.freelist = [i \in Bins |-> NULL]] \in Heaps
  BY DEF Heaps, NULL
<1>2. QED
  BY <1>1, SbrkType DEF my_init, INIT_OFFSET

-----------------------------------------------------------------------------
(* my_malloc() returns a heap and a pointer, or NULL.                      *)

Answers == [heap : Heaps, ptr : Int]

\* A block has room for the request and its tags, and is aligned.
LEMMA BlockSizeType ==
  ASSUME NEW size \in Nat
  PROVE  /\ BlockSize(size) \in Nat
         /\ BlockSize(size) >= size + HEADER_SIZE + FOOTER_SIZE
         /\ BlockSize(size) >= MIN_BLOCK_SIZE_ACTUAL
         /\ BlockSize(size) % ALIGNMENT = 0
BY DEF BlockSize, AtLeast, ALIGN, ALIGNMENT, HEADER_SIZE, FOOTER_SIZE, MIN_BLOCK_SIZE_ACTUAL

\* The answer from a free list
LEMMA FreelistMallocType ==
  ASSUME NEW h \in Heaps, NEW n \in Int
  PROVE  freelist_malloc(h, n) \in Answers
<1>1. [heap |-> h, ptr |-> NULL] \in Answers
  BY DEF Answers, NULL
<1>2. \A p \in Int : [heap |-> split_block(remove_free_list(h, p), p, n), ptr |-> p] \in Answers
  BY RemoveFreeListType, SplitBlockType DEF Answers
<1>3. QED
  BY <1>1, <1>2, RootType DEF freelist_malloc

\* The answer of a last block that is grown
LEMMA ExtendLastType ==
  ASSUME NEW h \in Heaps, NEW n \in Int
  PROVE  ExtendLast(h, n) \in Answers
<1> DEFINE last  == LastBlockSize(h)
           p     == h.brk - FOOTER_SIZE - last
           data  == n - HEADER_SIZE - FOOTER_SIZE
           grown == mem_sbrk(remove_free_list(h, p), ExtraNeeded(data, last))
<1>1. p \in Int /\ data \in Int /\ ExtraNeeded(data, last) \in Int
  BY SizeType DEF Heaps, HEADER_SIZE, FOOTER_SIZE, ExtraNeeded
<1>2. grown \in Heaps
  BY <1>1, RemoveFreeListType, SbrkType
<1>3. set_header(grown, p, data) \in Heaps
  BY <1>1, <1>2, SetTagType
<1>4. set_footer(set_header(grown, p, data), p, data, FOOTER_ALLOC_FLAG) \in Heaps
  BY <1>3, SetTagType DEF FOOTER_ALLOC_FLAG
<1>5. QED
  BY <1>1, <1>4 DEF ExtendLast, Answers

\* The answer from new memory
LEMMA NewBlockType ==
  ASSUME NEW h \in Heaps, NEW n \in Int
  PROVE  NewBlock(h, n) \in Answers
<1> DEFINE p    == h.brk + HEADER_SIZE
           data == n - HEADER_SIZE - FOOTER_SIZE
<1>1. p \in Int /\ data \in Int
  BY DEF Heaps, HEADER_SIZE, FOOTER_SIZE
<1>2. set_header(mem_sbrk(h, n), p, data) \in Heaps
  BY <1>1, SbrkType, SetTagType
<1>3. set_footer(set_header(mem_sbrk(h, n), p, data), p, data, FOOTER_ALLOC_FLAG) \in Heaps
  BY <1>2, SetTagType DEF FOOTER_ALLOC_FLAG
<1>4. QED
  BY <1>1, <1>3 DEF NewBlock, Answers, NULL

\* The answer of my_malloc()
LEMMA MallocType ==
  ASSUME NEW h \in Heaps, NEW size \in Nat
  PROVE  my_malloc(h, size) \in Answers
BY BlockSizeType, FreelistMallocType, ExtendLastType, NewBlockType DEF my_malloc

-----------------------------------------------------------------------------
(* Type correctness of the specification.                                  *)

\* Merging leaves a heap.
LEMMA MergeType ==
  ASSUME NEW h \in Heaps, NEW p \in Int, NEW n \in Int
  PROVE  Merge(h, p, n) \in Heaps
BY SetTagType DEF Merge

\* The locals of my_free()
LEMMA StartFreeType ==
  ASSUME NEW h \in Heaps, NEW p \in Int
  PROVE  StartFree(h, p) \in Calls
<1>1. Total(h, p) \in Nat
  BY SizeType DEF Total, HEADER_SIZE, FOOTER_SIZE
<1>2. QED
  BY <1>1 DEF StartFree, Calls

\* The locals of coalesce()
LEMMA MergedType ==
  ASSUME NEW p \in Int, NEW n \in Nat, NEW pc \in {"idle", "front", "back", "insert"}
  PROVE  Merged(p, n, pc) \in Calls
<1>1. HEADER_SIZE + n + FOOTER_SIZE \in Nat
  BY DEF HEADER_SIZE, FOOTER_SIZE
<1>2. QED
  BY <1>1 DEF Merged, Calls

\* Requests are numbers of bytes.
LEMMA SizesNat == Sizes \subseteq Nat
BY SizesAssumption

\* The types hold at the start.
LEMMA InitTypeOK == Init => TypeOK
<1> SUFFICES ASSUME Init PROVE TypeOK
  OBVIOUS
<1> DEFINE h0 == [brk |-> 0, mem |-> [a \in Words |-> 0],
                  freelist |-> [i \in Bins |-> NULL], wild |-> FALSE]
<1>1. 0 \in 0..MAX_HEAP /\ 0 \in Uint32
  BY ExpAssumption, MaxBlockSize, HeapAssumption DEF Uint32
<1>2. h0 \in Heaps
  BY <1>1 DEF Heaps, NULL
<1>3. heap \in Heaps
  BY <1>2, InitType DEF Init
<1>4. live \in [Ids -> Holdings]
  BY DEF Init, Absent, Holdings, NULL
<1>5. call \in Calls
  BY DEF Init, Idle, Calls, NULL
<1>6. QED
  BY <1>3, <1>4, <1>5 DEF TypeOK

\* Every step keeps the types.
LEMMA NextTypeOK == TypeOK /\ [Next]_vars => TypeOK'
<1> SUFFICES ASSUME TypeOK, [Next]_vars PROVE TypeOK'
  OBVIOUS
<1> USE DEF TypeOK
<1>1. ASSUME NEW id \in Ids, NEW size \in Sizes, Malloc(id, size)
      PROVE  TypeOK'
  <2>1. my_malloc(heap, size) \in Answers
    BY MallocType, SizesNat
  <2>2. heap' \in Heaps
    BY <1>1, <2>1 DEF Malloc, Answers
  <2>3. [ptr |-> my_malloc(heap, size).ptr, size |-> size, data |-> 0] \in Holdings
    BY <2>1 DEF Answers, Holdings
  <2>4. live' \in [Ids -> Holdings]
    BY <1>1, <2>3 DEF Malloc
  <2>5. QED
    BY <1>1, <2>2, <2>4 DEF Malloc
<1>2. ASSUME NEW id \in Ids, Write(id)
      PROVE  TypeOK'
  <2> DEFINE b   == live[id]
             mem == [a \in Words |-> IF b.ptr <= a /\ a + 4 <= b.ptr + b.size THEN id ELSE heap.mem[a]]
  <2>1. id \in Uint32
    BY IdsAssumption, ExpAssumption, MaxBlockSize, HeapAssumption DEF Uint32
  <2>2. mem \in [Words -> Uint32]
    BY <2>1 DEF Heaps
  <2>3. [heap EXCEPT !.mem = mem] \in Heaps
    BY <2>2 DEF Heaps
  <2>4. [live EXCEPT ![id].data = live[id].size] \in [Ids -> Holdings]
    BY DEF Holdings
  <2>5. QED
    BY <1>2, <2>3, <2>4 DEF Write
<1>3. ASSUME NEW id \in Ids, Free(id)
      PROVE  TypeOK'
  <2>1. Absent \in Holdings /\ live[id].ptr \in Int
    BY DEF Absent, Holdings, NULL
  <2>2. QED
    BY <1>3, <2>1, StartFreeType DEF Free
<1>4. CASE CoalesceFront
  <2> DEFINE size  == get_last_footer(heap, call.ptr)
             front == call.ptr - HEADER_SIZE - FOOTER_SIZE - size
             new   == size + call.block_size
  <2>1. size \in Nat /\ front \in Int /\ new \in Nat
    BY SizeType DEF Calls, HEADER_SIZE, FOOTER_SIZE
  <2>2. Merge(remove_free_list(heap, front), front, new) \in Heaps
    BY <2>1, RemoveFreeListType, MergeType
  <2>3. Merged(front, new, "back") \in Calls
    BY <2>1, MergedType
  <2>4. [call EXCEPT !.pc = "back"] \in Calls
    BY DEF Calls
  <2>5. QED
    BY <1>4, <2>2, <2>3, <2>4 DEF CoalesceFront
<1>5. CASE CoalesceBack
  <2> DEFINE behind == call.ptr + call.block_size
             size   == get_header(heap, behind)
             new    == call.block_size + size
  <2>1. size \in Nat /\ new \in Nat /\ call.ptr \in Int
    BY SizeType DEF Calls
  <2>2. Merge(remove_free_list(heap, behind), call.ptr, new) \in Heaps
    BY <2>1, RemoveFreeListType, MergeType
  <2>3. Merged(call.ptr, new, "front") \in Calls
    BY <2>1, MergedType
  <2>4. [Merged(call.ptr, new, "front") EXCEPT !.done = TRUE] \in Calls
    BY <2>3 DEF Calls
  <2>5. LoopEnd \in Calls
    BY DEF LoopEnd, Calls
  <2>6. QED
    BY <1>5, <2>2, <2>4, <2>5 DEF CoalesceBack
<1>6. CASE InsertFree
  <2>1. add_free_list(heap, call.ptr) \in Heaps /\ Idle \in Calls
    BY AddFreeListType DEF Calls, Idle, NULL
  <2>2. QED
    BY <1>6, <2>1 DEF InsertFree
<1>7. ASSUME NEW id \in Ids, NEW size \in Sizes
      PROVE  /\ [live EXCEPT ![id].size = size, ![id].data = AtMost(live[id].data, size)]
                  \in [Ids -> Holdings]
             /\ \A p \in Int : [ptr |-> p, size |-> size, data |-> AtMost(live[id].data, size)]
                  \in Holdings
  <2>1. AtMost(live[id].data, size) \in {0} \cup Sizes
    BY DEF AtMost, Holdings
  <2>2. QED
    BY <2>1 DEF Holdings
<1>8. ASSUME NEW id \in Ids, NEW size \in Sizes, ReallocShrink(id, size)
      PROVE  TypeOK'
  BY <1>7, <1>8 DEF ReallocShrink
<1>9. ASSUME NEW id \in Ids, NEW size \in Sizes, ReallocLast(id, size)
      PROVE  TypeOK'
  <2> DEFINE p    == live[id].ptr
             copy == get_header(heap, p)
             need == ALIGN(ALIGN(size) - copy)
  <2>1. p \in Int /\ copy \in Int /\ need \in Int /\ copy + need \in Int
    BY SizeType, SizesNat DEF Holdings, ALIGN, ALIGNMENT
  <2>2. set_header(mem_sbrk(heap, need), p, copy + need) \in Heaps
    BY <2>1, SbrkType, SetTagType
  <2>3. set_footer(set_header(mem_sbrk(heap, need), p, copy + need),
                   p, copy + need, FOOTER_ALLOC_FLAG) \in Heaps
    BY <2>2, SetTagType DEF FOOTER_ALLOC_FLAG
  <2>4. QED
    BY <1>7, <1>9, <2>3 DEF ReallocLast
<1>10. ASSUME NEW id \in Ids, NEW size \in Sizes, ReallocMove(id, size)
       PROVE  TypeOK'
  <2> DEFINE p      == live[id].ptr
             copy   == get_header(heap, p)
             r      == my_malloc(heap, ALIGN(size))
             copied == memcpy(r.heap, r.ptr, p, copy)
  <2>1. p \in Int /\ copy \in Int /\ ALIGN(size) \in Nat
    BY SizeType, SizesNat DEF Holdings, ALIGN, ALIGNMENT
  <2>2. r.heap \in Heaps /\ r.ptr \in Int
    BY <2>1, MallocType DEF Answers
  <2>3. copied \in Heaps
    BY <2>1, <2>2, MemcpyType
  <2>4. StartFree(copied, p) \in Calls
    BY <2>1, <2>3, StartFreeType
  <2>5. [live EXCEPT ![id] = [ptr |-> r.ptr, size |-> size, data |-> AtMost(live[id].data, size)]]
          \in [Ids -> Holdings]
    BY <1>7, <2>2
  <2>6. QED
    BY <1>10, <2>2, <2>3, <2>4, <2>5 DEF ReallocMove
<1>11. CASE Reset
  <2>1. [heap EXCEPT !.brk = 0] \in Heaps
    BY HeapAssumption DEF Heaps
  <2>2. my_init(mem_reset_brk(heap)) \in Heaps
    BY <2>1, InitType DEF mem_reset_brk
  <2>3. Absent \in Holdings
    BY DEF Absent, Holdings, NULL
  <2>4. QED
    BY <1>11, <2>2, <2>3 DEF Reset
<1>12. CASE UNCHANGED vars
  BY <1>12 DEF vars
<1>13. QED
  BY <1>1, <1>2, <1>3, <1>4, <1>5, <1>6, <1>8, <1>9, <1>10, <1>11, <1>12 DEF Next, Running

\* Every variable keeps its type in every behaviour: heap words never outgrow
\* their 32 bits and the break never passes the end of the memory mem_init()
\* got, whatever the client does.
THEOREM TypeCorrect == Spec => []TypeOK
BY InitTypeOK, NextTypeOK, PTL DEF Spec

-----------------------------------------------------------------------------
(* The picture of the heap.                                                *)

Bin(h, p)    == get_freelist_index(Total(h, p))
Footer(h, p) == get_footer(h, p, get_header(h, p))

\* A block with n bytes of data at p is within the heap.
Fits(h, p, n) ==
  /\ p \in Nat /\ p >= 8 /\ p % 8 = 0
  /\ n \in Nat /\ n >= 16 /\ n % 8 = 0
  /\ p + n + 4 <= h.brk

\* The blocks F are those of the free lists, each in the list of its bin, in the
\* order of their ranks.
Listed(h, F, rank) ==
  /\ \A i \in Bins : LET first == h.freelist[i] IN
       first = NULL \/ (first \in F /\ Bin(h, first) = i /\ Prev(h, first) = NULL)
  /\ \A p \in F :
       /\ rank[p] \in Nat /\ Footer(h, p) = get_header(h, p)
       /\ LET next == Next_(h, p) IN
            next = NULL \/ (next \in F /\ Bin(h, next) = Bin(h, p) /\ Prev(h, next) = p /\ rank[p] < rank[next])
       /\ LET prev == Prev(h, p) IN
            \/ prev = NULL /\ h.freelist[Bin(h, p)] = p
            \/ prev \in F /\ Next_(h, prev) = p

-----------------------------------------------------------------------------
(* Lists, as far as they do not depend on where things are in memory.      *)

\* The block p is taken out of its list.
Unlinked(h, g, F, p) ==
  /\ g.freelist = IF Prev(h, p) = NULL THEN [h.freelist EXCEPT ![Bin(h, p)] = Next_(h, p)] ELSE h.freelist
  /\ \A q \in F \ {p} :
       /\ get_header(g, q) = get_header(h, q) /\ Footer(g, q) = Footer(h, q)
       /\ Next_(g, q) = IF q = Prev(h, p) THEN Next_(h, p) ELSE Next_(h, q)
       /\ Prev(g, q)  = IF q = Next_(h, p) THEN Prev(h, p) ELSE Prev(h, q)

\* The rest of a list is a list.
LEMMA UnlinkedListed ==
  ASSUME NEW h, NEW g, NEW F, NEW rank, NEW p \in F, NULL \notin F, h.freelist \in [Bins -> Int],
         \A q \in F : Bin(h, q) \in Bins,
         Listed(h, F, rank), Unlinked(h, g, F, p)
  PROVE  Listed(g, F \ {p}, rank)
<1>1. \A q \in F \ {p} : Bin(g, q) = Bin(h, q)
  BY DEF Unlinked, Bin, Total
<1>. DEFINE next == Next_(h, p)
            prev == Prev(h, p)
<1>2. /\ next = NULL \/ (next \in F \ {p} /\ Bin(h, next) = Bin(h, p) /\ Prev(h, next) = p /\ rank[p] < rank[next])
      /\ prev = NULL \/ (prev \in F \ {p} /\ Next_(h, prev) = p /\ Bin(h, prev) = Bin(h, p) /\ rank[prev] < rank[p])
      /\ prev # NULL => prev # next
      /\ prev = NULL => h.freelist[Bin(h, p)] = p
  BY DEF Listed, NULL
<1>3. ASSUME NEW i \in Bins
      PROVE  LET first == g.freelist[i] IN
               first = NULL \/ (first \in F \ {p} /\ Bin(g, first) = i /\ Prev(g, first) = NULL)
  <2>1. CASE prev = NULL /\ i = Bin(h, p)
    BY <1>1, <1>2, <2>1 DEF Unlinked
  <2>2. CASE ~(prev = NULL /\ i = Bin(h, p))
    <3>1. g.freelist[i] = h.freelist[i]
      BY <2>2 DEF Unlinked
    <3>2. h.freelist[i] # p
      BY <1>2, <2>2 DEF Listed
    <3>3. h.freelist[i] # NULL => h.freelist[i] # next
      BY <1>2 DEF Listed, NULL
    <3>. QED
      BY <1>1, <3>1, <3>2, <3>3 DEF Unlinked, Listed
  <2>. QED
    BY <2>1, <2>2
<1>4. ASSUME NEW q \in F \ {p}
      PROVE  LET n == Next_(g, q) IN
               n = NULL \/ (n \in F \ {p} /\ Bin(g, n) = Bin(g, q) /\ Prev(g, n) = q /\ rank[q] < rank[n])
  <2>1. CASE q = prev
    BY <1>1, <1>2, <2>1 DEF Unlinked, Listed
  <2>2. CASE q # prev
    <3>1. Next_(g, q) = Next_(h, q)
      BY <2>2 DEF Unlinked
    <3>2. Next_(h, q) # p
      BY <2>2 DEF Listed, NULL
    <3>3. Next_(h, q) # NULL => Next_(h, q) # next
      BY <1>2 DEF Listed, NULL
    <3>. QED
      BY <1>1, <3>1, <3>2, <3>3 DEF Unlinked, Listed
  <2>. QED
    BY <2>1, <2>2
<1>5. ASSUME NEW q \in F \ {p}
      PROVE  LET r == Prev(g, q) IN
               \/ r = NULL /\ g.freelist[Bin(g, q)] = q
               \/ r \in F \ {p} /\ Next_(g, r) = q
  <2>1. CASE q = next
    BY <1>1, <1>2, <2>1 DEF Unlinked, Listed
  <2>2. CASE q # next
    <3>1. Prev(g, q) = Prev(h, q)
      BY <2>2 DEF Unlinked
    <3>2. Prev(h, q) # p
      BY <2>2 DEF Listed, NULL
    <3>3. Prev(h, q) # NULL => Prev(h, q) # prev
      BY <1>2 DEF Listed, NULL
    <3>4. CASE Prev(h, q) = NULL
      <4>1. h.freelist[Bin(h, q)] = q
        BY <3>4 DEF Listed, NULL
      <4>2. g.freelist[Bin(h, q)] = q
        BY <1>2, <4>1 DEF Unlinked
      <4>. QED
        BY <1>1, <3>1, <3>4, <4>2
    <3>5. CASE Prev(h, q) # NULL
      <4>1. Prev(h, q) \in F \ {p} /\ Next_(h, Prev(h, q)) = q
        BY <3>2, <3>5 DEF Listed
      <4>. QED
        BY <3>1, <3>3, <3>5, <4>1 DEF Unlinked
    <3>. QED
      BY <3>4, <3>5
  <2>. QED
    BY <2>1, <2>2
<1>6. \A q \in F \ {p} : rank[q] \in Nat /\ Footer(g, q) = get_header(g, q)
  BY DEF Listed, Unlinked
<1>. QED
  BY <1>3, <1>4, <1>5, <1>6 DEF Listed

\* The block p, with its header and its footer, becomes the first of its list.
Pushed(h, g, F, p) ==
  LET first == h.freelist[Bin(g, p)] IN
  /\ g.freelist = [h.freelist EXCEPT ![Bin(g, p)] = p]
  /\ \A q \in F :
       /\ get_header(g, q) = get_header(h, q) /\ Footer(g, q) = Footer(h, q)
       /\ Next_(g, q) = Next_(h, q)
       /\ Prev(g, q)  = IF q = first THEN p ELSE Prev(h, q)
  /\ Prev(g, p) = NULL /\ Next_(g, p) = first /\ Footer(g, p) = get_header(g, p)

\* A block pushed in front of a list makes a list.
LEMMA PushedListed ==
  ASSUME NEW h, NEW g, NEW F, NEW rank, NEW p, p \notin F, NULL \notin F, p # NULL, h.freelist \in [Bins -> Int],
         Bin(g, p) \in Bins, \A q \in F : Bin(h, q) \in Bins,
         Listed(h, F, rank), Pushed(h, g, F, p)
  PROVE  \E new : Listed(g, F \cup {p}, new)
<1>. DEFINE first == h.freelist[Bin(g, p)]
            G     == F \cup {p}
            new   == [q \in G |-> IF q = p THEN 0 ELSE rank[q] + 1]
<1>1. \A q \in F : Bin(g, q) = Bin(h, q) /\ rank[q] \in Nat /\ new[q] = rank[q] + 1
  BY DEF Pushed, Bin, Total, Listed
<1>2. new[p] = 0
  OBVIOUS
<1>3. first = NULL \/ (first \in F /\ Bin(h, first) = Bin(g, p) /\ Prev(h, first) = NULL)
  BY DEF Listed
<1>. HIDE DEF new
<1>4. ASSUME NEW i \in Bins
      PROVE  LET f == g.freelist[i] IN
               f = NULL \/ (f \in G /\ Bin(g, f) = i /\ Prev(g, f) = NULL)
  <2>1. CASE i = Bin(g, p)
    BY <2>1 DEF Pushed
  <2>2. CASE i # Bin(g, p)
    <3>1. g.freelist[i] = h.freelist[i]
      BY <2>2 DEF Pushed
    <3>2. h.freelist[i] # NULL => h.freelist[i] # first
      BY <1>3, <2>2 DEF Listed
    <3>. QED
      BY <1>1, <3>1, <3>2 DEF Pushed, Listed
  <2>. QED
    BY <2>1, <2>2
<1>5. ASSUME NEW q \in G
      PROVE  LET n == Next_(g, q) IN
               n = NULL \/ (n \in G /\ Bin(g, n) = Bin(g, q) /\ Prev(g, n) = q /\ new[q] < new[n])
  <2>1. CASE q = p
    BY <1>1, <1>2, <1>3, <2>1 DEF Pushed
  <2>2. CASE q \in F
    <3>1. Next_(g, q) = Next_(h, q)
      BY <2>2 DEF Pushed
    <3>2. Next_(h, q) # NULL => Next_(h, q) # first
      BY <1>3, <2>2 DEF Listed, NULL
    <3>3. CASE Next_(h, q) # NULL
      <4>1. /\ Next_(h, q) \in F /\ Bin(h, Next_(h, q)) = Bin(h, q) /\ Prev(h, Next_(h, q)) = q
            /\ rank[q] < rank[Next_(h, q)]
        BY <2>2, <3>3 DEF Listed
      <4>2. new[q] < new[Next_(h, q)]
        BY <1>1, <2>2, <4>1
      <4>3. Prev(g, Next_(h, q)) = q
        BY <3>2, <3>3, <4>1 DEF Pushed
      <4>. QED
        BY <1>1, <2>2, <3>1, <4>1, <4>2, <4>3
    <3>. QED
      BY <3>1, <3>3
  <2>. QED
    BY <2>1, <2>2
<1>6. ASSUME NEW q \in G
      PROVE  LET r == Prev(g, q) IN
               \/ r = NULL /\ g.freelist[Bin(g, q)] = q
               \/ r \in G /\ Next_(g, r) = q
  <2>1. CASE q = p
    BY <2>1 DEF Pushed
  <2>2. CASE q \in F /\ q = first
    BY <2>2 DEF Pushed
  <2>3. CASE q \in F /\ q # first
    <3>1. Prev(g, q) = Prev(h, q)
      BY <2>3 DEF Pushed
    <3>2. CASE Prev(h, q) = NULL
      <4>1. h.freelist[Bin(h, q)] = q
        BY <2>3, <3>2 DEF Listed, NULL
      <4>2. Bin(h, q) # Bin(g, p)
        BY <2>3, <4>1
      <4>. QED
        BY <1>1, <2>3, <3>1, <3>2, <4>1, <4>2 DEF Pushed
    <3>3. CASE Prev(h, q) # NULL
      BY <2>3, <3>1, <3>3 DEF Pushed, Listed
    <3>. QED
      BY <3>2, <3>3
  <2>. QED
    BY <2>1, <2>2, <2>3
<1>7. \A q \in G : new[q] \in Nat /\ Footer(g, q) = get_header(g, q)
  BY <1>1, <1>2 DEF Listed, Pushed
<1>8. Listed(g, G, new)
  BY <1>4, <1>5, <1>6, <1>7 DEF Listed
<1>. QED
  BY <1>8

\* Lists stay as they are where nothing of them is written.
Kept(h, g, q) ==
  /\ get_header(g, q) = get_header(h, q) /\ Footer(g, q) = Footer(h, q)
  /\ Next_(g, q) = Next_(h, q) /\ Prev(g, q) = Prev(h, q)

\* Lists whose blocks keep their tags and links are as they were.
LEMMA KeptListed ==
  ASSUME NEW h, NEW g, NEW F, NEW rank, Listed(h, F, rank), g.freelist = h.freelist,
         \A q \in F : Kept(h, g, q)
  PROVE  Listed(g, F, rank)
<1>1. \A q \in F : Bin(g, q) = Bin(h, q)
  BY DEF Kept, Bin, Total
<1>. QED
  BY <1>1 DEF Listed, Kept

-----------------------------------------------------------------------------
(* Words, and the blocks they belong to.                                   *)

\* The tags and links of a block are words of the heap.
LEMMA BlockWords ==
  ASSUME NEW h \in Heaps, NEW p, NEW n, Fits(h, p, n)
  PROVE  /\ p \in Nat /\ n \in Nat /\ h.brk \in Nat /\ h.brk <= MAX_HEAP
         /\ \A a \in {p - 4, p, p + 4, p + 8, p + 12, p + n} : a \in Words /\ a + 4 <= h.brk /\ 4 <= a
<1>1. p \in Nat /\ n \in Nat /\ h.brk \in Nat /\ h.brk <= MAX_HEAP /\ MAX_HEAP \in Nat
  BY HeapAssumption DEF Fits, Heaps
<1>2. p >= 8 /\ n >= 16 /\ p + n + 4 <= h.brk
  BY DEF Fits
<1>3. (p - 4) % 4 = 0 /\ p % 4 = 0 /\ (p + 4) % 4 = 0 /\ (p + 8) % 4 = 0 /\ (p + 12) % 4 = 0 /\ (p + n) % 4 = 0
  BY <1>1 DEF Fits
<1>4. \A a \in {p - 4, p, p + 4, p + 8, p + 12, p + n} : a \in Int /\ 4 <= a /\ a + 4 <= h.brk /\ a % 4 = 0
  BY <1>1, <1>2, <1>3
<1>. QED
  BY <1>1, <1>4 DEF Words

\* What the header of a block says is its size, 32 bits wide, and has a bin.
LEMMA HeaderIs ==
  ASSUME NEW h \in Heaps, NEW p, Fits(h, p, get_header(h, p))
  PROVE  /\ h.mem[p - 4] = get_header(h, p)
         /\ Total(h, p) = get_header(h, p) + 8 /\ Total(h, p) \in Totals
         /\ get_header(h, p) \in Uint32 /\ Total(h, p) \in Uint32 /\ Total(h, p) <= MAX_HEAP
         /\ mask_size(get_header(h, p)) = get_header(h, p) /\ mask_size(Total(h, p)) = Total(h, p)
         /\ Bin(h, p) \in Bins /\ BinFloor(Bin(h, p)) <= Total(h, p)
         /\ Footer(h, p) = unmask_size(h.mem[p + get_header(h, p)])
<1>. DEFINE n == get_header(h, p)
<1>1. p - 4 \in Words /\ p + n \in Words /\ n \in Nat /\ p \in Nat /\ h.brk \in Nat /\ h.brk <= MAX_HEAP
  BY BlockWords
<1>2. n >= 16 /\ n % 8 = 0 /\ p >= 8 /\ p + n + 4 <= h.brk
  BY DEF Fits
<1>3. Total(h, p) = n + 8
  BY <1>1 DEF Total, HEADER_SIZE, FOOTER_SIZE
<1>4. n + 8 <= MAX_HEAP /\ MAX_HEAP \in Nat /\ 2 * MAX_HEAP < MAX_BLOCK_SIZE /\ MAX_BLOCK_SIZE \in Nat
  BY <1>1, <1>2, HeapAssumption, MaxBlockSize
<1>5. n + 8 \in Totals
  <2>1. (n + 8) % 8 = 0
    BY <1>1, <1>2
  <2>. QED
    BY <1>1, <1>2, <1>4, <2>1 DEF Totals
<1>6. h.mem[p - 4] = n
  BY <1>1, <1>2, <1>4 DEF get_header, unmask_size, Load, HEADER_SIZE
<1>7. mask_size(n) = n /\ mask_size(n + 8) = n + 8 /\ n \in Uint32 /\ n + 8 \in Uint32
  BY <1>1, <1>4 DEF mask_size, Uint32
<1>8. Bin(h, p) \in Bins /\ BinFloor(Bin(h, p)) <= Total(h, p)
  BY <1>3, <1>5, BinExists DEF Bin
<1>9. Footer(h, p) = unmask_size(h.mem[p + n])
  BY <1>1 DEF Footer, get_footer, Load
<1>. QED
  BY <1>3, <1>4, <1>5, <1>6, <1>7, <1>8, <1>9

\* The heap as the allocator keeps it.  Its first word stays zero.
Sound(h) == h \in Heaps /\ h.wild = FALSE /\ h.brk >= 4 /\ h.brk % 8 = 4 /\ h.mem[0] = 0

\* No two of the blocks share a byte.
Apart(h, S) ==
  /\ \A p \in S : Fits(h, p, get_header(h, p))
  /\ \A p, q \in S : p < q => p + Total(h, p) <= q

Region(h, p)    == {w \in Words : p - 4 <= w /\ w <= p + get_header(h, p)}
Intact(h, g, p) == \A w \in Region(h, p) : g.mem[w] = h.mem[w]
Links(p)        == {p, p + 4, p + 8, p + 12}

\* Two blocks share no word.
LEMMA RegionsDiffer ==
  ASSUME NEW h, Sound(h), NEW S, Apart(h, S), NEW p \in S, NEW q \in S, p # q
  PROVE  Region(h, p) \cap Region(h, q) = {}
<1>1. p \in Nat /\ q \in Nat /\ get_header(h, p) \in Nat /\ get_header(h, q) \in Nat
  BY DEF Apart, Fits
<1>2. Total(h, p) = get_header(h, p) + 8 /\ Total(h, q) = get_header(h, q) + 8
  BY <1>1 DEF Total, HEADER_SIZE, FOOTER_SIZE
<1>3. p + get_header(h, p) + 8 <= q \/ q + get_header(h, q) + 8 <= p
  <2>1. CASE p < q
    BY <1>1, <1>2, <2>1 DEF Apart
  <2>2. CASE q < p
    BY <1>1, <1>2, <2>2 DEF Apart
  <2>. QED
    BY <1>1, <2>1, <2>2
<1>. QED
  BY <1>1, <1>3 DEF Region, Words

\* The tags and links of a block are its own words.
LEMMA RegionHas ==
  ASSUME NEW h, Sound(h), NEW p, Fits(h, p, get_header(h, p))
  PROVE  /\ Links(p) \subseteq Region(h, p)
         /\ p - 4 \in Region(h, p) /\ p + get_header(h, p) \in Region(h, p)
         /\ p - 4 \notin Links(p) /\ p + get_header(h, p) \notin Links(p)
         /\ p + get_header(h, p) # p - 4
         /\ \A w \in Region(h, p) : w \in Words /\ w >= 4 /\ w + 4 <= h.brk
<1>1. /\ p \in Nat /\ get_header(h, p) \in Nat /\ h.brk \in Nat
      /\ \A a \in {p - 4, p, p + 4, p + 8, p + 12, p + get_header(h, p)} : a \in Words
  BY BlockWords DEF Sound
<1>2. get_header(h, p) >= 16 /\ p >= 8 /\ p + get_header(h, p) + 4 <= h.brk
  BY DEF Fits
<1>. QED
  BY <1>1, <1>2 DEF Region, Links, Words

\* What an intact block has kept
LEMMA IntactKept ==
  ASSUME NEW h, Sound(h), NEW g \in Heaps, NEW p, Fits(h, p, get_header(h, p)), Intact(h, g, p)
  PROVE  Kept(h, g, p)
<1>. DEFINE n == get_header(h, p)
<1>1. \A a \in {p - 4, p, p + 8, p + n} : a \in Words /\ g.mem[a] = h.mem[a]
  BY RegionHas DEF Intact, Links, Region
<1>2. get_header(g, p) = n
  BY <1>1 DEF get_header, Load, HEADER_SIZE
<1>. HIDE DEF n
<1>3. Footer(g, p) = Footer(h, p)
  BY <1>1, <1>2 DEF Footer, get_footer, Load, n
<1>. QED
  BY <1>1, <1>2, <1>3 DEF Kept, Prev, Next_, Load, n

-----------------------------------------------------------------------------
(* Stores.                                                                 *)

Stored(h, g, a, v) ==
  /\ g \in Heaps /\ g.wild = h.wild /\ g.brk = h.brk /\ g.freelist = h.freelist
  /\ \A w \in Words : g.mem[w] = IF w = a THEN v ELSE h.mem[w]

\* A store within the heap changes one word.
LEMMA StoreIs ==
  ASSUME NEW h \in Heaps, NEW a \in Words, a + 4 <= h.brk, NEW v \in Uint32
  PROVE  Stored(h, Store(h, a, v), a, v)
<1>1. mask_size(v) = v /\ v \in Int
  BY MaxBlockSize DEF mask_size, Uint32
<1>2. Store(h, a, v) = [h EXCEPT !.mem[a] = v]
  BY <1>1 DEF Store
<1>3. Store(h, a, v) \in Heaps
  BY <1>1, StoreType
<1>. QED
  BY <1>2, <1>3 DEF Stored, Heaps

\* A pointer takes two.
LEMMA StorePtrIs ==
  ASSUME NEW h \in Heaps, NEW a \in Words, a + 4 \in Words, a + 8 <= h.brk, NEW v \in Uint32
  PROVE  LET g == StorePtr(h, a, v) IN
         /\ g \in Heaps /\ g.wild = h.wild /\ g.brk = h.brk /\ g.freelist = h.freelist
         /\ \A w \in Words : g.mem[w] = IF w = a THEN v ELSE IF w = a + 4 THEN 0 ELSE h.mem[w]
<1>. DEFINE m == Store(h, a, v)
            g == Store(m, a + 4, 0)
<1>0. a \in Int /\ h.brk \in Int /\ a + 4 <= h.brk /\ (a + 4) + 4 <= h.brk
  BY DEF Words, Heaps
<1>1. Stored(h, m, a, v)
  BY <1>0, StoreIs
<1>2. Stored(m, g, a + 4, 0)
  <2>1. 0 \in Uint32
    BY MaxBlockSize DEF Uint32
  <2>2. m \in Heaps /\ (a + 4) + 4 <= m.brk
    BY <1>0, <1>1 DEF Stored
  <2>. HIDE DEF m
  <2>. QED
    BY <2>1, <2>2, StoreIs
<1>3. a # a + 4
  BY <1>0
<1>4. StorePtr(h, a, v) = g
  BY DEF StorePtr
<1>. HIDE DEF m, g
<1>. QED
  BY <1>1, <1>2, <1>3, <1>4 DEF Stored

-----------------------------------------------------------------------------
(* Free-list operations on the heap.                                       *)

\* g is h with other words, at most those of W.
Wrote(h, g, W) ==
  /\ g \in Heaps /\ g.wild = h.wild /\ g.brk = h.brk
  /\ \A w \in Words : w \notin W => g.mem[w] = h.mem[w]

\* The links of a block in a list are the words at its start.
LEMMA ListedLinks ==
  ASSUME NEW h, Sound(h), NEW F, Apart(h, F), NEW rank, Listed(h, F, rank), NEW p \in F
  PROVE  /\ Prev(h, p) = h.mem[p] /\ Next_(h, p) = h.mem[p + 8]
         /\ Prev(h, p) \in Uint32 /\ Next_(h, p) \in Uint32
         /\ Prev(h, p) # NULL => Prev(h, p) # Next_(h, p)
<1>1. p \in Words /\ p + 8 \in Words
  BY BlockWords DEF Apart, Sound
<1>2. Prev(h, p) = h.mem[p] /\ Next_(h, p) = h.mem[p + 8]
  BY <1>1 DEF Prev, Next_, Load
<1>3. Prev(h, p) \in Uint32 /\ Next_(h, p) \in Uint32
  BY <1>1, <1>2 DEF Sound, Heaps
<1>4. ASSUME Prev(h, p) # NULL, Prev(h, p) = Next_(h, p) PROVE FALSE
  <2>. DEFINE r == Prev(h, p)
  <2>1. r \in F /\ Next_(h, r) = p /\ rank[p] < rank[r]
    BY <1>4 DEF Listed
  <2>2. rank[r] < rank[p]
    <3>1. p # NULL
      BY DEF Apart, Fits, NULL
    <3>. HIDE DEF r
    <3>. QED
      BY <2>1, <3>1 DEF Listed
  <2>3. rank[r] \in Nat /\ rank[p] \in Nat
    <3>. HIDE DEF r
    <3>. QED
      BY <2>1 DEF Listed
  <2>. QED
    BY <2>1, <2>2, <2>3
<1>. QED
  BY <1>2, <1>3, <1>4

\* What remove_free_list() writes
LEMMA RemoveWrites ==
  ASSUME NEW h, Sound(h), NEW F, Apart(h, F), NEW rank, Listed(h, F, rank), NEW p \in F
  PROVE  LET g    == remove_free_list(h, p)
             next == Next_(h, p)
             prev == Prev(h, p)
         IN  /\ g \in Heaps /\ g.wild = FALSE /\ g.brk = h.brk
             /\ g.freelist = IF prev = NULL THEN [h.freelist EXCEPT ![Bin(h, p)] = next] ELSE h.freelist
             /\ \A w \in Words : g.mem[w] = IF next # NULL /\ w = next THEN prev
                                            ELSE IF next # NULL /\ w = next + 4 THEN 0
                                            ELSE IF prev # NULL /\ w = prev + 8 THEN next
                                            ELSE IF prev # NULL /\ w = prev + 12 THEN 0
                                            ELSE h.mem[w]
<1>. DEFINE next == Next_(h, p)
            prev == Prev(h, p)
            fwd  == IF next # NULL THEN SetPrev(h, next, prev) ELSE h
            g    == remove_free_list(h, p)
            bin  == Bin(h, p)
<1>1. /\ next \in Uint32 /\ prev \in Uint32
      /\ next # NULL => next \in F
      /\ prev # NULL => prev \in F /\ prev # next
  BY ListedLinks DEF Listed
<1>2. \A q \in F : /\ q \in Words /\ q + 4 \in Words /\ q + 8 \in Words /\ q + 12 \in Words
                   /\ q + 8 <= h.brk /\ (q + 8) + 8 <= h.brk /\ (q + 8) + 4 = q + 12
  BY BlockWords DEF Apart, Sound, Words
<1>3. bin \in Bins /\ get_freelist_index(mask_size(Total(h, p))) = bin
  BY HeaderIs DEF Bin, Apart, Sound
<1>4. h \in Heaps /\ h.wild = FALSE
  BY DEF Sound
<1>. HIDE DEF next, prev, bin
<1>5. /\ fwd \in Heaps /\ fwd.wild = FALSE /\ fwd.brk = h.brk /\ fwd.freelist = h.freelist
      /\ \A w \in Words : fwd.mem[w] = IF next # NULL /\ w = next THEN prev
                                       ELSE IF next # NULL /\ w = next + 4 THEN 0 ELSE h.mem[w]
  <2>1. CASE next = NULL
    BY <1>4, <2>1
  <2>2. CASE next # NULL
    <3>1. next \in Words /\ next + 4 \in Words /\ next + 8 <= h.brk
      BY <1>1, <1>2, <2>2
    <3>2. fwd = StorePtr(h, next, prev)
      BY <2>2 DEF SetPrev
    <3>3. /\ fwd \in Heaps /\ fwd.wild = h.wild /\ fwd.brk = h.brk /\ fwd.freelist = h.freelist
          /\ \A w \in Words : fwd.mem[w] = IF w = next THEN prev ELSE IF w = next + 4 THEN 0 ELSE h.mem[w]
      <4>. HIDE DEF fwd
      <4>. QED
        BY <1>1, <1>4, <3>1, <3>2, StorePtrIs
    <3>. QED
      BY <1>4, <2>2, <3>3
  <2>. QED
    BY <2>1, <2>2
<1>6. g = IF prev = NULL THEN SetRoot(fwd, bin, next) ELSE SetNext(fwd, prev, next)
  BY <1>3 DEF remove_free_list, next, prev
<1>. HIDE DEF fwd, g
<1>7. CASE prev = NULL
  <2>1. g = [fwd EXCEPT !.freelist[bin] = next]
    BY <1>3, <1>6, <1>7 DEF SetRoot
  <2>2. g \in Heaps
    BY <1>1, <1>3, <1>5, <1>6, <1>7, SetRootType DEF Uint32
  <2>3. g.wild = FALSE /\ g.brk = h.brk /\ g.mem = fwd.mem /\ g.freelist = [h.freelist EXCEPT ![bin] = next]
    BY <1>5, <2>1 DEF Heaps
  <2>. QED
    BY <1>5, <1>7, <2>2, <2>3 DEF next, prev, bin, g
<1>8. CASE prev # NULL
  <2>1. /\ g \in Heaps /\ g.wild = FALSE /\ g.brk = h.brk /\ g.freelist = h.freelist
        /\ \A w \in Words : g.mem[w] = IF w = prev + 8 THEN next ELSE IF w = (prev + 8) + 4 THEN 0 ELSE fwd.mem[w]
    <3>1. prev + 8 \in Words /\ (prev + 8) + 4 \in Words /\ (prev + 8) + 8 <= fwd.brk
      BY <1>1, <1>2, <1>5, <1>8
    <3>2. g = StorePtr(fwd, prev + 8, next)
      BY <1>6, <1>8 DEF SetNext
    <3>. QED
      BY <1>1, <1>5, <3>1, <3>2, StorePtrIs
  <2>2. prev \in F /\ prev # next /\ (prev + 8) + 4 = prev + 12
    BY <1>1, <1>2, <1>8
  <2>3. ASSUME next # NULL
        PROVE  {prev + 8, prev + 12} \cap {next, next + 4} = {}
    <3>1. Region(h, prev) \cap Region(h, next) = {}
      BY <1>1, <2>2, <2>3, RegionsDiffer
    <3>2. Links(prev) \subseteq Region(h, prev) /\ Links(next) \subseteq Region(h, next)
      BY <1>1, <2>2, <2>3, RegionHas DEF Apart
    <3>. QED
      BY <3>1, <3>2 DEF Links
  <2>. QED
    BY <1>5, <1>8, <2>1, <2>2, <2>3 DEF next, prev, bin, g
<1>. QED
  BY <1>7, <1>8

\* remove_free_list() leaves the lists without the block.
LEMMA RemoveIs ==
  ASSUME NEW h, Sound(h), NEW F, Apart(h, F), NEW rank, Listed(h, F, rank), NEW p \in F
  PROVE  LET g == remove_free_list(h, p) IN
         /\ Wrote(h, g, UNION {Links(q) : q \in F \ {p}})
         /\ Listed(g, F \ {p}, rank)
<1>. DEFINE g    == remove_free_list(h, p)
            next == Next_(h, p)
            prev == Prev(h, p)
<1>1. /\ g \in Heaps /\ g.wild = FALSE /\ g.brk = h.brk
      /\ g.freelist = IF prev = NULL THEN [h.freelist EXCEPT ![Bin(h, p)] = next] ELSE h.freelist
      /\ \A w \in Words : g.mem[w] = IF next # NULL /\ w = next THEN prev
                                     ELSE IF next # NULL /\ w = next + 4 THEN 0
                                     ELSE IF prev # NULL /\ w = prev + 8 THEN next
                                     ELSE IF prev # NULL /\ w = prev + 12 THEN 0
                                     ELSE h.mem[w]
  BY RemoveWrites
<1>2. /\ next # NULL => next \in F \ {p}
      /\ prev # NULL => prev \in F \ {p} /\ prev # next
  <2>1. p # NULL /\ rank[p] \in Nat
    BY DEF Apart, Fits, NULL, Listed
  <2>2. next # p
    BY <2>1 DEF Listed
  <2>3. prev # p
    BY <2>1, <2>2 DEF Listed
  <2>. QED
    BY <2>2, <2>3, ListedLinks DEF Listed
<1>. HIDE DEF g
<1>3. Wrote(h, g, UNION {Links(q) : q \in F \ {p}})
  <2>1. next # NULL => next \in Links(next) /\ next + 4 \in Links(next)
    BY DEF Links
  <2>2. prev # NULL => prev + 8 \in Links(prev) /\ prev + 12 \in Links(prev)
    BY DEF Links
  <2>. HIDE DEF next, prev
  <2>. QED
    BY <1>1, <1>2, <2>1, <2>2 DEF Wrote, Sound
<1>4. ASSUME NEW q \in F \ {p}
      PROVE  /\ get_header(g, q) = get_header(h, q) /\ Footer(g, q) = Footer(h, q)
             /\ Next_(g, q) = IF q = prev THEN next ELSE Next_(h, q)
             /\ Prev(g, q)  = IF q = next THEN prev ELSE Prev(h, q)
  <2>. DEFINE n == get_header(h, q)
  <2>1. /\ Links(q) \subseteq Region(h, q) /\ q - 4 \in Region(h, q) /\ q + n \in Region(h, q)
        /\ q - 4 \notin Links(q) /\ q + n \notin Links(q) /\ Region(h, q) \subseteq Words
    BY RegionHas DEF Apart
  <2>2. ASSUME NEW r \in F \ {p}, r # q
        PROVE  Region(h, q) \cap Links(r) = {}
    BY <2>2, RegionsDiffer, RegionHas DEF Apart
  <2>3. g.mem[q - 4] = h.mem[q - 4] /\ g.mem[q + n] = h.mem[q + n]
    BY <1>2, <1>3, <2>1, <2>2 DEF Wrote
  <2>4. get_header(g, q) = n
    BY <2>1, <2>3 DEF get_header, Load, HEADER_SIZE
  <2>. HIDE DEF n
  <2>5. Footer(g, q) = Footer(h, q)
    BY <2>1, <2>3, <2>4 DEF Footer, get_footer, Load, n
  <2>6. q \in Words /\ q + 8 \in Words /\ q # q + 8 /\ q # q + 12 /\ q # q + 4 /\ q + 8 # q + 4
    BY <2>1 DEF Links, Words
  <2>7. Next_(g, q) = g.mem[q + 8] /\ Prev(g, q) = g.mem[q] /\ Next_(h, q) = h.mem[q + 8] /\ Prev(h, q) = h.mem[q]
    BY <2>6 DEF Next_, Prev, Load
  <2>8. {q, q + 8} \subseteq Region(h, q) /\ \A r : {r, r + 4, r + 8, r + 12} = Links(r)
    BY <2>1 DEF Links
  <2>9. g.mem[q + 8] = IF q = prev THEN next ELSE h.mem[q + 8]
    <3>1. next # NULL => q + 8 # next /\ q + 8 # next + 4
      BY <1>2, <2>2, <2>6, <2>8
    <3>2. q # prev /\ prev # NULL => q + 8 # prev + 8 /\ q + 8 # prev + 12
      BY <1>2, <2>2, <2>8
    <3>3. q = prev => prev # NULL
      BY DEF Apart, Fits, NULL
    <3>. HIDE DEF next, prev
    <3>. QED
      BY <1>1, <2>6, <3>1, <3>2, <3>3
  <2>10. g.mem[q] = IF q = next THEN prev ELSE h.mem[q]
    <3>1. q # next /\ next # NULL => q # next /\ q # next + 4
      BY <1>2, <2>2, <2>8
    <3>2. prev # NULL => q # prev + 8 /\ q # prev + 12
      BY <1>2, <2>2, <2>6, <2>8
    <3>3. q = next => next # NULL
      BY DEF Apart, Fits, NULL
    <3>4. next # NULL /\ q = next => q # next + 4
      BY <2>6
    <3>. HIDE DEF next, prev
    <3>. QED
      BY <1>1, <2>6, <3>1, <3>2, <3>3, <3>4
  <2>. QED
    BY <2>4, <2>5, <2>7, <2>9, <2>10 DEF n
<1>5. Unlinked(h, g, F, p)
  BY <1>1, <1>4 DEF Unlinked
<1>6. NULL \notin F /\ h.freelist \in [Bins -> Int] /\ \A q \in F : Bin(h, q) \in Bins
  <2>1. \A q \in F : Bin(h, q) \in Bins
    BY HeaderIs DEF Apart, Sound
  <2>. QED
    BY <2>1 DEF Apart, Fits, NULL, Sound, Heaps
<1>7. Listed(g, F \ {p}, rank)
  BY <1>5, <1>6, UnlinkedListed
<1>. QED
  BY <1>3, <1>7 DEF g

\* An address fits a pointer.
LEMMA PointersFit ==
  ASSUME NEW h, Sound(h), NEW S, Apart(h, S), NEW p \in S
  PROVE  /\ p \in Uint32 /\ p # NULL /\ p \in Int
         /\ p \in Words /\ p + 4 \in Words /\ p + 8 \in Words /\ (p + 8) + 4 \in Words
         /\ p + 8 <= h.brk /\ (p + 8) + 8 <= h.brk /\ (p + 8) + 4 = p + 12
<1>1. /\ p \in Nat /\ h.brk \in Nat /\ h.brk <= MAX_HEAP /\ p + 4 <= h.brk /\ (p + 12) + 4 <= h.brk /\ p # 0
      /\ p \in Words /\ p + 4 \in Words /\ p + 8 \in Words /\ p + 12 \in Words /\ (p + 8) + 4 = p + 12
  BY BlockWords DEF Apart, Sound, Fits
<1>2. p \in Uint32
  BY <1>1, HeapAssumption, MaxBlockSize DEF Uint32
<1>. QED
  BY <1>1, <1>2 DEF NULL

\* What add_free_list() writes, and the list it makes
LEMMA AddIs ==
  ASSUME NEW h, Sound(h), NEW F, NEW p, p \notin F, Apart(h, F \cup {p}), NEW rank, Listed(h, F, rank)
  PROVE  LET g == add_free_list(h, p) IN
         /\ Wrote(h, g, Links(p) \cup {p + get_header(h, p)} \cup UNION {Links(q) : q \in F})
         /\ \E new : Listed(g, F \cup {p}, new)
<1>. DEFINE n     == get_header(h, p)
            bin   == Bin(h, p)
            first == h.freelist[bin]
            f     == set_footer(h, p, n, n)
            back  == IF first # NULL THEN SetPrev(f, first, p) ELSE f
            own   == SetPrev(back, p, NULL)
            both  == SetNext(own, p, first)
            g     == add_free_list(h, p)
<1>1. /\ bin \in Bins /\ n \in Uint32 /\ n \in Nat /\ mask_size(n) = n
      /\ mask_size(n + HEADER_SIZE + FOOTER_SIZE) = Total(h, p)
  BY HeaderIs DEF Apart, Sound, Fits, Total
<1>2. first \in Int /\ (first = NULL \/ first \in F)
  BY <1>1 DEF Listed, Sound, Heaps
<1>3. first \in Uint32
  <2>1. NULL \in Uint32
    BY MaxBlockSize DEF Uint32, NULL
  <2>. HIDE DEF first
  <2>. QED
    BY <1>2, <2>1, PointersFit
<1>4. p + n \in Words /\ (p + n) + 4 <= h.brk /\ h \in Heaps /\ h.wild = FALSE
  BY BlockWords DEF Apart, Sound
<1>5. Stored(h, f, p + n, n)
  <2>1. f = Store(h, p + n, n)
    BY DEF set_footer
  <2>. HIDE DEF f, n
  <2>. QED
    BY <1>1, <1>4, <2>1, StoreIs
<1>6. Root(f, bin) = first
  BY <1>1, <1>5 DEF Root, Stored
<1>7. g = SetRoot(both, bin, p)
  <2>1. g = add_to_free_list(f, p, bin)
    BY <1>1 DEF add_free_list, Bin
  <2>. HIDE DEF f, bin, first, g
  <2>. QED
    BY <1>6, <2>1 DEF add_to_free_list
<1>. DEFINE m == p + n
<1>. HIDE DEF f, bin, g, n, m
<1>8. \A q \in F \cup {p} : /\ q \in Uint32 /\ q \in Int /\ q # NULL /\ q \in Words /\ q + 4 \in Words /\ q + 8 \in Words /\ (q + 8) + 4 \in Words
                            /\ q + 8 <= h.brk /\ (q + 8) + 8 <= h.brk /\ (q + 8) + 4 = q + 12
  BY PointersFit
<1>9. /\ back \in Heaps /\ back.wild = FALSE /\ back.brk = h.brk /\ back.freelist = h.freelist
      /\ \A w \in Words : back.mem[w] = IF first # NULL /\ w = first THEN p
                                        ELSE IF first # NULL /\ w = first + 4 THEN 0
                                        ELSE IF w = m THEN n ELSE h.mem[w]
  <2>1. CASE first = NULL
    BY <1>4, <1>5, <2>1 DEF Stored, m
  <2>2. CASE first # NULL
    <3>1. first \in Words /\ first + 4 \in Words /\ first + 8 <= f.brk /\ f \in Heaps /\ p \in Uint32
      BY <1>2, <1>5, <1>8, <2>2 DEF Stored
    <3>2. back = StorePtr(f, first, p)
      BY <2>2 DEF SetPrev
    <3>. HIDE DEF back, first
    <3>3. /\ back \in Heaps /\ back.wild = f.wild /\ back.brk = f.brk /\ back.freelist = f.freelist
          /\ \A w \in Words : back.mem[w] = IF w = first THEN p ELSE IF w = first + 4 THEN 0 ELSE f.mem[w]
      BY <3>1, <3>2, StorePtrIs
    <3>. QED
      BY <1>4, <1>5, <2>2, <3>3 DEF Stored, m
  <2>. QED
    BY <2>1, <2>2
<1>. HIDE DEF back, first
<1>10. /\ own \in Heaps /\ own.wild = FALSE /\ own.brk = h.brk /\ own.freelist = h.freelist
       /\ \A w \in Words : own.mem[w] = IF w = p THEN 0 ELSE IF w = p + 4 THEN 0 ELSE back.mem[w]
  <2>1. p \in Words /\ p + 4 \in Words /\ p + 8 <= back.brk /\ NULL \in Uint32
    BY <1>8, <1>9, MaxBlockSize DEF Uint32, NULL
  <2>2. own = StorePtr(back, p, NULL)
    BY DEF SetPrev
  <2>. HIDE DEF own
  <2>3. /\ own \in Heaps /\ own.wild = back.wild /\ own.brk = back.brk /\ own.freelist = back.freelist
        /\ \A w \in Words : own.mem[w] = IF w = p THEN NULL ELSE IF w = p + 4 THEN 0 ELSE back.mem[w]
    BY <1>9, <2>1, <2>2, StorePtrIs
  <2>. QED
    BY <1>9, <2>3 DEF NULL
<1>. HIDE DEF own
<1>11. /\ both \in Heaps /\ both.wild = FALSE /\ both.brk = h.brk /\ both.freelist = h.freelist
       /\ \A w \in Words : both.mem[w] = IF w = p + 8 THEN first ELSE IF w = p + 12 THEN 0 ELSE own.mem[w]
  <2>1. p + 8 \in Words /\ (p + 8) + 4 \in Words /\ (p + 8) + 8 <= own.brk /\ (p + 8) + 4 = p + 12
    BY <1>8, <1>10
  <2>2. both = StorePtr(own, p + 8, first)
    BY DEF SetNext
  <2>. HIDE DEF both
  <2>3. /\ both \in Heaps /\ both.wild = own.wild /\ both.brk = own.brk /\ both.freelist = own.freelist
        /\ \A w \in Words : both.mem[w] = IF w = p + 8 THEN first ELSE IF w = (p + 8) + 4 THEN 0 ELSE own.mem[w]
    BY <1>3, <1>10, <2>1, <2>2, StorePtrIs
  <2>. QED
    BY <1>10, <2>1, <2>3
<1>. HIDE DEF both
<1>12. g \in Heaps
  BY <1>7, <1>8, <1>11, SetRootType
<1>13. g = [both EXCEPT !.freelist[bin] = p]
  BY <1>1, <1>7 DEF SetRoot
<1>14. g.wild = FALSE /\ g.brk = h.brk /\ g.mem = both.mem /\ g.freelist = [h.freelist EXCEPT ![bin] = p]
  BY <1>11, <1>13 DEF Heaps
<1>15. \A w \in Words : g.mem[w] = IF w = p + 8 THEN first
                                            ELSE IF w = p + 12 \/ w = p \/ w = p + 4 THEN 0
                                            ELSE IF first # NULL /\ w = first THEN p
                                            ELSE IF first # NULL /\ w = first + 4 THEN 0
                                            ELSE IF w = m THEN n
                                            ELSE h.mem[w]
  BY <1>9, <1>10, <1>11, <1>14
<1>. USE DEF n, bin, first
<1>21. /\ g \in Heaps /\ g.wild = FALSE /\ g.brk = h.brk
       /\ g.freelist = [h.freelist EXCEPT ![bin] = p]
       /\ \A w \in Words : g.mem[w] = IF w = p + 8 THEN first
                                      ELSE IF w = p + 12 \/ w = p \/ w = p + 4 THEN 0
                                      ELSE IF first # NULL /\ w = first THEN p
                                      ELSE IF first # NULL /\ w = first + 4 THEN 0
                                      ELSE IF w = p + n THEN n
                                      ELSE h.mem[w]
  <2>. HIDE DEF n, bin, first
  <2>. QED
    BY <1>12, <1>14, <1>15 DEF m
<1>22. /\ (bin \in Bins /\ first = NULL) \/ (first \in F /\ Prev(h, first) = NULL)
      /\ bin \in Bins
      /\ \A q \in F : Bin(h, q) \in Bins
  BY HeaderIs DEF Apart, Sound, Listed
<1>23. Wrote(h, g, Links(p) \cup {p + n} \cup UNION {Links(q) : q \in F})
  <2>1. first # NULL => first \in Links(first) /\ first + 4 \in Links(first)
    BY DEF Links
  <2>2. {p, p + 4, p + 8, p + 12} = Links(p)
    BY DEF Links
  <2>. HIDE DEF first, n, bin
  <2>. QED
    BY <1>21, <1>22, <2>1, <2>2 DEF Wrote, Sound
<1>24. ASSUME NEW q \in F \cup {p}, NEW r \in F \cup {p}, q # r
      PROVE  Region(h, q) \cap Region(h, r) = {}
  BY <1>24, RegionsDiffer
<1>25. ASSUME NEW q \in F \cup {p}
      PROVE  /\ Links(q) \subseteq Region(h, q)
             /\ q - 4 \in Region(h, q) /\ q + get_header(h, q) \in Region(h, q)
             /\ q - 4 \notin Links(q) /\ q + get_header(h, q) \notin Links(q)
             /\ q + get_header(h, q) # q - 4
             /\ Region(h, q) \subseteq Words
  BY RegionHas DEF Apart
<1>26. ASSUME NEW q \in F
      PROVE  /\ get_header(g, q) = get_header(h, q) /\ Footer(g, q) = Footer(h, q)
             /\ Next_(g, q) = Next_(h, q)
             /\ Prev(g, q)  = IF q = first THEN p ELSE Prev(h, q)
  <2>. DEFINE k == get_header(h, q)
  <2>1. /\ Region(h, q) \cap Links(p) = {} /\ p + n \notin Region(h, q)
        /\ \A r \in F : r # q => Region(h, q) \cap Links(r) = {}
    BY <1>24, <1>25
  <2>2. g.mem[q - 4] = h.mem[q - 4] /\ g.mem[q + k] = h.mem[q + k]
    BY <1>23, <1>25, <2>1 DEF Wrote
  <2>3. get_header(g, q) = k /\ q - 4 \in Words /\ q + k \in Words
    BY <1>25, <2>2 DEF get_header, Load, HEADER_SIZE
  <2>. HIDE DEF k
  <2>4. Footer(g, q) = Footer(h, q)
    BY <2>2, <2>3 DEF Footer, get_footer, Load, k
  <2>5. /\ q \in Words /\ q + 8 \in Words /\ {q, q + 8} \subseteq Region(h, q) /\ q # q + 8 /\ q # q + 4 /\ q + 8 # q + 4
        /\ q # NULL
    BY <1>25, PointersFit DEF Links, Words
  <2>6. Next_(g, q) = g.mem[q + 8] /\ Prev(g, q) = g.mem[q] /\ Next_(h, q) = h.mem[q + 8] /\ Prev(h, q) = h.mem[q]
    BY <2>5 DEF Next_, Prev, Load
  <2>7. \A r : {r, r + 4, r + 8, r + 12} = Links(r)
    BY DEF Links
  <2>8. /\ q # p + 8 /\ q # p + 12 /\ q # p /\ q # p + 4 /\ q # p + n
        /\ q + 8 # p + 8 /\ q + 8 # p + 12 /\ q + 8 # p /\ q + 8 # p + 4 /\ q + 8 # p + n
    BY <2>1, <2>5, <2>7
  <2>9. first # NULL => q # first + 4 /\ q + 8 # first /\ q + 8 # first + 4
    <3>1. first # NULL => first \in F
      BY <1>22
    <3>. HIDE DEF first
    <3>. QED
      BY <2>1, <2>5, <2>7, <3>1
  <2>10. g.mem[q + 8] = h.mem[q + 8]
    <3>. HIDE DEF first, n
    <3>. QED
      BY <1>21, <2>5, <2>8, <2>9
  <2>11. g.mem[q] = IF q = first THEN p ELSE h.mem[q]
    <3>. HIDE DEF first, n
    <3>. QED
      BY <1>21, <2>5, <2>8, <2>9
  <2>. QED
    BY <2>3, <2>4, <2>6, <2>10, <2>11 DEF k
<1>27. get_header(g, p) = n
  <2>1. p - 4 \in Words /\ p - 4 \notin Links(p) /\ p - 4 # p + n
    BY <1>25
  <2>2. \A r \in F : p - 4 \notin Links(r)
    BY <1>24, <1>25
  <2>3. g.mem[p - 4] = h.mem[p - 4]
    BY <1>23, <2>1, <2>2 DEF Wrote
  <2>. QED
    BY <2>1, <2>3 DEF get_header, Load, HEADER_SIZE
<1>28. Prev(g, p) = NULL /\ Next_(g, p) = first /\ Footer(g, p) = get_header(g, p)
  <2>1. p \in Words /\ p + 8 \in Words /\ p + n \in Words /\ p # p + 8 /\ p + n \notin {p, p + 4, p + 8, p + 12}
    BY <1>25, PointersFit DEF Links
  <2>2. first # NULL => p + n # first /\ p + n # first + 4
    <3>1. first # NULL => first \in F
      BY <1>22
    <3>2. \A r \in F : p + n \notin Links(r)
      BY <1>24, <1>25
    <3>. HIDE DEF first
    <3>. QED
      BY <3>1, <3>2 DEF Links
  <2>3. g.mem[p] = 0 /\ g.mem[p + 8] = first /\ g.mem[p + n] = n
    <3>. HIDE DEF first, n
    <3>. QED
      BY <1>21, <2>1, <2>2
  <2>4. n # 0
    BY DEF Apart, Fits
  <2>. HIDE DEF n
  <2>. QED
    BY <1>27, <2>1, <2>3, <2>4 DEF Prev, Next_, Footer, get_footer, Load, NULL, unmask_size
<1>29. Bin(g, p) = bin
  BY <1>27 DEF Bin, Total
<1>30. Pushed(h, g, F, p)
  BY <1>21, <1>26, <1>28, <1>29 DEF Pushed
<1>31. NULL \notin F /\ p # NULL /\ h.freelist \in [Bins -> Int] /\ Bin(g, p) \in Bins
  <2>1. \A q \in F \cup {p} : q # NULL
    BY PointersFit
  <2>. QED
    BY <1>22, <1>29, <2>1 DEF Sound, Heaps
<1>32. \E new : Listed(g, F \cup {p}, new)
  <2>1. \A q \in F : Bin(h, q) \in Bins
    BY <1>22
  <2>. QED
    BY <1>30, <1>31, <2>1, PushedListed
<1>. QED
  BY <1>23, <1>32 DEF g

-----------------------------------------------------------------------------
(* The blocks of the heap, as their headers lay them out.                  *)

\* The blocks B lie one behind the other, from the start of the heap to its end.
Covered(h, B) ==
  /\ 8 \in B \cup {h.brk + 4}
  /\ \A p \in B : p + Total(h, p) \in B \cup {h.brk + 4}
  /\ \A p \in B \cup {h.brk + 4} : p = 8 \/ \E q \in B : q + Total(h, q) = p

Laid(h, B, F, rank) ==
  /\ Sound(h) /\ Apart(h, B) /\ Covered(h, B)
  /\ F \subseteq B /\ Listed(h, F, rank)

\* Where a block is, and how large
LEMMA BlockIs ==
  ASSUME NEW h, Sound(h), NEW B, Apart(h, B), NEW p \in B
  PROVE  /\ p \in Nat /\ get_header(h, p) \in Nat /\ h.brk \in Nat
         /\ Total(h, p) = get_header(h, p) + 8 /\ Total(h, p) \in Nat
         /\ p >= 8 /\ p % 8 = 0 /\ get_header(h, p) >= 16 /\ get_header(h, p) % 8 = 0
         /\ p + get_header(h, p) + 4 <= h.brk
  BY DEF Sound, Heaps, Apart, Fits, Total, HEADER_SIZE, FOOTER_SIZE

\* Headers that stay leave the blocks where they are.
LEMMA HeadersStay ==
  ASSUME NEW h, Sound(h), NEW B, Apart(h, B), Covered(h, B), NEW W, NEW g, Wrote(h, g, W),
         0 \notin W, \A q \in B : q - 4 \notin W
  PROVE  /\ Sound(g) /\ Apart(g, B) /\ Covered(g, B)
         /\ \A q \in B : get_header(g, q) = get_header(h, q) /\ Total(g, q) = Total(h, q)
<1>1. \A q \in B : get_header(g, q) = get_header(h, q)
  <2>. TAKE q \in B
  <2>1. q - 4 \in Words
    BY RegionHas DEF Apart, Region
  <2>. QED
    BY <2>1 DEF Wrote, get_header, Load, HEADER_SIZE
<1>2. \A q \in B : Total(g, q) = Total(h, q)
  BY <1>1 DEF Total
<1>3. Sound(g)
  <2>1. 0 \in Words
    BY HeapAssumption DEF Words, ALIGNMENT, INIT_OFFSET
  <2>. QED
    BY <2>1 DEF Sound, Wrote
<1>4. Apart(g, B)
  BY <1>1, <1>2 DEF Apart, Fits, Wrote
<1>5. Covered(g, B)
  BY <1>2 DEF Covered, Wrote
<1>. QED
  BY <1>1, <1>2, <1>3, <1>4, <1>5

\* Two blocks become one.
LEMMA BlocksMerged ==
  ASSUME NEW h, Sound(h), NEW B, Apart(h, B), Covered(h, B), NEW g, g.brk = h.brk,
         NEW p \in B, NEW q \in B, q = p + Total(h, p),
         get_header(g, p) = get_header(h, p) + Total(h, q),
         \A r \in B \ {p, q} : get_header(g, r) = get_header(h, r)
  PROVE  Apart(g, B \ {q}) /\ Covered(g, B \ {q})
<1>1. \A r \in B : /\ r \in Nat /\ get_header(h, r) \in Nat /\ Total(h, r) = get_header(h, r) + 8
                   /\ r >= 8 /\ r % 8 = 0 /\ get_header(h, r) >= 16 /\ get_header(h, r) % 8 = 0
                   /\ r + get_header(h, r) + 4 <= h.brk
  BY BlockIs
<1>2. h.brk \in Nat
  BY BlockIs
<1>3. Total(g, p) = Total(h, p) + Total(h, q) /\ p # q
  BY <1>1 DEF Total, HEADER_SIZE, FOOTER_SIZE
<1>4. \A r \in B \ {p, q} : Total(g, r) = Total(h, r)
  BY DEF Total
<1>5. \A r \in B \ {q} : Fits(g, r, get_header(g, r))
  <2>. TAKE r \in B \ {q}
  <2>1. CASE r # p
    BY <1>1, <2>1 DEF Fits
  <2>2. CASE r = p
    <3>1. get_header(g, p) \in Nat /\ get_header(g, p) >= 16 /\ get_header(g, p) % 8 = 0
      BY <1>1
    <3>2. p + get_header(g, p) + 4 <= h.brk
      BY <1>1, <1>2
    <3>. QED
      BY <1>1, <2>2, <3>1, <3>2 DEF Fits
  <2>. QED
    BY <2>1, <2>2
<1>6. ASSUME NEW r \in B \ {q}, NEW s \in B \ {q}, r < s
      PROVE  r + Total(g, r) <= s
  <2>1. r + Total(h, r) <= s
    BY <1>6 DEF Apart
  <2>2. CASE r # p
    BY <1>4, <2>1, <2>2
  <2>3. CASE r = p
    <3>1. q < s
      BY <1>1, <1>6, <2>1, <2>3
    <3>2. q + Total(h, q) <= s
      BY <3>1 DEF Apart
    <3>. QED
      BY <1>1, <1>3, <2>3, <3>2
  <2>. QED
    BY <2>2, <2>3
<1>7. \A r \in B \ {q} : r + Total(g, r) \in (B \ {q}) \cup {h.brk + 4}
  <2>. TAKE r \in B \ {q}
  <2>1. CASE r = p
    <3>1. r + Total(g, r) = q + Total(h, q)
      BY <1>1, <1>3, <2>1
    <3>2. q + Total(h, q) # q
      BY <1>1
    <3>. QED
      BY <3>1, <3>2 DEF Covered
  <2>2. CASE r # p
    <3>1. r + Total(h, r) # q
      <4>. SUFFICES ASSUME r + Total(h, r) = q PROVE FALSE
        OBVIOUS
      <4>1. r < p => r + Total(h, r) <= p
        BY DEF Apart
      <4>2. p < r => q <= r
        BY DEF Apart
      <4>. QED
        BY <1>1, <2>2, <4>1, <4>2
    <3>. QED
      BY <1>4, <2>2, <3>1 DEF Covered
  <2>. QED
    BY <2>1, <2>2
<1>8. 8 \in (B \ {q}) \cup {h.brk + 4}
  BY <1>1 DEF Covered
<1>9. ASSUME NEW r \in (B \ {q}) \cup {h.brk + 4}, r # 8
      PROVE  \E s \in B \ {q} : s + Total(g, s) = r
  <2>1. PICK s \in B : s + Total(h, s) = r
    BY <1>9 DEF Covered
  <2>2. CASE s = q
    BY <1>1, <1>3, <2>1, <2>2
  <2>3. CASE s # q
    <3>1. s # p
      <4>1. h.brk + 4 # q
        BY <1>1, <1>2
      <4>. QED
        BY <2>1, <4>1
    <3>. QED
      BY <1>4, <2>1, <2>3, <3>1
  <2>. QED
    BY <2>2, <2>3
<1>10. Covered(g, B \ {q})
  BY <1>7, <1>8, <1>9 DEF Covered
<1>. QED
  BY <1>5, <1>6, <1>10 DEF Apart

\* One block becomes two.
LEMMA BlockSplit ==
  ASSUME NEW h, Sound(h), NEW B, Apart(h, B), Covered(h, B), NEW g, g.brk = h.brk,
         NEW p \in B, NEW n \in Nat, n >= 24, n % 8 = 0, n + 24 <= Total(h, p),
         get_header(g, p) = n - 8, get_header(g, p + n) = Total(h, p) - n - 8,
         \A r \in B \ {p} : get_header(g, r) = get_header(h, r)
  PROVE  Apart(g, B \cup {p + n}) /\ Covered(g, B \cup {p + n}) /\ p + n \notin B
<1>. DEFINE e == p + n
<1>1. \A r \in B : /\ r \in Nat /\ get_header(h, r) \in Nat /\ Total(h, r) = get_header(h, r) + 8
                   /\ r >= 8 /\ r % 8 = 0 /\ get_header(h, r) >= 16 /\ get_header(h, r) % 8 = 0
                   /\ r + get_header(h, r) + 4 <= h.brk
  BY BlockIs
<1>2. h.brk \in Nat
  BY BlockIs
<1>3. Total(g, p) = n /\ Total(g, e) = Total(h, p) - n /\ e \in Nat
  BY <1>1 DEF Total, HEADER_SIZE, FOOTER_SIZE
<1>4. \A r \in B \ {p} : Total(g, r) = Total(h, r)
  BY DEF Total
<1>5. p < e /\ e + Total(g, e) = p + Total(h, p) /\ e < p + Total(h, p)
  BY <1>1, <1>3
<1>6. e \notin B
  <2>. SUFFICES ASSUME e \in B PROVE FALSE
    OBVIOUS
  <2>1. p + Total(h, p) <= e
    BY <1>5 DEF Apart
  <2>. QED
    BY <1>1, <1>5, <2>1
<1>7. \A r \in B \cup {e} : Fits(g, r, get_header(g, r))
  <2>. TAKE r \in B \cup {e}
  <2>1. CASE r \in B /\ r # p
    BY <1>1, <2>1 DEF Fits
  <2>2. CASE r = p
    <3>1. n - 8 \in Nat /\ n - 8 >= 16 /\ (n - 8) % 8 = 0 /\ p + (n - 8) + 4 <= h.brk
      BY <1>1, <1>2
    <3>. QED
      BY <1>1, <2>2, <3>1 DEF Fits
  <2>3. CASE r = e
    <3>1. get_header(g, e) \in Nat /\ get_header(g, e) >= 16 /\ get_header(g, e) % 8 = 0 /\ e + get_header(g, e) + 4 <= h.brk
      BY <1>1, <1>2
    <3>2. e >= 8 /\ e % 8 = 0
      BY <1>1
    <3>. QED
      BY <1>3, <2>3, <3>1, <3>2 DEF Fits
  <2>. QED
    BY <2>1, <2>2, <2>3
<1>. HIDE DEF e
<1>8. ASSUME NEW r \in B \cup {e}, NEW s \in B \cup {e}, r < s
      PROVE  r + Total(g, r) <= s
  <2>1. CASE r \in B /\ s \in B
    <3>1. r + Total(h, r) <= s
      BY <1>8, <2>1 DEF Apart
    <3>. QED
      BY <1>1, <1>3, <1>4, <2>1, <3>1
  <2>2. CASE r \in B /\ s = e
    <3>1. CASE r = p
      BY <1>1, <1>3, <2>2, <3>1 DEF e
    <3>2. CASE r # p
      <4>1. r < p
        <5>1. ~(p < r)
          <6>. SUFFICES ASSUME p < r PROVE FALSE
            OBVIOUS
          <6>1. p + Total(h, p) <= r
            BY <2>2 DEF Apart
          <6>. QED
            BY <1>1, <1>3, <1>5, <1>8, <2>2, <6>1
        <5>. QED
          BY <1>1, <2>2, <3>2, <5>1
      <4>2. r + Total(h, r) <= p
        BY <2>2, <4>1 DEF Apart
      <4>. QED
        BY <1>1, <1>3, <1>4, <1>5, <2>2, <3>2, <4>2
    <3>. QED
      BY <3>1, <3>2
  <2>3. CASE r = e /\ s \in B
    <3>1. p < s
      BY <1>1, <1>3, <1>5, <1>8, <2>3
    <3>2. p + Total(h, p) <= s
      BY <2>3, <3>1 DEF Apart
    <3>. QED
      BY <1>5, <2>3, <3>2
  <2>4. CASE r = e /\ s = e
    BY <1>3, <1>8, <2>4
  <2>. QED
    BY <2>1, <2>2, <2>3, <2>4
<1>9. \A r \in B \cup {e} : r + Total(g, r) \in B \cup {e} \cup {h.brk + 4}
  BY <1>3, <1>4, <1>5 DEF Covered, e
<1>10. ASSUME NEW r \in B \cup {e} \cup {h.brk + 4}, r # 8
       PROVE  \E s \in B \cup {e} : s + Total(g, s) = r
  <2>1. CASE r = e
    BY <1>3, <2>1 DEF e
  <2>2. CASE r \in B \cup {h.brk + 4}
    <3>1. PICK s \in B : s + Total(h, s) = r
      BY <1>10, <2>2 DEF Covered
    <3>. QED
      BY <1>4, <1>5, <3>1
  <2>. QED
    BY <2>1, <2>2
<1>11. Covered(g, B \cup {e})
  BY <1>9, <1>10 DEF Covered
<1>. QED
  BY <1>6, <1>7, <1>8, <1>11 DEF Apart, e

\* A block is added at the end of the heap.
LEMMA BlockAppended ==
  ASSUME NEW h, Sound(h), NEW B, Apart(h, B), Covered(h, B), NEW g, NEW n \in Nat, n >= 24, n % 8 = 0,
         g.brk = h.brk + n, get_header(g, h.brk + 4) = n - 8,
         \A r \in B : get_header(g, r) = get_header(h, r)
  PROVE  Apart(g, B \cup {h.brk + 4}) /\ Covered(g, B \cup {h.brk + 4}) /\ h.brk + 4 \notin B
<1>. DEFINE e == h.brk + 4
<1>1. \A r \in B : /\ r \in Nat /\ get_header(h, r) \in Nat /\ Total(h, r) = get_header(h, r) + 8
                   /\ r >= 8 /\ r % 8 = 0 /\ get_header(h, r) >= 16 /\ get_header(h, r) % 8 = 0
                   /\ r + get_header(h, r) + 4 <= h.brk
  BY BlockIs
<1>2. h.brk \in Nat /\ h.brk >= 4 /\ h.brk % 8 = 4
  BY DEF Sound, Heaps
<1>3. Total(g, e) = n /\ e \in Nat /\ e + Total(g, e) = g.brk + 4 /\ e >= 8 /\ e % 8 = 0
  BY <1>2 DEF Total, HEADER_SIZE, FOOTER_SIZE
<1>4. \A r \in B : Total(g, r) = Total(h, r) /\ r + Total(h, r) <= e
  BY <1>1, <1>2 DEF Total
<1>5. \A r \in B \cup {e} : Fits(g, r, get_header(g, r))
  <2>. TAKE r \in B \cup {e}
  <2>1. CASE r \in B
    BY <1>1, <1>2, <2>1 DEF Fits
  <2>2. CASE r = e
    <3>1. n - 8 \in Nat /\ n - 8 >= 16 /\ (n - 8) % 8 = 0 /\ e + (n - 8) + 4 <= g.brk
      BY <1>2
    <3>. HIDE DEF e
    <3>. QED
      BY <1>3, <2>2, <3>1 DEF Fits, e
  <2>. QED
    BY <2>1, <2>2
<1>. HIDE DEF e
<1>6. ASSUME NEW r \in B \cup {e}, NEW s \in B \cup {e}, r < s
      PROVE  r + Total(g, r) <= s
  <2>1. CASE r \in B /\ s \in B
    BY <1>4, <1>6, <2>1 DEF Apart
  <2>2. CASE r \in B /\ s = e
    BY <1>4, <2>2
  <2>3. CASE r = e
    <3>1. \A t \in B : t < e
      BY <1>1, <1>3, <1>4
    <3>. QED
      BY <1>1, <1>3, <1>6, <2>3, <3>1
  <2>. QED
    BY <2>1, <2>2, <2>3
<1>7. e \notin B
  <2>. SUFFICES ASSUME e \in B PROVE FALSE
    OBVIOUS
  <2>. QED
    BY <1>1, <1>3, <1>4
<1>8. \A r \in B \cup {e} : r + Total(g, r) \in B \cup {e} \cup {g.brk + 4}
  BY <1>3, <1>4 DEF Covered, e
<1>9. ASSUME NEW r \in B \cup {e} \cup {g.brk + 4}, r # 8
      PROVE  \E s \in B \cup {e} : s + Total(g, s) = r
  <2>1. CASE r = g.brk + 4
    BY <1>3, <2>1
  <2>2. CASE r \in B \cup {e}
    <3>1. PICK s \in B : s + Total(h, s) = r
      BY <1>9, <2>2 DEF Covered, e
    <3>. QED
      BY <1>4, <3>1
  <2>. QED
    BY <2>1, <2>2
<1>10. Covered(g, B \cup {e})
  <2>1. 8 \in B \cup {e}
    BY DEF Covered, e
  <2>. QED
    BY <1>8, <1>9, <2>1 DEF Covered
<1>. QED
  BY <1>5, <1>6, <1>7, <1>10 DEF Apart, e

\* The last block grows with the heap.
LEMMA BlockExtended ==
  ASSUME NEW h, Sound(h), NEW B, Apart(h, B), Covered(h, B), NEW g, NEW n \in Nat, n % 8 = 0,
         NEW p \in B, p + Total(h, p) = h.brk + 4,
         g.brk = h.brk + n, get_header(g, p) = get_header(h, p) + n,
         \A r \in B \ {p} : get_header(g, r) = get_header(h, r)
  PROVE  Apart(g, B) /\ Covered(g, B) /\ p + Total(g, p) = g.brk + 4
<1>1. \A r \in B : /\ r \in Nat /\ get_header(h, r) \in Nat /\ Total(h, r) = get_header(h, r) + 8
                   /\ r >= 8 /\ r % 8 = 0 /\ get_header(h, r) >= 16 /\ get_header(h, r) % 8 = 0
                   /\ r + get_header(h, r) + 4 <= h.brk
  BY BlockIs
<1>2. h.brk \in Nat
  BY BlockIs
<1>3. Total(g, p) = Total(h, p) + n /\ p + Total(g, p) = g.brk + 4
  BY <1>1, <1>2 DEF Total, HEADER_SIZE, FOOTER_SIZE
<1>4. \A r \in B \ {p} : Total(g, r) = Total(h, r)
  BY DEF Total
<1>5. \A r \in B : ~(p < r)
  <2>. SUFFICES ASSUME NEW r \in B, p < r PROVE FALSE
    OBVIOUS
  <2>1. p + Total(h, p) <= r
    BY DEF Apart
  <2>. QED
    BY <1>1, <1>2, <2>1
<1>6. \A r \in B : Fits(g, r, get_header(g, r))
  <2>. TAKE r \in B
  <2>1. CASE r # p
    BY <1>1, <1>2, <2>1 DEF Fits
  <2>2. CASE r = p
    <3>1. get_header(g, p) \in Nat /\ get_header(g, p) >= 16 /\ get_header(g, p) % 8 = 0 /\ p + get_header(g, p) + 4 <= g.brk
      BY <1>1, <1>2
    <3>. QED
      BY <1>1, <2>2, <3>1 DEF Fits
  <2>. QED
    BY <2>1, <2>2
<1>7. \A r, s \in B : r < s => r + Total(g, r) <= s
  BY <1>4, <1>5 DEF Apart
<1>8. \A r \in B : r + Total(g, r) \in B \cup {g.brk + 4}
  <2>. TAKE r \in B
  <2>1. CASE r = p
    BY <1>3, <2>1
  <2>2. CASE r # p
    <3>1. r < p
      <4>1. r \in Nat /\ p \in Nat /\ ~(p < r)
        BY <1>1, <1>5
      <4>. QED
        BY <2>2, <4>1
    <3>2. r + Total(h, r) <= p
      BY <3>1 DEF Apart
    <3>3. r + Total(h, r) # h.brk + 4
      BY <1>1, <1>2, <3>2
    <3>. QED
      BY <1>4, <2>2, <3>3 DEF Covered
  <2>. QED
    BY <2>1, <2>2
<1>9. ASSUME NEW r \in B \cup {g.brk + 4}, r # 8
      PROVE  \E s \in B : s + Total(g, s) = r
  <2>1. CASE r = g.brk + 4
    BY <1>3, <2>1
  <2>2. CASE r \in B
    <3>1. PICK s \in B : s + Total(h, s) = r
      BY <1>9, <2>2 DEF Covered
    <3>2. r # h.brk + 4
      BY <1>1, <1>2, <2>2
    <3>3. s # p
      BY <3>1, <3>2
    <3>. QED
      BY <1>4, <3>1, <3>3
  <2>. QED
    BY <2>1, <2>2
<1>10. 8 \in B \cup {g.brk + 4}
  <2>1. 8 \in B
    <3>1. 8 = h.brk + 4 => FALSE
      BY <1>1, <1>2
    <3>. QED
      BY <3>1 DEF Covered
  <2>. QED
    BY <2>1
<1>11. Covered(g, B)
  BY <1>8, <1>9, <1>10 DEF Covered
<1>. QED
  BY <1>3, <1>6, <1>7, <1>11 DEF Apart

-----------------------------------------------------------------------------
(* Operations on a heap that is laid out.                                  *)

\* A word of one block is of no other.
LEMMA WordsOfBlocks ==
  ASSUME NEW h, Sound(h), NEW B, Apart(h, B), NEW p \in B
  PROVE  /\ Links(p) \subseteq Region(h, p) /\ p - 4 \in Region(h, p) /\ p + get_header(h, p) \in Region(h, p)
         /\ p - 4 \notin Links(p) /\ p + get_header(h, p) \notin Links(p) /\ p + get_header(h, p) # p - 4
         /\ Region(h, p) \subseteq Words /\ 0 \notin Region(h, p)
         /\ \A q \in B \ {p} : Region(h, p) \cap Region(h, q) = {} /\ Region(h, p) \cap Links(q) = {}
<1>1. Fits(h, p, get_header(h, p))
  BY DEF Apart
<1>2. ASSUME NEW q \in B \ {p}
      PROVE  Region(h, p) \cap Region(h, q) = {} /\ Region(h, p) \cap Links(q) = {}
  BY RegionsDiffer, RegionHas DEF Apart
<1>. QED
  BY <1>1, <1>2, RegionHas

\* remove_free_list() on the heap as it is laid out
LEMMA RemoveLaid ==
  ASSUME NEW h, NEW B, NEW F, NEW rank, Laid(h, B, F, rank), NEW p \in F
  PROVE  LET g == remove_free_list(h, p) IN
         /\ Laid(g, B, F \ {p}, rank) /\ g.brk = h.brk
         /\ \A q \in B : get_header(g, q) = get_header(h, q) /\ Total(g, q) = Total(h, q)
         /\ \A q \in (B \ F) \cup {p} : Intact(h, g, q)
<1>. DEFINE g == remove_free_list(h, p)
            W == UNION {Links(q) : q \in F \ {p}}
<1>1. Sound(h) /\ Apart(h, B) /\ Covered(h, B) /\ F \subseteq B /\ Listed(h, F, rank) /\ Apart(h, F)
  BY DEF Laid, Apart
<1>2. Wrote(h, g, W) /\ Listed(g, F \ {p}, rank)
  BY <1>1, RemoveIs
<1>. HIDE DEF g
<1>3. 0 \notin W /\ \A q \in B : q - 4 \notin W
  BY <1>1, WordsOfBlocks
<1>4. /\ Sound(g) /\ Apart(g, B) /\ Covered(g, B)
      /\ \A q \in B : get_header(g, q) = get_header(h, q) /\ Total(g, q) = Total(h, q)
  <2>. HIDE DEF W
  <2>. QED
    BY <1>1, <1>2, <1>3, HeadersStay
<1>5. \A q \in (B \ F) \cup {p} : Region(h, q) \cap W = {}
  BY <1>1, WordsOfBlocks
<1>6. \A q \in (B \ F) \cup {p} : Intact(h, g, q)
  <2>. HIDE DEF W
  <2>. QED
    BY <1>2, <1>5 DEF Intact, Wrote, Region
<1>. QED
  BY <1>1, <1>2, <1>4, <1>6 DEF Laid, Wrote, g

\* add_free_list() on the heap as it is laid out
LEMMA AddLaid ==
  ASSUME NEW h, NEW B, NEW F, NEW rank, Laid(h, B, F, rank), NEW p \in B \ F
  PROVE  LET g == add_free_list(h, p) IN
         /\ \E new : Laid(g, B, F \cup {p}, new)
         /\ g.brk = h.brk
         /\ \A q \in B : get_header(g, q) = get_header(h, q) /\ Total(g, q) = Total(h, q)
         /\ \A q \in B \ (F \cup {p}) : Intact(h, g, q)
<1>. DEFINE g == add_free_list(h, p)
            W == Links(p) \cup {p + get_header(h, p)} \cup UNION {Links(q) : q \in F}
<1>1. /\ Sound(h) /\ Apart(h, B) /\ Covered(h, B) /\ F \subseteq B /\ Listed(h, F, rank)
      /\ Apart(h, F \cup {p}) /\ p \notin F
  BY DEF Laid, Apart
<1>2. Wrote(h, g, W) /\ \E new : Listed(g, F \cup {p}, new)
  BY <1>1, AddIs
<1>. HIDE DEF g
<1>3. 0 \notin W /\ \A q \in B : q - 4 \notin W
  BY <1>1, WordsOfBlocks
<1>4. /\ Sound(g) /\ Apart(g, B) /\ Covered(g, B)
      /\ \A q \in B : get_header(g, q) = get_header(h, q) /\ Total(g, q) = Total(h, q)
  <2>. HIDE DEF W
  <2>. QED
    BY <1>1, <1>2, <1>3, HeadersStay
<1>5. \A q \in B \ (F \cup {p}) : Region(h, q) \cap W = {}
  BY <1>1, WordsOfBlocks
<1>6. \A q \in B \ (F \cup {p}) : Intact(h, g, q)
  <2>. HIDE DEF W
  <2>. QED
    BY <1>2, <1>5 DEF Intact, Wrote, Region
<1>. QED
  BY <1>1, <1>2, <1>4, <1>6 DEF Laid, Wrote, g

\* The parts of the picture
LEMMA LaidApart ==
  ASSUME NEW h, NEW B, NEW F, NEW rank, Laid(h, B, F, rank)
  PROVE  /\ Sound(h) /\ h \in Heaps /\ h.wild = FALSE /\ Apart(h, B) /\ Covered(h, B)
         /\ F \subseteq B /\ Listed(h, F, rank) /\ Apart(h, F)
  BY DEF Laid, Apart, Sound

\* Lists whose blocks are intact are as they were.
LEMMA IntactListed ==
  ASSUME NEW h, Sound(h), NEW F, Apart(h, F), NEW rank, Listed(h, F, rank),
         NEW g \in Heaps, g.freelist = h.freelist, \A q \in F : Intact(h, g, q)
  PROVE  Listed(g, F, rank)
<1>1. \A q \in F : Kept(h, g, q)
  BY IntactKept DEF Apart
<1>. QED
  BY <1>1, KeptListed

\* A block that is in no list may be written, its header excepted.
LEMMA PayloadLaid ==
  ASSUME NEW h, NEW B, NEW F, NEW rank, Laid(h, B, F, rank), NEW p \in B \ F,
         NEW W, W \subseteq Region(h, p) \ {p - 4}, NEW g, Wrote(h, g, W), g.freelist = h.freelist
  PROVE  /\ Laid(g, B, F, rank)
         /\ \A q \in B : get_header(g, q) = get_header(h, q) /\ Total(g, q) = Total(h, q)
         /\ \A q \in B \ {p} : Intact(h, g, q)
<1>1. Sound(h) /\ Apart(h, B) /\ Covered(h, B) /\ F \subseteq B /\ Listed(h, F, rank) /\ Apart(h, F)
  BY LaidApart
<1>2. 0 \notin W /\ \A q \in B : q - 4 \notin W
  BY <1>1, WordsOfBlocks
<1>3. /\ Sound(g) /\ Apart(g, B) /\ Covered(g, B)
      /\ \A q \in B : get_header(g, q) = get_header(h, q) /\ Total(g, q) = Total(h, q)
  BY <1>1, <1>2, HeadersStay
<1>4. \A q \in B \ {p} : Region(h, q) \cap W = {}
  BY <1>1, WordsOfBlocks
<1>5. \A q \in B \ {p} : Intact(h, g, q)
  BY <1>4 DEF Intact, Wrote, Region
<1>6. Listed(g, F, rank)
  BY <1>1, <1>3, <1>5, IntactListed DEF Sound
<1>. QED
  BY <1>1, <1>3, <1>5, <1>6 DEF Laid

\* The header and the footer of a block of n bytes of data
LEMMA TagsAre ==
  ASSUME NEW h \in Heaps, NEW p, NEW n \in Uint32, Fits(h, p, n), NEW v \in Uint32
  PROVE  LET g == set_footer(set_header(h, p, n), p, n, v) IN
         /\ Wrote(h, g, {p - 4, p + n}) /\ g.freelist = h.freelist
         /\ get_header(g, p) = n /\ Footer(g, p) = unmask_size(v)
         /\ p - 4 \in Words /\ p + n \in Words
<1>. DEFINE m == set_header(h, p, n)
            g == set_footer(m, p, n, v)
<1>1. p - 4 \in Words /\ (p - 4) + 4 <= h.brk /\ p + n \in Words /\ (p + n) + 4 <= h.brk /\ p - 4 # p + n /\ n # 0
  <2>1. p - 4 \in Words /\ (p - 4) + 4 <= h.brk /\ p + n \in Words /\ (p + n) + 4 <= h.brk
    BY BlockWords
  <2>2. p \in Nat /\ n \in Nat /\ n >= 16
    BY DEF Fits
  <2>. QED
    BY <2>1, <2>2
<1>2. Stored(h, m, p - 4, n)
  BY <1>1, StoreIs DEF set_header, HEADER_SIZE
<1>3. m \in Heaps /\ (p + n) + 4 <= m.brk
  BY <1>1, <1>2 DEF Stored
<1>4. g = Store(m, p + n, v)
  BY DEF set_footer
<1>. HIDE DEF m, g
<1>5. Stored(m, g, p + n, v)
  BY <1>1, <1>3, <1>4, StoreIs
<1>6. g.mem[p - 4] = n /\ g.mem[p + n] = v
  BY <1>1, <1>2, <1>5 DEF Stored
<1>7. Wrote(h, g, {p - 4, p + n}) /\ g.freelist = h.freelist
  BY <1>2, <1>5 DEF Stored, Wrote
<1>8. get_header(g, p) = n
  BY <1>1, <1>6 DEF get_header, unmask_size, Load, HEADER_SIZE
<1>9. Footer(g, p) = unmask_size(v)
  BY <1>1, <1>6, <1>8 DEF Footer, get_footer, Load
<1>. QED
  BY <1>1, <1>7, <1>8, <1>9 DEF m, g

\* The flag of a block in use is the footer 1.
LEMMA FlagIs == FOOTER_ALLOC_FLAG \in Uint32 /\ unmask_size(FOOTER_ALLOC_FLAG) = 1
<1>1. MAX_BLOCK_SIZE \in Nat /\ MAX_BLOCK_SIZE > 1
  BY MaxBlockSize, HeapAssumption DEF INIT_OFFSET
<1>. QED
  BY <1>1 DEF FOOTER_ALLOC_FLAG, Uint32, unmask_size

\* No size within the heap is cut off.
LEMMA SmallIsUint32 ==
  ASSUME NEW n \in Nat, n <= MAX_HEAP
  PROVE  n \in Uint32 /\ mask_size(n) = n
  BY MaxBlockSize, HeapAssumption DEF Uint32, mask_size

\* Merge() of a block and the one behind it
LEMMA MergeLaid ==
  ASSUME NEW h, NEW B, NEW F, NEW rank, Laid(h, B, F, rank),
         NEW p \in B \ F, NEW q \in B \ F, q = p + Total(h, p),
         NEW n, n = get_header(h, p) + Total(h, q)
  PROVE  LET g == Merge(h, p, n) IN
         /\ Laid(g, B \ {q}, F, rank) /\ g.brk = h.brk /\ p # q
         /\ get_header(g, p) = n /\ p + Total(g, p) = q + Total(h, q)
         /\ \A r \in B \ {p, q} : get_header(g, r) = get_header(h, r) /\ Total(g, r) = Total(h, r)
         /\ \A r \in B \ {p, q} : Intact(h, g, r)
<1>. DEFINE g == Merge(h, p, n)
<1>1. /\ Sound(h) /\ h \in Heaps /\ h.wild = FALSE /\ Apart(h, B) /\ Covered(h, B)
      /\ F \subseteq B /\ Listed(h, F, rank) /\ Apart(h, F)
  BY LaidApart
<1>2. /\ \A r \in {p, q} : /\ r \in Nat /\ get_header(h, r) \in Nat /\ Total(h, r) = get_header(h, r) + 8
                           /\ r >= 8 /\ r % 8 = 0 /\ get_header(h, r) >= 16 /\ get_header(h, r) % 8 = 0
                           /\ r + get_header(h, r) + 4 <= h.brk
      /\ h.brk \in Nat /\ h.brk <= MAX_HEAP /\ MAX_HEAP \in Nat
  BY <1>1, BlockIs, HeapAssumption DEF Heaps
<1>3. Fits(h, p, n) /\ n \in Uint32 /\ p + n = q + get_header(h, q) /\ p # q
  <2>1. n \in Nat /\ n >= 16 /\ n % 8 = 0 /\ p + n + 4 <= h.brk /\ n <= MAX_HEAP
    BY <1>2
  <2>2. n \in Uint32
    BY <2>1, SmallIsUint32
  <2>. QED
    BY <1>2, <2>1, <2>2 DEF Fits
<1>4. /\ Wrote(h, g, {p - 4, p + n}) /\ g.freelist = h.freelist /\ get_header(g, p) = n
  <2>1. g = set_footer(set_header(h, p, n), p, n, n)
    BY DEF Merge
  <2>. HIDE DEF g
  <2>. QED
    BY <1>1, <1>3, <2>1, TagsAre
<1>. HIDE DEF g
<1>5. \A r \in B \ {p, q} : Intact(h, g, r)
  <2>1. p - 4 \in Region(h, p) /\ p + n \in Region(h, q)
    BY <1>1, <1>3, WordsOfBlocks
  <2>2. \A r \in B \ {p, q} : Region(h, r) \cap {p - 4, p + n} = {}
    BY <1>1, <2>1, WordsOfBlocks
  <2>. QED
    BY <1>4, <2>2 DEF Intact, Wrote, Region
<1>6. \A r \in B \ {p, q} : get_header(g, r) = get_header(h, r) /\ Total(g, r) = Total(h, r)
  <2>. TAKE r \in B \ {p, q}
  <2>1. Kept(h, g, r)
    BY <1>1, <1>4, <1>5, IntactKept DEF Apart, Wrote
  <2>. QED
    BY <2>1 DEF Kept, Total
<1>7. Apart(g, B \ {q}) /\ Covered(g, B \ {q})
  <2>1. g.brk = h.brk
    BY <1>4 DEF Wrote
  <2>. QED
    BY <1>1, <1>4, <1>6, <2>1, BlocksMerged
<1>8. Sound(g)
  <2>1. 0 \in Words /\ 0 # p - 4 /\ 0 # p + n
    BY <1>2, <1>3, HeapAssumption DEF Words, ALIGNMENT, INIT_OFFSET
  <2>. QED
    BY <1>1, <1>4, <2>1 DEF Sound, Wrote
<1>9. Listed(g, F, rank)
  BY <1>1, <1>4, <1>5, IntactListed DEF Wrote
<1>10. p + Total(g, p) = q + Total(h, q)
  BY <1>2, <1>3, <1>4 DEF Total, HEADER_SIZE, FOOTER_SIZE
<1>. QED
  BY <1>1, <1>3, <1>4, <1>5, <1>6, <1>7, <1>8, <1>9, <1>10 DEF Laid, Wrote, g

\* No block begins inside another.
LEMMA InsideIsNone ==
  ASSUME NEW h, Sound(h), NEW B, Apart(h, B), NEW p \in B, NEW e \in Nat, p < e, e < p + Total(h, p)
  PROVE  e \notin B
<1>. SUFFICES ASSUME e \in B PROVE FALSE
  OBVIOUS
<1>1. p + Total(h, p) <= e
  BY DEF Apart
<1>2. p + Total(h, p) \in Nat
  BY BlockIs
<1>. QED
  BY <1>1, <1>2

\* split_block() when what remains is a block of its own
LEMMA SplitLaid ==
  ASSUME NEW h, NEW B, NEW F, NEW rank, Laid(h, B, F, rank), NEW p \in B \ F,
         NEW n \in Nat, n >= 24, n % 8 = 0, n + 24 <= Total(h, p)
  PROVE  LET g == split_block(h, p, n)
             e == p + n
         IN  /\ \E new : Laid(g, B \cup {e}, F \cup {e}, new)
             /\ g.brk = h.brk /\ e \notin B
             /\ get_header(g, p) = n - 8 /\ Footer(g, p) = 1 /\ Total(g, p) = n
             /\ e + Total(g, e) = p + Total(h, p)
             /\ \A r \in B \ {p} : get_header(g, r) = get_header(h, r) /\ Total(g, r) = Total(h, r)
             /\ \A r \in B \ (F \cup {p}) : Intact(h, g, r)
<1>. DEFINE k  == Total(h, p) - n - 8
            e  == p + n
            h1 == set_header(h, e, k)
            h2 == add_free_list(h1, e)
            g  == set_footer(set_header(h2, p, n - 8), p, n - 8, FOOTER_ALLOC_FLAG)
<1>1. /\ Sound(h) /\ h \in Heaps /\ h.wild = FALSE /\ Apart(h, B) /\ Covered(h, B)
      /\ F \subseteq B /\ Listed(h, F, rank) /\ Apart(h, F) /\ p \in B /\ p \notin F
  BY LaidApart
<1>2. /\ p \in Nat /\ get_header(h, p) \in Nat /\ Total(h, p) = get_header(h, p) + 8
      /\ p >= 8 /\ p % 8 = 0 /\ get_header(h, p) >= 16 /\ get_header(h, p) % 8 = 0
      /\ p + get_header(h, p) + 4 <= h.brk
      /\ h.brk \in Nat /\ h.brk <= MAX_HEAP /\ MAX_HEAP \in Nat
  BY <1>1, BlockIs, HeapAssumption DEF Heaps
<1>3. split_block(h, p, n) = g
  <2>1. Splittable(Total(h, p) - n)
    BY <1>2 DEF Splittable, MIN_BLOCK_SIZE_ACTUAL
  <2>2. get_header(h, p) - n = k /\ n - HEADER_SIZE - FOOTER_SIZE = n - 8
    BY <1>2 DEF HEADER_SIZE, FOOTER_SIZE
  <2>. QED
    BY <2>1, <2>2 DEF split_block
<1>4. /\ k \in Nat /\ k >= 16 /\ k % 8 = 0 /\ k <= MAX_HEAP /\ e \in Nat /\ e >= 8 /\ e % 8 = 0
      /\ e + k = p + get_header(h, p) /\ p < e /\ e < p + Total(h, p)
      /\ n - 8 \in Nat /\ n - 8 >= 16 /\ (n - 8) % 8 = 0 /\ n - 8 <= MAX_HEAP /\ p + (n - 8) + 4 <= h.brk
  BY <1>2
<1>5. Fits(h, e, k) /\ k \in Uint32 /\ Fits(h, p, n - 8) /\ n - 8 \in Uint32
  BY <1>2, <1>4, SmallIsUint32 DEF Fits
<1>6. e \notin B
  BY <1>1, <1>4, InsideIsNone
<1>7. Stored(h, h1, e - 4, k) /\ e - 4 \in Words
  <2>1. e - 4 \in Words /\ (e - 4) + 4 <= h.brk
    BY <1>1, <1>5, BlockWords
  <2>. HIDE DEF e, k
  <2>. QED
    BY <1>1, <1>5, <2>1, StoreIs DEF set_header, HEADER_SIZE
<1>. HIDE DEF g, h1, h2
<1>8. /\ Wrote(h, h1, {e - 4}) /\ h1.freelist = h.freelist /\ get_header(h1, e) = k
      /\ e - 4 \in Region(h, p) \ {p - 4}
  <2>1. h1.mem[e - 4] = k /\ k # 0
    BY <1>4, <1>7 DEF Stored
  <2>2. get_header(h1, e) = k
    <3>. HIDE DEF e, k
    <3>. QED
      BY <1>7, <2>1 DEF get_header, unmask_size, Load, HEADER_SIZE
  <2>3. e - 4 \in Region(h, p) \ {p - 4}
    BY <1>2, <1>4, <1>7 DEF Region
  <2>. QED
    BY <1>7, <2>2, <2>3 DEF Stored, Wrote
<1>9. /\ Laid(h1, B, F, rank)
      /\ \A q \in B : get_header(h1, q) = get_header(h, q) /\ Total(h1, q) = Total(h, q)
      /\ \A q \in B \ {p} : Intact(h, h1, q)
  BY <1>8, PayloadLaid
<1>. HIDE DEF e, k
<1>10. /\ Sound(h1) /\ h1 \in Heaps /\ Apart(h1, F) /\ Listed(h1, F, rank) /\ h1.brk = h.brk /\ Apart(h1, B)
  BY <1>8, <1>9, LaidApart DEF Wrote
<1>11. Apart(h1, F \cup {e})
  <2>1. Fits(h1, e, get_header(h1, e)) /\ Total(h1, e) = k + 8
    BY <1>4, <1>5, <1>8, <1>10 DEF Fits, Total, HEADER_SIZE, FOOTER_SIZE
  <2>2. ASSUME NEW q \in F
        PROVE  q + Total(h1, q) <= e \/ e + (k + 8) <= q
    <3>1. q \in B /\ q # p /\ q \in Nat /\ Total(h1, q) = Total(h, q) /\ Total(h, q) \in Nat
      BY <1>1, <1>9, BlockIs
    <3>2. CASE q < p
      <4>1. q + Total(h, q) <= p
        BY <1>1, <3>1, <3>2 DEF Apart
      <4>. QED
        BY <1>2, <1>4, <3>1, <4>1
    <3>3. CASE p < q
      <4>1. p + Total(h, p) <= q
        BY <1>1, <3>1, <3>3 DEF Apart
      <4>. QED
        BY <1>2, <1>4, <3>1, <4>1
    <3>. QED
      BY <1>2, <3>1, <3>2, <3>3
  <2>3. ASSUME NEW q \in F
        PROVE  /\ q < e => q + Total(h1, q) <= e
               /\ e < q => e + (k + 8) <= q
    <3>1. q \in Nat /\ Total(h1, q) \in Nat /\ Total(h1, q) >= 8
      BY <1>10, BlockIs
    <3>. QED
      BY <1>4, <2>2, <3>1
  <2>. QED
    BY <1>4, <1>10, <2>1, <2>3 DEF Apart
<1>. DEFINE W == Links(e) \cup {e + k} \cup UNION {Links(q) : q \in F}
<1>12. Wrote(h1, h2, W) /\ \E new : Listed(h2, F \cup {e}, new)
  <2>1. e \notin F
    BY <1>1, <1>6
  <2>. QED
    BY <1>8, <1>10, <1>11, <2>1, AddIs DEF h2
<1>13. PICK new : Listed(h2, F \cup {e}, new)
  BY <1>12
<1>14. /\ Links(e) \cup {e + k, e - 4, p - 4, p + (n - 8)} \subseteq Region(h, p)
       /\ 0 \notin Region(h, p)
       /\ p - 4 \notin Links(e) /\ p - 4 # e + k /\ p - 4 # e - 4 /\ p - 4 # p + (n - 8)
       /\ e - 4 \notin Links(e) /\ e - 4 # e + k /\ e - 4 # p + (n - 8)
       /\ p + (n - 8) < e - 4
  <2>1. \A a \in {p - 4, p + (n - 8)} : a \in Words
    BY <1>1, <1>5, BlockWords
  <2>2. \A a \in {e - 4, e, e + 4, e + 8, e + 12, e + k} : a \in Words
    BY <1>1, <1>5, BlockWords
  <2>3. p - 4 <= e - 4 /\ e + 12 <= p + get_header(h, p) /\ e = p + n
    BY <1>2, <1>4 DEF e
  <2>. QED
    BY <1>2, <1>4, <2>1, <2>2, <2>3 DEF Region, Links, Words
<1>15. h2 \in Heaps /\ h2.brk = h.brk /\ h2.wild = FALSE
  BY <1>8, <1>10, <1>12 DEF Wrote, Sound
<1>16. /\ Wrote(h2, g, {p - 4, p + (n - 8)}) /\ g.freelist = h2.freelist
       /\ get_header(g, p) = n - 8 /\ Footer(g, p) = 1
  <2>1. Fits(h2, p, n - 8)
    BY <1>5, <1>15 DEF Fits
  <2>2. /\ Wrote(h2, g, {p - 4, p + (n - 8)}) /\ g.freelist = h2.freelist
        /\ get_header(g, p) = n - 8 /\ Footer(g, p) = unmask_size(FOOTER_ALLOC_FLAG)
    BY <1>5, <1>15, <2>1, FlagIs, TagsAre DEF g
  <2>. QED
    BY <2>2, FlagIs
<1>17. ASSUME NEW w \in Words, w \notin Region(h, p), \A q \in F : w \notin Links(q)
       PROVE  g.mem[w] = h.mem[w]
  <2>1. w \notin {e - 4} /\ w \notin W /\ w \notin {p - 4, p + (n - 8)}
    BY <1>14, <1>17
  <2>. HIDE DEF W
  <2>. QED
    BY <1>8, <1>12, <1>16, <2>1 DEF Wrote
<1>18. ASSUME NEW r \in B \ {p}
       PROVE  get_header(g, r) = get_header(h, r) /\ Total(g, r) = Total(h, r)
  <2>1. r - 4 \in Words /\ r - 4 \notin Region(h, p) /\ \A q \in F : r - 4 \notin Links(q)
    BY <1>1, WordsOfBlocks
  <2>2. g.mem[r - 4] = h.mem[r - 4]
    BY <1>17, <2>1
  <2>. QED
    BY <2>1, <2>2 DEF get_header, Total, Load, HEADER_SIZE
<1>19. ASSUME NEW r \in B \ (F \cup {p})
       PROVE  Intact(h, g, r)
  <2>1. ASSUME NEW w \in Region(h, r)
        PROVE  w \in Words /\ w \notin Region(h, p) /\ \A q \in F : w \notin Links(q)
    BY <1>1, WordsOfBlocks
  <2>. QED
    BY <1>17, <2>1 DEF Intact
<1>20. get_header(h2, e) = k /\ get_header(g, e) = k
  <2>1. e - 4 \notin W
    <3>1. \A q \in F : e - 4 \notin Links(q)
      BY <1>1, <1>14, WordsOfBlocks
    <3>. QED
      BY <1>14, <3>1
  <2>2. h2.mem[e - 4] = h1.mem[e - 4] /\ g.mem[e - 4] = h1.mem[e - 4]
    <3>. HIDE DEF W
    <3>. QED
      BY <1>7, <1>12, <1>14, <1>16, <2>1 DEF Wrote
  <2>. QED
    BY <1>7, <1>8, <2>2 DEF get_header, Load, HEADER_SIZE
<1>21. \A q \in F : get_header(h2, q) = get_header(h, q)
  <2>. TAKE q \in F
  <2>1. q - 4 \notin W /\ q - 4 \in Words
    <3>1. q - 4 \notin Links(q) /\ \A r \in F : q - 4 \notin Links(r)
      BY <1>1, WordsOfBlocks
    <3>2. q - 4 \notin Region(h, p) /\ q - 4 \in Words
      BY <1>1, WordsOfBlocks
    <3>. QED
      BY <1>14, <3>1, <3>2
  <2>2. get_header(h2, q) = get_header(h1, q)
    <3>. HIDE DEF W
    <3>. QED
      BY <1>12, <2>1 DEF Wrote, get_header, Load, HEADER_SIZE
  <2>. QED
    BY <1>1, <1>9, <2>2
<1>22. Sound(g) /\ Sound(h2)
  <2>1. 0 \in Words /\ \A q \in F : 0 \notin Links(q)
    <3>1. \A q \in F : 0 \notin Links(q)
      BY <1>1, WordsOfBlocks
    <3>. QED
      BY <3>1, HeapAssumption DEF Words, ALIGNMENT, INIT_OFFSET
  <2>2. g.mem[0] = 0
    BY <1>1, <1>14, <1>17, <2>1 DEF Sound
  <2>3. 0 \notin W
    BY <1>14, <2>1
  <2>4. h2.mem[0] = 0
    <3>. HIDE DEF W
    <3>. QED
      BY <1>10, <1>12, <2>1, <2>3 DEF Wrote, Sound
  <2>. QED
    BY <1>1, <1>15, <1>16, <2>2, <2>4 DEF Sound, Wrote
<1>23. Apart(h2, F \cup {e})
  <2>1. \A q \in F \cup {e} : get_header(h2, q) = get_header(h1, q)
    BY <1>1, <1>8, <1>9, <1>20, <1>21
  <2>. QED
    BY <1>10, <1>11, <1>15, <2>1 DEF Apart, Fits, Total
<1>24. ASSUME NEW q \in F \cup {e} PROVE Intact(h2, g, q)
  <2>1. Region(h2, q) \cap {p - 4, p + (n - 8)} = {}
    <3>1. CASE q = e
      <4>1. \A w \in Region(h2, e) : w \in Int /\ e - 4 <= w
        BY <1>4, <1>20 DEF Region, Words
      <4>2. p - 4 < e - 4 /\ p + (n - 8) < e - 4
        BY <1>2, <1>4, <1>14
      <4>. QED
        BY <1>2, <1>4, <3>1, <4>1, <4>2
    <3>2. CASE q \in F
      <4>1. Region(h2, q) = Region(h, q)
        BY <1>21, <3>2 DEF Region
      <4>. QED
        BY <1>1, <1>14, <3>2, <4>1, WordsOfBlocks
    <3>. QED
      BY <3>1, <3>2
  <2>. QED
    BY <1>16, <2>1 DEF Intact, Wrote, Region
<1>25. Listed(g, F \cup {e}, new)
  BY <1>13, <1>16, <1>22, <1>23, <1>24, IntactListed DEF Wrote
<1>26. Apart(g, B \cup {e}) /\ Covered(g, B \cup {e})
  <2>1. g.brk = h.brk
    BY <1>15, <1>16 DEF Wrote
  <2>2. get_header(g, p + n) = Total(h, p) - n - 8
    BY <1>20 DEF e, k
  <2>. QED
    BY <1>1, <1>16, <1>18, <2>1, <2>2, BlockSplit DEF e
<1>27. Laid(g, B \cup {e}, F \cup {e}, new)
  BY <1>1, <1>22, <1>25, <1>26 DEF Laid
<1>28. Total(g, p) = n /\ e + Total(g, e) = p + Total(h, p)
  BY <1>2, <1>16, <1>20 DEF Total, HEADER_SIZE, FOOTER_SIZE, e, k
<1>29. g.brk = h.brk
  BY <1>15, <1>16 DEF Wrote
<1>. QED
  BY <1>3, <1>6, <1>16, <1>18, <1>19, <1>27, <1>28, <1>29 DEF e

\* split_block() when nothing remains
LEMMA WholeLaid ==
  ASSUME NEW h, NEW B, NEW F, NEW rank, Laid(h, B, F, rank), NEW p \in B \ F,
         NEW n \in Nat, n <= Total(h, p), Total(h, p) < n + 24
  PROVE  LET g == split_block(h, p, n) IN
         /\ Laid(g, B, F, rank) /\ g.brk = h.brk /\ Footer(g, p) = 1
         /\ \A r \in B : get_header(g, r) = get_header(h, r) /\ Total(g, r) = Total(h, r)
         /\ \A r \in B \ {p} : Intact(h, g, r)
<1>. DEFINE k == get_header(h, p)
            g == set_footer(set_header(h, p, k), p, k, FOOTER_ALLOC_FLAG)
<1>1. Sound(h) /\ h \in Heaps /\ Apart(h, B) /\ Fits(h, p, k) /\ p \in B
  BY LaidApart DEF Apart
<1>2. k \in Uint32 /\ h.mem[p - 4] = k /\ Total(h, p) \in Nat
  BY <1>1, HeaderIs, BlockIs
<1>3. split_block(h, p, n) = g
  <2>1. ~Splittable(Total(h, p) - n)
    BY <1>2 DEF Splittable, MIN_BLOCK_SIZE_ACTUAL
  <2>. QED
    BY <2>1 DEF split_block
<1>. HIDE DEF g
<1>4. /\ Wrote(h, g, {p - 4, p + k}) /\ g.freelist = h.freelist
      /\ get_header(g, p) = k /\ Footer(g, p) = 1 /\ p - 4 \in Words
  <2>1. /\ Wrote(h, g, {p - 4, p + k}) /\ g.freelist = h.freelist
        /\ get_header(g, p) = k /\ Footer(g, p) = unmask_size(FOOTER_ALLOC_FLAG)
        /\ p - 4 \in Words
    <3>. HIDE DEF k
    <3>. QED
      <4>1. g = set_footer(set_header(h, p, k), p, k, FOOTER_ALLOC_FLAG)
        BY DEF g
      <4>2. h \in Heaps /\ k \in Uint32 /\ Fits(h, p, k) /\ FOOTER_ALLOC_FLAG \in Uint32
        BY <1>1, <1>2, FlagIs
      <4>. QED
        BY <4>1, <4>2, TagsAre, Z3
  <2>. QED
    BY <2>1, FlagIs
<1>5. Wrote(h, g, {p + k})
  <2>1. g.mem[p - 4] = k
    <3>1. unmask_size(g.mem[p - 4]) = k
      BY <1>4 DEF get_header, Load, HEADER_SIZE
    <3>2. g.mem[p - 4] = 0 => k = MAX_BLOCK_SIZE
      BY <3>1 DEF unmask_size
    <3>3. k # MAX_BLOCK_SIZE
      BY <1>2, MaxBlockSize DEF Uint32
    <3>. QED
      BY <3>1, <3>2, <3>3 DEF unmask_size
  <2>. QED
    BY <1>2, <1>4, <2>1 DEF Wrote
<1>6. p + k \in Region(h, p) \ {p - 4}
  BY <1>1, WordsOfBlocks
<1>7. /\ Laid(g, B, F, rank)
      /\ \A q \in B : get_header(g, q) = get_header(h, q) /\ Total(g, q) = Total(h, q)
      /\ \A q \in B \ {p} : Intact(h, g, q)
  BY <1>4, <1>5, <1>6, PayloadLaid, ZenonT(60)
<1>. QED
  BY <1>3, <1>4, <1>5, <1>7 DEF Wrote

\* mem_sbrk() where there is memory left
LEMMA SbrkIs ==
  ASSUME NEW h \in Heaps, NEW n \in Nat, n \in Uint32, CanGrow(h, n)
  PROVE  LET g == mem_sbrk(h, n) IN
         /\ g \in Heaps /\ g.wild = h.wild /\ g.brk = h.brk + n /\ g.brk <= MAX_HEAP
         /\ g.mem = h.mem /\ g.freelist = h.freelist
<1>1. mask_size(n) = n
  BY MaxBlockSize DEF mask_size, Uint32
<1>2. mem_sbrk(h, n) \in Heaps
  BY SbrkType
<1>. QED
  BY <1>1, <1>2 DEF mem_sbrk, CanGrow, Heaps

\* A new block at the end of the heap
LEMMA AppendLaid ==
  ASSUME NEW h, NEW B, NEW F, NEW rank, Laid(h, B, F, rank),
         NEW n \in Nat, n >= 24, n % 8 = 0, n \in Uint32, CanGrow(h, n)
  PROVE  LET e == h.brk + 4
             g == set_footer(set_header(mem_sbrk(h, n), e, n - 8), e, n - 8, FOOTER_ALLOC_FLAG)
         IN  /\ Laid(g, B \cup {e}, F, rank) /\ g.brk = h.brk + n /\ e \notin B
             /\ get_header(g, e) = n - 8 /\ Footer(g, e) = 1 /\ Total(g, e) = n
             /\ \A r \in B : get_header(g, r) = get_header(h, r) /\ Total(g, r) = Total(h, r)
             /\ \A r \in B : Intact(h, g, r)
<1>. DEFINE e == h.brk + 4
            m == mem_sbrk(h, n)
            g == set_footer(set_header(m, e, n - 8), e, n - 8, FOOTER_ALLOC_FLAG)
<1>1. /\ Sound(h) /\ h \in Heaps /\ h.wild = FALSE /\ Apart(h, B) /\ Covered(h, B)
      /\ F \subseteq B /\ Listed(h, F, rank) /\ Apart(h, F)
  BY LaidApart
<1>2. h.brk \in Nat /\ h.brk >= 4 /\ h.brk % 8 = 4
  BY <1>1 DEF Sound, Heaps
<1>3. /\ m \in Heaps /\ m.wild = FALSE /\ m.brk = h.brk + n /\ m.brk <= MAX_HEAP
      /\ m.mem = h.mem /\ m.freelist = h.freelist
  BY <1>1, SbrkIs
<1>. HIDE DEF m
<1>4. Fits(m, e, n - 8) /\ n - 8 \in Uint32
  <2>1. n - 8 \in Nat /\ n - 8 >= 16 /\ (n - 8) % 8 = 0 /\ e \in Nat /\ e >= 8 /\ e % 8 = 0 /\ e + (n - 8) + 4 <= m.brk
    BY <1>2, <1>3
  <2>2. n - 8 <= MAX_HEAP
    BY <1>2, <1>3, HeapAssumption
  <2>. QED
    BY <2>1, <2>2, SmallIsUint32 DEF Fits
<1>. HIDE DEF g, e
<1>5. /\ Wrote(m, g, {e - 4, e + (n - 8)}) /\ g.freelist = m.freelist
      /\ get_header(g, e) = n - 8 /\ Footer(g, e) = 1
  <2>1. /\ Wrote(m, g, {e - 4, e + (n - 8)}) /\ g.freelist = m.freelist
        /\ get_header(g, e) = n - 8 /\ Footer(g, e) = unmask_size(FOOTER_ALLOC_FLAG)
    BY <1>3, <1>4, FlagIs, TagsAre DEF g
  <2>. QED
    BY <2>1, FlagIs
<1>6. /\ g \in Heaps /\ g.wild = FALSE /\ g.brk = h.brk + n /\ g.freelist = h.freelist
      /\ \A w \in Words : w < h.brk => g.mem[w] = h.mem[w]
  <2>1. \A w \in Words : w < h.brk => w \notin {e - 4, e + (n - 8)}
    BY <1>2 DEF e, Words
  <2>. QED
    BY <1>3, <1>5, <2>1 DEF Wrote
<1>7. \A r \in B : Intact(h, g, r)
  <2>. TAKE r \in B
  <2>1. \A w \in Region(h, r) : w \in Words /\ w < h.brk
    BY <1>1, <1>2, BlockIs DEF Region, Words
  <2>. QED
    BY <1>6, <2>1 DEF Intact
<1>8. \A r \in B : get_header(g, r) = get_header(h, r) /\ Total(g, r) = Total(h, r)
  <2>. TAKE r \in B
  <2>1. Kept(h, g, r)
    BY <1>1, <1>6, <1>7, IntactKept DEF Apart
  <2>. QED
    BY <2>1 DEF Kept, Total
<1>9. Apart(g, B \cup {e}) /\ Covered(g, B \cup {e}) /\ e \notin B
  BY <1>1, <1>5, <1>6, <1>8, BlockAppended DEF e
<1>10. Sound(g)
  <2>1. 0 \in Words /\ g.brk >= 4 /\ g.brk % 8 = 4
    BY <1>2, <1>6, HeapAssumption DEF Words, ALIGNMENT, INIT_OFFSET
  <2>. QED
    BY <1>1, <1>2, <1>6, <2>1 DEF Sound
<1>11. Listed(g, F, rank)
  BY <1>1, <1>6, <1>7, IntactListed
<1>12. Total(g, e) = n
  BY <1>5 DEF Total, HEADER_SIZE, FOOTER_SIZE
<1>. QED
  BY <1>1, <1>5, <1>6, <1>7, <1>8, <1>9, <1>10, <1>11, <1>12 DEF Laid, g, e, m

\* The last block of the heap grows, if the heap can.
LEMMA ExtendLaid ==
  ASSUME NEW h, NEW B, NEW F, NEW rank, Laid(h, B, F, rank), NEW p \in B \ F,
         p + Total(h, p) = h.brk + 4,
         NEW n \in Nat, n % 8 = 0, n \in Uint32, CanGrow(h, n)
  PROVE  LET v == get_header(h, p) + n
             g == set_footer(set_header(mem_sbrk(h, n), p, v), p, v, FOOTER_ALLOC_FLAG)
         IN  /\ Laid(g, B, F, rank) /\ g.brk = h.brk + n
             /\ get_header(g, p) = v /\ Footer(g, p) = 1 /\ p + Total(g, p) = g.brk + 4
             /\ \A r \in B \ {p} : get_header(g, r) = get_header(h, r) /\ Total(g, r) = Total(h, r)
             /\ \A r \in B \ {p} : Intact(h, g, r)
             /\ \A w \in Words : p <= w /\ w < p + get_header(h, p) => g.mem[w] = h.mem[w]
<1>. DEFINE k == get_header(h, p)
            v == k + n
            m == mem_sbrk(h, n)
            g == set_footer(set_header(m, p, v), p, v, FOOTER_ALLOC_FLAG)
<1>1. /\ Sound(h) /\ h \in Heaps /\ h.wild = FALSE /\ Apart(h, B) /\ Covered(h, B)
      /\ F \subseteq B /\ Listed(h, F, rank) /\ Apart(h, F) /\ p \in B
  BY LaidApart
<1>2. h.brk \in Nat /\ h.brk >= 4 /\ h.brk % 8 = 4
  BY <1>1 DEF Sound, Heaps
<1>3. /\ m \in Heaps /\ m.wild = FALSE /\ m.brk = h.brk + n /\ m.brk <= MAX_HEAP
      /\ m.mem = h.mem /\ m.freelist = h.freelist
  BY <1>1, SbrkIs
<1>. HIDE DEF m
<1>4. /\ p \in Nat /\ k \in Nat /\ p >= 8 /\ p % 8 = 0 /\ k >= 16 /\ k % 8 = 0
      /\ Total(h, p) = k + 8 /\ p + k + 4 = h.brk
  BY <1>1, <1>2, BlockIs
<1>5. Fits(m, p, v) /\ v \in Uint32
  <2>1. v \in Nat /\ v >= 16 /\ v % 8 = 0 /\ p + v + 4 <= m.brk
    BY <1>2, <1>3, <1>4
  <2>2. v <= MAX_HEAP
    BY <1>2, <1>3, <1>4, HeapAssumption
  <2>. HIDE DEF v
  <2>. QED
    BY <1>4, <2>1, <2>2, SmallIsUint32 DEF Fits
<1>. HIDE DEF g
<1>6. /\ Wrote(m, g, {p - 4, p + v}) /\ g.freelist = m.freelist
      /\ get_header(g, p) = v /\ Footer(g, p) = 1
  <2>1. /\ Wrote(m, g, {p - 4, p + v}) /\ g.freelist = m.freelist
        /\ get_header(g, p) = v /\ Footer(g, p) = unmask_size(FOOTER_ALLOC_FLAG)
    <3>. HIDE DEF v
    <3>. QED
      BY <1>3, <1>5, FlagIs, TagsAre DEF g
  <2>. QED
    BY <2>1, FlagIs
<1>7. /\ g \in Heaps /\ g.wild = FALSE /\ g.brk = h.brk + n /\ g.freelist = h.freelist
      /\ \A w \in Words : w \notin {p - 4, p + v} => g.mem[w] = h.mem[w]
  BY <1>3, <1>6 DEF Wrote
<1>8. \A r \in B \ {p} : Intact(h, g, r)
  <2>. TAKE r \in B \ {p}
  <2>1. \A w \in Region(h, r) : w \in Words /\ w < p + v
    <3>1. r \in Nat /\ get_header(h, r) \in Nat /\ r + get_header(h, r) + 4 <= h.brk
      BY <1>1, BlockIs
    <3>2. \A w \in Region(h, r) : w \in Words /\ w \in Int /\ w <= p + k
      BY <1>2, <1>4, <3>1, SMTT(30) DEF Region, Words
    <3>3. p + k \notin Region(h, r)
      BY <1>1, WordsOfBlocks
    <3>4. p + k \in Int /\ p + k <= p + v
      BY <1>4
    <3>. HIDE DEF k, v
    <3>5. \A w \in Region(h, r) : w # p + k
      BY <3>3
    <3>. QED
      BY <1>4, <3>2, <3>4, <3>5 DEF v
  <2>2. p - 4 \notin Region(h, r)
    BY <1>1, WordsOfBlocks
  <2>3. \A w \in Region(h, r) : w \in Words /\ w \notin {p - 4, p + v}
    <3>1. p + v \in Int
      BY <1>4
    <3>. HIDE DEF v
    <3>. QED
      BY <2>1, <2>2, <3>1 DEF Words
  <2>. QED
    BY <1>7, <2>3 DEF Intact
<1>9. \A r \in B \ {p} : get_header(g, r) = get_header(h, r) /\ Total(g, r) = Total(h, r)
  <2>. TAKE r \in B \ {p}
  <2>1. Kept(h, g, r)
    BY <1>1, <1>7, <1>8, IntactKept DEF Apart
  <2>. QED
    BY <2>1 DEF Kept, Total
<1>10. Apart(g, B) /\ Covered(g, B) /\ p + Total(g, p) = g.brk + 4
  <2>1. \A r \in B \ {p} : get_header(g, r) = get_header(h, r)
    BY <1>9
  <2>. QED
    BY <1>1, <1>6, <1>7, <2>1, BlockExtended
<1>11. Sound(g)
  <2>1. 0 \in Words /\ g.brk >= 4 /\ g.brk % 8 = 4
    BY <1>2, <1>7, HeapAssumption DEF Words, ALIGNMENT, INIT_OFFSET
  <2>2. 0 \notin {p - 4, p + v}
    BY <1>4
  <2>. QED
    BY <1>1, <1>2, <1>7, <2>1, <2>2 DEF Sound
<1>12. Listed(g, F, rank)
  <2>1. \A q \in F : Intact(h, g, q)
    BY <1>1, <1>8
  <2>. QED
    BY <1>1, <1>7, <2>1, IntactListed
<1>13. \A w \in Words : p <= w /\ w < p + k => g.mem[w] = h.mem[w]
  <2>1. \A w \in Words : p <= w /\ w < p + k => w \notin {p - 4, p + v}
    BY <1>4 DEF Words
  <2>. QED
    BY <1>7, <2>1
<1>. QED
  BY <1>1, <1>6, <1>7, <1>8, <1>9, <1>10, <1>11, <1>12, <1>13 DEF Laid, g, m

\* The last block cannot grow: its footer is stored past the end of the heap.
LEMMA ExtendWild ==
  ASSUME NEW h \in Heaps, NEW p, Fits(h, p, get_header(h, p)), p + get_header(h, p) + 4 = h.brk,
         NEW n \in Nat, n \in Uint32, ~CanGrow(h, n), NEW v, v = get_header(h, p) + n
  PROVE  set_footer(set_header(mem_sbrk(h, n), p, v), p, v, FOOTER_ALLOC_FLAG).wild
<1>1. mem_sbrk(h, n) = h
  BY DEF mem_sbrk
<1>2. n # 0
  <2>1. mask_size(0) = 0
    BY MaxBlockSize DEF mask_size
  <2>2. n = 0 => CanGrow(h, n)
    BY <2>1 DEF CanGrow, Heaps
  <2>. QED
    BY <2>2
<1>3. p \in Nat /\ get_header(h, p) \in Nat /\ h.brk \in Nat /\ p - 4 \in Words /\ (p - 4) + 4 <= h.brk
  BY BlockWords
<1>. DEFINE m == set_header(h, p, v)
<1>4. m.brk = h.brk
  BY <1>3 DEF set_header, Store, HEADER_SIZE, Heaps
<1>5. ~((p + v) + 4 <= m.brk) /\ m \in Heaps
  <2>1. v \in Int /\ m \in Heaps
    BY <1>3, StoreType DEF set_header
  <2>. HIDE DEF m
  <2>. QED
    BY <1>2, <1>3, <1>4, <2>1
<1>. HIDE DEF m
<1>. QED
  BY <1>1, <1>5 DEF set_footer, Store, Heaps, m

\* The break of a heap that is laid out
LEMMA LaidBreak ==
  ASSUME NEW h, NEW B, NEW F, NEW rank, Laid(h, B, F, rank)
  PROVE  /\ h.brk \in Nat /\ h.brk >= 4 /\ h.brk % 8 = 4 /\ h.brk <= MAX_HEAP /\ MAX_HEAP \in Nat
         /\ h.mem[0] = 0
<1>1. Sound(h)
  BY LaidApart
<1>. QED
  BY <1>1, HeapAssumption DEF Sound, Heaps

-----------------------------------------------------------------------------
(* my_malloc().                                                            *)

\* Two free neighbours are left apart only where the second ends the heap and is
\* of the minimum size.
Tail(h, e)   == Total(h, e) = 24 /\ e + 24 = h.brk + 4
Spread(h, F) == \A q \in F : q + Total(h, q) \in F => Tail(h, q + Total(h, q))

\* The block p, of at least n bytes, is handed out; the others in use are untouched.
Granted(h, B, F, g, p, n) ==
  \E B1, F1, rank :
    /\ Laid(g, B1, F1, rank) /\ Spread(g, F1)
    /\ B1 \ F1 = (B \ F) \cup {p} /\ p \notin B \ F
    /\ Footer(g, p) = 1 /\ n <= get_header(g, p) + 8
    /\ \A r \in B \ F : Intact(h, g, r)

\* freelist_malloc() takes the first of the bins that fit.
LEMMA FittingBin ==
  ASSUME NEW h, NEW n, NEW fit, fit = FittingBins(h, n), fit # {},
         NEW j, j = CHOOSE i \in fit : \A k \in fit : i <= k
  PROVE  j \in fit
<1>1. fit \in SUBSET Nat
  BY DEF FittingBins, Bins
<1>2. \E i \in fit : \A k \in fit : i <= k
  BY <1>1, LeastNatural
<1>. QED
  BY <1>2

\* A free block that is large enough is taken, and split if it can be.
LEMMA TakeLaid ==
  ASSUME NEW h, NEW B, NEW F, NEW rank, Laid(h, B, F, rank), Spread(h, F), NEW p \in F,
         NEW n \in Nat, n >= 24, n % 8 = 0, n <= Total(h, p)
  PROVE  /\ Granted(h, B, F, split_block(remove_free_list(h, p), p, n), p, n)
         /\ split_block(remove_free_list(h, p), p, n).brk = h.brk
<1>. DEFINE m == remove_free_list(h, p)
            g == split_block(m, p, n)
            G == F \ {p}
<1>1. Sound(h) /\ Apart(h, B) /\ Covered(h, B) /\ F \subseteq B
  BY LaidApart
<1>2. /\ Laid(m, B, G, rank) /\ m.brk = h.brk
      /\ \A q \in B : get_header(m, q) = get_header(h, q) /\ Total(m, q) = Total(h, q)
      /\ \A q \in (B \ F) \cup {p} : Intact(h, m, q)
  BY RemoveLaid
<1>. HIDE DEF m, g
<1>3. p \in B \ G /\ p \in B /\ Total(m, p) = Total(h, p) /\ p # NULL
  BY <1>1, <1>2, BlockIs DEF NULL
<1>4. /\ Total(h, p) \in Nat /\ Total(h, p) = get_header(h, p) + 8 /\ p \in Nat /\ p + get_header(h, p) + 4 <= h.brk
      /\ h.brk \in Nat /\ get_header(h, p) \in Nat
  BY <1>1, <1>3, BlockIs
<1>5. \A g1 : (\A r \in B \ F : Intact(m, g1, r)) => \A r \in B \ F : Intact(h, g1, r)
  BY <1>2 DEF Intact, Region
<1>6. CASE Total(h, p) < n + 24
  <2>1. /\ Laid(g, B, G, rank) /\ g.brk = m.brk /\ Footer(g, p) = 1
        /\ \A r \in B : get_header(g, r) = get_header(m, r) /\ Total(g, r) = Total(m, r)
        /\ \A r \in B \ {p} : Intact(m, g, r)
    BY <1>2, <1>3, <1>6, WholeLaid DEF g
  <2>2. Spread(g, G)
    BY <1>1, <1>2, <2>1 DEF Spread, Tail
  <2>3. n <= get_header(g, p) + 8
    BY <1>2, <1>3, <1>4, <2>1
  <2>4. \A r \in B \ F : Intact(h, g, r)
    BY <1>5, <2>1
  <2>5. B \ G = (B \ F) \cup {p} /\ p \notin B \ F
    BY <1>3
  <2>. QED
    BY <1>2, <2>1, <2>2, <2>3, <2>4, <2>5 DEF Granted, m, g
<1>7. CASE ~(Total(h, p) < n + 24)
  <2>. DEFINE e == p + n
  <2>0. n + 24 <= Total(m, p)
    BY <1>3, <1>4, <1>7
  <2>1. /\ \E new : Laid(g, B \cup {e}, G \cup {e}, new)
        /\ g.brk = m.brk /\ e \notin B
        /\ get_header(g, p) = n - 8 /\ Footer(g, p) = 1 /\ Total(g, p) = n
        /\ e + Total(g, e) = p + Total(m, p)
        /\ \A r \in B \ {p} : get_header(g, r) = get_header(m, r) /\ Total(g, r) = Total(m, r)
        /\ \A r \in B \ (G \cup {p}) : Intact(m, g, r)
    BY <1>2, <1>3, <2>0, SplitLaid DEF g
  <2>2. e # h.brk + 4
    BY <1>3, <1>4, <2>0
  <2>. HIDE DEF e
  <2>3. PICK new : Laid(g, B \cup {e}, G \cup {e}, new)
    BY <2>1
  <2>4. Spread(g, G \cup {e})
    <3>1. ASSUME NEW q \in G
          PROVE  /\ Total(g, q) = Total(h, q) /\ q + Total(h, q) # e
                 /\ q \in F /\ q \in B /\ q # p
      BY <1>1, <1>2, <2>1, <2>2 DEF Covered
    <3>2. ASSUME NEW q \in G, q + Total(g, q) \in G \cup {e}
          PROVE  Tail(g, q + Total(g, q))
      BY <1>2, <2>1, <3>1, <3>2 DEF Spread, Tail
    <3>3. ASSUME e + Total(g, e) \in G \cup {e}
          PROVE  Tail(g, e + Total(g, e))
      <4>1. e + Total(g, e) = p + Total(h, p)
        BY <1>3, <2>1
      <4>2. p + Total(h, p) \in B \cup {h.brk + 4}
        BY <1>1, <1>3 DEF Covered
      <4>3. p + Total(h, p) \in G
        BY <2>1, <2>2, <3>3, <4>1, <4>2
      <4>4. Tail(h, p + Total(h, p))
        BY <4>3 DEF Spread
      <4>. QED
        BY <1>2, <2>1, <3>1, <4>1, <4>3, <4>4 DEF Tail
    <3>. QED
      BY <3>2, <3>3 DEF Spread
  <2>5. \A r \in B \ F : Intact(h, g, r)
    BY <1>3, <1>5, <2>1
  <2>6. (B \cup {e}) \ (G \cup {e}) = (B \ F) \cup {p} /\ p \notin B \ F
    BY <1>3, <2>1
  <2>7. n <= get_header(g, p) + 8
    BY <2>1
  <2>. QED
    BY <1>2, <2>1, <2>3, <2>4, <2>5, <2>6, <2>7 DEF Granted, m, g
<1>. QED
  BY <1>6, <1>7

\* The word before the break tells whether the last block is free, and its size.
LEMMA LastBlock ==
  ASSUME NEW h, NEW B, NEW F, NEW rank, Laid(h, B, F, rank), \A q \in B \ F : Footer(h, q) = 1
  PROVE  /\ h.brk = 4 => LastBlockSize(h) = MAX_BLOCK_SIZE
         /\ \A q \in B : q + Total(h, q) = h.brk + 4 => LastBlockSize(h) = IF q \in F THEN get_header(h, q) ELSE 1
         /\ h.brk = 4 \/ \E q \in B : q + Total(h, q) = h.brk + 4
<1>1. Sound(h) /\ Apart(h, B) /\ Covered(h, B) /\ F \subseteq B /\ Listed(h, F, rank) /\ h.brk \in Nat
  BY LaidApart, LaidBreak
<1>2. ASSUME h.brk = 4 PROVE LastBlockSize(h) = MAX_BLOCK_SIZE
  <2>1. 0 \in Words /\ h.brk - FOOTER_SIZE = 0 /\ h.mem[0] = 0
    BY <1>1, <1>2, HeapAssumption DEF Words, ALIGNMENT, INIT_OFFSET, Sound, FOOTER_SIZE
  <2>. QED
    BY <2>1 DEF LastBlockSize, Load, unmask_size
<1>3. ASSUME NEW q \in B, q + Total(h, q) = h.brk + 4
      PROVE  LastBlockSize(h) = Footer(h, q)
  <2>1. h.brk - FOOTER_SIZE = q + get_header(h, q)
    BY <1>1, <1>3, BlockIs DEF FOOTER_SIZE
  <2>. QED
    BY <2>1 DEF LastBlockSize, Footer, get_footer
<1>4. \A q \in F : Footer(h, q) = get_header(h, q)
  BY <1>1 DEF Listed
<1>5. h.brk = 4 \/ \E q \in B : q + Total(h, q) = h.brk + 4
  <2>1. h.brk + 4 = 8 => h.brk = 4
    BY <1>1
  <2>. QED
    BY <1>1, <2>1 DEF Covered
<1>. QED
  BY <1>2, <1>3, <1>4, <1>5

\* A free last block is grown, or memory runs out.
LEMMA MallocExtends ==
  ASSUME NEW h, NEW B, NEW F, NEW rank, Laid(h, B, F, rank), Spread(h, F), \A q \in B \ F : Footer(h, q) = 1,
         NEW n \in Nat, n >= 24, n % 8 = 0, n \in Uint32,
         is_free(LastBlockSize(h)), n > LastBlockSize(h)
  PROVE  LET r == ExtendLast(h, n) IN
         \/ r.heap.wild /\ h.brk + n > MAX_HEAP
         \/ Granted(h, B, F, r.heap, r.ptr, n)
<1>1. /\ Sound(h) /\ h \in Heaps /\ Apart(h, B) /\ Covered(h, B) /\ F \subseteq B /\ h.brk \in Nat
      /\ MAX_BLOCK_SIZE \in Nat /\ n < MAX_BLOCK_SIZE /\ h.brk <= MAX_HEAP /\ MAX_HEAP \in Nat
  <2>1. MAX_BLOCK_SIZE \in Nat /\ n < MAX_BLOCK_SIZE
    BY MaxBlockSize DEF Uint32
  <2>. QED
    BY <2>1, LaidApart, LaidBreak
<1>2. PICK p \in B : p + Total(h, p) = h.brk + 4
  BY <1>1, LastBlock
<1>3. p \in F /\ LastBlockSize(h) = get_header(h, p)
  BY <1>2, LastBlock DEF is_free, FOOTER_ALLOC_FLAG
<1>4. /\ p \in Nat /\ get_header(h, p) \in Nat /\ Total(h, p) = get_header(h, p) + 8 /\ get_header(h, p) % 8 = 0
      /\ p + get_header(h, p) + 4 <= h.brk
  BY <1>1, BlockIs
<1>. DEFINE k == get_header(h, p)
            d == n - 8 - k
            m == remove_free_list(h, p)
            s == mem_sbrk(m, d)
            g == set_footer(set_header(s, p, n - 8), p, n - 8, FOOTER_ALLOC_FLAG)
            G == F \ {p}
<1>5. ExtendLast(h, n) = [heap |-> g, ptr |-> p]
  <2>1. h.brk - FOOTER_SIZE - LastBlockSize(h) = p /\ n - HEADER_SIZE - FOOTER_SIZE = n - 8
    <3>1. h.brk - 4 - get_header(h, p) = p
      BY <1>1, <1>2, <1>4
    <3>. QED
      BY <1>3, <3>1 DEF FOOTER_SIZE, HEADER_SIZE
  <2>2. ExtraNeeded(n - 8, LastBlockSize(h)) = d
    BY <1>3 DEF ExtraNeeded
  <2>. QED
    BY <2>1, <2>2 DEF ExtendLast
<1>6. /\ Laid(m, B, G, rank) /\ m.brk = h.brk
      /\ \A q \in B : get_header(m, q) = get_header(h, q) /\ Total(m, q) = Total(h, q)
      /\ \A q \in (B \ F) \cup {p} : Intact(h, m, q)
  BY <1>3, RemoveLaid
<1>7. n > k /\ n - k >= 8
  <2>1. n > k
    BY <1>3
  <2>. QED
    BY <1>4, <2>1
<1>8. d \in Nat /\ d % 8 = 0 /\ d \in Uint32 /\ n - 8 = k + d
  BY <1>1, <1>4, <1>7 DEF Uint32
<1>. HIDE DEF d, k, s, m, g
<1>9. CASE CanGrow(m, d)
  <2>1. p + Total(m, p) = m.brk + 4 /\ p \in B \ G /\ get_header(m, p) = k
    BY <1>2, <1>6 DEF k
  <2>2. g = set_footer(set_header(mem_sbrk(m, d), p, get_header(m, p) + d), p, get_header(m, p) + d, FOOTER_ALLOC_FLAG)
    BY <1>8, <2>1 DEF g, s
  <2>3. /\ Laid(g, B, G, rank) /\ g.brk = m.brk + d
        /\ get_header(g, p) = get_header(m, p) + d /\ Footer(g, p) = 1 /\ p + Total(g, p) = g.brk + 4
        /\ \A r \in B \ {p} : get_header(g, r) = get_header(m, r) /\ Total(g, r) = Total(m, r)
        /\ \A r \in B \ {p} : Intact(m, g, r)
    BY <1>6, <1>8, <1>9, <2>1, <2>2, ExtendLaid
  <2>4. \A r \in B \ F : Intact(h, g, r)
    <3>1. \A r \in B \ F : Intact(m, g, r) /\ Intact(h, m, r) /\ get_header(m, r) = get_header(h, r)
      BY <1>3, <1>6, <2>3
    <3>. QED
      BY <3>1 DEF Intact, Region
  <2>5. Spread(g, G)
    <3>. SUFFICES ASSUME NEW q \in G, q + Total(g, q) \in G PROVE FALSE
      BY DEF Spread
    <3>1. q # p /\ q \in B /\ Total(g, q) = Total(h, q)
      BY <1>1, <1>6, <2>3
    <3>2. Tail(h, q + Total(h, q))
      BY <3>1 DEF Spread
    <3>3. q + Total(h, q) + 24 = h.brk + 4 /\ Total(h, q + Total(h, q)) = 24
      BY <3>2 DEF Tail
    <3>. DEFINE t == q + Total(h, q)
    <3>4. t \in B /\ t # p /\ t \in Nat
      BY <1>1, <3>1, BlockIs
    <3>. HIDE DEF t
    <3>5. t < p => t + Total(h, t) <= p
      BY <1>1, <3>4 DEF Apart
    <3>6. p < t => p + Total(h, p) <= t
      BY <1>1, <3>4 DEF Apart
    <3>. QED
      BY <1>1, <1>2, <1>4, <3>3, <3>4, <3>5, <3>6 DEF t
  <2>6. B \ G = (B \ F) \cup {p} /\ p \notin B \ F
    BY <1>3
  <2>7. n <= get_header(g, p) + 8
    BY <1>4, <1>8, <2>1, <2>3 DEF k
  <2>. QED
    BY <1>5, <2>3, <2>4, <2>5, <2>6, <2>7 DEF Granted
<1>10. CASE ~CanGrow(m, d)
  <2>1. m \in Heaps /\ Fits(m, p, get_header(m, p)) /\ get_header(m, p) = k
    BY <1>6, LaidApart DEF Apart, k
  <2>2. p + get_header(m, p) + 4 = m.brk
    <3>1. p + get_header(h, p) + 4 = h.brk
      BY <1>1, <1>2, <1>4
    <3>. QED
      BY <1>6, <2>1, <3>1 DEF k
  <2>3. g.wild
    BY <1>8, <1>10, <2>1, <2>2, ExtendWild DEF g, s
  <2>4. h.brk + n > MAX_HEAP
    <3>1. mask_size(d) = d
      BY <1>8, MaxBlockSize DEF mask_size, Uint32
    <3>2. ~(h.brk + d <= MAX_HEAP)
      BY <1>6, <1>10, <3>1 DEF CanGrow
    <3>. QED
      BY <1>1, <1>4, <1>8, <3>2 DEF k
  <2>. QED
    BY <1>5, <2>3, <2>4
<1>. QED
  BY <1>9, <1>10

\* ALIGN() rounds up to a multiple of 8.
LEMMA AlignIs ==
  ASSUME NEW n \in Nat
  PROVE  /\ ALIGN(n) \in Nat /\ ALIGN(n) % 8 = 0 /\ n <= ALIGN(n) /\ ALIGN(n) < n + 8
         /\ n % 8 = 0 => ALIGN(n) = n
  BY DEF ALIGN, ALIGNMENT

\* A block has room for the request.
LEMMA SizeFits ==
  ASSUME NEW size \in Nat
  PROVE  /\ BlockSize(size) \in Nat /\ BlockSize(size) >= 24 /\ BlockSize(size) % 8 = 0
         /\ size + 8 <= BlockSize(size)
         /\ size <= MAX_BLOCK_SIZE - 16 => BlockSize(size) \in Uint32
<1>1. /\ ALIGN(size + 8) \in Nat /\ ALIGN(size + 8) % 8 = 0 /\ size + 8 <= ALIGN(size + 8)
      /\ ALIGN(size + 8) < size + 16
  BY AlignIs
<1>2. BlockSize(size) = IF 24 < ALIGN(size + 8) THEN ALIGN(size + 8) ELSE 24
  <2>1. BlockSize(size) = AtLeast(24, ALIGN(size + 8))
    BY DEF BlockSize, MIN_BLOCK_SIZE_ACTUAL, HEADER_SIZE, FOOTER_SIZE
  <2>. QED
    BY <2>1 DEF AtLeast
<1>3. MAX_BLOCK_SIZE \in Nat /\ 64 <= MAX_BLOCK_SIZE
  <2>1. MAX_BLOCK_SIZE_EXP \in Nat /\ 6 <= MAX_BLOCK_SIZE_EXP
    BY ExpAssumption
  <2>2. PowerOf2[6] = 64
    BY <2>1, Powers
  <2>3. PowerOf2[6] <= PowerOf2[MAX_BLOCK_SIZE_EXP]
    <3>1. 6 \in 0..(MAX_BLOCK_SIZE_EXP + 1) /\ MAX_BLOCK_SIZE_EXP \in 0..(MAX_BLOCK_SIZE_EXP + 1)
      BY <2>1
    <3>2. PowerOf2[6] \in Nat /\ PowerOf2[MAX_BLOCK_SIZE_EXP] \in Nat
      BY <3>1, Powers
    <3>3. CASE 6 = MAX_BLOCK_SIZE_EXP
      BY <3>2, <3>3
    <3>4. CASE 6 # MAX_BLOCK_SIZE_EXP
      <4>1. PowerOf2[6] < PowerOf2[MAX_BLOCK_SIZE_EXP]
        BY <2>1, <3>1, <3>4, PowersGrow
      <4>. QED
        BY <3>2, <4>1
    <3>. QED
      BY <3>3, <3>4
  <2>. QED
    BY <2>2, <2>3, MaxBlockSize DEF MAX_BLOCK_SIZE
<1>. QED
  BY <1>1, <1>2, <1>3 DEF Uint32

\* my_malloc() answers NULL and leaves the heap alone, stores past the end of an
\* exhausted heap, or grants a block.
LEMMA MallocGrants ==
  ASSUME NEW h, NEW B, NEW F, NEW rank, Laid(h, B, F, rank), Spread(h, F), \A q \in B \ F : Footer(h, q) = 1,
         NEW size \in Nat, BlockSize(size) \in Uint32
  PROVE  LET r == my_malloc(h, size)
             n == BlockSize(size)
         IN  /\ \/ r.ptr = NULL /\ r.heap = h
                \/ r.heap.wild /\ h.brk + n > MAX_HEAP
                \/ r.ptr # NULL /\ Granted(h, B, F, r.heap, r.ptr, n)
             /\ FittingBins(h, n) # {} => r.heap.brk = h.brk
<1>. DEFINE n == BlockSize(size)
<1>1. n \in Nat /\ n >= 24 /\ n % 8 = 0 /\ n \in Uint32
  BY SizeFits
<1>2. Sound(h) /\ h \in Heaps /\ Apart(h, B) /\ F \subseteq B /\ Listed(h, F, rank) /\ Apart(h, F)
  BY LaidApart
<1>3. ASSUME NEW g, NEW p, Granted(h, B, F, g, p, n)
      PROVE  p # NULL
  <2>1. PICK B1, F1, new : Laid(g, B1, F1, new) /\ p \in B1
    BY <1>3 DEF Granted
  <2>. QED
    <3>1. Sound(g) /\ Apart(g, B1)
      BY <2>1, LaidApart
    <3>2. p >= 8
      BY <2>1, <3>1, BlockIs
    <3>. QED
      BY <3>2 DEF NULL
<1>. HIDE DEF n
<1>4. CASE FittingBins(h, n) # {}
  <2>. DEFINE fit == FittingBins(h, n)
              j   == CHOOSE i \in fit : \A k \in fit : i <= k
              p   == h.freelist[j]
              m   == remove_free_list(h, p)
              g   == split_block(m, p, n)
  <2>1. j \in fit
    <3>. HIDE DEF fit
    <3>. QED
      BY <1>4, FittingBin DEF fit
  <2>2. j \in Bins /\ n <= BinFloor(j) /\ p # NULL
    <3>. HIDE DEF j
    <3>. QED
      BY <2>1 DEF FittingBins
  <2>3. p \in F /\ Bin(h, p) = j
    <3>. HIDE DEF j
    <3>. QED
      BY <1>2, <2>2 DEF Listed
  <2>4. freelist_malloc(h, n) = [heap |-> g, ptr |-> p]
    <3>1. Root(h, j) = p
      BY <2>2 DEF Root
    <3>. HIDE DEF g, m
    <3>. QED
      BY <1>4, <3>1 DEF freelist_malloc, g, m
  <2>. HIDE DEF j
  <2>5. n <= Total(h, p)
    <3>1. BinFloor(Bin(h, p)) <= Total(h, p) /\ Total(h, p) \in Nat
      BY <1>2, <2>3, HeaderIs, BlockIs DEF Apart
    <3>2. BinFloor(j) \in Nat
      <4>1. j = 0 \/ PowerOf2[4 + j] \in Nat
        <5>1. 4 + j \in 0..(MAX_BLOCK_SIZE_EXP + 1)
          BY <2>2, ExpAssumption DEF Bins, NUM_FREE_LISTS, MIN_BLOCK_SIZE_EXP
        <5>. QED
          BY <5>1, Powers
      <4>. QED
        BY <4>1 DEF BinFloor, MIN_BLOCK_SIZE_ACTUAL, MIN_BLOCK_SIZE_EXP
    <3>. QED
      BY <1>1, <2>2, <2>3, <3>1, <3>2
  <2>6. Granted(h, B, F, g, p, n) /\ g.brk = h.brk
    <3>. HIDE DEF p
    <3>. QED
      BY <1>1, <2>3, <2>5, TakeLaid
  <2>7. my_malloc(h, size) = [heap |-> g, ptr |-> p]
    <3>. HIDE DEF g, p
    <3>. QED
      BY <2>2, <2>4 DEF my_malloc, n
  <2>8. p # NULL
    BY <2>2
  <2>. HIDE DEF g, p
  <2>. QED
    BY <2>6, <2>7, <2>8 DEF n
<1>5. CASE FittingBins(h, n) = {} /\ is_free(LastBlockSize(h)) /\ n > LastBlockSize(h)
  <2>1. my_malloc(h, size) = ExtendLast(h, n)
    BY <1>5 DEF my_malloc, freelist_malloc, n
  <2>2. LET r == ExtendLast(h, n) IN
         \/ r.heap.wild /\ h.brk + n > MAX_HEAP
         \/ Granted(h, B, F, r.heap, r.ptr, n)
    BY <1>1, <1>5, MallocExtends
  <2>. QED
    BY <1>3, <1>5, <2>1, <2>2 DEF n
<1>6. CASE FittingBins(h, n) = {} /\ ~(is_free(LastBlockSize(h)) /\ n > LastBlockSize(h))
  <2>1. my_malloc(h, size) = NewBlock(h, n)
    BY <1>6 DEF my_malloc, freelist_malloc, n
  <2>2. CASE ~CanGrow(h, n)
    <3>1. NewBlock(h, n) = [heap |-> h, ptr |-> NULL]
      BY <2>2 DEF NewBlock
    <3>. QED
      BY <2>1, <3>1, <1>6 DEF n
  <2>3. CASE CanGrow(h, n)
    <3>. DEFINE e == h.brk + 4
                g == set_footer(set_header(mem_sbrk(h, n), e, n - 8), e, n - 8, FOOTER_ALLOC_FLAG)
    <3>1. NewBlock(h, n) = [heap |-> g, ptr |-> e]
      <4>1. n - HEADER_SIZE - FOOTER_SIZE = n - 8 /\ h.brk + HEADER_SIZE = e
        BY <1>1 DEF HEADER_SIZE, FOOTER_SIZE
      <4>. QED
        BY <2>3, <4>1 DEF NewBlock
    <3>2. /\ Laid(g, B \cup {e}, F, rank) /\ g.brk = h.brk + n /\ e \notin B
          /\ get_header(g, e) = n - 8 /\ Footer(g, e) = 1 /\ Total(g, e) = n
          /\ \A r \in B : get_header(g, r) = get_header(h, r) /\ Total(g, r) = Total(h, r)
          /\ \A r \in B : Intact(h, g, r)
      BY <1>1, <2>3, AppendLaid
    <3>. HIDE DEF e, g
    <3>3. Spread(g, F)
      <4>. SUFFICES ASSUME NEW q \in F, q + Total(g, q) \in F PROVE FALSE
        BY DEF Spread
      <4>. DEFINE t == q + Total(h, q)
      <4>1. t \in F /\ Tail(h, t) /\ t \in B
        BY <1>2, <3>2 DEF Spread
      <4>. HIDE DEF t
      <4>2. Total(h, t) = 24 /\ t + Total(h, t) = h.brk + 4 /\ Total(h, t) = get_header(h, t) + 8 /\ get_header(h, t) \in Nat
        BY <1>2, <4>1, BlockIs DEF Tail
      <4>3. LastBlockSize(h) = get_header(h, t)
        BY <4>1, <4>2, LastBlock
      <4>. QED
        BY <1>1, <1>6, <4>2, <4>3 DEF is_free, FOOTER_ALLOC_FLAG
    <3>4. (B \cup {e}) \ F = (B \ F) \cup {e} /\ e \notin B \ F
      BY <1>2, <3>2
    <3>5. n <= get_header(g, e) + 8
      BY <1>1, <3>2
    <3>6. Granted(h, B, F, g, e, n)
      BY <3>2, <3>3, <3>4, <3>5 DEF Granted
    <3>. QED
      BY <1>3, <1>6, <2>1, <3>1, <3>6 DEF n
  <2>. QED
    BY <2>2, <2>3
<1>. QED
  BY <1>4, <1>5, <1>6

-----------------------------------------------------------------------------
(* The inductive invariant.                                                *)

\* The block of id is all there.
Holds(h, b, id) ==
  /\ Footer(h, b.ptr) = 1 /\ b.size <= get_header(h, b.ptr) /\ b.data <= b.size
  /\ \A a \in Words : b.ptr <= a /\ a + 4 <= b.ptr + b.data => h.mem[a] = id

\* The blocks in use are the client's, one each, and the one of the call.
Owned(h, l, c, B, F) ==
  /\ \A id \in Ids : l[id] # Absent =>
       l[id].ptr \in B \ F /\ Holds(h, l[id], id) /\ (c # Idle => l[id].ptr # c.ptr)
  /\ \A id, other \in Ids : id # other /\ l[id] # Absent /\ l[other] # Absent => l[id].ptr # l[other].ptr
  /\ \A q \in B \ F : (c # Idle /\ q = c.ptr) \/ \E id \in Ids : l[id] # Absent /\ l[id].ptr = q

\* What coalesce() knows of the block it holds
InProgress(h, c, B, F) ==
  c # Idle =>
    /\ c.ptr \in B \ F /\ c.block_size = Total(h, c.ptr)
    /\ c.pc \in {"front", "back", "insert"}
    /\ c.pc # "front" => \A q \in F : q + Total(h, q) # c.ptr
    /\ c.pc = "insert" => (c.ptr + Total(h, c.ptr) \in F => Tail(h, c.ptr + Total(h, c.ptr)))

Story(h, l, c, B, F, rank) ==
  Laid(h, B, F, rank) /\ Spread(h, F) /\ Owned(h, l, c, B, F) /\ InProgress(h, c, B, F)

IInv == TypeOK /\ (heap.wild \/ \E B, F, rank : Story(heap, live, call, B, F, rank))

-----------------------------------------------------------------------------

\* An intact block holds what it held.
LEMMA HoldsIntact ==
  ASSUME NEW h, Sound(h), NEW b, Fits(h, b.ptr, get_header(h, b.ptr)), NEW id, Holds(h, b, id),
         b.size \in Int, b.data \in Int,
         NEW g \in Heaps, Intact(h, g, b.ptr)
  PROVE  Holds(g, b, id)
<1>1. get_header(g, b.ptr) = get_header(h, b.ptr) /\ Footer(g, b.ptr) = Footer(h, b.ptr)
  BY IntactKept DEF Kept
<1>2. ASSUME NEW a \in Words, b.ptr <= a, a + 4 <= b.ptr + b.data
      PROVE  g.mem[a] = id
  <2>1. b.ptr \in Nat /\ get_header(h, b.ptr) \in Nat /\ a \in Int
    BY DEF Fits, Words
  <2>2. b.size <= get_header(h, b.ptr) /\ b.data <= b.size
    BY DEF Holds
  <2>3. a \in Region(h, b.ptr)
    BY <1>2, <2>1, <2>2 DEF Region
  <2>. QED
    BY <1>2, <2>3 DEF Intact, Holds
<1>. QED
  BY <1>1, <1>2 DEF Holds

\* What the client knows of a block are numbers.
LEMMA LiveType ==
  ASSUME TypeOK, NEW id \in Ids
  PROVE  live[id].ptr \in Int /\ live[id].size \in Nat /\ live[id].data \in Nat
<1>1. live[id] \in Holdings
  BY DEF TypeOK
<1>2. live[id].ptr \in Int /\ live[id].size \in {0} \cup Sizes /\ live[id].data \in {0} \cup Sizes
  BY <1>1 DEF Holdings
<1>3. \A s \in {0} \cup Sizes : s \in Nat
  <2>1. \A s \in Sizes : s \in Nat
    BY SizesNat
  <2>. QED
    BY <2>1
<1>. QED
  BY <1>2, <1>3

\* And nothing else
LEMMA LiveRecord ==
  ASSUME TypeOK, NEW id \in Ids
  PROVE  live[id] = [ptr |-> live[id].ptr, size |-> live[id].size, data |-> live[id].data]
<1>1. live[id] \in Holdings
  BY DEF TypeOK
<1>. QED
  BY <1>1 DEF Holdings

\* The block at a pointer that is not NULL is not an absent one.
LEMMA PresentHas ==
  ASSUME NEW p, p # NULL, NEW s, NEW d
  PROVE  [ptr |-> p, size |-> s, data |-> d] # Absent
  BY DEF Absent

\* The blocks of the client stay, where theirs are intact.
LEMMA OwnedIntact ==
  ASSUME TypeOK, NEW B, NEW F, NEW rank, Story(heap, live, call, B, F, rank),
         NEW g \in Heaps, NEW id \in Ids, live[id] # Absent, Intact(heap, g, live[id].ptr)
  PROVE  Holds(g, live[id], id)
<1>1. live[id].ptr \in B \ F /\ Holds(heap, live[id], id) /\ live[id].size \in Int /\ live[id].data \in Int
  <2>1. live[id].size \in Int /\ live[id].data \in Int
    BY LiveType
  <2>. QED
    BY <2>1 DEF Story, Owned
<1>2. Sound(heap) /\ Fits(heap, live[id].ptr, get_header(heap, live[id].ptr))
  BY <1>1, LaidApart DEF Story, Apart
<1>. QED
  BY <1>1, <1>2, HoldsIntact

\* my_init() lays out an empty heap.
LEMMA InitLaid ==
  ASSUME NEW h \in Heaps, h.brk = 0, h.mem[0] = 0, h.wild = FALSE
  PROVE  LET g == my_init(h) IN
         /\ Laid(g, {}, {}, {}) /\ Spread(g, {}) /\ g.brk = 4
<1>. DEFINE m == [h EXCEPT !.freelist = [i \in Bins |-> NULL]]
            g == mem_sbrk(m, INIT_OFFSET)
<1>1. /\ m \in Heaps /\ m.brk = 0 /\ m.wild = FALSE /\ m.mem = h.mem /\ m.freelist = [i \in Bins |-> NULL]
  BY DEF Heaps, NULL
<1>2. INIT_OFFSET \in Nat /\ INIT_OFFSET \in Uint32 /\ CanGrow(m, INIT_OFFSET) /\ INIT_OFFSET = 4
  <2>1. 4 \in Uint32 /\ mask_size(4) = 4 /\ 4 <= MAX_HEAP
    BY SmallIsUint32, HeapAssumption DEF INIT_OFFSET
  <2>. HIDE DEF m
  <2>. QED
    BY <1>1, <2>1 DEF CanGrow, INIT_OFFSET
<1>. HIDE DEF m
<1>3. /\ g \in Heaps /\ g.wild = FALSE /\ g.brk = 4 /\ g.mem = h.mem /\ g.freelist = [i \in Bins |-> NULL]
  BY <1>1, <1>2, SbrkIs
<1>4. g = my_init(h)
  BY DEF my_init, m
<1>. HIDE DEF g
<1>5. Sound(g)
  BY <1>3 DEF Sound
<1>6. Apart(g, {}) /\ Covered(g, {}) /\ Spread(g, {})
  BY <1>3 DEF Apart, Covered, Spread
<1>7. Listed(g, {}, {})
  BY <1>3 DEF Listed
<1>. QED
  BY <1>3, <1>4, <1>5, <1>6, <1>7 DEF Laid

\* The picture holds at the start.
LEMMA InitStory == Init => Story(heap, live, call, {}, {}, {})
<1>. SUFFICES ASSUME Init PROVE Story(heap, live, call, {}, {}, {})
  OBVIOUS
<1>. DEFINE h == [brk      |-> 0,
                  mem      |-> [a \in Words |-> 0],
                  freelist |-> [i \in Bins |-> NULL],
                  wild     |-> FALSE]
<1>1. h \in Heaps /\ h.brk = 0 /\ h.mem[0] = 0 /\ h.wild = FALSE
  BY MaxBlockSize, HeapAssumption DEF Heaps, Words, Uint32, NULL, ALIGNMENT, INIT_OFFSET
<1>2. heap = my_init(h) /\ call = Idle /\ \A id \in Ids : live[id] = Absent
  BY DEF Init
<1>. HIDE DEF h
<1>3. Laid(heap, {}, {}, {}) /\ Spread(heap, {})
  BY <1>1, <1>2, InitLaid
<1>. QED
  BY <1>2, <1>3 DEF Story, Owned, InProgress

\* A new pass starts with an empty picture.
LEMMA ResetStory ==
  ASSUME TypeOK, NEW B, NEW F, NEW rank, Story(heap, live, call, B, F, rank), Reset
  PROVE  Story(heap', live', call', {}, {}, {})
<1>. DEFINE h == mem_reset_brk(heap)
<1>0. heap \in Heaps /\ heap.mem[0] = 0 /\ heap.wild = FALSE
  BY LaidBreak, LaidApart DEF Story
<1>1. h \in Heaps /\ h.brk = 0 /\ h.mem[0] = 0 /\ h.wild = FALSE
  BY <1>0, HeapAssumption DEF mem_reset_brk, Heaps
<1>2. heap' = my_init(h) /\ call' = Idle /\ \A id \in Ids : live'[id] = Absent
  BY DEF Reset
<1>. HIDE DEF h
<1>3. Laid(heap', {}, {}, {}) /\ Spread(heap', {})
  BY <1>1, <1>2, InitLaid
<1>. QED
  BY <1>2, <1>3 DEF Story, Owned, InProgress

\* my_free() takes the block from its client.
LEMMA FreeStory ==
  ASSUME TypeOK, NEW B, NEW F, NEW rank, Story(heap, live, call, B, F, rank), NEW id \in Ids, Free(id)
  PROVE  Story(heap', live', call', B, F, rank)
<1>. DEFINE p == live[id].ptr
<1>1. /\ heap' = heap /\ call = Idle /\ live[id] # Absent /\ p \in B \ F
      /\ call' = [pc |-> "front", ptr |-> p, done |-> TRUE, block_size |-> Total(heap, p)]
      /\ \A i \in Ids : live'[i] = IF i = id THEN Absent ELSE live[i]
  <2>1. live \in [Ids -> Holdings]
    BY DEF TypeOK
  <2>2. heap' = heap /\ call = Idle /\ live[id] # Absent /\ call' = StartFree(heap, p) /\ live' = [live EXCEPT ![id] = Absent]
    BY DEF Free
  <2>3. p \in B \ F
    BY <2>2 DEF Story, Owned
  <2>. HIDE DEF p
  <2>. QED
    BY <2>1, <2>2, <2>3 DEF StartFree
<1>2. call' # Idle /\ call'.pc = "front" /\ call'.ptr = p /\ call'.block_size = Total(heap', p)
  BY <1>1 DEF Idle
<1>3. InProgress(heap', call', B, F)
  BY <1>1, <1>2 DEF InProgress
<1>4. Owned(heap', live', call', B, F)
  <2>1. \A i \in Ids : live'[i] # Absent => i # id /\ live'[i] = live[i]
    BY <1>1
  <2>2. \A i \in Ids : live'[i] # Absent => live[i].ptr # p
    BY <1>1, <2>1 DEF Story, Owned
  <2>3. ASSUME NEW q \in B \ F, q # p PROVE \E i \in Ids : live'[i] # Absent /\ live'[i].ptr = q
    BY <1>1, <2>3 DEF Story, Owned
  <2>4. \A i \in Ids : live'[i] # Absent =>
          live'[i].ptr \in B \ F /\ Holds(heap', live'[i], i) /\ live'[i].ptr # call'.ptr
    BY <1>1, <1>2, <2>1, <2>2 DEF Story, Owned
  <2>5. \A i, j \in Ids : i # j /\ live'[i] # Absent /\ live'[j] # Absent => live'[i].ptr # live'[j].ptr
    BY <2>1 DEF Story, Owned
  <2>. HIDE DEF p
  <2>. QED
    BY <1>2, <2>3, <2>4, <2>5 DEF Owned
<1>. QED
  BY <1>1, <1>3, <1>4 DEF Story

\* The block of the call changes; the clients keep theirs.
LEMMA OwnedMoves ==
  ASSUME TypeOK, NEW B, NEW F, NEW rank, Story(heap, live, call, B, F, rank), call # Idle,
         NEW R, R = (B \ F) \ {call.ptr}, NEW g \in Heaps, \A r \in R : Intact(heap, g, r),
         NEW c, NEW B1, NEW F1,
         \/ c = Idle /\ B1 \ F1 = R
         \/ c # Idle /\ B1 \ F1 = R \cup {c.ptr} /\ c.ptr \notin R
  PROVE  Owned(g, live, c, B1, F1)
<1>1. \A id \in Ids : live[id] # Absent => live[id].ptr \in R
  BY DEF Story, Owned
<1>2. \A id \in Ids : live[id] # Absent => Holds(g, live[id], id)
  BY <1>1, OwnedIntact
<1>3. \A id, other \in Ids : id # other /\ live[id] # Absent /\ live[other] # Absent => live[id].ptr # live[other].ptr
  BY DEF Story, Owned
<1>4. \A q \in R : \E id \in Ids : live[id] # Absent /\ live[id].ptr = q
  BY DEF Story, Owned
<1>. QED
  BY <1>1, <1>2, <1>3, <1>4 DEF Owned

\* The words of a block in use, or of the call, stay under two operations in a row.
LEMMA IntactTwice ==
  ASSUME NEW h, NEW m, NEW g, NEW p, Intact(h, m, p), Intact(m, g, p), get_header(m, p) = get_header(h, p)
  PROVE  Intact(h, g, p)
  BY DEF Intact, Region

\* The free block q is taken from its list and made one with the call's.
LEMMA MergedStory ==
  ASSUME TypeOK, NEW B, NEW F, NEW rank, Story(heap, live, call, B, F, rank), call # Idle,
         NEW q \in F, NEW first, NEW second, (first = q /\ second = call.ptr) \/ (first = call.ptr /\ second = q),
         second = first + Total(heap, first),
         NEW n, n = get_header(heap, first) + Total(heap, second)
  PROVE  LET g == Merge(remove_free_list(heap, q), first, n) IN
             /\ Laid(g, B \ {second}, F \ {q}, rank) /\ Spread(g, F \ {q}) /\ g.brk = heap.brk
             /\ (B \ {second}) \ (F \ {q}) = ((B \ F) \ {call.ptr}) \cup {first}
             /\ first \notin (B \ F) \ {call.ptr}
             /\ g \in Heaps /\ Total(g, first) = n + 8
             /\ \A r \in (B \ F) \ {call.ptr} : Intact(heap, g, r)
             /\ \A r \in F \ {q} : Total(g, r) = Total(heap, r)
<1>. DEFINE p == call.ptr
            m == remove_free_list(heap, q)
            g == Merge(m, first, n)
            G == F \ {q}
<1>1. /\ Laid(heap, B, F, rank) /\ Spread(heap, F) /\ p \in B \ F /\ F \subseteq B
      /\ Sound(heap) /\ Apart(heap, B)
  BY LaidApart DEF Story, InProgress
<1>2. first \in B /\ second \in B /\ first # second
  <2>1. CASE first = q /\ second = p
    BY <1>1, <2>1, Zenon
  <2>2. CASE first = p /\ second = q
    BY <1>1, <2>2, Zenon
  <2>. QED
    BY <2>1, <2>2
<1>3. /\ Laid(m, B, G, rank) /\ m.brk = heap.brk
      /\ \A r \in B : get_header(m, r) = get_header(heap, r) /\ Total(m, r) = Total(heap, r)
      /\ \A r \in (B \ F) \cup {q} : Intact(heap, m, r)
  BY <1>1, RemoveLaid
<1>. HIDE DEF m
<1>4. first \in B \ G /\ second \in B \ G /\ second = first + Total(m, first) /\ n = get_header(m, first) + Total(m, second)
  BY <1>1, <1>2, <1>3
<1>5. /\ Laid(g, B \ {second}, G, rank) /\ g.brk = m.brk
      /\ get_header(g, first) = n /\ first + Total(g, first) = second + Total(m, second)
      /\ \A r \in B \ {first, second} : get_header(g, r) = get_header(m, r) /\ Total(g, r) = Total(m, r)
      /\ \A r \in B \ {first, second} : Intact(m, g, r)
  BY <1>3, <1>4, MergeLaid
<1>. HIDE DEF g
<1>6. g \in Heaps /\ g.brk = heap.brk
  BY <1>3, <1>5, LaidApart
<1>7. \A r \in F \ {q} : r \in B /\ r # first /\ r # second /\ Total(g, r) = Total(heap, r)
  BY <1>1, <1>2, <1>3, <1>5
<1>8. \A r \in (B \ F) \ {p} : Intact(heap, g, r)
  <2>. TAKE r \in (B \ F) \ {p}
  <2>1. r \in B \ {first, second}
    BY <1>1, <1>2
  <2>2. Intact(heap, m, r) /\ Intact(m, g, r) /\ get_header(m, r) = get_header(heap, r)
    BY <1>3, <1>5, <2>1
  <2>. QED
    BY <2>2, IntactTwice
<1>9. Spread(g, G)
  <2>. SUFFICES ASSUME NEW r \in G, r + Total(g, r) \in G PROVE Tail(g, r + Total(g, r))
    BY DEF Spread
  <2>1. r + Total(g, r) = r + Total(heap, r) /\ Tail(heap, r + Total(heap, r))
    BY <1>1, <1>7 DEF Spread
  <2>. QED
    BY <1>6, <1>7, <2>1 DEF Tail
<1>10. Total(g, first) = n + 8
  <2>1. Sound(g) /\ Apart(g, B \ {second}) /\ first \in B \ {second}
    BY <1>2, <1>5, LaidApart
  <2>. QED
    BY <1>5, <2>1, BlockIs
<1>11. (B \ {second}) \ (F \ {q}) = ((B \ F) \ {call.ptr}) \cup {first} /\ first \notin (B \ F) \ {call.ptr}
  BY <1>1, <1>2
<1>. QED
  BY <1>5, <1>6, <1>7, <1>8, <1>9, <1>10, <1>11 DEF m, g

\* What get_last_footer() of the call's block tells of the one in front
LEMMA FrontIs ==
  ASSUME TypeOK, NEW B, NEW F, NEW rank, Story(heap, live, call, B, F, rank), call # Idle
  PROVE  LET size == get_last_footer(heap, call.ptr) IN
         \/ /\ 0 <= call.ptr - HEADER_SIZE - MIN_BLOCK_SIZE_ACTUAL /\ is_free(size)
            /\ \E q \in F : /\ q + Total(heap, q) = call.ptr /\ size = get_header(heap, q)
                            /\ q = call.ptr - HEADER_SIZE - FOOTER_SIZE - size
         \/ /\ ~(0 <= call.ptr - HEADER_SIZE - MIN_BLOCK_SIZE_ACTUAL /\ is_free(size))
            /\ \A q \in F : q + Total(heap, q) # call.ptr
<1>. DEFINE p    == call.ptr
            size == get_last_footer(heap, p)
<1>1. /\ Sound(heap) /\ Apart(heap, B) /\ Covered(heap, B) /\ F \subseteq B /\ Listed(heap, F, rank)
      /\ p \in B \ F
  BY LaidApart DEF Story, InProgress
<1>2. \A q \in B : /\ q \in Nat /\ get_header(heap, q) \in Nat /\ Total(heap, q) = get_header(heap, q) + 8
                   /\ q >= 8 /\ get_header(heap, q) >= 16
  BY <1>1, BlockIs
<1>3. CASE p = 8
  <2>1. ~(0 <= p - HEADER_SIZE - MIN_BLOCK_SIZE_ACTUAL)
    BY <1>3 DEF HEADER_SIZE, MIN_BLOCK_SIZE_ACTUAL
  <2>2. \A q \in F : q + Total(heap, q) # p
    BY <1>1, <1>2, <1>3
  <2>. QED
    BY <2>1, <2>2
<1>4. CASE p # 8
  <2>1. PICK q \in B : q + Total(heap, q) = p
    BY <1>1, <1>4 DEF Covered
  <2>2. p - HEADER_SIZE - FOOTER_SIZE = q + get_header(heap, q) /\ p \in Nat /\ q # p
    BY <1>1, <1>2, <2>1 DEF HEADER_SIZE, FOOTER_SIZE
  <2>3. size = Footer(heap, q)
    BY <2>2 DEF get_last_footer, Footer, get_footer
  <2>4. 0 <= p - HEADER_SIZE - MIN_BLOCK_SIZE_ACTUAL
    BY <1>2, <2>1 DEF HEADER_SIZE, MIN_BLOCK_SIZE_ACTUAL
  <2>5. CASE q \in F
    <3>1. size = get_header(heap, q)
      BY <1>1, <2>3, <2>5 DEF Listed
    <3>2. is_free(size) /\ q = p - HEADER_SIZE - FOOTER_SIZE - size
      BY <1>2, <2>2, <3>1 DEF is_free, FOOTER_ALLOC_FLAG
    <3>. QED
      BY <2>1, <2>4, <2>5, <3>1, <3>2
  <2>6. CASE q \notin F
    <3>1. PICK id \in Ids : live[id] # Absent /\ live[id].ptr = q
      BY <2>2, <2>6 DEF Story, Owned
    <3>2. Footer(heap, q) = 1
      BY <3>1 DEF Story, Owned, Holds
    <3>3. ~is_free(size)
      BY <2>3, <3>2 DEF is_free, FOOTER_ALLOC_FLAG
    <3>4. \A r \in F : r + Total(heap, r) # p
      <4>. TAKE r \in F
      <4>1. r \in B /\ r # q
        BY <1>1, <2>6
      <4>2. r < q => r + Total(heap, r) <= q
        BY <1>1, <4>1 DEF Apart
      <4>3. q < r => q + Total(heap, q) <= r
        BY <1>1, <4>1 DEF Apart
      <4>. QED
        BY <1>2, <2>1, <4>1, <4>2, <4>3
    <3>. QED
      BY <3>3, <3>4
  <2>. QED
    BY <2>5, <2>6
<1>. QED
  BY <1>3, <1>4

\* "Try mem block in front"
LEMMA FrontStory ==
  ASSUME TypeOK, NEW B, NEW F, NEW rank, Story(heap, live, call, B, F, rank), CoalesceFront
  PROVE  \E B1, F1, new : Story(heap', live', call', B1, F1, new)
<1>. DEFINE p     == call.ptr
            size  == get_last_footer(heap, p)
            front == p - HEADER_SIZE - FOOTER_SIZE - size
            n     == size + call.block_size
<1>1. call.pc = "front" /\ call # Idle /\ live' = live
  BY DEF CoalesceFront, Idle
<1>2. /\ p \in B \ F /\ call.block_size = Total(heap, p) /\ Sound(heap) /\ Apart(heap, B) /\ F \subseteq B
      /\ Spread(heap, F) /\ Laid(heap, B, F, rank)
  BY <1>1, LaidApart DEF Story, InProgress
<1>3. CASE 0 <= p - HEADER_SIZE - MIN_BLOCK_SIZE_ACTUAL /\ is_free(size)
  <2>1. PICK q \in F : q + Total(heap, q) = p /\ size = get_header(heap, q) /\ q = front
    BY <1>1, <1>3, FrontIs
  <2>2. heap' = Merge(remove_free_list(heap, q), q, n) /\ call' = Merged(q, n, "back")
    BY <1>3, <2>1 DEF CoalesceFront
  <2>3. n = get_header(heap, q) + Total(heap, p)
    BY <1>2, <2>1
  <2>. DEFINE R == (B \ F) \ {p}
  <2>. HIDE DEF n
  <2>4. /\ Laid(heap', B \ {p}, F \ {q}, rank) /\ Spread(heap', F \ {q}) /\ heap'.brk = heap.brk
        /\ (B \ {p}) \ (F \ {q}) = R \cup {q}
        /\ q \notin R
        /\ heap' \in Heaps /\ Total(heap', q) = n + 8
        /\ \A r \in R : Intact(heap, heap', r)
        /\ \A r \in F \ {q} : Total(heap', r) = Total(heap, r)
    <3>. DEFINE g == Merge(remove_free_list(heap, q), q, n)
    <3>1. call.ptr = q + Total(heap, q) /\ call # Idle /\ n = get_header(heap, q) + Total(heap, call.ptr)
      BY <1>1, <2>1, <2>3
    <3>2. /\ Laid(g, B \ {call.ptr}, F \ {q}, rank) /\ Spread(g, F \ {q}) /\ g.brk = heap.brk
          /\ (B \ {call.ptr}) \ (F \ {q}) = ((B \ F) \ {call.ptr}) \cup {q}
          /\ q \notin (B \ F) \ {call.ptr}
          /\ g \in Heaps /\ Total(g, q) = n + 8
          /\ \A r \in (B \ F) \ {call.ptr} : Intact(heap, g, r)
          /\ \A r \in F \ {q} : Total(g, r) = Total(heap, r)
      <4>. HIDE DEF p, R
      <4>. QED
        BY <3>1, MergedStory, Z3
    <3>3. heap' = g
      BY <2>2
    <3>. HIDE DEF g
    <3>. QED
      BY <3>2, <3>3
  <2>5. call' # Idle /\ call'.ptr = q /\ call'.pc = "back" /\ call'.block_size = n + 8
    <3>1. get_header(heap, q) \in Nat /\ Total(heap, p) \in Nat
      BY <1>2, BlockIs
    <3>2. HEADER_SIZE + n + FOOTER_SIZE = n + 8
      BY <2>3, <3>1 DEF HEADER_SIZE, FOOTER_SIZE
    <3>. QED
      BY <2>2, <3>2 DEF Merged, Idle
  <2>6. Owned(heap', live', call', B \ {p}, F \ {q})
    BY <1>1, <2>4, <2>5, OwnedMoves
  <2>7. ASSUME NEW r \in F \ {q}
        PROVE  r + Total(heap', r) # q
    <3>. SUFFICES ASSUME r + Total(heap, r) = q PROVE FALSE
      BY <2>4
    <3>1. Tail(heap, q)
      BY <1>2, <2>1 DEF Spread
    <3>2. q + Total(heap, q) = heap.brk + 4
      BY <3>1 DEF Tail
    <3>. QED
      BY <1>2, <2>1, <3>2, BlockIs
  <2>8. InProgress(heap', call', B \ {p}, F \ {q})
    <3>1. q \in (B \ {p}) \ (F \ {q})
      BY <2>4
    <3>. QED
      BY <2>4, <2>5, <2>7, <3>1 DEF InProgress
  <2>. QED
    BY <2>4, <2>6, <2>8 DEF Story
<1>4. CASE ~(0 <= p - HEADER_SIZE - MIN_BLOCK_SIZE_ACTUAL /\ is_free(size))
  <2>1. heap' = heap /\ call' = [call EXCEPT !.pc = "back"]
    BY <1>4 DEF CoalesceFront
  <2>2. \A q \in F : q + Total(heap, q) # p
    BY <1>1, <1>4, FrontIs
  <2>3. call' # Idle /\ call'.ptr = p /\ call'.pc = "back" /\ call'.block_size = call.block_size
    BY <2>1 DEF Idle, TypeOK, Calls
  <2>4. Owned(heap', live', call', B, F)
    BY <1>1, <2>1, <2>3 DEF Story, Owned
  <2>5. InProgress(heap', call', B, F)
    BY <1>2, <2>1, <2>2, <2>3 DEF InProgress
  <2>. QED
    BY <1>2, <2>1, <2>4, <2>5 DEF Story
<1>. QED
  BY <1>3, <1>4

\* The test of coalesce() on the block behind: it is free, and not the least tail.
LEMMA BehindIs ==
  ASSUME TypeOK, NEW B, NEW F, NEW rank, Story(heap, live, call, B, F, rank), call # Idle
  PROVE  LET behind == call.ptr + call.block_size
             size   == get_header(heap, behind)
         IN  /\ heap.brk - 1 >= call.ptr - HEADER_SIZE + call.block_size + MIN_BLOCK_SIZE_ACTUAL
             /\ is_free_block(heap, behind, size)
             <=> behind \in F /\ ~Tail(heap, behind)
<1>. DEFINE p      == call.ptr
            behind == p + Total(heap, p)
            size   == get_header(heap, behind)
<1>1. /\ Sound(heap) /\ Apart(heap, B) /\ Covered(heap, B) /\ F \subseteq B /\ Listed(heap, F, rank)
      /\ p \in B \ F /\ call.block_size = Total(heap, p) /\ heap.brk \in Nat
  BY LaidApart, LaidBreak DEF Story, InProgress
<1>2. p \in Nat /\ Total(heap, p) \in Nat /\ get_header(heap, p) \in Nat /\ Total(heap, p) = get_header(heap, p) + 8
  BY <1>1, BlockIs
<1>3. (heap.brk - 1 >= p - HEADER_SIZE + Total(heap, p) + MIN_BLOCK_SIZE_ACTUAL) <=> heap.brk >= behind + 21
  BY <1>1, <1>2 DEF HEADER_SIZE, MIN_BLOCK_SIZE_ACTUAL
<1>4. behind \in B \cup {heap.brk + 4} /\ behind # p /\ behind \in Nat
  BY <1>1, <1>2, BlockIs DEF Covered
<1>. HIDE DEF behind
<1>5. CASE behind \notin B
  <2>1. behind = heap.brk + 4
    BY <1>4, <1>5
  <2>. QED
    BY <1>1, <1>3, <1>5, <2>1 DEF behind
<1>6. CASE behind \in B
  <2>1. is_free_block(heap, behind, size) <=> behind \in F
    <3>1. is_free_block(heap, behind, size) <=> Footer(heap, behind) # 1
      BY DEF is_free_block, is_free, FOOTER_ALLOC_FLAG, Footer
    <3>2. behind \in F => Footer(heap, behind) # 1
      <4>1. behind \in F => Footer(heap, behind) = get_header(heap, behind)
        BY <1>1 DEF Listed
      <4>2. get_header(heap, behind) >= 16
        BY <1>1, <1>6, BlockIs
      <4>. QED
        BY <4>1, <4>2
    <3>3. behind \notin F => Footer(heap, behind) = 1
      BY <1>4, <1>6 DEF Story, Owned, Holds
    <3>. QED
      BY <3>1, <3>2, <3>3
  <2>2. heap.brk >= behind + 21 <=> ~Tail(heap, behind)
    <3>1. /\ get_header(heap, behind) \in Nat /\ Total(heap, behind) = get_header(heap, behind) + 8
          /\ get_header(heap, behind) >= 16 /\ get_header(heap, behind) % 8 = 0
          /\ behind + get_header(heap, behind) + 4 <= heap.brk
      BY <1>1, <1>6, BlockIs
    <3>2. CASE get_header(heap, behind) # 16
      <4>1. get_header(heap, behind) >= 24
        BY <3>1, <3>2
      <4>2. heap.brk >= behind + 21
        BY <1>1, <1>4, <3>1, <4>1
      <4>3. Total(heap, behind) # 24
        BY <3>1, <3>2
      <4>. QED
        BY <4>2, <4>3 DEF Tail
    <3>3. CASE get_header(heap, behind) = 16
      <4>1. Total(heap, behind) = 24
        BY <3>1, <3>3
      <4>2. CASE behind + 24 = heap.brk + 4
        <5>1. ~(heap.brk >= behind + 21)
          BY <1>1, <1>4, <4>2
        <5>. QED
          BY <4>1, <4>2, <5>1 DEF Tail
      <4>3. CASE behind + 24 # heap.brk + 4
        <5>1. behind + 24 \in B
          BY <1>1, <1>6, <4>1, <4>3 DEF Covered
        <5>2. behind + 24 + 4 <= heap.brk
          <6>. DEFINE s == behind + 24
          <6>. HIDE DEF s
          <6>1. s \in Nat /\ get_header(heap, s) \in Nat /\ s + get_header(heap, s) + 4 <= heap.brk
            BY <1>1, <5>1, BlockIs DEF s
          <6>2. s + 4 <= heap.brk
            BY <1>1, <6>1
          <6>. QED
            BY <6>2 DEF s
        <5>3. heap.brk >= behind + 21
          BY <1>1, <1>4, <5>2
        <5>. QED
          BY <4>3, <5>3 DEF Tail
      <4>. QED
        BY <4>2, <4>3
    <3>. QED
      BY <3>2, <3>3
  <2>. QED
    BY <1>1, <1>3, <2>1, <2>2 DEF behind
<1>. QED
  BY <1>5, <1>6

\* "Try mem block behind"
LEMMA BackStory ==
  ASSUME TypeOK, NEW B, NEW F, NEW rank, Story(heap, live, call, B, F, rank), CoalesceBack
  PROVE  \E B1, F1, new : Story(heap', live', call', B1, F1, new)
<1>. DEFINE p      == call.ptr
            behind == p + call.block_size
            size   == get_header(heap, behind)
            n      == call.block_size + size
            more   == /\ heap.brk - 1 >= p - HEADER_SIZE + call.block_size + MIN_BLOCK_SIZE_ACTUAL
                      /\ is_free_block(heap, behind, size)
<1>1. call.pc = "back" /\ call # Idle /\ live' = live
  BY DEF CoalesceBack, Idle
<1>2. /\ p \in B \ F /\ call.block_size = Total(heap, p) /\ Sound(heap) /\ Apart(heap, B) /\ F \subseteq B
      /\ Spread(heap, F) /\ Laid(heap, B, F, rank)
      /\ \A q \in F : q + Total(heap, q) # p
  BY <1>1, LaidApart DEF Story, InProgress
<1>3. more <=> behind \in F /\ ~Tail(heap, behind)
  BY <1>1, BehindIs
<1>4. /\ more => heap' = Merge(remove_free_list(heap, behind), p, n) /\ call' = [Merged(p, n, "front") EXCEPT !.done = TRUE]
      /\ ~more => heap' = heap /\ call' = LoopEnd
  BY DEF CoalesceBack
<1>. HIDE DEF more
<1>5. CASE more
  <2>1. behind \in F /\ behind = p + Total(heap, p)
    BY <1>2, <1>3, <1>5
  <2>2. n = get_header(heap, p) + Total(heap, behind)
    <3>1. /\ get_header(heap, p) \in Nat /\ Total(heap, p) = get_header(heap, p) + 8
          /\ get_header(heap, behind) \in Nat /\ Total(heap, behind) = get_header(heap, behind) + 8
      BY <1>2, <2>1, BlockIs
    <3>. QED
      BY <1>2, <3>1
  <2>3. n + 8 = HEADER_SIZE + n + FOOTER_SIZE
    <3>1. n \in Nat
      BY <1>2, <2>1, BlockIs
    <3>. HIDE DEF n
    <3>. QED
      BY <3>1 DEF HEADER_SIZE, FOOTER_SIZE
  <2>. DEFINE R == (B \ F) \ {p}
  <2>. HIDE DEF n, behind
  <2>4. /\ Laid(heap', B \ {behind}, F \ {behind}, rank) /\ Spread(heap', F \ {behind}) /\ heap'.brk = heap.brk
        /\ (B \ {behind}) \ (F \ {behind}) = R \cup {p}
        /\ p \notin R
        /\ heap' \in Heaps /\ Total(heap', p) = n + 8
        /\ \A r \in R : Intact(heap, heap', r)
    BY <1>1, <1>4, <1>5, <2>1, <2>2, MergedStory
  <2>5. call' # Idle /\ call'.ptr = p /\ call'.pc = "front" /\ call'.block_size = n + 8
    BY <1>4, <1>5, <2>3 DEF Merged, Idle
  <2>6. Owned(heap', live', call', B \ {behind}, F \ {behind})
    BY <1>1, <2>4, <2>5, OwnedMoves
  <2>7. InProgress(heap', call', B \ {behind}, F \ {behind})
    <3>1. p \in (B \ {behind}) \ (F \ {behind})
      BY <2>4
    <3>. QED
      BY <2>4, <2>5, <3>1 DEF InProgress
  <2>. QED
    BY <2>4, <2>6, <2>7 DEF Story
<1>6. CASE ~more
  <2>1. heap' = heap /\ call' # Idle /\ call'.ptr = p /\ call'.block_size = call.block_size /\ call'.pc \in {"front", "insert"}
    <3>1. call \in Calls
      BY DEF TypeOK
    <3>2. heap' = heap /\ (call' = [call EXCEPT !.pc = "insert"] \/ call' = [call EXCEPT !.pc = "front", !.done = TRUE])
      BY <1>4, <1>6 DEF LoopEnd
    <3>3. call'.pc \in {"front", "insert"} /\ call'.ptr = p /\ call'.block_size = call.block_size
      BY <3>1, <3>2 DEF Calls
    <3>4. call' # Idle
      BY <3>3 DEF Idle
    <3>. QED
      BY <3>2, <3>3, <3>4
  <2>2. behind \in F => Tail(heap, behind)
    BY <1>3, <1>6
  <2>3. Owned(heap', live', call', B, F)
    BY <1>1, <2>1 DEF Story, Owned
  <2>4. InProgress(heap', call', B, F)
    <3>. HIDE DEF p
    <3>. QED
      BY <1>2, <2>1, <2>2 DEF InProgress
  <2>. QED
    BY <1>2, <2>1, <2>3, <2>4 DEF Story
<1>. QED
  BY <1>5, <1>6

\* The merged block goes to its list.
LEMMA InsertStory ==
  ASSUME TypeOK, NEW B, NEW F, NEW rank, Story(heap, live, call, B, F, rank), InsertFree
  PROVE  \E B1, F1, new : Story(heap', live', call', B1, F1, new)
<1>. DEFINE p == call.ptr
            G == F \cup {p}
<1>1. call.pc = "insert" /\ call # Idle /\ live' = live /\ heap' = add_free_list(heap, p) /\ call' = Idle
  BY DEF InsertFree, Idle
<1>2. /\ p \in B \ F /\ Sound(heap) /\ Apart(heap, B) /\ F \subseteq B /\ Spread(heap, F) /\ Laid(heap, B, F, rank)
      /\ \A q \in F : q + Total(heap, q) # p
      /\ p + Total(heap, p) \in F => Tail(heap, p + Total(heap, p))
  BY <1>1, LaidApart DEF Story, InProgress
<1>3. /\ \E new : Laid(heap', B, G, new)
      /\ heap'.brk = heap.brk
      /\ \A q \in B : Total(heap', q) = Total(heap, q)
      /\ \A q \in B \ G : Intact(heap, heap', q)
  BY <1>1, <1>2, AddLaid
<1>4. PICK new : Laid(heap', B, G, new)
  BY <1>3
<1>5. p + Total(heap, p) # p
  BY <1>2, BlockIs
<1>6. Spread(heap', G)
  <2>. SUFFICES ASSUME NEW q \in G, q + Total(heap', q) \in G PROVE Tail(heap', q + Total(heap', q))
    BY DEF Spread
  <2>1. q \in B /\ Total(heap', q) = Total(heap, q) /\ q + Total(heap, q) \in F /\ q + Total(heap, q) \in B
    BY <1>2, <1>3, <1>5
  <2>2. Tail(heap, q + Total(heap, q))
    BY <1>2, <2>1 DEF Spread
  <2>. QED
    BY <1>3, <2>1, <2>2 DEF Tail
<1>7. Owned(heap', live', call', B, G)
  <2>1. heap' \in Heaps /\ B \ G = (B \ F) \ {p}
    BY <1>4, LaidApart
  <2>. HIDE DEF G
  <2>. QED
    BY <1>1, <1>3, <2>1, OwnedMoves
<1>8. InProgress(heap', call', B, G)
  BY <1>1 DEF InProgress
<1>. QED
  BY <1>4, <1>6, <1>7, <1>8 DEF Story

\* The step is a request that meets too little memory.
Exhausted ==
  \E id \in Ids, size \in Sizes : Requests(id, size) /\ heap.brk + BlockSize(size) > MAX_HEAP

\* my_realloc() asks for an aligned size and gets the same block.
LEMMA BlockSizeAligned ==
  ASSUME NEW s \in Nat
  PROVE  BlockSize(ALIGN(s)) = BlockSize(s) /\ ALIGN(s) + 8 <= BlockSize(s) /\ ALIGN(s) \in Nat
<1>1. ALIGN(s) \in Nat /\ ALIGN(s) % 8 = 0 /\ s <= ALIGN(s) /\ ALIGN(s) < s + 8
  BY AlignIs
<1>2. ALIGN(s + 8) = ALIGN(s) + 8
  BY DEF ALIGN, ALIGNMENT
<1>3. ALIGN(ALIGN(s) + 8) = ALIGN(s) + 8
  BY <1>1, AlignIs
<1>4. \A n \in Nat : BlockSize(n) = AtLeast(24, ALIGN(n + 8))
  <2>1. \A n \in Nat : (n + 4) + 4 = n + 8
    OBVIOUS
  <2>. QED
    BY <2>1 DEF BlockSize, MIN_BLOCK_SIZE_ACTUAL, HEADER_SIZE, FOOTER_SIZE
<1>5. BlockSize(ALIGN(s)) = BlockSize(s)
  BY <1>1, <1>2, <1>3, <1>4
<1>6. BlockSize(s) = IF 24 < ALIGN(s) + 8 THEN ALIGN(s) + 8 ELSE 24
  BY <1>2, <1>4 DEF AtLeast
<1>. QED
  BY <1>1, <1>5, <1>6

\* Requests are within the width of a size.
LEMMA RequestFits ==
  ASSUME NEW size \in Sizes
  PROVE  size \in Nat /\ size # 0 /\ BlockSize(size) \in Uint32
<1>1. size \in 1..(MAX_BLOCK_SIZE - 16)
  BY SizesAssumption
<1>2. size \in Nat /\ size # 0 /\ size <= MAX_BLOCK_SIZE - 16
  BY <1>1, MaxBlockSize
<1>. QED
  BY <1>2, SizeFits

\* Between calls every block in use is a client's.
LEMMA IdleStory ==
  ASSUME TypeOK, NEW B, NEW F, NEW rank, Story(heap, live, call, B, F, rank), call = Idle
  PROVE  /\ \A q \in B \ F : Footer(heap, q) = 1
         /\ \A id \in Ids : live[id] # Absent => live[id].ptr \in B \ F /\ live[id].ptr \in B
<1>1. \A q \in B \ F : \E id \in Ids : live[id] # Absent /\ live[id].ptr = q
  BY DEF Story, Owned
<1>. QED
  BY <1>1 DEF Story, Owned, Holds

\* One block is granted to id, and perhaps its old one handed to a call.
LEMMA GrantedStory ==
  ASSUME TypeOK, NEW B, NEW F, NEW rank, Story(heap, live, call, B, F, rank), call = Idle,
         NEW g, NEW B1, NEW F1, NEW new, Laid(g, B1, F1, new), Spread(g, F1),
         NEW p, B1 \ F1 = (B \ F) \cup {p}, p \notin B \ F,
         NEW id \in Ids, NEW b, b.ptr = p, Holds(g, b, id),
         \A r \in B \ F : Intact(heap, g, r),
         NEW c, \/ c = Idle /\ live[id] = Absent
                \/ c = StartFree(g, live[id].ptr) /\ live[id] # Absent
  PROVE  Story(g, [live EXCEPT ![id] = b], c, B1, F1, new)
<1>. DEFINE l == [live EXCEPT ![id] = b]
<1>1. g \in Heaps
  BY LaidApart
<1>2. \A i \in Ids : l[i] = IF i = id THEN b ELSE live[i]
  BY DEF TypeOK
<1>3. \A i \in Ids : live[i] # Absent => live[i].ptr \in B \ F
  BY DEF Story, Owned
<1>4. \A i \in Ids : live[i] # Absent => Holds(g, live[i], i)
  BY <1>1, <1>3, OwnedIntact
<1>5. \A i, j \in Ids : i # j /\ live[i] # Absent /\ live[j] # Absent => live[i].ptr # live[j].ptr
  BY DEF Story, Owned
<1>6. \A q \in B \ F : \E i \in Ids : live[i] # Absent /\ live[i].ptr = q
  BY DEF Story, Owned
<1>7. \/ c = Idle /\ live[id] = Absent
      \/ c # Idle /\ c.ptr = live[id].ptr /\ c.pc = "front" /\ c.block_size = Total(g, c.ptr) /\ live[id] # Absent
  BY DEF StartFree, Idle
<1>8. p \in B1 \ F1 /\ \A q \in B \ F : q \in B1 \ F1 /\ q # p
  BY Zenon
<1>. HIDE DEF l
<1>9. \A i \in Ids : l[i] # Absent =>
        l[i].ptr \in B1 \ F1 /\ Holds(g, l[i], i) /\ (c # Idle => l[i].ptr # c.ptr)
  <2>. TAKE i \in Ids
  <2>1. CASE i = id
    BY <1>2, <1>3, <1>7, <1>8, <2>1
  <2>2. CASE i # id
    BY <1>2, <1>3, <1>4, <1>5, <1>7, <1>8, <2>2
  <2>. QED
    BY <2>1, <2>2
<1>10. \A i, j \in Ids : i # j /\ l[i] # Absent /\ l[j] # Absent => l[i].ptr # l[j].ptr
  BY <1>2, <1>3, <1>5, <1>8
<1>11. ASSUME NEW q \in B1 \ F1, l[id] # Absent
       PROVE  (c # Idle /\ q = c.ptr) \/ \E i \in Ids : l[i] # Absent /\ l[i].ptr = q
  <2>1. CASE q = p
    BY <1>2, <1>11, <2>1
  <2>2. CASE q # p
    <3>1. q \in B \ F
      BY <2>2
    <3>2. PICK i \in Ids : live[i] # Absent /\ live[i].ptr = q
      BY <1>6, <3>1
    <3>3. CASE i = id
      BY <1>7, <3>2, <3>3
    <3>4. CASE i # id
      BY <1>2, <3>2, <3>4
    <3>. QED
      BY <3>3, <3>4
  <2>. QED
    BY <2>1, <2>2
<1>12. l[id] # Absent
  <2>1. p # NULL
    <3>1. Sound(g) /\ Apart(g, B1) /\ p \in B1
      BY <1>8, LaidApart
    <3>. QED
      BY <3>1, BlockIs DEF NULL
  <2>. QED
    BY <1>2, <2>1 DEF Absent
<1>13. Owned(g, l, c, B1, F1)
  BY <1>9, <1>10, <1>11, <1>12 DEF Owned
<1>14. InProgress(g, c, B1, F1)
  BY <1>3, <1>7, <1>8 DEF InProgress
<1>. QED
  BY <1>13, <1>14 DEF Story, l

\* my_malloc() keeps the picture, or memory runs out.
LEMMA MallocStory ==
  ASSUME TypeOK, NEW B, NEW F, NEW rank, Story(heap, live, call, B, F, rank),
         NEW id \in Ids, NEW size \in Sizes, Malloc(id, size)
  PROVE  (heap'.wild /\ Exhausted) \/ \E B1, F1, new : Story(heap', live', call', B1, F1, new)
<1>. DEFINE r == my_malloc(heap, size)
            n == BlockSize(size)
            b == [ptr |-> r.ptr, size |-> size, data |-> 0]
<1>1. /\ call = Idle /\ call' = call /\ live[id] = Absent /\ heap' = r.heap
      /\ live' = IF r.ptr = NULL THEN live ELSE [live EXCEPT ![id] = b]
  BY DEF Malloc
<1>2. Laid(heap, B, F, rank) /\ Spread(heap, F) /\ \A q \in B \ F : Footer(heap, q) = 1
  BY <1>1, IdleStory DEF Story
<1>3. size \in Nat /\ size # 0 /\ n \in Uint32 /\ n \in Nat /\ size + 8 <= n
  BY RequestFits, SizeFits
<1>4. \/ r.ptr = NULL /\ r.heap = heap
      \/ r.heap.wild /\ heap.brk + n > MAX_HEAP
      \/ r.ptr # NULL /\ Granted(heap, B, F, r.heap, r.ptr, n)
  BY <1>2, <1>3, MallocGrants
<1>. HIDE DEF r
<1>5. CASE r.ptr = NULL /\ r.heap = heap
  <2>1. heap' = heap /\ live' = live /\ call' = call
    BY <1>1, <1>5
  <2>. QED
    BY <2>1
<1>6. CASE r.heap.wild /\ heap.brk + n > MAX_HEAP
  BY <1>1, <1>6 DEF Exhausted, Requests
<1>7. CASE r.ptr # NULL /\ Granted(heap, B, F, r.heap, r.ptr, n)
  <2>. DEFINE g == r.heap
              p == r.ptr
  <2>. HIDE DEF n
  <2>1. PICK B1, F1, new :
          /\ Laid(g, B1, F1, new) /\ Spread(g, F1)
          /\ B1 \ F1 = (B \ F) \cup {p} /\ p \notin B \ F
          /\ Footer(g, p) = 1 /\ n <= get_header(g, p) + 8
          /\ \A q \in B \ F : Intact(heap, g, q)
    BY <1>7 DEF Granted
  <2>2. Fits(g, p, get_header(g, p))
    <3>1. Apart(g, B1) /\ p \in B1
      BY <2>1, LaidApart
    <3>. QED
      BY <3>1 DEF Apart
  <2>3. get_header(g, p) \in Nat /\ p \in Nat
    BY <2>2 DEF Fits
  <2>. HIDE DEF g, p
  <2>4. b.ptr = p /\ b.size = size /\ b.data = 0
    BY DEF p
  <2>. HIDE DEF b
  <2>5. Holds(g, b, id)
    <3>1. b.size <= get_header(g, p) /\ b.data <= b.size
      BY <1>3, <2>1, <2>3, <2>4
    <3>2. \A a \in Words : ~(p <= a /\ a + 4 <= p + 0)
      BY <2>3 DEF Words
    <3>. QED
      BY <2>1, <2>4, <3>1, <3>2 DEF Holds
  <2>6. Story(g, [live EXCEPT ![id] = b], Idle, B1, F1, new)
    BY <1>1, <2>1, <2>4, <2>5, GrantedStory
  <2>. QED
    BY <1>1, <1>7, <2>6 DEF g
<1>. QED
  BY <1>4, <1>5, <1>6, <1>7

\* The block of id was written, or is larger than it was; it stays where it is.
LEMMA SameOwners ==
  ASSUME TypeOK, NEW B, NEW F, NEW rank, Story(heap, live, call, B, F, rank), call = Idle,
         NEW id \in Ids, live[id] # Absent,
         NEW g, NEW new, Laid(g, B, F, new), Spread(g, F),
         \A q \in (B \ F) \ {live[id].ptr} : Intact(heap, g, q),
         NEW b, b.ptr = live[id].ptr, Holds(g, b, id)
  PROVE  Story(g, [live EXCEPT ![id] = b], Idle, B, F, new)
<1>. DEFINE l == [live EXCEPT ![id] = b]
            p == live[id].ptr
<1>1. g \in Heaps
  BY LaidApart
<1>2. \A i \in Ids : l[i] = IF i = id THEN b ELSE live[i]
  BY DEF TypeOK
<1>3. \A i \in Ids : live[i] # Absent => live[i].ptr \in B \ F
  BY DEF Story, Owned
<1>4. \A i, j \in Ids : i # j /\ live[i] # Absent /\ live[j] # Absent => live[i].ptr # live[j].ptr
  BY DEF Story, Owned
<1>5. \A q \in B \ F : \E i \in Ids : live[i] # Absent /\ live[i].ptr = q
  BY DEF Story, Owned
<1>6. ASSUME NEW i \in Ids, live[i] # Absent, i # id PROVE Holds(g, live[i], i)
  <2>1. Intact(heap, g, live[i].ptr)
    BY <1>3, <1>4, <1>6
  <2>. QED
    BY <1>1, <1>6, <2>1, OwnedIntact
<1>7. b # Absent
  <2>1. Sound(heap) /\ Apart(heap, B) /\ p \in B
    BY <1>3, LaidApart DEF Story
  <2>2. p # NULL
    BY <2>1, BlockIs DEF NULL
  <2>. QED
    BY <2>2 DEF Absent
<1>. HIDE DEF l
<1>8. \A i \in Ids : l[i] # Absent => l[i].ptr \in B \ F /\ Holds(g, l[i], i)
  <2>. TAKE i \in Ids
  <2>1. CASE i = id
    BY <1>2, <1>3, <2>1
  <2>2. CASE i # id
    BY <1>2, <1>3, <1>6, <2>2
  <2>. QED
    BY <2>1, <2>2
<1>9. \A i \in Ids : (l[i] # Absent <=> live[i] # Absent) /\ (l[i] # Absent => l[i].ptr = live[i].ptr)
  BY <1>2, <1>7
<1>10. \A i, j \in Ids : i # j /\ l[i] # Absent /\ l[j] # Absent => l[i].ptr # l[j].ptr
  BY <1>4, <1>9
<1>11. \A q \in B \ F : \E i \in Ids : l[i] # Absent /\ l[i].ptr = q
  BY <1>5, <1>9
<1>12. Owned(g, l, Idle, B, F)
  BY <1>8, <1>10, <1>11 DEF Owned
<1>13. InProgress(g, Idle, B, F)
  BY DEF InProgress
<1>. QED
  BY <1>12, <1>13 DEF Story, l

\* Free blocks that stay are as far apart as they were.
LEMMA SameSpread ==
  ASSUME NEW h, NEW F, Spread(h, F), NEW g, g.brk = h.brk, \A q \in F : Total(g, q) = Total(h, q)
  PROVE  Spread(g, F)
  BY DEF Spread, Tail

\* The block of a client
LEMMA LiveBlock ==
  ASSUME TypeOK, NEW B, NEW F, NEW rank, Story(heap, live, call, B, F, rank),
         NEW id \in Ids, live[id] # Absent
  PROVE  /\ live[id].ptr \in B \ F /\ live[id].ptr \in B
         /\ live[id].ptr \in Nat /\ get_header(heap, live[id].ptr) \in Nat
         /\ get_header(heap, live[id].ptr) >= 16 /\ get_header(heap, live[id].ptr) % 8 = 0
         /\ Total(heap, live[id].ptr) = get_header(heap, live[id].ptr) + 8
         /\ live[id].ptr + get_header(heap, live[id].ptr) + 4 <= heap.brk
         /\ live[id].size <= get_header(heap, live[id].ptr) /\ live[id].data <= live[id].size
<1>1. live[id].ptr \in B \ F /\ Holds(heap, live[id], id)
  BY DEF Story, Owned
<1>2. Sound(heap) /\ Apart(heap, B)
  BY LaidApart DEF Story
<1>. QED
  BY <1>1, <1>2, BlockIs DEF Holds

\* A client that fills its block disturbs nothing.
LEMMA WriteStory ==
  ASSUME TypeOK, NEW B, NEW F, NEW rank, Story(heap, live, call, B, F, rank), NEW id \in Ids, Write(id)
  PROVE  Story(heap', live', call', B, F, rank)
<1>. DEFINE p == live[id].ptr
            n == live[id].size
            b == [live[id] EXCEPT !.data = n]
            W == {a \in Words : p <= a /\ a + 4 <= p + n}
            m == [a \in Words |-> IF p <= a /\ a + 4 <= p + n THEN id ELSE heap.mem[a]]
<1>1. /\ call = Idle /\ call' = Idle /\ live[id] # Absent
      /\ heap' = [heap EXCEPT !.mem = m]
      /\ live' = [live EXCEPT ![id] = b]
  BY DEF Write
<1>2. /\ p \in B \ F /\ p \in Nat /\ get_header(heap, p) \in Nat /\ n <= get_header(heap, p) /\ n \in Nat
      /\ p + get_header(heap, p) + 4 <= heap.brk
  BY <1>1, LiveBlock, LiveType
<1>3. Laid(heap, B, F, rank) /\ Spread(heap, F) /\ Sound(heap) /\ heap \in Heaps
  BY LaidApart DEF Story
<1>4. /\ heap' \in Heaps /\ heap'.wild = heap.wild /\ heap'.brk = heap.brk /\ heap'.freelist = heap.freelist
      /\ heap'.mem = m
  <2>1. id \in Uint32
    BY IdsAssumption DEF Uint32
  <2>2. m \in [Words -> Uint32]
    BY <1>3, <2>1 DEF Heaps
  <2>. HIDE DEF m
  <2>. QED
    BY <1>1, <1>3, <2>2 DEF Heaps
<1>5. Wrote(heap, heap', W)
  BY <1>4 DEF Wrote
<1>6. W \subseteq Region(heap, p) \ {p - 4}
  BY <1>2 DEF Region, Words
<1>7. /\ b.ptr = p /\ b.size = n /\ b.data = n
  BY LiveRecord
<1>. HIDE DEF b
<1>8. \A a \in Words : p <= a /\ a + 4 <= p + n => heap'.mem[a] = id
  BY <1>4
<1>. HIDE DEF m, W, p, n
<1>9. /\ Laid(heap', B, F, rank)
      /\ \A q \in B : get_header(heap', q) = get_header(heap, q) /\ Total(heap', q) = Total(heap, q)
      /\ \A q \in B \ {p} : Intact(heap, heap', q)
  BY <1>2, <1>3, <1>4, <1>5, <1>6, PayloadLaid
<1>10. Spread(heap', F)
  <2>1. F \subseteq B
    BY <1>3, LaidApart
  <2>. QED
    BY <1>3, <1>4, <1>9, <2>1, SameSpread
<1>11. Holds(heap', b, id)
  <2>1. Footer(heap, p) = 1
    BY <1>1, IdleStory, <1>2
  <2>2. Footer(heap', p) = Footer(heap, p)
    <3>1. p \in B /\ get_header(heap', p) = get_header(heap, p)
      BY <1>2, <1>9
    <3>2. p + get_header(heap, p) \notin W
      BY <1>2 DEF W, Words
    <3>3. p + get_header(heap, p) \in Words
      <4>1. Apart(heap, B)
        BY <1>3, LaidApart
      <4>. QED
        BY <1>3, <3>1, <4>1, BlockWords DEF Apart
    <3>. QED
      BY <1>5, <3>1, <3>2, <3>3 DEF Footer, get_footer, Load, Wrote
  <2>3. b.size <= get_header(heap', b.ptr) /\ b.data <= b.size
    BY <1>2, <1>7, <1>9
  <2>. QED
    BY <1>7, <1>8, <2>1, <2>2, <2>3 DEF Holds
<1>. QED
  <2>1. \A q \in (B \ F) \ {live[id].ptr} : Intact(heap, heap', q)
    BY <1>9 DEF p
  <2>2. b.ptr = live[id].ptr
    BY <1>7 DEF p
  <2>. QED
    BY <1>1, <1>9, <1>10, <1>11, <2>1, <2>2, SameOwners

\* What my_realloc() leaves of the client's view
LEMMA Resized ==
  ASSUME TypeOK, NEW id \in Ids, NEW size \in Nat
  PROVE  LET b == [ptr |-> live[id].ptr, size |-> size, data |-> AtMost(live[id].data, size)]
         IN  /\ [live EXCEPT ![id].size = size, ![id].data = AtMost(live[id].data, size)] = [live EXCEPT ![id] = b]
             /\ b.data <= live[id].data /\ b.data <= b.size /\ b.data \in Nat
<1>1. live[id] = [ptr |-> live[id].ptr, size |-> live[id].size, data |-> live[id].data]
  BY LiveRecord
<1>2. live[id].data \in Nat
  BY LiveType
<1>3. live \in [Ids -> Holdings]
  BY DEF TypeOK
<1>4. [[live[id] EXCEPT !.size = size] EXCEPT !.data = AtMost(live[id].data, size)]
        = [ptr |-> live[id].ptr, size |-> size, data |-> AtMost(live[id].data, size)]
  <2>1. live[id] \in Holdings
    BY DEF TypeOK
  <2>2. \A r \in Holdings : [r EXCEPT !.size = size] = [ptr |-> r.ptr, size |-> size, data |-> r.data]
    BY DEF Holdings
  <2>3. \A r \in [ptr : Int, size : Nat, data : {0} \cup Sizes] : \A e :
          [r EXCEPT !.data = e] = [ptr |-> r.ptr, size |-> r.size, data |-> e]
    OBVIOUS
  <2>4. [live[id] EXCEPT !.size = size] \in [ptr : Int, size : Nat, data : {0} \cup Sizes]
    BY <2>1, <2>2 DEF Holdings
  <2>5. [live[id] EXCEPT !.size = size].ptr = live[id].ptr /\ [live[id] EXCEPT !.size = size].size = size
    BY <2>1, <2>2
  <2>. QED
    BY <2>3, <2>4, <2>5
<1>5. [live EXCEPT ![id].size = size, ![id].data = AtMost(live[id].data, size)]
        = [live EXCEPT ![id] = [[live[id] EXCEPT !.size = size] EXCEPT !.data = AtMost(live[id].data, size)]]
  BY <1>3
<1>6. AtMost(live[id].data, size) <= live[id].data /\ AtMost(live[id].data, size) <= size /\ AtMost(live[id].data, size) \in Nat
  BY <1>2 DEF AtMost
<1>. QED
  BY <1>4, <1>5, <1>6

\* my_realloc() to a smaller size
LEMMA ReallocShrinkStory ==
  ASSUME TypeOK, NEW B, NEW F, NEW rank, Story(heap, live, call, B, F, rank),
         NEW id \in Ids, NEW size \in Sizes, ReallocShrink(id, size)
  PROVE  Story(heap', live', call', B, F, rank)
<1>. DEFINE p == live[id].ptr
            b == [ptr |-> p, size |-> size, data |-> AtMost(live[id].data, size)]
<1>0. size \in Nat
  BY RequestFits
<1>1. /\ call = Idle /\ call' = Idle /\ live[id] # Absent /\ heap' = heap
      /\ live' = [live EXCEPT ![id] = b] /\ ALIGN(size) < get_header(heap, p)
  <2>1. live' = [live EXCEPT ![id].size = size, ![id].data = AtMost(live[id].data, size)]
    BY DEF ReallocShrink
  <2>2. live' = [live EXCEPT ![id] = b]
    BY <1>0, <2>1, Resized
  <2>. QED
    BY <2>2 DEF ReallocShrink
<1>2. /\ b.ptr = p /\ b.size = size /\ b.data <= live[id].data /\ b.data <= size /\ b.data \in Nat
  BY <1>0, Resized
<1>. HIDE DEF b
<1>3. p \in Nat /\ get_header(heap, p) \in Nat /\ Holds(heap, live[id], id) /\ live[id].data \in Nat
  BY <1>1, LiveBlock, LiveType DEF Story, Owned
<1>4. size <= get_header(heap, p)
  BY <1>0, <1>1, <1>3, AlignIs
<1>5. Holds(heap, b, id)
  <2>1. ASSUME NEW a \in Words, p <= a, a + 4 <= p + b.data PROVE heap.mem[a] = id
    <3>1. a + 4 <= p + live[id].data
      BY <1>2, <1>3, <2>1 DEF Words
    <3>. QED
      BY <1>3, <2>1, <3>1 DEF Holds
  <2>. QED
    BY <1>2, <1>3, <1>4, <2>1 DEF Holds
<1>6. Laid(heap, B, F, rank) /\ Spread(heap, F)
  BY DEF Story
<1>7. \A q \in (B \ F) \ {p} : Intact(heap, heap, q)
  BY DEF Intact
<1>. QED
  BY <1>1, <1>2, <1>5, <1>6, <1>7, SameOwners

\* my_realloc() of the last block, in place
LEMMA ReallocLastStory ==
  ASSUME TypeOK, NEW B, NEW F, NEW rank, Story(heap, live, call, B, F, rank),
         NEW id \in Ids, NEW size \in Sizes, ReallocLast(id, size)
  PROVE  (heap'.wild /\ Exhausted) \/ \E B1, F1, new : Story(heap', live', call', B1, F1, new)
<1>. DEFINE p == live[id].ptr
            copy == get_header(heap, p)
            need == ALIGN(ALIGN(size) - copy)
            v    == copy + need
            b == [ptr |-> p, size |-> size, data |-> AtMost(live[id].data, size)]
<1>0. size \in Nat /\ BlockSize(size) \in Uint32 /\ BlockSize(size) \in Nat
  BY RequestFits DEF Uint32
<1>1. /\ call = Idle /\ call' = Idle /\ live[id] # Absent
      /\ live' = [live EXCEPT ![id] = b] /\ ALIGN(size) >= copy /\ EndsHeap(heap, p)
      /\ heap' = set_footer(set_header(mem_sbrk(heap, need), p, v), p, v, FOOTER_ALLOC_FLAG)
  <2>1. live' = [live EXCEPT ![id].size = size, ![id].data = AtMost(live[id].data, size)]
    BY DEF ReallocLast
  <2>2. live' = [live EXCEPT ![id] = b]
    BY <1>0, <2>1, Resized
  <2>. QED
    BY <2>2 DEF ReallocLast
<1>2. /\ b.ptr = p /\ b.size = size /\ b.data <= live[id].data /\ b.data <= size /\ b.data \in Nat
  BY <1>0, Resized
<1>3. /\ p \in B \ F /\ p \in B /\ p \in Nat /\ copy \in Nat /\ copy % 8 = 0 /\ Total(heap, p) = copy + 8
      /\ Holds(heap, live[id], id) /\ live[id].data \in Nat
      /\ live[id].data <= copy
  <2>1. live[id].data \in Nat /\ live[id].size \in Nat
    BY LiveType
  <2>. QED
    BY <1>1, <2>1, LiveBlock DEF Story, Owned
<1>4. /\ Laid(heap, B, F, rank) /\ Spread(heap, F) /\ Sound(heap) /\ heap \in Heaps /\ Apart(heap, B) /\ F \subseteq B
      /\ Covered(heap, B) /\ heap.brk \in Nat
  BY LaidApart, LaidBreak DEF Story
<1>5. p + Total(heap, p) = heap.brk + 4
  BY <1>1, <1>3, <1>4 DEF EndsHeap, FOOTER_SIZE
<1>6. need = ALIGN(size) - copy /\ need \in Nat /\ need % 8 = 0 /\ v = ALIGN(size) /\ ALIGN(size) \in Nat
  <2>1. ALIGN(size) \in Nat /\ ALIGN(size) % 8 = 0
    BY <1>0, AlignIs
  <2>2. ALIGN(size) - copy \in Nat /\ (ALIGN(size) - copy) % 8 = 0
    BY <1>1, <1>3, <2>1
  <2>3. need = ALIGN(size) - copy
    BY <2>2, AlignIs
  <2>. QED
    BY <1>3, <2>1, <2>2, <2>3
<1>7. ALIGN(size) + 8 <= BlockSize(size)
  BY <1>0, BlockSizeAligned
<1>8. need \in Uint32 /\ mask_size(need) = need
  <2>1. need <= BlockSize(size)
    BY <1>0, <1>3, <1>6, <1>7
  <2>2. MAX_BLOCK_SIZE \in Nat /\ BlockSize(size) < MAX_BLOCK_SIZE
    BY <1>0, MaxBlockSize DEF Uint32
  <2>. QED
    BY <1>0, <1>6, <2>1, <2>2 DEF Uint32, mask_size
<1>. HIDE DEF b, p, need, v, copy
<1>9. CASE CanGrow(heap, need)
  <2>1. /\ Laid(heap', B, F, rank) /\ heap'.brk = heap.brk + need
        /\ get_header(heap', p) = v /\ Footer(heap', p) = 1
        /\ \A r \in B \ {p} : get_header(heap', r) = get_header(heap, r) /\ Total(heap', r) = Total(heap, r)
        /\ \A r \in B \ {p} : Intact(heap, heap', r)
        /\ \A w \in Words : p <= w /\ w < p + copy => heap'.mem[w] = heap.mem[w]
    BY <1>1, <1>3, <1>4, <1>5, <1>6, <1>8, <1>9, ExtendLaid DEF v, copy
  <2>2. Spread(heap', F)
    <3>. SUFFICES ASSUME NEW q \in F, q + Total(heap', q) \in F PROVE FALSE
      BY DEF Spread
    <3>. DEFINE t == q + Total(heap, q)
    <3>1. q # p /\ q \in B /\ Total(heap', q) = Total(heap, q)
      BY <1>3, <1>4, <2>1
    <3>2. Tail(heap, t) /\ t \in F
      BY <1>4, <3>1 DEF Spread
    <3>3. t + 24 = heap.brk + 4 /\ Total(heap, t) = 24
      BY <3>2 DEF Tail
    <3>4. t \in B /\ t # p /\ t \in Nat
      BY <1>3, <1>4, <3>2, BlockIs
    <3>. HIDE DEF t
    <3>5. t < p => t + Total(heap, t) <= p
      BY <1>3, <1>4, <3>4 DEF Apart
    <3>6. p < t => p + Total(heap, p) <= t
      BY <1>3, <1>4, <3>4 DEF Apart
    <3>7. Total(heap, p) \in Nat /\ Total(heap, p) >= 24
      BY <1>3, <1>4, BlockIs
    <3>. QED
      BY <1>3, <1>4, <1>5, <3>3, <3>4, <3>5, <3>6, <3>7
  <2>3. Holds(heap', b, id)
    <3>1. ASSUME NEW a \in Words, p <= a, a + 4 <= p + b.data PROVE heap'.mem[a] = id
      <4>1. a + 4 <= p + live[id].data /\ a < p + copy
        BY <1>2, <1>3, <3>1 DEF Words
      <4>. QED
        BY <1>3, <2>1, <3>1, <4>1 DEF Holds, p
    <3>2. b.size <= get_header(heap', p)
      BY <1>0, <1>2, <1>6, <2>1, AlignIs
    <3>. QED
      BY <1>2, <2>1, <3>1, <3>2 DEF Holds
  <2>4. \A q \in (B \ F) \ {live[id].ptr} : Intact(heap, heap', q)
    BY <2>1 DEF p
  <2>5. b.ptr = live[id].ptr
    BY <1>2 DEF p
  <2>6. Story(heap', live', call', B, F, rank)
    BY <1>1, <2>1, <2>2, <2>3, <2>4, <2>5, SameOwners
  <2>. QED
    BY <2>6
<1>10. CASE ~CanGrow(heap, need)
  <2>1. heap'.wild
    <3>1. Fits(heap, p, copy) /\ p + copy + 4 = heap.brk
      BY <1>3, <1>4, <1>5 DEF Apart, copy
    <3>. QED
      BY <1>1, <1>4, <1>6, <1>8, <1>10, <3>1, ExtendWild DEF v, copy
  <2>2. heap.brk + BlockSize(size) > MAX_HEAP
    <3>1. ~(heap.brk + need <= MAX_HEAP) /\ MAX_HEAP \in Nat
      BY <1>8, <1>10, HeapAssumption DEF CanGrow
    <3>. QED
      BY <1>0, <1>3, <1>4, <1>6, <1>7, <3>1
  <2>. QED
    BY <2>1, <2>2 DEF Exhausted, Requests
<1>. QED
  BY <1>9, <1>10

\* What memcpy() leaves, in a block that is in use
LEMMA CopyLaid ==
  ASSUME NEW g, NEW B, NEW F, NEW rank, Laid(g, B, F, rank), Spread(g, F),
         NEW dst \in B \ F, Footer(g, dst) = 1, NEW src, src \in Nat, src % 8 = 0,
         NEW n \in Nat, n <= get_header(g, dst)
  PROVE  LET c == memcpy(g, dst, src, n) IN
         /\ Laid(c, B, F, rank) /\ Spread(c, F)
         /\ Footer(c, dst) = 1 /\ get_header(c, dst) = get_header(g, dst)
         /\ \A q \in B \ {dst} : Intact(g, c, q)
         /\ \A a \in Words : dst <= a /\ a + 4 <= dst + n => c.mem[a] = Load(g, src + (a - dst))
<1>. DEFINE m == [a \in Words |-> IF dst <= a /\ a < dst + n THEN Load(g, src + (a - dst)) ELSE g.mem[a]]
            c == memcpy(g, dst, src, n)
            W == {a \in Words : dst <= a /\ a < dst + n}
<1>1. g \in Heaps /\ Sound(g) /\ Apart(g, B) /\ F \subseteq B
  BY LaidApart
<1>2. dst \in Nat /\ get_header(g, dst) \in Nat /\ dst \in B
  BY <1>1, BlockIs
<1>3. c = [g EXCEPT !.mem = m]
  BY DEF memcpy
<1>4. m \in [Words -> Uint32]
  <2>1. \A a : Load(g, a) \in Uint32
    <3>1. 0 \in Uint32
      BY MaxBlockSize DEF Uint32
    <3>. QED
      BY <1>1, <3>1 DEF Load, Heaps
  <2>. QED
    BY <1>1, <2>1 DEF Heaps
<1>. HIDE DEF c
<1>5. /\ c \in Heaps /\ c.wild = g.wild /\ c.brk = g.brk /\ c.freelist = g.freelist /\ c.mem = m
  <2>. HIDE DEF m
  <2>. QED
    BY <1>1, <1>3, <1>4 DEF Heaps
<1>6. Wrote(g, c, W)
  BY <1>5 DEF Wrote
<1>7. W \subseteq Region(g, dst) \ {dst - 4}
  BY <1>2 DEF Region, Words
<1>8. dst + get_header(g, dst) \in Words /\ dst + get_header(g, dst) \notin W
  <2>1. dst + get_header(g, dst) \in Words
    BY <1>1, <1>2, BlockWords DEF Apart
  <2>. QED
    BY <1>2, <2>1
<1>9. \A a \in Words : dst <= a /\ a + 4 <= dst + n => c.mem[a] = Load(g, src + (a - dst))
  <2>1. \A a \in Words : a + 4 <= dst + n => a < dst + n
    BY <1>2 DEF Words
  <2>. QED
    BY <1>5, <2>1
<1>. HIDE DEF m, W
<1>10. /\ Laid(c, B, F, rank)
       /\ \A q \in B : get_header(c, q) = get_header(g, q) /\ Total(c, q) = Total(g, q)
       /\ \A q \in B \ {dst} : Intact(g, c, q)
  BY <1>5, <1>6, <1>7, PayloadLaid
<1>11. Spread(c, F)
  BY <1>1, <1>5, <1>10, SameSpread
<1>12. Footer(c, dst) = Footer(g, dst) /\ get_header(c, dst) = get_header(g, dst)
  <2>1. get_header(c, dst) = get_header(g, dst)
    BY <1>2, <1>10
  <2>. QED
    BY <1>6, <1>8, <2>1 DEF Footer, get_footer, Load, Wrote
<1>. QED
  BY <1>9, <1>10, <1>11, <1>12 DEF c

\* my_realloc() to another place
LEMMA ReallocMoveStory ==
  ASSUME TypeOK, NEW B, NEW F, NEW rank, Story(heap, live, call, B, F, rank),
         NEW id \in Ids, NEW size \in Sizes, ReallocMove(id, size)
  PROVE  (heap'.wild /\ Exhausted) \/ \E B1, F1, new : Story(heap', live', call', B1, F1, new)
<1>. DEFINE p == live[id].ptr
            copy == get_header(heap, p)
            n == BlockSize(ALIGN(size))
            r == my_malloc(heap, ALIGN(size))
            g == r.heap
            dst == r.ptr
            copied == memcpy(g, dst, p, copy)
            b == [ptr |-> dst, size |-> size, data |-> AtMost(live[id].data, size)]
<1>0. /\ size \in Nat /\ ALIGN(size) \in Nat /\ size <= ALIGN(size)
      /\ n = BlockSize(size) /\ n \in Uint32 /\ n \in Nat /\ ALIGN(size) + 8 <= n
  BY RequestFits, BlockSizeAligned, AlignIs DEF Uint32
<1>1. /\ call = Idle /\ live[id] # Absent /\ ALIGN(size) >= copy
      /\ dst = NULL => heap' = g /\ live' = live /\ call' = call
      /\ dst # NULL => heap' = copied /\ call' = StartFree(copied, p) /\ live' = [live EXCEPT ![id] = b]
  BY DEF ReallocMove
<1>2. Laid(heap, B, F, rank) /\ Spread(heap, F) /\ \A q \in B \ F : Footer(heap, q) = 1
  BY <1>1, IdleStory DEF Story
<1>3. \/ dst = NULL /\ g = heap
      \/ g.wild /\ heap.brk + n > MAX_HEAP
      \/ dst # NULL /\ Granted(heap, B, F, g, dst, n)
  BY <1>0, <1>2, MallocGrants
<1>4. b.ptr = dst /\ b.size = size /\ b.data <= live[id].data /\ b.data <= size /\ b.data \in Nat
  <2>1. live[id].data \in Nat
    BY LiveType
  <2>. QED
    BY <1>0, <2>1 DEF AtMost
<1>5. copied.wild = g.wild
  <2>. HIDE DEF r, p
  <2>. QED
    BY DEF memcpy
<1>6. CASE dst = NULL /\ g = heap
  <2>1. heap' = heap /\ live' = live /\ call' = call
    BY <1>1, <1>6
  <2>. QED
    BY <2>1
<1>7. CASE g.wild /\ heap.brk + n > MAX_HEAP
  <2>1. heap'.wild
    BY <1>1, <1>5, <1>7
  <2>. QED
    BY <1>0, <1>7, <2>1 DEF Exhausted, Requests
<1>8. CASE dst # NULL /\ Granted(heap, B, F, g, dst, n)
  <2>. HIDE DEF n, r, copied, b
  <2>1. PICK B1, F1, new :
          /\ Laid(g, B1, F1, new) /\ Spread(g, F1)
          /\ B1 \ F1 = (B \ F) \cup {dst} /\ dst \notin B \ F
          /\ Footer(g, dst) = 1 /\ n <= get_header(g, dst) + 8
          /\ \A q \in B \ F : Intact(heap, g, q)
    BY <1>8 DEF Granted
  <2>2. /\ p \in B \ F /\ p \in Nat /\ copy \in Nat /\ p # dst
        /\ Holds(heap, live[id], id) /\ live[id].data \in Nat /\ live[id].data <= copy
        /\ p % 8 = 0 /\ p >= 8 /\ Sound(heap) /\ heap \in Heaps /\ Apart(heap, B)
    <3>1. live[id].data \in Nat /\ live[id].size \in Nat
      BY LiveType
    <3>2. Sound(heap) /\ Apart(heap, B) /\ heap \in Heaps
      BY <1>2, LaidApart
    <3>. QED
      BY <1>1, <2>1, <3>1, <3>2, LiveBlock, BlockIs DEF Story, Owned
  <2>3. dst \in B1 \ F1 /\ dst \in B1
    BY <2>1
  <2>4. /\ dst \in Nat /\ get_header(g, dst) \in Nat /\ dst % 8 = 0 /\ g \in Heaps
    <3>1. Sound(g) /\ Apart(g, B1) /\ g \in Heaps
      BY <2>1, LaidApart
    <3>. QED
      BY <2>3, <3>1, BlockIs
  <2>5. copy <= get_header(g, dst) /\ size <= get_header(g, dst)
    BY <1>0, <1>1, <2>1, <2>2, <2>4
  <2>. HIDE DEF p, copy, g, dst
  <2>6. /\ Laid(copied, B1, F1, new) /\ Spread(copied, F1)
        /\ Footer(copied, dst) = 1 /\ get_header(copied, dst) = get_header(g, dst)
        /\ \A q \in B1 \ {dst} : Intact(g, copied, q)
        /\ \A a \in Words : dst <= a /\ a + 4 <= dst + copy => copied.mem[a] = Load(g, p + (a - dst))
    BY <2>1, <2>2, <2>3, <2>5, CopyLaid DEF copied
  <2>7. Holds(copied, b, id)
    <3>1. ASSUME NEW a \in Words, dst <= a, a + 4 <= dst + b.data
          PROVE  copied.mem[a] = id
      <4>. DEFINE s == p + (a - dst)
      <4>1. a \in Nat /\ a % 4 = 0 /\ a + 4 <= dst + copy
        BY <1>4, <2>2, <2>4, <3>1 DEF Words
      <4>2. s \in Nat /\ p <= s /\ s + 4 <= p + live[id].data /\ s % 4 = 0
        BY <1>4, <2>2, <2>4, <3>1, <4>1
      <4>3. s \in Region(heap, p) /\ s \in Words
        <5>1. p + copy + 4 <= heap.brk /\ heap.brk <= MAX_HEAP /\ heap.brk \in Nat /\ MAX_HEAP \in Nat
          BY <1>1, <1>2, LiveBlock, LaidBreak DEF p, copy
        <5>. QED
          BY <2>2, <4>2, <5>1 DEF Words, Region, copy
      <4>4. heap.mem[s] = id
        BY <2>2, <4>2, <4>3 DEF Holds, p
      <4>5. g.mem[s] = heap.mem[s]
        BY <2>1, <2>2, <4>3 DEF Intact
      <4>. QED
        BY <2>6, <3>1, <4>1, <4>3, <4>4, <4>5 DEF Load
    <3>. QED
      BY <1>4, <2>5, <2>6, <3>1 DEF Holds
  <2>8. \A q \in B \ F : Intact(heap, copied, q)
    <3>. TAKE q \in B \ F
    <3>1. Intact(heap, g, q) /\ Intact(g, copied, q)
      BY <2>1, <2>6
    <3>2. get_header(g, q) = get_header(heap, q)
      <4>1. Kept(heap, g, q)
        BY <2>2, <2>4, <3>1, IntactKept DEF Apart
      <4>. QED
        BY <4>1 DEF Kept
    <3>. QED
      BY <3>1, <3>2 DEF Intact, Region
  <2>9. Story(copied, [live EXCEPT ![id] = b], StartFree(copied, p), B1, F1, new)
    <3>1. StartFree(copied, p) = StartFree(copied, live[id].ptr)
      BY DEF p
    <3>. QED
      BY <1>1, <1>4, <2>1, <2>6, <2>7, <2>8, <3>1, GrantedStory
  <2>. QED
    BY <1>1, <1>8, <2>9
<1>. QED
  BY <1>3, <1>6, <1>7, <1>8

\* Every step keeps the picture, or memory runs out.
LEMMA NextStory ==
  ASSUME TypeOK, NEW B, NEW F, NEW rank, Story(heap, live, call, B, F, rank), Next
  PROVE  (heap'.wild /\ Exhausted) \/ \E B1, F1, new : Story(heap', live', call', B1, F1, new)
<1>1. CASE CoalesceFront
  BY <1>1, FrontStory
<1>2. CASE CoalesceBack
  BY <1>2, BackStory
<1>3. CASE InsertFree
  BY <1>3, InsertStory
<1>4. ASSUME NEW id \in Ids, NEW size \in Sizes, Malloc(id, size)
      PROVE  (heap'.wild /\ Exhausted) \/ \E B1, F1, new : Story(heap', live', call', B1, F1, new)
  BY <1>4, MallocStory
<1>5. ASSUME NEW id \in Ids, Write(id)
      PROVE  Story(heap', live', call', B, F, rank)
  BY <1>5, WriteStory
<1>6. ASSUME NEW id \in Ids, Free(id)
      PROVE  Story(heap', live', call', B, F, rank)
  BY <1>6, FreeStory
<1>7. ASSUME NEW id \in Ids, NEW size \in Sizes, ReallocShrink(id, size)
      PROVE  Story(heap', live', call', B, F, rank)
  BY <1>7, ReallocShrinkStory
<1>8. ASSUME NEW id \in Ids, NEW size \in Sizes, ReallocLast(id, size)
      PROVE  (heap'.wild /\ Exhausted) \/ \E B1, F1, new : Story(heap', live', call', B1, F1, new)
  BY <1>8, ReallocLastStory
<1>9. ASSUME NEW id \in Ids, NEW size \in Sizes, ReallocMove(id, size)
      PROVE  (heap'.wild /\ Exhausted) \/ \E B1, F1, new : Story(heap', live', call', B1, F1, new)
  BY <1>9, ReallocMoveStory
<1>10. CASE Reset
  BY <1>10, ResetStory
<1>. QED
  BY <1>1, <1>2, <1>3, <1>4, <1>5, <1>6, <1>7, <1>8, <1>9, <1>10 DEF Next, Running

\* The picture is of heaps that no store left.
LEMMA StoryTame ==
  ASSUME NEW h, NEW l, NEW c, NEW B, NEW F, NEW rank, Story(h, l, c, B, F, rank)
  PROVE  h.wild = FALSE
BY LaidApart DEF Story

\* The invariant holds at the start and every step keeps it.
THEOREM Inductive == Spec => []IInv
<1>1. Init => IInv
  BY InitTypeOK, InitStory DEF IInv
<1>2. IInv /\ [Next]_vars => IInv'
  <2>. SUFFICES ASSUME IInv, [Next]_vars PROVE IInv'
    OBVIOUS
  <2>1. TypeOK'
    BY NextTypeOK DEF IInv
  <2>2. CASE UNCHANGED vars
    <3>1. heap' = heap /\ live' = live /\ call' = call
      BY <2>2 DEF vars
    <3>. QED
      BY <2>1, <3>1 DEF IInv
  <2>3. CASE Next
    <3>1. PICK B, F, rank : Story(heap, live, call, B, F, rank)
      BY <2>3 DEF IInv, Next
    <3>2. heap'.wild \/ \E B1, F1, new : Story(heap', live', call', B1, F1, new)
      BY <2>3, <3>1, NextStory DEF IInv
    <3>. QED
      BY <2>1, <3>2 DEF IInv
  <2>. QED
    BY <2>2, <2>3
<1>. QED
  BY <1>1, <1>2, PTL DEF Spec

\* A store leaves the heap only in a request that meets too little memory for
\* the block it asks for (WildOnlyWhenExhausted).
THEOREM OnlyWhenExhausted == Spec => WildOnlyWhenExhausted
<1>1. IInv /\ [Next]_vars => [~heap.wild /\ heap'.wild => Exhausted]_vars
  <2>. SUFFICES ASSUME IInv, [Next]_vars, ~heap.wild, heap'.wild, ~UNCHANGED vars
                PROVE  Exhausted
    OBVIOUS
  <2>1. PICK B, F, rank : Story(heap, live, call, B, F, rank)
    BY DEF IInv
  <2>2. ~\E B1, F1, new : Story(heap', live', call', B1, F1, new)
    BY StoryTame
  <2>. QED
    BY <2>1, <2>2, NextStory DEF IInv
<1>2. [~heap.wild /\ heap'.wild => Exhausted]_vars
        => [~heap.wild /\ heap'.wild
              => \E id \in Ids, size \in Sizes :
                   Requests(id, size) /\ heap.brk + BlockSize(size) > MAX_HEAP]_vars
  BY DEF Exhausted
<1>. QED
  BY <1>1, <1>2, Inductive, PTL DEF Spec, WildOnlyWhenExhausted

-----------------------------------------------------------------------------
(* What the walks of the code see of the picture.                          *)

\* There are no more blocks than the bound of the walks.
LEMMA BlocksFew ==
  ASSUME NEW h, Sound(h), NEW B, Apart(h, B)
  PROVE  IsFiniteSet(B) /\ Cardinality(B) <= MaxBlocks
<1>. DEFINE place == [p \in B |-> (p - 4) \div 24]
<1>1. /\ \A p \in B : p \in Nat /\ p >= 8 /\ Total(h, p) \in Nat /\ Total(h, p) >= 24 /\ p - 4 + Total(h, p) <= h.brk
      /\ h.brk <= MAX_HEAP /\ MAX_HEAP \in Nat /\ h.brk \in Nat
  <2>1. h.brk <= MAX_HEAP /\ MAX_HEAP \in Nat /\ h.brk \in Nat
    BY HeapAssumption DEF Sound, Heaps
  <2>2. \A p \in B : /\ p \in Nat /\ p >= 8 /\ get_header(h, p) \in Nat /\ get_header(h, p) >= 16
                     /\ Total(h, p) = get_header(h, p) + 8 /\ p + get_header(h, p) + 4 <= h.brk
    BY BlockIs
  <2>. QED
    BY <2>1, <2>2
<1>2. MaxBlocks = MAX_HEAP \div 24 /\ MaxBlocks \in Nat
  BY MaxBlocksType DEF MaxBlocks, MIN_BLOCK_SIZE_ACTUAL
<1>3. \A p \in B : place[p] \in 0..(MaxBlocks - 1)
  <2>. TAKE p \in B
  <2>1. p - 4 \in Nat /\ p - 4 + 24 <= MAX_HEAP
    BY <1>1
  <2>2. (p - 4) \div 24 \in Nat /\ (p - 4) \div 24 + 1 <= MAX_HEAP \div 24
    BY <1>1, <2>1
  <2>. QED
    BY <1>2, <2>2
<1>4. \A p, q \in B : p < q => place[p] # place[q]
  <2>. SUFFICES ASSUME NEW p \in B, NEW q \in B, p < q PROVE place[p] # place[q]
    OBVIOUS
  <2>1. p + Total(h, p) <= q
    BY DEF Apart
  <2>2. p - 4 \in Nat /\ q - 4 \in Nat /\ p - 4 + 24 <= q - 4
    BY <1>1, <2>1
  <2>3. (p - 4) \div 24 + 1 <= (q - 4) \div 24 /\ (p - 4) \div 24 \in Nat /\ (q - 4) \div 24 \in Nat
    BY <2>2
  <2>. QED
    BY <2>3
<1>5. place \in Injection(B, 0..(MaxBlocks - 1))
  <2>1. \A p, q \in B : place[p] = place[q] => p = q
    <3>1. \A p, q \in B : p < q \/ q < p \/ p = q
      BY <1>1
    <3>. HIDE DEF place
    <3>. QED
      BY <1>4, <3>1
  <2>. QED
    BY <1>3, <2>1 DEF Injection, IsInjective
<1>6. IsFiniteSet(0..(MaxBlocks - 1)) /\ Cardinality(0..(MaxBlocks - 1)) = MaxBlocks
  <2>1. 0 \in Int /\ MaxBlocks - 1 \in Int
    BY <1>2
  <2>2. /\ IsFiniteSet(0..(MaxBlocks - 1))
        /\ Cardinality(0..(MaxBlocks - 1)) = IF 0 > MaxBlocks - 1 THEN 0 ELSE (MaxBlocks - 1) - 0 + 1
    BY <2>1, FS_Interval
  <2>. QED
    BY <1>2, <2>2
<1>. QED
  BY <1>5, <1>6, FS_Injection

\* The headers lead along the blocks to the end of the heap.
LEMMA WalkIs ==
  ASSUME NEW h, NEW B, NEW F, NEW rank, Laid(h, B, F, rank)
  PROVE  /\ HeaderWalk(h) = B \cup {h.brk + 4} /\ Blocks(h) = B
         /\ HeaderWalk(h) \ Blocks(h) = {h.brk + 4}
<1>. DEFINE next == [p \in 0..(h.brk - 1) |-> p + Total(h, p)]
            place == [p \in B |-> p]
            end == h.brk + 4
<1>1. Sound(h) /\ Apart(h, B) /\ Covered(h, B) /\ h.brk \in Nat
  BY LaidApart, LaidBreak
<1>2. \A p \in B : p \in Nat /\ p < h.brk /\ Total(h, p) \in Nat /\ Total(h, p) >= 24 /\ p \in DOMAIN next
                   /\ next[p] = p + Total(h, p)
  <2>1. \A p \in B : /\ p \in Nat /\ p >= 8 /\ get_header(h, p) \in Nat /\ get_header(h, p) >= 16
                     /\ Total(h, p) = get_header(h, p) + 8 /\ p + get_header(h, p) + 4 <= h.brk
    BY <1>1, BlockIs
  <2>2. \A p \in B : p \in 0..(h.brk - 1)
    BY <1>1, <2>1
  <2>. QED
    BY <1>1, <2>1, <2>2
<1>3. end \notin DOMAIN next /\ end \notin B
  <2>1. ~(end < h.brk)
    BY <1>1
  <2>2. DOMAIN next = 0..(h.brk - 1)
    OBVIOUS
  <2>3. end \notin 0..(h.brk - 1)
    BY <1>1
  <2>. HIDE DEF next, end
  <2>. QED
    BY <1>2, <2>1, <2>2, <2>3
<1>4. \A p \in B : place[p] \in Nat /\ place[p] = p
  BY <1>2
<1>5. \A p \in B : p = 8 \/ \E q \in B : next[q] = p /\ place[q] < place[p]
  <2>. TAKE p \in B
  <2>. HIDE DEF next, place
  <2>1. p = 8 \/ \E q \in B : q + Total(h, q) = p
    BY <1>1 DEF Covered
  <2>. QED
    BY <1>2, <1>4, <2>1
<1>6. Chain(8, next, end, B, place)
  <2>1. 8 \in B \cup {end} /\ \A p \in B : next[p] \in B \cup {end}
    BY <1>1, <1>2 DEF Covered
  <2>. HIDE DEF next, place, end
  <2>. QED
    BY <1>2, <1>3, <1>4, <1>5, <2>1 DEF Chain
<1>7. HeaderWalk(h) = Reachable(8, next)
  BY DEF HeaderWalk, INIT_OFFSET, HEADER_SIZE
<1>8. 8 = end \/ \E q \in B : next[q] = end
  <2>1. end = 8 \/ \E q \in B : q + Total(h, q) = end
    BY <1>1 DEF Covered
  <2>. HIDE DEF next, end
  <2>. QED
    BY <1>2, <2>1
<1>. HIDE DEF next, place, end
<1>9. B \subseteq Reachable(8, next) /\ Reachable(8, next) \subseteq B \cup {end} /\ end \in Reachable(8, next)
  BY <1>1, <1>6, <1>8, BlocksFew, ReachableIs
<1>10. HeaderWalk(h) = B \cup {end}
  BY <1>7, <1>9
<1>11. ~(end < h.brk)
  BY <1>1 DEF end
<1>12. Blocks(h) = B
  BY <1>2, <1>10, <1>11 DEF Blocks
<1>. QED
  BY <1>3, <1>10, <1>12 DEF end

\* The list of a bin has the free blocks of that bin.
LEMMA ListIs ==
  ASSUME NEW h, NEW B, NEW F, NEW rank, Laid(h, B, F, rank), NEW i \in Bins
  PROVE  FreeList(h, i) = {p \in F : Bin(h, p) = i}
<1>. DEFINE next == [p \in Words \ {NULL} |-> Next_(h, p)]
            R == {p \in F : Bin(h, p) = i}
            first == h.freelist[i]
<1>1. Sound(h) /\ Apart(h, F) /\ Apart(h, B) /\ F \subseteq B /\ Listed(h, F, rank)
  BY LaidApart
<1>2. \A p \in F : p \in Words \ {NULL} /\ p # NULL /\ next[p] = Next_(h, p)
  <2>. TAKE p \in F
  <2>1. p \in Words /\ p \in Nat /\ p >= 8
    BY <1>1, BlockWords DEF Apart, Sound, Fits
  <2>. QED
    BY <2>1 DEF NULL
<1>3. R \subseteq DOMAIN next /\ NULL \notin DOMAIN next
  BY <1>2
<1>. HIDE DEF next
<1>4. first \in R \cup {NULL}
  BY <1>1 DEF Listed
<1>5. \A p \in R : next[p] \in R \cup {NULL} /\ rank[p] \in Nat
  BY <1>1, <1>2 DEF Listed
<1>6. \A p \in R : p = first \/ \E q \in R : next[q] = p /\ rank[q] < rank[p]
  <2>. TAKE p \in R
  <2>1. CASE Prev(h, p) = NULL
    BY <1>1, <1>2, <2>1 DEF Listed, first
  <2>2. CASE Prev(h, p) # NULL
    <3>. DEFINE q == Prev(h, p)
    <3>1. q \in F /\ Next_(h, q) = p /\ p # NULL
      BY <1>1, <1>2, <2>2 DEF Listed
    <3>. HIDE DEF q
    <3>2. Bin(h, p) = Bin(h, q) /\ rank[q] < rank[p]
      BY <1>1, <3>1 DEF Listed
    <3>. QED
      BY <1>2, <3>1, <3>2
  <2>. QED
    BY <2>1, <2>2
<1>7. IsFiniteSet(R) /\ Cardinality(R) <= MaxBlocks
  <2>1. Apart(h, R)
    BY <1>1 DEF Apart
  <2>. QED
    BY <1>1, <2>1, BlocksFew
<1>. HIDE DEF R, first
<1>8. Chain(first, next, NULL, R, rank)
  BY <1>3, <1>4, <1>5, <1>6 DEF Chain
<1>9. R \subseteq Reachable(first, next) /\ Reachable(first, next) \subseteq R \cup {NULL}
  BY <1>7, <1>8, ReachableIs
<1>10. FreeList(h, i) = Reachable(first, next) \ {NULL}
  BY DEF FreeList, first, next
<1>11. NULL \notin R
  BY <1>2 DEF R
<1>. QED
  BY <1>9, <1>10, <1>11 DEF R

\* The walks along the lists find the free blocks.
LEMMA NodesAre ==
  ASSUME NEW h, NEW B, NEW F, NEW rank, Laid(h, B, F, rank)
  PROVE  FreeNodes(h) = F
<1>1. \A p \in F : Bin(h, p) \in Bins
  BY LaidApart, HeaderIs DEF Apart
<1>2. \A i \in Bins : FreeList(h, i) = {p \in F : Bin(h, p) = i}
  BY ListIs
<1>3. \A p : p \in FreeNodes(h) <=> \E i \in Bins : p \in FreeList(h, i)
  BY DEF FreeNodes
<1>. QED
  BY <1>1, <1>2, <1>3

-----------------------------------------------------------------------------
(* What follows from the picture.                                          *)

\* my_check() returns 0.
LEMMA StoryChecks ==
  ASSUME NEW B, NEW F, NEW rank, Story(heap, live, call, B, F, rank)
  PROVE  CheckPasses
<1>1. Laid(heap, B, F, rank) /\ Listed(heap, F, rank)
  BY LaidApart DEF Story
<1>2. HeaderWalk(heap) \ Blocks(heap) = {heap.brk + HEADER_SIZE}
  BY <1>1, WalkIs DEF HEADER_SIZE
<1>3. FreeNodes(heap) = F
  BY <1>1, NodesAre
<1>4. \A p \in F : Next_(heap, p) # NULL => Prev(heap, Next_(heap, p)) = p
  BY <1>1 DEF Listed
<1>. QED
  BY <1>2, <1>3, <1>4 DEF CheckPasses

\* Every block is accounted for.
LEMMA StoryAccounted ==
  ASSUME TypeOK, NEW B, NEW F, NEW rank, Story(heap, live, call, B, F, rank)
  PROVE  Accounted
<1>1. Laid(heap, B, F, rank) /\ F \subseteq B
  BY LaidApart DEF Story
<1>2. Blocks(heap) = B /\ FreeNodes(heap) = F
  BY <1>1, WalkIs, NodesAre
<1>3. \A id \in Ids : live[id] # Absent => live[id].ptr \in B \ F /\ (call # Idle => live[id].ptr # call.ptr)
  BY DEF Story, Owned
<1>4. \A p : p \in LivePtrs <=> \E id \in Ids : live[id] # Absent /\ live[id].ptr = p
  BY DEF LivePtrs
<1>5. \A q \in B \ F : (call # Idle /\ q = call.ptr) \/ q \in LivePtrs
  BY <1>4 DEF Story, Owned
<1>6. LivePtrs \subseteq B \ F
  BY <1>3, <1>4
<1>7. \A q \in InHand : q \in B \ F /\ q \notin LivePtrs
  BY <1>3, <1>4 DEF InHand, Story, InProgress
<1>8. \A q : call # Idle /\ q = call.ptr => q \in InHand
  BY DEF InHand
<1>9. ASSUME NEW id \in Ids, NEW other \in Ids, live[id].ptr = live[other].ptr, id # other, live[id] # Absent
      PROVE  FALSE
  <2>1. live[other] = Absent
    BY <1>9 DEF Story, Owned
  <2>2. live[id].ptr # NULL
    <3>1. Sound(heap) /\ Apart(heap, B)
      BY <1>1, LaidApart
    <3>. QED
      BY <1>3, <1>9, <3>1, BlockIs DEF NULL
  <2>. QED
    BY <1>9, <2>1, <2>2 DEF Absent
<1>. QED
  BY <1>1, <1>2, <1>5, <1>6, <1>7, <1>8, <1>9 DEF Accounted

\* Footers and bins say what the lists say.
LEMMA StoryTagged ==
  ASSUME TypeOK, NEW B, NEW F, NEW rank, Story(heap, live, call, B, F, rank)
  PROVE  TagsAndBinsAgree
<1>1. Laid(heap, B, F, rank) /\ Listed(heap, F, rank)
  BY LaidApart DEF Story
<1>2. ASSUME NEW p \in LivePtrs PROVE ~FreeFooter(heap, p)
  <2>1. PICK id \in Ids : live[id] # Absent /\ live[id].ptr = p
    BY DEF LivePtrs
  <2>2. Footer(heap, p) = 1
    BY <2>1 DEF Story, Owned, Holds
  <2>. QED
    BY <2>2 DEF FreeFooter, is_free_block, is_free, Footer, FOOTER_ALLOC_FLAG
<1>3. ASSUME NEW i \in Bins, NEW p \in FreeList(heap, i)
      PROVE  get_footer(heap, p, get_header(heap, p)) = get_header(heap, p) /\ i = get_freelist_index(Total(heap, p))
  <2>1. p \in F /\ Bin(heap, p) = i
    BY <1>1, ListIs
  <2>. QED
    BY <1>1, <2>1 DEF Listed, Bin, Footer
<1>. QED
  BY <1>2, <1>3 DEF TagsAndBinsAgree

\* The clients' data is all there.
LEMMA StoryIntact ==
  ASSUME TypeOK, NEW B, NEW F, NEW rank, Story(heap, live, call, B, F, rank)
  PROVE  LiveIntact
<1>1. Laid(heap, B, F, rank) /\ Sound(heap) /\ Apart(heap, B) /\ heap.brk \in Nat
  BY LaidApart, LaidBreak DEF Story
<1>2. ASSUME NEW id \in Ids, live[id] # Absent
      PROVE  /\ live[id].ptr \in B /\ live[id].ptr % 8 = 0 /\ live[id].ptr \in Nat /\ live[id].size \in Nat
             /\ live[id].size <= get_header(heap, live[id].ptr)
             /\ get_header(heap, live[id].ptr) \in Nat
             /\ Total(heap, live[id].ptr) = get_header(heap, live[id].ptr) + 8
             /\ live[id].ptr + get_header(heap, live[id].ptr) + 4 <= heap.brk
  <2>1. live[id].ptr \in B /\ live[id].size \in Nat
    BY <1>2, LiveBlock, LiveType
  <2>. QED
    BY <1>1, <1>2, <2>1, LiveBlock, BlockIs
<1>3. ASSUME NEW id \in Ids, live[id] # Absent, NEW other \in Ids \ {id}, live[other] # Absent
      PROVE  live[id].ptr + live[id].size <= live[other].ptr \/ live[other].ptr + live[other].size <= live[id].ptr
  <2>. DEFINE p == live[id].ptr
              q == live[other].ptr
  <2>1. p # q
    BY <1>3 DEF Story, Owned
  <2>2. /\ p \in B /\ p \in Nat /\ live[id].size \in Nat /\ get_header(heap, p) \in Nat
        /\ live[id].size <= get_header(heap, p) /\ Total(heap, p) = get_header(heap, p) + 8
    BY <1>2, <1>3
  <2>3. /\ q \in B /\ q \in Nat /\ live[other].size \in Nat /\ get_header(heap, q) \in Nat
        /\ live[other].size <= get_header(heap, q) /\ Total(heap, q) = get_header(heap, q) + 8
    BY <1>2, <1>3
  <2>4. p < q => p + Total(heap, p) <= q
    BY <1>1, <2>2, <2>3 DEF Apart
  <2>5. q < p => q + Total(heap, q) <= p
    BY <1>1, <2>2, <2>3 DEF Apart
  <2>. HIDE DEF p, q
  <2>6. p + live[id].size <= q \/ q + live[other].size <= p
    BY <2>1, <2>2, <2>3, <2>4, <2>5
  <2>. QED
    BY <2>6 DEF p, q
<1>4. ASSUME NEW id \in Ids, live[id] # Absent,
             NEW a \in Words, live[id].ptr <= a, a + 4 <= live[id].ptr + live[id].data
      PROVE  heap.mem[a] = id
  BY <1>4 DEF Story, Owned, Holds
<1>5. ASSUME NEW id \in Ids, live[id] # Absent
      PROVE  live[id].ptr + live[id].size <= heap.brk
  BY <1>1, <1>2, <1>5
<1>. QED
  BY <1>2, <1>3, <1>4, <1>5 DEF LiveIntact, ALIGNMENT

\* Free neighbours are merged.
LEMMA StoryCoalesced ==
  ASSUME NEW B, NEW F, NEW rank, Story(heap, live, call, B, F, rank)
  PROVE  CoalescedButTail
<1>1. FreeNodes(heap) = F
  BY NodesAre DEF Story
<1>. QED
  BY <1>1 DEF CoalescedButTail, Story, Spread, Tail, MIN_BLOCK_SIZE_ACTUAL, HEADER_SIZE

\* my_check() finds nothing to complain of, inside my_free() as between calls:
\* the headers lead to the end of the heap and the lists are linked both ways.
THEOREM CheckAlwaysPasses == Spec => []CheckPasses
<1>1. IInv => CheckPasses
  BY StoryChecks DEF IInv, CheckPasses
<1>. QED
  BY <1>1, Inductive, PTL

\* The blocks, the free lists, the footers and the bins tell one story.
THEOREM AlwaysConsistent == Spec => []Consistent
<1>1. IInv => Consistent
  BY StoryAccounted, StoryTagged DEF IInv, Consistent, Accounted, TagsAndBinsAgree
<1>. QED
  BY <1>1, Inductive, PTL

\* A client finds what it wrote, in a block that is aligned and its own.
THEOREM PayloadsIntact == Spec => []LiveIntact
<1>1. IInv => LiveIntact
  BY StoryIntact DEF IInv, LiveIntact
<1>. QED
  BY <1>1, Inductive, PTL

\* No two neighbours are left free, but for a smallest block at the end.
THEOREM Coalesced == Spec => []CoalescedButTail
<1>1. IInv => CoalescedButTail
  BY StoryCoalesced DEF IInv, CoalescedButTail
<1>. QED
  BY <1>1, Inductive, PTL

\* A list with a block in it has a root.
LEMMA RootOf ==
  ASSUME NEW h, NEW B, NEW F, NEW rank, Laid(h, B, F, rank), NEW p \in F
  PROVE  h.freelist[Bin(h, p)] # NULL
<1>. DEFINE i == Bin(h, p)
            next == [q \in Words \ {NULL} |-> Next_(h, q)]
<1>1. i \in Bins
  BY LaidApart, HeaderIs DEF Apart
<1>2. p \in FreeList(h, i) /\ FreeList(h, i) = Reachable(h.freelist[i], next) \ {NULL}
  <2>1. p \in FreeList(h, i)
    BY <1>1, ListIs
  <2>. QED
    BY <2>1 DEF FreeList
<1>. HIDE DEF i
<1>3. NULL \notin DOMAIN next
  OBVIOUS
<1>. HIDE DEF next
<1>4. Chain(NULL, next, NULL, {}, {})
  BY <1>3 DEF Chain
<1>5. IsFiniteSet({}) /\ Cardinality({}) <= MaxBlocks
  BY FS_EmptySet, MaxBlocksType
<1>6. Reachable(NULL, next) \subseteq {NULL}
  BY <1>4, <1>5, ReachableIs
<1>. QED
  BY <1>2, <1>6 DEF i

\* A request for n bytes that is answered from new memory finds no bin with
\* blocks for it.
LEMMA NoBinFor ==
  ASSUME TypeOK, NEW B, NEW F, NEW rank, Story(heap, live, call, B, F, rank), call = Idle,
         NEW n \in Nat, BlockSize(n) \in Uint32, my_malloc(heap, n).heap.brk > heap.brk,
         NEW p \in Blocks(heap), FreeFooter(heap, p)
  PROVE  BinFloor(get_freelist_index(Total(heap, p))) < BlockSize(n)
<1>1. Laid(heap, B, F, rank) /\ Spread(heap, F) /\ \A q \in B \ F : Footer(heap, q) = 1
  BY IdleStory DEF Story
<1>2. p \in F
  <2>1. p \in B /\ Footer(heap, p) # 1
    BY <1>1, WalkIs DEF FreeFooter, is_free_block, is_free, Footer, FOOTER_ALLOC_FLAG
  <2>. QED
    BY <1>1, <2>1
<1>. DEFINE i == Bin(heap, p)
            m == BlockSize(n)
<1>3. heap.freelist[i] # NULL
  BY <1>1, <1>2, RootOf
<1>4. i \in Bins /\ BinFloor(i) \in Nat /\ i = get_freelist_index(Total(heap, p))
  <2>1. Total(heap, p) \in Totals
    BY <1>1, <1>2, LaidApart, HeaderIs DEF Apart
  <2>. QED
    BY <2>1, BinExists DEF Bin
<1>5. m \in Nat
  BY SizeFits
<1>6. FittingBins(heap, m) = {}
  <2>1. FittingBins(heap, m) # {} => my_malloc(heap, n).heap.brk = heap.brk
    BY <1>1, MallocGrants
  <2>2. heap.brk \in Nat
    BY <1>1, LaidBreak
  <2>. QED
    BY <2>1, <2>2
<1>. HIDE DEF i, m
<1>7. ~(m <= BinFloor(i))
  BY <1>3, <1>4, <1>6 DEF FittingBins
<1>8. BinFloor(i) < m
  BY <1>4, <1>5, <1>7
<1>. QED
  BY <1>4, <1>8 DEF m

\* Memory is asked for only when no bin that is sure to fit has a block.
THEOREM GrowsOnlyForLack == Spec => GrowsForLackOfBins
<1>. DEFINE Lack == \A id \in Ids, p \in Blocks(heap) :
                      Allocates(id) /\ heap'.brk > heap.brk /\ FreeFooter(heap, p)
                        => BinFloor(get_freelist_index(Total(heap, p))) < BlockSize(live'[id].size)
<1>1. IInv /\ [Next]_vars => [Lack]_vars
  <2>. SUFFICES ASSUME IInv, Next, NEW id \in Ids, NEW p \in Blocks(heap),
                       Allocates(id), heap'.brk > heap.brk, FreeFooter(heap, p)
                PROVE  BinFloor(get_freelist_index(Total(heap, p))) < BlockSize(live'[id].size)
    BY DEF vars
  <2>1. PICK B, F, rank : Story(heap, live, call, B, F, rank)
    BY DEF IInv, Next
  <2>2. TypeOK /\ live \in [Ids -> Holdings] /\ call = Idle /\ call.pc = "idle" /\ live[id].ptr # live'[id].ptr /\ live'[id].ptr # NULL
    BY DEF IInv, TypeOK, Allocates, Idle
  <2>3. ASSUME NEW i \in Ids, NEW size \in Sizes, Malloc(i, size)
        PROVE  BinFloor(get_freelist_index(Total(heap, p))) < BlockSize(live'[id].size)
    <3>1. heap' = my_malloc(heap, size).heap
      BY <2>3 DEF Malloc
    <3>2. live' = [live EXCEPT ![i] = [ptr |-> my_malloc(heap, size).ptr, size |-> size, data |-> 0]]
      BY <2>2, <2>3 DEF Malloc
    <3>3. live'[id].size = size
      BY <2>2, <3>2
    <3>4. size \in Nat /\ BlockSize(size) \in Uint32
      BY RequestFits
    <3>. QED
      BY <2>1, <2>2, <3>1, <3>3, <3>4, NoBinFor
  <2>4. ASSUME NEW i \in Ids, NEW size \in Sizes, ReallocMove(i, size)
        PROVE  BinFloor(get_freelist_index(Total(heap, p))) < BlockSize(live'[id].size)
    <3>. DEFINE r == my_malloc(heap, ALIGN(size))
    <3>1. heap'.brk = r.heap.brk
      <4>1. \A h, dst, src, n : memcpy(h, dst, src, n).brk = h.brk
        BY DEF memcpy
      <4>2. heap' = r.heap \/ heap' = memcpy(r.heap, r.ptr, live[i].ptr, get_header(heap, live[i].ptr))
        BY <2>4 DEF ReallocMove
      <4>. HIDE DEF r
      <4>. QED
        BY <4>1, <4>2
    <3>2. live' = [live EXCEPT ![i] = [ptr |-> r.ptr, size |-> size, data |-> AtMost(live[i].data, size)]]
      BY <2>2, <2>4 DEF ReallocMove
    <3>3. live'[id].size = size
      BY <2>2, <3>2
    <3>4. size \in Nat /\ ALIGN(size) \in Nat /\ BlockSize(ALIGN(size)) = BlockSize(size) /\ BlockSize(size) \in Uint32
      BY RequestFits, BlockSizeAligned
    <3>. QED
      BY <2>1, <2>2, <3>1, <3>3, <3>4, NoBinFor
  <2>5. ASSUME NEW i \in Ids, Write(i) PROVE FALSE
    BY <2>2, <2>5 DEF Write, Holdings
  <2>6. ASSUME NEW i \in Ids, Free(i) PROVE FALSE
    BY <2>2, <2>6 DEF Free, Absent
  <2>7. ASSUME NEW i \in Ids, NEW size \in Sizes, ReallocShrink(i, size) \/ ReallocLast(i, size) PROVE FALSE
    <3>1. live' = [live EXCEPT ![i].size = size, ![i].data = AtMost(live[i].data, size)]
      BY <2>7 DEF ReallocShrink, ReallocLast
    <3>2. size \in Nat
      BY RequestFits
    <3>3. live' = [live EXCEPT ![i] = [ptr |-> live[i].ptr, size |-> size, data |-> AtMost(live[i].data, size)]]
      BY <2>2, <3>1, <3>2, Resized
    <3>. QED
      BY <2>2, <3>3
  <2>8. ~Reset
    BY <2>2 DEF Reset, Absent
  <2>9. ~Running
    BY <2>2 DEF Running, CoalesceFront, CoalesceBack, InsertFree
  <2>. QED
    BY <2>3, <2>4, <2>5, <2>6, <2>7, <2>8, <2>9 DEF Next
<1>. QED
  BY <1>1, Inductive, PTL DEF Spec, GrowsForLackOfBins

-----------------------------------------------------------------------------
(* The allocator implements BlockPool.                                     *)

\* A block of size bytes at p may be one of id's, where the others are.
RoomFor(id, p, size) ==
  /\ p \in 0..MAX_HEAP /\ 0 < p /\ p % ALIGNMENT = 0 /\ p + size <= MAX_HEAP
  /\ \A other \in Ids \ {id} : live[other] # Absent =>
       p + size <= live[other].ptr \/ live[other].ptr + live[other].size <= p

\* Every client finds its block and its data.
Roomy ==
  heap.wild \/ \A id \in Ids : Found(id) = live[id] /\ (live[id] # Absent => RoomFor(id, live[id].ptr, live[id].size))

\* Every client's block is one of the pool.
LEMMA StoryRoomy ==
  ASSUME TypeOK, NEW B, NEW F, NEW rank, Story(heap, live, call, B, F, rank)
  PROVE  Roomy
<1>1. LiveIntact /\ ~heap.wild
  BY StoryIntact, StoryTame
<1>2. heap.brk \in Nat /\ heap.brk <= MAX_HEAP /\ MAX_HEAP \in Nat /\ Laid(heap, B, F, rank)
  BY LaidBreak DEF Story
<1>3. ASSUME NEW id \in Ids, live[id] # Absent
      PROVE  RoomFor(id, live[id].ptr, live[id].size)
  <2>. DEFINE p == live[id].ptr
              n == live[id].size
  <2>1. /\ p \in B /\ n \in Nat /\ p % ALIGNMENT = 0 /\ p + n <= heap.brk
        /\ \A other \in Ids \ {id} : live[other] # Absent =>
             p + n <= live[other].ptr \/ live[other].ptr + live[other].size <= p
    BY <1>1, <1>3, LiveBlock, LiveType DEF LiveIntact
  <2>2. p \in Nat /\ p >= 8
    <3>1. Sound(heap) /\ Apart(heap, B)
      BY <1>2, LaidApart
    <3>. QED
      BY <2>1, <3>1, BlockIs
  <2>3. p \in 0..MAX_HEAP /\ 0 < p /\ p + n <= MAX_HEAP
    BY <1>2, <2>1, <2>2
  <2>. HIDE DEF p, n
  <2>4. RoomFor(id, p, n)
    BY <2>1, <2>3 DEF RoomFor
  <2>. QED
    BY <2>4 DEF p, n
<1>4. ASSUME NEW id \in Ids PROVE Found(id) = live[id]
  <2>1. CASE live[id] = Absent
    <3>1. \A a \in Words : ~(0 <= a /\ a + 4 <= 0 + 0)
      BY DEF Words
    <3>. QED
      BY <2>1, <3>1 DEF Found, Absent, NULL
  <2>2. CASE live[id] # Absent
    BY <1>1, <2>2 DEF Found, LiveIntact
  <2>. QED
    BY <2>1, <2>2
<1>. QED
  BY <1>3, <1>4 DEF Roomy

\* What BlockPool sees of a heap: the clients' blocks, apart from each other.
THEOREM AlwaysRoomy == Spec => []Roomy
<1>1. IInv => Roomy
  BY StoryRoomy DEF IInv, Roomy
<1>. QED
  BY <1>1, Inductive, PTL

\* The others stay where they are: what is room after the step was room before.
LEMMA RoomBefore ==
  ASSUME NEW id \in Ids, RoomFor(id, live[id].ptr, live[id].size)',
         \A other \in Ids \ {id} : live'[other] = live[other]
  PROVE  RoomFor(id, live'[id].ptr, live'[id].size)
BY DEF RoomFor

\* my_malloc() takes a block of the pool.
LEMMA PoolTake ==
  ASSUME live \in [Ids -> Holdings], [i \in Ids |-> Found(i)] = live, [i \in Ids |-> Found(i)]' = live',
         NEW id \in Ids, NEW size \in Sizes, live[id] = Absent, NEW p, RoomFor(id, p, size),
         live' = [live EXCEPT ![id] = [ptr |-> p, size |-> size, data |-> 0]]
  PROVE  Pool!Take(id, size)
<1>1. Pool!Room(id, p, size) /\ p \in 0..MAX_HEAP
  BY DEF RoomFor, Pool!Room, Absent, Pool!Absent, NULL
<1>. QED
  BY <1>1 DEF Pool!Take, Absent, Pool!Absent, NULL

\* my_realloc() resizes a block of the pool.
LEMMA PoolResize ==
  ASSUME live \in [Ids -> Holdings], [i \in Ids |-> Found(i)] = live, [i \in Ids |-> Found(i)]' = live',
         NEW id \in Ids, NEW size \in Sizes, live[id] # Absent, NEW p, RoomFor(id, p, size),
         live' = [live EXCEPT ![id] = [ptr |-> p, size |-> size, data |-> AtMost(live[id].data, size)]]
  PROVE  Pool!Resize(id, size)
<1>1. Pool!Room(id, p, size) /\ p \in 0..MAX_HEAP
  BY DEF RoomFor, Pool!Room, Absent, Pool!Absent, NULL
<1>2. Pool!Smaller(live[id].data, size) = AtMost(live[id].data, size)
  BY DEF Pool!Smaller, AtMost
<1>. QED
  BY <1>1, <1>2 DEF Pool!Resize, Absent, Pool!Absent, NULL

\* Every step is one of the pool's, or changes nothing for its clients.
LEMMA PoolStep ==
  ASSUME TypeOK, TypeOK', Roomy, Roomy', Next
  PROVE  Pool!Next \/ ([i \in Ids |-> Found(i)]' = [i \in Ids |-> Found(i)] /\ heap'.wild = heap.wild)
<1>1. /\ live \in [Ids -> Holdings] /\ live' \in [Ids -> Holdings] /\ heap.wild = FALSE
      /\ heap'.wild \in BOOLEAN
  BY DEF TypeOK, Heaps, Next
<1>2. CASE heap'.wild
  BY <1>1, <1>2 DEF Pool!Next, Pool!RunsOut
<1>3. CASE ~heap'.wild
  <2>1. [i \in Ids |-> Found(i)] = live
    BY <1>1 DEF Roomy
  <2>2. [i \in Ids |-> Found(i)]' = live'
    <3>1. \A i \in Ids : Found(i)' = live'[i]
      BY <1>3 DEF Roomy
    <3>. QED
      BY <1>1, <3>1
  <2>3. heap'.wild = heap.wild
    BY <1>1, <1>3
  <2>4. \A i \in Ids : live'[i] # Absent => RoomFor(i, live[i].ptr, live[i].size)'
    BY <1>3 DEF Roomy
  <2>. DEFINE owed == [i \in Ids |-> Found(i)]
              Step == \/ \E id \in Ids : Pool!Fill(id) \/ Pool!Release(id)
                      \/ \E id \in Ids, size \in Sizes : Pool!Take(id, size) \/ Pool!Resize(id, size)
                      \/ Pool!StartOver
  <2>5. Step => Pool!Next
    BY <1>1, <2>3 DEF Pool!Next
  <2>6. live' = live => owed' = owed
    BY <2>1, <2>2
  <2>7. ASSUME NEW id \in Ids, \A other \in Ids \ {id} : live'[other] = live[other], live'[id] # Absent
        PROVE  RoomFor(id, live'[id].ptr, live'[id].size)
    BY <2>4, <2>7, RoomBefore
  <2>. HIDE DEF Step
  <2>8. Running => live' = live
    BY DEF Running, CoalesceFront, CoalesceBack, InsertFree
  <2>9. ASSUME NEW id \in Ids, NEW size \in Sizes, Malloc(id, size)
        PROVE  live' = live \/ Step
    <3>. DEFINE p == my_malloc(heap, size).ptr
    <3>1. p = NULL => live' = live
      BY <2>9 DEF Malloc
    <3>2. p # NULL => live' = [live EXCEPT ![id] = [ptr |-> p, size |-> size, data |-> 0]]
      BY <2>9 DEF Malloc
    <3>3. live[id] = Absent
      BY <2>9 DEF Malloc
    <3>. HIDE DEF p
    <3>4. ASSUME p # NULL PROVE RoomFor(id, p, size)
      <4>1. live'[id].ptr = p /\ live'[id].size = size /\ \A other \in Ids \ {id} : live'[other] = live[other]
        BY <1>1, <3>2, <3>4
      <4>2. live'[id] # Absent
        BY <3>4, <4>1 DEF Absent
      <4>. QED
        BY <2>7, <4>1, <4>2
    <3>5. p # NULL => Pool!Take(id, size)
      BY <1>1, <2>1, <2>2, <3>2, <3>3, <3>4, PoolTake
    <3>. QED
      BY <3>1, <3>5 DEF Step
  <2>10. ASSUME NEW id \in Ids, NEW size \in Sizes, ReallocMove(id, size)
         PROVE  live' = live \/ Step
    <3>. DEFINE p == my_malloc(heap, ALIGN(size)).ptr
    <3>1. p = NULL => live' = live
      BY <2>10 DEF ReallocMove
    <3>2. p # NULL => live' = [live EXCEPT ![id] = [ptr |-> p, size |-> size, data |-> AtMost(live[id].data, size)]]
      BY <2>10 DEF ReallocMove
    <3>3. live[id] # Absent
      BY <2>10 DEF ReallocMove
    <3>. HIDE DEF p
    <3>4. ASSUME p # NULL PROVE RoomFor(id, p, size)
      <4>1. live'[id].ptr = p /\ live'[id].size = size /\ \A other \in Ids \ {id} : live'[other] = live[other]
        BY <1>1, <3>2, <3>4
      <4>2. live'[id] # Absent
        BY <3>4, <4>1 DEF Absent
      <4>. QED
        BY <2>7, <4>1, <4>2
    <3>5. p # NULL => Pool!Resize(id, size)
      BY <1>1, <2>1, <2>2, <3>2, <3>3, <3>4, PoolResize
    <3>. QED
      BY <3>1, <3>5 DEF Step
  <2>11. ASSUME NEW id \in Ids, NEW size \in Sizes, ReallocShrink(id, size) \/ ReallocLast(id, size)
         PROVE  Step
    <3>. DEFINE p == live[id].ptr
    <3>1. live' = [live EXCEPT ![id] = [ptr |-> p, size |-> size, data |-> AtMost(live[id].data, size)]]
      <4>1. live' = [live EXCEPT ![id].size = size, ![id].data = AtMost(live[id].data, size)]
        BY <2>11 DEF ReallocShrink, ReallocLast
      <4>. QED
        BY <4>1, RequestFits, Resized
    <3>2. live[id] # Absent
      BY <2>11 DEF ReallocShrink, ReallocLast
    <3>. HIDE DEF p
    <3>3. live'[id].ptr = p /\ live'[id].size = size /\ \A other \in Ids \ {id} : live'[other] = live[other]
      BY <1>1, <3>1
    <3>4. live'[id] # Absent
      <4>1. size # 0
        BY RequestFits
      <4>. QED
        BY <3>3, <4>1 DEF Absent
    <3>5. Pool!Resize(id, size)
      BY <1>1, <2>1, <2>2, <2>7, <3>1, <3>2, <3>3, <3>4, PoolResize
    <3>. QED
      BY <3>5 DEF Step
  <2>12. ASSUME NEW id \in Ids, Write(id) PROVE Step
    <3>1. live[id] # Absent /\ live' = [live EXCEPT ![id].data = live[id].size]
      BY <2>12 DEF Write
    <3>2. Pool!Fill(id)
      BY <2>1, <2>2, <3>1 DEF Pool!Fill, Pool!Absent, Absent, NULL
    <3>. QED
      BY <3>2 DEF Step
  <2>13. ASSUME NEW id \in Ids, Free(id) PROVE Step
    <3>1. live[id] # Absent /\ live' = [live EXCEPT ![id] = Absent]
      BY <2>13 DEF Free
    <3>2. Pool!Release(id)
      BY <2>1, <2>2, <3>1 DEF Pool!Release, Pool!Absent, Absent, NULL
    <3>. QED
      BY <3>2 DEF Step
  <2>14. ASSUME Reset PROVE Step
    <3>1. live' = [id \in Ids |-> Absent]
      BY <2>14 DEF Reset
    <3>2. Pool!StartOver
      BY <2>1, <2>2, <3>1 DEF Pool!StartOver, Pool!Absent, Absent, NULL
    <3>. QED
      BY <3>2 DEF Step
  <2>15. live' = live \/ Step
    BY <2>8, <2>9, <2>10, <2>11, <2>12, <2>13, <2>14 DEF Next
  <2>. HIDE DEF owed
  <2>16. owed' = owed \/ Pool!Next
    BY <2>5, <2>6, <2>15
  <2>. QED
    BY <2>3, <2>16 DEF owed
<1>. QED
  BY <1>2, <1>3

\* The pool starts empty.
LEMMA PoolInit == TypeOK /\ Roomy /\ Init => Pool!Init
<1>. SUFFICES ASSUME TypeOK, Roomy, Init PROVE Pool!Init
  OBVIOUS
<1>1. live = [id \in Ids |-> Absent] /\ heap.wild = FALSE
  BY InitStory, StoryTame DEF Init
<1>2. \A id \in Ids : Found(id) = Absent
  BY <1>1 DEF Roomy
<1>. QED
  BY <1>1, <1>2 DEF Pool!Init, Pool!Absent, Absent, NULL

\* The allocator keeps the promises of BlockPool.
THEOREM PoolImplemented == Spec => ImplementsPool
<1>1. TypeOK /\ Roomy /\ Init => Pool!Init
  BY PoolInit
<1>2. TypeOK /\ TypeOK' /\ Roomy /\ Roomy' /\ [Next]_vars
        => [Pool!Next]_<<[id \in Ids |-> Found(id)], heap.wild>>
  <2>. SUFFICES ASSUME TypeOK, TypeOK', Roomy, Roomy', [Next]_vars
                PROVE  \/ Pool!Next
                       \/ [i \in Ids |-> Found(i)]' = [i \in Ids |-> Found(i)] /\ heap'.wild = heap.wild
    OBVIOUS
  <2>1. CASE Next
    BY <2>1, PoolStep
  <2>2. CASE UNCHANGED vars
    BY <2>2 DEF vars, Found
  <2>. QED
    BY <2>1, <2>2
<1>. QED
  BY <1>1, <1>2, TypeCorrect, AlwaysRoomy, PTL DEF Spec, ImplementsPool, Pool!Spec
=============================================================================
