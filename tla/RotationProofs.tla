--------------------------- MODULE RotationProofs ---------------------------
\* Proofs about RotationProgram for any machines, sizes and command lines: what
\* the tests are given, what the tiers report, that a rotation in place turns
\* every block once and loses no bit, and that both ways to rotate an image
\* agree with what a turn to the right is.
EXTENDS RotationProgram, Functions, FiniteSetTheorems, WellFoundedInduction, TLAPS

-----------------------------------------------------------------------------
(* The options and the tiers.                                              *)

Reading == pc \in {"options", "help"}

\* The tiers that passed
Passed(lines) == {lines[l].tier : l \in {k \in DOMAIN lines : lines[k].line = "PASS"}}

\* Each field is what was given, or what main() has put there before.
OptionsInv ==
  /\ machine \in Machines
  /\ DOMAIN options = DOMAIN NotSet
  /\ options.test_type \in Types \cup {"not set"}
  /\ options.test_type \in {"not set", "file"} => options.fname \in {NULL, 1} /\ options.output_fname \in {NULL, 1}
  /\ options.test_type \in {"not set", "generated"} => options.N \in machine.dimensions \cup {0}
  /\ options.test_type \in {"not set", "tiers"} => options.max_tier \in 0..machine.MAX_TIER_ALLOW \cup {-1}

\* What Execute() has made sure of
GivenInv ==
  ~Reading =>
    /\ options.test_type # "not set"
    /\ options.test_type = "file" => options.fname # NULL
    /\ options.test_type = "generated" => options.N # 0
    /\ options.test_type = "tiers" => options.max_tier # -1

Lines == [line : {"PASS", "FAIL"}, tier : Int]

\* Before a tier is rotated, all that were before it have passed.
TierInv ==
  /\ tier \in Int
  /\ printed \in Seq(Lines)
  /\ Reading => tier = 0 /\ printed = <<>>
  /\ ~Reading /\ options.test_type = "tiers" =>
       /\ pc \in {"generate", "rotate", "rotated", "done", "aborted", "exited"}
       /\ pc \in {"generate", "rotate", "rotated"} => tier \in 0..options.max_tier /\ Passed(printed) = 0..(tier - 1)
       /\ TierReported
  /\ ~Reading /\ options.test_type # "tiers" => printed = <<>>

\* What is so when main() starts
LEMMA OptionsInit == Init => OptionsInv /\ GivenInv /\ TierInv
<1>. SUFFICES ASSUME Init
              PROVE  OptionsInv /\ GivenInv /\ TierInv
  OBVIOUS
<1>1. OptionsInv /\ GivenInv
  BY DEF Init, OptionsInv, GivenInv, Reading, NotSet, NULL, Types
<1>2. TierInv
  BY DEF Init, TierInv, Reading, TierReported
<1>. QED
  BY <1>1, <1>2

\* The steps that read no option leave what was read.
LEMMA TestingKeeps ==
  ASSUME \/ \E n \in machine.files : ReadFile(n)
         \/ NoFile \/ Generate \/ Abort \/ RotateImage \/ Tests \/ UNCHANGED vars
  PROVE  UNCHANGED <<machine, options>> /\ (Reading' <=> Reading)
  BY DEF ReadFile, NoFile, Generate, Abort, RotateImage, Rotate, RotateOnly, RotateFour, RotateMiddle, Stock,
         Tests, BeginStock, CompareOnce, Compare, TierPasses, TierFails, Alarm, Return, Reading, program, vars

\* A round of a rotation reads no option and prints nothing.
LEMMA RotateKeeps ==
  ASSUME RotateImage
  PROVE  /\ UNCHANGED <<options, tier, printed>>
         /\ \/ pc = "rotate" /\ pc' \in {"rotate", "rotated"}
            \/ pc = "stock" /\ pc' \in {"stock", "compare"}
<1>1. UNCHANGED <<options, tier, printed>>
  BY DEF RotateImage, program
<1>2. RotateOnly \/ RotateFour \/ RotateMiddle => pc = "rotate" /\ pc' \in {"rotate", "rotated"}
  BY DEF RotateOnly, RotateFour, RotateMiddle
<1>3. Stock => pc = "stock" /\ pc' \in {"stock", "compare"}
  BY DEF Stock
<1>. QED
  BY <1>1, <1>2, <1>3 DEF RotateImage, Rotate

\* Each step keeps what is so of the options.
LEMMA OptionsStep ==
  ASSUME OptionsInv, GivenInv, [Next]_vars
  PROVE  OptionsInv' /\ GivenInv'
<1>. USE DEF OptionsInv, NotSet, NULL, UNUSED, Types
<1>1. ASSUME NEW type \in Types, TestType(type)
      PROVE  OptionsInv'
  <2>1. /\ UNCHANGED machine /\ options.test_type = "not set"
        /\ options' = [f \in DOMAIN options |->
                        IF f = "test_type" THEN type ELSE IF f \in Unused(type) THEN UNUSED ELSE options[f]]
    BY <1>1 DEF TestType, NextArgument, Fresh, Testing
  <2>2. /\ DOMAIN options' = DOMAIN NotSet /\ options'.test_type = type
        /\ \A f \in DOMAIN NotSet \ {"test_type"} : f \notin Unused(type) => options'[f] = options[f]
    BY <2>1
  <2>3. /\ type = "file" => "fname" \notin Unused(type) /\ "output_fname" \notin Unused(type)
        /\ type = "generated" => "N" \notin Unused(type)
        /\ type = "tiers" => "max_tier" \notin Unused(type)
    BY DEF Unused
  <2>4. type \in Types \cup {"not set"} /\ type # "not set"
    OBVIOUS
  <2>5. CASE type = "file"
    BY <2>1, <2>2, <2>3, <2>4, <2>5
  <2>6. CASE type = "generated"
    BY <2>1, <2>2, <2>3, <2>4, <2>6
  <2>7. CASE type = "tiers"
    BY <2>1, <2>2, <2>3, <2>4, <2>7
  <2>8. CASE type = "correctness"
    BY <2>1, <2>2, <2>4, <2>8
  <2>. QED
    BY <2>5, <2>6, <2>7, <2>8
<1>2. ASSUME NEW f \in {"fname", "output_fname"}, Name(f)
      PROVE  OptionsInv'
  BY <1>2 DEF Name, NextArgument, Testing
<1>3. ASSUME NEW m \in 0..machine.MAX_TIER_ALLOW + 1, MaxTiers(m)
      PROVE  OptionsInv'
  <2>1. m \in 0..machine.MAX_TIER_ALLOW
    <3>1. machine.MAX_TIER_ALLOW \in Nat
      BY RotationAssumption
    <3>2. m <= machine.MAX_TIER_ALLOW
      BY <1>3 DEF MaxTiers
    <3>3. m \in 0..machine.MAX_TIER_ALLOW + 1
      BY <1>3
    <3>. HIDE DEF OptionsInv
    <3>. QED
      BY <3>1, <3>2, <3>3
  <2>. QED
    BY <1>3, <2>1 DEF MaxTiers, NextArgument, Testing
<1>4. ASSUME NEW n \in machine.dimensions, Dimension(n)
      PROVE  OptionsInv'
  BY <1>4 DEF Dimension, NextArgument, Testing
<1>5. ASSUME Argument
      PROVE  OptionsInv' /\ GivenInv'
  <2>1. Reading'
    BY <1>5 DEF Argument, TestType, Name, MaxTiers, Dimension, NextArgument, Reading
  <2>. QED
    BY <1>1, <1>2, <1>3, <1>4, <1>5, <2>1 DEF Argument, GivenInv
<1>6. ASSUME Help
      PROVE  OptionsInv' /\ GivenInv'
  BY <1>6 DEF Help, Testing, GivenInv, Reading
<1>7. ASSUME Execute
      PROVE  OptionsInv' /\ GivenInv'
  <2>1. options.test_type = "tiers" => HighestTier \in 0..machine.MAX_TIER_ALLOW /\ HighestTier # -1
    <3>1. machine.MAX_TIER_ALLOW \in Nat /\ machine.DEFAULT_MAX_TIER \in 0..machine.MAX_TIER_ALLOW
      BY RotationAssumption
    <3>. QED
      BY <3>1 DEF HighestTier
  <2>2. /\ UNCHANGED machine /\ options.test_type # "not set"
        /\ options.test_type = "file" => options.fname # NULL
        /\ options.test_type = "generated" => options.N # 0
        /\ options' = [options EXCEPT !.max_tier = IF options.test_type = "tiers" THEN HighestTier ELSE UNUSED]
    BY <1>7 DEF Execute
  <2>3. /\ DOMAIN options' = DOMAIN NotSet
        /\ \A f \in DOMAIN NotSet \ {"max_tier"} : options'[f] = options[f]
        /\ options.test_type = "tiers" => options'.max_tier = HighestTier
    BY <2>2
  <2>4. /\ options'.test_type = options.test_type /\ options'.fname = options.fname
        /\ options'.output_fname = options.output_fname /\ options'.N = options.N
    BY <2>3
  <2>. QED
    BY <2>1, <2>2, <2>3, <2>4 DEF GivenInv
<1>8. ASSUME \/ \E n \in machine.files : ReadFile(n)
             \/ NoFile \/ Generate \/ Abort \/ RotateImage \/ Tests \/ UNCHANGED vars
      PROVE  OptionsInv' /\ GivenInv'
  BY <1>8, TestingKeeps DEF GivenInv
<1>. QED
  BY <1>5, <1>6, <1>7, <1>8 DEF Next

\* In whichever order the options come, a test takes none for given that was not.
THEOREM GivenOnly == Spec => []TakesWhatWasGiven
<1>1. OptionsInv /\ GivenInv => TakesWhatWasGiven
  BY DEF OptionsInv, GivenInv, TakesWhatWasGiven, Reading, NULL, Types
<1>. QED
  BY <1>1, OptionsInit, OptionsStep, PTL DEF Spec

-----------------------------------------------------------------------------
(* The lines that are printed.                                            *)

\* A line more is a tier more, if it says PASS.
LEMMA PassedAppend ==
  ASSUME NEW lines \in Seq(Lines), NEW e \in Lines
  PROVE  Passed(Append(lines, e)) = Passed(lines) \cup (IF e.line = "PASS" THEN {e.tier} ELSE {})
<1>. DEFINE more == Append(lines, e)
<1>1. /\ DOMAIN more = DOMAIN lines \cup {Len(lines) + 1}
      /\ more[Len(lines) + 1] = e
      /\ \A k \in DOMAIN lines : more[k] = lines[k]
  OBVIOUS
<1>2. {k \in DOMAIN more : more[k].line = "PASS"}
        = {k \in DOMAIN lines : lines[k].line = "PASS"}
          \cup (IF e.line = "PASS" THEN {Len(lines) + 1} ELSE {})
  BY <1>1
<1>. HIDE DEF more
<1>3. ASSUME NEW t \in Passed(more)
      PROVE  t \in Passed(lines) \cup (IF e.line = "PASS" THEN {e.tier} ELSE {})
  BY <1>1, <1>2 DEF Passed
<1>4. ASSUME NEW t \in Passed(lines) \cup (IF e.line = "PASS" THEN {e.tier} ELSE {})
      PROVE  t \in Passed(more)
  BY <1>1, <1>2 DEF Passed
<1>. QED
  BY <1>3, <1>4 DEF more

\* Each step keeps what is so of the tiers.
LEMMA TierStep ==
  ASSUME OptionsInv, GivenInv, TierInv, [Next]_vars
  PROVE  TierInv'
<1>0. machine \in Machines /\ machine.MAX_TIER_ALLOW \in Nat
      /\ (options.test_type = "tiers" /\ ~Reading => options.max_tier \in Nat)
  <2>1. machine \in Machines /\ machine.MAX_TIER_ALLOW \in Nat
    BY RotationAssumption DEF OptionsInv
  <2>2. ASSUME options.test_type = "tiers", ~Reading
        PROVE  options.max_tier \in Nat
    <3>1. options.max_tier \in 0..machine.MAX_TIER_ALLOW \cup {-1} /\ options.max_tier # -1
      BY <2>2 DEF OptionsInv, GivenInv
    <3>. QED
      BY <2>1, <3>1
  <2>. QED
    BY <2>1, <2>2
<1>1. ASSUME Argument \/ Help
      PROVE  TierInv'
  <2>1. Reading /\ Reading' /\ UNCHANGED <<tier, printed>>
    BY <1>1 DEF Argument, TestType, Name, MaxTiers, Dimension, NextArgument, Help, Testing, Reading
  <2>. QED
    BY <2>1 DEF TierInv
<1>2. ASSUME Execute
      PROVE  TierInv'
  <2>1. /\ Reading /\ ~Reading' /\ UNCHANGED <<tier, printed>> /\ pc' \in {"file", "generate"}
        /\ options'.test_type = options.test_type
        /\ options.test_type = "tiers" => pc' = "generate"
    BY <1>2 DEF Execute, Reading, OptionsInv, NotSet
  <2>2. tier' = 0 /\ printed' = <<>>
    BY <2>1 DEF TierInv
  <2>3. options.test_type = "tiers" => options'.max_tier \in Nat
    BY <1>2, <1>0, RotationAssumption DEF Execute, HighestTier, OptionsInv, NotSet
  <2>4. Passed(<<>>) = 0..(0 - 1)
    BY DEF Passed
  <2>. QED
    BY <2>1, <2>2, <2>3, <2>4 DEF TierInv, TierReported
<1>3. ASSUME \/ \E n \in machine.files : ReadFile(n)
             \/ NoFile \/ Generate \/ Abort \/ RotateImage
             \/ BeginStock \/ CompareOnce \/ Compare \/ Alarm \/ UNCHANGED vars
      PROVE  TierInv'
  <2>1. UNCHANGED options /\ (Reading' <=> Reading)
    BY <1>3, TestingKeeps DEF Tests
  <2>2. UNCHANGED printed /\ tier' \in Int /\ (Reading \/ options.test_type = "tiers" => tier' = tier)
    BY <1>3, RotateKeeps DEF TierInv, Reading, ReadFile, NoFile, Generate, Abort,
       BeginStock, CompareOnce, Compare, Alarm, Return, program, vars
  <2>3. ASSUME ~Reading, options.test_type = "tiers"
        PROVE  \/ pc' = pc
               \/ pc' \in {"aborted", "exited"}
               \/ pc \in {"generate", "rotate"} /\ pc' \in {"rotate", "rotated"}
    BY <1>3, <2>3, RotateKeeps DEF TierInv, Reading, ReadFile, NoFile, Generate, Abort,
       BeginStock, CompareOnce, Compare, Alarm, Return, program, vars
  <2>. QED
    BY <2>1, <2>2, <2>3 DEF TierInv, TierReported
<1>4. ASSUME TierPasses \/ TierFails
      PROVE  TierInv'
  <2>1. /\ ~Reading /\ ~Reading' /\ UNCHANGED options /\ options.test_type = "tiers" /\ pc = "rotated"
        /\ tier \in 0..options.max_tier /\ tier \in Int /\ Passed(printed) = 0..(tier - 1) /\ printed \in Seq(Lines)
    BY <1>4 DEF TierPasses, TierFails, Return, Reading, TierInv
  <2>2. CASE TierPasses
    <3>. DEFINE e == [line |-> "PASS", tier |-> tier]
    <3>1. printed' = Append(printed, e) /\ e \in Lines /\ e.line = "PASS" /\ e.tier = tier
      BY <2>1, <2>2 DEF TierPasses, Line, Lines
    <3>2. Passed(printed') = 0..tier /\ printed' \in Seq(Lines)
      <4>. HIDE DEF e
      <4>1. Passed(printed') = 0..(tier - 1) \cup {tier}
        BY <2>1, <3>1, PassedAppend
      <4>2. 0..(tier - 1) \cup {tier} = 0..tier
        BY <1>0, <2>1
      <4>. QED
        BY <2>1, <3>1, <4>1, <4>2
    <3>3. CASE tier < options.max_tier
      BY <1>0, <2>1, <2>2, <3>2, <3>3 DEF TierPasses, TierInv, TierReported
    <3>4. CASE ~(tier < options.max_tier)
      <4>1. tier' = tier /\ pc' = "done"
        BY <2>1, <2>2, <3>4 DEF TierPasses
      <4>. QED
        BY <1>0, <2>1, <3>2, <3>4, <4>1 DEF TierInv, TierReported, Passed
    <3>. QED
      BY <3>3, <3>4
  <2>3. CASE TierFails
    <3>. DEFINE e == [line |-> "FAIL", tier |-> tier]
    <3>1. printed' = Append(printed, e) /\ e \in Lines /\ e.line # "PASS"
      BY <2>1, <2>3 DEF TierFails, Line, Lines
    <3>2. Passed(printed') = 0..(tier - 1) /\ printed' \in Seq(Lines)
      <4>1. Passed(printed') = 0..(tier - 1) \cup {}
        BY <2>1, <3>1, PassedAppend
      <4>. QED
        BY <2>1, <3>1, <4>1
    <3>3. \E l \in DOMAIN printed' : printed'[l] = e
      <4>1. Len(printed) + 1 \in DOMAIN printed' /\ printed'[Len(printed) + 1] = e
        BY <2>1, <3>1
      <4>. QED
        BY <4>1
    <3>4. tier' = tier - 1 /\ pc' = "done" /\ tier' + 1 = tier
      BY <2>1, <2>3 DEF TierFails, After_Timeout, Return
    <3>. QED
      BY <2>1, <3>2, <3>3, <3>4 DEF TierInv, TierReported, Passed
  <2>. QED
    BY <1>4, <2>2, <2>3
<1>. QED
  BY <1>1, <1>2, <1>3, <1>4 DEF Next, Tests

\* run_tester_tiers() returns the last tier that passed, with all tiers before it,
\* or -1, for any number of tiers and wherever it fails.
THEOREM TiersReported == Spec => []TierReported
<1>1. TierInv => TierReported
  BY DEF TierInv, TierReported, Reading
<1>. QED
  BY <1>1, OptionsInit, OptionsStep, TierStep, PTL DEF Spec

-----------------------------------------------------------------------------
(* The rounds of a rotation in place.                                      *)

\* A number has one quotient and one remainder,
LEMMA DivideOnce ==
  ASSUME NEW n \in Nat \ {0}, NEW q \in Int, NEW q2 \in Int, NEW c \in 0..(n - 1), NEW c2 \in 0..(n - 1),
         q * n + c = q2 * n + c2
  PROVE  q = q2 /\ c = c2
<1>1. ASSUME NEW a \in Int, NEW b \in Int, a < b
      PROVE  a * n + n <= b * n
  <2>1. (b - a - 1) * n >= 0
    BY <1>1
  <2>2. (b - a - 1) * n = b * n - a * n - n
    OBVIOUS
  <2>. QED
    BY <2>1, <2>2
<1>2. /\ q * n \in Int /\ q2 * n \in Int /\ c \in Int /\ c2 \in Int
      /\ 0 <= c /\ c < n /\ 0 <= c2 /\ c2 < n
  OBVIOUS
<1>3. ~(q < q2)
  BY <1>1, <1>2
<1>4. ~(q2 < q)
  BY <1>1, <1>2
<1>. QED
  BY <1>2, <1>3, <1>4

\* and they are those of \div and %.
LEMMA Division ==
  ASSUME NEW n \in Nat \ {0}, NEW q \in Int, NEW r \in 0..(n - 1), NEW x \in Int, x = q * n + r
  PROVE  x \div n = q /\ x % n = r
<1>1. x = (x \div n) * n + (x % n) /\ x \div n \in Int /\ x % n \in 0..(n - 1)
  OBVIOUS
<1>. QED
  BY <1>1, DivideOnce

Half == row_size \div 2
\* The bounds of the loops are those of the upper left quadrant, with the row in
\* the middle and without the column in the middle.
LEMMA LoopBounds ==
  ASSUME W \in Nat \ {0}, row_size \in Nat \ {0}
  PROVE  /\ N \div (2 * W) = Half
         /\ big_N \div (2 * W) = row_size - Half
<1>1. row_size = 2 * Half + (row_size % 2) /\ Half \in Nat /\ row_size % 2 \in {0, 1}
  BY DEF Half
<1>2. N = Half * (2 * W) + W * (row_size % 2) /\ N \in Int
  BY <1>1 DEF N
<1>3. CASE row_size % 2 = 0
  <2>1. N = Half * (2 * W) + 0 /\ 2 * W \in Nat \ {0} /\ 0 \in 0..(2 * W - 1)
    BY <1>1, <1>2, <1>3
  <2>2. N \div (2 * W) = Half /\ N % (2 * W) = 0
    <3>1. \A r \in 0..(2 * W - 1) : N = Half * (2 * W) + r => N \div (2 * W) = Half /\ N % (2 * W) = r
      BY <1>1, <1>2, <2>1, Division
    <3>. QED
      BY <2>1, <3>1
  <2>. QED
    BY <1>1, <1>3, <2>2 DEF big_N
<1>4. CASE row_size % 2 = 1
  <2>1. N = Half * (2 * W) + W
    BY <1>2, <1>4
  <2>2. N \div (2 * W) = Half /\ N % (2 * W) = W
    BY <1>1, <1>2, <2>1, Division
  <2>3. N + 2 * W = (Half + 1) * (2 * W) + W
    BY <1>1, <2>1
  <2>4. (N + 2 * W) \div (2 * W) = Half + 1
    BY <1>1, <1>2, <2>3, Division
  <2>. QED
    BY <1>1, <1>4, <2>2, <2>4 DEF big_N
<1>. QED
  BY <1>1, <1>3, <1>4

\* The indices of a round that RotateFour() does
InLoops(j, i) == j \in Nat /\ i \in Nat /\ ~Done(j) /\ i < N \div (2 * W)

\* The blocks of a round, by row and column of the image of blocks
BlockRow(q, j, i) == CASE q = "A" -> j [] q = "B" -> i [] q = "C" -> row_size - j - 1 [] q = "D" -> row_size - i - 1
BlockCol(q, j, i) == CASE q = "A" -> i [] q = "B" -> row_size - j - 1 [] q = "C" -> row_size - i - 1 [] q = "D" -> j

\* The words of a round: row k of block q
Word(q, j, i, k) ==
  (CASE q = "A" -> offset_A(j, i) [] q = "B" -> offset_B(j, i)
     [] q = "C" -> offset_C(j, i) [] q = "D" -> offset_D(j, i)) + k * row_size
MiddleWord(k) == W * Half * row_size + Half + k * row_size

ImageWords == 0..(row_size * W * row_size - 1)

\* The words of a round, by row and column of the image of blocks
LEMMA Coordinates ==
  ASSUME W \in Nat \ {0}, row_size \in Nat \ {0},
         NEW j, NEW i, InLoops(j, i), NEW q \in {"A", "B", "C", "D"}, NEW k \in Bits
  PROVE  /\ j < row_size - Half /\ i < Half
         /\ BlockRow(q, j, i) \in 0..(row_size - 1) /\ BlockCol(q, j, i) \in 0..(row_size - 1)
         /\ Word(q, j, i, k) = (BlockRow(q, j, i) * W + k) * row_size + BlockCol(q, j, i)
<1>1. j \in Nat /\ i \in Nat /\ j < row_size - Half /\ i < Half /\ Half \in Nat /\ Half <= row_size /\ k \in Nat
  BY LoopBounds DEF InLoops, Done, Half, Bits
<1>2. BlockRow(q, j, i) \in 0..(row_size - 1) /\ BlockCol(q, j, i) \in 0..(row_size - 1)
  BY <1>1 DEF BlockRow, BlockCol
<1>3. Word(q, j, i, k) = W * BlockRow(q, j, i) * row_size + BlockCol(q, j, i) + k * row_size
  BY <1>1 DEF Word, BlockRow, BlockCol, offset_A, offset_B, offset_C, offset_D
<1>4. W * BlockRow(q, j, i) * row_size + BlockCol(q, j, i) + k * row_size
        = (BlockRow(q, j, i) * W + k) * row_size + BlockCol(q, j, i)
  BY <1>1, <1>2
<1>. QED
  BY <1>1, <1>2, <1>3, <1>4

\* Each block is one of a round, or the one in the middle.
LEMMA BlockFound ==
  ASSUME W \in Nat \ {0}, row_size \in Nat \ {0}, NEW r \in 0..(row_size - 1), NEW c \in 0..(row_size - 1)
  PROVE  \/ \E j, i : InLoops(j, i) /\ \E q \in {"A", "B", "C", "D"} : r = BlockRow(q, j, i) /\ c = BlockCol(q, j, i)
         \/ row_size % 2 = 1 /\ r = Half /\ c = Half
<1>. DEFINE Quarters == {"A", "B", "C", "D"}
<1>1. /\ row_size = 2 * Half + (row_size % 2) /\ Half \in Nat /\ row_size % 2 \in {0, 1}
      /\ N \div (2 * W) = Half /\ big_N \div (2 * W) = row_size - Half
  BY LoopBounds DEF Half
<1>2. ASSUME NEW j \in Nat, NEW i \in Nat, j < row_size - Half, i < Half, NEW q \in Quarters,
             r = BlockRow(q, j, i), c = BlockCol(q, j, i)
      PROVE  \E jj, ii : InLoops(jj, ii) /\ \E qq \in Quarters : r = BlockRow(qq, jj, ii) /\ c = BlockCol(qq, jj, ii)
  <2>1. InLoops(j, i)
    BY <1>1, <1>2 DEF InLoops, Done
  <2>. QED
    BY <1>2, <2>1
<1>3. CASE r < row_size - Half /\ c < Half
  <2>1. r \in Nat /\ c \in Nat /\ r = BlockRow("A", r, c) /\ c = BlockCol("A", r, c)
    BY DEF BlockRow, BlockCol
  <2>. QED
    BY <1>2, <1>3, <2>1
<1>4. CASE r < Half /\ c >= Half
  <2>. DEFINE j == row_size - c - 1
  <2>1. j \in Nat /\ j < row_size - Half /\ r \in Nat
    BY <1>1, <1>4
  <2>2. r = BlockRow("B", j, r) /\ c = BlockCol("B", j, r)
    BY DEF BlockRow, BlockCol
  <2>. QED
    BY <1>2, <1>4, <2>1, <2>2
<1>5. CASE r >= Half /\ c >= row_size - Half
  <2>. DEFINE j == row_size - r - 1
              i == row_size - c - 1
  <2>1. j \in Nat /\ j < row_size - Half /\ i \in Nat /\ i < Half
    BY <1>1, <1>5
  <2>2. r = BlockRow("C", j, i) /\ c = BlockCol("C", j, i)
    BY DEF BlockRow, BlockCol
  <2>. QED
    BY <1>2, <2>1, <2>2
<1>6. CASE r >= row_size - Half /\ c < row_size - Half
  <2>. DEFINE i == row_size - r - 1
  <2>1. c \in Nat /\ i \in Nat /\ i < Half
    BY <1>1, <1>6
  <2>2. r = BlockRow("D", c, i) /\ c = BlockCol("D", c, i)
    BY DEF BlockRow, BlockCol
  <2>. QED
    BY <1>2, <1>6, <2>1, <2>2
<1>. QED
  BY <1>1, <1>3, <1>4, <1>5, <1>6

\* A rotation in place is right in what it touches, for every size: its rounds
\* write no word twice, none outside the image, and none but those of the block in
\* the middle, where there is one, are left out; and the next round is within the
\* loops as long as they run.
THEOREM RoundsPartition ==
  ASSUME W \in Nat \ {0}, row_size \in Nat \ {0, 1}
  PROVE  /\ InLoops(Start.j, Start.i)
         /\ \A j, i : InLoops(j, i) =>
              LET next == After(j, i) IN Done(next.j) \/ InLoops(next.j, next.i)
         /\ \A j, i, j2, i2 : InLoops(j, i) /\ InLoops(j2, i2) =>
              \A q, q2 \in {"A", "B", "C", "D"} : \A k, k2 \in Bits :
                /\ Word(q, j, i, k) \in ImageWords
                /\ Word(q, j, i, k) = Word(q2, j2, i2, k2) => q = q2 /\ j = j2 /\ i = i2 /\ k = k2
         /\ row_size % 2 = 1 =>
              \A j, i : InLoops(j, i) =>
                \A q \in {"A", "B", "C", "D"} : \A k, k2 \in Bits : Word(q, j, i, k) # MiddleWord(k2)
         /\ \A x \in ImageWords :
              \/ \E j, i : InLoops(j, i) /\ \E q \in {"A", "B", "C", "D"} : \E k \in Bits : x = Word(q, j, i, k)
              \/ row_size % 2 = 1 /\ \E k \in Bits : x = MiddleWord(k)
<1>. DEFINE Quarters == {"A", "B", "C", "D"}
<1>1. /\ row_size = 2 * Half + (row_size % 2) /\ Half \in Nat \ {0} /\ row_size % 2 \in {0, 1}
      /\ N \div (2 * W) = Half /\ big_N \div (2 * W) = row_size - Half
  BY LoopBounds DEF Half
<1>2. InLoops(Start.j, Start.i)
  BY <1>1 DEF InLoops, Start, Done
<1>3. ASSUME NEW j, NEW i, InLoops(j, i)
      PROVE  Done(After(j, i).j) \/ InLoops(After(j, i).j, After(j, i).i)
  <2>1. j \in Nat /\ i \in Nat /\ ~Done(j) /\ i < Half
    BY <1>1, <1>3 DEF InLoops
  <2>2. CASE i + 1 < Half
    <3>1. After(j, i) = [j |-> j, i |-> i + 1]
      BY <1>1, <2>2 DEF After
    <3>. QED
      BY <1>1, <2>1, <2>2, <3>1 DEF InLoops
  <2>3. CASE ~(i + 1 < Half)
    <3>1. After(j, i) = [j |-> j + 1, i |-> 0]
      BY <1>1, <2>3 DEF After
    <3>. QED
      BY <1>1, <2>1, <3>1 DEF InLoops
  <2>. QED
    BY <2>2, <2>3
<1>4. ASSUME NEW j, NEW i, NEW j2, NEW i2, InLoops(j, i), InLoops(j2, i2),
             NEW q \in Quarters, NEW q2 \in Quarters, NEW k \in Bits, NEW k2 \in Bits
      PROVE  /\ Word(q, j, i, k) \in ImageWords
             /\ Word(q, j, i, k) = Word(q2, j2, i2, k2) => q = q2 /\ j = j2 /\ i = i2 /\ k = k2
  <2>. DEFINE r  == BlockRow(q, j, i)
              c  == BlockCol(q, j, i)
              r2 == BlockRow(q2, j2, i2)
              c2 == BlockCol(q2, j2, i2)
  <2>1. /\ r \in 0..(row_size - 1) /\ c \in 0..(row_size - 1) /\ j < row_size - Half /\ i < Half
        /\ Word(q, j, i, k) = (r * W + k) * row_size + c
    BY <1>4, Coordinates
  <2>2. /\ r2 \in 0..(row_size - 1) /\ c2 \in 0..(row_size - 1) /\ j2 < row_size - Half /\ i2 < Half
        /\ Word(q2, j2, i2, k2) = (r2 * W + k2) * row_size + c2
    BY <1>4, Coordinates
  <2>3. j \in Nat /\ i \in Nat /\ j2 \in Nat /\ i2 \in Nat
    BY <1>4 DEF InLoops
  <2>4. k \in 0..(W - 1) /\ k2 \in 0..(W - 1)
    BY DEF Bits
  <2>. HIDE DEF r, c, r2, c2
  <2>5. Word(q, j, i, k) \in ImageWords
    <3>1. r * W + k \in 0..(row_size * W - 1)
      <4>1. r * W <= (row_size - 1) * W /\ r * W >= 0 /\ (row_size - 1) * W = row_size * W - W
        BY <2>1
      <4>. QED
        BY <2>1, <2>4, <4>1
    <3>2. (r * W + k) * row_size <= (row_size * W - 1) * row_size /\ (r * W + k) * row_size >= 0
          /\ (row_size * W - 1) * row_size = row_size * W * row_size - row_size
      BY <3>1
    <3>. QED
      BY <2>1, <3>1, <3>2 DEF ImageWords
  <2>6. ASSUME Word(q, j, i, k) = Word(q2, j2, i2, k2)
        PROVE  q = q2 /\ j = j2 /\ i = i2 /\ k = k2
    <3>1. r * W + k = r2 * W + k2 /\ c = c2
      <4>1. r * W + k \in Int /\ r2 * W + k2 \in Int
        BY <2>1, <2>2, <2>4
      <4>. QED
        BY <2>1, <2>2, <2>6, <4>1, DivideOnce
    <3>2. r = r2 /\ k = k2
      BY <2>1, <2>2, <2>4, <3>1, DivideOnce
    <3>3. /\ q = "A" => r = j /\ c = i
          /\ q = "B" => r = i /\ c = row_size - j - 1
          /\ q = "C" => r = row_size - j - 1 /\ c = row_size - i - 1
          /\ q = "D" => r = row_size - i - 1 /\ c = j
      BY DEF r, c, BlockRow, BlockCol
    <3>4. /\ q2 = "A" => r2 = j2 /\ c2 = i2
          /\ q2 = "B" => r2 = i2 /\ c2 = row_size - j2 - 1
          /\ q2 = "C" => r2 = row_size - j2 - 1 /\ c2 = row_size - i2 - 1
          /\ q2 = "D" => r2 = row_size - i2 - 1 /\ c2 = j2
      BY DEF r2, c2, BlockRow, BlockCol
    <3>. QED
      BY <1>1, <2>1, <2>2, <2>3, <3>1, <3>2, <3>3, <3>4
  <2>. QED
    BY <2>5, <2>6
<1>5. ASSUME NEW x \in ImageWords
      PROVE  \/ \E j, i : InLoops(j, i) /\ \E q \in Quarters : \E k \in Bits : x = Word(q, j, i, k)
             \/ row_size % 2 = 1 /\ \E k \in Bits : x = MiddleWord(k)
  <2>. DEFINE w == x \div row_size
              c == x % row_size
              r == w \div W
              k == w % W
  <2>1. x \in Nat /\ x < row_size * W * row_size
    BY DEF ImageWords
  <2>2. x = w * row_size + c /\ w \in Nat /\ c \in 0..(row_size - 1)
    BY <2>1
  <2>3. w < row_size * W
    <3>1. ASSUME w >= row_size * W
          PROVE  FALSE
      <4>1. (w - row_size * W) * row_size >= 0
        BY <2>2, <3>1
      <4>2. (w - row_size * W) * row_size = w * row_size - row_size * W * row_size
        BY <2>2
      <4>. QED
        BY <2>1, <2>2, <4>1, <4>2
    <3>. QED
      BY <2>2, <3>1
  <2>4. w = r * W + k /\ r \in Nat /\ k \in 0..(W - 1)
    <3>1. \A a \in Nat : a = (a \div W) * W + (a % W) /\ a \div W \in Nat /\ a % W \in 0..(W - 1)
      OBVIOUS
    <3>. QED
      BY <2>2, <3>1
  <2>. HIDE DEF w, c, r, k
  <2>5. r \in 0..(row_size - 1)
    <3>1. ASSUME r >= row_size
          PROVE  FALSE
      <4>1. (r - row_size) * W >= 0
        BY <2>4, <3>1
      <4>2. (r - row_size) * W = r * W - row_size * W
        BY <2>4
      <4>. QED
        BY <2>3, <2>4, <4>1, <4>2
    <3>. QED
      BY <2>4, <3>1
  <2>6. x = (r * W + k) * row_size + c /\ k \in Bits
    BY <2>2, <2>4 DEF Bits
  <2>7. CASE \E j, i : InLoops(j, i) /\ \E q \in Quarters : r = BlockRow(q, j, i) /\ c = BlockCol(q, j, i)
    <3>1. PICK j, i : InLoops(j, i) /\ \E q \in Quarters : r = BlockRow(q, j, i) /\ c = BlockCol(q, j, i)
      BY <2>7
    <3>2. PICK q \in Quarters : r = BlockRow(q, j, i) /\ c = BlockCol(q, j, i)
      BY <3>1
    <3>3. x = Word(q, j, i, k)
      BY <2>6, <3>1, <3>2, Coordinates
    <3>. QED
      BY <2>6, <3>1, <3>2, <3>3
  <2>8. CASE row_size % 2 = 1 /\ r = Half /\ c = Half
    <3>1. (Half * W + k) * row_size + Half = W * Half * row_size + Half + k * row_size
      BY <1>1, <2>4
    <3>. QED
      BY <2>6, <2>8, <3>1 DEF MiddleWord
  <2>. QED
    BY <2>2, <2>5, <2>7, <2>8, BlockFound
<1>6. ASSUME row_size % 2 = 1, NEW j, NEW i, InLoops(j, i), NEW q \in Quarters, NEW k \in Bits, NEW k2 \in Bits,
             Word(q, j, i, k) = MiddleWord(k2)
      PROVE  FALSE
  <2>. DEFINE r == BlockRow(q, j, i)
              c == BlockCol(q, j, i)
  <2>1. /\ r \in 0..(row_size - 1) /\ c \in 0..(row_size - 1) /\ j < row_size - Half /\ i < Half
        /\ Word(q, j, i, k) = (r * W + k) * row_size + c
    BY <1>6, Coordinates
  <2>2. j \in Nat /\ i \in Nat /\ k \in 0..(W - 1) /\ k2 \in 0..(W - 1)
    BY <1>6 DEF InLoops, Bits
  <2>3. /\ q = "A" => c = i
        /\ q = "B" => r = i
        /\ q = "C" => c = row_size - i - 1
        /\ q = "D" => r = row_size - i - 1
    BY DEF BlockRow, BlockCol
  <2>. HIDE DEF r, c
  <2>4. MiddleWord(k2) = (Half * W + k2) * row_size + Half
    BY <1>1, <2>2 DEF MiddleWord
  <2>5. Half * W + k2 = r * W + k /\ Half = c
    <3>1. Half * W + k2 \in Int /\ r * W + k \in Int /\ Half \in 0..(row_size - 1)
      BY <1>1, <2>1, <2>2
    <3>. QED
      BY <1>6, <2>1, <2>4, <3>1, DivideOnce
  <2>6. Half = r
    BY <1>1, <2>1, <2>2, <2>5, DivideOnce
  <2>. QED
    BY <1>1, <1>6, <2>1, <2>2, <2>3, <2>5, <2>6
<1>. QED
  BY <1>2, <1>3, <1>4, <1>5, <1>6

-----------------------------------------------------------------------------
(* What happens in registers.                                              *)

\* What the program's machine is
GoodMachine ==
  /\ W \in Widths \ {1}
  /\ machine.byte \in 1..W /\ W % (2 * machine.byte) = 0

\* The assumption on the machines, of the one that runs
LEMMA Machine == machine \in Machines => GoodMachine
  BY RotationAssumption DEF GoodMachine, W

\* The widths that the provers can try one by one
LEMMA Wide ==
  ASSUME GoodMachine
  PROVE  /\ W \in Nat \ {0, 1} /\ W \in {2, 4, 8, 16, 32, 64} /\ Bits = 0..(W - 1) /\ W % 2 = 0
BY DEF GoodMachine, Widths, Bits

Words == [Bits -> Int]

\* The bytes are reversed twice on the way to memory and back.
LEMMA SwapTwice ==
  ASSUME GoodMachine, NEW v \in Words
  PROVE  bswap(v) \in Words /\ bswap(bswap(v)) = v
<1>. DEFINE b == machine.byte
            q == W \div b
            At(c) == (q - 1 - (c \div b)) * b + (c % b)
<1>1. /\ b \in Nat \ {0} /\ q \in Nat \ {0} /\ W = q * b /\ W \in Nat \ {0} /\ Bits = 0..(W - 1)
  <2>1. b \in Nat \ {0} /\ W \in Nat \ {0} /\ Bits = 0..(W - 1) /\ W % (2 * b) = 0
    BY Wide DEF GoodMachine
  <2>2. W = (W \div (2 * b)) * (2 * b) + 0 /\ W \div (2 * b) \in Nat
    <3>1. \A n \in Nat \ {0} : W = (W \div n) * n + (W % n) /\ W \div n \in Nat
      BY <2>1
    <3>. QED
      BY <2>1, <3>1
  <2>3. W = (2 * (W \div (2 * b))) * b + 0
    BY <2>1, <2>2
  <2>4. W \div b = 2 * (W \div (2 * b))
    <3>1. 0 \in 0..(b - 1) /\ 2 * (W \div (2 * b)) \in Int
      BY <2>1, <2>2
    <3>. HIDE DEF b
    <3>2. \A z \in Int : W = z * b + 0 => W \div b = z
      BY <2>1, <3>1, Division
    <3>. QED
      BY <2>3, <3>1, <3>2
  <2>5. q \in Nat /\ W = q * b
    BY <2>1, <2>2, <2>3, <2>4
  <2>6. q # 0
    BY <2>1, <2>5
  <2>. QED
    BY <2>1, <2>5, <2>6
<1>2. ASSUME NEW c \in Bits
      PROVE  At(c) \in Bits /\ At(At(c)) = c
  <2>. DEFINE d == c \div b
              e == c % b
  <2>1. c = d * b + e /\ d \in Nat /\ e \in 0..(b - 1) /\ c \in Nat /\ c < q * b
    <3>1. \A n \in Nat \ {0} : \A a \in Nat : a = (a \div n) * n + (a % n) /\ a \div n \in Nat /\ a % n \in 0..(n - 1)
      OBVIOUS
    <3>2. c \in 0..(W - 1)
      BY <1>1
    <3>3. c \in Nat /\ c < q * b
      BY <1>1, <3>2
    <3>. QED
      BY <1>1, <3>1, <3>3
  <2>. HIDE DEF b, q, d, e
  <2>2. d \in 0..(q - 1)
    <3>1. ASSUME d >= q
          PROVE  FALSE
      <4>1. (d - q) * b >= 0 /\ (d - q) * b = d * b - q * b
        BY <1>1, <2>1, <3>1
      <4>. QED
        BY <1>1, <2>1, <4>1
    <3>. QED
      BY <1>1, <2>1, <3>1
  <2>3. /\ (q - 1 - d) * b + e \in 0..(q * b - 1)
        /\ ((q - 1 - d) * b + e) \div b = q - 1 - d
        /\ ((q - 1 - d) * b + e) % b = e
    <3>1. (q - 1 - d) * b >= 0 /\ (q - 1 - d) * b = q * b - b - d * b /\ d * b >= 0
      BY <1>1, <2>1, <2>2
    <3>2. (q - 1 - d) * b + e \in 0..(q * b - 1)
      BY <1>1, <2>1, <2>2, <3>1
    <3>3. q - 1 - d \in Int /\ (q - 1 - d) * b + e \in Int
      BY <1>1, <2>1, <2>2, <3>2
    <3>4. \A y \in Int : \A z \in Int : z = y * b + e => z \div b = y /\ z % b = e
      BY <1>1, <2>1, Division
    <3>. QED
      BY <3>2, <3>3, <3>4
  <2>4. At(c) = (q - 1 - d) * b + e
    BY DEF d, e
  <2>5. At(At(c)) = (q - 1 - (q - 1 - d)) * b + e
    BY <2>3, <2>4
  <2>6. (q - 1 - (q - 1 - d)) * b + e = c
    BY <1>1, <2>1, <2>2
  <2>. QED
    BY <1>1, <2>3, <2>4, <2>5, <2>6
<1>3. \A w : bswap(w) = [c \in Bits |-> w[At(c)]]
  BY DEF bswap
<1>. HIDE DEF At
<1>4. bswap(v) \in Words
  BY <1>2, <1>3 DEF Words
<1>5. bswap(bswap(v)) = [c \in Bits |-> v[At(At(c))]]
  BY <1>2, <1>3
<1>. QED
  BY <1>2, <1>4, <1>5 DEF Words

-----------------------------------------------------------------------------
(* The rows rotate.                                                        *)

\* The index d further, or d back, in a word that is a ring
On(c, d)   == IF c + d < W THEN c + d ELSE c + d - W
Back(r, d) == IF r < d THEN r + W - d ELSE r - d

\* Two opposite shifts ored are a rotation, whatever a shift by the width gives.
LEMMA RotatesLeft ==
  ASSUME GoodMachine, NEW v \in Words, NEW k \in 0..W
  PROVE  Or(Left(v, k), Right(v, W - k)) = [c \in Bits |-> v[On(c, k)]]
<1>1. W \in Nat \ {0} /\ Bits = 0..(W - 1)
  BY Wide
<1>2. ASSUME NEW c \in Bits
      PROVE  Or(Left(v, k), Right(v, W - k))[c] = v[On(c, k)]
  <2>. DEFINE l == Left(v, k)[c]
              r == Right(v, W - k)[c]
  <2>1. Or(Left(v, k), Right(v, W - k))[c] = IF l = r \/ r = Zero THEN l ELSE IF l = Zero THEN r ELSE Both
    BY DEF Or
  <2>2. /\ k = W => (l = Zero \/ l = v[c]) /\ r = v[c] /\ On(c, k) = c
        /\ k = 0 => l = v[c] /\ (r = Zero \/ r = v[c]) /\ On(c, k) = c
    BY <1>1 DEF Left, Right, On
  <2>3. k # W /\ k # 0 => \/ l = v[On(c, k)] /\ r = Zero
                          \/ l = Zero /\ r = v[On(c, k)]
    <3>1. CASE c + k < W
      BY <1>1, <3>1 DEF Left, Right, On
    <3>2. CASE ~(c + k < W)
      <4>1. c >= W - k /\ c - (W - k) = c + k - W
        BY <1>1, <3>2
      <4>. QED
        BY <1>1, <3>2, <4>1 DEF Left, Right, On
    <3>. QED
      BY <3>1, <3>2
  <2>. HIDE DEF l, r
  <2>. QED
    BY <2>1, <2>2, <2>3
<1>. QED
  BY <1>2 DEF Or

\* What both passes over the rows do
LEMMA RowsRotate ==
  ASSUME GoodMachine, NEW m \in [Bits -> Words]
  PROVE  /\ FirstRows(m) = [r \in Bits |-> [c \in Bits |-> m[r][On(c, r + 1)]]]
         /\ LastRows(m) = [r \in Bits |-> [c \in Bits |-> m[r][On(c, r)]]]
<1>1. W \in Nat \ {0} /\ Bits = 0..(W - 1)
  BY Wide
<1>2. ASSUME NEW r \in Bits
      PROVE  /\ Or(Left(m[r], r + 1), Right(m[r], W - 1 - r)) = [c \in Bits |-> m[r][On(c, r + 1)]]
             /\ Or(Left(m[r], r), Right(m[r], W - r)) = [c \in Bits |-> m[r][On(c, r)]]
  <2>1. m[r] \in Words /\ r \in 0..W /\ r + 1 \in 0..W /\ W - (r + 1) = W - 1 - r
    BY <1>1
  <2>2. Or(Left(m[r], r + 1), Right(m[r], W - (r + 1))) = [c \in Bits |-> m[r][On(c, r + 1)]]
    BY <2>1, RotatesLeft
  <2>3. Or(Left(m[r], r), Right(m[r], W - r)) = [c \in Bits |-> m[r][On(c, r)]]
    BY <2>1, RotatesLeft
  <2>. QED
    BY <2>1, <2>2, <2>3
<1>. QED
  BY <1>2 DEF FirstRows, LastRows

-----------------------------------------------------------------------------
(* The columns go down, by groups.                                         *)

\* The widths of the groups of columns
Groups == Widths \cap 1..W

\* The group twice as wide, which a stage comes from, is a group of the word.
LEMMA GroupsDouble ==
  ASSUME GoodMachine
  PROVE  /\ Groups \subseteq Nat \ {0} /\ 1 \in Groups /\ W \in Groups
         /\ \A g \in Groups : g # W => 2 * g \in Groups /\ 2 * g <= W
BY Wide DEF Groups, Widths

\* The matrix when all groups of g columns have gone down as they are to.
Staged(m, g) == [r \in Bits |-> [c \in Bits |-> m[Back(r, g * (c \div g))][c]]]
Stays(g) == {c \in Bits : (c \div g) % 2 = 0}

\* One stage: every other group of g columns goes down by g.
LEMMA GroupsGoDown ==
  ASSUME GoodMachine, NEW m \in [Bits -> Words], NEW g \in Groups, g # W
  PROVE  Down(Staged(m, 2 * g), g, Stays(g)) = Staged(m, g)
<1>1. /\ W \in Nat \ {0} /\ Bits = 0..(W - 1)
      /\ g \in Nat \ {0} /\ 2 * g \in Nat \ {0} /\ 2 * g <= W
  BY Wide, GroupsDouble
<1>. DEFINE Row(r, c) == IF c \in Stays(g) THEN r ELSE IF r < g THEN r + W - g ELSE r - g
<1>2. ASSUME NEW r \in Bits, NEW c \in Bits
      PROVE  /\ Row(r, c) \in Bits
             /\ Staged(m, 2 * g)[Row(r, c)][c] = m[Back(r, g * (c \div g))][c]
  <2>. DEFINE d == c \div (2 * g)
              e == c % (2 * g)
  <2>1. c = d * (2 * g) + e /\ d \in Nat /\ e \in 0..(2 * g - 1) /\ c \in Nat /\ c < W
    <3>1. \A n \in Nat \ {0} : \A a \in Nat : a = (a \div n) * n + (a % n) /\ a \div n \in Nat /\ a % n \in 0..(n - 1)
      OBVIOUS
    <3>2. c \in 0..(W - 1)
      BY <1>1
    <3>3. c \in Nat /\ c < W
      BY <1>1, <3>2
    <3>4. c = (c \div (2 * g)) * (2 * g) + (c % (2 * g)) /\ c \div (2 * g) \in Nat /\ c % (2 * g) \in 0..(2 * g - 1)
      BY <1>1, <3>1, <3>3, Zenon
    <3>. QED
      BY <3>3, <3>4
  <2>. HIDE DEF d, e
  <2>2. (2 * g) * d \in Nat /\ (2 * g) * d = d * (2 * g) /\ (2 * g) * d <= c
    BY <1>1, <2>1
  <2>3. ASSUME NEW y \in Int, NEW f \in 0..(g - 1), c = y * g + f
        PROVE  c \div g = y
    <3>1. c \in Int
      BY <2>1
    <3>. QED
      BY <1>1, <2>3, <3>1, Division
  <2>4. Row(r, c) \in Bits => Staged(m, 2 * g)[Row(r, c)][c] = m[Back(Row(r, c), (2 * g) * d)][c]
    BY DEF Staged, d
  <2>5. CASE e < g
    <3>1. c = (2 * d) * g + e /\ e \in 0..(g - 1)
      BY <1>1, <2>1, <2>5
    <3>2. c \div g = 2 * d
      BY <2>1, <2>3, <3>1
    <3>3. c \in Stays(g)
      BY <2>1, <3>2 DEF Stays
    <3>4. g * (2 * d) = (2 * g) * d
      BY <1>1, <2>1
    <3>. QED
      BY <2>4, <3>2, <3>3, <3>4
  <2>6. CASE e >= g
    <3>1. c = (2 * d + 1) * g + (e - g) /\ e - g \in 0..(g - 1)
      BY <1>1, <2>1, <2>6
    <3>2. c \div g = 2 * d + 1
      BY <2>1, <2>3, <3>1
    <3>3. c \notin Stays(g)
      BY <2>1, <3>2 DEF Stays
    <3>4. g * (2 * d + 1) = (2 * g) * d + g
      BY <1>1, <2>1
    <3>5. Row(r, c) = Back(r, g) /\ Row(r, c) \in Bits
      BY <1>1, <3>3 DEF Back
    <3>6. (2 * g) * d + g <= c
      BY <1>1, <2>1, <2>2, <2>6
    <3>7. \A z \in Nat : z + g < W => Back(Back(r, g), z) = Back(r, z + g)
      BY <1>1 DEF Back
    <3>8. Back(Row(r, c), (2 * g) * d) = Back(r, (2 * g) * d + g)
      BY <1>1, <2>1, <2>2, <3>5, <3>6, <3>7
    <3>. QED
      BY <2>4, <3>2, <3>4, <3>5, <3>8
  <2>. QED
    BY <1>1, <2>1, <2>5, <2>6
<1>3. Down(Staged(m, 2 * g), g, Stays(g)) = [r \in Bits |-> [c \in Bits |-> Staged(m, 2 * g)[Row(r, c)][c]]]
  BY DEF Down
<1>4. Staged(m, g) = [r \in Bits |-> [c \in Bits |-> m[Back(r, g * (c \div g))][c]]]
  BY DEF Staged
<1>. HIDE DEF Row
<1>. QED
  BY <1>2, <1>3, <1>4

\* The equation of the stages has a solution, and only one.
LEMMA StagesEnd ==
  ASSUME GoodMachine, NEW m \in [Bits -> Words]
  PROVE  LET Stage[g \in Widths \cap 1..W] ==
               IF g = W THEN m ELSE Down(Stage[2 * g], g, {c \in Bits : (c \div g) % 2 = 0})
         IN  Stage[1] = Staged(m, 1)
<1>. DEFINE Equation(f) == [g \in Widths \cap 1..W |->
                              IF g = W THEN m ELSE Down(f[2 * g], g, {c \in Bits : (c \div g) % 2 = 0})]
            Stage == CHOOSE f : f = Equation(f)
            F     == [g \in Groups |-> Staged(m, g)]
<1>1. \A f : Equation(f) = [g \in Groups |-> IF g = W THEN m ELSE Down(f[2 * g], g, Stays(g))]
  BY DEF Groups, Stays
<1>2. Staged(m, W) = m
  <2>1. ASSUME NEW c \in Bits
        PROVE  c \div W = 0
    <3>1. c \in 0..(W - 1) /\ c \in Int /\ c = 0 * W + c /\ W \in Nat \ {0}
      BY Wide
    <3>. QED
      BY <3>1, Division
  <2>2. \A r \in Bits : \A c \in Bits : Back(r, W * (c \div W)) = r
    BY <2>1, Wide DEF Back
  <2>3. m = [r \in Bits |-> [c \in Bits |-> m[r][c]]]
    BY DEF Words
  <2>. QED
    BY <2>2, <2>3 DEF Staged
<1>3. F = Equation(F)
  <2>1. ASSUME NEW g \in Groups
        PROVE  F[g] = IF g = W THEN m ELSE Down(F[2 * g], g, Stays(g))
    <3>1. F[g] = Staged(m, g)
      OBVIOUS
    <3>2. ASSUME g # W
          PROVE  F[2 * g] = Staged(m, 2 * g)
      BY <3>2, GroupsDouble
    <3>. HIDE DEF F
    <3>. QED
      BY <1>2, <3>1, <3>2, GroupsGoDown
  <2>2. F = [g \in Groups |-> F[g]]
    OBVIOUS
  <2>. HIDE DEF F, Equation
  <2>3. Equation(F) = [g \in Groups |-> IF g = W THEN m ELSE Down(F[2 * g], g, Stays(g))]
    BY <1>1
  <2>. QED
    BY <2>1, <2>2, <2>3
<1>4. Stage = Equation(Stage)
  BY <1>3
<1>. HIDE DEF Equation, Stage, F
<1>5. \A g \in Groups : Stage[g] = IF g = W THEN m ELSE Down(Stage[2 * g], g, Stays(g))
  BY <1>1, <1>4
<1>6. ASSUME NEW g \in Groups, g = W \/ Stage[2 * g] = Staged(m, 2 * g)
      PROVE  Stage[g] = Staged(m, g)
  BY <1>2, <1>5, <1>6, GroupsGoDown
<1>7. Stage[1] = Staged(m, 1)
  <2>. DEFINE Correct(g) == g \in Groups => Stage[g] = Staged(m, g)
  <2>1. ASSUME NEW g \in Groups, Correct(2 * g)
        PROVE  Correct(g)
    BY <1>6, <2>1, GroupsDouble
  <2>2. \A g \in Groups : Correct(2 * g) => Correct(g)
    BY <2>1
  <2>. HIDE DEF Correct
  <2>3. Correct(128)
    BY DEF Correct, Groups, Widths
  <2>4. /\ \A g \in {1, 2, 4, 8, 16, 32, 64} : g \notin Groups => Correct(g)
    BY DEF Correct
  <2>5. Correct(64) 
    BY <2>2, <2>3, <2>4
  <2>6. Correct(32)
    BY <2>2, <2>4, <2>5
  <2>7. Correct(16)
    BY <2>2, <2>4, <2>6
  <2>8. Correct(8)
    BY <2>2, <2>4, <2>7
  <2>9. Correct(4)
    BY <2>2, <2>4, <2>8
  <2>10. Correct(2)
    BY <2>2, <2>4, <2>9
  <2>11. Correct(1)
    BY <2>2, <2>4, <2>10
  <2>. QED
    BY <2>11, GroupsDouble DEF Correct
<1>. QED
  BY <1>7 DEF Stage, Equation

\* All stages, and all columns down by 1 in the end: column c goes down by c + 1.
LEMMA ColumnsRotate ==
  ASSUME GoodMachine, NEW m \in [Bits -> Words]
  PROVE  rotate_columns(m) = [r \in Bits |-> [c \in Bits |-> m[Back(Back(r, 1), c)][c]]]
<1>1. W \in Nat \ {0, 1} /\ Bits = 0..(W - 1)
  BY Wide
<1>2. rotate_columns(m) = Down(Staged(m, 1), 1, {})
  BY StagesEnd DEF rotate_columns
<1>3. Staged(m, 1) = [r \in Bits |-> [c \in Bits |-> m[Back(r, c)][c]]]
  <2>1. \A c \in Bits : 1 * (c \div 1) = c
    BY <1>1
  <2>. QED
    BY <2>1 DEF Staged
<1>4. \A r \in Bits : Back(r, 1) \in Bits /\ Back(r, 1) = IF r < 1 THEN r + W - 1 ELSE r - 1
  BY <1>1 DEF Back
<1>. QED
  BY <1>2, <1>3, <1>4 DEF Down

\* Three rotations make a turn to the right, for every width.
LEMMA BlockTurns ==
  ASSUME GoodMachine, NEW m \in [Bits -> Words]
  PROVE  row_column_row(m) = [r \in Bits |-> [c \in Bits |-> m[W - 1 - c][r]]]
<1>1. W \in Nat \ {0, 1} /\ Bits = 0..(W - 1)
  BY Wide
<1>2. \A d \in 0..W : \A c \in Bits : On(c, d) \in Bits
  BY <1>1 DEF On
<1>3. \A d \in Bits : \A c \in Bits : Back(c, d) \in Bits
  BY <1>1 DEF Back
<1>. DEFINE x == [r \in Bits |-> [c \in Bits |-> m[r][On(c, r + 1)]]]
            y == [r \in Bits |-> [c \in Bits |-> x[Back(Back(r, 1), c)][c]]]
            z == [r \in Bits |-> [c \in Bits |-> y[r][On(c, r)]]]
<1>4. \A r \in Bits : r \in 0..W /\ r + 1 \in 0..W /\ 1 \in Bits
  BY <1>1
<1>5. x \in [Bits -> Words]
  BY <1>2, <1>4 DEF Words
<1>6. \A r \in Bits : \A c \in Bits : Back(Back(r, 1), c) \in Bits
  BY <1>3, <1>4
<1>7. y \in [Bits -> Words]
  <2>1. \A r \in Bits : \A c \in Bits : x[r][c] \in Int
    BY <1>5 DEF Words
  <2>. HIDE DEF x
  <2>. QED
    BY <1>6, <2>1 DEF Words
<1>8. row_column_row(m) = z
  <2>1. FirstRows(m) = x
    BY RowsRotate
  <2>2. rotate_columns(x) = y
    <3>. HIDE DEF x
    <3>. QED
      BY <1>5, ColumnsRotate
  <2>3. LastRows(y) = z
    <3>. HIDE DEF y
    <3>. QED
      BY <1>7, RowsRotate
  <2>. QED
    BY <2>1, <2>2, <2>3 DEF row_column_row
<1>9. ASSUME NEW r \in Bits, NEW c \in Bits
      PROVE  y[r][On(c, r)] = m[W - 1 - c][r]
  <2>. DEFINE k == On(c, r)
              s == Back(Back(r, 1), k)
  <2>1. k \in Bits /\ s \in Bits
    BY <1>2, <1>4, <1>6
  <2>2. y[r][k] = m[s][On(k, s + 1)]
    BY <2>1
  <2>3. s = W - 1 - c /\ On(k, s + 1) = r
    BY <1>1 DEF On, Back
  <2>. QED
    BY <2>2, <2>3
<1>. HIDE DEF y
<1>. QED
  BY <1>8, <1>9

-----------------------------------------------------------------------------
(* What a round reads and writes.                                          *)

\* A block in registers is a block in memory.
LEMMA BlockRead ==
  ASSUME GoodMachine, NEW n \in Nat, image \in [0..(n - 1) -> Words],
         NEW o, \A k \in Bits : o + k * row_size \in 0..(n - 1)
  PROVE  Block(o) = [k \in Bits |-> image[o + k * row_size]] /\ Block(o) \in [Bits -> Words]
<1>1. \A k \in Bits : bswap(Load(image[o + k * row_size])) = image[o + k * row_size]
  BY SwapTwice DEF Load
<1>. QED
  BY <1>1 DEF Block

\* Blocks that do not overlap are written where they are to be, and nothing else is.
LEMMA BlocksWritten ==
  ASSUME GoodMachine, row_size \in Nat \ {0}, NEW n \in Nat, image \in [0..(n - 1) -> Words],
         NEW blocks, DOMAIN blocks \subseteq Nat, \A o \in DOMAIN blocks : blocks[o] \in [Bits -> Words],
         \A o, o2 \in DOMAIN blocks : \A k, k2 \in Bits : o + k * row_size = o2 + k2 * row_size => o = o2
  PROVE  /\ Written(blocks) \in [0..(n - 1) -> Words]
         /\ \A x \in 0..(n - 1) :
              /\ \A o \in DOMAIN blocks : \A k \in Bits : x = o + k * row_size => Written(blocks)[x] = blocks[o][k]
              /\ (\A o \in DOMAIN blocks : \A k \in Bits : x # o + k * row_size) => Written(blocks)[x] = image[x]
<1>. DEFINE At(x) == {o \in DOMAIN blocks : \E k \in Bits : x = o + k * row_size}
            First(x) == CHOOSE o \in At(x) : TRUE
            Value(x) == IF At(x) = {} THEN image[x]
                        ELSE Store(bswap(blocks[First(x)][(x - First(x)) \div row_size]))
<1>1. Written(blocks) = [x \in 0..(n - 1) |-> Value(x)]
  BY DEF Written
<1>2. ASSUME NEW x \in 0..(n - 1), NEW o \in DOMAIN blocks, NEW k \in Bits, x = o + k * row_size
      PROVE  Value(x) = blocks[o][k] /\ Value(x) \in Words
  <2>1. o \in At(x) /\ At(x) # {}
    BY <1>2
  <2>2. First(x) = o
    <3>1. First(x) \in At(x)
      BY <2>1
    <3>. QED
      BY <1>2, <3>1
  <2>3. (x - o) \div row_size = k
    <3>1. k \in Int /\ o \in Int /\ x - o = k * row_size + 0 /\ 0 \in 0..(row_size - 1) /\ x - o \in Int
      BY <1>2, Wide
    <3>. QED
      BY <3>1, Division
  <2>4. Value(x) = Store(bswap(blocks[o][k]))
    BY <2>1, <2>2, <2>3
  <2>5. blocks[o][k] \in Words
    OBVIOUS
  <2>. QED
    BY <2>4, <2>5, SwapTwice DEF Store
<1>3. ASSUME NEW x \in 0..(n - 1), \A o \in DOMAIN blocks : \A k \in Bits : x # o + k * row_size
      PROVE  Value(x) = image[x] /\ Value(x) \in Words
  <2>1. At(x) = {}
    BY <1>3
  <2>. QED
    BY <2>1
<1>. HIDE DEF Value
<1>4. \A x \in 0..(n - 1) : Value(x) \in Words
  BY <1>2, <1>3
<1>. QED
  BY <1>1, <1>2, <1>3, <1>4

\* The block that a block gets the bits of
Before(q) == CASE q = "A" -> "D" [] q = "B" -> "A" [] q = "C" -> "B" [] q = "D" -> "C"
Quarters  == {"A", "B", "C", "D"}

\* A round turns four blocks, each into the place of the next one.
LEMMA FourTurn ==
  ASSUME GoodMachine, row_size \in Nat \ {0, 1}, NEW n \in Nat, ImageWords \subseteq 0..(n - 1),
         image \in [0..(n - 1) -> Words], RotateFour, InLoops(at.j, at.i)
  PROVE  /\ image' \in [0..(n - 1) -> Words]
         /\ \A q \in Quarters : \A k, p \in Bits :
              image'[Word(q, at.j, at.i, k)][p] = image[Word(Before(q), at.j, at.i, W - 1 - p)][k]
         /\ \A x \in 0..(n - 1) :
              (\A q \in Quarters : \A k \in Bits : x # Word(q, at.j, at.i, k)) => image'[x] = image[x]
<1>. DEFINE a == offset_A(at.j, at.i)
            b == offset_B(at.j, at.i)
            c == offset_C(at.j, at.i)
            d == offset_D(at.j, at.i)
            offset(q) == CASE q = "A" -> a [] q = "B" -> b [] q = "C" -> c [] q = "D" -> d
            From(q) == row_column_row(Block(offset(Before(q))))
            from(o) == CASE o = a -> d [] o = d -> c [] o = c -> b [] o = b -> a
            blocks == [o \in {a, b, c, d} |-> row_column_row(Block(from(o)))]
<1>1. /\ W \in Nat \ {0, 1} /\ Bits = 0..(W - 1) /\ row_size \in Nat \ {0}
      /\ \A p \in Bits : W - 1 - p \in Bits
  BY Wide
<1>2. /\ \A q \in Quarters : \A k \in Bits : Word(q, at.j, at.i, k) \in 0..(n - 1)
      /\ \A q, q2 \in Quarters : \A k, k2 \in Bits :
           Word(q, at.j, at.i, k) = Word(q2, at.j, at.i, k2) => q = q2 /\ k = k2
  <2>1. ASSUME NEW q \in Quarters, NEW q2 \in Quarters, NEW k \in Bits, NEW k2 \in Bits
        PROVE  /\ Word(q, at.j, at.i, k) \in ImageWords
               /\ Word(q, at.j, at.i, k) = Word(q2, at.j, at.i, k2) => q = q2 /\ k = k2
    <3>1. \A j, i, j2, i2 : InLoops(j, i) /\ InLoops(j2, i2) =>
            \A r, r2 \in {"A", "B", "C", "D"} : \A l, l2 \in Bits :
              /\ Word(r, j, i, l) \in ImageWords
              /\ Word(r, j, i, l) = Word(r2, j2, i2, l2) => r = r2 /\ j = j2 /\ i = i2 /\ l = l2
      BY <1>1, RoundsPartition
    <3>. QED
      BY <3>1 DEF Quarters
  <2>. QED
    BY <2>1
<1>3. \A q, k : Word(q, at.j, at.i, k) = offset(q) + k * row_size
  BY DEF Word
<1>4. \A q \in Quarters : offset(q) \in Nat
  <2>1. at.j \in Nat /\ at.i \in Nat /\ at.j < row_size - Half /\ at.i < Half /\ Half \in Nat /\ Half <= row_size
    BY <1>1, LoopBounds DEF InLoops, Done, Half
  <2>2. /\ row_size - at.i - 1 \in Nat /\ row_size - at.j - 1 \in Nat
    BY <1>1, <2>1
  <2>3. \A y, z \in Nat : W * y * row_size + z \in Nat
    <3>1. \A y \in Nat : W * y \in Nat
      BY <1>1
    <3>2. \A y \in Nat : \A z \in Nat : y * row_size + z \in Nat
      BY <1>1
    <3>. QED
      BY <3>1, <3>2, Zenon
  <2>4. a \in Nat /\ b \in Nat /\ c \in Nat /\ d \in Nat
    <3>1. a \in Nat
      BY <2>1, <2>3 DEF offset_A
    <3>2. b = W * at.i * row_size + (row_size - at.j - 1)
      BY <1>1, <2>1 DEF offset_B
    <3>3. c = W * (row_size - at.j - 1) * row_size + (row_size - at.i - 1)
      BY <1>1, <2>1 DEF offset_C
    <3>4. d = W * (row_size - at.i - 1) * row_size + at.j
      BY <1>1, <2>1 DEF offset_D
    <3>. HIDE DEF a, b, c, d
    <3>. QED
      BY <2>1, <2>2, <2>3, <3>1, <3>2, <3>3, <3>4
  <2>. HIDE DEF a, b, c, d
  <2>. QED
    BY <2>4 DEF Quarters
<1>5. \A q, q2 \in Quarters : \A k, k2 \in Bits :
        offset(q) + k * row_size = offset(q2) + k2 * row_size => q = q2 /\ k = k2
  <2>. HIDE DEF a, b, c, d, offset
  <2>. QED
    BY <1>2, <1>3
<1>6. \A q \in Quarters : Before(q) \in Quarters
  BY DEF Quarters, Before
<1>7. ASSUME NEW q \in Quarters
      PROVE  /\ From(q) \in [Bits -> Words]
             /\ \A k, p \in Bits : From(q)[k][p] = image[Word(Before(q), at.j, at.i, W - 1 - p)][k]
  <2>. DEFINE o == offset(Before(q))
              m == Block(o)
  <2>1. /\ \A k \in Bits : o + k * row_size \in 0..(n - 1)
    <3>. HIDE DEF offset, a, b, c, d
    <3>. QED
      BY <1>2, <1>3, <1>6
  <2>2. m = [k \in Bits |-> image[o + k * row_size]] /\ m \in [Bits -> Words]
    <3>. HIDE DEF o
    <3>. QED
      BY <2>1, BlockRead
  <2>3. From(q) = [r \in Bits |-> [p \in Bits |-> m[W - 1 - p][r]]]
    <3>. HIDE DEF o, m
    <3>1. row_column_row(m) = [r \in Bits |-> [p \in Bits |-> m[W - 1 - p][r]]]
      BY <2>2, BlockTurns
    <3>. QED
      BY <3>1 DEF o, m
  <2>4. \A k, p \in Bits : m[W - 1 - p][k] = image[Word(Before(q), at.j, at.i, W - 1 - p)][k]
                           /\ m[W - 1 - p][k] \in Int
    <3>. HIDE DEF o, m
    <3>1. \A p \in Bits : m[W - 1 - p] = image[o + (W - 1 - p) * row_size] /\ m[W - 1 - p] \in Words
      BY <1>1, <2>2
    <3>2. \A p \in Bits : Word(Before(q), at.j, at.i, W - 1 - p) = o + (W - 1 - p) * row_size
      BY <1>3 DEF o
    <3>. QED
      BY <3>1, <3>2 DEF Words
  <2>. HIDE DEF From, m
  <2>. QED
    BY <2>3, <2>4 DEF Words
<1>8. /\ DOMAIN blocks = {offset(q) : q \in Quarters}
      /\ \A q \in Quarters : blocks[offset(q)] = From(q)
  <2>. DEFINE X(q) == row_column_row(Block(offset(Before(q))))
  <2>1. /\ offset("A") = a /\ offset("B") = b /\ offset("C") = c /\ offset("D") = d
        /\ a # b /\ a # c /\ a # d /\ b # c /\ b # d /\ c # d
    <3>1. offset("A") = a /\ offset("B") = b /\ offset("C") = c /\ offset("D") = d
      OBVIOUS
    <3>2. \A q, q2 \in Quarters : offset(q) = offset(q2) => q = q2
      <4>1. 0 \in Bits
        BY <1>1
      <4>. HIDE DEF offset, a, b, c, d
      <4>. QED
        BY <1>5, <4>1
    <3>. HIDE DEF offset, a, b, c, d
    <3>. QED
      BY <3>1, <3>2 DEF Quarters
  <2>. HIDE DEF a, b, c, d
  <2>2. From("A") = row_column_row(Block(d)) /\ From("B") = row_column_row(Block(a))
        /\ From("C") = row_column_row(Block(b)) /\ From("D") = row_column_row(Block(c))
    BY <2>1 DEF Before
  <2>. HIDE DEF a, b, c, d, offset, From
  <2>3. /\ DOMAIN blocks = {a, b, c, d}
        /\ blocks[a] = row_column_row(Block(d)) /\ blocks[d] = row_column_row(Block(c))
        /\ blocks[c] = row_column_row(Block(b)) /\ blocks[b] = row_column_row(Block(a))
    BY <2>1
  <2>. HIDE DEF blocks
  <2>. QED
    BY <2>1, <2>2, <2>3 DEF Quarters
<1>9. image' = Written(blocks)
  BY DEF RotateFour
<1>. HIDE DEF a, b, c, d, offset, From, blocks
<1>10. /\ DOMAIN blocks \subseteq Nat
       /\ \A o \in DOMAIN blocks : blocks[o] \in [Bits -> Words]
       /\ \A o, o2 \in DOMAIN blocks : \A k, k2 \in Bits : o + k * row_size = o2 + k2 * row_size => o = o2
  BY <1>4, <1>5, <1>7, <1>8
<1>11. /\ Written(blocks) \in [0..(n - 1) -> Words]
       /\ \A x \in 0..(n - 1) :
            /\ \A o \in DOMAIN blocks : \A k \in Bits : x = o + k * row_size => Written(blocks)[x] = blocks[o][k]
            /\ (\A o \in DOMAIN blocks : \A k \in Bits : x # o + k * row_size) => Written(blocks)[x] = image[x]
  BY <1>1, <1>10, BlocksWritten
<1>12. ASSUME NEW q \in Quarters, NEW k \in Bits, NEW p \in Bits
       PROVE  image'[Word(q, at.j, at.i, k)][p] = image[Word(Before(q), at.j, at.i, W - 1 - p)][k]
  <2>1. Word(q, at.j, at.i, k) \in 0..(n - 1) /\ Word(q, at.j, at.i, k) = offset(q) + k * row_size
        /\ offset(q) \in DOMAIN blocks /\ blocks[offset(q)] = From(q)
    BY <1>2, <1>3, <1>8
  <2>2. image'[Word(q, at.j, at.i, k)] = From(q)[k]
    BY <1>9, <1>11, <2>1
  <2>. QED
    BY <1>7, <2>2
<1>13. ASSUME NEW x \in 0..(n - 1), \A q \in Quarters : \A k \in Bits : x # Word(q, at.j, at.i, k)
       PROVE  image'[x] = image[x]
  BY <1>3, <1>8, <1>9, <1>11, <1>13
<1>. QED
  BY <1>9, <1>11, <1>12, <1>13

\* The block in the middle is within the image.
LEMMA MiddleInside ==
  ASSUME GoodMachine, row_size \in Nat \ {0}, row_size % 2 = 1, NEW k \in Bits
  PROVE  MiddleWord(k) \in ImageWords /\ MiddleWord(k) = (W * Half + k) * row_size + Half
<1>. DEFINE u == W * Half
<1>1. /\ W \in Nat \ {0, 1} /\ Bits = 0..(W - 1) /\ k \in 0..(W - 1)
      /\ row_size = 2 * Half + 1 /\ Half \in Nat
  BY Wide DEF Half
<1>2. u \in Nat
  BY <1>1
<1>3. MiddleWord(k) = u * row_size + Half + k * row_size
  BY DEF MiddleWord
<1>4. MiddleWord(k) = (u + k) * row_size + Half
  <2>. HIDE DEF u
  <2>. QED
    BY <1>1, <1>2, <1>3
<1>. HIDE DEF u
<1>5. u + k \in 0..(W * row_size - 1)
  <2>1. W * row_size = u + u + W
    <3>1. \A y, z \in Nat : y * (2 * z + 1) = y * z + y * z + y
      OBVIOUS
    <3>. QED
      BY <1>1, <3>1 DEF u
  <2>. QED
    BY <1>1, <1>2, <2>1
<1>. DEFINE y == u + k
            z == W * row_size
<1>6. z \in Nat /\ z * row_size = row_size * W * row_size
  <2>1. \A a, b \in Nat : a * b \in Nat /\ a * b = b * a
    OBVIOUS
  <2>. QED
    BY <1>1, <2>1
<1>7. y \in 0..(z - 1)
  BY <1>5
<1>. HIDE DEF y, z
<1>8. (z - 1 - y) * row_size >= 0 /\ (z - 1 - y) * row_size = z * row_size - row_size - y * row_size
      /\ y * row_size >= 0
  BY <1>6, <1>7
<1>9. y * row_size + Half \in 0..(z * row_size - 1)
  BY <1>1, <1>6, <1>7, <1>8
<1>. QED
  BY <1>4, <1>6, <1>9 DEF ImageWords, y, u

\* The block in the middle, and that of an image of one word by row, turn where they are.
LEMMA MiddleTurns ==
  ASSUME GoodMachine, row_size \in Nat \ {0}, row_size % 2 = 1, NEW n \in Nat, ImageWords \subseteq 0..(n - 1),
         image \in [0..(n - 1) -> Words],
         NEW o, o = W * Half * row_size + Half, image' = Written([w \in {o} |-> row_column_row(Block(w))])
  PROVE  /\ image' \in [0..(n - 1) -> Words]
         /\ \A k, p \in Bits : image'[MiddleWord(k)][p] = image[MiddleWord(W - 1 - p)][k]
         /\ \A x \in 0..(n - 1) : (\A k \in Bits : x # MiddleWord(k)) => image'[x] = image[x]
         /\ \A k \in Bits : MiddleWord(k) \in ImageWords
         /\ \A k, k2 \in Bits : MiddleWord(k) = MiddleWord(k2) => k = k2
<1>. DEFINE m == Block(o)
            blocks == [w \in {o} |-> row_column_row(Block(w))]
<1>1. /\ W \in Nat \ {0, 1} /\ Bits = 0..(W - 1)
      /\ \A p \in Bits : W - 1 - p \in Bits
      /\ row_size = 2 * Half + 1 /\ Half \in Nat /\ o \in Nat
  <2>1. W \in Nat \ {0, 1} /\ Bits = 0..(W - 1)
    BY Wide
  <2>2. row_size = 2 * Half + 1 /\ Half \in Nat
    BY DEF Half
  <2>3. W * Half \in Nat
    BY <2>1, <2>2
  <2>4. \A y \in Nat : y * row_size \in Nat
    OBVIOUS
  <2>5. W * Half * row_size \in Nat
    BY <2>3, <2>4
  <2>6. o \in Nat
    BY <2>2, <2>5
  <2>7. \A p \in Bits : W - 1 - p \in Bits
    BY <2>1
  <2>. QED
    BY <2>1, <2>2, <2>6, <2>7
<1>2. ASSUME NEW k \in Bits
      PROVE  MiddleWord(k) = o + k * row_size /\ MiddleWord(k) \in ImageWords
  BY MiddleInside DEF MiddleWord
<1>3. ASSUME NEW k \in Bits, NEW k2 \in Bits, o + k * row_size = o + k2 * row_size
      PROVE  k = k2
  <2>1. k \in 0..(W - 1) /\ k2 \in 0..(W - 1) /\ 0 \in 0..(row_size - 1)
    BY <1>1
  <2>2. k \in Int /\ k2 \in Int /\ k * row_size \in Int /\ k2 * row_size \in Int
    BY <1>1, <2>1
  <2>3. k * row_size + 0 = k2 * row_size + 0
    <3>. HIDE DEF m
    <3>. QED
      BY <1>1, <1>3, <2>2
  <2>. QED
    BY <2>1, <2>2, <2>3, DivideOnce
<1>4. m = [k \in Bits |-> image[o + k * row_size]] /\ m \in [Bits -> Words]
  BY <1>2, BlockRead
<1>. HIDE DEF m
<1>5. row_column_row(m) = [r \in Bits |-> [p \in Bits |-> m[W - 1 - p][r]]]
  BY <1>4, BlockTurns
<1>6. \A k, p \in Bits : m[W - 1 - p][k] = image[MiddleWord(W - 1 - p)][k] /\ m[W - 1 - p][k] \in Int
  <2>1. \A p \in Bits : m[W - 1 - p] = image[MiddleWord(W - 1 - p)] /\ m[W - 1 - p] \in Words
    BY <1>1, <1>2, <1>4
  <2>. QED
    BY <2>1 DEF Words
<1>7. /\ DOMAIN blocks = {o} /\ blocks[o] = row_column_row(m)
      /\ row_column_row(m) \in [Bits -> Words]
  <2>1. row_column_row(m) \in [Bits -> Words]
    BY <1>5, <1>6 DEF Words
  <2>. QED
    BY <2>1 DEF m
<1>8. image' = Written(blocks)
  OBVIOUS
<1>. HIDE DEF blocks
<1>9. /\ Written(blocks) \in [0..(n - 1) -> Words]
      /\ \A x \in 0..(n - 1) :
           /\ \A e \in DOMAIN blocks : \A k \in Bits : x = e + k * row_size => Written(blocks)[x] = blocks[e][k]
           /\ (\A e \in DOMAIN blocks : \A k \in Bits : x # e + k * row_size) => Written(blocks)[x] = image[x]
  <2>1. /\ DOMAIN blocks \subseteq Nat
        /\ \A e \in DOMAIN blocks : blocks[e] \in [Bits -> Words]
        /\ \A e, e2 \in DOMAIN blocks : \A k, k2 \in Bits : e + k * row_size = e2 + k2 * row_size => e = e2
    BY <1>1, <1>7
  <2>. QED
    BY <2>1, BlocksWritten
<1>10. ASSUME NEW k \in Bits, NEW p \in Bits
       PROVE  image'[MiddleWord(k)][p] = image[MiddleWord(W - 1 - p)][k]
  <2>1. image'[MiddleWord(k)] = row_column_row(m)[k]
    <3>1. MiddleWord(k) = o + k * row_size /\ MiddleWord(k) \in 0..(n - 1) /\ o \in DOMAIN blocks
      BY <1>2, <1>7
    <3>2. Written(blocks)[MiddleWord(k)] = blocks[o][k]
      BY <1>9, <3>1
    <3>. QED
      BY <1>7, <1>8, <3>2
  <2>. QED
    BY <1>5, <1>6, <2>1
<1>11. ASSUME NEW x \in 0..(n - 1), \A k \in Bits : x # MiddleWord(k)
       PROVE  image'[x] = image[x]
  <2>1. \A e \in DOMAIN blocks : \A k \in Bits : x # e + k * row_size
    BY <1>2, <1>7, <1>11
  <2>. QED
    BY <1>8, <1>9, <2>1
<1>. QED
  BY <1>2, <1>3, <1>8, <1>9, <1>10, <1>11

-----------------------------------------------------------------------------
(* Pixels, by row and column.                                              *)

Places == 0..(N - 1)

\* The pixel of the generated image that k turns to the right bring to row r, column c
Turn(k, r, c) ==
  CASE k = 0 -> r * N + c
    [] k = 1 -> (N - 1 - c) * N + r
    [] k = 2 -> (N - 1 - r) * N + (N - 1 - c)
    [] k = 3 -> c * N + (N - 1 - r)

\* The sizes of an image, in bits and in words
LEMMA Sizes ==
  ASSUME GoodMachine, row_size \in Nat \ {0}
  PROVE  /\ N \in Nat \ {0} /\ Places = 0..(N - 1) /\ N = W * row_size /\ N = row_size * W
         /\ N \div 2 \in Nat \ {0} /\ N = 2 * (N \div 2)
         /\ ImageWords = 0..(N * row_size - 1)
<1>1. W \in {2, 4, 8, 16, 32, 64}
  BY Wide
<1>2. N \in Nat \ {0} /\ N % 2 = 0 /\ N = W * row_size /\ N = row_size * W
  BY <1>1 DEF N
<1>3. N \div 2 \in Nat /\ N = 2 * (N \div 2)
  BY <1>2
<1>. QED
  BY <1>2, <1>3 DEF Places, ImageWords

\* Column c of row r is a bit of a word of the image, and another one for others.
LEMMA PlaceOf ==
  ASSUME GoodMachine, row_size \in Nat \ {0}, NEW r \in Places, NEW c \in Places
  PROVE  /\ r * row_size + (c \div W) \in ImageWords /\ c % W \in Bits
         /\ (r * row_size + (c \div W)) \div row_size = r
         /\ ((r * row_size + (c \div W)) % row_size) * W + (c % W) = c
<1>1. /\ N \in Nat \ {0} /\ Places = 0..(N - 1) /\ N = row_size * W /\ ImageWords = 0..(N * row_size - 1)
      /\ W \in Nat \ {0} /\ Bits = 0..(W - 1)
  BY Sizes, Wide
<1>. DEFINE d == c \div W
            e == c % W
<1>2. c = d * W + e /\ d \in Nat /\ e \in 0..(W - 1) /\ c \in Nat /\ c < row_size * W /\ r \in 0..(N - 1)
  <2>1. \A n \in Nat \ {0} : \A a \in Nat : a = (a \div n) * n + (a % n) /\ a \div n \in Nat /\ a % n \in 0..(n - 1)
    OBVIOUS
  <2>2. c \in Nat /\ c < row_size * W /\ r \in 0..(N - 1)
    BY <1>1
  <2>. QED
    BY <1>1, <2>1, <2>2
<1>. HIDE DEF d, e
<1>3. d \in 0..(row_size - 1)
  <2>1. ASSUME d >= row_size
        PROVE  FALSE
    <3>1. (d - row_size) * W >= 0 /\ (d - row_size) * W = d * W - row_size * W
      BY <1>1, <1>2, <2>1
    <3>. QED
      BY <1>1, <1>2, <3>1
  <2>. QED
    BY <1>2, <2>1
<1>4. r * row_size + d \in ImageWords /\ r * row_size + d \in Int
  <2>1. (N - 1 - r) * row_size >= 0 /\ (N - 1 - r) * row_size = N * row_size - row_size - r * row_size
        /\ r * row_size >= 0
    BY <1>1, <1>2
  <2>. QED
    BY <1>1, <1>2, <1>3, <2>1
<1>5. (r * row_size + d) \div row_size = r /\ (r * row_size + d) % row_size = d
  <2>1. \A x \in Int : x = r * row_size + d => x \div row_size = r /\ x % row_size = d
    BY <1>2, <1>3, Division
  <2>. QED
    BY <1>4, <2>1
<1>. QED
  BY <1>1, <1>2, <1>4, <1>5 DEF d, e

\* And each bit of each word is in one place.
LEMMA PlaceFor ==
  ASSUME GoodMachine, row_size \in Nat \ {0}, NEW x \in ImageWords, NEW p \in Bits,
         NEW r, r = x \div row_size, NEW c, c = (x % row_size) * W + p
  PROVE  /\ r \in Places /\ c \in Places
         /\ x = r * row_size + (c \div W) /\ p = c % W
<1>1. /\ N \in Nat \ {0} /\ Places = 0..(N - 1) /\ N = row_size * W /\ ImageWords = 0..(N * row_size - 1)
      /\ W \in Nat \ {0} /\ Bits = 0..(W - 1)
  BY Sizes, Wide
<1>. DEFINE d == x % row_size
<1>2. x = r * row_size + d /\ r \in Nat /\ d \in 0..(row_size - 1) /\ x \in Nat /\ x < N * row_size
  <2>1. \A n \in Nat \ {0} : \A a \in Nat : a = (a \div n) * n + (a % n) /\ a \div n \in Nat /\ a % n \in 0..(n - 1)
    OBVIOUS
  <2>2. x \in Nat /\ x < N * row_size
    BY <1>1
  <2>. QED
    BY <2>1, <2>2
<1>. HIDE DEF d
<1>3. r \in 0..(N - 1)
  <2>1. ASSUME r >= N
        PROVE  FALSE
    <3>1. (r - N) * row_size >= 0 /\ (r - N) * row_size = r * row_size - N * row_size
      BY <1>1, <1>2, <2>1
    <3>. QED
      BY <1>1, <1>2, <3>1
  <2>. QED
    BY <1>1, <1>2, <2>1
<1>4. c = d * W + p /\ p \in 0..(W - 1)
  BY <1>1 DEF d
<1>5. c \in 0..(N - 1)
  <2>1. (row_size - 1 - d) * W >= 0 /\ (row_size - 1 - d) * W = row_size * W - W - d * W /\ d * W >= 0
    BY <1>1, <1>2
  <2>. QED
    BY <1>1, <1>2, <1>4, <2>1
<1>6. c \div W = d /\ c % W = p
  <2>1. c \in Int /\ d \in Int /\ p \in 0..(W - 1) /\ W \in Nat \ {0}
    BY <1>1, <1>2, <1>4, <1>5
  <2>. QED
    BY <1>4, <2>1, Division
<1>. QED
  BY <1>1, <1>2, <1>3, <1>5, <1>6

\* The two ways to say where a bit comes from
LEMMA TurnedByPlace ==
  ASSUME GoodMachine, row_size \in Nat \ {0}, NEW img, NEW k
  PROVE  TurnedAt(img, k, ImageWords) <=> \A r, c \in Places : get_bit(img, c, r) = Turn(k, r, c)
<1>0. \A x, p : Origin(k, x, p) = Turn(k, x \div row_size, (x % row_size) * W + p)
  BY DEF Origin, Turn
<1>1. ASSUME TurnedAt(img, k, ImageWords), NEW r \in Places, NEW c \in Places
      PROVE  get_bit(img, c, r) = Turn(k, r, c)
  <2>. DEFINE x == r * row_size + (c \div W)
              p == c % W
  <2>1. x \in ImageWords /\ p \in Bits /\ x \div row_size = r /\ (x % row_size) * W + p = c
    BY PlaceOf
  <2>2. get_bit(img, c, r) = img[x][p]
    BY DEF get_bit
  <2>. HIDE DEF x, p
  <2>3. img[x][p] = Origin(k, x, p)
    BY <1>1, <2>1 DEF TurnedAt
  <2>. QED
    BY <1>0, <2>1, <2>2, <2>3
<1>2. ASSUME \A r, c \in Places : get_bit(img, c, r) = Turn(k, r, c), NEW x \in ImageWords, NEW p \in Bits
      PROVE  img[x][p] = Origin(k, x, p)
  <2>. DEFINE r == x \div row_size
              c == (x % row_size) * W + p
  <2>1. r \in Places /\ c \in Places /\ x = r * row_size + (c \div W) /\ p = c % W
    BY PlaceFor
  <2>2. Origin(k, x, p) = Turn(k, r, c)
    BY <1>0
  <2>. HIDE DEF r, c
  <2>3. get_bit(img, c, r) = img[x][p]
    BY <2>1 DEF get_bit
  <2>. QED
    BY <1>2, <2>1, <2>2, <2>3
<1>. QED
  BY <1>1, <1>2 DEF TurnedAt

\* What is read at a place is a bit of the image.
LEMMA Got ==
  ASSUME GoodMachine, row_size \in Nat \ {0}, NEW img \in [ImageWords -> Words],
         NEW i \in Places, NEW j \in Places
  PROVE  get_bit(img, i, j) \in Int
<1>1. j * row_size + (i \div W) \in ImageWords /\ i % W \in Bits
  BY PlaceOf
<1>. QED
  BY <1>1 DEF get_bit, Words

\* A bit that is set is read again, and no other has changed.
LEMMA SetAndGet ==
  ASSUME GoodMachine, row_size \in Nat \ {0}, NEW img \in [ImageWords -> Words],
         NEW i \in Places, NEW j \in Places, NEW v \in Int, NEW new, new = set_bit(img, i, j, v)
  PROVE  /\ new \in [ImageWords -> Words]
         /\ get_bit(new, i, j) = v
         /\ \A i2, j2 \in Places : i2 # i \/ j2 # j => get_bit(new, i2, j2) = get_bit(img, i2, j2)
<1>. DEFINE x(a, b) == b * row_size + (a \div W)
            p(a)    == a % W
<1>1. \A a, b \in Places : x(a, b) \in ImageWords /\ p(a) \in Bits
  BY PlaceOf
<1>2. ASSUME NEW i2 \in Places, NEW j2 \in Places, x(i2, j2) = x(i, j), p(i2) = p(i)
      PROVE  i2 = i /\ j2 = j
  <2>1. \A a, b \in Places : x(a, b) \div row_size = b /\ (x(a, b) % row_size) * W + p(a) = a
    BY PlaceOf
  <2>. HIDE DEF x, p
  <2>. QED
    BY <1>2, <2>1
<1>3. /\ \A f, a, b : get_bit(f, a, b) = f[x(a, b)][p(a)]
      /\ new = [img EXCEPT ![x(i, j)][p(i)] = v]
  BY DEF get_bit, set_bit
<1>. HIDE DEF x, p
<1>5. new \in [ImageWords -> Words]
  <2>1. [img[x(i, j)] EXCEPT ![p(i)] = v] \in Words
    BY <1>1 DEF Words
  <2>. QED
    BY <1>1, <1>3, <2>1
<1>6. ASSUME NEW i2 \in Places, NEW j2 \in Places
      PROVE  get_bit(new, i2, j2) = IF i2 = i /\ j2 = j THEN v ELSE get_bit(img, i2, j2)
  <2>1. [img EXCEPT ![x(i, j)][p(i)] = v][x(i2, j2)][p(i2)]
          = IF x(i2, j2) = x(i, j) /\ p(i2) = p(i) THEN v ELSE img[x(i2, j2)][p(i2)]
    BY <1>1 DEF Words
  <2>. QED
    BY <1>2, <1>3, <2>1
<1>. QED
  BY <1>5, <1>6

\* The four places that a bit goes round: row j and column i first
Ring(j, i) == {<<j, i>>, <<i, N - 1 - j>>, <<N - 1 - j, N - 1 - i>>, <<N - 1 - i, j>>}

\* One round of the tester's own rotation turns one ring.
LEMMA RingTurns ==
  ASSUME GoodMachine, row_size \in Nat \ {0}, copy \in [ImageWords -> Words], Stock,
         at.j \in 0..((N \div 2) - 1), at.i \in 0..((N \div 2) - 1)
  PROVE  /\ copy' \in [ImageWords -> Words]
         /\ \A r, c \in Places :
              get_bit(copy', c, r) = IF <<r, c>> \in Ring(at.j, at.i) THEN get_bit(copy, r, N - 1 - c)
                                     ELSE get_bit(copy, c, r)
<1>. DEFINE Step(last) ==
              LET next == Quarter(last.i, last.j)
              IN  [img     |-> set_bit(last.img, next.i, next.j, last.tmp_bit),
                   i       |-> next.i, j |-> next.j,
                   tmp_bit |-> get_bit(last.img, next.i, next.j)]
            C0 == [img |-> copy, i |-> at.i, j |-> at.j, tmp_bit |-> get_bit(copy, at.i, at.j)]
            Equation(f) == [q \in 0..4 |-> IF q = 0 THEN C0 ELSE Step(f[q - 1])]
            Carry == CHOOSE f : f = Equation(f)
            C1 == Step(C0)
            C2 == Step(C1)
            C3 == Step(C2)
            C4 == Step(C3)
<1>1. copy' = Carry[4].img
  BY DEF Stock
<1>2. Carry[4] = C4
  <2>. DEFINE F == [q \in 0..4 |-> IF q = 0 THEN C0 ELSE IF q = 1 THEN C1 ELSE IF q = 2 THEN C2
                                   ELSE IF q = 3 THEN C3 ELSE C4]
  <2>. HIDE DEF C0, Step
  <2>1. F[0] = C0 /\ F[1] = C1 /\ F[2] = C2 /\ F[3] = C3 /\ F[4] = C4
    BY DEF F
  <2>2. F = Equation(F)
    <3>1. \A q \in 0..4 : F[q] = IF q = 0 THEN C0 ELSE Step(F[q - 1])
      <4>. HIDE DEF F
      <4>1. /\ F[0] = C0 /\ F[1] = Step(F[0]) /\ F[2] = Step(F[1]) /\ F[3] = Step(F[2]) /\ F[4] = Step(F[3])
        BY <2>1
      <4>2. 1 - 1 = 0 /\ 2 - 1 = 1 /\ 3 - 1 = 2 /\ 4 - 1 = 3 /\ 0..4 = {0, 1, 2, 3, 4}
        OBVIOUS
      <4>. QED
        BY <4>1, <4>2
    <3>2. F = [q \in 0..4 |-> F[q]]
      OBVIOUS
    <3>. HIDE DEF F
    <3>. QED
      BY <3>1, <3>2
  <2>3. Carry = Equation(Carry)
    BY <2>2
  <2>. HIDE DEF Carry, F
  <2>4. Carry[0] = C0 /\ \A q \in 1..4 : Carry[q] = Step(Carry[q - 1])
    BY <2>3
  <2>5. Carry[1] = C1 /\ (1 - 1 = 0 /\ 2 - 1 = 1 /\ 3 - 1 = 2 /\ 4 - 1 = 3)
    BY <2>4
  <2>6. Carry[2] = C2
    BY <2>4, <2>5
  <2>7. Carry[3] = C3
    BY <2>4, <2>5, <2>6
  <2>. QED
    BY <2>4, <2>5, <2>7
<1>. DEFINE i == at.i
            j == at.j
            i1 == N - j - 1
            j3 == N - i - 1
<1>3. /\ i \in Places /\ j \in Places /\ i1 \in Places /\ j3 \in Places
      /\ N - i1 - 1 = j /\ N - j3 - 1 = i
      /\ i \in Int /\ j \in Int /\ i1 \in Int /\ j3 \in Int
      /\ i < N \div 2 /\ j < N \div 2 /\ i1 >= N \div 2 /\ j3 >= N \div 2 /\ N \div 2 \in Int
  <2>. DEFINE H == N \div 2
  <2>1. N \in Nat /\ H \in Nat \ {0} /\ N = 2 * H /\ Places = 0..(N - 1) /\ i \in 0..(H - 1) /\ j \in 0..(H - 1)
    BY Sizes
  <2>2. i1 = N - j - 1 /\ j3 = N - i - 1
    OBVIOUS
  <2>. HIDE DEF H, i, j, i1, j3
  <2>3. /\ i \in Places /\ j \in Places /\ i1 \in Places /\ j3 \in Places
        /\ N - i1 - 1 = j /\ N - j3 - 1 = i
        /\ i \in Int /\ j \in Int /\ i1 \in Int /\ j3 \in Int
        /\ i < H /\ j < H /\ i1 >= H /\ j3 >= H /\ H \in Int
    BY <2>1, <2>2
  <2>. QED
    BY <2>3 DEF H
<1>4. /\ C0.img = copy /\ C0.i = i /\ C0.j = j /\ C0.tmp_bit = get_bit(copy, i, j)
      /\ \A l : /\ Step(l).img = set_bit(l.img, N - l.j - 1, l.i, l.tmp_bit)
                /\ Step(l).i = N - l.j - 1 /\ Step(l).j = l.i
                /\ Step(l).tmp_bit = get_bit(l.img, N - l.j - 1, l.i)
  BY DEF Quarter
<1>. HIDE DEF C0, Step, i, j, i1, j3
<1>5. /\ C1.img = set_bit(copy, i1, i, get_bit(copy, i, j)) /\ C1.i = i1 /\ C1.j = i
      /\ C1.tmp_bit = get_bit(copy, i1, i)
  BY <1>4 DEF i1
<1>. HIDE DEF C1
<1>6. /\ C2.img = set_bit(C1.img, j3, i1, get_bit(copy, i1, i)) /\ C2.i = j3 /\ C2.j = i1
      /\ C2.tmp_bit = get_bit(C1.img, j3, i1)
  BY <1>4, <1>5 DEF j3
<1>. HIDE DEF C2
<1>7. /\ C3.img = set_bit(C2.img, j, j3, C2.tmp_bit) /\ C3.i = j /\ C3.j = j3
      /\ C3.tmp_bit = get_bit(C2.img, j, j3)
  BY <1>3, <1>4, <1>6
<1>. HIDE DEF C3
<1>8. C4.img = set_bit(C3.img, i, j, C3.tmp_bit)
  BY <1>3, <1>4, <1>7
<1>. HIDE DEF C4
<1>9. /\ C1.img \in [ImageWords -> Words]
      /\ get_bit(C1.img, i1, i) = get_bit(copy, i, j)
      /\ \A a, b \in Places : a # i1 \/ b # i => get_bit(C1.img, a, b) = get_bit(copy, a, b)
  <2>1. get_bit(copy, i, j) \in Int
    BY <1>3, Got
  <2>. QED
    BY <1>3, <1>5, <2>1, SetAndGet
<1>10. /\ C2.img \in [ImageWords -> Words]
       /\ get_bit(C2.img, j3, i1) = get_bit(copy, i1, i)
       /\ \A a, b \in Places : a # j3 \/ b # i1 => get_bit(C2.img, a, b) = get_bit(C1.img, a, b)
  <2>. DEFINE t == get_bit(copy, i1, i)
  <2>1. t \in Int
    BY <1>3, Got
  <2>2. C1.img \in [ImageWords -> Words] /\ j3 \in Places /\ i1 \in Places
        /\ C2.img = set_bit(C1.img, j3, i1, t)
    BY <1>3, <1>6, <1>9
  <2>. HIDE DEF t
  <2>3. /\ C2.img \in [ImageWords -> Words]
        /\ get_bit(C2.img, j3, i1) = t
        /\ \A a, b \in Places : a # j3 \/ b # i1 => get_bit(C2.img, a, b) = get_bit(C1.img, a, b)
    BY <2>1, <2>2, SetAndGet
  <2>. QED
    BY <2>3 DEF t
<1>11. /\ C3.img \in [ImageWords -> Words]
       /\ get_bit(C3.img, j, j3) = C2.tmp_bit
       /\ \A a, b \in Places : a # j \/ b # j3 => get_bit(C3.img, a, b) = get_bit(C2.img, a, b)
  <2>1. C2.tmp_bit \in Int
    BY <1>3, <1>6, <1>9, Got
  <2>2. C2.img \in [ImageWords -> Words] /\ j \in Places /\ j3 \in Places
        /\ C3.img = set_bit(C2.img, j, j3, C2.tmp_bit)
    BY <1>3, <1>7, <1>10
  <2>. QED
    BY <2>1, <2>2, SetAndGet
<1>12. /\ C4.img \in [ImageWords -> Words]
       /\ get_bit(C4.img, i, j) = C3.tmp_bit
       /\ \A a, b \in Places : a # i \/ b # j => get_bit(C4.img, a, b) = get_bit(C3.img, a, b)
  <2>1. C3.tmp_bit \in Int
    BY <1>3, <1>7, <1>10, Got
  <2>2. C3.img \in [ImageWords -> Words] /\ i \in Places /\ j \in Places
        /\ C4.img = set_bit(C3.img, i, j, C3.tmp_bit)
    BY <1>3, <1>8, <1>11
  <2>. QED
    BY <2>1, <2>2, SetAndGet
<1>13. C2.tmp_bit = get_bit(copy, j3, i1) /\ C3.tmp_bit = get_bit(copy, j, j3)
  <2>1. C2.tmp_bit = get_bit(copy, j3, i1)
    BY <1>3, <1>6, <1>9
  <2>2. get_bit(C2.img, j, j3) = get_bit(C1.img, j, j3)
    BY <1>3, <1>10
  <2>3. get_bit(C1.img, j, j3) = get_bit(copy, j, j3)
    BY <1>3, <1>9
  <2>. QED
    BY <1>7, <2>1, <2>2, <2>3
<1>14. ASSUME NEW r \in Places, NEW c \in Places
       PROVE  get_bit(C4.img, c, r) = IF <<r, c>> \in Ring(j, i) THEN get_bit(copy, r, N - 1 - c)
                                      ELSE get_bit(copy, c, r)
  <2>1. get_bit(C4.img, c, r) = IF c = i /\ r = j THEN get_bit(copy, j, j3)
                                ELSE IF c = j /\ r = j3 THEN get_bit(copy, j3, i1)
                                ELSE IF c = j3 /\ r = i1 THEN get_bit(copy, i1, i)
                                ELSE IF c = i1 /\ r = i THEN get_bit(copy, i, j)
                                ELSE get_bit(copy, c, r)
    BY <1>9, <1>10, <1>11, <1>12, <1>13
  <2>2. Ring(j, i) = {<<j, i>>, <<i, i1>>, <<i1, j3>>, <<j3, j>>}
    <3>1. N - 1 - j = i1 /\ N - 1 - i = j3
      <4>1. i1 = N - j - 1 /\ j3 = N - i - 1 /\ N \in Int
        BY Sizes DEF i1, j3
      <4>. QED
        BY <1>3, <4>1
    <3>. QED
      BY <3>1 DEF Ring
  <2>3. /\ c = i => N - 1 - c = j3
        /\ c = j => N - 1 - c = i1
        /\ c = j3 => N - 1 - c = i
        /\ c = i1 => N - 1 - c = j
    <3>1. i1 = N - j - 1 /\ j3 = N - i - 1 /\ N \in Int
      BY Sizes DEF i1, j3
    <3>. QED
      BY <1>3, <3>1
  <2>. QED
    BY <2>1, <2>2, <2>3
<1>. QED
  BY <1>1, <1>2, <1>12, <1>14 DEF i, j

-----------------------------------------------------------------------------
(* Images.                                                                 *)

\* Every bit of a matrix of so many words is one of the generated matrix,
Bits_of(n) == 0..(n * W - 1)
Matrix(n) == [0..(n - 1) -> [Bits -> Bits_of(n)]]

\* and none is there twice.
Apart(img) == \A x, y \in DOMAIN img : \A p, s \in Bits : img[x][p] = img[y][s] => x = y /\ p = s

\* A matrix is an image.
LEMMA MatrixWords ==
  ASSUME GoodMachine, NEW n \in Nat, NEW img \in Matrix(n)
  PROVE  img \in [0..(n - 1) -> Words] /\ DOMAIN img = 0..(n - 1)
<1>1. Bits_of(n) \subseteq Int
  BY Wide DEF Bits_of
<1>. QED
  BY <1>1 DEF Matrix, Words

\* The generated matrix is one.
LEMMA Generated ==
  ASSUME GoodMachine, NEW rows \in Nat, NEW n, n = rows * W * rows
  PROVE  /\ n \in Nat /\ NewImage(rows) \in Matrix(n) /\ Apart(NewImage(rows))
         /\ \A x \in 0..(n - 1) : \A p \in Bits : NewImage(rows)[x][p] = Pixel(x, p)
<1>1. W \in Nat \ {0} /\ Bits = 0..(W - 1)
  BY Wide
<1>2. n \in Nat
  <2>1. \A a, b \in Nat : a * b \in Nat
    OBVIOUS
  <2>2. rows * W \in Nat
    BY <1>1, <2>1
  <2>. QED
    BY <2>1, <2>2
<1>3. NewImage(rows) = [x \in 0..(n - 1) |-> [p \in Bits |-> Pixel(x, p)]]
  BY DEF NewImage
<1>4. ASSUME NEW x \in 0..(n - 1), NEW p \in Bits
      PROVE  Pixel(x, p) \in Bits_of(n)
  <2>1. (n - 1 - x) * W >= 0 /\ (n - 1 - x) * W = n * W - W - x * W /\ x * W >= 0
    BY <1>1, <1>2
  <2>2. x * W + p \in 0..(n * W - 1)
    BY <1>1, <1>2, <2>1
  <2>. QED
    BY <2>2 DEF Pixel, Bits_of
<1>5. ASSUME NEW x \in 0..(n - 1), NEW y \in 0..(n - 1), NEW p \in Bits, NEW s \in Bits, Pixel(x, p) = Pixel(y, s)
      PROVE  x = y /\ p = s
  <2>1. x \in Int /\ y \in Int /\ p \in 0..(W - 1) /\ s \in 0..(W - 1) /\ x * W + p = y * W + s
    BY <1>1, <1>2, <1>5 DEF Pixel
  <2>. QED
    BY <1>1, <2>1, DivideOnce
<1>. QED
  BY <1>2, <1>3, <1>4, <1>5 DEF Matrix, Apart

\* Each bit is there once, so there are as many.
LEMMA Counted ==
  ASSUME GoodMachine, NEW n \in Nat, NEW img \in Matrix(n), Apart(img)
  PROVE  /\ Cardinality(DOMAIN img) = n
         /\ Cardinality({img[x][p] : x \in DOMAIN img, p \in Bits}) = Cardinality(DOMAIN img) * W
<1>1. W \in Nat \ {0} /\ Bits = 0..(W - 1)
  BY Wide
<1>. DEFINE S == {img[x][p] : x \in DOMAIN img, p \in Bits}
            f == [z \in 0..(n * W - 1) |-> img[z \div W][z % W]]
<1>2. DOMAIN img = 0..(n - 1)
  BY DEF Matrix
<1>3. \A m \in Nat : IsFiniteSet(0..(m - 1)) /\ Cardinality(0..(m - 1)) = m
  <2>. TAKE m \in Nat
  <2>1. 0 \in Int /\ m - 1 \in Int
    OBVIOUS
  <2>2. Cardinality(0..(m - 1)) = IF 0 > m - 1 THEN 0 ELSE (m - 1) - 0 + 1
    BY <2>1, FS_Interval
  <2>3. IsFiniteSet(0..(m - 1))
    BY <2>1, FS_Interval
  <2>. QED
    BY <2>2, <2>3
<1>4. n * W \in Nat
  BY <1>1
<1>5. ASSUME NEW z \in 0..(n * W - 1)
      PROVE  /\ z \div W \in 0..(n - 1) /\ z % W \in Bits
             /\ z = (z \div W) * W + (z % W)
  <2>. DEFINE d == z \div W
              e == z % W
  <2>1. z \in Nat /\ z < n * W
    BY <1>4
  <2>2. z = d * W + e /\ d \in Nat /\ e \in 0..(W - 1)
    BY <1>1, <2>1
  <2>. HIDE DEF d, e
  <2>3. d < n
    <3>1. ASSUME d >= n
          PROVE  FALSE
      <4>1. (d - n) * W >= 0 /\ (d - n) * W = d * W - n * W
        BY <1>1, <2>2, <3>1
      <4>. QED
        BY <1>1, <2>1, <2>2, <4>1
    <3>. QED
      BY <2>2, <3>1
  <2>. QED
    BY <1>1, <2>2, <2>3 DEF d, e
<1>6. f \in [0..(n * W - 1) -> S]
  BY <1>2, <1>5
<1>7. IsInjective(f)
  <2>. SUFFICES ASSUME NEW y \in 0..(n * W - 1), NEW z \in 0..(n * W - 1), f[y] = f[z]
                PROVE  y = z
    BY DEF IsInjective
  <2>1. img[y \div W][y % W] = img[z \div W][z % W]
    OBVIOUS
  <2>2. y \div W = z \div W /\ y % W = z % W
    BY <1>2, <1>5, <2>1 DEF Apart
  <2>. QED
    BY <1>5, <2>2
<1>8. ASSUME NEW t \in S
      PROVE  \E z \in 0..(n * W - 1) : f[z] = t
  <2>1. PICK x \in 0..(n - 1), p \in Bits : t = img[x][p]
    BY <1>2
  <2>. DEFINE z == x * W + p
  <2>2. z \in 0..(n * W - 1)
    <3>1. (n - 1 - x) * W >= 0 /\ (n - 1 - x) * W = n * W - W - x * W /\ x * W >= 0
      BY <1>1
    <3>. QED
      BY <1>1, <3>1
  <2>3. z \div W = x /\ z % W = p
    <3>1. x \in Int /\ p \in 0..(W - 1) /\ z \in Int /\ z = x * W + p /\ W \in Nat \ {0}
      BY <1>1, <2>2
    <3>. HIDE DEF z, f, S
    <3>. QED
      BY <3>1, Division
  <2>. HIDE DEF z
  <2>4. f[z] = t
    BY <2>1, <2>2, <2>3
  <2>. QED
    BY <2>2, <2>4
<1>. HIDE DEF f, S
<1>9. ExistsBijection(0..(n * W - 1), S)
  BY <1>6, <1>7, <1>8 DEF ExistsBijection, Bijection, Injection, Surjection
<1>10. Cardinality(S) = n * W /\ Cardinality(0..(n - 1)) = n
  BY <1>3, <1>4, <1>9, FS_Bijection
<1>. QED
  BY <1>2, <1>10 DEF S

\* Each bit of new comes from a bit of img, and from another one for others.
Moves(R, n, img, new) ==
  /\ \A x \in 0..(n - 1) : \A p \in Bits :
       \E y \in 0..(n - 1) : \E s \in Bits : <<x, p, y, s>> \in R /\ new[x][p] = img[y][s]
  /\ \A x, x2, y \in 0..(n - 1) : \A p, p2, s \in Bits :
       <<x, p, y, s>> \in R /\ <<x2, p2, y, s>> \in R => x = x2 /\ p = p2

\* An image whose bits come from different places of another one is one too.
LEMMA Rearranged ==
  ASSUME GoodMachine, NEW n \in Nat, NEW img \in Matrix(n), Apart(img), NEW new \in [0..(n - 1) -> Words],
         NEW R, Moves(R, n, img, new)
  PROVE  new \in Matrix(n) /\ Apart(new)
<1>1. DOMAIN img = 0..(n - 1) /\ DOMAIN new = 0..(n - 1) /\ \A x \in 0..(n - 1) : \A p \in Bits : img[x][p] \in Bits_of(n)
  BY DEF Matrix
<1>2. ASSUME NEW x \in 0..(n - 1), NEW p \in Bits
      PROVE  new[x][p] \in Bits_of(n)
  <2>1. PICK y \in 0..(n - 1), s \in Bits : <<x, p, y, s>> \in R /\ new[x][p] = img[y][s]
    BY DEF Moves
  <2>. QED
    BY <1>1, <2>1
<1>3. new \in Matrix(n)
  <2>1. \A x \in 0..(n - 1) : new[x] \in [Bits -> Bits_of(n)]
    BY <1>2 DEF Words
  <2>. QED
    BY <1>1, <2>1 DEF Matrix
<1>4. ASSUME NEW x \in 0..(n - 1), NEW x2 \in 0..(n - 1), NEW p \in Bits, NEW p2 \in Bits, new[x][p] = new[x2][p2]
      PROVE  x = x2 /\ p = p2
  <2>1. PICK y \in 0..(n - 1), s \in Bits : <<x, p, y, s>> \in R /\ new[x][p] = img[y][s]
    BY DEF Moves
  <2>2. PICK y2 \in 0..(n - 1), s2 \in Bits : <<x2, p2, y2, s2>> \in R /\ new[x2][p2] = img[y2][s2]
    BY DEF Moves
  <2>3. y = y2 /\ s = s2
    <3>1. y \in DOMAIN img /\ y2 \in DOMAIN img /\ img[y][s] = img[y2][s2]
      BY <1>1, <1>4, <2>1, <2>2
    <3>. QED
      BY <3>1 DEF Apart
  <2>. QED
    BY <2>1, <2>2, <2>3 DEF Moves
<1>. QED
  BY <1>1, <1>3, <1>4 DEF Apart

-----------------------------------------------------------------------------
(* One turn more.                                                          *)

\* What k + 1 turns bring to a place, k turns bring to the place before it.
LEMMA TurnNext ==
  ASSUME GoodMachine, row_size \in Nat \ {0}, NEW t \in 0..2, NEW r \in Places, NEW c \in Places
  PROVE  Turn(t + 1, r, c) = Turn(t, N - 1 - c, r) /\ N - 1 - c \in Places
<1>1. N \in Nat \ {0} /\ r \in 0..(N - 1) /\ c \in 0..(N - 1) /\ Places = 0..(N - 1)
  BY Sizes
<1>2. N - 1 - c \in Places /\ N - 1 - (N - 1 - c) = c
  BY <1>1
<1>. QED
  BY <1>1, <1>2 DEF Turn

\* A bit of a block, by row and column of the image
LEMMA OriginInBlock ==
  ASSUME GoodMachine, row_size \in Nat \ {0}, NEW R \in 0..(row_size - 1), NEW C \in 0..(row_size - 1),
         NEW k \in Bits, NEW p \in Bits, NEW x, x = (R * W + k) * row_size + C, NEW t
  PROVE  /\ Origin(t, x, p) = Turn(t, R * W + k, C * W + p)
         /\ R * W + k \in Places /\ C * W + p \in Places
<1>1. /\ W \in Nat \ {0} /\ Bits = 0..(W - 1) /\ N = row_size * W /\ Places = 0..(N - 1)
  BY Sizes, Wide
<1>2. \A y \in 0..(row_size - 1) : \A s \in Bits : y * W + s \in Places
  <2>. TAKE y \in 0..(row_size - 1)
  <2>1. (row_size - 1 - y) * W >= 0 /\ (row_size - 1 - y) * W = row_size * W - W - y * W /\ y * W >= 0
    BY <1>1
  <2>. QED
    BY <1>1, <2>1
<1>. DEFINE w == R * W + k
<1>3. w \in Int /\ x \in Int /\ x = w * row_size + C
  BY <1>1
<1>. HIDE DEF w
<1>4. x \div row_size = w /\ x % row_size = C
  BY <1>3, Division
<1>. QED
  BY <1>2, <1>4 DEF Origin, Turn, w

\* A block of the round becomes what the one before it is, turned once more.
LEMMA RoundTurns ==
  ASSUME GoodMachine, row_size \in Nat \ {0, 1}, NEW j, NEW i, InLoops(j, i),
         NEW q \in Quarters, NEW k \in Bits, NEW p \in Bits, NEW t \in 0..2
  PROVE  Origin(t + 1, Word(q, j, i, k), p) = Origin(t, Word(Before(q), j, i, W - 1 - p), k)
<1>1. /\ W \in Nat \ {0} /\ Bits = 0..(W - 1) /\ N = row_size * W /\ W - 1 - p \in Bits
      /\ row_size \in Nat \ {0}
  <2>1. W \in Nat \ {0} /\ Bits = 0..(W - 1) /\ row_size \in Nat \ {0}
    BY Wide
  <2>2. W - 1 - p \in Bits
    BY <2>1
  <2>. QED
    BY <2>1, <2>2, Sizes
<1>. DEFINE R  == BlockRow(q, j, i)
            C  == BlockCol(q, j, i)
            R2 == BlockRow(Before(q), j, i)
            C2 == BlockCol(Before(q), j, i)
<1>2. Before(q) \in Quarters
  BY DEF Before, Quarters
<1>3. /\ R \in 0..(row_size - 1) /\ C \in 0..(row_size - 1)
      /\ Word(q, j, i, k) = (R * W + k) * row_size + C
  BY <1>1, Coordinates DEF Quarters
<1>4. /\ R2 \in 0..(row_size - 1) /\ C2 \in 0..(row_size - 1)
      /\ Word(Before(q), j, i, W - 1 - p) = (R2 * W + (W - 1 - p)) * row_size + C2
  BY <1>1, <1>2, Coordinates DEF Quarters
<1>5. R2 = row_size - 1 - C /\ C2 = R
  <2>1. j \in Nat /\ i \in Nat
    BY DEF InLoops
  <2>. QED
    BY <2>1 DEF BlockRow, BlockCol, Before, Quarters
<1>. HIDE DEF R, C, R2, C2
<1>6. /\ Origin(t + 1, Word(q, j, i, k), p) = Turn(t + 1, R * W + k, C * W + p)
      /\ R * W + k \in Places /\ C * W + p \in Places
  BY <1>3, OriginInBlock
<1>7. Origin(t, Word(Before(q), j, i, W - 1 - p), k) = Turn(t, R2 * W + (W - 1 - p), C2 * W + k)
  <2>. DEFINE b == W - 1 - p
              x == Word(Before(q), j, i, b)
  <2>1. b \in Bits /\ x = (R2 * W + b) * row_size + C2 /\ R2 \in 0..(row_size - 1) /\ C2 \in 0..(row_size - 1)
        /\ row_size \in Nat \ {0}
    BY <1>1, <1>4
  <2>. HIDE DEF b, x
  <2>2. Origin(t, x, k) = Turn(t, R2 * W + b, C2 * W + k)
    BY <2>1, OriginInBlock
  <2>. QED
    BY <2>2 DEF b, x
<1>8. R2 * W + (W - 1 - p) = N - 1 - (C * W + p)
  <2>1. (row_size - 1 - C) * W = row_size * W - W - C * W
    BY <1>1, <1>3
  <2>. QED
    BY <1>1, <1>3, <1>5, <2>1
<1>. QED
  BY <1>5, <1>6, <1>7, <1>8, TurnNext

\* So does the block in the middle, in its own place.
LEMMA MiddleRoundTurns ==
  ASSUME GoodMachine, row_size \in Nat \ {0}, row_size % 2 = 1, NEW k \in Bits, NEW p \in Bits, NEW t \in 0..2
  PROVE  Origin(t + 1, MiddleWord(k), p) = Origin(t, MiddleWord(W - 1 - p), k)
<1>1. /\ W \in Nat \ {0} /\ Bits = 0..(W - 1) /\ N = row_size * W /\ W - 1 - p \in Bits
      /\ row_size = 2 * Half + 1 /\ Half \in Nat /\ Half \in 0..(row_size - 1)
  <2>1. W \in Nat \ {0} /\ Bits = 0..(W - 1)
    BY Wide
  <2>2. W - 1 - p \in Bits
    BY <2>1
  <2>3. row_size = 2 * Half + 1 /\ Half \in Nat /\ Half \in 0..(row_size - 1)
    BY DEF Half
  <2>. QED
    BY <2>1, <2>2, <2>3, Sizes
<1>2. \A z \in Bits : MiddleWord(z) = (Half * W + z) * row_size + Half
  <2>. TAKE z \in Bits
  <2>1. z \in Int
    BY <1>1
  <2>2. W * Half * row_size + Half + z * row_size = (Half * W + z) * row_size + Half
    BY <1>1, <2>1
  <2>. QED
    BY <2>2 DEF MiddleWord
<1>3. /\ Origin(t + 1, MiddleWord(k), p) = Turn(t + 1, Half * W + k, Half * W + p)
      /\ Half * W + k \in Places /\ Half * W + p \in Places
  <2>. DEFINE x == MiddleWord(k)
  <2>1. x = (Half * W + k) * row_size + Half /\ Half \in 0..(row_size - 1)
    BY <1>1, <1>2
  <2>. HIDE DEF x
  <2>2. /\ Origin(t + 1, x, p) = Turn(t + 1, Half * W + k, Half * W + p)
        /\ Half * W + k \in Places /\ Half * W + p \in Places
    BY <2>1, OriginInBlock
  <2>. QED
    BY <2>2 DEF x
<1>4. Origin(t, MiddleWord(W - 1 - p), k) = Turn(t, Half * W + (W - 1 - p), Half * W + k)
  <2>. DEFINE b == W - 1 - p
              x == MiddleWord(b)
  <2>1. b \in Bits /\ x = (Half * W + b) * row_size + Half /\ Half \in 0..(row_size - 1)
    BY <1>1, <1>2
  <2>. HIDE DEF b, x
  <2>2. Origin(t, x, k) = Turn(t, Half * W + b, Half * W + k)
    BY <2>1, OriginInBlock
  <2>. QED
    BY <2>2 DEF b, x
<1>5. Half * W + (W - 1 - p) = N - 1 - (Half * W + p)
  <2>1. (2 * Half + 1) * W = Half * W + Half * W + W /\ Half * W \in Nat
    BY <1>1
  <2>. QED
    BY <1>1, <2>1
<1>. QED
  BY <1>3, <1>4, <1>5, TurnNext

-----------------------------------------------------------------------------
(* The invariant of the rotations.                                         *)

\* The rounds that are done when the loops are at this place
Earlier(place, j, i) == j < place.j \/ (j = place.j /\ i < place.i)

\* The blocks of the rounds that are done are turned once more than t times.
BlocksAt(img, t, place) ==
  /\ \A q \in Quarters : \A j, i : InLoops(j, i) => \A k, p \in Bits :
       img[Word(q, j, i, k)][p] = Origin(IF Earlier(place, j, i) THEN t + 1 ELSE t, Word(q, j, i, k), p)
  /\ row_size % 2 = 1 => \A k, p \in Bits : img[MiddleWord(k)][p] = Origin(t, MiddleWord(k), p)

\* The place in the first quadrant that a bit comes round from or to
Lead(r, c) ==
  IF r < N \div 2 THEN IF c < N \div 2 THEN [j |-> r, i |-> c] ELSE [j |-> N - 1 - c, i |-> r]
  ELSE IF c < N \div 2 THEN [j |-> c, i |-> N - 1 - r] ELSE [j |-> N - 1 - r, i |-> N - 1 - c]

RingsAt(img, t, place) ==
  \A r, c \in Places :
    get_bit(img, c, r) = Turn(IF Earlier(place, Lead(r, c).j, Lead(r, c).i) THEN t + 1 ELSE t, r, c)

Turned(img, t) == TurnedAt(img, t, ImageWords)

Tiers == options.test_type = "tiers"

\* A dimension that was given is that of a word at least.
WideInv ==
  options.test_type \in {"not set", "generated"} => options.N \in Nat /\ (options.N = 0 \/ options.N >= W)

\* Where the loops are, and how large the image is
ScalarInv ==
  /\ overshift \in {"same", "zero"} /\ read \in 0..MaxArguments /\ turns \in 0..2 /\ tier >= -1
  /\ pc \in {"options", "help", "file", "generate", "rotate", "rotated", "stock", "compare", "done", "aborted", "exited"}

SizeInv ==
  /\ ScalarInv
  /\ row_size \in Nat
  /\ at \in [j : Nat, i : Nat]
  /\ pc \in {"options", "file", "generate", "rotated"} => at = Start
  /\ pc \in {"options", "file", "generate"} => turns = 0
  /\ pc \in {"options", "file"} => image = <<>> /\ copy = <<>>
  /\ pc \in {"generate", "rotate", "rotated", "stock", "compare"} => row_size # 0
  /\ pc = "rotate" => IF row_size = 1 THEN at = Start ELSE Done(at.j) \/ InLoops(at.j, at.i)
  /\ pc = "stock" => at.j \in 0..((N \div 2) - 1) /\ at.i \in 0..((N \div 2) - 1)
  /\ Tiers /\ pc \in {"generate", "rotate", "rotated"} => row_size = tier_sizes[tier]
  /\ Tiers /\ pc \in {"rotate", "rotated"} =>
       DOMAIN image = 0..(tier_sizes[options.max_tier] * W * tier_sizes[options.max_tier] - 1)
  /\ ~Tiers /\ pc \in {"rotate", "rotated", "stock", "compare"} => DOMAIN image = ImageWords /\ DOMAIN copy = ImageWords

\* No bit is lost or doubled, and what is behind the image is as it was generated.
BitsInv ==
  /\ \E n \in Nat : image \in Matrix(n) /\ Apart(image)
  /\ \E n \in Nat : copy \in Matrix(n) /\ Apart(copy)
  /\ \A x \in DOMAIN image : x >= W * row_size * row_size => \A p \in Bits : image[x][p] = Pixel(x, p)

\* How far both images are turned
TurnInv ==
  ~Tiers =>
    /\ pc = "rotate" => BlocksAt(image, turns, at)
    /\ pc \in {"rotated", "stock", "compare"} => Turned(image, turns + 1)
    /\ pc \in {"rotate", "rotated"} => Turned(copy, turns)
    /\ pc = "stock" => RingsAt(copy, turns, at)
    /\ pc = "compare" => Turned(copy, turns + 1)

\* No test fails that got its image.
ResultInv == result \in BOOLEAN /\ (pc = "done" /\ ~Tiers /\ image # <<>> => result)

RotationInv == OptionsInv /\ GivenInv /\ TierInv /\ WideInv /\ SizeInv /\ BitsInv /\ TurnInv /\ ResultInv

\* The definitions of the invariant say the same after a step that keeps the size.
LEMMA SameSize ==
  ASSUME UNCHANGED <<machine, row_size>>
  PROVE  /\ W' = W /\ N' = N /\ Bits' = Bits /\ Places' = Places /\ ImageWords' = ImageWords
         /\ \A j, i : InLoops(j, i)' <=> InLoops(j, i)
         /\ \A j : Done(j)' <=> Done(j)
         /\ \A img, t, place : BlocksAt(img, t, place)' <=> BlocksAt(img, t, place)
         /\ \A img, t, place : RingsAt(img, t, place)' <=> RingsAt(img, t, place)
         /\ \A img, t : Turned(img, t)' <=> Turned(img, t)
<1>1. W' = W /\ N' = N /\ Bits' = Bits /\ row_size' = row_size /\ Places' = Places /\ ImageWords' = ImageWords
  BY DEF W, N, Bits, Places, ImageWords
<1>2. \A q, j, i, k, p, t : /\ InLoops(j, i)' <=> InLoops(j, i)
                            /\ Done(j)' <=> Done(j)
                            /\ Word(q, j, i, k)' = Word(q, j, i, k) /\ MiddleWord(k)' = MiddleWord(k)
                            /\ Origin(t, k, p)' = Origin(t, k, p)
  BY <1>1 DEF InLoops, Done, big_N, Word, MiddleWord, Half, offset_A, offset_B, offset_C, offset_D, Origin
<1>3. \A img, t, place : BlocksAt(img, t, place)' <=> BlocksAt(img, t, place)
  BY <1>1, <1>2 DEF BlocksAt, Earlier
<1>4. \A r, c, i, j, x : Turn(x, r, c)' = Turn(x, r, c) /\ Lead(r, c)' = Lead(r, c) /\ get_bit(x, i, j)' = get_bit(x, i, j)
  BY <1>1 DEF Turn, Lead, get_bit
<1>5. \A img, t, place : RingsAt(img, t, place)' <=> RingsAt(img, t, place)
  BY <1>1, <1>4 DEF RingsAt, Earlier
<1>6. \A img, t : Turned(img, t)' <=> Turned(img, t)
  BY <1>1, <1>2 DEF Turned, TurnedAt
<1>. QED
  BY <1>1, <1>2, <1>3, <1>5, <1>6

\* And those that are about the machine alone after every step
LEMMA SameMachine ==
  ASSUME UNCHANGED machine
  PROVE  /\ W' = W /\ (GoodMachine' <=> GoodMachine) /\ tier_sizes' = tier_sizes
         /\ \A n : Matrix(n)' = Matrix(n)
         /\ \A img : Apart(img)' <=> Apart(img)
         /\ \A x, p : Pixel(x, p)' = Pixel(x, p)
<1>1. W' = W /\ Bits' = Bits
  BY DEF W, Bits
<1>2. GoodMachine' <=> GoodMachine
  BY <1>1 DEF GoodMachine
<1>3. tier_sizes' = tier_sizes
  BY DEF tier_sizes
<1>. QED
  BY <1>1, <1>2, <1>3 DEF Matrix, Bits_of, Apart, Pixel

\* A matrix of two sizes is one of one size.
LEMMA OneSize ==
  ASSUME NEW n \in Nat, NEW m \in Nat, 0..(n - 1) = 0..(m - 1)
  PROVE  n = m
<1>1. ASSUME NEW a \in Nat, NEW b \in Nat, a < b
      PROVE  a \in 0..(b - 1) /\ a \notin 0..(a - 1)
  BY <1>1
<1>2. ~(n < m) /\ ~(m < n)
  BY <1>1
<1>. QED
  BY <1>2

-----------------------------------------------------------------------------
(* A round of rotate_bit_matrix().                                         *)

\* A round keeps every bit, and what is behind the image.
LEMMA FourKeep ==
  ASSUME GoodMachine, row_size \in Nat \ {0, 1}, NEW n \in Nat, ImageWords \subseteq 0..(n - 1),
         image \in Matrix(n), Apart(image), RotateFour, InLoops(at.j, at.i)
  PROVE  /\ image' \in Matrix(n) /\ Apart(image')
         /\ \A x \in 0..(n - 1) : x \notin ImageWords => image'[x] = image[x]
<1>. DEFINE At(q, k) == Word(q, at.j, at.i, k)
            Came(x, p, y, s) == \/ \E q \in Quarters : x = At(q, s) /\ y = At(Before(q), W - 1 - p)
                                \/ x = y /\ p = s /\ \A q \in Quarters : \A k \in Bits : x # At(q, k)
            R == {z \in (0..(n - 1)) \X Bits \X (0..(n - 1)) \X Bits : Came(z[1], z[2], z[3], z[4])}
<1>1. Bits = 0..(W - 1) /\ W \in Nat \ {0} /\ (\A p \in Bits : W - 1 - p \in Bits)
  BY Wide
<1>2. image \in [0..(n - 1) -> Words]
  BY MatrixWords
<1>3. /\ image' \in [0..(n - 1) -> Words]
      /\ \A q \in Quarters : \A k, p \in Bits :
           image'[At(q, k)][p] = image[At(Before(q), W - 1 - p)][k]
      /\ \A x \in 0..(n - 1) : (\A q \in Quarters : \A k \in Bits : x # At(q, k)) => image'[x] = image[x]
  BY <1>2, FourTurn
<1>4. /\ \A q \in Quarters : \A k \in Bits : At(q, k) \in ImageWords
      /\ \A q, q2 \in Quarters : \A k, k2 \in Bits : At(q, k) = At(q2, k2) => q = q2 /\ k = k2
  <2>1. \A j, i, j2, i2 : InLoops(j, i) /\ InLoops(j2, i2) =>
          \A r, r2 \in {"A", "B", "C", "D"} : \A l, l2 \in Bits :
            /\ Word(r, j, i, l) \in ImageWords
            /\ Word(r, j, i, l) = Word(r2, j2, i2, l2) => r = r2 /\ j = j2 /\ i = i2 /\ l = l2
    BY <1>1, RoundsPartition
  <2>. QED
    BY <2>1 DEF Quarters
<1>5. \A q \in Quarters : Before(q) \in Quarters /\ \A q2 \in Quarters : Before(q) = Before(q2) => q = q2
  BY DEF Quarters, Before
<1>. HIDE DEF At
<1>6. ASSUME NEW x \in 0..(n - 1), NEW p \in Bits
      PROVE  \E y \in 0..(n - 1) : \E s \in Bits : Came(x, p, y, s) /\ image'[x][p] = image[y][s]
  <2>1. CASE \E q \in Quarters : \E k \in Bits : x = At(q, k)
    <3>1. PICK q \in Quarters, k \in Bits : x = At(q, k)
      BY <2>1
    <3>2. At(Before(q), W - 1 - p) \in 0..(n - 1)
      BY <1>1, <1>4, <1>5
    <3>3. Came(x, p, At(Before(q), W - 1 - p), k)
      BY <3>1
    <3>4. image'[x][p] = image[At(Before(q), W - 1 - p)][k]
      BY <1>3, <3>1
    <3>. HIDE DEF Came
    <3>. QED
      BY <3>2, <3>3, <3>4
  <2>2. CASE \A q \in Quarters : \A k \in Bits : x # At(q, k)
    <3>1. Came(x, p, x, p) /\ image'[x] = image[x]
      BY <1>3, <2>2
    <3>. HIDE DEF Came
    <3>. QED
      BY <3>1
  <2>. QED
    BY <2>1, <2>2
<1>7. ASSUME NEW x \in 0..(n - 1), NEW x2 \in 0..(n - 1), NEW y \in 0..(n - 1),
             NEW p \in Bits, NEW p2 \in Bits, NEW s \in Bits, Came(x, p, y, s), Came(x2, p2, y, s)
      PROVE  x = x2 /\ p = p2
  <2>1. ASSUME NEW q \in Quarters, x = At(q, s), y = At(Before(q), W - 1 - p),
               NEW q2 \in Quarters, x2 = At(q2, s), y = At(Before(q2), W - 1 - p2)
        PROVE  x = x2 /\ p = p2
    <3>1. Before(q) = Before(q2) /\ W - 1 - p = W - 1 - p2
      <4>1. Before(q) \in Quarters /\ Before(q2) \in Quarters /\ W - 1 - p \in Bits /\ W - 1 - p2 \in Bits
        BY <1>1, <1>5
      <4>. QED
        BY <1>4, <2>1, <4>1
    <3>2. q = q2
      BY <1>5, <3>1
    <3>3. p = p2
      BY <1>1, <3>1
    <3>. QED
      BY <2>1, <3>2, <3>3
  <2>2. \A q \in Quarters : \A t \in Bits : Before(q) \in Quarters /\ W - 1 - t \in Bits
    BY <1>1, <1>5
  <2>. QED
    BY <1>7, <2>1, <2>2
<1>8. image' \in Matrix(n) /\ Apart(image')
  <2>. HIDE DEF Came
  <2>1. \A x, y \in 0..(n - 1) : \A p, s \in Bits : <<x, p, y, s>> \in R <=> Came(x, p, y, s)
    OBVIOUS
  <2>. HIDE DEF R
  <2>2. PICK old, new, moved : old = image /\ new = image' /\ moved = R
    OBVIOUS
  <2>3. /\ \A x \in 0..(n - 1) : \A p \in Bits :
             \E y \in 0..(n - 1) : \E s \in Bits : <<x, p, y, s>> \in moved /\ new[x][p] = old[y][s]
        /\ \A x, x2, y \in 0..(n - 1) : \A p, p2, s \in Bits :
             <<x, p, y, s>> \in moved /\ <<x2, p2, y, s>> \in moved => x = x2 /\ p = p2
    <3>1. ASSUME NEW x \in 0..(n - 1), NEW p \in Bits
          PROVE  \E y \in 0..(n - 1) : \E s \in Bits : <<x, p, y, s>> \in moved /\ new[x][p] = old[y][s]
      <4>1. PICK y \in 0..(n - 1), s \in Bits : Came(x, p, y, s) /\ image'[x][p] = image[y][s]
        BY <1>6
      <4>2. <<x, p, y, s>> \in moved /\ new[x][p] = old[y][s]
        BY <4>1, <2>1, <2>2
      <4>. QED
        BY <4>2
    <3>2. \A x, x2, y \in 0..(n - 1) : \A p, p2, s \in Bits :
            <<x, p, y, s>> \in moved /\ <<x2, p2, y, s>> \in moved => x = x2 /\ p = p2
      BY <1>7, <2>1, <2>2
    <3>. QED
      BY <3>1, <3>2
  <2>4. Moves(moved, n, old, new)
    BY <2>3 DEF Moves
  <2>5. new \in [0..(n - 1) -> Words] /\ old \in Matrix(n) /\ Apart(old)
    BY <1>3, <2>2
  <2>6. new \in Matrix(n) /\ Apart(new)
    BY <2>4, <2>5, Rearranged
  <2>. QED
    BY <2>2, <2>6
<1>9. \A x \in 0..(n - 1) : x \notin ImageWords => image'[x] = image[x]
  BY <1>3, <1>4
<1>. QED
  BY <1>8, <1>9

\* After which rounds a round is done
LEMMA NextRound ==
  ASSUME W \in Nat \ {0}, row_size \in Nat \ {0}, NEW j, NEW i, InLoops(j, i), NEW j2, NEW i2, InLoops(j2, i2)
  PROVE  Earlier(After(j, i), j2, i2) <=> Earlier([j |-> j, i |-> i], j2, i2) \/ (j2 = j /\ i2 = i)
<1>1. j \in Nat /\ i \in Nat /\ j2 \in Nat /\ i2 \in Nat /\ i < Half /\ i2 < Half /\ N \div (2 * W) = Half /\ Half \in Nat
  BY LoopBounds DEF InLoops, Half
<1>2. CASE i + 1 < Half
  <2>1. After(j, i) = [j |-> j, i |-> i + 1]
    BY <1>1, <1>2 DEF After
  <2>. QED
    BY <1>1, <1>2, <2>1 DEF Earlier
<1>3. CASE ~(i + 1 < Half)
  <2>1. After(j, i) = [j |-> j + 1, i |-> 0]
    BY <1>1, <1>3 DEF After
  <2>. QED
    BY <1>1, <1>3, <2>1 DEF Earlier
<1>. QED
  BY <1>2, <1>3

\* A round turns its blocks once more, and no others.
LEMMA FourProgress ==
  ASSUME GoodMachine, row_size \in Nat \ {0, 1}, NEW n \in Nat, ImageWords \subseteq 0..(n - 1),
         image \in [0..(n - 1) -> Words], RotateFour, InLoops(at.j, at.i),
         NEW t \in 0..2, BlocksAt(image, t, at)
  PROVE  BlocksAt(image', t, at')
<1>1. /\ W \in Nat \ {0} /\ Bits = 0..(W - 1) /\ (\A p \in Bits : W - 1 - p \in Bits) /\ row_size \in Nat \ {0}
      /\ at' = After(at.j, at.i)
  BY Wide DEF RotateFour
<1>2. /\ \A q \in Quarters : \A k, p \in Bits :
           image'[Word(q, at.j, at.i, k)][p] = image[Word(Before(q), at.j, at.i, W - 1 - p)][k]
      /\ \A x \in 0..(n - 1) :
           (\A q \in Quarters : \A k \in Bits : x # Word(q, at.j, at.i, k)) => image'[x] = image[x]
  BY FourTurn
<1>3. /\ \A j, i : InLoops(j, i) => \A q, q2 \in Quarters : \A k, k2 \in Bits :
           /\ Word(q, j, i, k) \in ImageWords
           /\ Word(q, j, i, k) = Word(q2, at.j, at.i, k2) => j = at.j /\ i = at.i
      /\ row_size % 2 = 1 => \A q \in Quarters : \A k, k2 \in Bits : Word(q, at.j, at.i, k) # MiddleWord(k2)
  <2>1. /\ \A j, i, j2, i2 : InLoops(j, i) /\ InLoops(j2, i2) =>
             \A r, r2 \in {"A", "B", "C", "D"} : \A l, l2 \in Bits :
               /\ Word(r, j, i, l) \in ImageWords
               /\ Word(r, j, i, l) = Word(r2, j2, i2, l2) => r = r2 /\ j = j2 /\ i = i2 /\ l = l2
        /\ row_size % 2 = 1 =>
             \A j, i : InLoops(j, i) =>
               \A q \in {"A", "B", "C", "D"} : \A k, k2 \in Bits : Word(q, j, i, k) # MiddleWord(k2)
    BY <1>1, RoundsPartition
  <2>. QED
    BY <2>1 DEF Quarters
<1>4. ASSUME NEW q \in Quarters, NEW j, NEW i, InLoops(j, i), NEW k \in Bits, NEW p \in Bits
      PROVE  image'[Word(q, j, i, k)][p]
               = Origin(IF Earlier(at', j, i) THEN t + 1 ELSE t, Word(q, j, i, k), p)
  <2>1. Earlier(at', j, i) <=> Earlier(at, j, i) \/ (j = at.j /\ i = at.i)
    <3>1. Earlier([j |-> at.j, i |-> at.i], j, i) <=> Earlier(at, j, i)
      BY DEF Earlier
    <3>. QED
      BY <1>1, <1>4, <3>1, NextRound
  <2>2. CASE j = at.j /\ i = at.i
    <3>1. ~Earlier(at, j, i)
      BY <1>4, <2>2 DEF Earlier, InLoops
    <3>2. Before(q) \in Quarters /\ W - 1 - p \in Bits
      BY <1>1 DEF Before, Quarters
    <3>3. image[Word(Before(q), at.j, at.i, W - 1 - p)][k] = Origin(t, Word(Before(q), at.j, at.i, W - 1 - p), k)
      BY <1>4, <2>2, <3>1, <3>2 DEF BlocksAt
    <3>4. Origin(t + 1, Word(q, j, i, k), p) = Origin(t, Word(Before(q), j, i, W - 1 - p), k)
      BY <1>4, RoundTurns
    <3>. QED
      BY <1>2, <2>1, <2>2, <3>3, <3>4
  <2>3. CASE ~(j = at.j /\ i = at.i)
    <3>. DEFINE x == Word(q, j, i, k)
    <3>1. x \in ImageWords /\ \A q2 \in Quarters : \A k2 \in Bits : x # Word(q2, at.j, at.i, k2)
      BY <1>3, <1>4, <2>3
    <3>2. image'[x] = image[x]
      <4>. HIDE DEF x
      <4>. QED
        BY <1>2, <3>1
    <3>3. image'[Word(q, j, i, k)] = image[Word(q, j, i, k)]
      BY <3>2
    <3>. QED
      BY <1>4, <2>1, <2>3, <3>3 DEF BlocksAt
  <2>. QED
    BY <2>2, <2>3
<1>5. ASSUME row_size % 2 = 1, NEW k \in Bits, NEW p \in Bits
      PROVE  image'[MiddleWord(k)][p] = Origin(t, MiddleWord(k), p)
  <2>1. MiddleWord(k) \in ImageWords
    BY <1>1, <1>5, MiddleInside
  <2>2. image'[MiddleWord(k)] = image[MiddleWord(k)]
    BY <1>2, <1>3, <1>5, <2>1
  <2>. QED
    BY <1>5, <2>2 DEF BlocksAt
<1>. QED
  BY <1>4, <1>5 DEF BlocksAt

-----------------------------------------------------------------------------
(* The last round.                                                         *)

\* The last round keeps every bit, and what is behind the image.
LEMMA MiddleKeeps ==
  ASSUME GoodMachine, row_size \in Nat \ {0}, row_size % 2 = 1, NEW n \in Nat, ImageWords \subseteq 0..(n - 1),
         image \in Matrix(n), Apart(image),
         NEW o, o = W * Half * row_size + Half, image' = Written([w \in {o} |-> row_column_row(Block(w))])
  PROVE  /\ image' \in Matrix(n) /\ Apart(image')
         /\ \A x \in 0..(n - 1) : x \notin ImageWords => image'[x] = image[x]
<1>. DEFINE Came(x, p, y, s) == \/ x = MiddleWord(s) /\ y = MiddleWord(W - 1 - p)
                                \/ x = y /\ p = s /\ \A k \in Bits : x # MiddleWord(k)
            R == {z \in (0..(n - 1)) \X Bits \X (0..(n - 1)) \X Bits : Came(z[1], z[2], z[3], z[4])}
<1>1. Bits = 0..(W - 1) /\ W \in Nat \ {0} /\ (\A p \in Bits : W - 1 - p \in Bits)
  BY Wide
<1>2. image \in [0..(n - 1) -> Words]
  BY MatrixWords
<1>3. /\ image' \in [0..(n - 1) -> Words]
      /\ \A k, p \in Bits : image'[MiddleWord(k)][p] = image[MiddleWord(W - 1 - p)][k]
      /\ \A x \in 0..(n - 1) : (\A k \in Bits : x # MiddleWord(k)) => image'[x] = image[x]
      /\ \A k \in Bits : MiddleWord(k) \in ImageWords
      /\ \A k, k2 \in Bits : MiddleWord(k) = MiddleWord(k2) => k = k2
  BY <1>2, MiddleTurns
<1>4. ASSUME NEW x \in 0..(n - 1), NEW p \in Bits
      PROVE  \E y \in 0..(n - 1) : \E s \in Bits : Came(x, p, y, s) /\ image'[x][p] = image[y][s]
  <2>1. CASE \E k \in Bits : x = MiddleWord(k)
    <3>1. PICK k \in Bits : x = MiddleWord(k)
      BY <2>1
    <3>2. MiddleWord(W - 1 - p) \in 0..(n - 1) /\ Came(x, p, MiddleWord(W - 1 - p), k)
      BY <1>1, <1>3, <3>1
    <3>3. image'[x][p] = image[MiddleWord(W - 1 - p)][k]
      BY <1>3, <3>1
    <3>. HIDE DEF Came
    <3>. QED
      BY <3>2, <3>3
  <2>2. CASE \A k \in Bits : x # MiddleWord(k)
    <3>1. Came(x, p, x, p) /\ image'[x] = image[x]
      BY <1>3, <2>2
    <3>. HIDE DEF Came
    <3>. QED
      BY <3>1
  <2>. QED
    BY <2>1, <2>2
<1>5. ASSUME NEW x \in 0..(n - 1), NEW x2 \in 0..(n - 1), NEW y \in 0..(n - 1),
             NEW p \in Bits, NEW p2 \in Bits, NEW s \in Bits, Came(x, p, y, s), Came(x2, p2, y, s)
      PROVE  x = x2 /\ p = p2
  <2>1. \A t \in Bits : W - 1 - t \in Bits
    BY <1>1
  <2>2. CASE x = MiddleWord(s) /\ y = MiddleWord(W - 1 - p) /\ x2 = MiddleWord(s) /\ y = MiddleWord(W - 1 - p2)
    <3>1. W - 1 - p = W - 1 - p2
      BY <1>3, <2>1, <2>2
    <3>. QED
      BY <1>1, <2>2, <3>1
  <2>. QED
    BY <1>5, <2>1, <2>2
<1>6. image' \in Matrix(n) /\ Apart(image')
  <2>. HIDE DEF Came
  <2>1. \A x, y \in 0..(n - 1) : \A p, s \in Bits : <<x, p, y, s>> \in R <=> Came(x, p, y, s)
    OBVIOUS
  <2>. HIDE DEF R
  <2>2. PICK old, new, moved : old = image /\ new = image' /\ moved = R
    OBVIOUS
  <2>3. /\ \A x \in 0..(n - 1) : \A p \in Bits :
             \E y \in 0..(n - 1) : \E s \in Bits : <<x, p, y, s>> \in moved /\ new[x][p] = old[y][s]
        /\ \A x, x2, y \in 0..(n - 1) : \A p, p2, s \in Bits :
             <<x, p, y, s>> \in moved /\ <<x2, p2, y, s>> \in moved => x = x2 /\ p = p2
    <3>1. ASSUME NEW x \in 0..(n - 1), NEW p \in Bits
          PROVE  \E y \in 0..(n - 1) : \E s \in Bits : <<x, p, y, s>> \in moved /\ new[x][p] = old[y][s]
      <4>1. PICK y \in 0..(n - 1), s \in Bits : Came(x, p, y, s) /\ image'[x][p] = image[y][s]
        BY <1>4
      <4>2. <<x, p, y, s>> \in moved /\ new[x][p] = old[y][s]
        BY <4>1, <2>1, <2>2
      <4>. QED
        BY <4>2
    <3>2. \A x, x2, y \in 0..(n - 1) : \A p, p2, s \in Bits :
            <<x, p, y, s>> \in moved /\ <<x2, p2, y, s>> \in moved => x = x2 /\ p = p2
      BY <1>5, <2>1, <2>2
    <3>. QED
      BY <3>1, <3>2
  <2>4. Moves(moved, n, old, new)
    BY <2>3 DEF Moves
  <2>5. new \in [0..(n - 1) -> Words] /\ old \in Matrix(n) /\ Apart(old)
    BY <1>3, <2>2
  <2>6. new \in Matrix(n) /\ Apart(new)
    BY <2>4, <2>5, Rearranged
  <2>. QED
    BY <2>2, <2>6
<1>. QED
  BY <1>3, <1>6

\* Every bit of the image is in a block of a round or in the one in the middle.
BlocksAre(img, t) ==
  /\ \A j, i : InLoops(j, i) => \A q \in Quarters : \A k, p \in Bits :
       img[Word(q, j, i, k)][p] = Origin(t, Word(q, j, i, k), p)
  /\ row_size % 2 = 1 => \A k, p \in Bits : img[MiddleWord(k)][p] = Origin(t, MiddleWord(k), p)

\* If all blocks are turned so often, the image is.
LEMMA BlocksAreAll ==
  ASSUME GoodMachine, row_size \in Nat \ {0}, NEW img, NEW t, BlocksAre(img, t)
  PROVE  Turned(img, t)
<1>1. /\ W \in Nat \ {0} /\ Bits = 0..(W - 1) /\ (\A p \in Bits : W - 1 - p \in Bits)
  BY Wide
<1>2. ASSUME NEW x \in ImageWords
      PROVE  \/ \E j, i : InLoops(j, i) /\ \E q \in Quarters : \E k \in Bits : x = Word(q, j, i, k)
             \/ row_size % 2 = 1 /\ \E k \in Bits : x = MiddleWord(k)
  <2>1. CASE row_size = 1
    <3>1. ImageWords = Bits /\ (\A k \in Bits : MiddleWord(k) = k) /\ row_size % 2 = 1
      BY <1>1, <2>1 DEF ImageWords, MiddleWord, Half
    <3>. QED
      BY <3>1
  <2>2. CASE row_size # 1
    BY <1>1, <2>2, RoundsPartition DEF Quarters
  <2>. QED
    BY <2>1, <2>2
<1>3. \A x \in ImageWords : \A p \in Bits : img[x][p] = Origin(t, x, p)
  <2>. SUFFICES ASSUME NEW x \in ImageWords, NEW p \in Bits
                PROVE  img[x][p] = Origin(t, x, p)
    OBVIOUS
  <2>1. CASE \E j, i : InLoops(j, i) /\ \E q \in Quarters : \E k \in Bits : x = Word(q, j, i, k)
    <3>1. PICK j, i : InLoops(j, i) /\ \E q \in Quarters : \E k \in Bits : x = Word(q, j, i, k)
      BY <2>1
    <3>2. PICK q \in Quarters, k \in Bits : x = Word(q, j, i, k)
      BY <3>1
    <3>3. img[Word(q, j, i, k)][p] = Origin(t, Word(q, j, i, k), p)
      BY <3>1, <3>2 DEF BlocksAre
    <3>. QED
      BY <3>2, <3>3
  <2>2. CASE row_size % 2 = 1 /\ \E k \in Bits : x = MiddleWord(k)
    <3>1. PICK k \in Bits : x = MiddleWord(k)
      BY <2>2
    <3>2. img[MiddleWord(k)][p] = Origin(t, MiddleWord(k), p)
      BY <2>2, <3>1 DEF BlocksAre
    <3>. QED
      BY <3>1, <3>2
  <2>. QED
    BY <1>2, <2>1, <2>2
<1>. QED
  BY <1>3 DEF Turned, TurnedAt

\* When all rounds are done, the block in the middle is the only one that is left.
LEMMA LastProgress ==
  ASSUME GoodMachine, row_size \in Nat \ {0}, NEW n \in Nat, ImageWords \subseteq 0..(n - 1),
         image \in [0..(n - 1) -> Words], NEW t \in 0..2, BlocksAt(image, t, at), at \in [j : Nat, i : Nat],
         row_size # 1 => Done(at.j),
         NEW o, o = W * Half * row_size + Half,
         image' = IF row_size % 2 = 1 THEN Written([w \in {o} |-> row_column_row(Block(w))]) ELSE image
  PROVE  Turned(image', t + 1)
<1>1. /\ W \in Nat \ {0} /\ Bits = 0..(W - 1) /\ (\A p \in Bits : W - 1 - p \in Bits)
  BY Wide
<1>2. row_size = 1 => \A j, i : ~InLoops(j, i)
  <2>1. row_size = 1 => Half = 0
    BY DEF Half
  <2>. QED
    BY <1>1, <2>1, LoopBounds DEF InLoops
<1>3. \A j, i : InLoops(j, i) => Earlier(at, j, i)
  <2>. SUFFICES ASSUME NEW j, NEW i, InLoops(j, i)
                PROVE  Earlier(at, j, i)
    OBVIOUS
  <2>1. j < big_N \div (2 * W) /\ at.j >= big_N \div (2 * W)
    <3>1. Done(at.j)
      BY <1>2
    <3>2. big_N \div (2 * W) \in Int
      BY <1>1, LoopBounds DEF Half
    <3>. QED
      BY <3>1, <3>2 DEF InLoops, Done
  <2>. QED
    BY <2>1, <1>1, LoopBounds DEF Earlier, InLoops, Half
<1>4. \A j, i : InLoops(j, i) => \A q \in Quarters : \A k, p \in Bits :
        image'[Word(q, j, i, k)][p] = Origin(t + 1, Word(q, j, i, k), p)
  <2>. SUFFICES ASSUME NEW j, NEW i, InLoops(j, i), NEW q \in Quarters, NEW k \in Bits, NEW p \in Bits
                PROVE  image'[Word(q, j, i, k)][p] = Origin(t + 1, Word(q, j, i, k), p)
    OBVIOUS
  <2>1. image[Word(q, j, i, k)][p] = Origin(t + 1, Word(q, j, i, k), p)
    BY <1>3 DEF BlocksAt
  <2>2. CASE row_size % 2 = 1
    <3>1. row_size # 1
      BY <1>2
    <3>2. Word(q, j, i, k) \in ImageWords /\ \A k2 \in Bits : Word(q, j, i, k) # MiddleWord(k2)
      BY <1>1, <2>2, <3>1, RoundsPartition DEF Quarters
    <3>3. \A x \in 0..(n - 1) : (\A k2 \in Bits : x # MiddleWord(k2)) => image'[x] = image[x]
      BY <2>2, MiddleTurns
    <3>4. image'[Word(q, j, i, k)] = image[Word(q, j, i, k)]
      BY <3>2, <3>3
    <3>. QED
      BY <2>1, <3>4
  <2>3. CASE row_size % 2 # 1
    BY <2>1, <2>3
  <2>. QED
    BY <2>2, <2>3
<1>5. ASSUME row_size % 2 = 1, NEW k \in Bits, NEW p \in Bits
      PROVE  image'[MiddleWord(k)][p] = Origin(t + 1, MiddleWord(k), p)
  <2>1. image'[MiddleWord(k)][p] = image[MiddleWord(W - 1 - p)][k]
    BY <1>5, MiddleTurns
  <2>2. image[MiddleWord(W - 1 - p)][k] = Origin(t, MiddleWord(W - 1 - p), k)
    BY <1>1, <1>5 DEF BlocksAt
  <2>3. Origin(t + 1, MiddleWord(k), p) = Origin(t, MiddleWord(W - 1 - p), k)
    BY <1>5, MiddleRoundTurns
  <2>. QED
    BY <2>1, <2>2, <2>3
<1>6. BlocksAre(image', t + 1)
  BY <1>4, <1>5 DEF BlocksAre
<1>. QED
  BY <1>1, <1>6, BlocksAreAll

-----------------------------------------------------------------------------
(* A round of the tester's own rotation.                                   *)

\* Every place is in the ring of one place of the first quadrant, and the place that
\* its bit comes from is in that ring too.
LEMMA LeadOf ==
  ASSUME GoodMachine, row_size \in Nat \ {0}, NEW r \in Places, NEW c \in Places
  PROVE  /\ Lead(r, c).j \in 0..((N \div 2) - 1) /\ Lead(r, c).i \in 0..((N \div 2) - 1)
         /\ \A j, i \in 0..((N \div 2) - 1) : <<r, c>> \in Ring(j, i) <=> Lead(r, c).j = j /\ Lead(r, c).i = i
         /\ N - 1 - c \in Places /\ Lead(N - 1 - c, r) = Lead(r, c)
<1>. DEFINE H == N \div 2
<1>1. N = 2 * H /\ H \in Nat \ {0} /\ r \in 0..(N - 1) /\ c \in 0..(N - 1) /\ Places = 0..(N - 1)
  BY Sizes
<1>2. Lead(r, c) = IF r < H THEN IF c < H THEN [j |-> r, i |-> c] ELSE [j |-> N - 1 - c, i |-> r]
                   ELSE IF c < H THEN [j |-> c, i |-> N - 1 - r] ELSE [j |-> N - 1 - r, i |-> N - 1 - c]
  BY DEF Lead
<1>3. Lead(N - 1 - c, r) =
        IF N - 1 - c < H THEN IF r < H THEN [j |-> N - 1 - c, i |-> r] ELSE [j |-> N - 1 - r, i |-> N - 1 - c]
        ELSE IF r < H THEN [j |-> r, i |-> N - 1 - (N - 1 - c)] ELSE [j |-> N - 1 - (N - 1 - c), i |-> N - 1 - r]
  BY DEF Lead
<1>4. \A j, i : <<r, c>> \in Ring(j, i) <=> \/ r = j /\ c = i
                                            \/ r = i /\ c = N - 1 - j
                                            \/ r = N - 1 - j /\ c = N - 1 - i
                                            \/ r = N - 1 - i /\ c = j
  <2>. TAKE j, i
  <2>1. \A a, b : <<r, c>> = <<a, b>> <=> r = a /\ c = b
    OBVIOUS
  <2>2. <<r, c>> \in Ring(j, i) <=> \/ <<r, c>> = <<j, i>>
                                    \/ <<r, c>> = <<i, N - 1 - j>>
                                    \/ <<r, c>> = <<N - 1 - j, N - 1 - i>>
                                    \/ <<r, c>> = <<N - 1 - i, j>>
    BY Zenon DEF Ring
  <2>3. /\ <<r, c>> = <<j, i>> <=> r = j /\ c = i
        /\ <<r, c>> = <<i, N - 1 - j>> <=> r = i /\ c = N - 1 - j
        /\ <<r, c>> = <<N - 1 - j, N - 1 - i>> <=> r = N - 1 - j /\ c = N - 1 - i
        /\ <<r, c>> = <<N - 1 - i, j>> <=> r = N - 1 - i /\ c = j
    BY <2>1
  <2>. QED
    BY <2>2, <2>3, Zenon
<1>. HIDE DEF H
<1>5. N - 1 - (N - 1 - c) = c /\ (N - 1 - c < H <=> ~(c < H)) /\ N - 1 - c \in Places
  BY <1>1
<1>6. Lead(N - 1 - c, r) = Lead(r, c)
  BY <1>2, <1>3, <1>5
<1>7. Lead(r, c).j \in 0..(H - 1) /\ Lead(r, c).i \in 0..(H - 1)
  <2>1. CASE r < H /\ c < H
    BY <1>1, <1>2, <2>1
  <2>2. CASE r < H /\ ~(c < H)
    BY <1>1, <1>2, <2>2
  <2>3. CASE ~(r < H) /\ c < H
    BY <1>1, <1>2, <2>3
  <2>4. CASE ~(r < H) /\ ~(c < H)
    BY <1>1, <1>2, <2>4
  <2>. QED
    BY <2>1, <2>2, <2>3, <2>4
<1>8. ASSUME NEW j \in 0..(H - 1), NEW i \in 0..(H - 1)
      PROVE  <<r, c>> \in Ring(j, i) <=> Lead(r, c).j = j /\ Lead(r, c).i = i
  <2>0. <<r, c>> \in Ring(j, i) <=> \/ r = j /\ c = i
                                    \/ r = i /\ c = N - 1 - j
                                    \/ r = N - 1 - j /\ c = N - 1 - i
                                    \/ r = N - 1 - i /\ c = j
    BY <1>4
  <2>1. CASE r < H /\ c < H
    <3>1. Lead(r, c).j = r /\ Lead(r, c).i = c
      BY <1>2, <2>1
    <3>2. ~(r = i /\ c = N - 1 - j) /\ ~(r = N - 1 - j /\ c = N - 1 - i) /\ ~(r = N - 1 - i /\ c = j)
      BY <1>1, <2>1
    <3>3. Lead(r, c).j = j /\ Lead(r, c).i = i <=> r = j /\ c = i
      BY <1>1, <3>1
    <3>. QED
      BY <2>0, <3>2, <3>3
  <2>2. CASE r < H /\ ~(c < H)
    <3>1. Lead(r, c).j = N - 1 - c /\ Lead(r, c).i = r
      BY <1>2, <2>2
    <3>2. ~(r = j /\ c = i) /\ ~(r = N - 1 - j /\ c = N - 1 - i) /\ ~(r = N - 1 - i /\ c = j)
      BY <1>1, <2>2
    <3>3. Lead(r, c).j = j /\ Lead(r, c).i = i <=> r = i /\ c = N - 1 - j
      BY <1>1, <3>1
    <3>. QED
      BY <2>0, <3>2, <3>3
  <2>3. CASE ~(r < H) /\ c < H
    <3>1. Lead(r, c).j = c /\ Lead(r, c).i = N - 1 - r
      BY <1>2, <2>3
    <3>2. ~(r = j /\ c = i) /\ ~(r = i /\ c = N - 1 - j) /\ ~(r = N - 1 - j /\ c = N - 1 - i)
      BY <1>1, <2>3
    <3>3. Lead(r, c).j = j /\ Lead(r, c).i = i <=> r = N - 1 - i /\ c = j
      BY <1>1, <3>1
    <3>. QED
      BY <2>0, <3>2, <3>3
  <2>4. CASE ~(r < H) /\ ~(c < H)
    <3>1. Lead(r, c).j = N - 1 - r /\ Lead(r, c).i = N - 1 - c
      BY <1>2, <2>4
    <3>2. ~(r = j /\ c = i) /\ ~(r = i /\ c = N - 1 - j) /\ ~(r = N - 1 - i /\ c = j)
      BY <1>1, <2>4
    <3>3. Lead(r, c).j = j /\ Lead(r, c).i = i <=> r = N - 1 - j /\ c = N - 1 - i
      BY <1>1, <3>1
    <3>. QED
      BY <2>0, <3>2, <3>3
  <2>. QED
    BY <2>1, <2>2, <2>3, <2>4
<1>. QED
  BY <1>5, <1>6, <1>7, <1>8 DEF H

\* No bit is there twice: the same by words and by places.
PlacesApart(img, n) ==
  /\ \A r, c \in Places : get_bit(img, c, r) \in Bits_of(n)
  /\ \A r, c, r2, c2 \in Places : get_bit(img, c, r) = get_bit(img, c2, r2) => r = r2 /\ c = c2

\* A matrix is one whose places are apart.
LEMMA ApartByPlace ==
  ASSUME GoodMachine, row_size \in Nat \ {0}, NEW n, n = row_size * W * row_size, NEW img \in [0..(n - 1) -> Words]
  PROVE  img \in Matrix(n) /\ Apart(img) <=> PlacesApart(img, n)
<1>1. ImageWords = 0..(n - 1) /\ DOMAIN img = ImageWords
  BY DEF ImageWords
<1>2. \A r, c \in Places :
        /\ r * row_size + (c \div W) \in ImageWords /\ c % W \in Bits
        /\ (r * row_size + (c \div W)) \div row_size = r
        /\ ((r * row_size + (c \div W)) % row_size) * W + (c % W) = c
  BY PlaceOf
<1>3. \A r, c \in Places : get_bit(img, c, r) = img[r * row_size + (c \div W)][c % W]
  BY DEF get_bit
<1>4. ASSUME img \in Matrix(n), Apart(img)
      PROVE  PlacesApart(img, n)
  <2>1. \A r, c \in Places : get_bit(img, c, r) \in Bits_of(n)
    BY <1>1, <1>2, <1>3, <1>4 DEF Matrix
  <2>2. ASSUME NEW r \in Places, NEW c \in Places, NEW r2 \in Places, NEW c2 \in Places,
               get_bit(img, c, r) = get_bit(img, c2, r2)
        PROVE  r = r2 /\ c = c2
    <3>1. r * row_size + (c \div W) = r2 * row_size + (c2 \div W) /\ c % W = c2 % W
      <4>1. PICK x, p, y, s : x = r * row_size + (c \div W) /\ p = c % W /\ y = r2 * row_size + (c2 \div W) /\ s = c2 % W
        OBVIOUS
      <4>2. x \in DOMAIN img /\ y \in DOMAIN img /\ p \in Bits /\ s \in Bits
        BY <1>1, <1>2, <4>1
      <4>3. img[x][p] = img[y][s]
        BY <1>3, <2>2, <4>1
      <4>4. x = y /\ p = s
        BY <1>4, <4>2, <4>3 DEF Apart
      <4>. QED
        BY <4>1, <4>4
    <3>. QED
      BY <1>2, <3>1
  <2>. QED
    BY <2>1, <2>2 DEF PlacesApart
<1>5. ASSUME PlacesApart(img, n)
      PROVE  img \in Matrix(n) /\ Apart(img)
  <2>1. ASSUME NEW x \in 0..(n - 1), NEW p \in Bits
        PROVE  \E r, c \in Places : x = r * row_size + (c \div W) /\ p = c % W /\ get_bit(img, c, r) = img[x][p]
    <3>1. PICK r, c : r = x \div row_size /\ c = (x % row_size) * W + p
      OBVIOUS
    <3>2. r \in Places /\ c \in Places /\ x = r * row_size + (c \div W) /\ p = c % W
      <4>1. x \in ImageWords
        BY <1>1
      <4>. QED
        BY <3>1, <4>1, PlaceFor
    <3>. QED
      BY <1>3, <3>2
  <2>2. \A x \in 0..(n - 1) : \A p \in Bits : img[x][p] \in Bits_of(n)
    BY <1>5, <2>1 DEF PlacesApart
  <2>3. img \in Matrix(n)
    BY <2>2 DEF Matrix, Words
  <2>4. ASSUME NEW x \in 0..(n - 1), NEW y \in 0..(n - 1), NEW p \in Bits, NEW s \in Bits, img[x][p] = img[y][s]
        PROVE  x = y /\ p = s
    <3>1. PICK r, c \in Places : x = r * row_size + (c \div W) /\ p = c % W /\ get_bit(img, c, r) = img[x][p]
      BY <2>1
    <3>2. PICK r2, c2 \in Places : y = r2 * row_size + (c2 \div W) /\ s = c2 % W /\ get_bit(img, c2, r2) = img[y][s]
      BY <2>1
    <3>3. r = r2 /\ c = c2
      BY <1>5, <2>4, <3>1, <3>2 DEF PlacesApart
    <3>. QED
      BY <3>1, <3>2, <3>3
  <2>5. Apart(img)
    BY <1>1, <2>4 DEF Apart
  <2>. QED
    BY <2>3, <2>5
<1>. QED
  BY <1>4, <1>5

\* What a round of the tester's own rotation does, by places
LEMMA RingStep ==
  ASSUME GoodMachine, row_size \in Nat \ {0}, copy \in [ImageWords -> Words], Stock,
         at.j \in 0..((N \div 2) - 1), at.i \in 0..((N \div 2) - 1)
  PROVE  /\ copy' \in [ImageWords -> Words]
         /\ \A r, c \in Places :
              /\ Lead(r, c).j = at.j /\ Lead(r, c).i = at.i => get_bit(copy', c, r) = get_bit(copy, r, N - 1 - c)
              /\ ~(Lead(r, c).j = at.j /\ Lead(r, c).i = at.i) => get_bit(copy', c, r) = get_bit(copy, c, r)
<1>1. /\ copy' \in [ImageWords -> Words]
      /\ \A r, c \in Places :
           get_bit(copy', c, r) = IF <<r, c>> \in Ring(at.j, at.i) THEN get_bit(copy, r, N - 1 - c)
                                  ELSE get_bit(copy, c, r)
  BY RingTurns
<1>2. \A r, c \in Places : \A j, i \in 0..((N \div 2) - 1) :
        <<r, c>> \in Ring(j, i) <=> Lead(r, c).j = j /\ Lead(r, c).i = i
  BY LeadOf
<1>. QED
  BY <1>1, <1>2

\* A round of the tester keeps every bit.
LEMMA RingKeeps ==
  ASSUME GoodMachine, row_size \in Nat \ {0}, NEW n, n = row_size * W * row_size,
         copy \in Matrix(n), Apart(copy), Stock,
         at.j \in 0..((N \div 2) - 1), at.i \in 0..((N \div 2) - 1)
  PROVE  copy' \in Matrix(n) /\ Apart(copy')
<1>1. n \in Nat /\ ImageWords = 0..(n - 1)
  BY Wide DEF ImageWords
<1>2. copy \in [0..(n - 1) -> Words]
  BY <1>1, MatrixWords
<1>3. /\ copy' \in [ImageWords -> Words]
      /\ \A r, c \in Places :
           /\ Lead(r, c).j = at.j /\ Lead(r, c).i = at.i => get_bit(copy', c, r) = get_bit(copy, r, N - 1 - c)
           /\ ~(Lead(r, c).j = at.j /\ Lead(r, c).i = at.i) => get_bit(copy', c, r) = get_bit(copy, c, r)
  BY <1>1, <1>2, RingStep
<1>4. PlacesApart(copy, n)
  BY <1>2, ApartByPlace
<1>5. \A r, c \in Places : N - 1 - c \in Places /\ Lead(N - 1 - c, r) = Lead(r, c)
  BY LeadOf
<1>. DEFINE Turns(r, c) == Lead(r, c).j = at.j /\ Lead(r, c).i = at.i
            Row(r, c) == IF Turns(r, c) THEN N - 1 - c ELSE r
            Col(r, c) == IF Turns(r, c) THEN r ELSE c
<1>6. \A r, c \in Places :
        /\ Row(r, c) \in Places /\ Col(r, c) \in Places
        /\ get_bit(copy', c, r) = get_bit(copy, Col(r, c), Row(r, c))
        /\ Turns(Row(r, c), Col(r, c)) <=> Turns(r, c)
  BY <1>3, <1>5
<1>7. ASSUME NEW r \in Places, NEW c \in Places, NEW r2 \in Places, NEW c2 \in Places,
             Row(r, c) = Row(r2, c2), Col(r, c) = Col(r2, c2)
      PROVE  r = r2 /\ c = c2
  <2>1. Turns(r, c) <=> Turns(r2, c2)
    BY <1>6, <1>7
  <2>2. N - 1 - c = N - 1 - c2 => c = c2
    <3>1. N \in Nat /\ c \in 0..(N - 1) /\ c2 \in 0..(N - 1)
      BY Sizes
    <3>. QED
      BY <3>1
  <2>. QED
    BY <1>7, <2>1, <2>2
<1>. HIDE DEF Row, Col, Turns
<1>8. PlacesApart(copy', n)
  <2>1. \A r, c \in Places : get_bit(copy', c, r) \in Bits_of(n)
    BY <1>4, <1>6 DEF PlacesApart
  <2>2. ASSUME NEW r \in Places, NEW c \in Places, NEW r2 \in Places, NEW c2 \in Places,
               get_bit(copy', c, r) = get_bit(copy', c2, r2)
        PROVE  r = r2 /\ c = c2
    <3>1. Row(r, c) = Row(r2, c2) /\ Col(r, c) = Col(r2, c2)
      BY <1>4, <1>6, <2>2 DEF PlacesApart
    <3>. QED
      BY <1>7, <3>1
  <2>. QED
    BY <2>1, <2>2 DEF PlacesApart
<1>. QED
  BY <1>1, <1>3, <1>8, ApartByPlace

\* A ring that has turned has done so once, and in the end all have.
LEMMA RingProgress ==
  ASSUME GoodMachine, row_size \in Nat \ {0}, copy \in [ImageWords -> Words], Stock, at \in [j : Nat, i : Nat],
         at.j \in 0..((N \div 2) - 1), at.i \in 0..((N \div 2) - 1), NEW t \in 0..2, RingsAt(copy, t, at)
  PROVE  /\ at' \in [j : Nat, i : Nat]
         /\ pc' = "stock" => at'.j \in 0..((N \div 2) - 1) /\ at'.i \in 0..((N \div 2) - 1) /\ RingsAt(copy', t, at')
         /\ pc' = "compare" => Turned(copy', t + 1)
<1>. DEFINE H == N \div 2
<1>1. H \in Nat \ {0} /\ at.j \in 0..(H - 1) /\ at.i \in 0..(H - 1)
  BY Sizes
<1>2. /\ at.i + 1 < H => at'.j = at.j /\ at'.i = at.i + 1
      /\ ~(at.i + 1 < H) => at'.j = at.j + 1 /\ at'.i = 0
      /\ at' \in [j : Nat, i : Nat]
      /\ pc' = "stock" => at'.j # H
      /\ pc' = "compare" => at'.j = H
  <2>1. /\ at' = IF at.i + 1 < H THEN [at EXCEPT !.i = @ + 1] ELSE [j |-> at.j + 1, i |-> 0]
        /\ pc' = IF at'.j = H THEN "compare" ELSE "stock"
    BY Zenon DEF Stock
  <2>. HIDE DEF H
  <2>2. at.i + 1 < H => at' = [at EXCEPT !.i = @ + 1] /\ at'.j = at.j /\ at'.i = at.i + 1 /\ at' \in [j : Nat, i : Nat]
    BY <1>1, <2>1
  <2>3. ~(at.i + 1 < H) => at' = [j |-> at.j + 1, i |-> 0] /\ at'.j = at.j + 1 /\ at'.i = 0 /\ at' \in [j : Nat, i : Nat]
    BY <1>1, <2>1
  <2>. QED
    BY <2>1, <2>2, <2>3
<1>. HIDE DEF H
<1>3. \A r, c \in Places : Lead(r, c).j \in 0..(H - 1) /\ Lead(r, c).i \in 0..(H - 1)
                           /\ N - 1 - c \in Places /\ Lead(N - 1 - c, r) = Lead(r, c)
  BY LeadOf DEF H
<1>4. ASSUME NEW r \in Places, NEW c \in Places
      PROVE  get_bit(copy', c, r) = Turn(IF Earlier(at', Lead(r, c).j, Lead(r, c).i) THEN t + 1 ELSE t, r, c)
  <2>. DEFINE l == Lead(r, c)
  <2>1. Earlier(at', l.j, l.i) <=> Earlier(at, l.j, l.i) \/ (l.j = at.j /\ l.i = at.i)
    <3>. HIDE DEF l
    <3>1. PICK now, next, J, I : now = at /\ next = at' /\ J = at.j /\ I = at.i
      OBVIOUS
    <3>2. J \in 0..(H - 1) /\ I \in 0..(H - 1) /\ l.j \in 0..(H - 1) /\ l.i \in 0..(H - 1)
      BY <1>1, <1>3, <3>1 DEF l
    <3>3. /\ now.j = J /\ now.i = I
          /\ I + 1 < H => next.j = J /\ next.i = I + 1
          /\ ~(I + 1 < H) => next.j = J + 1 /\ next.i = 0
      BY <1>2, <3>1
    <3>4. Earlier(next, l.j, l.i) <=> Earlier(now, l.j, l.i) \/ (l.j = J /\ l.i = I)
      BY <1>1, <3>2, <3>3 DEF Earlier
    <3>. QED
      BY <3>1, <3>4
  <2>2. CASE l.j = at.j /\ l.i = at.i
    <3>1. get_bit(copy', c, r) = get_bit(copy, r, N - 1 - c)
      BY <2>2, RingStep
    <3>2. ~Earlier(at, l.j, l.i)
      BY <1>1, <2>2 DEF Earlier
    <3>3. get_bit(copy, r, N - 1 - c) = Turn(t, N - 1 - c, r)
      BY <1>3, <3>2 DEF RingsAt
    <3>4. Turn(t + 1, r, c) = Turn(t, N - 1 - c, r)
      BY TurnNext
    <3>. QED
      BY <2>1, <2>2, <3>1, <3>3, <3>4
  <2>3. CASE ~(l.j = at.j /\ l.i = at.i)
    <3>1. get_bit(copy', c, r) = get_bit(copy, c, r)
      BY <2>3, RingStep
    <3>2. get_bit(copy, c, r) = Turn(IF Earlier(at, l.j, l.i) THEN t + 1 ELSE t, r, c)
      BY DEF RingsAt
    <3>. QED
      BY <2>1, <2>3, <3>1, <3>2
  <2>. QED
    BY <2>2, <2>3
<1>5. RingsAt(copy', t, at')
  BY <1>4 DEF RingsAt
<1>6. pc' = "stock" => at'.j \in 0..(H - 1) /\ at'.i \in 0..(H - 1)
  BY <1>1, <1>2
<1>7. ASSUME pc' = "compare"
      PROVE  Turned(copy', t + 1)
  <2>1. \A j, i \in 0..(H - 1) : Earlier(at', j, i)
    BY <1>1, <1>2, <1>7 DEF Earlier
  <2>2. \A r, c \in Places : get_bit(copy', c, r) = Turn(t + 1, r, c)
    BY <1>3, <1>4, <2>1
  <2>3. PICK img : img = copy'
    OBVIOUS
  <2>4. \A r, c \in Places : get_bit(img, c, r) = Turn(t + 1, r, c)
    BY <2>2, <2>3
  <2>5. TurnedAt(img, t + 1, ImageWords)
    BY <2>4, TurnedByPlace
  <2>. QED
    BY <2>3, <2>5 DEF Turned
<1>. QED
  BY <1>2, <1>5, <1>6, <1>7 DEF H

-----------------------------------------------------------------------------
(* The sizes of the tests.                                                 *)

\* A set of naturals that is not empty has a least one.
LEMMA LeastNatural ==
  ASSUME NEW S \in SUBSET Nat, S # {}
  PROVE  \E n \in S : \A m \in S : n <= m
<1>1. \E R : IsWellFoundedOn(R, Nat) /\ \A m, k \in Nat : m < k => <<m, k>> \in R
  <2>1. \A m, k \in Nat : m < k => <<m, k>> \in OpToRel(<, Nat)
    BY DEF OpToRel
  <2>. QED
    BY <2>1, NatLessThanWellFounded
<1>2. PICK R : IsWellFoundedOn(R, Nat) /\ \A m, k \in Nat : m < k => <<m, k>> \in R
  BY <1>1
<1>3. S \subseteq Nat
  OBVIOUS
<1>4. PICK n \in S : \A m \in S : ~(<<m, n>> \in R)
  <2>1. IsWellFoundedOn(R, Nat)
    BY <1>2
  <2>. QED
    BY <1>3, <2>1, WFMin
<1>5. \A m \in S : n <= m
  <2>. TAKE m \in S
  <2>1. ~(m < n)
    BY <1>2, <1>3, <1>4
  <2>. QED
    BY <1>3, <2>1
<1>. QED
  BY <1>5

\* tier_sizes is the function its definition describes.
LEMMA TierSizesDefined ==
  ASSUME machine \in Machines
  PROVE  tier_sizes = [t \in 0..machine.MAX_TIER_ALLOW |->
                         IF t = 0 THEN machine.START_SIZE ELSE ((tier_sizes[t - 1] * 11) + 9) \div 10]
<1>. DEFINE M == machine.MAX_TIER_ALLOW
            S == machine.START_SIZE
            Upto(m, f) == f = [t \in 0..m |-> IF t = 0 THEN S ELSE ((f[t - 1] * 11) + 9) \div 10]
            bad == {m \in 0..M : ~\E f : Upto(m, f)}
<1>1. M \in Nat
  BY RotationAssumption
<1>. HIDE DEF M, S
<1>2. bad = {}
  <2>. SUFFICES ASSUME bad # {} PROVE FALSE
    OBVIOUS
  <2>1. PICK m \in bad : \A k \in bad : m <= k
    <3>1. bad \in SUBSET Nat
      BY <1>1
    <3>. HIDE DEF bad
    <3>. QED
      BY <3>1, LeastNatural
  <2>2. CASE m = 0
    <3>1. Upto(0, [t \in 0..0 |-> S])
      OBVIOUS
    <3>. QED
      BY <2>1, <2>2, <3>1
  <2>3. CASE m # 0
    <3>1. m \in Nat /\ m - 1 \in 0..M /\ m - 1 \notin bad
      BY <1>1, <2>1, <2>3
    <3>2. PICK f : Upto(m - 1, f)
      BY <3>1
    <3>. DEFINE g == [t \in 0..m |-> IF t = 0 THEN S ELSE ((f[t - 1] * 11) + 9) \div 10]
    <3>3. \A t \in 1..m : g[t - 1] = f[t - 1]
      BY <1>1, <2>1, <3>2
    <3>4. g = [t \in 0..m |-> IF t = 0 THEN S ELSE ((g[t - 1] * 11) + 9) \div 10]
      <4>1. \A t \in 0..m : (IF t = 0 THEN S ELSE ((f[t - 1] * 11) + 9) \div 10)
                              = (IF t = 0 THEN S ELSE ((g[t - 1] * 11) + 9) \div 10)
        <5>. TAKE t \in 0..m
        <5>1. t = 0 \/ t \in 1..m
          BY <3>1
        <5>. HIDE DEF g
        <5>. QED
          BY <3>3, <5>1
      <4>. HIDE DEF bad, Upto
      <4>. QED
        BY <4>1
    <3>. QED
      BY <2>1, <3>4
  <2>. QED
    BY <2>2, <2>3
<1>3. \E f : Upto(M, f)
  <2>1. M \in 0..M
    BY <1>1
  <2>. HIDE DEF Upto
  <2>. QED
    BY <1>2, <2>1
<1>. QED
  BY <1>3 DEF tier_sizes, M, S

\* A row of each tier has a word, and no fewer than in the tiers before.
LEMMA TierSizes ==
  ASSUME machine \in Machines
  PROVE  /\ tier_sizes[0] = machine.START_SIZE
         /\ \A t \in 0..machine.MAX_TIER_ALLOW : tier_sizes[t] \in Nat \ {0}
         /\ \A t, u \in 0..machine.MAX_TIER_ALLOW : t <= u => tier_sizes[t] <= tier_sizes[u]
<1>. DEFINE M == machine.MAX_TIER_ALLOW
            S == machine.START_SIZE
<1>1. M \in Nat /\ S \in Nat \ {0}
  BY RotationAssumption
<1>. HIDE DEF M, S
<1>2. tier_sizes[0] = S /\ \A t \in 1..M : tier_sizes[t] = ((tier_sizes[t - 1] * 11) + 9) \div 10
  <2>1. 0 \in 0..M /\ \A t \in 1..M : t \in 0..M /\ t # 0
    BY <1>1
  <2>. QED
    BY <2>1, TierSizesDefined DEF M, S
<1>3. \A s \in Nat \ {0} : ((s * 11) + 9) \div 10 \in Nat \ {0} /\ ((s * 11) + 9) \div 10 >= s
  OBVIOUS
<1>4. \A t \in 0..M : tier_sizes[t] \in Nat \ {0}
  <2>. DEFINE bad == {t \in 0..M : tier_sizes[t] \notin Nat \ {0}}
  <2>. SUFFICES ASSUME bad # {} PROVE FALSE
    OBVIOUS
  <2>1. PICK t \in bad : \A u \in bad : t <= u
    <3>1. bad \in SUBSET Nat
      BY <1>1
    <3>. HIDE DEF bad
    <3>. QED
      BY <3>1, LeastNatural
  <2>2. t \in 0..M /\ t # 0
    BY <1>1, <1>2, <2>1
  <2>3. t - 1 \in 0..M /\ t \in 1..M /\ ~(t <= t - 1)
    BY <1>1, <2>2
  <2>4. tier_sizes[t - 1] \in Nat \ {0}
    BY <2>1, <2>3
  <2>5. tier_sizes[t] \in Nat \ {0}
    BY <1>2, <1>3, <2>3, <2>4
  <2>. QED
    BY <2>1, <2>5
<1>5. ASSUME NEW t \in 0..M
      PROVE  \A u \in 0..M : t <= u => tier_sizes[t] <= tier_sizes[u]
  <2>. DEFINE bad == {u \in 0..M : t <= u /\ ~(tier_sizes[t] <= tier_sizes[u])}
  <2>. SUFFICES ASSUME bad # {} PROVE FALSE
    OBVIOUS
  <2>1. PICK u \in bad : \A v \in bad : u <= v
    <3>1. bad \in SUBSET Nat
      BY <1>1
    <3>. HIDE DEF bad
    <3>. QED
      BY <3>1, LeastNatural
  <2>2. u \in 0..M /\ t <= u /\ tier_sizes[t] \in Nat /\ tier_sizes[u] \in Nat /\ u # t
    BY <1>4, <2>1
  <2>3. u - 1 \in 0..M /\ u \in 1..M /\ t <= u - 1 /\ ~(u <= u - 1)
    BY <1>1, <2>2
  <2>4. tier_sizes[t] <= tier_sizes[u - 1] /\ tier_sizes[u - 1] \in Nat \ {0}
    BY <1>4, <2>1, <2>3
  <2>5. tier_sizes[u] >= tier_sizes[u - 1]
    BY <1>2, <1>3, <2>3, <2>4
  <2>6. tier_sizes[t] <= tier_sizes[u]
    BY <2>2, <2>4, <2>5
  <2>. QED
    BY <2>1, <2>6
<1>. QED
  BY <1>2, <1>4, <1>5 DEF M, S

\* The next image of the correctness test is not smaller.
LEMMA LargerOrEqual ==
  ASSUME row_size \in Nat \ {0}
  PROVE  Larger \in Nat \ {0} /\ Larger >= row_size
BY DEF Larger

\* A dimension that is given is not less than a word.
LEMMA WideInit == Init => WideInv
<1>. SUFFICES ASSUME Init
              PROVE  WideInv
  OBVIOUS
<1>1. options.N = 0
  BY DEF Init, NotSet
<1>2. options.N \in Nat /\ (options.N = 0 \/ options.N >= W)
  <2>1. options.N \in Nat
    BY <1>1
  <2>. QED
    BY <1>1, <2>1, Zenon
<1>. QED
  BY <1>2, Zenon DEF WideInv

\* Nor is any that a later argument gives.
LEMMA WideStep ==
  ASSUME OptionsInv, WideInv, [Next]_vars
  PROVE  WideInv'
<1>. USE DEF WideInv, OptionsInv, NotSet, UNUSED, Types
<1>1. ASSUME NEW type \in Types, TestType(type)
      PROVE  WideInv'
  <2>1. /\ UNCHANGED machine /\ options.test_type = "not set"
        /\ options' = [f \in DOMAIN options |->
                        IF f = "test_type" THEN type ELSE IF f \in Unused(type) THEN UNUSED ELSE options[f]]
    BY <1>1 DEF TestType, NextArgument, Fresh, Testing
  <2>2. options'.test_type = type /\ ("N" \notin Unused(type) => options'.N = options.N)
    BY <2>1
  <2>3. type = "generated" => "N" \notin Unused(type)
    BY DEF Unused
  <2>. QED
    BY <2>1, <2>2, <2>3 DEF W
<1>2. ASSUME NEW f \in {"fname", "output_fname"}, Name(f)
      PROVE  WideInv'
  BY <1>2 DEF Name, NextArgument, Testing, W
<1>3. ASSUME NEW m \in 0..machine.MAX_TIER_ALLOW + 1, MaxTiers(m)
      PROVE  WideInv'
  BY <1>3 DEF MaxTiers, NextArgument, Testing, W
<1>4. ASSUME NEW n \in machine.dimensions, Dimension(n)
      PROVE  WideInv'
  <2>1. n \in Nat
    BY RotationAssumption
  <2>. QED
    BY <1>4, <2>1 DEF Dimension, NextArgument, Testing, W
<1>5. ASSUME Help
      PROVE  WideInv'
  BY <1>5 DEF Help, Testing, W
<1>6. ASSUME Execute
      PROVE  WideInv'
  BY <1>6 DEF Execute, W
<1>7. ASSUME \/ \E n \in machine.files : ReadFile(n)
             \/ NoFile \/ Generate \/ Abort \/ RotateImage \/ Tests \/ UNCHANGED vars
      PROVE  WideInv'
  BY <1>7, TestingKeeps DEF W
<1>. QED
  BY <1>1, <1>2, <1>3, <1>4, <1>5, <1>6, <1>7 DEF Next, Argument

-----------------------------------------------------------------------------
(* The images before a step and after it.                                  *)

\* A matrix of longer rows is larger.
LEMMA SquareGrows ==
  ASSUME NEW w \in Nat, NEW a \in Nat, NEW b \in Nat, a <= b
  PROVE  /\ a * w * a <= b * w * b /\ w * a * a <= w * b * b
         /\ a * w * a = w * a * a /\ a * w * a \in Nat
<1>1. a * w \in Nat /\ b * w \in Nat /\ a * w <= b * w /\ w * a = a * w /\ w * b = b * w
  <2>1. (b - a) * w \in Nat /\ (b - a) * w = b * w - a * w
    <3>1. b - a \in Nat
      OBVIOUS
    <3>. QED
      BY <3>1
  <2>. QED
    BY <2>1
<1>. DEFINE c == a * w
            d == b * w
<1>2. c \in Nat /\ d \in Nat /\ c <= d
  BY <1>1
<1>. HIDE DEF c, d
<1>3. c * a \in Nat /\ d * b \in Nat /\ c * a <= d * b
  <2>1. (d - c) * b \in Nat /\ (d - c) * b = d * b - c * b /\ c * (b - a) \in Nat /\ c * (b - a) = c * b - c * a
    <3>1. b - a \in Nat /\ d - c \in Nat
      BY <1>2
    <3>. QED
      BY <1>2, <3>1
  <2>. QED
    BY <1>2, <2>1
<1>. QED
  BY <1>1, <1>3 DEF c, d

\* The image that is rotated is in its matrix.
LEMMA Held ==
  ASSUME RotationInv, pc \in {"rotate", "rotated"}
  PROVE  /\ GoodMachine /\ row_size \in Nat \ {0}
         /\ \E n \in Nat : image \in Matrix(n) /\ Apart(image) /\ ImageWords \subseteq 0..(n - 1)
<1>. USE DEF RotationInv
<1>1. GoodMachine /\ machine \in Machines /\ row_size \in Nat \ {0} /\ W \in Nat
  BY Machine, Wide DEF OptionsInv, SizeInv
<1>2. PICK n \in Nat : image \in Matrix(n) /\ Apart(image)
  BY DEF BitsInv
<1>3. DOMAIN image = 0..(n - 1)
  BY <1>1, <1>2, MatrixWords
<1>4. CASE ~Tiers
  <2>1. DOMAIN image = ImageWords
    BY <1>4 DEF SizeInv
  <2>. QED
    BY <1>1, <1>2, <1>3, <2>1
<1>5. CASE Tiers
  <2>1. tier \in 0..options.max_tier
    BY <1>5 DEF TierInv, Reading, Tiers
  <2>2. options.max_tier \in 0..machine.MAX_TIER_ALLOW
    BY <1>5 DEF OptionsInv, GivenInv, Tiers, Reading
  <2>3. machine.MAX_TIER_ALLOW \in Nat
    BY <1>1, RotationAssumption
  <2>4. tier \in 0..machine.MAX_TIER_ALLOW /\ tier <= options.max_tier
    BY <2>1, <2>2, <2>3
  <2>5. PICK s : s = tier_sizes[options.max_tier]
    OBVIOUS
  <2>6. /\ row_size = tier_sizes[tier]
        /\ DOMAIN image = 0..(s * W * s - 1)
    BY <1>5, <2>5 DEF SizeInv
  <2>7. s \in Nat /\ row_size <= s
    BY <1>1, <2>2, <2>4, <2>5, <2>6, TierSizes
  <2>8. row_size * W * row_size <= s * W * s /\ row_size * W * row_size \in Nat /\ s * W * s \in Nat
    BY <1>1, <2>7, SquareGrows
  <2>9. ImageWords \subseteq 0..(n - 1)
    BY <1>3, <2>6, <2>8 DEF ImageWords
  <2>. QED
    BY <1>1, <1>2, <2>9
<1>. QED
  BY <1>4, <1>5

\* Both images, where there are two, are of the same size.
LEMMA HeldTwice ==
  ASSUME RotationInv, ~Tiers, pc \in {"rotate", "rotated", "stock", "compare"}, NEW n, n = row_size * W * row_size
  PROVE  /\ GoodMachine /\ row_size \in Nat \ {0} /\ n \in Nat /\ ImageWords = 0..(n - 1)
         /\ image \in Matrix(n) /\ Apart(image) /\ copy \in Matrix(n) /\ Apart(copy)
<1>. USE DEF RotationInv
<1>1. GoodMachine /\ row_size \in Nat \ {0} /\ W \in Nat
  BY Machine, Wide DEF OptionsInv, SizeInv
<1>2. n \in Nat /\ ImageWords = 0..(n - 1)
  BY <1>1 DEF ImageWords
<1>3. PICK a \in Nat : image \in Matrix(a) /\ Apart(image)
  BY DEF BitsInv
<1>4. PICK b \in Nat : copy \in Matrix(b) /\ Apart(copy)
  BY DEF BitsInv
<1>5. DOMAIN image = ImageWords /\ DOMAIN copy = ImageWords
  BY DEF SizeInv
<1>6. 0..(a - 1) = 0..(n - 1) /\ 0..(b - 1) = 0..(n - 1)
  BY <1>1, <1>2, <1>3, <1>4, <1>5, MatrixWords
<1>7. a = n /\ b = n
  BY <1>2, <1>6, OneSize
<1>. QED
  BY <1>1, <1>2, <1>3, <1>4, <1>7

\* The image that there is not yet
LEMMA EmptyMatrix == <<>> \in Matrix(0) /\ Apart(<<>>)
<1>1. DOMAIN <<>> = {} /\ 0..(0 - 1) = {}
  OBVIOUS
<1>2. <<>> \in [{} -> [Bits -> Bits_of(0)]]
  BY <1>1
<1>3. Matrix(0) = [{} -> [Bits -> Bits_of(0)]]
  BY <1>1 DEF Matrix
<1>. QED
  BY <1>1, <1>2, <1>3 DEF Apart

\* The loops begin with no round done.
LEMMA BlocksBegin ==
  ASSUME GoodMachine, row_size \in Nat \ {0}, NEW img, NEW t, Turned(img, t)
  PROVE  /\ BlocksAt(img, t, Start)
         /\ row_size # 1 => InLoops(Start.j, Start.i)
<1>1. W \in Nat \ {0} /\ Half \in Nat
  BY Wide DEF Half
<1>2. \A j, i : InLoops(j, i) => row_size # 1 /\ ~Earlier(Start, j, i)
  <2>1. row_size = 1 => Half = 0
    BY DEF Half
  <2>2. \A j, i : InLoops(j, i) => j \in Nat /\ i \in Nat /\ i < Half
    BY <1>1, LoopBounds DEF InLoops
  <2>. QED
    BY <1>1, <2>1, <2>2 DEF Earlier, Start
<1>3. \A j, i : InLoops(j, i) => \A q \in Quarters : \A k \in Bits : Word(q, j, i, k) \in ImageWords
  BY <1>1, <1>2, RoundsPartition DEF Quarters
<1>4. row_size % 2 = 1 => \A k \in Bits : MiddleWord(k) \in ImageWords
  BY MiddleInside
<1>5. \A x \in ImageWords : \A p \in Bits : img[x][p] = Origin(t, x, p)
  BY DEF Turned, TurnedAt
<1>6. BlocksAt(img, t, Start)
  BY <1>2, <1>3, <1>4, <1>5 DEF BlocksAt
<1>7. row_size # 1 => InLoops(Start.j, Start.i)
  BY <1>1, RoundsPartition
<1>. QED
  BY <1>6, <1>7

\* What is so of a generated image
LEMMA NewTurned ==
  GoodMachine /\ row_size \in Nat \ {0} =>
    /\ NewImage(row_size) \in Matrix(row_size * W * row_size) /\ Apart(NewImage(row_size))
    /\ row_size * W * row_size \in Nat /\ DOMAIN NewImage(row_size) = ImageWords
    /\ Turned(NewImage(row_size), 0)
    /\ BlocksAt(NewImage(row_size), 0, Start) /\ (row_size # 1 => InLoops(Start.j, Start.i))
<1>. SUFFICES ASSUME GoodMachine, row_size \in Nat \ {0}
              PROVE  /\ NewImage(row_size) \in Matrix(row_size * W * row_size) /\ Apart(NewImage(row_size))
                     /\ row_size * W * row_size \in Nat /\ DOMAIN NewImage(row_size) = ImageWords
                     /\ Turned(NewImage(row_size), 0)
                     /\ BlocksAt(NewImage(row_size), 0, Start) /\ (row_size # 1 => InLoops(Start.j, Start.i))
  OBVIOUS
<1>1. PICK n : n = row_size * W * row_size
  OBVIOUS
<1>2. /\ n \in Nat /\ NewImage(row_size) \in Matrix(n) /\ Apart(NewImage(row_size))
      /\ \A x \in 0..(n - 1) : \A p \in Bits : NewImage(row_size)[x][p] = Pixel(x, p)
  BY <1>1, Generated
<1>3. DOMAIN NewImage(row_size) = ImageWords /\ ImageWords = 0..(n - 1)
  BY <1>1, <1>2, MatrixWords DEF ImageWords
<1>4. ASSUME NEW x \in ImageWords, NEW p \in Bits
      PROVE  Pixel(x, p) = Origin(0, x, p)
  <2>. DEFINE r == x \div row_size
              c == x % row_size
  <2>1. x \in Nat /\ N = W * row_size /\ W \in Nat /\ p \in Nat
    BY <1>2, <1>3, Wide DEF N
  <2>2. x = r * row_size + c /\ r \in Nat /\ c \in Nat
    <3>1. \A m \in Nat \ {0} : \A a \in Nat : a = (a \div m) * m + (a % m) /\ a \div m \in Nat /\ a % m \in Nat
      OBVIOUS
    <3>. QED
      BY <2>1, <3>1
  <2>3. Origin(0, x, p) = r * N + (c * W + p)
    BY DEF Origin
  <2>. HIDE DEF r, c
  <2>4. r * (W * row_size) + (c * W + p) = (r * row_size + c) * W + p
    BY <2>1, <2>2
  <2>. QED
    BY <2>1, <2>2, <2>3, <2>4 DEF Pixel
<1>5. Turned(NewImage(row_size), 0)
  <2>1. PICK img : img = NewImage(row_size)
    OBVIOUS
  <2>2. \A x \in ImageWords : \A p \in Bits : img[x][p] = Origin(0, x, p)
    BY <1>2, <1>3, <1>4, <2>1
  <2>. QED
    BY <2>1, <2>2 DEF Turned, TurnedAt
<1>6. BlocksAt(NewImage(row_size), 0, Start) /\ (row_size # 1 => InLoops(Start.j, Start.i))
  <2>1. PICK img : img = NewImage(row_size)
    OBVIOUS
  <2>2. Turned(img, 0)
    BY <1>5, <2>1
  <2>. QED
    BY <2>1, <2>2, BlocksBegin
<1>. QED
  BY <1>1, <1>2, <1>3, <1>5, <1>6

\* The loops of the tester begin with no ring turned.
LEMMA RingsBegin ==
  ASSUME GoodMachine, row_size \in Nat \ {0}, NEW img, NEW t, Turned(img, t)
  PROVE  RingsAt(img, t, Start) /\ (N \div 2) \in Nat \ {0}
<1>1. (N \div 2) \in Nat \ {0}
  BY Sizes
<1>2. \A r, c \in Places : get_bit(img, c, r) = Turn(t, r, c)
  BY TurnedByPlace DEF Turned
<1>3. \A r, c \in Places : ~Earlier(Start, Lead(r, c).j, Lead(r, c).i)
  <2>1. \A r, c \in Places : Lead(r, c).j \in 0..((N \div 2) - 1) /\ Lead(r, c).i \in 0..((N \div 2) - 1)
    BY LeadOf
  <2>. QED
    BY <1>1, <2>1 DEF Earlier, Start
<1>. QED
  BY <1>1, <1>2, <1>3 DEF RingsAt

\* The two ways to rotate an image agree.
LEMMA SameImages ==
  ASSUME RotationInv, pc = "compare"
  PROVE  ~Tiers /\ image = copy
<1>. USE DEF RotationInv
<1>1. ~Tiers
  BY DEF TierInv, Tiers, Reading
<1>2. PICK n : n = row_size * W * row_size
  OBVIOUS
<1>3. ImageWords = 0..(n - 1) /\ image \in Matrix(n) /\ copy \in Matrix(n)
  BY <1>1, <1>2, HeldTwice
<1>4. \A x \in ImageWords : \A p \in Bits : image[x][p] = Origin(turns + 1, x, p) /\ copy[x][p] = Origin(turns + 1, x, p)
  BY <1>1 DEF TurnInv, Turned, TurnedAt
<1>5. \A x \in 0..(n - 1) : image[x] \in [Bits -> Bits_of(n)] /\ copy[x] \in [Bits -> Bits_of(n)]
  BY <1>3 DEF Matrix
<1>6. \A x \in 0..(n - 1) : image[x] = copy[x]
  <2>. SUFFICES ASSUME NEW x \in 0..(n - 1)
                PROVE  image[x] = copy[x]
    OBVIOUS
  <2>1. \A p \in Bits : image[x][p] = copy[x][p]
    BY <1>3, <1>4
  <2>. QED
    BY <1>5, <2>1
<1>7. image = copy
  <2>1. image = [x \in 0..(n - 1) |-> image[x]] /\ copy = [x \in 0..(n - 1) |-> copy[x]]
    BY <1>3 DEF Matrix
  <2>2. [x \in 0..(n - 1) |-> image[x]] = [x \in 0..(n - 1) |-> copy[x]]
    BY <1>6
  <2>. QED
    BY <2>1, <2>2
<1>. QED
  BY <1>1, <1>7

\* A step that changes no image and no size to a smaller one keeps the bits.
LEMMA BitsKept ==
  ASSUME BitsInv, GoodMachine, UNCHANGED <<machine, image, copy>>, row_size \in Nat, row_size' \in Nat,
         image = <<>> \/ row_size' >= row_size
  PROVE  BitsInv'
<1>1. W' = W /\ W \in Nat /\ (\A n : Matrix(n)' = Matrix(n)) /\ (\A img : Apart(img)' <=> Apart(img))
      /\ (\A x, p : Pixel(x, p)' = Pixel(x, p)) /\ Bits' = Bits
  BY SameMachine, Wide DEF W, Bits
<1>2. (\E n \in Nat : image \in Matrix(n) /\ Apart(image))'
  BY <1>1 DEF BitsInv
<1>3. (\E n \in Nat : copy \in Matrix(n) /\ Apart(copy))'
  BY <1>1 DEF BitsInv
<1>4. (\A x \in DOMAIN image : x >= W * row_size * row_size => \A p \in Bits : image[x][p] = Pixel(x, p))'
  <2>. SUFFICES ASSUME NEW x \in DOMAIN image, x >= W * row_size' * row_size'
                PROVE  \A p \in Bits : image[x][p] = Pixel(x, p)
    BY <1>1
  <2>1. row_size <= row_size'
    <3>1. DOMAIN <<>> = {}
      OBVIOUS
    <3>. QED
      BY <3>1
  <2>2. W * row_size * row_size <= W * row_size' * row_size'
    BY <1>1, <2>1, SquareGrows
  <2>3. PICK n \in Nat : image \in Matrix(n)
    BY DEF BitsInv
  <2>4. x \in Nat
    BY <2>3, MatrixWords
  <2>5. W * row_size * row_size \in Nat /\ W * row_size' * row_size' \in Nat
    <3>1. \A a, b \in Nat : a * b \in Nat
      OBVIOUS
    <3>. QED
      BY <1>1, <3>1
  <2>6. x >= W * row_size * row_size
    BY <2>2, <2>4, <2>5
  <2>. QED
    BY <2>6 DEF BitsInv
<1>. QED
  BY <1>2, <1>3, <1>4 DEF BitsInv

\* A step that rearranges the image keeps the bits, as it leaves what is behind.
LEMMA BitsChanged ==
  ASSUME BitsInv, GoodMachine, row_size \in Nat, UNCHANGED <<machine, row_size, copy>>, NEW n \in Nat,
         image \in Matrix(n), image' \in Matrix(n), Apart(image'),
         \A x \in 0..(n - 1) : x \notin ImageWords => image'[x] = image[x]
  PROVE  BitsInv'
<1>1. W' = W /\ W \in Nat /\ (\A m : Matrix(m)' = Matrix(m)) /\ (\A img : Apart(img)' <=> Apart(img))
      /\ (\A x, p : Pixel(x, p)' = Pixel(x, p)) /\ Bits' = Bits
  BY SameMachine, Wide DEF W, Bits
<1>2. (\E m \in Nat : image \in Matrix(m) /\ Apart(image))'
  BY <1>1
<1>3. (\E m \in Nat : copy \in Matrix(m) /\ Apart(copy))'
  BY <1>1 DEF BitsInv
<1>4. DOMAIN image = 0..(n - 1) /\ DOMAIN image' = 0..(n - 1)
  BY MatrixWords
<1>5. row_size * W * row_size = W * row_size * row_size /\ row_size * W * row_size \in Nat
  BY <1>1, SquareGrows
<1>6. (\A x \in DOMAIN image : x >= W * row_size * row_size => \A p \in Bits : image[x][p] = Pixel(x, p))'
  <2>. SUFFICES ASSUME NEW x \in 0..(n - 1), x >= W * row_size * row_size
                PROVE  \A p \in Bits : image'[x][p] = Pixel(x, p)
    BY <1>1, <1>4
  <2>1. x \notin ImageWords
    BY <1>5 DEF ImageWords
  <2>2. image'[x] = image[x]
    BY <2>1
  <2>. QED
    BY <1>4, <2>2 DEF BitsInv
<1>. QED
  BY <1>2, <1>3, <1>6 DEF BitsInv

-----------------------------------------------------------------------------
(* Every step keeps the invariant.                                         *)

\* There is nothing to rotate when main() starts.
LEMMA RotationInit == Init => SizeInv /\ BitsInv /\ TurnInv /\ ResultInv
<1>. SUFFICES ASSUME Init
              PROVE  SizeInv /\ BitsInv /\ TurnInv /\ ResultInv
  OBVIOUS
<1>1. /\ overshift \in {"same", "zero"} /\ row_size = 0 /\ image = <<>> /\ copy = <<>> /\ read = 0
      /\ at = Start /\ turns = 0 /\ tier = 0 /\ pc = "options"
  BY DEF Init
<1>2. MaxArguments \in Nat /\ Start \in [j : Nat, i : Nat]
  BY RotationAssumption DEF Start
<1>3. SizeInv
  <2>1. ScalarInv
    BY <1>1, <1>2 DEF ScalarInv
  <2>2. /\ row_size = 0 /\ at = Start /\ at \in [j : Nat, i : Nat] /\ turns = 0
        /\ image = <<>> /\ copy = <<>> /\ pc = "options"
    BY <1>1, <1>2
  <2>. QED
    BY <2>1, <2>2 DEF SizeInv
<1>4. BitsInv
  <2>1. DOMAIN <<>> = {}
    OBVIOUS
  <2>2. \E n \in Nat : <<>> \in Matrix(n) /\ Apart(<<>>)
    BY EmptyMatrix
  <2>. QED
    BY <1>1, <2>1, <2>2 DEF BitsInv
<1>5. TurnInv
  BY <1>1 DEF TurnInv
<1>6. ResultInv
  <2>1. result = FALSE /\ pc # "done"
    BY DEF Init
  <2>. QED
    BY <2>1, Zenon DEF ResultInv
<1>. QED
  BY <1>3, <1>4, <1>5, <1>6

\* The steps that end the program, and those that read an option
LEMMA QuietKeeps ==
  ASSUME RotationInv, Argument \/ Help \/ NoFile \/ Abort \/ TierFails \/ Alarm
  PROVE  SizeInv' /\ BitsInv' /\ TurnInv' /\ ResultInv'
<1>. USE DEF RotationInv
<1>1. /\ UNCHANGED <<machine, overshift, row_size, image, copy, at, turns>>
      /\ pc' \in {"options", "help", "done", "aborted", "exited"}
      /\ pc' = "options" => pc = "options"
      /\ pc' = "done" => image = <<>> \/ Tiers'
      /\ read' \in 0..MaxArguments /\ tier' >= -1
  <2>1. CASE Argument \/ Help
    <3>1. UNCHANGED Testing /\ pc' \in {"options", "help"} /\ (pc' = "options" => pc = "options")
      BY <2>1 DEF Argument, TestType, Name, MaxTiers, Dimension, NextArgument, Help, Testing
    <3>2. read' = read \/ (read < MaxArguments /\ read' = read + 1)
      BY <2>1 DEF Argument, TestType, Name, MaxTiers, Dimension, NextArgument, Help
    <3>3. read' \in 0..MaxArguments
      BY <3>2, RotationAssumption DEF SizeInv, ScalarInv
    <3>. QED
      BY <3>1, <3>3 DEF SizeInv, ScalarInv, Testing
  <2>2. CASE NoFile
    BY <2>2 DEF NoFile, SizeInv, ScalarInv
  <2>3. CASE Abort \/ Alarm
    BY <2>3 DEF Abort, Alarm, SizeInv, ScalarInv, program
  <2>4. CASE TierFails
    <3>1. /\ pc = "rotated" /\ Tiers /\ tier' = tier - 1 /\ pc' = "done"
          /\ UNCHANGED <<machine, overshift, row_size, image, copy, at, turns, options, read, result>>
      BY <2>4 DEF TierFails, After_Timeout, Return, Tiers
    <3>2. tier \in 0..options.max_tier /\ options.max_tier \in Int
      <4>1. options.max_tier \in 0..machine.MAX_TIER_ALLOW \cup {-1} /\ machine.MAX_TIER_ALLOW \in Nat
        BY <3>1, RotationAssumption DEF OptionsInv, Tiers
      <4>. QED
        BY <3>1, <4>1 DEF TierInv, Tiers, Reading
    <3>3. tier' >= -1
      BY <3>1, <3>2
    <3>4. Tiers'
      BY <3>1 DEF Tiers
    <3>. QED
      BY <3>1, <3>3, <3>4 DEF SizeInv, ScalarInv
  <2>. QED
    BY <2>1, <2>2, <2>3, <2>4
<1>2. GoodMachine /\ row_size \in Nat /\ row_size' \in Nat /\ row_size' >= row_size
  <2>1. GoodMachine /\ row_size \in Nat
    BY Machine DEF OptionsInv, SizeInv
  <2>. QED
    BY <1>1, <2>1
<1>3. BitsInv'
  BY <1>1, <1>2, BitsKept
<1>4. SizeInv'
  BY <1>1 DEF SizeInv, ScalarInv
<1>5. TurnInv'
  BY <1>1 DEF TurnInv
<1>6. ResultInv'
  <2>1. result' \in BOOLEAN
    <3>1. UNCHANGED result \/ result' = FALSE
      BY DEF Argument, TestType, Name, MaxTiers, Dimension, NextArgument, Help, Testing, NoFile, Abort, Alarm,
             program, TierFails
    <3>. QED
      BY <3>1, Zenon DEF ResultInv
  <2>. QED
    BY <1>1, <2>1 DEF ResultInv
<1>. QED
  BY <1>3, <1>4, <1>5, <1>6

\* A step of no one changes nothing.
LEMMA StutterKeeps ==
  ASSUME RotationInv, UNCHANGED vars
  PROVE  SizeInv' /\ BitsInv' /\ TurnInv' /\ ResultInv'
<1>. USE DEF RotationInv
<1>1. /\ UNCHANGED <<machine, overshift, row_size, image, copy, at, pc>>
      /\ UNCHANGED <<options, read, turns, tier, result>>
  BY DEF vars, program
<1>2. GoodMachine /\ row_size \in Nat /\ row_size' \in Nat /\ row_size' >= row_size
  <2>1. GoodMachine /\ row_size \in Nat
    BY Machine DEF OptionsInv, SizeInv
  <2>. QED
    BY <1>1, <2>1
<1>3. BitsInv'
  BY <1>1, <1>2, BitsKept
<1>4. /\ N' = N /\ ImageWords' = ImageWords /\ W' = W /\ tier_sizes' = tier_sizes /\ (Tiers' <=> Tiers)
      /\ \A j, i : InLoops(j, i)' <=> InLoops(j, i)
      /\ \A j : Done(j)' <=> Done(j)
  BY <1>1, SameSize, SameMachine DEF Tiers
<1>5. SizeInv'
  BY <1>1, <1>4 DEF SizeInv, ScalarInv
<1>6. TurnInv'
  <2>1. /\ \A img, t, place : BlocksAt(img, t, place)' <=> BlocksAt(img, t, place)
        /\ \A img, t, place : RingsAt(img, t, place)' <=> RingsAt(img, t, place)
        /\ \A img, t : Turned(img, t)' <=> Turned(img, t)
    BY <1>1, SameSize
  <2>. QED
    BY <1>1, <1>4, <2>1 DEF TurnInv
<1>7. ResultInv'
  BY <1>1, <1>4, Zenon DEF ResultInv
<1>. QED
  BY <1>3, <1>5, <1>6, <1>7

\* A test begins with the size of its first image.
LEMMA ExecuteKeeps ==
  ASSUME RotationInv, Execute
  PROVE  SizeInv' /\ BitsInv' /\ TurnInv' /\ ResultInv'
<1>. USE DEF RotationInv
<1>1. /\ pc = "options" /\ options.test_type # "not set" /\ (options.test_type = "generated" => options.N # 0)
      /\ row_size' = CASE options.test_type = "generated" -> options.N \div W
                       [] options.test_type = "file"      -> 0
                       [] OTHER                           -> machine.START_SIZE
      /\ options' = [options EXCEPT !.max_tier = IF options.test_type = "tiers" THEN HighestTier ELSE UNUSED]
      /\ read' = 0
      /\ pc' = IF options.test_type = "file" THEN "file" ELSE "generate"
      /\ UNCHANGED <<machine, overshift, image, copy, at, turns, tier, printed, result>>
  BY DEF Execute
<1>2. /\ machine \in Machines /\ GoodMachine /\ MaxArguments \in Nat
      /\ machine.START_SIZE \in Nat \ {0} /\ W \in Nat \ {0} /\ machine.MAX_TIER_ALLOW \in Nat
      /\ at = Start /\ turns = 0 /\ image = <<>> /\ copy = <<>> /\ tier = 0
  BY <1>1, Machine, Wide, RotationAssumption DEF OptionsInv, SizeInv, TierInv, Reading
<1>3. options'.test_type = options.test_type
  BY <1>1 DEF OptionsInv, NotSet
<1>4. options.test_type = "generated" => options.N \div W \in Nat \ {0}
  <2>1. ASSUME options.test_type = "generated"
        PROVE  options.N \div W \in Nat \ {0}
    <3>1. options.N \in Nat /\ options.N >= W
      BY <1>1, <2>1 DEF WideInv
    <3>2. \A n \in Nat \ {0} : \A a \in Nat : a = (a \div n) * n + (a % n) /\ a \div n \in Nat /\ a % n \in 0..(n - 1)
      OBVIOUS
    <3>3. PICK a, d, m : a = options.N /\ d = a \div W /\ m = a % W
      OBVIOUS
    <3>4. a = d * W + m /\ d \in Nat /\ m \in 0..(W - 1)
      BY <1>2, <3>1, <3>2, <3>3
    <3>5. d # 0
      BY <1>2, <3>1, <3>3, <3>4
    <3>. QED
      BY <3>3, <3>4, <3>5
  <2>. QED
    BY <2>1
<1>5. row_size' \in Nat /\ (options.test_type # "file" => row_size' # 0)
      /\ (options.test_type = "tiers" => row_size' = machine.START_SIZE)
  <2>1. CASE options.test_type = "generated"
    BY <1>1, <1>4, <2>1
  <2>2. CASE options.test_type = "file"
    BY <1>1, <2>2
  <2>3. CASE options.test_type \notin {"generated", "file"}
    BY <1>1, <1>2, <2>3
  <2>. QED
    BY <2>1, <2>2, <2>3
<1>6. BitsInv'
  <2>1. row_size \in Nat
    BY DEF SizeInv
  <2>. QED
    BY <1>1, <1>2, <1>5, <2>1, BitsKept
<1>7. SizeInv'
  <2>1. tier_sizes' = tier_sizes /\ tier_sizes[0] = machine.START_SIZE
    BY <1>1, <1>2, SameMachine, TierSizes
  <2>2. Tiers' => row_size' = tier_sizes'[tier']
    BY <1>1, <1>2, <1>3, <1>5, <2>1 DEF Tiers
  <2>3. pc' \in {"file", "generate"} /\ (pc' = "generate" => row_size' # 0) /\ (Tiers' => pc' = "generate")
    BY <1>1, <1>3, <1>5 DEF Tiers
  <2>. QED
    <3>1. ScalarInv'
      <4>1. overshift' = overshift /\ read' = 0 /\ turns' = 0 /\ tier' = 0
        BY <1>1, <1>2
      <4>. QED
        BY <1>2, <2>3, <4>1 DEF SizeInv, ScalarInv
    <3>2. at' = Start /\ Start \in [j : Nat, i : Nat] /\ turns' = 0 /\ image' = <<>> /\ copy' = <<>>
      BY <1>1, <1>2 DEF Start
    <3>. QED
      BY <1>5, <2>2, <2>3, <3>1, <3>2 DEF SizeInv
<1>8. TurnInv'
  BY <1>1 DEF TurnInv
<1>9. ResultInv'
  <2>1. UNCHANGED result /\ pc' # "done"
    BY <1>1
  <2>. QED
    BY <2>1, Zenon DEF ResultInv
<1>. QED
  BY <1>6, <1>7, <1>8, <1>9

\* An image that is read is not turned yet,
LEMMA ReadFileKeeps ==
  ASSUME RotationInv, NEW n \in machine.files, ReadFile(n)
  PROVE  SizeInv' /\ BitsInv' /\ TurnInv' /\ ResultInv'
<1>. USE DEF RotationInv
<1>1. /\ pc = "file" /\ pc' = "rotate" /\ row_size' = n /\ image' = NewImage(n) /\ copy' = NewImage(n)
      /\ UNCHANGED <<machine, overshift, at>> /\ UNCHANGED <<options, read, turns, tier, printed, result>>
  BY DEF ReadFile, program
<1>2. machine \in Machines /\ GoodMachine /\ n \in Nat \ {0} /\ at = Start /\ turns = 0
  BY <1>1, Machine, RotationAssumption DEF OptionsInv, SizeInv
<1>3. /\ W' = W /\ Bits' = Bits /\ GoodMachine' /\ (Tiers' <=> Tiers)
      /\ \A x, p : Pixel(x, p)' = Pixel(x, p)
  BY <1>1, <1>2, SameMachine DEF W, Bits, Tiers
<1>4. ~Tiers
  BY <1>1 DEF TierInv, Tiers, Reading
<1>5. image' = NewImage(row_size)' /\ copy' = NewImage(row_size)'
  BY <1>1, <1>3 DEF NewImage
<1>6. GoodMachine' /\ row_size' \in Nat \ {0}
  BY <1>1, <1>2, <1>3
<1>7. (GoodMachine /\ row_size \in Nat \ {0} =>
         /\ NewImage(row_size) \in Matrix(row_size * W * row_size) /\ Apart(NewImage(row_size))
         /\ row_size * W * row_size \in Nat /\ DOMAIN NewImage(row_size) = ImageWords
         /\ Turned(NewImage(row_size), 0)
         /\ BlocksAt(NewImage(row_size), 0, Start) /\ (row_size # 1 => InLoops(Start.j, Start.i)))'
  BY NewTurned, PTL
<1>8. (/\ image \in Matrix(row_size * W * row_size) /\ Apart(image)
       /\ copy \in Matrix(row_size * W * row_size) /\ Apart(copy)
       /\ row_size * W * row_size \in Nat /\ DOMAIN image = ImageWords /\ DOMAIN copy = ImageWords
       /\ Turned(image, 0) /\ Turned(copy, 0)
       /\ BlocksAt(image, 0, Start) /\ (row_size # 1 => InLoops(Start.j, Start.i)))'
  BY <1>5, <1>6, <1>7
<1>9. BitsInv'
  <2>1. (\E m \in Nat : image \in Matrix(m) /\ Apart(image))'
    BY <1>8
  <2>2. (\E m \in Nat : copy \in Matrix(m) /\ Apart(copy))'
    BY <1>8
  <2>3. (\A x \in DOMAIN image : \A p \in Bits : image[x][p] = Pixel(x, p))'
    BY <1>1, <1>3 DEF NewImage
  <2>. QED
    BY <2>1, <2>2, <2>3 DEF BitsInv
<1>10. SizeInv'
  <2>1. ScalarInv'
    BY <1>1 DEF SizeInv, ScalarInv
  <2>2. /\ row_size' \in Nat /\ row_size' # 0 /\ at' = Start /\ Start \in [j : Nat, i : Nat] /\ pc' = "rotate" /\ ~Tiers'
    BY <1>1, <1>2, <1>3, <1>4 DEF Start
  <2>. QED
    BY <1>8, <2>1, <2>2 DEF SizeInv
<1>11. TurnInv'
  <2>1. turns' = 0 /\ at' = Start /\ pc' = "rotate"
    BY <1>1, <1>2
  <2>. QED
    BY <1>8, <2>1 DEF TurnInv
<1>12. ResultInv'
  <2>1. result' = result /\ pc' # "done"
    BY <1>1
  <2>. QED
    BY <2>1, Zenon DEF ResultInv
<1>. QED
  BY <1>9, <1>10, <1>11, <1>12

\* and neither is one that is generated.
LEMMA GenerateKeeps ==
  ASSUME RotationInv, Generate
  PROVE  SizeInv' /\ BitsInv' /\ TurnInv' /\ ResultInv'
<1>. USE DEF RotationInv
<1>1. /\ pc = "generate" /\ pc' = "rotate"
      /\ UNCHANGED <<machine, overshift, row_size, at>> /\ UNCHANGED <<options, read, turns, tier, printed, result>>
  BY DEF Generate, program
<1>2. machine \in Machines /\ GoodMachine /\ row_size \in Nat \ {0} /\ at = Start /\ turns = 0
  BY <1>1, Machine DEF OptionsInv, SizeInv
<1>3. /\ W' = W /\ Bits' = Bits /\ ImageWords' = ImageWords /\ (Tiers' <=> Tiers) /\ tier_sizes' = tier_sizes
      /\ \A m : Matrix(m)' = Matrix(m)
      /\ \A img : Apart(img)' <=> Apart(img)
      /\ \A x, p : Pixel(x, p)' = Pixel(x, p)
      /\ \A j, i : InLoops(j, i)' <=> InLoops(j, i)
      /\ \A img, t, place : BlocksAt(img, t, place)' <=> BlocksAt(img, t, place)
      /\ \A img, t : Turned(img, t)' <=> Turned(img, t)
  BY <1>1, SameMachine, SameSize DEF Tiers, Bits
<1>4. /\ NewImage(row_size) \in Matrix(row_size * W * row_size) /\ Apart(NewImage(row_size))
      /\ row_size * W * row_size \in Nat /\ DOMAIN NewImage(row_size) = ImageWords
      /\ Turned(NewImage(row_size), 0)
      /\ BlocksAt(NewImage(row_size), 0, Start) /\ (row_size # 1 => InLoops(Start.j, Start.i))
  BY <1>2, NewTurned
<1>5. PICK rows : rows = IF Tiers THEN tier_sizes[options.max_tier] ELSE row_size
  OBVIOUS
<1>6. image' = NewImage(rows) /\ copy' = IF Tiers THEN <<>> ELSE NewImage(rows)
  BY <1>5 DEF Generate, Tiers
<1>7. rows \in Nat
  <2>1. Tiers => options.max_tier \in 0..machine.MAX_TIER_ALLOW
    BY <1>1 DEF OptionsInv, GivenInv, Tiers, Reading
  <2>2. Tiers => tier_sizes[options.max_tier] \in Nat
    BY <1>2, <2>1, TierSizes
  <2>. QED
    BY <1>2, <1>5, <2>2
<1>8. PICK n, new : n = rows * W * rows /\ new = NewImage(rows)
  OBVIOUS
<1>9. /\ n \in Nat /\ new \in Matrix(n) /\ Apart(new) /\ DOMAIN new = 0..(n - 1)
      /\ \A x \in 0..(n - 1) : \A p \in Bits : new[x][p] = Pixel(x, p)
  <2>1. /\ n \in Nat /\ NewImage(rows) \in Matrix(n) /\ Apart(NewImage(rows))
        /\ \A x \in 0..(n - 1) : \A p \in Bits : NewImage(rows)[x][p] = Pixel(x, p)
    BY <1>2, <1>7, <1>8, Generated
  <2>2. n \in Nat /\ new \in Matrix(n)
    BY <1>8, <2>1
  <2>3. DOMAIN new = 0..(n - 1)
    BY <1>2, <2>2, MatrixWords
  <2>. QED
    BY <1>8, <2>1, <2>3
<1>10. image' = new /\ copy' = IF Tiers THEN <<>> ELSE new
  BY <1>6, <1>8
<1>11. BitsInv'
  <2>1. (\E m \in Nat : image \in Matrix(m) /\ Apart(image))'
    BY <1>3, <1>9, <1>10
  <2>2. (\E m \in Nat : copy \in Matrix(m) /\ Apart(copy))'
    <3>1. CASE Tiers
      BY <1>3, <1>10, <3>1, EmptyMatrix
    <3>2. CASE ~Tiers
      BY <1>3, <1>9, <1>10, <3>2
    <3>. QED
      BY <3>1, <3>2
  <2>3. (\A x \in DOMAIN image : \A p \in Bits : image[x][p] = Pixel(x, p))'
    BY <1>3, <1>9, <1>10
  <2>. QED
    BY <2>1, <2>2, <2>3 DEF BitsInv
<1>12. SizeInv'
  <2>1. ScalarInv'
    BY <1>1 DEF SizeInv, ScalarInv
  <2>2. /\ row_size' \in Nat /\ row_size' # 0 /\ at' = Start /\ Start \in [j : Nat, i : Nat] /\ pc' = "rotate"
        /\ (row_size' # 1 => InLoops(Start.j, Start.i)')
    BY <1>1, <1>2, <1>3, <1>4 DEF Start
  <2>3. Tiers' => row_size' = tier_sizes'[tier']
    BY <1>1, <1>3 DEF SizeInv
  <2>4. Tiers' => DOMAIN image' = 0..((tier_sizes[options.max_tier] * W * tier_sizes[options.max_tier])' - 1)
    BY <1>1, <1>3, <1>5, <1>8, <1>9, <1>10
  <2>5. ~Tiers' => DOMAIN image' = ImageWords' /\ DOMAIN copy' = ImageWords'
    BY <1>3, <1>4, <1>5, <1>8, <1>10
  <2>. QED
    BY <2>1, <2>2, <2>3, <2>4, <2>5 DEF SizeInv
<1>13. TurnInv'
  <2>1. turns' = 0 /\ at' = Start /\ pc' = "rotate"
    BY <1>1, <1>2
  <2>2. ~Tiers => BlocksAt(new, 0, Start)' /\ Turned(new, 0)'
    BY <1>3, <1>4, <1>5, <1>8
  <2>3. ~Tiers => image' = new /\ copy' = new
    BY <1>10
  <2>. QED
    BY <1>3, <2>1, <2>2, <2>3 DEF TurnInv
<1>14. ResultInv'
  <2>1. result' = result /\ pc' # "done"
    BY <1>1
  <2>. QED
    BY <2>1, Zenon DEF ResultInv
<1>. QED
  BY <1>11, <1>12, <1>13, <1>14

\* The step after which an image is rotated
LEMMA LastKeeps ==
  ASSUME RotationInv, RotateOnly \/ RotateMiddle, UNCHANGED program
  PROVE  SizeInv' /\ BitsInv' /\ TurnInv' /\ ResultInv'
<1>. USE DEF RotationInv
<1>1. /\ pc = "rotate" /\ pc' = "rotated"
      /\ UNCHANGED <<machine, overshift, row_size, copy>> /\ UNCHANGED <<options, read, turns, tier, printed, result>>
  BY DEF RotateOnly, RotateMiddle, program
<1>2. /\ GoodMachine /\ row_size \in Nat \ {0} /\ W \in Nat \ {0} /\ turns \in 0..2 /\ at \in [j : Nat, i : Nat]
      /\ N = W * row_size /\ N \div (2 * W) = Half /\ Half \in Nat
  BY <1>1, Held, Wide, LoopBounds DEF SizeInv, ScalarInv, N, Half
<1>3. PICK n \in Nat : image \in Matrix(n) /\ Apart(image) /\ ImageWords \subseteq 0..(n - 1)
  BY <1>1, Held
<1>4. PICK o : o = W * Half * row_size + Half
  OBVIOUS
<1>5. /\ at' = Start
      /\ row_size # 1 => Done(at.j)
      /\ image' = IF row_size % 2 = 1 THEN Written([w \in {o} |-> row_column_row(Block(w))]) ELSE image
  <2>1. CASE RotateOnly
    <3>1. N = W /\ at' = at /\ image' = Written([w \in {0} |-> row_column_row(Block(w))])
      BY <2>1 DEF RotateOnly
    <3>2. row_size = 1
      BY <1>2, <3>1
    <3>3. Half = 0
      BY <3>2 DEF Half
    <3>4. o = 0
      <4>1. \A a, b \in Nat : a * 0 * b + 0 = 0
        OBVIOUS
      <4>. QED
        BY <1>2, <1>4, <3>3, <4>1
    <3>5. at = Start
      BY <1>1, <3>2 DEF SizeInv
    <3>. QED
      BY <3>1, <3>2, <3>4, <3>5
  <2>2. CASE RotateMiddle
    <3>1. /\ Done(at.j) /\ at' = Start
          /\ image' = IF row_size % 2 = 1
                      THEN Written([w \in {W * (N \div (2 * W)) * row_size + (N \div (2 * W))} |-> row_column_row(Block(w))])
                      ELSE image
      BY <2>2 DEF RotateMiddle
    <3>. QED
      BY <1>2, <1>4, <3>1
  <2>. QED
    BY <2>1, <2>2
<1>6. /\ image' \in Matrix(n) /\ Apart(image')
      /\ \A x \in 0..(n - 1) : x \notin ImageWords => image'[x] = image[x]
  <2>1. CASE row_size % 2 = 1
    BY <1>2, <1>3, <1>4, <1>5, <2>1, MiddleKeeps
  <2>2. CASE row_size % 2 # 1
    BY <1>3, <1>5, <2>2
  <2>. QED
    BY <2>1, <2>2
<1>7. /\ W' = W /\ Bits' = Bits /\ ImageWords' = ImageWords /\ (Tiers' <=> Tiers) /\ tier_sizes' = tier_sizes
      /\ \A m : Matrix(m)' = Matrix(m)
      /\ \A img : Apart(img)' <=> Apart(img)
      /\ \A x, p : Pixel(x, p)' = Pixel(x, p)
      /\ \A img, t : Turned(img, t)' <=> Turned(img, t)
  BY <1>1, SameMachine, SameSize DEF Tiers, Bits
<1>8. DOMAIN image = 0..(n - 1) /\ DOMAIN image' = DOMAIN image
  BY <1>2, <1>3, <1>6, MatrixWords
<1>9. BitsInv'
  BY <1>1, <1>2, <1>3, <1>6, <1>7, <1>8, BitsChanged
<1>10. SizeInv'
  <2>1. ScalarInv'
    BY <1>1 DEF SizeInv, ScalarInv
  <2>2. Start \in [j : Nat, i : Nat]
    BY DEF Start
  <2>. QED
    BY <1>1, <1>5, <1>7, <1>8, <2>1, <2>2 DEF SizeInv
<1>11. ~Tiers => Turned(image', turns + 1)
  <2>1. ASSUME ~Tiers
        PROVE  Turned(image', turns + 1)
    <3>1. BlocksAt(image, turns, at)
      BY <1>1, <2>1 DEF TurnInv
    <3>2. image \in [0..(n - 1) -> Words]
      BY <1>2, <1>3, MatrixWords
    <3>. QED
      BY <1>2, <1>3, <1>4, <1>5, <3>1, <3>2, LastProgress
  <2>. QED
    BY <2>1
<1>12. TurnInv'
  <2>1. ~Tiers => Turned(copy, turns)
    BY <1>1 DEF TurnInv
  <2>. QED
    BY <1>1, <1>7, <1>11, <2>1 DEF TurnInv
<1>13. ResultInv'
  <2>1. result' = result /\ pc' # "done"
    BY <1>1
  <2>. QED
    BY <2>1, Zenon DEF ResultInv
<1>. QED
  BY <1>9, <1>10, <1>12, <1>13

\* A round of four blocks, of an image and of a tier
LEMMA FourInv ==
  ASSUME RotationInv, RotateFour, UNCHANGED program
  PROVE  SizeInv' /\ BitsInv' /\ TurnInv' /\ ResultInv'
<1>. USE DEF RotationInv
<1>1. /\ pc = "rotate" /\ pc' = "rotate" /\ N # W /\ ~Done(at.j) /\ at' = After(at.j, at.i)
      /\ UNCHANGED <<machine, overshift, row_size, copy>> /\ UNCHANGED <<options, read, turns, tier, printed, result>>
  BY DEF RotateFour, program
<1>2. /\ GoodMachine /\ row_size \in Nat \ {0, 1} /\ W \in Nat \ {0} /\ turns \in 0..2
      /\ InLoops(at.j, at.i)
  <2>1. GoodMachine /\ row_size \in Nat \ {0} /\ W \in Nat \ {0} /\ N = W * row_size
    BY <1>1, Held, Wide DEF N
  <2>2. row_size # 1
    BY <1>1, <2>1
  <2>. QED
    BY <1>1, <2>1, <2>2 DEF SizeInv, ScalarInv
<1>3. PICK n \in Nat : image \in Matrix(n) /\ Apart(image) /\ ImageWords \subseteq 0..(n - 1)
  BY <1>1, Held
<1>4. /\ image' \in Matrix(n) /\ Apart(image')
      /\ \A x \in 0..(n - 1) : x \notin ImageWords => image'[x] = image[x]
  BY <1>2, <1>3, FourKeep
<1>5. /\ W' = W /\ Bits' = Bits /\ ImageWords' = ImageWords /\ (Tiers' <=> Tiers) /\ tier_sizes' = tier_sizes
      /\ \A m : Matrix(m)' = Matrix(m)
      /\ \A img : Apart(img)' <=> Apart(img)
      /\ \A x, p : Pixel(x, p)' = Pixel(x, p)
      /\ \A j, i : InLoops(j, i)' <=> InLoops(j, i)
      /\ \A j : Done(j)' <=> Done(j)
      /\ \A img, t, place : BlocksAt(img, t, place)' <=> BlocksAt(img, t, place)
      /\ \A img, t : Turned(img, t)' <=> Turned(img, t)
  BY <1>1, SameMachine, SameSize DEF Tiers, Bits
<1>6. DOMAIN image = 0..(n - 1) /\ DOMAIN image' = DOMAIN image
  BY <1>2, <1>3, <1>4, MatrixWords
<1>7. BitsInv'
  BY <1>1, <1>2, <1>3, <1>4, <1>5, <1>6, BitsChanged
<1>8. at' \in [j : Nat, i : Nat] /\ (Done(at'.j) \/ InLoops(at'.j, at'.i))
  <2>1. at.j \in Nat /\ at.i \in Nat
    BY <1>2 DEF InLoops
  <2>2. at' \in [j : Nat, i : Nat]
    BY <1>1, <2>1 DEF After
  <2>3. \A j, i : InLoops(j, i) => Done(After(j, i).j) \/ InLoops(After(j, i).j, After(j, i).i)
    BY <1>2, RoundsPartition
  <2>. QED
    BY <1>1, <1>2, <2>2, <2>3
<1>9. SizeInv'
  <2>1. ScalarInv'
    BY <1>1 DEF SizeInv, ScalarInv
  <2>2. row_size' # 1 /\ (Done(at.j) \/ InLoops(at.j, at.i))'
    BY <1>1, <1>2, <1>5, <1>8
  <2>. QED
    BY <1>1, <1>5, <1>6, <1>8, <2>1, <2>2 DEF SizeInv
<1>10. ~Tiers => BlocksAt(image', turns, at')
  <2>1. ASSUME ~Tiers
        PROVE  BlocksAt(image', turns, at')
    <3>1. BlocksAt(image, turns, at)
      BY <1>1, <2>1 DEF TurnInv
    <3>2. image \in [0..(n - 1) -> Words]
      BY <1>2, <1>3, MatrixWords
    <3>. QED
      BY <1>2, <1>3, <3>1, <3>2, FourProgress
  <2>. QED
    BY <2>1
<1>11. TurnInv'
  <2>1. ~Tiers => Turned(copy, turns)
    BY <1>1 DEF TurnInv
  <2>. QED
    BY <1>1, <1>5, <1>10, <2>1 DEF TurnInv
<1>12. ResultInv'
  <2>1. result' = result /\ pc' # "done"
    BY <1>1
  <2>. QED
    BY <2>1, Zenon DEF ResultInv
<1>. QED
  BY <1>7, <1>9, <1>11, <1>12

\* A round of the tester's own rotation
LEMMA StockKeeps ==
  ASSUME RotationInv, Stock, UNCHANGED program
  PROVE  SizeInv' /\ BitsInv' /\ TurnInv' /\ ResultInv'
<1>. USE DEF RotationInv
<1>1. /\ pc = "stock" /\ pc' \in {"stock", "compare"}
      /\ UNCHANGED <<machine, overshift, row_size, image>> /\ UNCHANGED <<options, read, turns, tier, printed, result>>
  BY DEF Stock, program
<1>2. ~Tiers
  BY <1>1 DEF TierInv, Tiers, Reading
<1>3. PICK n : n = row_size * W * row_size
  OBVIOUS
<1>4. /\ GoodMachine /\ row_size \in Nat \ {0} /\ n \in Nat /\ ImageWords = 0..(n - 1)
      /\ image \in Matrix(n) /\ copy \in Matrix(n) /\ Apart(copy)
  BY <1>1, <1>2, <1>3, HeldTwice
<1>5. /\ turns \in 0..2 /\ at \in [j : Nat, i : Nat]
      /\ at.j \in 0..((N \div 2) - 1) /\ at.i \in 0..((N \div 2) - 1) /\ DOMAIN image = ImageWords
  BY <1>1, <1>2 DEF SizeInv, ScalarInv
<1>6. copy \in [ImageWords -> Words]
  BY <1>4, MatrixWords
<1>7. copy' \in Matrix(n) /\ Apart(copy')
  BY <1>3, <1>4, <1>5, RingKeeps
<1>8. RingsAt(copy, turns, at)
  BY <1>1, <1>2 DEF TurnInv
<1>9. /\ at' \in [j : Nat, i : Nat]
      /\ pc' = "stock" => at'.j \in 0..((N \div 2) - 1) /\ at'.i \in 0..((N \div 2) - 1) /\ RingsAt(copy', turns, at')
      /\ pc' = "compare" => Turned(copy', turns + 1)
  BY <1>4, <1>5, <1>6, <1>8, RingProgress
<1>10. /\ W' = W /\ N' = N /\ Bits' = Bits /\ ImageWords' = ImageWords /\ (Tiers' <=> Tiers)
       /\ \A m : Matrix(m)' = Matrix(m)
       /\ \A img : Apart(img)' <=> Apart(img)
       /\ \A x, p : Pixel(x, p)' = Pixel(x, p)
       /\ \A img, t, place : RingsAt(img, t, place)' <=> RingsAt(img, t, place)
       /\ \A img, t : Turned(img, t)' <=> Turned(img, t)
  BY <1>1, SameMachine, SameSize DEF Tiers, Bits
<1>11. DOMAIN copy' = ImageWords
  BY <1>4, <1>7, MatrixWords
<1>12. BitsInv'
  <2>1. (\E m \in Nat : image \in Matrix(m) /\ Apart(image))'
    BY <1>1, <1>10 DEF BitsInv
  <2>2. (\E m \in Nat : copy \in Matrix(m) /\ Apart(copy))'
    BY <1>4, <1>7, <1>10
  <2>3. (\A x \in DOMAIN image : x >= W * row_size * row_size => \A p \in Bits : image[x][p] = Pixel(x, p))'
    BY <1>1, <1>10 DEF BitsInv
  <2>. QED
    BY <2>1, <2>2, <2>3 DEF BitsInv
<1>13. SizeInv'
  <2>1. ScalarInv'
    BY <1>1 DEF SizeInv, ScalarInv
  <2>. QED
    BY <1>1, <1>2, <1>4, <1>5, <1>9, <1>10, <1>11, <2>1 DEF SizeInv
<1>14. TurnInv'
  <2>1. Turned(image, turns + 1)
    BY <1>1, <1>2 DEF TurnInv
  <2>. QED
    BY <1>1, <1>9, <1>10, <2>1 DEF TurnInv
<1>15. ResultInv'
  <2>1. result' = result /\ pc' # "done"
    BY <1>1
  <2>. QED
    BY <2>1, Zenon DEF ResultInv
<1>. QED
  BY <1>12, <1>13, <1>14, <1>15

\* The tester begins to rotate the image that is not turned yet.
LEMMA BeginStockKeeps ==
  ASSUME RotationInv, BeginStock
  PROVE  SizeInv' /\ BitsInv' /\ TurnInv' /\ ResultInv'
<1>. USE DEF RotationInv
<1>1. /\ pc = "rotated" /\ pc' = "stock" /\ ~Tiers
      /\ UNCHANGED <<machine, overshift, row_size, image, copy, at>>
      /\ UNCHANGED <<options, read, turns, tier, printed, result>>
  BY DEF BeginStock, program, Tiers
<1>2. /\ GoodMachine /\ row_size \in Nat \ {0} /\ at = Start /\ Start \in [j : Nat, i : Nat]
      /\ DOMAIN image = ImageWords /\ DOMAIN copy = ImageWords
  BY <1>1, Held DEF SizeInv, Start
<1>3. Turned(image, turns + 1) /\ Turned(copy, turns)
  BY <1>1 DEF TurnInv
<1>4. RingsAt(copy, turns, Start) /\ (N \div 2) \in Nat \ {0}
  BY <1>2, <1>3, RingsBegin
<1>5. /\ N' = N /\ ImageWords' = ImageWords /\ (Tiers' <=> Tiers)
      /\ \A img, t, place : RingsAt(img, t, place)' <=> RingsAt(img, t, place)
      /\ \A img, t : Turned(img, t)' <=> Turned(img, t)
  BY <1>1, SameSize DEF Tiers
<1>6. BitsInv'
  <2>1. row_size' >= row_size /\ row_size' \in Nat
    BY <1>1, <1>2
  <2>. QED
    BY <1>1, <1>2, <2>1, BitsKept
<1>7. SizeInv'
  <2>1. ScalarInv'
    BY <1>1 DEF SizeInv, ScalarInv
  <2>2. Start.j \in 0..((N \div 2) - 1) /\ Start.i \in 0..((N \div 2) - 1)
    BY <1>4 DEF Start
  <2>. QED
    BY <1>1, <1>2, <1>5, <2>1, <2>2 DEF SizeInv
<1>8. TurnInv'
  BY <1>1, <1>2, <1>3, <1>4, <1>5 DEF TurnInv
<1>9. ResultInv'
  <2>1. result' = result /\ pc' # "done"
    BY <1>1
  <2>. QED
    BY <2>1, Zenon DEF ResultInv
<1>. QED
  BY <1>6, <1>7, <1>8, <1>9

\* An image that was turned once is compared, and they agree.
LEMMA CompareOnceKeeps ==
  ASSUME RotationInv, CompareOnce
  PROVE  SizeInv' /\ BitsInv' /\ TurnInv' /\ ResultInv'
<1>. USE DEF RotationInv
<1>1. /\ pc = "compare" /\ pc' = "done" /\ at' = Start /\ result' = (image = copy)
      /\ UNCHANGED <<machine, overshift, row_size, image, copy>>
      /\ UNCHANGED <<options, read, turns, tier, printed>>
  BY DEF CompareOnce, Return
<1>2. GoodMachine /\ row_size \in Nat /\ Start \in [j : Nat, i : Nat]
  BY Machine DEF OptionsInv, SizeInv, Start
<1>3. BitsInv'
  <2>1. row_size' >= row_size /\ row_size' \in Nat
    BY <1>1, <1>2
  <2>. QED
    BY <1>1, <1>2, <2>1, BitsKept
<1>4. SizeInv'
  BY <1>1, <1>2 DEF SizeInv, ScalarInv
<1>5. TurnInv'
  BY <1>1 DEF TurnInv
<1>6. ResultInv'
  <2>1. image = copy
    BY <1>1, SameImages
  <2>2. result' = TRUE
    BY <1>1, <2>1, Zenon
  <2>. QED
    BY <2>2, Zenon DEF ResultInv
<1>. QED
  BY <1>3, <1>4, <1>5, <1>6

\* run_correctness_tester() goes on, with the same image or a larger one.
LEMMA CompareKeeps ==
  ASSUME RotationInv, Compare
  PROVE  SizeInv' /\ BitsInv' /\ TurnInv' /\ ResultInv'
<1>. USE DEF RotationInv
<1>1. /\ pc = "compare" /\ at' = Start /\ tier' = tier + 1
      /\ UNCHANGED <<machine, overshift, image, copy>> /\ UNCHANGED <<options, read, printed>>
      /\ \/ turns < 2 /\ turns' = turns + 1 /\ pc' = "rotate" /\ row_size' = row_size
         \/ turns' = 0 /\ pc' = "generate" /\ row_size' = Larger
         \/ turns' = 0 /\ pc' = "done" /\ row_size' = row_size
      /\ pc' = "done" => result' = TRUE
      /\ result' = result \/ result' = TRUE
  <2>1. image = copy /\ pc = "compare"
    BY SameImages DEF Compare
  <2>. QED
    BY <2>1, Zenon DEF Compare
<1>2. /\ GoodMachine /\ row_size \in Nat \ {0} /\ Start \in [j : Nat, i : Nat] /\ ~Tiers /\ (Tiers' <=> Tiers)
      /\ turns \in 0..2 /\ tier \in Int /\ tier >= -1 /\ Larger \in Nat \ {0} /\ Larger >= row_size
      /\ Turned(image, turns + 1) /\ Turned(copy, turns + 1)
      /\ DOMAIN image = ImageWords /\ DOMAIN copy = ImageWords
  <2>1. ~Tiers /\ (Tiers' <=> Tiers)
    BY <1>1, SameImages DEF Tiers
  <2>2. GoodMachine /\ row_size \in Nat \ {0} /\ Start \in [j : Nat, i : Nat]
    BY <1>1, Machine DEF OptionsInv, SizeInv, Start
  <2>3. Larger \in Nat \ {0} /\ Larger >= row_size
    BY <2>2, LargerOrEqual
  <2>4. turns \in 0..2 /\ tier \in Int /\ tier >= -1 /\ DOMAIN image = ImageWords /\ DOMAIN copy = ImageWords
    BY <1>1, <2>1 DEF SizeInv, ScalarInv, TierInv
  <2>5. Turned(image, turns + 1) /\ Turned(copy, turns + 1)
    BY <1>1, <2>1 DEF TurnInv
  <2>. QED
    BY <2>1, <2>2, <2>3, <2>4, <2>5
<1>3. BitsInv'
  <2>1. row_size' >= row_size /\ row_size' \in Nat
    BY <1>1, <1>2
  <2>. QED
    BY <1>1, <1>2, <2>1, BitsKept
<1>4. ScalarInv'
  BY <1>1, <1>2 DEF SizeInv, ScalarInv
<1>5. CASE pc' = "rotate"
  <2>1. turns' = turns + 1 /\ row_size' = row_size
    BY <1>1, <1>5
  <2>2. /\ ImageWords' = ImageWords
        /\ \A j, i : InLoops(j, i)' <=> InLoops(j, i)
        /\ \A img, t, place : BlocksAt(img, t, place)' <=> BlocksAt(img, t, place)
        /\ \A img, t : Turned(img, t)' <=> Turned(img, t)
    BY <1>1, <2>1, SameSize
  <2>3. BlocksAt(image, turns + 1, Start) /\ (row_size # 1 => InLoops(Start.j, Start.i))
    BY <1>2, BlocksBegin
  <2>4. SizeInv'
    BY <1>1, <1>2, <1>4, <1>5, <2>1, <2>2, <2>3 DEF SizeInv
  <2>5. TurnInv'
    BY <1>1, <1>2, <1>5, <2>1, <2>2, <2>3 DEF TurnInv
  <2>6. ResultInv'
    <3>1. result' \in BOOLEAN
      BY <1>1, Zenon DEF ResultInv
    <3>. QED
      BY <1>5, <3>1 DEF ResultInv
  <2>. QED
    BY <1>3, <2>4, <2>5, <2>6
<1>6. CASE pc' = "generate"
  <2>1. turns' = 0 /\ row_size' \in Nat \ {0}
    BY <1>1, <1>2, <1>6
  <2>2. SizeInv'
    BY <1>1, <1>2, <1>4, <1>6, <2>1 DEF SizeInv
  <2>3. TurnInv'
    BY <1>6 DEF TurnInv
  <2>4. ResultInv'
    <3>1. result' \in BOOLEAN
      BY <1>1, Zenon DEF ResultInv
    <3>. QED
      BY <1>6, <3>1 DEF ResultInv
  <2>. QED
    BY <1>3, <2>2, <2>3, <2>4
<1>7. CASE pc' = "done"
  <2>1. row_size' = row_size
    BY <1>1, <1>7
  <2>2. SizeInv'
    BY <1>1, <1>2, <1>4, <1>7, <2>1 DEF SizeInv
  <2>3. TurnInv'
    BY <1>7 DEF TurnInv
  <2>4. ResultInv'
    <3>1. result' = TRUE
      BY <1>1, <1>7, Zenon
    <3>. QED
      BY <3>1, Zenon DEF ResultInv
  <2>. QED
    BY <1>3, <2>2, <2>3, <2>4
<1>. QED
  BY <1>1, <1>5, <1>6, <1>7

\* The first round is within the loops.
LEMMA NewLoops == GoodMachine /\ row_size \in Nat \ {0} => (row_size # 1 => InLoops(Start.j, Start.i))
  BY NewTurned

\* A tier that passes leaves the matrix for a larger image in it.
LEMMA TierPassesKeeps ==
  ASSUME RotationInv, TierPasses
  PROVE  SizeInv' /\ BitsInv' /\ TurnInv' /\ ResultInv'
<1>. USE DEF RotationInv
<1>1. /\ pc = "rotated" /\ Tiers
      /\ UNCHANGED <<machine, overshift, image, copy, at>> /\ UNCHANGED <<options, read, turns, result>>
      /\ \/ tier < options.max_tier /\ tier' = tier + 1 /\ row_size' = tier_sizes[tier + 1] /\ pc' = "rotate"
         \/ tier' = (tier + 1) - 1 /\ pc' = "done" /\ row_size' = row_size
  BY Zenon DEF TierPasses, Tiers
<1>2. /\ machine \in Machines /\ GoodMachine /\ row_size \in Nat \ {0} /\ at = Start /\ Start \in [j : Nat, i : Nat]
      /\ (Tiers' <=> Tiers) /\ row_size = tier_sizes[tier]
      /\ tier \in 0..options.max_tier /\ options.max_tier \in 0..machine.MAX_TIER_ALLOW
      /\ machine.MAX_TIER_ALLOW \in Nat
  <2>1. GoodMachine /\ row_size \in Nat \ {0} /\ machine \in Machines
    BY <1>1, Held DEF OptionsInv
  <2>2. machine.MAX_TIER_ALLOW \in Nat /\ (Tiers' <=> Tiers) /\ Start \in [j : Nat, i : Nat]
    BY <1>1, <2>1, RotationAssumption DEF Tiers, Start
  <2>3. at = Start /\ row_size = tier_sizes[tier]
    BY <1>1 DEF SizeInv
  <2>4. tier \in 0..options.max_tier
    BY <1>1 DEF TierInv, Tiers, Reading
  <2>5. options.max_tier \in 0..machine.MAX_TIER_ALLOW
    BY <1>1 DEF OptionsInv, GivenInv, Tiers, Reading
  <2>. QED
    BY <2>1, <2>2, <2>3, <2>4, <2>5
<1>3. tier' \in Nat /\ tier' >= -1
  BY <1>1, <1>2
<1>4. row_size' \in Nat \ {0} /\ row_size' >= row_size /\ (pc' = "rotate" => row_size' = tier_sizes[tier'])
  <2>1. CASE pc' = "rotate"
    <3>1. tier < options.max_tier /\ tier' = tier + 1 /\ row_size' = tier_sizes[tier + 1]
      BY <1>1, <2>1
    <3>2. tier \in 0..machine.MAX_TIER_ALLOW /\ tier + 1 \in 0..machine.MAX_TIER_ALLOW /\ tier <= tier + 1
      BY <1>2, <3>1
    <3>3. tier_sizes[tier + 1] \in Nat \ {0} /\ tier_sizes[tier] <= tier_sizes[tier + 1]
      BY <1>2, <3>2, TierSizes
    <3>. QED
      BY <1>2, <3>1, <3>3
  <2>2. CASE pc' = "done"
    <3>1. row_size' = row_size
      BY <1>1, <2>2
    <3>. QED
      BY <1>2, <2>2, <3>1
  <2>. QED
    BY <1>1, <2>1, <2>2
<1>5. BitsInv'
  <2>1. row_size \in Nat /\ row_size' \in Nat
    BY <1>2, <1>4
  <2>. QED
    BY <1>1, <1>2, <1>4, <2>1, BitsKept
<1>6. ScalarInv'
  BY <1>1, <1>3 DEF SizeInv, ScalarInv
<1>7. pc' = "rotate" => IF row_size' = 1 THEN at' = Start ELSE InLoops(at.j, at.i)'
  <2>1. (GoodMachine /\ row_size \in Nat \ {0} => (row_size # 1 => InLoops(Start.j, Start.i)))'
    BY NewLoops, PTL
  <2>2. GoodMachine'
    BY <1>1, <1>2, SameMachine
  <2>3. at' = Start
    BY <1>1, <1>2
  <2>. QED
    BY <1>4, <2>1, <2>2, <2>3
<1>8. SizeInv'
  <2>1. W' = W /\ tier_sizes' = tier_sizes
    BY <1>1, SameMachine
  <2>. QED
    BY <1>1, <1>2, <1>4, <1>6, <1>7, <2>1 DEF SizeInv
<1>9. TurnInv'
  BY <1>1, <1>2 DEF TurnInv
<1>10. ResultInv'
  BY <1>1, <1>2, Zenon DEF ResultInv
<1>. QED
  BY <1>5, <1>8, <1>9, <1>10

\* Every step keeps all of it.
LEMMA RotationStep ==
  ASSUME RotationInv, [Next]_vars
  PROVE  RotationInv'
<1>1. OptionsInv' /\ GivenInv' /\ TierInv' /\ WideInv'
  BY OptionsStep, TierStep, WideStep DEF RotationInv
<1>2. SizeInv' /\ BitsInv' /\ TurnInv' /\ ResultInv'
  <2>1. CASE Argument \/ Help \/ NoFile \/ Abort \/ TierFails \/ Alarm
    BY <2>1, QuietKeeps
  <2>2. CASE Execute
    BY <2>2, ExecuteKeeps
  <2>3. CASE \E n \in machine.files : ReadFile(n)
    <3>1. PICK n \in machine.files : ReadFile(n)
      BY <2>3
    <3>. QED
      BY <3>1, ReadFileKeeps
  <2>4. CASE Generate
    BY <2>4, GenerateKeeps
  <2>5. CASE RotateImage
    <3>1. UNCHANGED program
      BY <2>5 DEF RotateImage
    <3>2. CASE RotateOnly \/ RotateMiddle
      BY <3>1, <3>2, LastKeeps
    <3>3. CASE RotateFour
      BY <3>1, <3>3, FourInv
    <3>4. CASE Stock
      BY <3>1, <3>4, StockKeeps
    <3>. QED
      BY <2>5, <3>2, <3>3, <3>4 DEF RotateImage, Rotate
  <2>6. CASE BeginStock
    BY <2>6, BeginStockKeeps
  <2>7. CASE CompareOnce
    BY <2>7, CompareOnceKeeps
  <2>8. CASE Compare
    BY <2>8, CompareKeeps
  <2>9. CASE TierPasses
    BY <2>9, TierPassesKeeps
  <2>10. CASE UNCHANGED vars
    BY <2>10, StutterKeeps
  <2>. QED
    BY <2>1, <2>2, <2>3, <2>4, <2>5, <2>6, <2>7, <2>8, <2>9, <2>10 DEF Next, Tests
<1>. QED
  BY <1>1, <1>2 DEF RotationInv

\* The invariant that the properties of the rotations rest on
THEOREM RotationInvariant == Spec => []RotationInv
<1>1. Init => RotationInv
  BY OptionsInit, WideInit, RotationInit DEF RotationInv
<1>2. RotationInv /\ [Next]_vars => RotationInv'
  BY RotationStep
<1>. QED
  BY <1>1, <1>2, PTL DEF Spec

-----------------------------------------------------------------------------
(* What follows from the invariant.                                        *)

\* A matrix whose bits are apart has as many bits as it generated.
LEMMA AllBits ==
  ASSUME GoodMachine, NEW img, \E n \in Nat : img \in Matrix(n) /\ Apart(img)
  PROVE  /\ \A x \in DOMAIN img : \A p \in Bits : img[x][p] \in 0..(Cardinality(DOMAIN img) * W - 1)
         /\ Cardinality({img[x][p] : x \in DOMAIN img, p \in Bits}) = Cardinality(DOMAIN img) * W
<1>1. PICK n \in Nat : img \in Matrix(n) /\ Apart(img)
  OBVIOUS
<1>2. /\ Cardinality(DOMAIN img) = n
      /\ Cardinality({img[x][p] : x \in DOMAIN img, p \in Bits}) = Cardinality(DOMAIN img) * W
  BY <1>1, Counted
<1>3. \A x \in DOMAIN img : \A p \in Bits : img[x][p] \in 0..(n * W - 1)
  BY <1>1 DEF Matrix, Bits_of
<1>. QED
  BY <1>2, <1>3

\* The types, and that no bit is lost
LEMMA TypesHold ==
  ASSUME RotationInv
  PROVE  TypeOK /\ NothingLost
<1>1. machine \in Machines /\ GoodMachine
  BY Machine DEF RotationInv, OptionsInv
<1>2. /\ \A x \in DOMAIN image : \A p \in Bits : image[x][p] \in 0..(Cardinality(DOMAIN image) * W - 1)
      /\ Cardinality({image[x][p] : x \in DOMAIN image, p \in Bits}) = Cardinality(DOMAIN image) * W
  <2>1. \E n \in Nat : image \in Matrix(n) /\ Apart(image)
    BY DEF RotationInv, BitsInv
  <2>. QED
    BY <1>1, <2>1, AllBits
<1>3. /\ \A x \in DOMAIN copy : \A p \in Bits : copy[x][p] \in 0..(Cardinality(DOMAIN copy) * W - 1)
      /\ Cardinality({copy[x][p] : x \in DOMAIN copy, p \in Bits}) = Cardinality(DOMAIN copy) * W
  <2>1. \E n \in Nat : copy \in Matrix(n) /\ Apart(copy)
    BY DEF RotationInv, BitsInv
  <2>. QED
    BY <1>1, <2>1, AllBits
<1>4. /\ overshift \in {"same", "zero"} /\ row_size \in Nat
      /\ at.j \in Nat /\ at.i \in Nat
      /\ read \in 0..MaxArguments /\ turns \in 0..2
      /\ pc \in {"options", "help", "file", "generate", "rotate", "rotated", "stock", "compare", "done", "aborted", "exited"}
  BY DEF RotationInv, SizeInv, ScalarInv
<1>5. tier \in Nat \cup {-1}
  BY DEF RotationInv, SizeInv, ScalarInv, TierInv
<1>6. DOMAIN options = DOMAIN NotSet /\ options.test_type \in Types \cup {"not set"}
  BY DEF RotationInv, OptionsInv
<1>7. result \in BOOLEAN
  BY DEF RotationInv, ResultInv
<1>8. \A x \in DOMAIN image : x >= W * row_size * row_size => \A p \in Bits : image[x][p] = Pixel(x, p)
  BY DEF RotationInv, BitsInv
<1>9. TypeOK
  BY <1>1, <1>2, <1>3, <1>4, <1>5, <1>6, <1>7, Zenon DEF TypeOK
<1>10. ASSUME NEW img \in {image, copy}
       PROVE  Cardinality({img[x][p] : x \in DOMAIN img, p \in Bits}) = Cardinality(DOMAIN img) * W
  <2>1. CASE img = image
    BY <1>2, <2>1
  <2>2. CASE img = copy
    BY <1>3, <2>2
  <2>. QED
    BY <2>1, <2>2
<1>11. NothingLost
  BY <1>8, <1>10 DEF NothingLost
<1>. QED
  BY <1>9, <1>11

\* Each block of the image is one whose round is done, or one whose round is not.
LEMMA BlocksTurn ==
  ASSUME GoodMachine, row_size \in Nat \ {0}, NEW t \in 0..2, NEW img, NEW place, BlocksAt(img, t, place),
         NEW r \in 0..(row_size - 1), NEW c \in 0..(row_size - 1), NEW words,
         words = {((W * r * row_size) + c) + k * row_size : k \in Bits}
  PROVE  TurnedAt(img, t, words) \/ TurnedAt(img, t + 1, words)
<1>1. W \in Nat \ {0}
  BY Wide
<1>2. ASSUME NEW j, NEW i, InLoops(j, i), NEW q \in Quarters, r = BlockRow(q, j, i), c = BlockCol(q, j, i)
      PROVE  TurnedAt(img, t, words) \/ TurnedAt(img, t + 1, words)
  <2>. DEFINE u == IF Earlier(place, j, i) THEN t + 1 ELSE t
  <2>1. \A k, p \in Bits : img[Word(q, j, i, k)][p] = Origin(u, Word(q, j, i, k), p)
    BY <1>2 DEF BlocksAt
  <2>2. ASSUME NEW x \in words
        PROVE  \E k \in Bits : x = Word(q, j, i, k)
    <3>1. PICK k \in Bits : x = ((W * r * row_size) + c) + k * row_size
      BY <2>2
    <3>2. Word(q, j, i, k) = (BlockRow(q, j, i) * W + k) * row_size + BlockCol(q, j, i)
      BY <1>1, <1>2, Coordinates DEF Quarters
    <3>3. k \in Int
      BY DEF Bits
    <3>4. (r * W + k) * row_size + c = ((W * r * row_size) + c) + k * row_size
      BY <1>1, <3>3
    <3>. QED
      BY <1>2, <3>1, <3>2, <3>4
  <2>3. TurnedAt(img, u, words)
    <3>1. ASSUME NEW x \in words, NEW p \in Bits
          PROVE  img[x][p] = Origin(u, x, p)
      <4>1. PICK k \in Bits : x = Word(q, j, i, k)
        BY <2>2
      <4>. HIDE DEF u
      <4>. QED
        BY <2>1, <4>1
    <3>. HIDE DEF u
    <3>. QED
      BY <3>1 DEF TurnedAt
  <2>4. u = t \/ u = t + 1
    OBVIOUS
  <2>. HIDE DEF u
  <2>. QED
    BY <2>3, <2>4
<1>3. ASSUME row_size % 2 = 1, r = Half, c = Half
      PROVE  TurnedAt(img, t, words)
  <2>1. \A k, p \in Bits : img[MiddleWord(k)][p] = Origin(t, MiddleWord(k), p)
    BY <1>3 DEF BlocksAt
  <2>2. \A x \in words : \E k \in Bits : x = MiddleWord(k)
    BY <1>3 DEF MiddleWord
  <2>. QED
    BY <2>1, <2>2 DEF TurnedAt
<1>. QED
  BY <1>1, <1>2, <1>3, BlockFound DEF Quarters

\* The rotation in place turns every block once, and no bit is lost, doubled, shifted
\* in or made of two, for every size of an image, every width of a word and every
\* number of tiers, and whatever a shift by the whole width gives.
THEOREM RotatesInPlace == Spec => []InPlace
<1>1. ASSUME RotationInv
      PROVE  EachOnce
  <2>. SUFFICES ASSUME pc = "rotate", options.test_type # "tiers",
                       NEW r \in 0..(row_size - 1), NEW c \in 0..(row_size - 1),
                       NEW words, words = {((W * r * row_size) + c) + k * row_size : k \in Bits}
                PROVE  TurnedAt(image, turns, words) \/ TurnedAt(image, turns + 1, words)
    BY DEF EachOnce
  <2>1. GoodMachine /\ row_size \in Nat \ {0}
    BY <1>1, Held
  <2>2. turns \in 0..2 /\ BlocksAt(image, turns, at)
    BY <1>1 DEF RotationInv, SizeInv, ScalarInv, TurnInv, Tiers
  <2>. QED
    BY <2>1, <2>2, BlocksTurn
<1>2. RotationInv => InPlace
  BY <1>1, TypesHold DEF InPlace
<1>. QED
  BY <1>2, RotationInvariant, PTL

\* Both ways to rotate an image agree with what a turn to the right is, so that no
\* test of images fails that got its image, and the tier that is reported is the
\* last that passed: whatever is read, generated and timed, in any order.
THEOREM TestsAreTrue == Spec => []TestsTell
<1>1. ASSUME RotationInv
      PROVE  TurnsRight
  <2>1. ASSUME pc = "compare"
        PROVE  TurnedAt(image, turns + 1, DOMAIN image) /\ TurnedAt(copy, turns + 1, DOMAIN copy)
    <3>1. ~Tiers
      BY <1>1, <2>1, SameImages
    <3>2. Turned(image, turns + 1) /\ Turned(copy, turns + 1)
      BY <1>1, <2>1, <3>1 DEF RotationInv, TurnInv
    <3>3. DOMAIN image = ImageWords /\ DOMAIN copy = ImageWords
      BY <1>1, <2>1, <3>1 DEF RotationInv, SizeInv
    <3>. QED
      BY <3>2, <3>3 DEF Turned
  <2>2. pc = "done" /\ options.test_type # "tiers" /\ image # <<>> => result
    BY <1>1, Zenon DEF RotationInv, ResultInv, Tiers
  <2>. QED
    BY <2>1, <2>2, Zenon DEF TurnsRight
<1>2. RotationInv => TierReported
  BY DEF RotationInv, TierInv, TierReported, Reading
<1>3. RotationInv => TestsTell
  BY <1>1, <1>2 DEF TestsTell
<1>. QED
  BY <1>3, RotationInvariant, PTL
=============================================================================
