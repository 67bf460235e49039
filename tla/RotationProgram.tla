--------------------------- MODULE RotationProgram --------------------------
(***************************************************************************)
(* The rotation program: main() reads its options and runs one of the      *)
(* testers of tester.c, which rotate images with the two functions of      *)
(* module Rotation.  What is in a file, whether memory is left, and how    *)
(* long a rotation takes is for the environment to say.  Assertions are on *)
(* in this build: a failed one ends the program.                           *)
(***************************************************************************)
EXTENDS Rotation, Sequences

CONSTANTS
  Machines,       \* the machines, each with the sizes of its tests
  MaxArguments    \* bound: the options on a command line

ASSUME RotationAssumption ==
  /\ MaxArguments \in Nat
  /\ \A m \in Machines :
       /\ m.word \in Widths \ {1} /\ m.byte \in 1..m.word /\ m.word % (2 * m.byte) = 0
       /\ m.START_SIZE \in Nat \ {0} /\ m.end_n \in Nat
       /\ m.MAX_TIER_ALLOW \in Nat /\ m.DEFAULT_MAX_TIER \in 0..m.MAX_TIER_ALLOW
       /\ m.dimensions \subseteq Nat /\ m.files \subseteq Nat \ {0}

VARIABLES
  options,        \* test_type and the options of main()
  read,           \* the arguments that are read
  turns,          \* the rotations of this size that were compared
  tier,           \* the counter of the testers, -1 for 2^32 - 1
  printed,        \* the lines PASS and FAIL that run_tester_tiers() has printed
  result          \* what the tester returned, if it is a bool

program == <<options, read, turns, tier, printed, result>>
vars == <<machine, overshift, row_size, image, copy, at, pc, program>>

-----------------------------------------------------------------------------
(* The options.                                                            *)

\* A pointer is 0 for NULL, 1 for a name; UNUSED is -1 as every type.
NULL   == 0
UNUSED == -1
NotSet == [test_type |-> "not set", fname |-> NULL, output_fname |-> NULL, N |-> 0, max_tier |-> -1]

\* The options that a test of this type does not take
Unused(type) ==
  CASE type = "file"        -> {"N", "max_tier"}
    [] type = "generated"   -> {"fname", "output_fname", "max_tier"}
    [] type = "correctness" -> {"fname", "output_fname", "N", "max_tier"}
    [] type = "tiers"       -> {"fname", "output_fname", "N"}

Types == {"file", "generated", "correctness", "tiers"}

Init ==
  /\ machine \in Machines /\ overshift \in {"same", "zero"}
  /\ options = NotSet /\ read = 0
  /\ row_size = 0 /\ image = <<>> /\ copy = <<>>
  /\ at = Start /\ turns = 0 /\ tier = 0 /\ printed = <<>> /\ result = FALSE
  /\ pc = "options"

Testing == <<machine, overshift, row_size, image, copy, at, turns, tier, printed, result>>

\* usage, and the end
Help ==
  /\ pc = "options" /\ pc' = "help"
  /\ UNCHANGED <<Testing, options, read>>

NextArgument ==
  /\ pc = "options" /\ read < MaxArguments /\ read' = read + 1
  /\ UNCHANGED <<Testing, pc>>

\* Mutant: the last test type counts.
Fresh_LastType(f) == f = "test_type" \/ options[f] = NotSet[f]
\* An option that was given, or that is not used, must not be given.
Fresh(f) == options[f] = NotSet[f]

\* -t
TestType(type) ==
  /\ NextArgument /\ Fresh("test_type")
  /\ options' = [f \in DOMAIN options |->
                   IF f = "test_type" THEN type ELSE IF f \in Unused(type) THEN UNUSED ELSE options[f]]

\* -f and -o
Name(f) == NextArgument /\ Fresh(f) /\ options' = [options EXCEPT ![f] = 1]

\* -M
MaxTiers(m) ==
  /\ NextArgument /\ Fresh("max_tier") /\ m <= machine.MAX_TIER_ALLOW
  /\ options' = [options EXCEPT !.max_tier = m]

\* -N, in bits
Dimension(n) ==
  /\ NextArgument /\ Fresh("N") /\ n >= W /\ n % W = 0
  /\ options' = [options EXCEPT !.N = n]

\* An argument that is none of those above, or not now, is malformed input, and
\* Help comes next; it may come with any argument.
Argument ==
  \/ \E type \in Types : TestType(type)
  \/ \E f \in {"fname", "output_fname"} : Name(f)
  \/ \E m \in 0..machine.MAX_TIER_ALLOW + 1 : MaxTiers(m)
  \/ \E n \in machine.dimensions : Dimension(n)

HighestTier == IF options.max_tier = -1 THEN machine.DEFAULT_MAX_TIER ELSE options.max_tier

\* The words of a row in each tier: ceil(N * increasing_ratio_of_n / 64) more
tier_sizes ==
  LET size[t \in 0..machine.MAX_TIER_ALLOW] ==
        IF t = 0 THEN machine.START_SIZE ELSE ((size[t - 1] * 11) + 9) \div 10
  IN size

\* All arguments are read, and a test begins.  What it does not look at is dropped.
Execute ==
  /\ pc = "options" /\ options.test_type # "not set"
  /\ options.test_type = "file" => options.fname # NULL
  /\ options.test_type = "generated" => options.N # 0
  /\ row_size' = CASE options.test_type = "generated" -> options.N \div W
                   [] options.test_type = "file"      -> 0
                   [] OTHER                           -> machine.START_SIZE
  /\ options' = [options EXCEPT !.max_tier = IF options.test_type = "tiers" THEN HighestTier ELSE UNUSED]
  /\ read' = 0
  /\ pc' = IF options.test_type = "file" THEN "file" ELSE "generate"
  /\ UNCHANGED <<machine, overshift, image, copy, at, turns, tier, printed, result>>

-----------------------------------------------------------------------------
(* The images.                                                             *)

\* read_binary_bmp() returns an image of n rows, run_tester() copies it.
ReadFile(n) ==
  /\ pc = "file" /\ pc' = "rotate"
  /\ row_size' = n /\ image' = NewImage(n) /\ copy' = NewImage(n)
  /\ UNCHANGED <<machine, overshift, at, program>>

\* The file cannot be read.
NoFile ==
  /\ pc = "file" /\ pc' = "done" /\ result' = FALSE
  /\ UNCHANGED <<machine, overshift, row_size, image, copy, at, options, read, turns, tier, printed>>

\* generate_bit_matrix() and copy_bit_matrix(); the tiers share one matrix that
\* is as large as the highest needs, and nothing is compared.
Generate ==
  /\ pc = "generate" /\ pc' = "rotate"
  /\ IF options.test_type = "tiers"
     THEN image' = NewImage(tier_sizes[options.max_tier]) /\ copy' = <<>>
     ELSE image' = NewImage(row_size) /\ copy' = NewImage(row_size)
  /\ UNCHANGED <<machine, overshift, row_size, at, program>>

\* An assertion fails: the image is not square, or not of whole words, or there
\* is no memory for it.
Abort ==
  /\ pc \in {"file", "generate"} /\ pc' = "aborted"
  /\ UNCHANGED <<machine, overshift, row_size, image, copy, at, program>>

-----------------------------------------------------------------------------
(* The testers.                                                            *)

Return ==
  /\ pc' = "done"
  /\ UNCHANGED <<machine, overshift, row_size, image, copy, options, read>>

\* The rotation is timed, and the stock function runs.
BeginStock ==
  /\ pc = "rotated" /\ options.test_type # "tiers" /\ pc' = "stock"
  /\ UNCHANGED <<machine, overshift, row_size, image, copy, at, program>>

\* memcmp() in run_tester(), run_tester_save_output() and
\* run_tester_generated_bit_matrix()
CompareOnce ==
  /\ pc = "compare" /\ options.test_type \in {"file", "generated"}
  /\ result' = (image = copy) /\ Return
  /\ at' = Start /\ UNCHANGED <<turns, tier, printed>>

\* ceil(N * SQRT_GOLDEN_RATIO / 64), in words
Larger == ((row_size * 12720196) + 9999999) \div 10000000

\* run_correctness_tester(): it stops at a difference; otherwise each image is
\* rotated three times, and then a larger one.
Compare ==
  /\ pc = "compare" /\ options.test_type = "correctness"
  /\ at' = Start
  /\ IF image # copy
     THEN result' = FALSE /\ pc' = "done" /\ UNCHANGED <<row_size, turns, tier>>
     ELSE /\ tier' = tier + 1
          /\ IF turns < 2
             THEN turns' = turns + 1 /\ pc' = "rotate" /\ UNCHANGED <<row_size, result>>
             ELSE /\ turns' = 0
                  /\ IF Larger < machine.end_n
                     THEN row_size' = Larger /\ pc' = "generate" /\ UNCHANGED result
                     ELSE result' = TRUE /\ pc' = "done" /\ UNCHANGED row_size
  /\ UNCHANGED <<machine, overshift, image, copy, options, read, printed>>

Line(word) == printed' = Append(printed, [line |-> word, tier |-> tier])

\* A tier was rotated in time.  The loop goes on, or it ends with tier one too
\* high, and tier-- mends that.
TierPasses ==
  /\ pc = "rotated" /\ options.test_type = "tiers"
  /\ Line("PASS")
  /\ IF tier < options.max_tier
     THEN tier' = tier + 1 /\ row_size' = tier_sizes[tier + 1] /\ pc' = "rotate"
     ELSE tier' = (tier + 1) - 1 /\ pc' = "done" /\ UNCHANGED row_size
  /\ UNCHANGED <<machine, overshift, image, copy, at, options, read, turns, result>>

\* The tier that is reported when this one takes too long
After_Timeout(t) == t - 1

TierFails ==
  /\ pc = "rotated" /\ options.test_type = "tiers"
  /\ Line("FAIL") /\ tier' = After_Timeout(tier) /\ Return
  /\ UNCHANGED <<at, turns, result>>

\* SIGALRM after 58 s ends the program.
Alarm ==
  /\ options.test_type = "tiers" /\ pc \in {"generate", "rotate", "rotated"} /\ pc' = "exited"
  /\ UNCHANGED <<machine, overshift, row_size, image, copy, at, program>>

-----------------------------------------------------------------------------
RotateImage == Rotate /\ UNCHANGED program

Tests == BeginStock \/ CompareOnce \/ Compare \/ TierPasses \/ TierFails \/ Alarm

Next ==
  \/ Argument \/ Help \/ Execute
  \/ \E n \in machine.files : ReadFile(n)
  \/ NoFile \/ Generate \/ Abort
  \/ RotateImage \/ Tests

Spec == Init /\ [][Next]_vars

-----------------------------------------------------------------------------
(* Properties.                                                             *)

\* Every bit is one of the generated image, none is made of several or shifted in.
TypeOK ==
  /\ machine \in Machines /\ overshift \in {"same", "zero"} /\ row_size \in Nat
  /\ \A img \in {image, copy} : \A x \in DOMAIN img : \A p \in Bits :
       img[x][p] \in 0..(Cardinality(DOMAIN img) * W - 1)
  /\ at.j \in Nat /\ at.i \in Nat
  /\ DOMAIN options = DOMAIN NotSet /\ options.test_type \in Types \cup {"not set"}
  /\ read \in 0..MaxArguments /\ turns \in 0..2 /\ tier \in Nat \cup {-1} /\ result \in BOOLEAN
  /\ pc \in {"options", "help", "file", "generate", "rotate", "rotated", "stock", "compare", "done", "aborted", "exited"}

\* rotate_bit_matrix() works in place.  After each of its rounds every block is
\* as it was or as it has to be: none is turned twice, or is put where another
\* one has not been read yet.  In a tier the image before is not the generated one.
EachOnce ==
  pc = "rotate" /\ options.test_type # "tiers" =>
    \A o \in {W * r * row_size + c : r \in 0..(row_size - 1), c \in 0..(row_size - 1)} :
      LET words == {o + k * row_size : k \in Bits} IN
      TurnedAt(image, turns, words) \/ TurnedAt(image, turns + 1, words)

\* No bit of either image is lost or doubled at any time, whatever a shift by
\* the whole width gives; and where a smaller image lies in a larger matrix,
\* as all tiers but the highest do, what is behind it is not touched.
NothingLost ==
  /\ \A img \in {image, copy} :
       Cardinality({img[x][p] : x \in DOMAIN img, p \in Bits}) = Cardinality(DOMAIN img) * W
  /\ \A x \in DOMAIN image : x >= W * row_size * row_size => \A p \in Bits : image[x][p] = Pixel(x, p)

\* The rotation is in place, block by block, and no bit is made of several.
InPlace == TypeOK /\ EachOnce /\ NothingLost

\* When they are compared, both images are the generated one after so many
\* turns to the right: the two ways to rotate it agree, and no test fails that
\* got its image.
TurnsRight ==
  /\ pc = "compare" => TurnedAt(image, turns + 1, DOMAIN image) /\ TurnedAt(copy, turns + 1, DOMAIN copy)
  /\ pc = "done" /\ options.test_type # "tiers" /\ image # <<>> => result

\* The tier that run_tester_tiers() returns is the last one that passed, and all
\* before it passed; -1, which main() tells from a tier, if the first failed.
TierReported ==
  pc = "done" /\ options.test_type = "tiers" =>
    /\ {printed[l].tier : l \in {k \in DOMAIN printed : printed[k].line = "PASS"}} = 0..tier
    /\ tier < options.max_tier => \E l \in DOMAIN printed : printed[l] = [line |-> "FAIL", tier |-> tier + 1]

\* What the tests say is true: that of images, and that of tiers.
TestsTell == TurnsRight /\ TierReported

\* A test never takes for an input what main() has put there to say that the
\* option is not used, in whichever order the options come.
TakesWhatWasGiven ==
  pc \notin {"options", "help"} =>
    CASE options.test_type = "file"        -> options.fname = 1 /\ options.output_fname \in {NULL, 1}
      [] options.test_type = "generated"   -> options.N \in machine.dimensions
      [] options.test_type = "tiers"       -> options.max_tier \in 0..machine.MAX_TIER_ALLOW
      [] options.test_type = "correctness" -> TRUE
=============================================================================
