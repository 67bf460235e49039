# A TLA+ model of performance_engineering

The repository holds three C programs of a performance-engineering course and
the harnesses that test and time them:

* `project3_fast_memory_allocator/mymalloc`: a malloc with binned free lists
  and boundary tags over a simulated `sbrk`, and the driver `mdriver` that
  validates, checks and times it on traces;
* `project2_collision_detection`: a screen saver of moving line segments. A
  parallel (Cilk) quadtree finds the pairs that meet in a time step, and a
  solver changes their velocities;
* `project1_matrix_rotation`: in-place rotation of a bit matrix by 90 degrees,
  and the program that tests it;
* two Python programs beside them: `opentuner_run.py`, which tunes the parameters
  of the allocator on several threads, and `clint.py`, the style checker the
  students' code has to pass, of which each project has a copy.

Paths below are relative to these directories. `PROJECT.json` lists the runs,
the source lines of every definition, the hazards and the findings.

## 1. Inventory

### Components

| component | state | operations | what makes it hard |
|---|---|---|---|
| simulated memory (`memlib.c`) | break, bytes | `mem_sbrk`, `mem_reset_brk` | the break cannot pass the end; a reset does not clear memory |
| allocator (`allocator.c`) | heap words, 28 list roots | `my_init`, `my_malloc`, `my_free`, `my_realloc`, `my_check` | the metadata lives between and inside the payloads; each operation rewrites several tags and links that must agree |
| validator (`validator.h`) | list of ranges, trace tables | `add_range`, `remove_range`, `eval_mm_valid` | must accept every correct allocator and reject overlap, misalignment, lost data |
| driver (`mdriver.c`) | trace tables, statistics | passes: valid, check, util, speed | the passes share one memory that nobody clears |
| deliberately bad allocator (`bad_allocator.c`) | break | `bad_malloc`, ... | must be rejected |
| timing (`fcyc.c`, `ftimer.c`, `clock.c`, `fsecs.c`) | K best samples | `add_sample`, `has_converged`, `fcyc` | wall clock around a small sorting buffer |
| quadtree (`quadtree.c`) | tree of 21845 nodes kept across steps | partition, build, detect | spawned recursion and parallel loops; shared locals; reducer |
| event list (`intersection_event_list.c`) | linked list per strand | append, merge, delete; reducer views | merge order of the views |
| collision world (`collision_world.c`) | lines, event counts | `updateLines`, sort, solver, walls | events applied in an order that must not depend on the schedule |
| geometry (`intersection_detection.c`, `rect.h`, `vec.h`, `line.h`) | none | `intersect`, `Rect_makeFromLine`, quadrant test | a filter may be loose and never tight |
| rotation (`rotate.c`) | the matrix, a scratch block | row/column/row rotation of 64x64 blocks, 4-cycles of blocks | shifts by the word width; each block moved once |
| parameter tuning (`opentuner_run.py`) | best run under a lock, the file `./mdriver` | `run()` on each thread, `save_final_config()` | one file for all threads; runs that are ended after they have printed a part |
| style checker (`clint.py`) | counts, filters, suppressed lines; per file: includes, function, stack of classes | `main`, `ParseArguments`, `ProcessFile`, `ProcessLine`, some thirty rules | states that outlive a line or a file; a loop that goes back over lines |
| rotation program (`main.c`, `tester.c`, `utils.c`) | options, reference matrix, tier | option loop, five testers | options in any order; one matrix for all tiers; an unsigned tier that counts below 0 |

### How they interact

`mdriver` opens one simulated memory and runs each trace through several passes
(valid, check, util, speed). Each begins with `mem_reset_brk()` and `init()`,
so the allocator finds the words of the pass before above the break. The
allocator takes memory with `mem_sbrk()` and nothing else; the validator sees
an allocator only through the function table of `allocator_interface.h`.

`CollisionWorld_updateLines()` computes the rectangles the lines sweep, calls
`detect_intersections_with_quadtree()`, sorts and counts the events it gets,
calls the solver for each, moves the lines, and turns those beyond a wall. The
quadtree sorts the array of lines in place (`sort_lines_by_quadrant()`) in
spawned calls that each own a segment, then compares lines in `cilk_for` loops
whose strands append to their own view of a reducer. The runtime merges
neighbouring views in an order nobody controls.

`opentuner_run.py` builds `mdriver` for a configuration, runs it over a
directory of traces, reads the score `main()` of `mdriver.c` prints, and keeps
the best. OpenTuner calls `run()` from its own threads.

`clint.py` reads the sources of the projects as text and calls nothing of them.

The rotation program calls `rotate_bit_matrix()` through a pointer, and the
testers compare it with a rotation bit by bit.

### What must hold

* allocator: no payload is touched but by its client; tags, lists and bins tell
  the same story; no block is lost or owned twice; every `my_free` returns.
* validator: accepts only payloads that are aligned, in the heap and apart;
  never rejects an implementation that keeps the contract of malloc.
* quadtree: strands that run at a time write different lines and nodes; every
  pair that meets is found exactly once per step, whatever step came before.
* event list: the same events are solved in the same order for every schedule;
  each node is freed once.
* world: lines are reported exactly when they meet; no filter hides a pair; no
  line leaves the box for good.
* rotation: the image is turned right by 90 degrees, in place, for every size.
* rotation program: a test runs on what it was given; the tier reported is the
  one reached.
* tuning: the best kept is the whole score of one run and none was better,
  whatever the threads do and however processes end; the tuning ends with the
  best printed.
* style checker: a file is told the same whatever was linted before it; NOLINT
  silences its line and no other; what is told about the order of includes, the
  ends of classes and the lengths of functions is so; the counts and the exit
  status are those of what was printed; the program ends.

## 2. Modules

| module | models | checked by | proofs |
|---|---|---|---|
| `Allocator` | `allocator.c`, `memlib.c`, the requests of `mdriver.c` | `allocator_*` | `AllocatorProofs` |
| `BlockPool` | abstract: what a client of malloc relies on | refined by `Allocator` | |
| `Validator` | `validator.h` | `validator_*` | `ValidatorProofs` |
| `QuadrantSort`, `QuadrantLoop` | `sort_lines_by_quadrant()` as operators, and one step per iteration | `quadrant_sort` | `QuadrantProofs` |
| `Rectangles` | quadrants, boxes and the fast path of `quadtree.c` | in the next rows | |
| `QuadTree` | build and detection of `quadtree.c` | `quadtree_*` | `QuadTreeProofs` |
| `PairwiseDetection` | abstract: each pair that meets is found once | refined by `QuadTree` | |
| `EventList` | `intersection_event_list.c` with addresses, and the part of `collision_world.c` that uses it | `event_list` | `EventListProofs` |
| `OrderedEvents` | abstract: events are solved in the order of ids | refined by `EventList` | `EventListProofs` |
| `Intersection` | `intersection_detection.c`, `vec.h` | in the next row | `CollisionWorldProofs` |
| `CollisionWorld` | `CollisionWorld_updateLines()` | `world_steps` | `CollisionWorldProofs` |
| `Rotation` | `rotate.c`, `_rotate_bit_matrix()` | in the next row | `RotationProofs` |
| `RotationProgram` | `main.c` and the testers of `tester.c` | `rotation` | `RotationProofs` |
| `Tuning` | `opentuner_run.py`, the score and exit status of `mdriver.c` | `tuning*` | `ToolProofs` |
| `IncludeState` | class `_IncludeState` of `clint.py`, as operators | in the next rows | `ToolProofs` |
| `IncludeOrder` | abstract: the `#include` lines of files one after another | refined by `Linter` | `ToolProofs` |
| `LintText` | lines as tokens, regular expressions, comments and strings taken out | in the last row | |
| `LintState` | arguments, filters, counts, `Error()` and NOLINT comments | in the last row | |
| `LintRules`, `LintBlocks`, `LintLanguage` | the rules: spacing and whole files; braces, style, functions and classes; language and includes | in the last row | |
| `Linter` | `main()`, `ProcessFile()`, `ProcessFileData()`, `ProcessLine()` of `clint.py` | `linter` | |

The `MC` modules hold the small instances. A definition named `f_Something`
with the comment "Mutant" is a plausible mistake in `f`; nothing uses it but the
checks that a property notices the mistake.

### How state and actions correspond to the code

**Allocator.** `heap` is the record of the break, the words of memory (headers,
footers, links and payloads share them), the roots of the free lists, and
`wild`, which says that something was stored outside the memory. `live` is what
the client holds. `call` holds the locals of a running `my_free()`. `my_malloc`
and `my_realloc` are one step each, as the program is sequential; `my_free` is
one step per round of the two loops of `coalesce()`, so that its loop is
visible. Every helper of `allocator.c` is an operator of the same name from
heaps to heaps. The driver's requests are the actions `Malloc`, `Write`, `Free`,
`Realloc...` and `Reset`. Clients fill payloads with words that read as flags,
sizes and addresses. The release build is modelled, in which `assert` and the
debug calls of `my_check` are off.

**Validator.** The implementation is the environment: it answers any address,
and may overwrite any byte. `honest` is a history variable that says whether it
has kept the contract of malloc. `Residue` is what the uninitialized
`bottom_byte` of case REALLOC may hold.

**QuadrantLoop / QuadTree.** The array is permuted in place, as in the code; a
pointer into it is its offset. A call of `QuadTree_buildQuadTree()` is one step,
which is sound because concurrent calls touch different places (`BuildsApart`,
checked and proved); any spawned call may run next. In the detection, each iteration of a
`cilk_for` is a strand; storing `line1`, storing `line2` and checking are
separate steps, because these variables belong to the call (`Frame`) and all its
iterations share them. A loop of `check_within_quadtree()` over at most `GRAIN`
lines (`#pragma cilk grainsize 600`) is run by one strand, iteration by iteration;
the loop of `check_with_children()` has the default grain, and its iterations may
overlap. `Spec` is this program, and finds finding 1. `InTurnSpec` are its
runs in which the iterations of one loop do not overlap (`LoopsInTurn`), while the
loops of different nodes still do: those of one worker are such, and those of
several as long as the scheduler divides no loop among them. `tree` is static and
keeps what earlier steps left.

**EventList.** Nodes have addresses that malloc chooses or refuses; views are
records of head, tail and size. `Reduce` merges two neighbours whose strands
are through; sorting swaps data as the code does; `deleteNodes` frees node by
node.

**CollisionWorld / Intersection.** Coordinates are integers and a velocity is
the shift of a step, so cross products are exact. The solver's result is left
open, with two exceptions that the code's arithmetic forces: equal speeds across
the face leave both velocities as they are, and a division by zero gives NaN.

**Rotation / RotationProgram.** A bit is the number of the pixel it came from,
so one image stands for all. A word is a function on bit positions; shifts,
ors and byte swaps are modelled by what they do, and a shift by the whole width
gives either of the results a build can produce. Words have 64 bits in the code and
any of the `Widths` 2 to 64 here. The command line arrives
option by option; file contents, exhausted memory, slow rotations and the alarm
are the environment's.

**Tuning.** A call of `run()` on a thread is the chain of actions `Call`,
`partial_clean`, `make`, `link`, `start`, `finish`, `acquire`, `compare`,
`set_make_cmd`, `set_bin_cmd`, `release`; the program counter of a thread is
the statement it stands before, and the actions of two threads interleave
anywhere, also between make's look for `./mdriver` and the link that writes it.
`mdriver` is the file the threads share: what it was built for; compiling the
objects is part of the link. `process` is what the running program was built for,
which is not what `cfg` says once another thread has rebuilt the file.
What `call_program()` may return for it is `Outputs`: any part of what the
allocator of the configuration makes `mdriver` print, up to all of it, with the
limit passed or not and with any status (0, or 1 for every other one). Only a local
process that printed all it had to ends with 0; on the cloud the status says
nothing. Lines arrive whole. What `run()` takes of it is `Accepted`: here it looks at
the limit and the status, on the cloud (`awsrun`) at neither, only at the keys that
came back. `run_result` keeps how the process ended until the comparison, and
`measured` remembers it. At the end of `run()` its variables are gone (`Return`).

**The linter.** A line is a sequence of tokens (words, blanks, the marks the
rules look for), a regular expression a sequence of elements that take tokens:
`Match` and `Search` of `LintText` try them as `re` does. Each rule is an
operator from the lines to the errors it gives, in the order of the code, and
`ProcessLine` joins them and the new states. One step is one line, one step is
the beginning or the end of a file. The rules were compared with the program:
the errors of about ten thousand generated files, as lines and categories, were
those of `clint.py` itself. The three copies of `clint.py` are the same program
up to colours and the rule for thread-unsafe functions, which only the copy of
project 3 calls (`PosixThreading`). In `PROJECT.json` a whole function of
`clint.py` is mapped to the copy of project 1; `ProcessLine()`, the rule only
project 3 calls, `IncludeOrder` and the helper definitions (a part of a function
that another definition stands for) are mapped to the copy of project 3.

## 3. What the runs check

Every run is in `PROJECT.json`; bounds are in the `.cfg` and `MC` modules.

| run | question | bounds, and why they are enough |
|---|---|---|
| `allocator_blocks` | do headers, footers, lists and bins agree after any sequence of malloc and free (`Consistent`); are neighbours merged (`CoalescedButTail`); is memory reused before more is taken (`GrowsForLackOfBins`); does `my_free` return (`FreeReturns`) | 88 bytes, 3 clients, 3 sizes: three neighbours, so a block is freed between two free ones; a block with an excess to split; three bins |
| `allocator_payloads` | are payloads intact whatever clients write (`LiveIntact`); does `my_check` pass on remnants of earlier passes (`CheckPasses`); is something stored outside the memory only when it is exhausted (`WildOnlyWhenExhausted`); does the allocator implement `BlockPool` | 80 bytes, 2 clients, payload words that read as a flag and a size, reset at any time |
| `validator_verdicts` | is the list the record of the live blocks (`RangesAreLive`); soundness (`AcceptedAreApart`); completeness, but for the byte that is never assigned (`HonestNeverRejected`) | 5 bytes, alignment 2, 3 ids: ranges that touch, overlap, contain each other, and stick out |
| `quadrant_sort` | the unbounded loop stays in the arrays, keeps lines with their quadrants, sorts, and ends | all orders of 4 lines with all assignments |
| `quadtree_pairs` | concurrent builds are apart (`BuildsApart`), the tree stays in its array, partitions the lines and has small leaves (`TreeShape`), and `QuadTree` implements `PairwiseDetection`, when the iterations of a loop do not overlap (`InTurnSpec`) | 3 lines, each in one of 6 places, depth 2, a second step on the tree of the first. `MAX_BIN = 0` makes every nonempty child split; `GRAIN` is that of the code |
| `quadtree_shared` | finding 1 | `MAX_BIN = 1`, depth 1, `Spec`: with `GRAIN = 600` the loops within a node are one strand, and the iterations that disturb each other are those of `check_with_children()` |
| `event_list` | views hold what their strands found in serial order (`ViewsHold`), every node is in one list and freed once (`NoLeak`), and `EventList` implements `OrderedEvents` | 4 strands, 4 events in every order and distribution, malloc failing anywhere, 2 steps; 4 addresses under symmetry |
| `world_steps` | `intersect()` says exactly what the motion says (`MeetsExactly`), quadrants and rectangles hide no pair (`Compared`), lines cross between two steps only after the solver touched one (`NoSurprise`), walls bring lines back and the solver gives no NaN unless lines run along themselves or one of them is lost (`StaysInPlay`) | 2 lines of several shapes anywhere in a 4 by 4 box, or 3 of which two are on one line, 3 steps: to meet, to be solved, to lose a third line, to leave the box and to come back |
| `rotation` | each block is moved once, no bit is lost and nothing behind the image is touched (`InPlace`); both rotations agree and the tier reported is the one reached (`TestsTell`); tests run on their own options (`TakesWhatWasGiven`) | up to 3 options; words of 4 bits with 1 to 9 words by row, of 8 bits with up to 3, and of 64 bits with one: odd and even numbers, the middle block, and the real width |
| `tuning` | the best is the maximum of the runs compared (`BestIsMax`), what is compared is a whole score of the driver that ran, wherever its process was ended (`OnlyWholeScores`), on one thread the score is that of the configuration kept with it (`MeasuredAlone`), the best is printed in the end (`Saves`) | 3 tests on one thread or two; a configuration for each way a measurement can end. Two threads are enough to replace each other's file and to race for the lock, three tests for a best that is beaten |
| `tuning_wrong_best` | finding 2 | 2 tests |
| `linter` | a file is told the same whatever came before (`LintsAlike`); NOLINT (`NolintHonoured`); counts and exit status (`CountsTell`); classes and functions (`ClassesEnd`, `LengthsTold`); the linter implements `IncludeOrder` (`IncludesOrdered`); it ends (`Terminates`) | every file of as many lines of a theme as it takes (one to five, for ten themes), and up to three files after each other with each kind of option. The limits of lengths are small (a function of 1 line, a test of 2), so that two functions, one of them too long, fit into five lines |

**Deadlock** is checked where the system runs on. It is not where the program
really ends: the validator's verdict, the end of the sorting loops, the end of
the rotation program, the printed best of a tuning, the exit of the linter, and a
heap that was written outside the memory.

**Fairness** is assumed in four runs. `Allocator!FairSpec` has weak fairness of
the steps of a running `my_free()`: a sequential call that was made runs on. It
says nothing about the client, who may stop. `QuadrantLoop!FairSpec` has weak
fairness of the loop. `Tuning!FairSpec` has it of each thread OpenTuner uses and
of the end: threads are scheduled, every command has a limit, and OpenTuner
calls `run()` until its limit of tests; that a thread gets the lock is not assumed
(only one of two can be waiting when the other has it for the last time).
`Linter!FairSpec` is weak fairness of `Next`, written without ENABLED, whose
evaluation would compute each line twice: the program stops or goes on.

## 4. Findings

1. `quadtree.c:252`: `line1` and `line2` are shared by the iterations of a
   `cilk_for`; a pair is missed and another is reported twice
   (`quadtree_shared`).
2. `opentuner_run.py:168`: a configuration whose allocator gets a trace wrong
   can be the best. `mdriver` exits with 0 all the same, and leaves the trace
   out of the sums it divides by the number of all traces, as if it had had the
   full score (`mdriver.c:316-345`). "Reject if the command times out or fails"
   (`opentuner_run.py:167`) does not see it (`tuning_wrong_best`).

Where the code goes wrong and a property that holds says exactly when:

* `allocator.c:674` (and `:513`): the result of `mem_sbrk()` is not looked at,
  so on an exhausted heap a block that reaches beyond it is handed out instead
  of NULL. `WildOnlyWhenExhausted` shows that it happens nowhere else, and only
  in a request for a block the rest of the memory is too small for.
* `validator.h:212`: a second local `bottom_byte` is compared with the data and
  was never assigned; an honest implementation may be rejected.
  `HonestNeverRejected` holds with this exception, and is proved.
* `collision_world.c:202`: two lines that run into each other along themselves
  get velocities that are not numbers, and so does every line that meets one of
  the two in the same step and comes after it in the order of events.
  `StaysInPlay` shows that no others do.
* `clint.py:2107-2113`: the loop that looks at the lines above a block
  `{...};` that is indented goes on for ever when there are none but such blocks.
  `Terminates` shows that this is the only way not to end.
* with two threads the score kept with a configuration may be another's, because
  both use one `./mdriver` (`opentuner_run.py:121-141`). `MeasuredAlone` is about
  one thread.

Seen while modelling, and not runs of their own:

* `coalesce()` says that it merges with all free neighbours
  (`allocator.c:548-549`), but its second loop stops before a block of the
  minimum size that ends the heap (`:601`). `CoalescedButTail` states what holds.
* the fast path is to "check if the bounding rectangles intersect"
  (`quadtree.c:206`), but it lets a pair through unless there is a gap in both
  dimensions. The filter is loose, never tight, and `Compared` shows that it
  hides nothing.
* `run_tester_tiers()` "tests" and stops at "an incorrect solution"
  (`tester.c:273-276`), but compares nothing.
* `main.c:129` says of `-M` "Also triggered by `UNUSED`"; as an int UNUSED is
  -1, which is also "not set", so `-t correctness -M 3` is accepted. It does no
  harm, as `TakesWhatWasGiven` shows.
* `clint.py` (lines of project 1's copy): `CloseExpression()` (1000-1036) raises an
  IndexError where its comment promises `(line, len(lines), -1)`; the usage
  (127-135) allows a filter without a sign, which `SetFilters()` (565-568) refuses;
  an unterminated comment is told at the line after its start, before NOLINT is
  looked for; a comment of several lines ends only at a `*/` that ends its line;
  `/* a */ x /* b */` loses the x; an unknown category in NOLINT behind the
  `#endif` of a guard is told twice; `struct B b; }` in a class takes no class off
  the stack (the exception in `ClassesEnd`); the length of a function is looked
  at for any brace in the first column, also outside functions;
  `CheckCStyleCast()` returns before it does anything (2854).

## 5. What is proved

For every value of the constants, by TLAPS; eight modules, no assumption but the
`ASSUME`s of the modules, which TLC evaluates in every run.

* **`AllocatorProofs`**: all that the runs check of the allocator but that
  `my_free()` returns, for any heap, width, clients and trace. `TypeCorrect` has
  one lemma per operator. The other properties are not inductive, because each
  is read off words that the next operation follows: a wrong link or tag is
  found much later. `IInv` says that the words are a picture (`Story`) of a set
  of blocks `B`, free ones `F` among them, and an order of the lists:
  the blocks lie one behind the other from the start to the break (`Apart`,
  `Covered`), the lists are linked both ways, each block in its bin (`Listed`),
  free neighbours are only a tail (`Spread`), the blocks in use are the clients'
  and that of the call (`Owned`), and `coalesce()` knows the neighbours it has
  looked at (`InProgress`). One word holds more than it seems to: the first
  of memory stays 0, and `my_malloc()` reads it as the last footer of an empty
  heap. The lemmas go from the bottom up: what a store does to words, what
  `remove_free_list` and `add_free_list` do to lists, what splitting,
  merging, growing and appending do to blocks; then one lemma per action
  (`...Story`). From it `CheckAlwaysPasses`, `AlwaysConsistent`,
  `PayloadsIntact`, `Coalesced`; the step lemmas also give the action properties
  `OnlyWhenExhausted` (nothing leaves the heap but by a request for more than what
  remains of the memory) and
  `GrowsOnlyForLack`, and `PoolImplemented`: the allocator implements
  `BlockPool`, step by step. Numbers are proved, not assumed: powers of two and
  `log_2` by least exception (`LeastNatural`), the walks of `my_check()` by
  counting (`ReachableIs`: no chain is longer than the heap has blocks).
* **`QuadrantProofs`**: the inductive invariant `IInv` (`LayoutInvariant`) is
  the picture of the array in four parts: sorted, equal to the current
  quadrant, larger, not yet looked at. It needs the arrays to be a permutation
  of the caller's (`Paired`), because why the unbounded `while` finds another
  line before the end of the array is a count: lemma `Counted` (the places
  of a quadrant are as many as the lines the caller counted, by a bijection) and
  lemma `Ahead` (if a count is not used up, a place lies ahead). From it
  `StaysInBounds`, `KeepsLines` and `Sorts`. That the sorting ends is left to
  TLC.
* **`QuadTreeProofs`**: any number of lines, any rectangles, any depth, any order
  of the builds and strands. `TreeInv` says that there is a picture of the tree,
  `R`, the nodes reached from the root: their own lines part the array
  (`Parted`), the lines below a node are those of its subtree and intervals
  nest (`Nested`), lines that may meet lie in one node or one above the other
  (`Together`), and the builds that run are at leaves, one each, of the level
  their depth says (`Waiting`). None of the properties is inductive without it:
  that `base` and the counts of one build stay clear of another's is a fact
  about all of the tree. A build makes `R` grow by four children; what it needs
  of the sort is that each quadrant's lines come to lie where its pointer points
  (lemma `Sorting`, by counting). From it `BuildsStayApart`. `StrandInv` adds
  `V`, the nodes whose call was made, and where each strand is: every line that
  is used is one of the array, shared variables or not, hence
  `TreeIsShaped`. These are about `Spec`, every run of the program.
  `FindsPairwise` is about `InTurnSpec`, the runs in which the iterations of a
  loop do not overlap, with the two variables in the frame of the call where the
  code has them; in the other runs it is false (finding 1). `StrandInv(TRUE)`
  (`InTurnInvariant`) adds to `StrandInv(FALSE)` (`StrandInvariant`, of `Spec`) what
  the frames hold: those of a strand that has stored its lines are its own, as
  nobody else on the frame is between its stores and its comparison. The detection is then
  a set of comparisons, no two of the same lines (`TaskUnique`) and one for each
  pair that meets (`HitIsTask`); what is still pending is not listed, what was
  compared is if it meets (`Found`), and when no strand is left nothing is pending
  (`AllCompared`). So of all interleavings of builds, calls and loops, those of the
  iterations of one loop are the only ones that break `PairwiseDetection`.
* **`ValidatorProofs`**: `IInv` says that the range list has no duplicates and
  is, as a set, the ranges of the live blocks, each of which is aligned, in the
  heap and apart from the others. Apartness makes the addresses distinct, which
  is why `remove_range()`, which looks for an address and takes the first,
  removes the right one. From it `TypeCorrect`, `ListIsLive` and `Sound`.
  `Complete` adds `HInv`: as long as the implementation is honest the
  validator runs on, and every live payload holds the filling. A comparison with
  the byte that was never assigned counts among what an honest implementation
  can do nothing about; the theorem says that it is the only such thing.
* **`EventListProofs`**: the memory is any set of addresses, `malloc()` gives or
  refuses any of them, and there are any number of strands, events and steps.
  Neither `ViewsHold` nor `NoLeak` is inductive: they look at what can be reached
  from a list, and a pointer that is set wrongly shows only when another list
  is walked. `ListInv` (`ListInvariant`) says that there is a picture: for each view
  a sequence of addresses, each once, along which the `next` pointers lead to
  NULL (`Chain`), which begins at `head`, ends at `tail` and is `size` long
  (`IsList`); the sequences are apart, have all the nodes among them and hold
  what was promised (`Holds`). `Contents` follows pointers from node to node; it is
  the picture because there is one way only to follow them (`HopsUnique`, by least
  exception). The lemmas say what a store to one pointer does to a chain
  (`AppendedList`, `MergedLists`, `ChainFreed`), to the views (`HoldsAppended`,
  `HoldsMerged`), then one per action. From it `ViewsHoldTheirEvents` and
  `NodesOwnedOnce`. `EventsInOrder` is the refinement of `OrderedEvents`. It needs
  that the detection finds no pair twice (`FoundOnce`, a hypothesis of the
  theorem): then no pair is in two nodes (`DistinctInv`), whatever was swapped or
  merged. `OrderInv` says where the cursor is, that the nodes before it are less
  than all that follow (a round of the sort adds one, `RoundSorts`), and that those
  solved are those before the cursor. That a pair is not found twice is what
  `PairwiseDetection` promises and `FindsPairwise` proves, but of runs whose loops
  are not divided; where iterations overlap (finding 1) a pair may be in the
  list twice, and is then solved twice. `ViewsHold` and `NoLeak` do not need it.
* **`ToolProofs`**, about `Tuning` and `IncludeOrder`. `LockInv` says who is
  between `acquire` and `release` (the holder of the lock and nobody else), and
  what the best fields are at each of its statements: those of an earlier run
  (`Kept`), or in part of its own (`Won`). With the lock free this is `BestIsMax`, for any number of threads.
  `WholeInv` follows a run from what came back of its process to where it is
  compared. Any part of the output may come back with any end; that what is
  accepted has the score in it (`AcceptedIsWhole`) is the order of the last lines on
  the cloud, and the limit and the status here. Hence `OnlyWholeScores` for both
  ways to run (theorem `WholeScoresOnly`). `AloneInv` adds
  for one thread which build is in the file at each statement: none after
  `partial_clean`, that of the command after `link`, and the process runs that
  one. Hence `MeasuredAlone` (theorem `OneThreadMeasures`); two threads break it.
  Of the includes, `ArrangedSoFar` strengthens `SilentIfSorted` by where
  the arrangement ends: in the present section, with the last header. An
  include about which nothing is reported extends it, which needs that a section
  allows the header (`SectionsAllowed`) and that the last header is forgotten
  only where the section changes. From it `SilenceMeansSorted` for any number of
  files and headers; the run `linter` shows that the linter keeps its includes
  like this (`IncludesOrdered`). `SectionsAdvance` is the comment of the class.
* **`CollisionWorldProofs`**: `MeetingPairsCompared` is `Compared` for any lines,
  velocities and boxes. `LinesInv` types the lines, which are vectors or lost,
  and `RectanglesInv` says that the rectangles compared are those of the lines as
  they are. The geometry is in lemmas: a line is in its rectangle at any time of
  the step (`ExtentInRectangle`), so the rectangles of lines that meet overlap
  (`MeetOverlap`), and of rectangles that overlap one spans quadrants or both
  are in the same (`QuadrantsTogether`). `NoneUnnoticed` is `NoSurprise`: where
  segments cross is a mean of the ends of either (`Crossing`), so segments that
  touch are not apart (`TouchingNotApart`), whether they touch does not depend
  on where the origin is (`IntersectMoved`), and so lines that touch when they
  have moved pass the fast path and are reported (`EndReported`). `SurpriseInv`
  follows such a pair from the detection through the events that are still to
  be solved and the walls to the next step; `EventsInv` says that the events are
  those of pairs and that the lines stay where they were compared.
  `ReportsAreMeetings` is `MeetsExactly`, for all lines and velocities and not
  only for the shapes of the run. It needs no invariant but `LinesInv`; all of
  it is geometry. A point of a line is a mean of its ends with natural weights,
  so that nothing leaves the integers. `intersectLines()`, `Touch` and a common
  point are the same for segments (`SameMeeting`). If the code says that lines
  meet, there is such a time: an end that runs into the other line reaches it at
  a time that `Denominators` knows (`EndOnPath`), and so does a line that begins
  inside the parallelogram (`InsideReaches`). If they meet, the code says so: on
  the way from the common point to an end that is not inside, the line crosses
  a side (`ZeroBetween`, `SideOrWithin`, `SweptSides`), and a parallelogram that
  is flat is covered by its sides (`FlatPlace`, `SweptFlat`).
  `LinesStayInPlay` is `StaysInPlay`. For the walls, `WallsInv` says that a line
  is no longer than the box, hence beyond one wall of an axis at most and turned
  once, and that beyond a wall its velocity leads inward until the solver
  touches it. For the solver, `LostStep` shows that the division by zero means
  that the lines are on one line (`ParallelOnOneLine`, from `OnEachOther`). That
  proof failed for the property as it was stated for two lines: a line may be
  lost to one that an earlier event has lost, and the run now has a third line
  that is. A fast line may still fly through the box and out on the other side:
  neither code nor theorem excludes that.
* **`RotationProofs`**: all that the run `rotation` checks, for any machines,
  command lines, files and sizes, and words of any power of two from 2 to 64
  bits. `GivenOnly` is `TakesWhatWasGiven`: `OptionsInv` says what each option may
  hold while options are read, `GivenInv` what `main()` has made sure of when they
  are. `TierInv` follows the lines that are printed (`TiersReported`).
  `RotatesInPlace` and `TestsAreTrue` are `InPlace` and `TestsTell`, from
  `RotationInv` (`RotationInvariant`). They are not inductive, because `InPlace`
  looks at an image between two rounds and says that each block is turned so often
  or once more, but not which; the next round needs to know that its four blocks
  are still to be turned. `TurnInv` says it: the blocks of the rounds before
  `at` are turned once more and all others are not (`BlocksAt`), and so for the
  rings of four bits of the tester's own rotation (`RingsAt`). `SizeInv` says how
  large both matrices are and that the loops are within their bounds, `BitsInv`
  that the images hold each bit of the generated one once, which an image keeps
  when its bits come from different places (`Rearranged`, `Counted`).
  The lemmas go from the word up: bytes reversed twice (`SwapTwice`), two opposite
  shifts are a rotation whatever a shift by the width gives (`RotatesLeft`), the
  stages of `rotate_columns()` move column c down by c (`StagesEnd`, width by
  width), so three rotations
  are a turn (`BlockTurns`); the blocks of a round do not overlap and none
  is left out (`RoundsPartition`), each goes where a turn takes it
  (`RoundTurns`); and one lemma per action (`...Keeps`). The tiers need
  that no tier is larger than the matrix (`TierSizes`).
Only model-checked: liveness, and the linter (its regular expressions are
recursive operators) with its refinement of `IncludeOrder`. The sums of the score
are left to TLC too.

## 6. Abstractions to know about

* Heap words have 8 bits in the small instances and 32 in the code, so the bins
  are three and not 28; the exponents are parameters. Addresses are offsets.
* Trace requests of size 0 are not modelled. `add_range` rejects them whatever
  the implementation answers, and no trace of the repository has one.
* Rectangles are exact; the code's are computed in floating point. A line is
  its rectangle in `QuadTree`, and two lines meet there whenever their
  rectangles touch.
* Solver velocities are drawn from a small set, except those the code forces.
* Tiers grow by exactly a tenth, rounded up to words; the code's product is in
  floating point. `-N` takes natural numbers.
* The score of a configuration is a sum of losses, where the code has the
  exponential of a mean of logarithms: the order of two scores is what counts.
* OpenTuner's search is left open: any configuration may be next. What a process
  had printed when it was ended is cut between two lines, never within one: a
  number cut short, which the cloud would parse as another number if it were that of
  the last line, the run time, is left out; the run time is not modelled.
* The grain of a loop without a pragma is left to the Cilk runtime: any two of its
  iterations may be on different workers.
* A word of a line of source has at least two letters and stands for any other;
  a rule that depends on one has it in its tables. Messages, colours and
  confidence shown to the user are left out, the confidence that decides whether
  an error is printed is in.

## 7. Not modelled

* `mdriver.c`: option and trace parsing, `eval_mm_util` and the times. The
  requests each pass makes are in `Allocator`, the score and the exit status in
  `Tuning`.
* `fcyc.c`, `ftimer.c`, `clock.c`, `fsecs.c`: wall clock and cycle counters;
  the configuration uses `gettimeofday()` only.
* `libc_allocator.c`, `bad_allocator.c`, wrappers: function tables; the
  validator is checked against arbitrary answers, which includes theirs.
* `validator.h:179`: all payloads are filled with one letter, so contents in the
  place of others are accepted; contents by block are followed in the model of
  the allocator (`LiveIntact`).
* `quadtree.c:302`: the reducer is unregistered after every step and never
  registered; what the Cilk runtime makes of it is not in the repository.
* `allocator_test.c`, `additional_tests.c`, `trace_9to10_edit.py`: one fixed run
  each, or a tool around the build.
* `screensaver.c`, `line_demo.c`, `graphic_stuff.c`: reading a scene, X11, and a
  frame counter (`Stop` in `CollisionWorld`).
* `libbmp.c`: third-party code.
* of `clint.py`, reading from standard input and what a file that is no text
  does to the reader; the other two output formats, which differ in wording.

## 8. Plan

In this order; the first nine rows are done.

1. `Allocator` with `BlockPool`, its type theorem.
2. `Validator` with soundness and completeness proved.
3. `QuadrantSort`, `QuadTree`, `PairwiseDetection`; `EventList`,
   `OrderedEvents`; `CollisionWorld` with `Intersection`; the sort proved.
4. `Rotation`, `RotationProgram`.
5. `Tuning` and `Linter` with `IncludeOrder`; the best run and the order of the
   includes proved.
6. The filters of the collision program, its walls and its solver, the options
   and tiers of the rotation program, the words its rounds write, and tuning on
   one thread proved.
7. Proofs about `Allocator`: the picture of the heap (`IInv`), the properties
   of its runs and the refinement of `BlockPool`.
8. Proofs about `QuadTree`: the picture of the tree (`TreeInv`), that builds are
   apart, the shape of the tree and the refinement of `PairwiseDetection`; about
   `CollisionWorld`: that `intersect()` answers what the motion says; about
   `EventList`: the picture of the lists (`ListInv`) and the refinement of
   `OrderedEvents`.
9. Proofs about `Rotation`: three rotations of a word make a turn, a round turns
   four blocks, both rotations agree (`RotationInv`, `InPlace`, `TestsTell`).
10. `Driver`: the passes of `mdriver` over one memory and `eval_mm_util` (its
   sums against the bytes that are live); the K-best sampler.
