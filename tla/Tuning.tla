------------------------------- MODULE Tuning -------------------------------
\* The parameter tuning of the allocator: mymalloc/opentuner_run.py, which
\* builds the driver for a configuration, runs it over the traces and remembers
\* the best configuration, together with what main() of mdriver.c tells it.
\* OpenTuner itself (which configuration is tried next, on how many threads) is
\* external: it calls run() on the threads of a pool and save_final_config() once
\* all of them are done.
EXTENDS Integers, FiniteSets, FiniteSetsExt

CONSTANTS
  Threads,    \* the threads OpenTuner may call run() on
  Configs,    \* the configurations of the search space
  None,       \* no configuration, no file, no thread
  Traces,     \* the trace files of the directory
  Builds,     \* the configurations that compile
  Behaves,    \* what the allocator of a configuration does with a trace
  Loss,       \* what it loses of the full score on a trace it gets right
  FullScore,  \* the score of a trace nothing is lost on
  MaxTests    \* --test-limit

ASSUME TuningAssumption ==
  /\ None \notin Configs \cup Threads
  /\ IsFiniteSet(Threads) /\ Threads # {}
  /\ Builds \subseteq Configs
  /\ Behaves \in [Configs -> [Traces -> {"passes", "fails", "aborts", "hangs"}]]
  /\ Loss \in [Configs -> [Traces -> Nat]]
  /\ FullScore \in Nat
  /\ MaxTests \in Nat

VARIABLES
  awsrun,         \* the option: run on the worker machines of a cloud queue
  pool,           \* the threads OpenTuner uses in this tuning
  tests,          \* how often run() has been called
  pc,             \* where the run() of a thread stands
  cfg,            \* the configuration it was called with
  mdriver,        \* what the one file ./mdriver was built for
  process,        \* what the process a thread waits for was built for
  run_result,     \* how that process ended, and what it had printed
  accuracy,       \* the perfidx it parsed
  lock,           \* the thread that holds MdriverTuner.lock
  best_accuracy, best_make_cmd, best_bin_cmd,
  measured,       \* history: the runs that were compared with the best
  saved           \* save_final_config() has printed the best

build == <<awsrun, pool, tests, mdriver>>
run == <<pc, cfg, process, run_result, accuracy>>
best == <<best_accuracy, best_make_cmd, best_bin_cmd>>
vars == <<build, run, lock, best, measured, saved>>

-----------------------------------------------------------------------------
\* What mdriver prints.

\* A trace on which the allocator is not valid adds nothing to the sum of the
\* logarithms, and the sum is divided by the number of all traces: its score
\* counts as the full one.
perfindex(c) ==
  FullScore * Cardinality(Traces)
    - MapThenSumSet(LAMBDA t : Loss[c][t],
                    {t \in Traces : Behaves[c][t] = "passes"})

ASSUME PerfindexAssumption == \A c \in Configs : perfindex(c) \in Int

\* A trace the allocator fails is told in a line, counted in errors, and changes
\* nothing else: main() exits with 0.  A call that is not answered by a valid
\* address while the speed is measured, or a signal, ends main() at that trace.
ErrorLines(c) == {t \in Traces : Behaves[c][t] \in {"fails", "aborts"}}

\* main() comes to its score, and to its end, when it has come through the traces.
Completes(c) == c # None /\ \A t \in Traces : Behaves[c][t] \in {"passes", "fails"}

\* The last lines, in their order; the run time is printed with GETTIME=1 only.
Statistics == {"correct", "perfidx"} \cup (IF awsrun THEN {"runtime"} ELSE {})
ScoreLines == {{}, {"correct"}, {"correct", "perfidx"}, Statistics}

\* What call_program() may return, however the process ended: the limit may come,
\* or a signal, whatever has been printed by then, and it may come when all
\* is.  Here only a process that printed all it had to ends with 0 (1 stands for
\* every other status); on the cloud the status is that of awsrun.
Results == [timeout : BOOLEAN, returncode : {0, 1}, errors : SUBSET Traces,
            score : SUBSET {"correct", "perfidx", "runtime"}]
Outputs(c) ==
  {out \in Results :
     /\ out.score \in ScoreLines
     /\ out.errors \subseteq (IF c = None THEN {} ELSE ErrorLines(c))
     /\ out.score # {} => Completes(c) /\ out.errors = ErrorLines(c)
     /\ ~awsrun /\ out.returncode = 0 => out.score = Statistics}

-----------------------------------------------------------------------------
\* run()

Goto(w, l) == pc' = [pc EXCEPT ![w] = l]

NoResult == [timeout |-> FALSE, returncode |-> 0, errors |-> {}, score |-> {}]

\* run() returns its Result to OpenTuner, and its variables are gone.
Return(w) ==
  /\ Goto(w, "idle")
  /\ cfg' = [cfg EXCEPT ![w] = None]
  /\ process' = [process EXCEPT ![w] = None]
  /\ run_result' = [run_result EXCEPT ![w] = NoResult]
  /\ accuracy' = [accuracy EXCEPT ![w] = 0]

\* OpenTuner calls run() for the next configuration.
Call(w) ==
  /\ pc[w] = "idle" /\ tests < MaxTests
  /\ tests' = tests + 1
  /\ \E c \in Configs : cfg' = [cfg EXCEPT ![w] = c]
  /\ Goto(w, "partial_clean")
  /\ UNCHANGED <<awsrun, pool, mdriver, process, run_result, accuracy, lock, best, measured, saved>>

\* Mutant: the file of the last configuration is left to the second target.
partial_clean_Kept(w) ==
  /\ pc[w] = "partial_clean"
  /\ UNCHANGED mdriver
  /\ Goto(w, "make")
  /\ UNCHANGED <<awsrun, pool, tests, cfg, process, run_result, accuracy, lock, best, measured, saved>>

\* make partial_clean mdriver: the first target removes the file ...
partial_clean(w) ==
  /\ pc[w] = "partial_clean"
  /\ mdriver' = None
  /\ Goto(w, "make")
  /\ UNCHANGED <<awsrun, pool, tests, cfg, process, run_result, accuracy, lock, best, measured, saved>>

\* ... and the second builds it unless it is there: make does not see that PARAMS
\* has changed, nor what other threads do from here to the link.  A configuration
\* that does not compile, and a make that takes longer than --make-timeout, gives
\* no perfidx.
make(w) ==
  /\ pc[w] = "make"
  /\ \/ /\ mdriver # None \/ cfg[w] \in Builds
        /\ Goto(w, IF mdriver # None THEN "bin_cmd" ELSE "link")
        /\ UNCHANGED <<cfg, process, run_result, accuracy>>
     \/ mdriver = None /\ Return(w)
  /\ UNCHANGED <<build, lock, best, measured, saved>>

link(w) ==
  /\ pc[w] = "link"
  /\ \/ mdriver' = cfg[w] /\ Goto(w, "bin_cmd") /\ UNCHANGED <<cfg, process, run_result, accuracy>>
     \/ UNCHANGED mdriver /\ Return(w)
  /\ UNCHANGED <<awsrun, pool, tests, lock, best, measured, saved>>

\* call_program(bin_cmd) starts the file as it is now ...
start(w) ==
  /\ pc[w] = "bin_cmd"
  /\ process' = [process EXCEPT ![w] = mdriver]
  /\ Goto(w, "running")
  /\ UNCHANGED <<build, cfg, run_result, accuracy, lock, best, measured, saved>>

\* The number of keys in what is parsed
Keys(out) == Cardinality(out.errors) + Cardinality(out.score)

\* Mutant: on the cloud, three keys are taken for the statistics.
Accepted_AnyKeys(out) ==
  IF awsrun THEN Keys(out) >= 3 ELSE ~out.timeout /\ out.returncode = 0

\* The runs that give statistics: on this machine the command has to end with 0
\* in time; on the cloud neither is looked at, but its last line, runtime, has
\* to have come back.
Accepted(out) ==
  IF awsrun THEN Keys(out) >= 3 /\ "runtime" \in out.score
            ELSE ~out.timeout /\ out.returncode = 0

\* ... and returns when it ends or after --command-timeout.
finish(w) ==
  /\ pc[w] = "running"
  /\ \E out \in Outputs(process[w]) :
       IF Accepted(out)
       THEN /\ run_result' = [run_result EXCEPT ![w] = out]
            /\ accuracy' = [accuracy EXCEPT
                              ![w] = IF "perfidx" \in out.score THEN perfindex(process[w]) ELSE 0]
            /\ Goto(w, "lock") /\ UNCHANGED <<cfg, process>>
       ELSE Return(w)
  /\ UNCHANGED <<build, lock, best, measured, saved>>

-----------------------------------------------------------------------------
\* with self.lock

\* Mutant: the fields are updated without the lock.
acquire_Anyway(w) ==
  /\ pc[w] = "lock"
  /\ lock' = w /\ Goto(w, "compare")
  /\ UNCHANGED <<build, cfg, process, run_result, accuracy, best, measured, saved>>

acquire(w) ==
  /\ pc[w] = "lock" /\ lock = None
  /\ lock' = w /\ Goto(w, "compare")
  /\ UNCHANGED <<build, cfg, process, run_result, accuracy, best, measured, saved>>

Better(w) == accuracy[w] > best_accuracy

Measurement(w) == [make |-> cfg[w], ran |-> process[w], accuracy |-> accuracy[w],
                   timeout |-> run_result[w].timeout, returncode |-> run_result[w].returncode]

compare(w) ==
  /\ pc[w] = "compare"
  /\ best_accuracy' = IF Better(w) THEN accuracy[w] ELSE best_accuracy
  /\ Goto(w, IF Better(w) THEN "make_cmd" ELSE "release")
  /\ measured' = measured \cup {Measurement(w)}
  /\ UNCHANGED <<build, cfg, process, run_result, accuracy, lock, best_make_cmd, best_bin_cmd, saved>>

set_make_cmd(w) ==
  /\ pc[w] = "make_cmd"
  /\ best_make_cmd' = cfg[w] /\ Goto(w, "set_bin_cmd")
  /\ UNCHANGED <<build, cfg, process, run_result, accuracy, lock, best_accuracy, best_bin_cmd, measured, saved>>

\* The command is the same for every configuration.
set_bin_cmd(w) ==
  /\ pc[w] = "set_bin_cmd"
  /\ best_bin_cmd' = TRUE /\ Goto(w, "release")
  /\ UNCHANGED <<build, cfg, process, run_result, accuracy, lock, best_accuracy, best_make_cmd, measured, saved>>

\* Mutant: the lock is given back where the fields were set, not where they were not.
release_IfBetter(w) ==
  /\ pc[w] = "release"
  /\ lock' = (IF accuracy[w] = best_accuracy THEN None ELSE lock) /\ Return(w)
  /\ UNCHANGED <<build, best, measured, saved>>

release(w) ==
  /\ pc[w] = "release"
  /\ lock' = None /\ Return(w)
  /\ UNCHANGED <<build, best, measured, saved>>

\* At the limit OpenTuner waits for its threads and prints the best.
save_final_config ==
  /\ ~saved /\ tests = MaxTests /\ \A w \in pool : pc[w] = "idle"
  /\ saved' = TRUE
  /\ UNCHANGED <<build, run, lock, best, measured>>

-----------------------------------------------------------------------------
Init ==
  /\ awsrun \in BOOLEAN
  /\ pool \in (SUBSET Threads) \ {{}}
  /\ tests = 0 /\ mdriver = None
  /\ pc = [w \in Threads |-> "idle"]
  /\ cfg = [w \in Threads |-> None]
  /\ process = [w \in Threads |-> None]
  /\ run_result = [w \in Threads |-> NoResult]
  /\ accuracy = [w \in Threads |-> 0]
  /\ lock = None
  /\ best_accuracy = 0 /\ best_make_cmd = None /\ best_bin_cmd = FALSE
  /\ measured = {} /\ saved = FALSE

Update(w) == acquire(w) \/ compare(w) \/ set_make_cmd(w) \/ set_bin_cmd(w) \/ release(w)
Step(w) == partial_clean(w) \/ make(w) \/ link(w) \/ start(w) \/ finish(w) \/ Update(w)

Next == save_final_config \/ \E w \in pool : Call(w) \/ Step(w)

Spec == Init /\ [][Next]_vars

\* call_program ends every command after its limit, and OpenTuner goes on until
\* the limit of its tests.
FairSpec ==
  /\ Spec /\ WF_vars(save_final_config)
  /\ \A w \in Threads : WF_vars(w \in pool /\ (Call(w) \/ Step(w)))

-----------------------------------------------------------------------------
Updating == {"compare", "make_cmd", "set_bin_cmd", "release"}

Measurements == [make : Configs \cup {None}, ran : Configs \cup {None}, accuracy : Int,
                 timeout : BOOLEAN, returncode : {0, 1}]

TypeOK ==
  /\ awsrun \in BOOLEAN /\ pool \in (SUBSET Threads) \ {{}}
  /\ tests \in 0..MaxTests
  /\ pc \in [Threads -> Updating \cup {"idle", "partial_clean", "make", "link", "bin_cmd", "running", "lock"}]
  /\ cfg \in [Threads -> Configs \cup {None}]
  /\ mdriver \in Configs \cup {None}
  /\ process \in [Threads -> Configs \cup {None}]
  /\ run_result \in [Threads -> Results]
  /\ accuracy \in [Threads -> Int]
  /\ lock \in Threads \cup {None}
  /\ best_accuracy \in Int /\ best_make_cmd \in Configs \cup {None} /\ best_bin_cmd \in BOOLEAN
  /\ measured \subseteq Measurements
  /\ saved \in BOOLEAN

\* Whatever threads OpenTuner uses and however their updates interleave: with
\* the lock free, the three fields are those of one run, and no run that was
\* compared was better; before there is a run better than 0 they are empty.
\* (MdriverTuner.run(), "Update the best results if needed".)
BestIsMax ==
  lock = None =>
    /\ \A m \in measured : m.accuracy <= best_accuracy
    /\ \/ best_accuracy = 0 /\ best_make_cmd = None /\ ~best_bin_cmd
       \/ /\ best_bin_cmd
          /\ \E m \in measured : m.accuracy = best_accuracy /\ m.make = best_make_cmd

\* However a process ended and whatever it had printed by then, and however the
\* threads replaced its file, what is compared with the best is a whole score: that
\* of the driver which ran, with all the traces behind it.  Here its process also
\* ended with 0 and in time; on the cloud the limit may have come as well, but
\* only after the last line (MdriverTuner.run(), "Reject if ...").
OnlyWholeScores ==
  \A m \in measured :
    /\ Completes(m.ran) /\ m.accuracy = perfindex(m.ran)
    /\ ~awsrun => ~m.timeout /\ m.returncode = 0

\* As long as OpenTuner calls run() on one thread, the perfidx that is kept with
\* a make command is that of the driver the command builds.  (With two threads
\* the ./mdriver of one may be the other's: the lock protects the fields only.)
MeasuredAlone ==
  Cardinality(pool) = 1 =>
    \A m \in measured : m.ran = m.make /\ m.accuracy = perfindex(m.make)

\* Every tuning ends with its best printed.
Saves == <>saved

\* "Reject if the command times out or fails.": the best configuration passes
\* the traces.
BestPassesTraces ==
  saved /\ best_make_cmd # None =>
    \A t \in Traces : Behaves[best_make_cmd][t] = "passes"
=============================================================================
