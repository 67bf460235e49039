----------------------------- MODULE ToolProofs -----------------------------
\* Proofs about the tools around the programs: the parameter tuning, for any number
\* of threads, configurations, traces and tests, and the order of the #include lines
\* the style checker reports, for any number of files and headers.
EXTENDS Tuning, IncludeOrder, FiniteSetTheorems, TLAPS

-----------------------------------------------------------------------------
(* The parameter tuning.                                                   *)

\* The three fields are those of one of the measured runs, and none was better.
Kept ==
  /\ \A m \in measured : m.accuracy <= best_accuracy
  /\ \/ best_accuracy = 0 /\ best_make_cmd = None /\ best_bin_cmd = FALSE
     \/ /\ best_bin_cmd = TRUE
        /\ \E m \in measured : m.accuracy = best_accuracy /\ m.make = best_make_cmd

\* The run of the thread that updates the fields is the best measured.
Won(w) ==
  /\ accuracy[w] = best_accuracy
  /\ Measurement(w) \in measured
  /\ \A m \in measured : m.accuracy <= best_accuracy

\* One thread updates at a time, and what it has done up to each of its steps.
LockInv ==
  /\ \A w \in Threads : pc[w] \in Updating <=> lock = w
  /\ lock = None => Kept
  /\ \A w \in Threads :
       /\ pc[w] \in {"compare", "release"} => Kept
       /\ pc[w] \in {"make_cmd", "set_bin_cmd"} => Won(w)
       /\ pc[w] = "set_bin_cmd" => best_make_cmd = cfg[w]

\* A result that stands for the whole score of the driver of c.
Whole(c, out, a) ==
  /\ Completes(c) /\ a = perfindex(c)
  /\ ~awsrun => ~out.timeout /\ out.returncode = 0

\* Past the rejection there are only such results.
WholeInv ==
  /\ \A w \in Threads : pc[w] \in Updating \cup {"lock"} => Whole(process[w], run_result[w], accuracy[w])
  /\ \A m \in measured : Whole(m.ran, m, m.accuracy)

\* What is accepted has the last line of its program, here or on the cloud.
LEMMA AcceptedIsWhole ==
  ASSUME NEW c, NEW out \in Outputs(c), awsrun \in BOOLEAN, Accepted(out)
  PROVE  out \in Results /\ "perfidx" \in out.score /\ Whole(c, out, perfindex(c))
<1>1. out \in Results /\ (out.score # {} => Completes(c))
      /\ (~awsrun /\ out.returncode = 0 => out.score = Statistics)
  BY DEF Outputs
<1>2. CASE awsrun
  <2>1. "runtime" \in out.score /\ out.score \in ScoreLines
    BY <1>2 DEF Accepted, Outputs
  <2>2. out.score = Statistics
    BY <2>1 DEF ScoreLines
  <2>. QED
    BY <1>1, <1>2, <2>1, <2>2 DEF Whole, Statistics
<1>3. CASE ~awsrun
  <2>1. ~out.timeout /\ out.returncode = 0
    BY <1>3 DEF Accepted
  <2>2. out.score = Statistics
    BY <1>1, <1>3, <2>1
  <2>3. "perfidx" \in out.score
    BY <2>2 DEF Statistics
  <2>. QED
    BY <1>1, <2>1, <2>3 DEF Whole
<1>. QED
  BY <1>2, <1>3

LEMMA NoResultIsResult == NoResult \in Results
  BY DEF NoResult, Results

\* How finish(w) takes a result.
Ended(w, out) ==
  IF Accepted(out)
  THEN /\ run_result' = [run_result EXCEPT ![w] = out]
       /\ accuracy' = [accuracy EXCEPT
                         ![w] = IF "perfidx" \in out.score THEN perfindex(process[w]) ELSE 0]
       /\ Goto(w, "lock") /\ UNCHANGED <<cfg, process>>
  ELSE Return(w)

\* No step leaves the types.
THEOREM TypeCorrect == Spec => []TypeOK
<1>. USE DEF Updating
<1>1. Init => TypeOK
  <2>. SUFFICES ASSUME Init
                PROVE  TypeOK
    OBVIOUS
  <2>1. tests \in 0..MaxTests
    BY TuningAssumption DEF Init
  <2>2. measured \subseteq Measurements
    BY DEF Init
  <2>3. accuracy \in [Threads -> Int] /\ run_result \in [Threads -> Results]
    BY NoResultIsResult DEF Init
  <2>4. /\ pc \in [Threads -> Updating \cup {"idle", "partial_clean", "make", "link", "bin_cmd", "running", "lock"}]
        /\ cfg \in [Threads -> Configs \cup {None}]
        /\ process \in [Threads -> Configs \cup {None}]
    BY DEF Init
  <2>5. awsrun \in BOOLEAN /\ saved \in BOOLEAN /\ best_bin_cmd \in BOOLEAN
    BY DEF Init
  <2>6. pool \in (SUBSET Threads) \ {{}}
    BY DEF Init
  <2>7. /\ mdriver \in Configs \cup {None} /\ lock \in Threads \cup {None}
        /\ best_accuracy \in Int /\ best_make_cmd \in Configs \cup {None}
    BY DEF Init
  <2>. QED
    BY <2>1, <2>2, <2>3, <2>4, <2>5, <2>6, <2>7 DEF TypeOK
<1>2. TypeOK /\ [Next]_vars => TypeOK'
  <2>. SUFFICES ASSUME TypeOK, [Next]_vars
                PROVE  TypeOK'
    OBVIOUS
  <2>. USE DEF TypeOK, build, run, best, Goto
  <2>1. CASE save_final_config
    BY <2>1 DEF save_final_config
  <2>2. ASSUME NEW w \in pool, Call(w)
        PROVE  TypeOK'
    BY <2>2, TuningAssumption DEF Call
  <2>3. ASSUME NEW w \in pool, partial_clean(w)
        PROVE  TypeOK'
    BY <2>3 DEF partial_clean
  <2>4. ASSUME NEW w \in pool, make(w)
        PROVE  TypeOK'
    <3>1. CASE Return(w)
      BY <2>4, <3>1, NoResultIsResult DEF make, Return
    <3>2. CASE UNCHANGED <<cfg, process, run_result, accuracy>>
      BY <2>4, <3>2 DEF make, Return
    <3>. QED
      BY <2>4, <3>1, <3>2 DEF make
  <2>13. ASSUME NEW w \in pool, link(w)
         PROVE  TypeOK'
    <3>1. CASE Return(w)
      BY <2>13, <3>1, NoResultIsResult DEF link, Return
    <3>2. CASE UNCHANGED <<cfg, process, run_result, accuracy>>
      BY <2>13, <3>2 DEF link, Return
    <3>. QED
      BY <2>13, <3>1, <3>2 DEF link
  <2>5. ASSUME NEW w \in pool, start(w)
        PROVE  TypeOK'
    BY <2>5 DEF start
  <2>6. ASSUME NEW w \in pool, finish(w)
        PROVE  TypeOK'
    <3>1. PICK out \in Outputs(process[w]) : Ended(w, out)
      BY <2>6 DEF finish, Ended
    <3>2. CASE Accepted(out)
      <4>1. out \in Results /\ perfindex(process[w]) \in Int
        BY <3>2, AcceptedIsWhole, PerfindexAssumption DEF Whole, Completes
      <4>. QED
        BY <2>6, <3>1, <3>2, <4>1 DEF finish, Ended
    <3>3. CASE ~Accepted(out)
      BY <2>6, <3>1, <3>3, NoResultIsResult DEF finish, Ended, Return
    <3>. QED
      BY <3>2, <3>3
  <2>7. ASSUME NEW w \in pool, acquire(w)
        PROVE  TypeOK'
    BY <2>7 DEF acquire
  <2>8. ASSUME NEW w \in pool, compare(w)
        PROVE  TypeOK'
    <3>1. Measurement(w) \in Measurements
      <4>1. /\ cfg[w] \in Configs \cup {None} /\ process[w] \in Configs \cup {None}
            /\ accuracy[w] \in Int /\ run_result[w] \in Results
        OBVIOUS
      <4>2. run_result[w].timeout \in BOOLEAN /\ run_result[w].returncode \in {0, 1}
        BY <4>1 DEF Results
      <4>. QED
        BY <4>1, <4>2 DEF Measurement, Measurements
    <3>2. measured' \subseteq Measurements
      BY <2>8, <3>1 DEF compare
    <3>. QED
      BY <2>8, <3>2 DEF compare
  <2>9. ASSUME NEW w \in pool, set_make_cmd(w)
        PROVE  TypeOK'
    BY <2>9 DEF set_make_cmd
  <2>10. ASSUME NEW w \in pool, set_bin_cmd(w)
         PROVE  TypeOK'
    BY <2>10 DEF set_bin_cmd
  <2>11. ASSUME NEW w \in pool, release(w)
         PROVE  TypeOK'
    BY <2>11, NoResultIsResult DEF release, Return
  <2>12. CASE UNCHANGED vars
    BY <2>12 DEF vars
  <2>. QED
    BY <2>1, <2>2, <2>3, <2>4, <2>5, <2>6, <2>7, <2>8, <2>9, <2>10, <2>11, <2>12, <2>13
    DEF Next, Step, Update
<1>. QED
  BY <1>1, <1>2, PTL DEF Spec
-----------------------------------------------------------------------------
LEMMA LockInit == Init => LockInv /\ WholeInv
  BY TuningAssumption DEF Init, LockInv, Kept, WholeInv, Updating

\* Only the thread that has the lock touches what LockInv speaks of.
LEMMA LockStep ==
  ASSUME TypeOK, LockInv, [Next]_vars
  PROVE  LockInv'
<1>. USE DEF TypeOK, build, run, best, Goto, Updating
<1>1. ASSUME NEW w \in pool,
             Call(w) \/ partial_clean(w) \/ make(w) \/ link(w) \/ start(w) \/ finish(w)
      PROVE  LockInv'
  <2>1. UNCHANGED <<lock, best, measured>>
    BY <1>1 DEF Call, partial_clean, make, link, start, finish
  <2>2. /\ w \in Threads /\ pc[w] \notin Updating /\ pc'[w] \notin Updating
        /\ \A v \in Threads \ {w} : /\ pc'[v] = pc[v] /\ cfg'[v] = cfg[v]
                                    /\ process'[v] = process[v] /\ accuracy'[v] = accuracy[v]
                                    /\ run_result'[v] = run_result[v]
    BY <1>1 DEF Call, partial_clean, make, link, start, finish, Return
  <2>3. \A v \in Threads : pc'[v] \in Updating <=> lock' = v
    BY <2>1, <2>2 DEF LockInv
  <2>4. lock' = None => Kept'
    BY <2>1 DEF LockInv, Kept
  <2>5. ASSUME NEW v \in Threads
        PROVE  /\ pc'[v] \in {"compare", "release"} => Kept'
               /\ pc'[v] \in {"make_cmd", "set_bin_cmd"} => Won(v)'
               /\ pc'[v] = "set_bin_cmd" => best_make_cmd' = cfg'[v]
    <3>1. CASE v = w
      BY <2>2, <3>1
    <3>2. CASE v # w
      BY <2>1, <2>2, <3>2 DEF LockInv, Kept, Won, Measurement
    <3>. QED
      BY <3>1, <3>2
  <2>. QED
    BY <2>3, <2>4, <2>5 DEF LockInv
<1>2. ASSUME NEW w \in pool, Update(w)
      PROVE  LockInv'
  <2>1. /\ w \in Threads
        /\ release(w) \/ UNCHANGED <<cfg, process, run_result, accuracy>>
        /\ \A v \in Threads \ {w} : pc'[v] = pc[v] /\ pc'[v] \notin Updating
    BY <1>2, TuningAssumption
    DEF Update, acquire, compare, set_make_cmd, set_bin_cmd, release, Return, LockInv
  <2>2. CASE acquire(w)
    BY <2>1, <2>2 DEF acquire, LockInv, Kept
  <2>3. CASE compare(w)
    <3>1. Kept /\ lock = w /\ lock' = w
      BY <2>1, <2>3 DEF compare, LockInv
    <3>2. measured' = measured \cup {Measurement(w)} /\ Measurement(w).accuracy = accuracy[w]
          /\ Measurement(w)' = Measurement(w) /\ UNCHANGED accuracy
      BY <2>1, <2>3 DEF compare, Measurement
    <3>3. \A m \in measured : m.accuracy \in Int
      BY DEF Measurements
    <3>4. CASE Better(w)
      <4>1. best_accuracy' = accuracy[w] /\ pc'[w] = "make_cmd"
        BY <2>1, <2>3, <3>4 DEF compare
      <4>2. \A m \in measured' : m.accuracy <= best_accuracy'
        BY <2>1, <3>1, <3>2, <3>3, <3>4, <4>1 DEF Kept, Better
      <4>3. Won(w)'
        BY <2>1, <3>2, <4>1, <4>2 DEF Won
      <4>. QED
        BY <2>1, <3>1, <4>1, <4>3, TuningAssumption DEF LockInv
    <3>5. CASE ~Better(w)
      <4>1. UNCHANGED best /\ pc'[w] = "release"
        BY <2>1, <2>3, <3>5 DEF compare
      <4>2. accuracy[w] <= best_accuracy
        BY <2>1, <3>5 DEF Better
      <4>3. Kept'
        BY <3>1, <3>2, <4>1, <4>2 DEF Kept
      <4>. QED
        BY <2>1, <3>1, <4>1, <4>3, TuningAssumption DEF LockInv
    <3>. QED
      BY <3>4, <3>5
  <2>4. CASE set_make_cmd(w)
    <3>1. Won(w) /\ lock = w /\ lock' = w
      BY <2>1, <2>4 DEF set_make_cmd, LockInv
    <3>2. Won(w)' /\ pc'[w] = "set_bin_cmd" /\ best_make_cmd' = cfg'[w]
      BY <2>1, <2>4, <3>1 DEF set_make_cmd, Won, Measurement
    <3>. QED
      BY <2>1, <3>1, <3>2, TuningAssumption DEF LockInv
  <2>5. CASE set_bin_cmd(w)
    <3>1. Won(w) /\ best_make_cmd = cfg[w] /\ lock = w /\ lock' = w
      BY <2>1, <2>5 DEF set_bin_cmd, LockInv
    <3>2. Measurement(w).accuracy = accuracy[w] /\ Measurement(w).make = cfg[w]
      BY DEF Measurement
    <3>3. Kept' /\ pc'[w] = "release"
      BY <2>1, <2>5, <3>1, <3>2 DEF set_bin_cmd, Won, Kept
    <3>. QED
      BY <2>1, <3>1, <3>3, TuningAssumption DEF LockInv
  <2>6. CASE release(w)
    <3>1. Kept /\ UNCHANGED <<best, measured>>
      BY <2>1, <2>6 DEF release, LockInv
    <3>2. Kept'
      BY <3>1 DEF Kept
    <3>. QED
      BY <2>1, <2>6, <3>2, TuningAssumption DEF release, Return, LockInv
  <2>. QED
    BY <1>2, <2>2, <2>3, <2>4, <2>5, <2>6 DEF Update
<1>3. ASSUME save_final_config \/ UNCHANGED vars
      PROVE  LockInv'
  BY <1>3 DEF save_final_config, vars, LockInv, Kept, Won, Measurement
<1>. QED
  BY <1>1, <1>2, <1>3 DEF Next, Step

\* The rejection lets nothing else to the comparison.
LEMMA WholeStep ==
  ASSUME TypeOK, WholeInv, [Next]_vars
  PROVE  WholeInv'
<1>. USE DEF TypeOK, build, run, best, Goto, Updating
<1>1. ASSUME NEW w \in pool, Call(w) \/ partial_clean(w) \/ make(w) \/ link(w) \/ start(w) \/ release(w)
      PROVE  WholeInv'
  <2>1. /\ w \in Threads /\ pc'[w] \notin Updating \cup {"lock"} /\ UNCHANGED <<awsrun, measured>>
        /\ \A v \in Threads \ {w} : /\ pc'[v] = pc[v] /\ process'[v] = process[v]
                                    /\ run_result'[v] = run_result[v] /\ accuracy'[v] = accuracy[v]
    BY <1>1 DEF Call, partial_clean, make, link, start, release, Return
  <2>. QED
    BY <2>1 DEF WholeInv, Whole
<1>2. ASSUME NEW w \in pool, finish(w)
      PROVE  WholeInv'
  <2>1. PICK out \in Outputs(process[w]) : Ended(w, out)
    BY <1>2 DEF finish, Ended
  <2>2. CASE Accepted(out)
    <3>1. "perfidx" \in out.score /\ Whole(process[w], out, perfindex(process[w]))
      BY <2>2, AcceptedIsWhole
    <3>2. run_result'[w] = out /\ accuracy'[w] = perfindex(process[w])
      BY <2>1, <2>2, <3>1 DEF Ended
    <3>3. /\ UNCHANGED <<awsrun, process, measured>>
          /\ \A v \in Threads \ {w} : /\ pc'[v] = pc[v] /\ run_result'[v] = run_result[v]
                                      /\ accuracy'[v] = accuracy[v]
      BY <1>2, <2>1, <2>2 DEF finish, Ended
    <3>. QED
      BY <3>1, <3>2, <3>3 DEF WholeInv, Whole
  <2>3. CASE ~Accepted(out)
    <3>1. /\ w \in Threads /\ pc'[w] = "idle" /\ UNCHANGED <<awsrun, measured>>
          /\ \A v \in Threads \ {w} : /\ pc'[v] = pc[v] /\ process'[v] = process[v]
                                      /\ run_result'[v] = run_result[v] /\ accuracy'[v] = accuracy[v]
      BY <1>2, <2>1, <2>3 DEF finish, Ended, Return
    <3>. QED
      BY <3>1 DEF WholeInv, Whole
  <2>. QED
    BY <2>2, <2>3
<1>3. ASSUME NEW w \in pool, acquire(w) \/ compare(w) \/ set_make_cmd(w) \/ set_bin_cmd(w)
      PROVE  WholeInv'
  <2>1. /\ UNCHANGED <<awsrun, process, run_result, accuracy>> /\ pc[w] \in Updating \cup {"lock"}
        /\ \A v \in Threads \ {w} : pc'[v] = pc[v]
    BY <1>3 DEF acquire, compare, set_make_cmd, set_bin_cmd
  <2>2. measured' \subseteq measured \cup {Measurement(w)}
    BY <1>3 DEF acquire, compare, set_make_cmd, set_bin_cmd
  <2>3. Whole(process[w], run_result[w], accuracy[w])
    BY <2>1 DEF WholeInv
  <2>4. Whole(Measurement(w).ran, Measurement(w), Measurement(w).accuracy)
    BY <2>3 DEF Whole, Measurement
  <2>. QED
    BY <2>1, <2>2, <2>3, <2>4 DEF WholeInv, Whole
<1>4. ASSUME save_final_config \/ UNCHANGED vars
      PROVE  WholeInv'
  BY <1>4 DEF save_final_config, vars, WholeInv, Whole
<1>. QED
  BY <1>1, <1>2, <1>3, <1>4 DEF Next, Step, Update

\* With the lock free, make_cmd, bin_cmd and perfidx are those of one run, and it
\* is the best of all that were measured: for any number of threads.
THEOREM BestIsKept == Spec => []BestIsMax
<1>1. LockInv => BestIsMax
  BY DEF LockInv, Kept, BestIsMax
<1>2. Init => LockInv
  BY LockInit
<1>3. TypeOK /\ LockInv /\ [Next]_vars => LockInv'
  BY LockStep
<1>. QED
  BY <1>1, <1>2, <1>3, TypeCorrect, PTL DEF Spec

\* However the processes end and whatever they have printed by then, what is
\* compared with the best is the whole score of the driver that ran.
THEOREM WholeScoresOnly == Spec => []OnlyWholeScores
<1>1. WholeInv => OnlyWholeScores
  BY DEF WholeInv, Whole, OnlyWholeScores
<1>2. Init => WholeInv
  BY LockInit
<1>3. TypeOK /\ WholeInv /\ [Next]_vars => WholeInv'
  BY WholeStep
<1>. QED
  BY <1>1, <1>2, <1>3, TypeCorrect, PTL DEF Spec
-----------------------------------------------------------------------------
\* What the one thread w of a tuning has built, started and measured so far.
AloneInv(w) ==
  /\ pc[w] \in {"make", "link"} => mdriver = None
  /\ pc[w] = "bin_cmd" => mdriver = cfg[w]
  /\ pc[w] \in {"running", "lock"} \cup Updating => process[w] = cfg[w]
  /\ pc[w] \in {"lock"} \cup Updating => accuracy[w] = perfindex(cfg[w])
  /\ \A m \in measured : m.ran = m.make /\ m.accuracy = perfindex(m.make)

Alone == \A w \in Threads : pool = {w} => AloneInv(w)

LEMMA AloneStep ==
  ASSUME TypeOK, Alone, [Next]_vars
  PROVE  Alone'
<1>. SUFFICES ASSUME NEW w \in Threads, pool' = {w}
              PROVE  AloneInv(w)'
  BY DEF Alone
<1>. USE DEF TypeOK, build, run, best, Goto, Updating
<1>1. pool = {w}
  BY DEF Next, save_final_config, Call, Step, Update, partial_clean, make, link, start, finish,
         acquire, compare, set_make_cmd, set_bin_cmd, release, vars
<1>2. AloneInv(w)
  BY <1>1 DEF Alone
<1>3. CASE Call(w) \/ partial_clean(w) \/ start(w)
  BY <1>2, <1>3 DEF Call, partial_clean, start, AloneInv
<1>4. CASE make(w) \/ link(w)
  BY <1>2, <1>4, TuningAssumption DEF make, link, Return, AloneInv
<1>5. CASE finish(w)
  <2>1. PICK out \in Outputs(process[w]) : Ended(w, out)
    BY <1>5 DEF finish, Ended
  <2>2. process[w] = cfg[w] /\ UNCHANGED <<mdriver, measured>>
    BY <1>2, <1>5 DEF finish, AloneInv
  <2>3. CASE Accepted(out)
    <3>1. "perfidx" \in out.score
      BY <2>3, AcceptedIsWhole
    <3>2. UNCHANGED <<cfg, process>> /\ pc'[w] = "lock" /\ accuracy'[w] = perfindex(process[w])
      BY <2>1, <2>3, <3>1 DEF Ended
    <3>. QED
      BY <1>2, <2>2, <3>2 DEF AloneInv
  <2>4. CASE ~Accepted(out)
    BY <1>2, <2>1, <2>2, <2>4 DEF Ended, Return, AloneInv
  <2>. QED
    BY <2>3, <2>4
<1>6. CASE acquire(w) \/ compare(w) \/ set_make_cmd(w) \/ set_bin_cmd(w)
  <2>1. /\ UNCHANGED <<cfg, process, accuracy>> /\ pc[w] \in {"lock"} \cup Updating
        /\ pc'[w] \notin {"make", "link", "bin_cmd"}
        /\ measured' \subseteq measured \cup {Measurement(w)}
    BY <1>6 DEF acquire, compare, set_make_cmd, set_bin_cmd
  <2>2. Measurement(w).ran = Measurement(w).make /\ Measurement(w).accuracy = perfindex(Measurement(w).make)
    BY <1>2, <2>1 DEF AloneInv, Measurement
  <2>. QED
    BY <1>2, <2>1, <2>2 DEF AloneInv
<1>8. CASE release(w)
  BY <1>2, <1>8 DEF release, Return, AloneInv
<1>7. CASE save_final_config \/ UNCHANGED vars
  BY <1>2, <1>7 DEF save_final_config, vars, AloneInv
<1>. QED
  BY <1>1, <1>3, <1>4, <1>5, <1>6, <1>7, <1>8 DEF Next, Step, Update

\* On one thread, the perfidx that is compared and kept is that of the driver
\* the make command builds: the file was removed, built anew and run as built.
THEOREM OneThreadMeasures == Spec => []MeasuredAlone
<1>1. TypeOK /\ Alone => MeasuredAlone
  <2>. SUFFICES ASSUME TypeOK, Alone, Cardinality(pool) = 1
                PROVE  \A m \in measured : m.ran = m.make /\ m.accuracy = perfindex(m.make)
    BY DEF MeasuredAlone
  <2>1. IsFiniteSet(pool)
    BY TuningAssumption, FS_Subset DEF TypeOK
  <2>2. PICK w : pool = {w}
    BY <2>1, FS_Singleton
  <2>. QED
    BY <2>2 DEF TypeOK, Alone, AloneInv
<1>2. Init => Alone
  BY DEF Init, Alone, AloneInv, Updating
<1>3. TypeOK /\ Alone /\ [Next]_vars => Alone'
  BY AloneStep
<1>. QED
  BY <1>1, <1>2, <1>3, TypeCorrect, PTL DEF Spec

-----------------------------------------------------------------------------
(* The order of the #include lines: its types, what silence means, and that *)
(* the sections only advance.                                               *)

LEMMA SectionsAllowed ==
  ASSUME NEW t \in HeaderTypes, NEW k \in 0..4
  PROVE  /\ SectionOf(t, k) \in 1..4 /\ SectionOf(t, k) \in Allowed(t)
         /\ NextSection(t, k) \in 0..4 /\ k <= NextSection(t, k)
         /\ ~OutOfOrder(t, k) => NextSection(t, k) = SectionOf(t, k)
<1>1. SectionOf(t, k) \in 1..4 /\ SectionOf(t, k) \in Allowed(t)
  <2> USE DEF C_SECTION, CPP_SECTION, OTHER_H_SECTION, MY_H_SECTION
  <2> DEFINE s == SectionOf(t, k)
  <2>1. CASE t = C_SYS_HEADER
    <3>1. s = 2 /\ Allowed(t) = {2}
      BY <2>1 DEF SectionOf, Allowed
    <3> QED BY <3>1
  <2>2. CASE t = CPP_SYS_HEADER
    <3>1. s = 3 /\ Allowed(t) = {3}
      BY <2>2 DEF SectionOf, Allowed, C_SYS_HEADER, CPP_SYS_HEADER
    <3> QED BY <3>1
  <2>3. CASE t = OTHER_HEADER
    <3>1. s = 4 /\ Allowed(t) = {4}
      BY <2>3 DEF SectionOf, Allowed, C_SYS_HEADER, CPP_SYS_HEADER, LIKELY_MY_HEADER,
         POSSIBLE_MY_HEADER, OTHER_HEADER
    <3> QED BY <3>1
  <2>4. CASE t \in {LIKELY_MY_HEADER, POSSIBLE_MY_HEADER}
    <3>1. t # C_SYS_HEADER /\ t # CPP_SYS_HEADER /\ t # OTHER_HEADER
      BY <2>4 DEF C_SYS_HEADER, CPP_SYS_HEADER, LIKELY_MY_HEADER, POSSIBLE_MY_HEADER, OTHER_HEADER
    <3>2. s = MineAt(k) /\ Allowed(t) = {1, 4}
      BY <2>4, <3>1 DEF SectionOf, Allowed
    <3>3. MineAt(k) \in {1, 4}
      BY DEF MineAt
    <3> QED BY <3>2, <3>3
  <2> QED BY <2>1, <2>2, <2>3, <2>4 DEF HeaderTypes
<1>2. NextSection(t, k) \in 0..4 /\ k <= NextSection(t, k)
  BY <1>1 DEF NextSection, OutOfOrder
<1>3. ~OutOfOrder(t, k) => NextSection(t, k) = SectionOf(t, k)
  BY DEF NextSection
<1> QED BY <1>1, <1>2, <1>3

LEMMA LastIsNat ==
  ASSUME NEW t \in HeaderTypes, NEW k \in 0..4, NEW l \in Nat, NEW p \in Nat
  PROVE  NextLast(t, k, l, p) \in Nat
  BY DEF NextLast, LastBefore

\* The state of the class keeps its type.
THEOREM OrderTypeCorrect == OrderSpec => []OrderTypeOK
<1>1. OrderInit => OrderTypeOK
  BY DEF OrderInit, OrderTypeOK, INITIAL_SECTION
<1>2. OrderTypeOK /\ [OrderNext]_orderVars => OrderTypeOK'
  <2> SUFFICES ASSUME OrderTypeOK, [OrderNext]_orderVars PROVE OrderTypeOK'
    OBVIOUS
  <2>1. ASSUME NEW h \in Header, Include(h) PROVE OrderTypeOK'
    <3>1. h.type \in HeaderTypes /\ h.place \in Nat
      BY PlacesAssumption DEF Header
    <3>2. section' \in 0..4
      BY <2>1, <3>1, SectionsAllowed DEF Include, OrderTypeOK
    <3>3. last_header' \in Nat
      BY <2>1, <3>1, LastIsNat DEF Include, OrderTypeOK
    <3>4. includes' \in Seq(Header)
      BY <2>1 DEF Include, OrderTypeOK
    <3>5. silent' \in BOOLEAN
      BY <2>1 DEF Include
    <3> QED BY <3>2, <3>3, <3>4, <3>5 DEF OrderTypeOK
  <2>2. CASE NextFile
    BY <2>2 DEF NextFile, OrderTypeOK, INITIAL_SECTION
  <2>3. CASE UNCHANGED orderVars
    BY <2>3 DEF orderVars, OrderTypeOK
  <2> QED BY <2>1, <2>2, <2>3 DEF OrderNext
<1> QED BY <1>1, <1>2, PTL DEF OrderSpec

\* While nothing was reported, the includes have an arrangement that ends in the
\* present section with the last header.
At(hs, s, k, last) ==
  LET n == Len(hs)
  IN  IF n = 0 THEN k = 0 /\ last = 0
      ELSE s[n] = k /\ hs[n].place = last
ArrangedSoFar ==
  silent => \E s \in [1..Len(includes) -> 1..4] :
              Arranged(includes, s) /\ At(includes, s, section, last_header)

LEMMA IncludeArranges ==
  ASSUME OrderTypeOK, ArrangedSoFar, NEW h \in Header, Include(h)
  PROVE  ArrangedSoFar'
<1> SUFFICES ASSUME silent'
             PROVE  \E s \in [1..Len(includes') -> 1..4] :
                      Arranged(includes', s) /\ At(includes', s, section', last_header')
  BY DEF ArrangedSoFar
<1> DEFINE n == Len(includes)
<1>1. /\ silent /\ ~OutOfOrder(h.type, section)
      /\ IsInAlphabeticalOrder(h.place, LastBefore(h.type, section, last_header))
  BY DEF Include
<1>2. PICK s \in [1..n -> 1..4] : Arranged(includes, s) /\ At(includes, s, section, last_header)
  BY <1>1 DEF ArrangedSoFar
<1>3. h.type \in HeaderTypes /\ h.place \in Nat /\ n \in Nat /\ section \in 0..4 /\ last_header \in Nat
      /\ \A i \in 1..n : includes[i].place \in Nat
  <2>1. \A i \in 1..n : includes[i] \in Header
    BY DEF OrderTypeOK
  <2>2. \A i \in 1..n : includes[i].place \in Nat
    BY <2>1, PlacesAssumption DEF Header
  <2>3. h.type \in HeaderTypes /\ h.place \in Nat
    BY PlacesAssumption DEF Header
  <2>4. n \in Nat /\ section \in 0..4 /\ last_header \in Nat
    BY DEF OrderTypeOK
  <2> QED BY <2>2, <2>3, <2>4
<1>4. /\ includes' = Append(includes, h) /\ Len(includes') = n + 1 /\ includes'[n + 1] = h
      /\ \A i \in 1..n : includes'[i] = includes[i]
  BY DEF Include, OrderTypeOK
<1>5. section' = SectionOf(h.type, section) /\ section' \in 1..4 /\ section' \in Allowed(h.type)
      /\ section <= section'
  BY <1>1, <1>3, SectionsAllowed DEF Include
<1>6. last_header' = h.place
  BY <1>1 DEF Include, NextLast
<1>7. section' = section => last_header <= h.place
  BY <1>1 DEF IsInAlphabeticalOrder, LastBefore, Include
<1> DEFINE t == [i \in 1..(n + 1) |-> IF i = n + 1 THEN section' ELSE s[i]]
<1>8. t \in [1..(n + 1) -> 1..4] /\ t[n + 1] = section' /\ \A i \in 1..n : t[i] = s[i]
  BY <1>3, <1>5
<1>9. ASSUME NEW i \in 1..n
      PROVE  /\ t[i] <= t[n + 1]
             /\ t[i] = t[n + 1] => includes'[i].place <= h.place
  <2>1. s[n] = section /\ includes[n].place = last_header /\ n \in 1..n
    BY <1>2, <1>3 DEF At
  <2>2. s[i] <= section /\ (s[i] = section => includes[i].place <= last_header)
    <3>1. CASE i = n
      BY <3>1, <2>1, <1>3
    <3>2. CASE i < n
      BY <3>2, <2>1, <1>2 DEF Arranged
    <3> QED BY <3>1, <3>2, <1>3
  <2>3. includes[i].place \in Nat /\ s[i] \in 1..4
    BY <1>2, <1>3
  <2>4. t[i] <= t[n + 1]
    BY <2>2, <2>3, <1>3, <1>5, <1>8
  <2>5. ASSUME t[i] = t[n + 1] PROVE includes'[i].place <= h.place
    <3>1. s[i] = section /\ section' = section
      BY <2>5, <2>2, <2>3, <1>3, <1>5, <1>8
    <3>2. includes[i].place <= last_header /\ last_header <= h.place
      BY <3>1, <2>2, <1>7
    <3> QED BY <3>2, <2>3, <1>3, <1>4
  <2> QED BY <2>4, <2>5
<1>10. Arranged(includes', t)
  <2>1. \A i \in 1..(n + 1) : t[i] \in Allowed(includes'[i].type)
    BY <1>2, <1>3, <1>4, <1>5, <1>8 DEF Arranged
  <2>2. ASSUME NEW i \in 1..(n + 1), NEW j \in 1..(n + 1), i < j
        PROVE  t[i] <= t[j] /\ (t[i] = t[j] => includes'[i].place <= includes'[j].place)
    <3>1. CASE j = n + 1
      <4>1. i \in 1..n
        BY <3>1, <2>2, <1>3
      <4> HIDE DEF t
      <4> QED BY <3>1, <4>1, <1>4, <1>9
    <3>2. CASE j # n + 1
      <4>1. i \in 1..n /\ j \in 1..n
        BY <3>2, <2>2, <1>3
      <4> QED BY <4>1, <2>2, <1>2, <1>4, <1>8 DEF Arranged
    <3> QED BY <3>1, <3>2
  <2> QED BY <2>1, <2>2, <1>4 DEF Arranged
<1>11. At(includes', t, section', last_header')
  BY <1>3, <1>4, <1>6, <1>8 DEF At
<1> HIDE DEF t
<1> QED BY <1>4, <1>8, <1>10, <1>11

\* Silence means that the includes are in the documented order.
THEOREM SilenceMeansSorted == OrderSpec => []SilentIfSorted
<1>1. OrderInit => ArrangedSoFar
  <2> SUFFICES ASSUME OrderInit PROVE ArrangedSoFar
    OBVIOUS
  <2> DEFINE s == [i \in 1..0 |-> 1]
  <2>1. s \in [1..Len(includes) -> 1..4] /\ Arranged(includes, s) /\ At(includes, s, section, last_header)
    BY DEF OrderInit, Arranged, At, INITIAL_SECTION
  <2> QED BY <2>1 DEF ArrangedSoFar
<1>2. OrderTypeOK /\ ArrangedSoFar /\ [OrderNext]_orderVars => ArrangedSoFar'
  <2> SUFFICES ASSUME OrderTypeOK, ArrangedSoFar, [OrderNext]_orderVars PROVE ArrangedSoFar'
    OBVIOUS
  <2>1. ASSUME NEW h \in Header, Include(h) PROVE ArrangedSoFar'
    BY <2>1, IncludeArranges
  <2>2. CASE NextFile
    <3> DEFINE s == [i \in 1..0 |-> 1]
    <3>1. s \in [1..Len(includes') -> 1..4] /\ Arranged(includes', s) /\ At(includes', s, section', last_header')
      BY <2>2 DEF NextFile, Arranged, At, INITIAL_SECTION
    <3> QED BY <3>1 DEF ArrangedSoFar
  <2>3. CASE UNCHANGED orderVars
    BY <2>3 DEF orderVars, ArrangedSoFar, At, Arranged
  <2> QED BY <2>1, <2>2, <2>3 DEF OrderNext
<1>3. ArrangedSoFar => SilentIfSorted
  BY DEF ArrangedSoFar, SilentIfSorted
<1> QED BY <1>1, <1>2, <1>3, OrderTypeCorrect, PTL DEF OrderSpec

\* The section never goes back within a file.
THEOREM SectionsAdvance == OrderSpec => SectionAdvances
<1>1. OrderTypeOK /\ [OrderNext]_orderVars => [section <= section' \/ NextFile]_orderVars
  <2> SUFFICES ASSUME OrderTypeOK, OrderNext PROVE section <= section' \/ NextFile
    OBVIOUS
  <2>1. ASSUME NEW h \in Header, Include(h) PROVE section <= section'
    BY <2>1, SectionsAllowed DEF Include, OrderTypeOK, Header
  <2> QED BY <2>1 DEF OrderNext
<1> QED BY <1>1, OrderTypeCorrect, PTL DEF OrderSpec, SectionAdvances
=============================================================================
