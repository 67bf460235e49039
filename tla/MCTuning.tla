------------------------------ MODULE MCTuning ------------------------------
\* A search space with one configuration for each way a measurement can end, for
\* TLC: two that pass both traces, one that fails both, and one each that
\* aborts, hangs and does not compile.
EXTENDS Tuning

CONSTANTS slow, fast, wrong, aborting, hanging, uncompiled, t1, t2

SearchSpace == {slow, fast, wrong, aborting, hanging, uncompiled}
TraceDir == {t1, t2}
Compiling == SearchSpace \ {uncompiled}

Behaviour ==
  [c \in SearchSpace |->
     CASE c = wrong    -> [t \in TraceDir |-> "fails"]
       [] c = aborting -> [t \in TraceDir |-> IF t = t1 THEN "aborts" ELSE "passes"]
       [] c = hanging  -> [t \in TraceDir |-> IF t = t1 THEN "hangs" ELSE "aborts"]
       [] OTHER        -> [t \in TraceDir |-> "passes"]]

Losses ==
  [c \in SearchSpace |->
     CASE c = slow -> [t \in TraceDir |-> 3]
       [] c = fast -> [t \in TraceDir |-> 1]
       [] OTHER    -> [t \in TraceDir |-> IF t = t1 THEN 4 ELSE 1]]
=============================================================================
