\* No deadlock check: the tuning ends.
SPECIFICATION Spec
CONSTANTS
  slow = slow
  fast = fast
  wrong = wrong
  aborting = aborting
  hanging = hanging
  uncompiled = uncompiled
  t1 = t1
  t2 = t2
  None = None
  Threads = {w1, w2}
  Configs <- SearchSpace
  Traces <- TraceDir
  Builds <- Compiling
  Behaves <- Behaviour
  Loss <- Losses
  FullScore = 5
  MaxTests = 2
INVARIANTS
  BestPassesTraces
CHECK_DEADLOCK FALSE
