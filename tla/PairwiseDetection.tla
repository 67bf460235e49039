------------------------- MODULE PairwiseDetection -------------------------
(***************************************************************************)
(* What collision detection promises, whatever finds the pairs: in every   *)
(* step each pair of lines that meet is reported, once, and the counter of *)
(* collisions grows by their number.                                       *)
(***************************************************************************)
EXTENDS Integers, FiniteSets

CONSTANT Pairs      \* the pairs of lines, the smaller id first

VARIABLES
  hits,             \* the pairs that meet in this step
  reported,         \* how often each pair was reported in this step
  collisions,       \* the number of collisions of all steps
  running           \* a step is going on

vars == <<hits, reported, collisions, running>>

Nothing == [p \in Pairs |-> 0]

Init == hits = {} /\ reported = Nothing /\ collisions = 0 /\ running = FALSE

Begin == /\ ~running
         /\ hits' \in SUBSET Pairs
         /\ running' = TRUE
         /\ UNCHANGED <<reported, collisions>>

Report(p) == /\ running /\ p \in hits /\ reported[p] = 0
             /\ reported' = [reported EXCEPT ![p] = 1]
             /\ UNCHANGED <<hits, collisions, running>>

End == /\ running
       /\ \A p \in hits : reported[p] = 1
       /\ collisions' = collisions + Cardinality(hits)
       /\ hits' = {} /\ reported' = Nothing /\ running' = FALSE

Next == Begin \/ (\E p \in Pairs : Report(p)) \/ End

Spec == Init /\ [][Next]_vars
=============================================================================
