--------------------------- MODULE OrderedEvents ---------------------------
(***************************************************************************)
(* What the list of intersection events promises: the events reported in a *)
(* time step, in whatever order, are solved once each, in the order of the *)
(* ids of their lines, so that a run does not depend on its scheduling.    *)
(***************************************************************************)
EXTENDS Integers, Sequences, FiniteSets

CONSTANT Events     \* events have fields l1, l2 and type

VARIABLES
  reported,         \* the events of this step
  solved,           \* those the collision solver has been called for
  collisions,       \* the number of events of all steps
  mode              \* "idle", "detect" or "solve"

vars == <<reported, solved, collisions, mode>>

Before(e, f) == e.l1 < f.l1 \/ (e.l1 = f.l1 /\ e.l2 < f.l2)

Unsolved == {e \in reported : \A i \in DOMAIN solved : solved[i] # e}

Init == reported = {} /\ solved = <<>> /\ collisions = 0 /\ mode = "idle"

Begin == /\ mode = "idle" /\ mode' = "detect"
         /\ UNCHANGED <<reported, solved, collisions>>

Report(e) == /\ mode = "detect" /\ e \notin reported
             /\ reported' = reported \cup {e}
             /\ UNCHANGED <<solved, collisions, mode>>

Seal == /\ mode = "detect" /\ mode' = "solve"
        /\ collisions' = collisions + Cardinality(reported)
        /\ UNCHANGED <<reported, solved>>

Solve(e) == /\ mode = "solve" /\ e \in Unsolved
            /\ \A f \in Unsolved : f = e \/ Before(e, f)
            /\ solved' = Append(solved, e)
            /\ UNCHANGED <<reported, collisions, mode>>

End == /\ mode = "solve" /\ Unsolved = {}
       /\ mode' = "idle" /\ reported' = {} /\ solved' = <<>>
       /\ UNCHANGED collisions

Next == Begin \/ Seal \/ End \/ \E e \in Events : Report(e) \/ Solve(e)

Spec == Init /\ [][Next]_vars
=============================================================================
