----------------------------- MODULE MCEventList -----------------------------
(***************************************************************************)
(* What the strands may find: up to four events on four lines, each with a *)
(* type of its own and never the same pair twice, found by four strands in *)
(* any order.  Addresses are interchangeable.                              *)
(***************************************************************************)
EXTENDS EventList, TLC

Event(l1, l2, type) == [l1 |-> l1, l2 |-> l2, type |-> type]
FourEvents == {Event(1, 2, "L1_WITH_L2"), Event(1, 3, "L2_WITH_L1"),
               Event(2, 3, "ALREADY_INTERSECTED"), Event(2, 4, "L1_WITH_L2")}

\* The ways to share a sequence of events among four strands
Cuts(s)   == {c \in [1..3 -> 0..Len(s)] : c[1] <= c[2] /\ c[2] <= c[3]}
Shared(s) == {<<SubSeq(s, 1, c[1]), SubSeq(s, c[1] + 1, c[2]),
                SubSeq(s, c[2] + 1, c[3]), SubSeq(s, c[3] + 1, Len(s))>> : c \in Cuts(s)}

Found == UNION {Shared(s) : s \in UNION {SetToSeqs(es) : es \in SUBSET FourEvents}}

ASSUME EventsFoundOnce == FoundOnce

AnyAddress == Permutations(Addresses)
=============================================================================
