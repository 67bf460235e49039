----------------------------- MODULE MCRotation -----------------------------
(***************************************************************************)
(* Images of one to nine words by row, with words of four bits in bytes of *)
(* two; of up to three words of eight bits; and one of 64 bits, as in the  *)
(* code.                                                                   *)
(***************************************************************************)
EXTENDS RotationProgram

Machine(word, byte, end_n, dimensions, files, default, highest) ==
  [word |-> word, byte |-> byte, START_SIZE |-> 1, end_n |-> end_n, dimensions |-> dimensions,
   files |-> files, DEFAULT_MAX_TIER |-> default, MAX_TIER_ALLOW |-> highest]

AllMachines ==
  {Machine(4, 2, 7, {0, 18, 20, 28}, {8, 9}, 2, 3),
   Machine(8, 4, 4, {24}, {2}, 1, 2),
   Machine(64, 8, 2, {64}, {1}, 0, 0)}
=============================================================================
