----------------------------- MODULE MCAllocator -----------------------------
(***************************************************************************)
(* Small instances of Allocator for TLC.  A heap of 80 bytes holds three   *)
(* blocks of the minimum size, so a block can be freed between two free    *)
(* ones; one of 88 also holds a large block with an excess to split off.   *)
(* Footers of 8 bits keep the bins [24,32), [32,64), [64,128) in use.      *)
(***************************************************************************)
EXTENDS Allocator

\* Payload words that read as "in use", as the size of a minimal block, and
\* as the address of one
TwoIds   == {1, 16}
ThreeIds == {1, 16, 32}

ShortAndLong == {16, 40}
ThreeSizes   == {13, 24, 40}
=============================================================================
