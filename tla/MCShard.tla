------------------------------ MODULE MCShard ------------------------------
(***************************************************************************)
(* Constants of Shard for TLC.                                             *)
(***************************************************************************)
EXTENDS Shard, TLC

CONSTANTS k1, k2, k3, w1, w2, small, large

\* k1 and k2 collide.
CollidingHash == (k1 :> 1) @@ (k2 :> 1) @@ (k3 :> 2)
DistinctHash  == (k1 :> 1) @@ (k2 :> 2)

\* Entries of 22 and 42 bytes, 23 and 43 with the header.
Lengths == (small :> 3) @@ (large :> 23)

\* A small entry of 23 bytes with its header; a large one never fits 60 bytes.
LengthsToo == (small :> 4) @@ (large :> 40)

\* Small entries alone.
LengthSmall == small :> 4

\* Interchangeable goroutines, for the runs of safety.
Symmetry == Permutations(Workers)
=============================================================================
