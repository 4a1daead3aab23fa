------------------------- MODULE MC_NXStreamThread -------------------------
(* Small instances of a camera stream.                                       *)
EXTENDS NXStreamThread, TLC

Symmetric == Permutations(Buffers)
=============================================================================
