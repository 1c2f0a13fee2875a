------------------------------- MODULE MCBins -----------------------------
(* Values of the constants of Bins for TLC.                                *)
EXTENDS Bins

ChunkSymmetry == Permutations(Chunks)
============================================================================
