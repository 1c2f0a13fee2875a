----------------------------- MODULE MCMemory -----------------------------
(* Values of the constants of Memory for TLC.                              *)
EXTENDS Memory, TLC

FrameSymmetry == Permutations(Frames)

(* Growth and shrinking by less than a page, a page, a page and a half and *)
(* three pages, and growth that wraps around the address space.            *)
Steps == {-6, -3, -2, -1, 1, 2, 3, 6, 11}
============================================================================
