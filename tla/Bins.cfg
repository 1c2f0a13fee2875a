CONSTANTS
  Chunks = {c1, c2, c3, c4, c5, c6}
  DEPTH = 3
  TreeSizes = {8, 9, 10, 11, 12, 13, 14, 15}
  SMALL = SMALL
  GARBAGE = GARBAGE
  NULL = NULL
SYMMETRY ChunkSymmetry
SPECIFICATION Spec
INVARIANTS SmallRing TreeExact TreeSearch
