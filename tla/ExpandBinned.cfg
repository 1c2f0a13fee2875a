CONSTANTS
  TBIN_SHIFT = 4
  NTBINS = 3
  HEAP_SIZE_ALIGN = 16
  HEAP_LIMIT = 48
  WORD = 128
  HeapSizes = {4, 32}
  Sizes = {0, 9, 15}
  Resizes = {0, 13}
  Arrays <- ArrayArguments
  MAX_LIVE = 3
  NULL = NULL
SPECIFICATION Spec
INVARIANTS NeverUndefined
CHECK_DEADLOCK FALSE
