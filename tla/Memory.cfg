CONSTANTS
  Frames = {f1, f2, f3, f4, f5, f6}
  DeviceFrames = {d1}
  SLOTS = 2
  STACK_PAGES = 3
  PTE_MAX = 2
  PAGE_SIZE = 2
  WORD = 24
  KERNEL_PAGE = 2
  HEAP_PAGE = 3
  KERNEL_HEAP_LIMIT = 16
  KERNEL_INITIAL_HEAP_SIZE = 2
  Differences <- Steps
  IMAGE = IMAGE
  LARGE = LARGE
  NULL = NULL
SYMMETRY FrameSymmetry
SPECIFICATION Spec
INVARIANTS FrameOwnedOnce StackBacked HeapMapped
PROPERTIES NoFalseFailure
