CONSTANTS
  WORD = 12
  PAGE_SIZE = 3
  MAX_BOOT_MMAP_SIZE = 6
  BootMaps <- AllMaps
  kernel_start_phys = 2
  kernel_end_phys = 5
  MMAP_TYPE_KERNEL = 3
SPECIFICATION Spec
INVARIANTS Sanitized FramesExact ArraysFit
PROPERTIES Terminates
CHECK_DEADLOCK FALSE
