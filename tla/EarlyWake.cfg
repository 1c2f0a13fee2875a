CONSTANTS
  TASK_COUNT = 3
  LOWEST_TASK_PRIORITY = 0
  TASK_DEFAULT_QUANTUM = 1
  NULL = NULL
  WORD = 4
  KERNEL_CLOCK_FREQ = 1
  MS_PER_SEC = 1
  SleepTimes = {1, 2}
  Numbers = {}
  TaskKinds <- OnePriority
  DestPids <- NoPids
  OriginPids <- NoPids
SPECIFICATION Spec
PROPERTIES SleepsFullTime
