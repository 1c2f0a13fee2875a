CONSTANTS
  TASK_COUNT = 10
  LOWEST_TASK_PRIORITY = 16
  TASK_DEFAULT_QUANTUM = 10
  NULL = NULL
  WORD = 64
  KERNEL_CLOCK_FREQ = 1000
  MS_PER_SEC = 1000
  SleepTimes = {2, 4, 6, 10}
  Numbers = {1, 2, 3, 4}
  TaskKinds = {}
  DestPids = {}
  OriginPids = {}
  STEP_MS = 2
SPECIFICATION MainSpec
INVARIANTS ExpectedMessages
PROPERTIES TestEnds
