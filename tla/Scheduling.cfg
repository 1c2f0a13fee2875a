CONSTANTS
  TASK_COUNT = 4
  LOWEST_TASK_PRIORITY = 1
  TASK_DEFAULT_QUANTUM = 2
  NULL = NULL
  WORD = 3
  KERNEL_CLOCK_FREQ = 2
  MS_PER_SEC = 3
  SleepTimes <- Naps
  Numbers = {}
  TaskKinds <- ThreeKinds
  DestPids <- NoPids
  OriginPids <- NoPids
SPECIFICATION FairSpec
INVARIANTS TypeOK RunsFirstReady TimersSorted NeverOversleeps
PROPERTIES ReadyRuns SleeperWakes
