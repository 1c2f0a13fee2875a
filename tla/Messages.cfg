CONSTANTS
  TASK_COUNT = 4
  LOWEST_TASK_PRIORITY = 1
  TASK_DEFAULT_QUANTUM = 1
  NULL = NULL
  WORD = 1
  KERNEL_CLOCK_FREQ = 1
  MS_PER_SEC = 1
  SleepTimes = {}
  Numbers = {1}
  TaskKinds <- TwoPriorities
  DestPids <- AllDests
  OriginPids <- UserOrigins
SPECIFICATION Spec
INVARIANTS LinkedOnce OnePlace NoLostWakeup DeliveryPending IInv
PROPERTIES ImplementsMailbox
