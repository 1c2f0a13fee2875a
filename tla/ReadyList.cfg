CONSTANTS
  TASK_COUNT = 5
  LOWEST_TASK_PRIORITY = 1
  TASK_DEFAULT_QUANTUM = 1
  NULL = NULL
SPECIFICATION Spec
INVARIANTS WellLinked
PROPERTIES ImplementsQueues
