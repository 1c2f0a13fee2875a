CONSTANTS
  Lines = {0, 1, 7, 8}
  SetLines = {0, 1, 7}
  Exceptions = {14}
  MAX_CALLS = 4
  NULL = NULL
SPECIFICATION Spec
INVARIANTS OnlyRequested NoneLeftInService NoUnhandledIRQ
PROPERTIES TimerServed
