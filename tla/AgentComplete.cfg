SPECIFICATION Spec
CONSTANTS
  MaxLines = 2
  BatchSize = 2
  Keep = 2
INVARIANTS OutputComplete
CHECK_DEADLOCK FALSE
