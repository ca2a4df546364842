SPECIFICATION Spec
CONSTANTS
  MaxLines = 2
  BatchSize = 2
  Keep = 2
INVARIANTS NoRepeats
CHECK_DEADLOCK FALSE
