SPECIFICATION FairSpec
CONSTANTS
  MaxLines = 2
  BatchSize = 2
  Keep = 1
INVARIANTS TypeOK PostedOnce ReportIsTrue
PROPERTIES LogGrows JobEnds
CHECK_DEADLOCK FALSE
