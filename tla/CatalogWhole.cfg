SPECIFICATION Spec
CONSTANTS
  a = a  b = b  c = c
  NoPipeline = NoPipeline
  Task = {a, b, c}
  Pipeline = {p}
  Graph <- Draws3
  Worker = {w1}
  MaxDbErrors = 1
PROPERTIES PublishIsWhole
CHECK_DEADLOCK FALSE
