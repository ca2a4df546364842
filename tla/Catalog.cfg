SPECIFICATION FairSpec
CONSTANTS
  a = a  b = b  c = c
  NoPipeline = NoPipeline
  Task = {a, b}
  Pipeline = {p}
  Graph <- Draws
  Worker = {w1, w2}
  MaxDbErrors = 1
INVARIANTS TypeOK NoMixture PublishedAcyclic
PROPERTIES PublishEnds ImplementsPublication
CHECK_DEADLOCK FALSE
