SPECIFICATION FairSpec
CONSTANTS
  Questions = {q1, q2}
  MaxEdits = 2
  MaxLosses = 1
  q1 = q1
  q2 = q2
CHECK_DEADLOCK FALSE
INVARIANTS
  NothingForgotten
PROPERTIES
  ComesToRest
