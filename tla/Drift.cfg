\* Nothing is lost; one attempt.
SPECIFICATION ReliableSpec
CONSTANTS
  MaxAttempt = 1
  MaxSteps = 2
  Requests = {r1, r2}
  r1 = r1
  r2 = r2
INVARIANTS
  NoDrift
CHECK_DEADLOCK FALSE
