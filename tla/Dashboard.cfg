\* Two attempts of a student, three commits, two requests at once.
SPECIFICATION FairSpec
CONSTANTS
  MaxAttempt = 2
  MaxSteps = 3
  Requests = {r1, r2}
  r1 = r1
  r2 = r2
INVARIANTS
  NeverAhead
PROPERTIES
  SnapshotsMoveForward
  PollingConverges
