SPECIFICATION CarefulSpec
CONSTANTS
  Students = {s1}
  Workers = {w1}
  Keys = {k1}
  Guardrails <- MCLogOnly
  Durations = {1, 2}
  Instants = {1, 2, 3, 4}
  Policies = {"auto"}
  MaxAttempts = 1
  Grace = 0
  Lag = 0
  MaxTime = 4
  MaxAttemptNo = 1
  MaxVersion = 2
  MaxSaves = 0
  MaxReports = 0
  MaxFaults = 0
  k1 = k1
  s1 = s1
  w1 = w1
INVARIANTS
  InProgressIsAssigned
  DeadlineInWindow
PROPERTIES
  DeadlinesMoveForward
