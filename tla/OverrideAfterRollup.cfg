SPECIFICATION Spec
CONSTANTS
  Students = {s1}
  Workers = {w1}
  Keys = {k1}
  Guardrails <- MCLogOnly
  Durations = {1}
  Instants = {1, 2}
  Policies = {"auto"}
  MaxAttempts = 1
  Grace = 0
  Lag = 0
  MaxTime = 2
  MaxAttemptNo = 1
  MaxVersion = 1
  MaxSaves = 1
  MaxReports = 0
  MaxFaults = 0
  k1 = k1
  s1 = s1
  w1 = w1
INVARIANTS
  RollupIsCurrent
