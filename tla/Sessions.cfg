SPECIFICATION Spec
CONSTANTS
  Tabs = {t1, t2}
  Browsers = {b1}
  browser <- MCBrowser
  MaxSessions = 3
  MaxUpdates = 1
  MaxLosses = 1
  t1 = t1
  t2 = t2
  b1 = b1
SYMMETRY Alike
CHECK_DEADLOCK FALSE
INVARIANTS
  OneLiveToken
  SessionKept
  RevocationIsComplete
PROPERTIES
  ImplementsFamilies
