\* One student with two devices, one connection lost.
SPECIFICATION FairSpec
CONSTANTS
  Devices = {d1, d2}
  Sockets = {c1, c2}
  NoSocket = none
  Timeout = 1
  MaxDrops = 1
  MaxCalls = 1
  d1 = d1
  d2 = d2
  c1 = c1
  c2 = c2
  none = none
INVARIANTS
  SoleSocket
  ClosedForAReason
  FlagsMeanSilence
PROPERTIES
  KickCloses
  RevokedCloses
  ReplacementsEnd
\* The student may be locked out for good, with every socket closed.
CHECK_DEADLOCK FALSE
