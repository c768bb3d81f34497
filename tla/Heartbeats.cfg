\* One device that loses a connection and dials again, callbacks that commit at once.
SPECIFICATION SpecRows
CONSTANTS
  Devices = {d1}
  Sockets = {c1, c2}
  NoSocket = none
  Timeout = 1
  MaxDrops = 1
  MaxCalls = 1
  d1 = d1
  c1 = c1
  c2 = c2
  none = none
PROPERTIES
  HeartbeatClearsFlag
CHECK_DEADLOCK FALSE
