\* One device: a frame that was read waits for the pump while the timer runs out.
SPECIFICATION Spec
CONSTANTS
  Devices = {d1}
  Sockets = {c1, c2}
  NoSocket = none
  Timeout = 1
  MaxDrops = 1
  MaxCalls = 1
  d1 = d1
  c1 = c1
  c2 = c2
  none = none
PROPERTIES
  NoFalseAlarm
CHECK_DEADLOCK FALSE
