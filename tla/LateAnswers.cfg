SPECIFICATION Spec
CONSTANTS
  Questions = {q1}
  MaxEdits = 1
  MaxLosses = 0
  q1 = q1
CHECK_DEADLOCK FALSE
PROPERTIES
  UnsavedLandFirst
