\* The guards that NobodyStuck names, against ENABLED.
SPECIFICATION Spec
CONSTANTS
  Callers = {c1, c2}
  Workers = {w1}
  Nobody = none
  Imports = {i1}
  Rows <- MCRows
  BadFile = bad
  Contents = {0, 2}
  Inherit = 0
  Defaults = {1}
  MaxQuestions = 3
  MaxVersion = 1
  c1 = c1
  c2 = c2
  w1 = w1
  i1 = i1
  none = none
  bad = bad
SYMMETRY Alike
INVARIANT
  GuardsAreExact
\* The quiz may be gone, with nothing left to do.
CHECK_DEADLOCK FALSE
