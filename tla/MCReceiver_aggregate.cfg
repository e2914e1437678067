\* An aggregate that does not begin with an SPS.
SPECIFICATION Spec
CONSTANTS
  MaxUnits = 4
  Parts = {2, 3}
  Widths = {w1, w2}
  SeqSpace = 16
  Networks <- MCMixed
  NULL = NULL
INVARIANT StartsWithSps
\* The stream ends.
CHECK_DEADLOCK FALSE
