\* One lost packet.
SPECIFICATION Spec
CONSTANTS
  MaxUnits = 4
  Parts = {2, 3}
  Widths = {w1, w2}
  SeqSpace = 16
  Networks <- MCLossy
  NULL = NULL
INVARIANT FramesIntact
\* The stream ends.
CHECK_DEADLOCK FALSE
