\* One lost packet, just after sequence number 0.
SPECIFICATION Spec
CONSTANTS
  MaxUnits = 4
  Parts = {2, 3}
  Widths = {w1, w2}
  SeqSpace = 8
  Networks <- MCWrapping
  NULL = NULL
PROPERTY LossNoticed
\* The stream ends.
CHECK_DEADLOCK FALSE
