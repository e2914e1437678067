\* Networks that keep packets in order and networks that do not.
SPECIFICATION Spec
CONSTANTS
  MaxUnits = 4
  Parts = {2, 3}
  Widths = {w1, w2}
  SeqSpace = 16
  Networks <- MCNetworks
  NULL = NULL
SYMMETRY Symmetric
INVARIANT TypeOK
INVARIANT OwnBuffer
INVARIANT DamageConfined
INVARIANT SessionStartsWithSps
PROPERTY ImplementsUnitDelivery
PROPERTY LossNoticed
PROPERTY RuntNotQueued
\* The stream ends.
CHECK_DEADLOCK FALSE
