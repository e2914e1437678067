\* A stream of one width, nothing fails.
SPECIFICATION Spec
CONSTANTS
  Threads = {t1, t2}
  Widths = {10}
  Cropped = {}
  MaxQueue = 4
  MaxPending = 1
  Faults = {}
  NULL = NULL
INVARIANT DecoderClosed
\* main() stops when the identifiers are used up.
CHECK_DEADLOCK FALSE
