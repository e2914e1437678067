\* A stream of one width; only the opening of the decoder may fail.
SPECIFICATION FairSpec
CONSTANTS
  Threads = {t1, t2}
  Widths = {10}
  Cropped = {}
  MaxQueue = 4
  MaxPending = 2
  Faults = {"open"}
  NULL = NULL
INVARIANT DecoderReady
INVARIANT ShownAtOwnSize
PROPERTY StopCompletes
PROPERTY PacketsServed
\* main() stops when the identifiers are used up.
CHECK_DEADLOCK FALSE
