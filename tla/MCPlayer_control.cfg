\* Two widths, one of them cropped; everything may fail but the opening of the
\* decoder.
SPECIFICATION Spec
CONSTANTS
  Threads = {t1, t2}
  Widths = {10, 20}
  Cropped = {20}
  MaxQueue = 3
  MaxPending = 1
  Faults = {"enable", "alloc", "decode"}
  NULL = NULL
INVARIANT TypeOK
INVARIANT NoStrayThread
INVARIANT RendererQuiet
INVARIANT CountHolds
INVARIANT NoUpdateLost
INVARIANT SessionRuns
INVARIANT ScreenFollowsSession
INVARIANT TornOnlyAtClose
\* main() stops when the identifiers are used up.
CHECK_DEADLOCK FALSE
