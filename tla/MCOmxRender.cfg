\* Sessions of two aligned widths and one that is not.
SPECIFICATION Spec
CONSTANTS
  Widths = {32, 40, 64}
  NBuf = 2
  MaxBacklog = 4
  Aligned = 32
  Faults = {"late", "timeout", "set", "alloc"}
INVARIANT TypeOK
INVARIANT NoBufferLost
INVARIANT FrameFits
INVARIANT AlwaysOpens
PROPERTY EnableReturns
\* A lost pointer ends it.
CHECK_DEADLOCK FALSE
