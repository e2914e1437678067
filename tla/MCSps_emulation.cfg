\* A payload with 00 00 00 03.
SPECIFICATION Spec
CONSTANTS
  MaxLen = 32
  HeadLen = 12
  BufSize = 128
  PacketMax = 128
  Streams <- MCStreams
INVARIANT OriginalRestored
\* The stream ends, and so may the parser before it.
CHECK_DEADLOCK FALSE
