\* Streams of all layouts, with parameter sets of all profiles and parts.
SPECIFICATION Spec
CONSTANTS
  MaxLen = 32
  HeadLen = 12
  BufSize = 128
  PacketMax = 128
  Streams <- MCStreams
INVARIANT TypeOK
INVARIANT FramesAsSent
INVARIANT CopiesInBounds
INVARIANT TextDecoded
INVARIANT PayloadRestored
INVARIANT EndsAsSent
INVARIANT AnswersAsSent
\* The stream ends, and so may the parser before it.
CHECK_DEADLOCK FALSE
