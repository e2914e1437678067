\* A time_scale of more than 25 bits.
SPECIFICATION Spec
CONSTANTS
  MaxLen = 32
  HeadLen = 12
  BufSize = 128
  PacketMax = 128
  Streams <- MCStreams
INVARIANT AllBitsRead
\* The stream ends, and so may the parser before it.
CHECK_DEADLOCK FALSE
