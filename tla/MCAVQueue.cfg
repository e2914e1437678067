\* Every operation of avqueue.c: two threads that put, one that takes, one that
\* flushes.
SPECIFICATION FairSpec
CONSTANTS
  NULL = NULL
  p1 = p1
  p2 = p2
  Packets <- MCPackets
  Cost <- MCCost
  MaxCost = 2
  Producers = {r1, r2}
  Consumers = {d}
  Flushers = {f}
  Nodes = {n1, n2, n3}
  Limit = 1
  UIntRange = 16
INVARIANT TypeOK
INVARIANT MutualExclusion
INVARIANT ListSound
INVARIANT NoLeak
INVARIANT Accounting
INVARIANT SizeBound
PROPERTY MutexReleased
PROPERTY ImplementsFifo
