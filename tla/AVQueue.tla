------------------------------ MODULE AVQueue ------------------------------
(***************************************************************************)
(* src/avqueue.c: the packet queue between the receiving thread and the    *)
(* decoding thread.  A singly linked list of AVPacketList cells taken from *)
(* the heap, two counters and one mutex.  Each call is cut into the steps  *)
(* at which another thread can run: a critical section that only reads one *)
(* field is one step taken while the mutex is free, the others are cut     *)
(* between the pointer updates and the counter updates.                    *)
(*                                                                         *)
(* chain and upto are history variables: the cells in the order they were  *)
(* linked and the running total of their costs.  No guard reads them.      *)
(***************************************************************************)
EXTENDS Integers, Sequences, FiniteSets

CONSTANTS
  Producers,  \* threads that call avpacket_queue_put
  Consumers,  \* threads that call avpacket_queue_count and avpacket_queue_get
  Flushers,   \* threads that call avpacket_queue_release
  Packets,    \* AVPackets, told apart by identity
  Nodes,      \* the AVPacketList cells av_malloc can hand out
  Cost,       \* Cost[p] = p.size + sizeof(AVPacketList)
  MaxCost,    \* the largest Cost
  Limit,      \* 1024 * 1024 * 10 in avpacket_queue_put
  UIntRange,  \* 2^32, the number of values of an unsigned int
  NULL

Threads == Producers \cup Consumers \cup Flushers

\* The limit leaves room for one packet per producer below 2^32: the receiver
\* is the only producer and its packets have at most 1 MB plus a cell.
ASSUME QueueAssumption ==
  /\ IsFiniteSet(Producers)
  /\ Producers \cap Consumers = {}
  /\ NULL \notin Threads \cup Nodes \cup Packets
  /\ Limit \in Nat /\ MaxCost \in Nat /\ UIntRange \in Nat
  /\ Cost \in [Packets -> 1..MaxCost]
  /\ Limit + Cardinality(Producers) * MaxCost < UIntRange

VARIABLES
  first_pkt, last_pkt,  \* the ends of the list
  node,                 \* contents of the cells, also of the freed ones
  live,                 \* the cells that are allocated
  nb_packets, size,     \* the counters
  mutex,                \* the thread that holds q->mutex, NULL if free
  pc,                   \* where each thread is
  pkt1,                 \* the local cell pointer of the call in progress
  pkt,                  \* the caller's AVPacket: what is put, what get delivered
  seen,                 \* seen[c]: last result of avpacket_queue_count in c
  chain, upto           \* history: see above

list     == <<first_pkt, last_pkt, node>>
counters == <<nb_packets, size>>
history  == <<chain, upto>>
vars     == <<list, live, counters, mutex, pc, pkt1, pkt, seen, history>>

Goto(t, l) == pc' = [pc EXCEPT ![t] = l]
At(t, l)   == pc[t] = l
UInt(x)    == IF x < 0 THEN x + UIntRange
              ELSE IF x >= UIntRange THEN x - UIntRange ELSE x

Dropped(u) == [i \in 1..Len(u) - 1 |-> u[i + 1] - u[1]]
Bytes      == IF upto = << >> THEN 0 ELSE upto[Len(upto)]

Init ==
  /\ first_pkt = NULL /\ last_pkt = NULL
  /\ node = [n \in Nodes |-> [pkt |-> NULL, next |-> NULL]]
  /\ live = {}
  /\ nb_packets = 0 /\ size = 0
  /\ mutex = NULL
  /\ pc = [t \in Threads |-> "idle"]
  /\ pkt1 = [t \in Threads |-> NULL]
  /\ pkt = [t \in Threads |-> NULL]
  /\ seen = [c \in Consumers |-> 0]
  /\ chain = << >> /\ upto = << >>

-----------------------------------------------------------------------------
(* avpacket_queue_put.  A call refused by the size check returns -1 and     *)
(* leaves no trace; one that finds no memory forgets its packet.            *)

OverrunUnchecked == FALSE

Overrun == size > Limit

PutCheck(t, p) ==
  /\ At(t, "idle") /\ mutex = NULL /\ ~Overrun
  /\ pkt' = [pkt EXCEPT ![t] = p]
  /\ Goto(t, "put_alloc")
  /\ UNCHANGED <<list, live, counters, mutex, pkt1, seen, history>>

NewCellEmpty(t) == [pkt |-> NULL, next |-> NULL]

NewCell(t) == [pkt |-> pkt[t], next |-> NULL]

PutAlloc(t) ==
  /\ At(t, "put_alloc")
  /\ \E n \in Nodes \ live :
       /\ live' = live \cup {n}
       /\ node' = [node EXCEPT ![n] = NewCell(t)]
       /\ pkt1' = [pkt1 EXCEPT ![t] = n]
  /\ Goto(t, "put_lock")
  /\ UNCHANGED <<first_pkt, last_pkt, counters, mutex, pkt, seen, history>>

PutNoMemory(t) ==
  /\ At(t, "put_alloc")
  /\ Goto(t, "idle")
  /\ UNCHANGED <<list, live, counters, mutex, pkt1, pkt, seen, history>>

PutLockUnguarded(t) ==
  /\ At(t, "put_lock")
  /\ mutex' = t
  /\ Goto(t, "put_link")
  /\ UNCHANGED <<list, live, counters, pkt1, pkt, seen, history>>

PutLock(t) ==
  /\ At(t, "put_lock") /\ mutex = NULL
  /\ mutex' = t
  /\ Goto(t, "put_link")
  /\ UNCHANGED <<list, live, counters, pkt1, pkt, seen, history>>

LinkedTo(cell, n) == [pkt |-> cell.pkt, next |-> n]

NewLastForgotten(t) == IF last_pkt = NULL THEN pkt1[t] ELSE last_pkt

NewLast(t) == pkt1[t]

PutLink(t) ==
  /\ At(t, "put_link")
  /\ IF last_pkt = NULL
       THEN first_pkt' = pkt1[t] /\ UNCHANGED node
       ELSE node' = [node EXCEPT ![last_pkt] = LinkedTo(@, pkt1[t])] /\ UNCHANGED first_pkt
  /\ last_pkt' = NewLast(t)
  /\ chain' = Append(chain, pkt1[t])
  /\ upto' = Append(upto, Bytes + Cost[node[pkt1[t]].pkt])
  /\ Goto(t, "put_count")
  /\ UNCHANGED <<live, counters, mutex, pkt1, pkt, seen>>

PutCount(t) ==
  /\ At(t, "put_count")
  /\ nb_packets' = UInt(nb_packets + 1)
  /\ size' = UInt(size + Cost[node[pkt1[t]].pkt])
  /\ Goto(t, "unlock")
  /\ UNCHANGED <<list, live, mutex, pkt1, pkt, seen, history>>

-----------------------------------------------------------------------------
(* avpacket_queue_count and avpacket_queue_get.                             *)

Count(t) ==
  /\ At(t, "idle") /\ mutex = NULL
  /\ seen' = [seen EXCEPT ![t] = nb_packets]
  /\ UNCHANGED <<list, live, counters, mutex, pc, pkt1, pkt, history>>

GetLock(t) ==
  /\ At(t, "idle") /\ mutex = NULL
  /\ mutex' = t
  /\ Goto(t, "get_unlink")
  /\ UNCHANGED <<list, live, counters, pkt1, pkt, seen, history>>

LastAfterKept(n) == last_pkt

LastAfter(n) == IF node[n].next = NULL THEN NULL ELSE last_pkt

GetUnlink(t) ==
  /\ At(t, "get_unlink") /\ first_pkt # NULL
  /\ pkt1' = [pkt1 EXCEPT ![t] = first_pkt]
  /\ first_pkt' = node[first_pkt].next
  /\ last_pkt' = LastAfter(first_pkt)
  /\ pkt' = [pkt EXCEPT ![t] = node[first_pkt].pkt]
  /\ chain' = Tail(chain) /\ upto' = Dropped(upto)
  /\ Goto(t, "get_count")
  /\ UNCHANGED <<node, live, counters, mutex, seen>>

GetEmptySpins(t) ==
  /\ At(t, "get_unlink") /\ first_pkt = NULL
  /\ UNCHANGED vars

\* The list is empty: 0, or -1 for a caller that asked to block.
GetEmpty(t) ==
  /\ At(t, "get_unlink") /\ first_pkt = NULL
  /\ pkt' = [pkt EXCEPT ![t] = NULL]
  /\ seen' = [seen EXCEPT ![t] = 0]
  /\ Goto(t, "unlock")
  /\ UNCHANGED <<list, live, counters, mutex, pkt1, history>>

FreedLeaked(n) == live
Freed(n) == live \ {n}

OneLess == UInt(nb_packets - 1)

GetCount(t) ==
  /\ At(t, "get_count")
  /\ nb_packets' = OneLess
  /\ size' = UInt(size - Cost[node[pkt1[t]].pkt])
  /\ live' = Freed(pkt1[t])
  /\ seen' = [seen EXCEPT ![t] = 0]
  /\ Goto(t, "unlock")
  /\ UNCHANGED <<list, mutex, pkt1, pkt, history>>

-----------------------------------------------------------------------------
(* avpacket_queue_release: the flush loop under the mutex.                  *)

FlushLock(t) ==
  /\ At(t, "idle") /\ mutex = NULL
  /\ mutex' = t
  /\ pkt1' = [pkt1 EXCEPT ![t] = first_pkt]
  /\ Goto(t, "flush")
  /\ UNCHANGED <<list, live, counters, pkt, seen, history>>

FlushFree(t) ==
  /\ At(t, "flush") /\ pkt1[t] # NULL
  /\ pkt1' = [pkt1 EXCEPT ![t] = node[pkt1[t]].next]
  /\ live' = Freed(pkt1[t])
  /\ chain' = Tail(chain) /\ upto' = Dropped(upto)
  /\ UNCHANGED <<list, counters, mutex, pc, pkt, seen>>

FlushResetKeepsSize(t) ==
  /\ At(t, "flush") /\ pkt1[t] = NULL
  /\ first_pkt' = NULL /\ last_pkt' = NULL
  /\ nb_packets' = 0
  /\ Goto(t, "unlock")
  /\ UNCHANGED <<node, live, size, mutex, pkt1, pkt, seen, history>>

FlushReset(t) ==
  /\ At(t, "flush") /\ pkt1[t] = NULL
  /\ first_pkt' = NULL /\ last_pkt' = NULL
  /\ nb_packets' = 0 /\ size' = 0
  /\ Goto(t, "unlock")
  /\ UNCHANGED <<node, live, mutex, pkt1, pkt, seen, history>>

-----------------------------------------------------------------------------
\* The call returns and its local cell pointer dies.
Unlock(t) ==
  /\ At(t, "unlock")
  /\ mutex' = NULL
  /\ pkt1' = [pkt1 EXCEPT ![t] = NULL]
  /\ Goto(t, "idle")
  /\ UNCHANGED <<list, live, counters, pkt, seen, history>>

Put(t) ==
  \/ \E p \in Packets : PutCheck(t, p)
  \/ PutAlloc(t) \/ PutNoMemory(t) \/ PutLock(t) \/ PutLink(t) \/ PutCount(t)

Get(t) == Count(t) \/ GetLock(t) \/ GetUnlink(t) \/ GetEmpty(t) \/ GetCount(t)

Release(t) == FlushLock(t) \/ FlushFree(t) \/ FlushReset(t)

Next ==
  \/ \E t \in Producers : Put(t)
  \/ \E t \in Consumers : Get(t)
  \/ \E t \in Flushers : Release(t)
  \/ \E t \in Threads : Unlock(t)

Spec == Init /\ [][Next]_vars

\* A thread that holds the mutex keeps running to the end of its call; no
\* thread need start one, and the mutex promises no order among the waiting.
Critical(t) ==
  \/ PutLink(t) \/ PutCount(t)
  \/ GetUnlink(t) \/ GetEmpty(t) \/ GetCount(t)
  \/ FlushFree(t) \/ FlushReset(t)
  \/ Unlock(t)

FairSpec == Spec /\ \A t \in Threads : WF_vars(Critical(t))
-----------------------------------------------------------------------------
(* Properties.                                                              *)

CriticalSteps ==
  {"put_link", "put_count", "get_unlink", "get_count", "flush", "unlock"}
Steps == {"idle", "put_alloc", "put_lock"} \cup CriticalSteps

Flushing == \E t \in Threads : At(t, "flush")

\* The variables have their types and every allocated cell holds a packet:
\* av_malloc leaves a cell uninitialised and put fills it before it is linked.
TypeOK ==
  /\ first_pkt \in Nodes \cup {NULL} /\ last_pkt \in Nodes \cup {NULL}
  /\ node \in [Nodes -> [pkt : Packets \cup {NULL}, next : Nodes \cup {NULL}]]
  /\ live \subseteq Nodes
  /\ \A n \in live : node[n].pkt \in Packets
  /\ nb_packets \in 0..UIntRange - 1 /\ size \in 0..UIntRange - 1
  /\ mutex \in Threads \cup {NULL}
  /\ pc \in [Threads -> Steps]
  /\ pkt1 \in [Threads -> Nodes \cup {NULL}]
  /\ pkt \in [Threads -> Packets \cup {NULL}]
  /\ seen \in [Consumers -> 0..UIntRange - 1]
  /\ chain \in Seq(Nodes) /\ upto \in Seq(Nat)

\* q->mutex: a thread is between lock and unlock exactly while it holds the
\* mutex, so no two are there together.
MutualExclusion == \A t \in Threads : pc[t] \in CriticalSteps <=> mutex = t

\* The list that first_pkt, last_pkt and the next pointers form is the cells
\* in the order they were put, each once, none of them freed; a flush walks
\* from the first cell that is still there and the ends catch up at its end.
ListSound ==
  LET n == Len(chain)
      FirstCell == IF n = 0 THEN NULL ELSE chain[1]
      LastCell == IF n = 0 THEN NULL ELSE chain[n]
  IN /\ \A i \in 1..n : chain[i] \in live
     /\ \A i, j \in 1..n : chain[i] = chain[j] => i = j
     /\ ~Flushing => first_pkt = FirstCell /\ last_pkt = LastCell
     /\ \A t \in Threads : At(t, "flush") => pkt1[t] = FirstCell
     /\ \A i \in 1..n - 1 : node[chain[i]].next = chain[i + 1]
     /\ n > 0 => node[chain[n]].next = NULL

Linked == {chain[i] : i \in 1..Len(chain)}
InHand == {t \in Threads : pc[t] \in {"put_lock", "put_link", "get_count"}}

\* Every allocated cell is in the list or in the hands of exactly one call
\* (one that has not linked it yet or not freed it yet): no cell leaks and
\* none is freed twice.
NoLeak ==
  /\ live = Linked \cup {pkt1[t] : t \in InHand}
  /\ \A t \in InHand : pkt1[t] \notin Linked
  /\ \A s, t \in InHand : pkt1[s] = pkt1[t] => s = t

\* upto is what its name says.
Totals ==
  /\ Len(upto) = Len(chain)
  /\ \A i \in 1..Len(upto) :
       upto[i] = (IF i = 1 THEN 0 ELSE upto[i - 1]) + Cost[node[chain[i]].pkt]

\* Whenever the mutex is free, nb_packets and size are the number of packets
\* in the list and the sum of their costs: no interleaving loses an update.
Accounting ==
  mutex = NULL => nb_packets = Len(chain) /\ size = Bytes

InFlight ==
  {t \in Producers : pc[t] \in {"put_alloc", "put_lock", "put_link", "put_count"}}

\* avpacket_queue_put reads the size, lets go of the mutex and links later, so
\* the limit is overshot; by one packet for every producer at most.
SizeBound ==
  size + Cardinality(InFlight) * MaxCost <= Limit + Cardinality(Producers) * MaxCost

\* handleVideoThread counts, lets go of the mutex and then gets: as long as it
\* is the only consumer and nobody flushes, what it counted is still there.
CountStaysValid ==
  \A c \in Consumers :
    Consumers = {c} /\ Flushers = {} =>
      seen[c] <= Len(chain) + (IF At(c, "get_count") THEN 1 ELSE 0)

Contents ==
  IF Flushing THEN << >> ELSE [i \in 1..Len(chain) |-> node[chain[i]].pkt]

Fifo == INSTANCE PacketFifo
          WITH fifo <- Contents, out <- [c \in Consumers |-> pkt[c]]

\* The list, the lock and the counters together are a FIFO: packets come out
\* once each, in the order of their puts, and get misses only on an empty
\* queue.  A put takes effect where it links, a get where it unlinks, a flush
\* where it takes the mutex.
ImplementsFifo == Fifo!Spec

\* Every call that takes the mutex gives it back, the flush loop included.
MutexReleased == []<>(mutex = NULL)
=============================================================================
