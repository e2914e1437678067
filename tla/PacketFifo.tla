----------------------------- MODULE PacketFifo -----------------------------
(***************************************************************************)
(* What the packet queue of avqueue.c promises to the threads that share   *)
(* it: one FIFO sequence of packets, changed in a single step by a put, by *)
(* a get or by a flush.  There are no list cells, locks or counters here;  *)
(* AVQueue is shown to implement this specification.                       *)
(***************************************************************************)
EXTENDS Sequences

CONSTANTS Packets,    \* the AVPackets, told apart by identity
          Consumers,  \* the threads that call avpacket_queue_get
          NULL        \* "no packet"

VARIABLES fifo,  \* the packets in the queue, oldest first
          out    \* out[c]: the packet the last get of c delivered, NULL if none

vars == <<fifo, out>>

Init ==
  /\ fifo = << >>
  /\ out = [c \in Consumers |-> NULL]

Put(p) ==
  /\ fifo' = Append(fifo, p)
  /\ UNCHANGED out

Get(c) ==
  /\ fifo # << >>
  /\ out' = [out EXCEPT ![c] = Head(fifo)]
  /\ fifo' = Tail(fifo)

\* A get may come back without a packet only when there is none.
Miss(c) ==
  /\ fifo = << >>
  /\ out' = [out EXCEPT ![c] = NULL]
  /\ UNCHANGED fifo

Flush ==
  /\ fifo' = << >>
  /\ UNCHANGED out

Next ==
  \/ \E p \in Packets : Put(p)
  \/ \E c \in Consumers : Get(c) \/ Miss(c)
  \/ Flush

Spec == Init /\ [][Next]_vars
=============================================================================
