------------------------------ MODULE Receiver ------------------------------
(***************************************************************************)
(* The receiving loop of main() in src/main_yuv4.c with UnpackRTPH264 of   *)
(* src/unpackrtp.c: sequence check, reassembly of FU-A fragments, SPS and  *)
(* resolution detection, opening and closing a playing session.            *)
(*                                                                         *)
(* The sender and the network are the environment: units go out as RTP     *)
(* packets whose sequence numbers wrap, and the network may lose,          *)
(* duplicate and swap them as far as it is one that does.  The queue only  *)
(* grows here, and the decoding thread is the flag running: what the queue *)
(* and the thread do on their own is in AVQueue and Player.                *)
(***************************************************************************)
EXTENDS Integers, Sequences

CONSTANTS
  MaxUnits,  \* bound: units the sender sends
  Parts,     \* the numbers of fragments an FU-A unit is sent in
  Widths,    \* the picture widths an SPS can announce
  SeqSpace,  \* 65536: RTP sequence numbers are modulo this
  Networks,  \* the senders and networks that are considered
  NULL

\* A mix is an aggregate that does not begin with an SPS.
Kinds     == {"sps", "stap", "mix", "slice", "fu"}
AllFaults ==
  {"loss", "dup", "swap", "runt", "empty", "timeout", "overrun", "open", "memory"}

ASSUME ReceiverAssumption ==
  /\ MaxUnits \in Nat /\ Parts \subseteq Nat \ {0, 1}
  /\ 0 \notin Widths /\ SeqSpace \in Nat \ {0, 1}
  /\ \A n \in Networks :
       /\ n.kinds \subseteq Kinds    \* what is sent
       /\ n.first \in 0..SeqSpace - 1 \* the number of the first packet
       /\ n.size \in Nat \ {0}       \* bound: packets in flight
       /\ n.faults \subseteq AllFaults /\ n.budget \in Nat  \* what goes wrong, how often

VARIABLES
  \* the environment
  network,       \* one of Networks
  unit,          \* units begun so far
  todo,          \* packets of the current unit still to be sent
  seq,           \* the next sequence number
  net,           \* packets in flight
  budget,        \* faults left
  \* main()
  pc,            \* "recv", or in the sections "stop" and "start" of the loop
  rtp_packet,    \* the last packet unpacked
  before_seq, error_packet,
  start_flag, stop_flag,
  width,         \* decContext->width
  running,       \* videoThreadId # 0: a decoding thread was created
  av_packet,     \* what av_packet.data points to
  queue,         \* all that was put into videoPacketFifo
  \* history
  taken,         \* how many fragments of a unit were taken without a break
  whole,         \* units taken whole while a session was open
  mark           \* length of queue when the last session was closed

env     == <<network, unit, todo, seq, net, budget>>
sender  == <<network, unit, todo, seq>>
control == <<start_flag, stop_flag, width, running>>
history == <<taken, whole, mark>>
loop == <<pc, rtp_packet, before_seq, error_packet, control, av_packet, queue,
          history>>
vars == <<env, loop>>

\* A packet carries fragment idx of `of' of a unit; w is the width an SPS
\* announces.
Packet(u, k, i, n, w) == [unit |-> u, kind |-> k, idx |-> i, of |-> n, w |-> w]

-----------------------------------------------------------------------------
(* The sender and the network.                                              *)

NewUnit ==
  /\ todo = << >> /\ unit < MaxUnits
  /\ unit' = unit + 1
  /\ \E k \in network.kinds :
       \/ /\ k \in {"sps", "stap"}
          /\ \E w \in Widths : todo' = <<Packet(unit', k, 1, 1, w)>>
       \/ /\ k \in {"mix", "slice"}
          /\ todo' = <<Packet(unit', k, 1, 1, 0)>>
       \/ /\ k = "fu"
          /\ \E n \in Parts : todo' = [i \in 1..n |-> Packet(unit', k, i, n, 0)]
  /\ UNCHANGED <<network, seq, net, budget, loop>>

Send ==
  /\ todo # << >> /\ Len(net) < network.size
  /\ net' = Append(net, [frag |-> Head(todo), seq |-> seq])
  /\ todo' = Tail(todo)
  /\ seq' = (seq + 1) % SeqSpace
  /\ UNCHANGED <<network, unit, budget, loop>>

Fault(f) == f \in network.faults /\ budget > 0 /\ budget' = budget - 1

\* A fragment may have no payload.
SendEmpty ==
  /\ Fault("empty") /\ Len(net) < network.size
  /\ todo # << >> /\ Head(todo).idx > 1
  /\ net' = Append(net, [frag |-> [Head(todo) EXCEPT !.kind = "empty"], seq |-> seq])
  /\ seq' = (seq + 1) % SeqSpace
  /\ UNCHANGED <<network, unit, todo, loop>>

Lose ==
  /\ Fault("loss") /\ net # << >>
  /\ net' = Tail(net)
  /\ UNCHANGED <<sender, loop>>

Duplicate ==
  /\ Fault("dup") /\ net # << >>
  /\ net' = <<Head(net)>> \o net
  /\ UNCHANGED <<sender, loop>>

Swap ==
  /\ Fault("swap") /\ Len(net) > 1
  /\ net' = <<net[2], net[1]>> \o SubSeq(net, 3, Len(net))
  /\ UNCHANGED <<sender, loop>>

-----------------------------------------------------------------------------
(* The sequence check.  before_seq = 0 stands for "no packet yet".          *)

FollowsNoWrap(s) == s = before_seq + 1

FollowsOrSame(s) == s \in {before_seq, (before_seq + 1) % SeqSpace}

Follows(s) == s = (before_seq + 1) % SeqSpace

\* A packet out of sequence is dropped, and the fragments after it distrusted
\* until one comes in sequence again.
GapUnmarked(m) ==
  /\ before_seq # 0 /\ ~Follows(m.seq)
  /\ before_seq' = m.seq
  /\ UNCHANGED <<error_packet, pc, control, av_packet, queue, history>>

Gap(m) ==
  /\ before_seq # 0 /\ ~Follows(m.seq)
  /\ before_seq' = m.seq /\ error_packet' = TRUE
  /\ UNCHANGED <<pc, control, av_packet, queue, history>>

ClearedKept == error_packet

Cleared == IF before_seq = 0 THEN error_packet ELSE FALSE

InSequence(m) ==
  /\ before_seq = 0 \/ Follows(m.seq)
  /\ before_seq' = m.seq /\ error_packet' = Cleared

-----------------------------------------------------------------------------
(* What is done with a packet in sequence.  av_packet holds the fragments   *)
(* copied into its buffer; queued: the queue owns the buffer; stray: some   *)
(* fragment went to a buffer that was not that of its unit.                 *)

NewFuReused(d) == [av_packet EXCEPT !.frags = <<d>>]

NewFu(d) ==
  [kind |-> "fu", frags |-> <<d>>, queued |-> FALSE, stray |-> av_packet.stray]

NewOther(d) == [NewFu(d) EXCEPT !.kind = "other"]

Extended(d) ==
  [av_packet EXCEPT !.frags = Append(@, d),
                    !.stray = @ \/ av_packet.kind # "fu" \/ av_packet.queued]

\* avpacket_queue_put, which may refuse the packet.
PutPacket(av) ==
  \E refused \in {FALSE} \cup {"overrun" \in network.faults} :
    /\ queue' = IF refused THEN queue ELSE Append(queue, av.frags)
    /\ av_packet' = [av EXCEPT !.queued = ~refused]

KeepPacket(av) == av_packet' = av /\ UNCHANGED queue

FuStart(d) ==
  /\ d.kind = "fu" /\ d.idx = 1
  /\ KeepPacket(NewFu(d))
  /\ UNCHANGED <<pc, control>>

FuMid(d) ==
  /\ d.kind = "fu" /\ 1 < d.idx /\ d.idx < d.of
  /\ KeepPacket(Extended(d))
  /\ UNCHANGED <<pc, control>>

FuEnd(d) ==
  /\ d.kind = "fu" /\ d.idx = d.of
  /\ IF start_flag /\ ~error_packet' THEN PutPacket(Extended(d))
                                     ELSE KeepPacket(Extended(d))
  /\ pc' = "stop"
  /\ UNCHANGED control

\* A change of width starts a session, or asks for the end of the running one.
\* A parser that gets no memory fails, and the packet is stored all the same.
DetectWidth(w) ==
  /\ \/ /\ width # w
        /\ stop_flag' = (stop_flag \/ running)
        /\ width' = w /\ start_flag' = TRUE
     \/ /\ width = w \/ "memory" \in network.faults
        /\ UNCHANGED <<stop_flag, width, start_flag>>
  /\ UNCHANGED running

\* The first unit is parsed as an SPS, whatever it is.  A buffer of size -5, for
\* want of a unit, makes the parser fail.
StapA(d) ==
  /\ d.kind \in {"stap", "mix"}
  /\ \/ d.unit = 0 /\ UNCHANGED control
     \/ /\ d.unit # 0
        /\ \E w \in IF d.kind = "stap" THEN {d.w} ELSE {0} \cup Widths : DetectWidth(w)
  /\ IF ~running /\ start_flag' THEN PutPacket(NewOther(d))
                                ELSE KeepPacket(NewOther(d))
  /\ pc' = "stop"

SingleNal(d) ==
  /\ d.kind \in {"sps", "slice"}
  /\ IF d.kind = "sps" THEN DetectWidth(d.w) ELSE UNCHANGED control
  /\ IF start_flag' THEN PutPacket(NewOther(d)) ELSE KeepPacket(NewOther(d))
  /\ pc' = "stop"

Store(d) == FuStart(d) \/ FuMid(d) \/ FuEnd(d) \/ StapA(d) \/ SingleNal(d)

\* History: the unbroken fragments of a unit, and the units that ought to be in
\* the queue because they were taken whole in a session.
Record(d) ==
  LET n == IF d.idx = 1 THEN 1
           ELSE IF taken = [unit |-> d.unit, n |-> d.idx - 1] THEN d.idx ELSE 0
  IN /\ taken' = [unit |-> d.unit, n |-> n]
     /\ whole' = IF /\ n = d.of /\ d.unit # 0 /\ start_flag'
                    /\ ~(d.kind \in {"stap", "mix"} /\ running)
                   THEN whole \cup {d.unit} ELSE whole
     /\ UNCHANGED mark

\* An empty packet is skipped before its number is looked at.
Skip == UNCHANGED <<pc, before_seq, error_packet, control, av_packet, queue, history>>

Handle(m, data) ==
  IF data.kind = "empty" THEN Skip
  ELSE Gap(m) \/ (InSequence(m) /\ Store(data) /\ Record(data))

Recv ==
  /\ pc = "recv" /\ net # << >>
  /\ net' = Tail(net)
  /\ rtp_packet' = Head(net)
  /\ Handle(Head(net), Head(net).frag)
  /\ UNCHANGED <<sender, budget>>

\* A datagram of at most 12 bytes is not unpacked.  The loop goes on with the
\* header fields of the packet before it, its kind among them, and a fresh buffer
\* of zeros: what is stored of it is no unit (0), and parsed as an SPS, on past
\* the zeros, it has any width.
Junk(frag) ==
  {[frag EXCEPT !.unit = 0, !.w = w] :
     w \in IF frag.kind = "sps" THEN {0} \cup Widths ELSE {0}}

Runt ==
  /\ pc = "recv" /\ net = << >> /\ rtp_packet # NULL /\ Fault("runt")
  /\ \E d \in Junk(rtp_packet.frag) : Handle(rtp_packet, d)
  /\ UNCHANGED <<sender, net, rtp_packet>>

\* Before any packet was unpacked the header fields are uninitialised: the
\* datagram is skipped or taken for a packet of any number and kind.
FirstRunt ==
  /\ pc = "recv" /\ net = << >> /\ rtp_packet = NULL /\ Fault("runt")
  /\ \/ Skip /\ UNCHANGED rtp_packet
     \/ \E s \in 0..SeqSpace - 1, k \in Kinds, i \in 1..3 :
          \E d \in Junk(Packet(0, k, IF k = "fu" THEN i ELSE 1, IF k = "fu" THEN 3 ELSE 1, 0)) :
            /\ rtp_packet' = [frag |-> d, seq |-> s]
            /\ Handle(rtp_packet', d)
  /\ UNCHANGED <<sender, net>>

\* recvfrom gives up after SO_RCVTIMEO, or returns a datagram without a byte.
NoData ==
  /\ pc = "recv" /\ net = << >>
  /\ \/ Fault("timeout") /\ stop_flag' = TRUE
     \/ Fault("runt") /\ UNCHANGED stop_flag
  /\ pc' = "stop"
  /\ UNCHANGED <<sender, net, rtp_packet, before_seq, error_packet, start_flag,
                 width, running, av_packet, queue, history>>

-----------------------------------------------------------------------------
(* The two sections at the end of the loop.                                 *)

StopKeepsStart ==
  /\ pc = "stop"
  /\ IF stop_flag /\ running
       THEN /\ running' = FALSE /\ width' = 0
            /\ stop_flag' = FALSE /\ before_seq' = 0
            /\ mark' = Len(queue)
            /\ UNCHANGED start_flag
       ELSE UNCHANGED <<control, before_seq, mark>>
  /\ pc' = "start"
  /\ UNCHANGED <<env, rtp_packet, error_packet, av_packet, queue, taken, whole>>

StopKeepsThread ==
  /\ pc = "stop"
  /\ IF stop_flag /\ running
       THEN /\ start_flag' = FALSE /\ width' = 0
            /\ stop_flag' = FALSE /\ before_seq' = 0
            /\ mark' = Len(queue)
            /\ UNCHANGED running
       ELSE UNCHANGED <<control, before_seq, mark>>
  /\ pc' = "start"
  /\ UNCHANGED <<env, rtp_packet, error_packet, av_packet, queue, taken, whole>>

StopSection ==
  /\ pc = "stop"
  /\ IF stop_flag /\ running
       THEN /\ start_flag' = FALSE /\ running' = FALSE /\ width' = 0
            /\ stop_flag' = FALSE /\ before_seq' = 0
            /\ mark' = Len(queue)
       ELSE UNCHANGED <<control, before_seq, mark>>
  /\ pc' = "start"
  /\ UNCHANGED <<env, rtp_packet, error_packet, av_packet, queue, taken, whole>>

\* Without a decoder no thread is created; the next round tries again.
StartSection ==
  /\ pc = "start"
  /\ IF ~running /\ start_flag
       THEN /\ \E failed \in {FALSE} \cup {"open" \in network.faults} : running' = ~failed
            /\ stop_flag' = FALSE
            /\ UNCHANGED <<start_flag, width>>
       ELSE UNCHANGED control
  /\ pc' = "recv"
  /\ UNCHANGED <<env, rtp_packet, before_seq, error_packet, av_packet, queue, history>>

-----------------------------------------------------------------------------
Init ==
  /\ network \in Networks
  /\ unit = 0 /\ todo = << >> /\ net = << >>
  /\ seq = network.first /\ budget = network.budget
  /\ pc = "recv" /\ rtp_packet = NULL
  /\ before_seq = 0 /\ error_packet = FALSE
  /\ start_flag = FALSE /\ stop_flag = FALSE /\ width = 0 /\ running = FALSE
  /\ av_packet = [kind |-> "none", frags |-> << >>, queued |-> FALSE, stray |-> FALSE]
  /\ queue = << >>
  /\ taken = [unit |-> 0, n |-> 0] /\ whole = {} /\ mark = 0

Next ==
  \/ NewUnit \/ Send \/ SendEmpty \/ Lose \/ Duplicate \/ Swap
  \/ Recv \/ Runt \/ FirstRunt \/ NoData
  \/ StopSection \/ StartSection

Spec == Init /\ [][Next]_vars

-----------------------------------------------------------------------------
(* Properties.                                                              *)

Frags == [unit : 0..MaxUnits, kind : Kinds \cup {"empty"},
          idx : 1..3 \cup UNION {1..n : n \in Parts}, of : {1, 3} \cup Parts,
          w : {0} \cup Widths]

ASSUME NullAssumption == NULL \notin [frag : Frags, seq : 0..SeqSpace - 1]

\* The variables have their types, and a decoding thread exists only while a
\* session is open.
TypeOK ==
  /\ network \in Networks /\ budget \in 0..network.budget
  /\ unit \in 0..MaxUnits /\ seq \in 0..SeqSpace - 1
  /\ todo \in Seq(Frags)
  /\ net \in Seq([frag : Frags, seq : 0..SeqSpace - 1])
  /\ pc \in {"recv", "stop", "start"}
  /\ rtp_packet \in [frag : Frags, seq : 0..SeqSpace - 1] \cup {NULL}
  /\ before_seq \in 0..SeqSpace - 1
  /\ {error_packet, start_flag, stop_flag, running} \subseteq BOOLEAN
  /\ width \in {0} \cup Widths
  /\ running => start_flag
  /\ av_packet \in [kind : {"none", "fu", "other"}, frags : Seq(Frags),
                    queued : BOOLEAN, stray : BOOLEAN]
  /\ queue \in Seq(Seq(Frags))
  /\ mark \in 0..Len(queue)

\* The contents of a queued packet are one unit, all of it and in order.
IsWhole(frags) ==
  /\ frags # << >>
  /\ LET u == frags[1]
     IN /\ u.unit # 0 /\ Len(frags) = u.of
        /\ \A i \in 1..Len(frags) : frags[i] = [u EXCEPT !.idx = i]

UnitOf(frags) == IF IsWhole(frags) THEN frags[1].unit ELSE 0

\* A network that keeps every packet, in order.
Ordered == network.faults \subseteq {"timeout", "overrun", "open", "memory"}

Delivery == INSTANCE UnitDelivery
              WITH Units <- 1..MaxUnits,
                   delivered <- IF Ordered THEN [i \in 1..Len(queue) |-> UnitOf(queue[i])]
                                           ELSE << >>

\* Over a network that keeps every packet in order, what the loop queues is
\* whole units, each once and in order, across the wrap of the sequence
\* numbers, timeouts, refused puts, decoders that do not open and changes of
\* resolution in the middle of a stream.
ImplementsUnitDelivery == Delivery!Spec

\* Over such a network no fragment is copied to a buffer that the queue owns
\* already or that belongs to another unit.
OwnBuffer == Ordered => ~av_packet.stray

\* Whatever the network loses, doubles, swaps or cuts off, a unit whose packets were all
\* taken without a break while a session was open is in the queue, whole, unless the
\* queue refused it.
DamageConfined ==
  "overrun" \notin network.faults =>
    \A u \in whole : \E i \in 1..Len(queue) : UnitOf(queue[i]) = u

\* What a session puts into the queue begins with an SPS of the sender
\* (main_yuv4.c:208: nothing is stored before one).
StartsWithSps ==
  Len(queue) > mark =>
    LET first == queue[mark + 1][1]
    IN first.unit # 0 /\ first.kind \in {"sps", "stap"}

\* It does if every aggregate of the sender begins with one, no datagram is too
\* short to be unpacked and the queue does not refuse the SPS.  A runt can open
\* a session with zeros: as the first datagram of all, or behind an SPS whose
\* session was closed.
SessionStartsWithSps ==
  "mix" \notin network.kinds /\ network.faults \cap {"overrun", "runt"} = {}
    => StartsWithSps

\* Once a session is asked for, only a datagram that was unpacked is queued: a
\* runt carries the number of its predecessor and fails the sequence check
\* (main_yuv4.c:227-247), unless that number is 0.
RuntNotQueued ==
  [][ start_flag /\ queue' # queue /\ net' = net => rtp_packet.seq = 0 ]_vars

\* While a session is open, a packet that does not follow its predecessor in
\* sequence sets error_packet, if there are no empty packets and the predecessor
\* was one.
LossNoticed ==
  [][ running /\ running' /\ "empty" \notin network.faults
      /\ rtp_packet' # rtp_packet /\ rtp_packet.frag.unit # 0
      /\ rtp_packet'.seq # (rtp_packet.seq + 1) % SeqSpace
      => error_packet' ]_vars

\* Every packet in the queue is one whole unit, whatever the network does
\* (main_yuv4.c:277: no packet with a sequence error is stored).
FramesIntact == \A i \in 1..Len(queue) : IsWhole(queue[i])
=============================================================================
