-------------------------- MODULE Receiver_proofs --------------------------
(***************************************************************************)
(* Proofs about Receiver: for every number of units, every set of widths,  *)
(* every space of sequence numbers and every network.                      *)
(***************************************************************************)
EXTENDS Receiver, SequenceTheorems, TLAPS

-----------------------------------------------------------------------------
(* Sequences.                                                               *)

\* What follows the first two.
LEMMA Rest ==
  ASSUME NEW S, NEW s \in Seq(S), Len(s) > 1
  PROVE  \E r \in Seq(S) :
           /\ r = SubSeq(s, 3, Len(s)) /\ Len(r) = Len(s) - 2
           /\ \A i \in 1..Len(s) - 2 : r[i] = s[i + 2]
<1>0. Len(s) \in Nat
  OBVIOUS
<1> SUFFICES ASSUME NEW n \in Nat, n = Len(s), n > 1
             PROVE  \E r \in Seq(S) :
                      /\ r = SubSeq(s, 3, n) /\ Len(r) = n - 2
                      /\ \A i \in 1..n - 2 : r[i] = s[i + 2]
  BY <1>0, Zenon
<1>1. \A i \in 3..n : s[i] \in S
  OBVIOUS
<1>2. SubSeq(s, 3, n) \in Seq(S)
  BY <1>1, SubSeqProperties
<1>3. Len(SubSeq(s, 3, n)) = IF 3 <= n THEN n - 3 + 1 ELSE 0
  BY <1>1, SubSeqProperties
<1>4. \A i \in 1..n - 3 + 1 : SubSeq(s, 3, n)[i] = s[3 + i - 1]
  BY <1>1, SubSeqProperties
<1>5. \A i \in 1..n - 2 : SubSeq(s, 3, n)[i] = s[i + 2]
  BY <1>4
<1>6. Len(SubSeq(s, 3, n)) = n - 2
  BY <1>3
<1> QED
  BY <1>2, <1>5, <1>6, Zenon

\* Concatenation, by halves.
LEMMA Cat ==
  ASSUME NEW S, NEW s \in Seq(S), NEW t \in Seq(S)
  PROVE  /\ s \o t \in Seq(S)
         /\ Len(s \o t) = Len(s) + Len(t)
         /\ \A i \in 1..Len(s) : (s \o t)[i] = s[i]
         /\ \A i \in 1..Len(t) : (s \o t)[Len(s) + i] = t[i]
<1>1. s \o t \in Seq(S) /\ Len(s \o t) = Len(s) + Len(t)
  BY ConcatProperties
<1>2. \A i \in 1 .. Len(s) + Len(t) : (s \o t)[i] = IF i <= Len(s) THEN s[i] ELSE t[i - Len(s)]
  BY ConcatProperties
<1> QED
  BY <1>1, <1>2

-----------------------------------------------------------------------------
(* Types.                                                                   *)

Seqs == 0..SeqSpace - 1
Datagrams == [frag : Frags, seq : Seqs]
AvPackets == [kind : {"none", "fu", "other"}, frags : Seq(Frags),
              queued : BOOLEAN, stray : BOOLEAN]

EnvTypes ==
  /\ network \in Networks /\ budget \in 0..network.budget
  /\ unit \in 0..MaxUnits /\ seq \in Seqs
  /\ todo \in Seq(Frags) /\ net \in Seq(Datagrams)

ControlTypes ==
  /\ start_flag \in BOOLEAN /\ stop_flag \in BOOLEAN /\ running \in BOOLEAN
  /\ width \in {0} \cup Widths
  /\ running => start_flag

LoopTypes ==
  /\ pc \in {"recv", "stop", "start"}
  /\ rtp_packet \in Datagrams \cup {NULL}
  /\ before_seq \in Seqs /\ error_packet \in BOOLEAN
  /\ av_packet \in AvPackets
  /\ queue \in Seq(Seq(Frags)) /\ mark \in 0..Len(queue)

Types == EnvTypes /\ ControlTypes /\ LoopTypes

\* The parts make up TypeOK.
LEMMA TypesAreTypeOK == Types <=> TypeOK
BY DEF Types, EnvTypes, ControlTypes, LoopTypes, TypeOK, Datagrams, Seqs, AvPackets

\* The next sequence number.
Nxt(s) == (s + 1) % SeqSpace

\* It is a sequence number.
LEMMA NxtType == ASSUME NEW s \in Nat PROVE Nxt(s) \in Seqs
BY ReceiverAssumption DEF Nxt, Seqs

\* What the constants are.
LEMMA ConstantTypes ==
  /\ MaxUnits \in Nat /\ SeqSpace \in Nat /\ 0 \notin Widths
  /\ \A n \in Parts : n \in Nat /\ n > 1
BY ReceiverAssumption

\* What a network is.
LEMMA NetworkTypes ==
  ASSUME NEW n \in Networks
  PROVE  /\ n.kinds \subseteq Kinds /\ n.first \in Seqs /\ n.size \in Nat
         /\ n.budget \in Nat
BY ReceiverAssumption DEF Seqs

\* The fields of a packet.
LEMMA PacketFields ==
  ASSUME NEW u, NEW k, NEW i, NEW n, NEW w
  PROVE  /\ Packet(u, k, i, n, w).unit = u /\ Packet(u, k, i, n, w).kind = k
         /\ Packet(u, k, i, n, w).idx = i /\ Packet(u, k, i, n, w).of = n
         /\ Packet(u, k, i, n, w).w = w
BY DEF Packet

\* A fragment has no other fields.
LEMMA FragFields ==
  ASSUME NEW f \in Frags
  PROVE  /\ f = Packet(f.unit, f.kind, f.idx, f.of, f.w)
         /\ f.unit \in 0..MaxUnits /\ f.kind \in Kinds \cup {"empty"}
         /\ f.idx \in Nat /\ f.of \in Nat /\ f.w \in {0} \cup Widths
<1>1. f.idx \in 1..3 \/ \E n \in Parts : f.idx \in 1..n
  BY DEF Frags
<1>2. f.idx \in Nat
  BY <1>1, ReceiverAssumption
<1>a. f.of \in {1, 3} \/ f.of \in Parts
  BY DEF Frags
<1>3. f.of \in Nat
  BY <1>a, ConstantTypes
<1>4. f = [unit |-> f.unit, kind |-> f.kind, idx |-> f.idx, of |-> f.of, w |-> f.w]
  BY DEF Frags
<1> QED
  BY <1>2, <1>3, <1>4 DEF Frags, Packet

\* What NewUnit sends are fragments.
LEMMA SentFrags ==
  ASSUME NEW u \in 0..MaxUnits, NEW k \in Kinds
  PROVE  /\ \A w \in {0} \cup Widths : Packet(u, k, 1, 1, w) \in Frags
         /\ \A n \in Parts, i \in Nat : i \in 1..n => Packet(u, k, i, n, 0) \in Frags
BY DEF Packet, Frags

\* What FirstRunt and Runt take for a fragment is one, of no unit.
LEMMA JunkFrags ==
  ASSUME NEW f \in Frags, NEW d \in Junk(f)
  PROVE  /\ d \in Frags /\ d.unit = 0
         /\ d.kind = f.kind /\ d.idx = f.idx /\ d.of = f.of
<1>1. PICK w \in {0} \cup Widths : d = [f EXCEPT !.unit = 0, !.w = w]
  BY DEF Junk
<1>2. d = [unit |-> 0, kind |-> f.kind, idx |-> f.idx, of |-> f.of, w |-> w]
  BY <1>1 DEF Frags
<1>3. 0 \in 0..MaxUnits
  BY ReceiverAssumption
<1> QED
  BY <1>2, <1>3 DEF Frags

\* What comes of a runt that is no unit.
LEMMA FirstJunkFrags ==
  ASSUME NEW k \in Kinds, NEW i \in 1..3,
         NEW d \in Junk(Packet(0, k, IF k = "fu" THEN i ELSE 1,
                                     IF k = "fu" THEN 3 ELSE 1, 0))
  PROVE  d \in Frags /\ d.unit = 0 /\ d.kind = k /\ (k = "fu" => d.of # 1)
<1> DEFINE f == Packet(0, k, IF k = "fu" THEN i ELSE 1, IF k = "fu" THEN 3 ELSE 1, 0)
<1>1. f \in Frags /\ f.kind = k /\ (k = "fu" => f.of # 1)
  BY ReceiverAssumption DEF Packet, Frags
<1> HIDE DEF f
<1>2. d \in Junk(f)
  BY DEF f
<1> QED
  BY <1>1, <1>2, JunkFrags

\* The network loses, doubles and swaps datagrams: what is in flight afterwards
\* was in flight before.
LEMMA NetShuffled ==
  ASSUME net \in Seq(Datagrams),
         \/ Lose \/ Duplicate \/ Swap
         \/ net # << >> /\ net' = Tail(net)
  PROVE  /\ net' \in Seq(Datagrams)
         /\ \A i \in 1..Len(net') : \E j \in 1..Len(net) : net'[i] = net[j]
<1>1. CASE net # << >> /\ net' = Tail(net)
  BY <1>1
<1>2. CASE Lose
  BY <1>1, <1>2 DEF Lose
<1>3. CASE Duplicate
  <2>1. net # << >> /\ net' = <<net[1]>> \o net
    BY <1>3 DEF Duplicate
  <2>2. <<net[1]>> \in Seq(Datagrams) /\ Len(<<net[1]>>) = 1
    BY <2>1
  <2>3. /\ net' \in Seq(Datagrams) /\ Len(net') = 1 + Len(net)
        /\ \A i \in 1..1 : net'[i] = <<net[1]>>[i]
        /\ \A i \in 1..Len(net) : net'[1 + i] = net[i]
    BY <2>1, <2>2, Cat
  <2>4. ASSUME NEW i \in 1..Len(net') PROVE \E j \in 1..Len(net) : net'[i] = net[j]
    <3>1. CASE i = 1
      BY <2>1, <2>3, <3>1
    <3>2. CASE i # 1
      <4>1. i - 1 \in 1..Len(net) /\ 1 + (i - 1) = i
        BY <2>3, <3>2
      <4>2. net'[1 + (i - 1)] = net[i - 1]
        BY <2>3, <4>1
      <4> QED
        BY <4>1, <4>2
    <3> QED
      BY <3>1, <3>2
  <2> QED
    BY <2>3, <2>4
<1>4. CASE Swap
  <2>1. Len(net) \in Nat /\ Len(net) > 1
    BY <1>4 DEF Swap
  <2>2. PICK r \in Seq(Datagrams) :
          /\ r = SubSeq(net, 3, Len(net))
          /\ Len(r) = Len(net) - 2 /\ \A i \in 1..Len(net) - 2 : r[i] = net[i + 2]
    BY <2>1, Rest
  <2>a. net' = <<net[2], net[1]>> \o r
    BY <1>4, <2>2 DEF Swap
  <2>3. <<net[2], net[1]>> \in Seq(Datagrams) /\ Len(<<net[2], net[1]>>) = 2
    BY <2>1
  <2>4. /\ net' \in Seq(Datagrams) /\ Len(net') = 2 + Len(r)
        /\ \A i \in 1..2 : net'[i] = <<net[2], net[1]>>[i]
        /\ \A i \in 1..Len(r) : net'[2 + i] = r[i]
    BY <2>a, <2>3, Cat
  <2>5. ASSUME NEW i \in 1..Len(net') PROVE \E j \in 1..Len(net) : net'[i] = net[j]
    <3>1. CASE i = 1
      BY <2>1, <2>4, <3>1
    <3>2. CASE i = 2
      BY <2>1, <2>4, <3>2
    <3>3. CASE i > 2
      <4>1. i - 2 \in 1..Len(r) /\ 2 + (i - 2) = i /\ i \in 1..Len(net)
        BY <2>2, <2>4, <3>3
      <4>2. net'[2 + (i - 2)] = r[i - 2] /\ r[i - 2] = net[(i - 2) + 2]
        BY <2>2, <2>4, <4>1
      <4> QED
        BY <4>1, <4>2
    <3> QED
      BY <2>4, <3>1, <3>2, <3>3
  <2> QED
    BY <2>4, <2>5
<1> QED
  BY <1>1, <1>2, <1>3, <1>4

\* A datagram that is sent is the next packet, or it without its payload.
LEMMA NetSent ==
  ASSUME EnvTypes, Send \/ SendEmpty
  PROVE  /\ net' \in Seq(Datagrams) /\ Len(net') = Len(net) + 1
         /\ \A i \in 1..Len(net) : net'[i] = net[i]
         /\ net'[Len(net')].seq = seq /\ seq' = Nxt(seq)
         /\ todo # << >>
         /\ Send => net'[Len(net')].frag = todo[1] /\ todo' = Tail(todo)
         /\ SendEmpty => /\ "empty" \in network.faults /\ todo' = todo
                         /\ net'[Len(net')].frag = [todo[1] EXCEPT !.kind = "empty"]
<1>1. todo # << >> /\ seq' = Nxt(seq) /\ todo[1] = Head(todo) /\ todo[1] \in Frags
  BY DEF EnvTypes, Send, SendEmpty, Nxt
<1>2. [todo[1] EXCEPT !.kind = "empty"] \in Frags
  BY <1>1 DEF Frags
<1>3. PICK f \in Frags :
        /\ net' = Append(net, [frag |-> f, seq |-> seq])
        /\ Send => f = todo[1] /\ todo' = Tail(todo)
        /\ SendEmpty => /\ "empty" \in network.faults /\ todo' = todo
                        /\ f = [todo[1] EXCEPT !.kind = "empty"]
  <2>1. CASE Send /\ ~ SendEmpty
    BY <1>1, <2>1 DEF Send
  <2>2. CASE SendEmpty /\ ~ Send
    BY <1>1, <1>2, <2>2 DEF SendEmpty, Fault
  <2>3. ~ (Send /\ SendEmpty)
    <3>1. Tail(todo) # todo
      BY <1>1 DEF EnvTypes
    <3> QED
      BY <3>1 DEF Send, SendEmpty
  <2> QED
    BY <2>1, <2>2, <2>3
<1>4. [frag |-> f, seq |-> seq] \in Datagrams
  BY DEF Datagrams, EnvTypes
<1>5. /\ net' \in Seq(Datagrams) /\ Len(net') = Len(net) + 1
      /\ \A i \in 1..Len(net) : net'[i] = net[i]
      /\ net'[Len(net) + 1] = [frag |-> f, seq |-> seq]
  BY <1>3, <1>4, AppendProperties DEF EnvTypes
<1>6. net'[Len(net')].seq = seq /\ net'[Len(net')].frag = f
  BY <1>5
<1> QED
  BY <1>1, <1>3, <1>5, <1>6

-----------------------------------------------------------------------------
(* What storing a packet does.                                              *)

\* Each way to fill av_packet, as a record.
LEMMA NewForms ==
  ASSUME av_packet \in AvPackets, NEW d \in Frags
  PROVE  /\ NewFu(d) \in AvPackets /\ NewFu(d).kind = "fu"
         /\ NewFu(d).frags = <<d>> /\ ~ NewFu(d).queued
         /\ NewFu(d).stray <=> av_packet.stray
         /\ NewOther(d) \in AvPackets
         /\ NewOther(d).frags = <<d>>
         /\ NewOther(d).stray <=> av_packet.stray
<1> DEFINE R(k) == [kind |-> k, frags |-> <<d>>, queued |-> FALSE,
                    stray |-> av_packet.stray]
<1>0. av_packet.stray \in BOOLEAN /\ <<d>> \in Seq(Frags)
  BY DEF AvPackets
<1>1. \A k \in {"fu", "other"} :
        /\ R(k) \in AvPackets /\ R(k).kind = k /\ R(k).frags = <<d>>
        /\ ~ R(k).queued /\ (R(k).stray <=> av_packet.stray)
  BY <1>0 DEF AvPackets
<1>2. NewFu(d) = R("fu")
  BY DEF NewFu
<1>3. NewOther(d) = R("other")
  <2>1. NewFu(d) \in AvPackets /\ NewOther(d) = [NewFu(d) EXCEPT !.kind = "other"]
    BY <1>1, <1>2 DEF NewOther
  <2>2. \A r \in AvPackets :
          [r EXCEPT !.kind = "other"]
          = [kind |-> "other", frags |-> r.frags, queued |-> r.queued, stray |-> r.stray]
    BY DEF AvPackets
  <2>3. NewOther(d) = [kind |-> "other", frags |-> NewFu(d).frags,
                       queued |-> NewFu(d).queued, stray |-> NewFu(d).stray]
    BY <2>1, <2>2
  <2>4. NewFu(d).frags = <<d>> /\ NewFu(d).stray = av_packet.stray /\ NewFu(d).queued = FALSE
    BY DEF NewFu
  <2> QED
    BY <2>3, <2>4 DEF R
<1> HIDE DEF R
<1> QED
  BY <1>1, <1>2, <1>3

\* A buffer with one fragment more.
LEMMA ExtendedForm ==
  ASSUME av_packet \in AvPackets, NEW d \in Frags
  PROVE  /\ Extended(d) \in AvPackets /\ Extended(d).kind = av_packet.kind
         /\ Extended(d).frags = Append(av_packet.frags, d)
         /\ Extended(d).queued <=> av_packet.queued
         /\ Extended(d).stray <=>
              av_packet.stray \/ av_packet.kind # "fu" \/ av_packet.queued
<1> DEFINE st == av_packet.stray \/ av_packet.kind # "fu" \/ av_packet.queued
           fr == Append(av_packet.frags, d)
<1>0. fr \in Seq(Frags) /\ st \in BOOLEAN
  BY DEF AvPackets
<1>1. Extended(d) = [av_packet EXCEPT !.frags = fr, !.stray = st]
  BY DEF Extended, AvPackets
<1> HIDE DEF st, fr
<1>2. Extended(d) = [kind |-> av_packet.kind, frags |-> fr,
                     queued |-> av_packet.queued, stray |-> st]
  BY <1>1 DEF AvPackets
<1>3. /\ Extended(d) \in AvPackets /\ Extended(d).kind = av_packet.kind
      /\ Extended(d).frags = fr
      /\ Extended(d).queued <=> av_packet.queued
      /\ Extended(d).stray <=> st
  BY <1>0, <1>2 DEF AvPackets
<1> QED
  BY <1>3 DEF st, fr

\* Putting a packet into the queue, or not.
LEMMA PutForms ==
  ASSUME NEW av \in AvPackets, queue \in Seq(Seq(Frags)),
         PutPacket(av) \/ KeepPacket(av)
  PROVE  /\ av_packet' \in AvPackets /\ av_packet'.frags = av.frags
         /\ av_packet'.kind = av.kind /\ (av_packet'.stray <=> av.stray)
         /\ queue' = queue \/ queue' = Append(queue, av.frags)
         /\ queue' \in Seq(Seq(Frags))
         /\ KeepPacket(av) => queue' = queue /\ av_packet' = av
         /\ PutPacket(av) /\ "overrun" \notin network.faults =>
              queue' = Append(queue, av.frags)
<1>0. av.frags \in Seq(Frags)
  BY DEF AvPackets
<1>1. CASE KeepPacket(av) /\ ~ PutPacket(av)
  BY <1>1 DEF KeepPacket
<1>2. CASE PutPacket(av)
  <2>1. PICK refused \in BOOLEAN :
          /\ queue' = IF refused THEN queue ELSE Append(queue, av.frags)
          /\ av_packet' = [av EXCEPT !.queued = ~refused]
          /\ refused => "overrun" \in network.faults
    BY <1>2 DEF PutPacket
  <2>2. av_packet' = [kind |-> av.kind, frags |-> av.frags, queued |-> ~refused,
                      stray |-> av.stray]
    BY <2>1 DEF AvPackets
  <2>3. /\ av_packet' \in AvPackets /\ av_packet'.frags = av.frags
        /\ av_packet'.kind = av.kind /\ (av_packet'.stray <=> av.stray)
    BY <2>2 DEF AvPackets
  <2>4. Append(queue, av.frags) \in Seq(Seq(Frags))
    BY <1>0
  <2>5. KeepPacket(av) => queue' = queue /\ av_packet' = av
    BY DEF KeepPacket
  <2> QED
    BY <2>1, <2>3, <2>4, <2>5
<1> QED
  BY <1>1, <1>2

\* What any way of storing the packet d does to the rest of the loop.
Effect(d) ==
  /\ ControlTypes' /\ (running' <=> running) /\ (start_flag => start_flag')
  /\ pc' \in {"recv", "stop"}
  /\ av_packet' \in AvPackets /\ queue' \in Seq(Seq(Frags))
  /\ av_packet'.frags = IF d.kind = "fu" /\ d.idx # 1
                          THEN Append(av_packet.frags, d) ELSE <<d>>
  /\ queue' = queue \/ queue' = Append(queue, av_packet'.frags)
  /\ queue' # queue => start_flag' /\ (d.kind = "fu" => d.idx = d.of)
  /\ av_packet'.stray =>
       \/ av_packet.stray
       \/ d.kind = "fu" /\ d.idx # 1 /\ (av_packet.kind # "fu" \/ av_packet.queued)
  /\ d.kind = "fu" /\ d.idx # d.of =>
       IF d.idx = 1 THEN av_packet'.kind = "fu" /\ ~ av_packet'.queued
                    ELSE /\ av_packet'.kind = av_packet.kind
                         /\ av_packet'.queued <=> av_packet.queued
  /\ (start_flag' /\ ~ start_flag) => d.kind \in {"sps", "stap"} \/ (d.kind = "mix" /\ d.unit # 0)
  /\ /\ "overrun" \notin network.faults /\ start_flag'
     /\ d.kind \in {"stap", "mix"} => ~ running
     /\ d.kind = "fu" => d.idx = d.of /\ ~ error_packet'
     => queue' = Append(queue, av_packet'.frags)

\* A width detected changes flags only.
LEMMA DetectEffect ==
  ASSUME ControlTypes, NEW w \in {0} \cup Widths, DetectWidth(w) \/ UNCHANGED control
  PROVE  /\ ControlTypes' /\ (running' <=> running) /\ (start_flag => start_flag')
<1>1. running' = running /\ width' \in {0} \cup Widths /\ (start_flag => start_flag')
  BY DEF DetectWidth, control, ControlTypes
<1>2. start_flag' \in BOOLEAN /\ stop_flag' \in BOOLEAN
  BY DEF DetectWidth, control, ControlTypes
<1> QED
  BY <1>1, <1>2 DEF ControlTypes

\* What storing a fragment does.
LEMMA StoreEffect ==
  ASSUME ControlTypes, LoopTypes, NEW d \in Frags, d.kind = "fu" => d.of # 1,
         pc = "recv", Store(d)
  PROVE  Effect(d)
<1>0. av_packet \in AvPackets /\ queue \in Seq(Seq(Frags))
  BY DEF LoopTypes
<1>a. d.w \in {0} \cup Widths
  BY FragFields
<1>1. CASE FuStart(d)
  <2>1. /\ d.kind = "fu" /\ d.idx = 1 /\ d.idx # d.of /\ KeepPacket(NewFu(d))
        /\ UNCHANGED <<pc, control>>
    BY <1>1 DEF FuStart
  <2>2. /\ av_packet' \in AvPackets /\ av_packet'.frags = <<d>>
        /\ av_packet'.kind = "fu" /\ ~ av_packet'.queued
        /\ av_packet'.stray <=> av_packet.stray
        /\ queue' = queue
    BY <1>0, <2>1, NewForms, PutForms
  <2>3. ControlTypes' /\ (running' <=> running) /\ (start_flag <=> start_flag')
    BY <2>1 DEF control, ControlTypes
  <2> QED
    BY <1>0, <2>1, <2>2, <2>3 DEF Effect
<1>2. CASE FuMid(d)
  <2>1. /\ d.kind = "fu" /\ d.idx # 1 /\ d.idx # d.of /\ KeepPacket(Extended(d))
        /\ UNCHANGED <<pc, control>>
    BY <1>2, FragFields DEF FuMid
  <2>2. /\ av_packet' = Extended(d) /\ queue' = queue
    BY <2>1 DEF KeepPacket
  <2>3. ControlTypes' /\ (running' <=> running) /\ (start_flag <=> start_flag')
    BY <2>1 DEF control, ControlTypes
  <2> QED
    BY <1>0, <2>1, <2>2, <2>3, ExtendedForm DEF Effect
<1>3. CASE FuEnd(d)
  <2>1. /\ d.kind = "fu" /\ d.idx = d.of /\ d.idx # 1
        /\ PutPacket(Extended(d)) \/ KeepPacket(Extended(d))
        /\ IF start_flag /\ ~ error_packet' THEN PutPacket(Extended(d))
                                            ELSE KeepPacket(Extended(d))
        /\ pc' = "stop" /\ UNCHANGED control
    BY <1>3 DEF FuEnd
  <2>2. ControlTypes' /\ (running' <=> running) /\ (start_flag <=> start_flag')
    BY <2>1 DEF control, ControlTypes
  <2>3. /\ Extended(d) \in AvPackets
        /\ Extended(d).frags = Append(av_packet.frags, d)
        /\ Extended(d).stray <=>
             av_packet.stray \/ av_packet.kind # "fu" \/ av_packet.queued
    BY <1>0, ExtendedForm
  <2>4. /\ av_packet' \in AvPackets /\ queue' \in Seq(Seq(Frags))
        /\ av_packet'.frags = Append(av_packet.frags, d)
        /\ av_packet'.stray <=> Extended(d).stray
        /\ queue' = queue \/ queue' = Append(queue, Append(av_packet.frags, d))
        /\ KeepPacket(Extended(d)) => queue' = queue
        /\ PutPacket(Extended(d)) /\ "overrun" \notin network.faults =>
             queue' = Append(queue, Append(av_packet.frags, d))
    BY <1>0, <2>1, <2>3, PutForms
  <2> QED
    BY <2>1, <2>2, <2>3, <2>4 DEF Effect
<1>4. CASE StapA(d) \/ SingleNal(d)
  <2>1. /\ d.kind \in {"stap", "mix", "sps", "slice"}
        /\ PutPacket(NewOther(d)) \/ KeepPacket(NewOther(d))
        /\ IF start_flag' /\ (d.kind \in {"stap", "mix"} => ~ running)
             THEN PutPacket(NewOther(d)) ELSE KeepPacket(NewOther(d))
        /\ pc' = "stop"
    BY <1>4 DEF StapA, SingleNal
  <2>2. \/ UNCHANGED control
        \/ /\ \E w \in {0} \cup Widths : DetectWidth(w)
           /\ d.kind \in {"sps", "stap"} \/ (d.kind = "mix" /\ d.unit # 0)
    <3>1. CASE SingleNal(d)
      BY <1>a, <3>1 DEF SingleNal
    <3>2. CASE StapA(d) /\ d.unit = 0
      BY <3>2 DEF StapA
    <3>3. CASE StapA(d) /\ d.unit # 0 /\ d.kind = "stap"
      BY <1>a, <3>3 DEF StapA
    <3>4. CASE StapA(d) /\ d.unit # 0 /\ d.kind = "mix"
      BY <3>4 DEF StapA
    <3> QED
      BY <1>4, <3>1, <3>2, <3>3, <3>4 DEF StapA
  <2>3. ControlTypes' /\ (running' <=> running) /\ (start_flag => start_flag')
    BY <2>2, DetectEffect
  <2>4. (start_flag' /\ ~ start_flag) =>
          d.kind \in {"sps", "stap"} \/ (d.kind = "mix" /\ d.unit # 0)
    BY <2>2 DEF control
  <2>5. /\ NewOther(d) \in AvPackets /\ NewOther(d).frags = <<d>>
        /\ NewOther(d).stray <=> av_packet.stray
    BY <1>0, NewForms
  <2>6. /\ av_packet' \in AvPackets /\ queue' \in Seq(Seq(Frags))
        /\ av_packet'.frags = <<d>>
        /\ av_packet'.stray <=> av_packet.stray
        /\ queue' = queue \/ queue' = Append(queue, <<d>>)
        /\ KeepPacket(NewOther(d)) => queue' = queue
        /\ PutPacket(NewOther(d)) /\ "overrun" \notin network.faults =>
             queue' = Append(queue, <<d>>)
    BY <1>0, <2>1, <2>5, PutForms
  <2> QED
    BY <2>1, <2>3, <2>4, <2>6 DEF Effect
<1> QED
  BY <1>1, <1>2, <1>3, <1>4 DEF Store

\* A packet is skipped, dropped, or stored.
LEMMA HandleCases ==
  ASSUME ControlTypes, LoopTypes, pc = "recv", NEW m, NEW d \in Frags,
         d.kind = "fu" => d.of # 1, Handle(m, d)
  PROVE  \/ d.kind = "empty" /\ Skip
         \/ d.kind # "empty" /\ Gap(m) /\ error_packet' = TRUE
         \/ d.kind # "empty" /\ InSequence(m) /\ Record(d) /\ Effect(d)
            /\ error_packet' \in BOOLEAN
<1>1. error_packet \in BOOLEAN
  BY DEF LoopTypes
<1>2. InSequence(m) => error_packet' \in BOOLEAN
  BY <1>1 DEF InSequence, Cleared
<1> QED
  BY <1>2, StoreEffect DEF Handle, Gap

\* Handling a datagram keeps the types.
LEMMA HandleTypes ==
  ASSUME ControlTypes, LoopTypes, pc = "recv", NEW m, m.seq \in Seqs,
         NEW d \in Frags, d.kind = "fu" => d.of # 1, Handle(m, d)
  PROVE  /\ ControlTypes'
         /\ pc' \in {"recv", "stop", "start"}
         /\ before_seq' \in Seqs /\ error_packet' \in BOOLEAN
         /\ av_packet' \in AvPackets
         /\ queue' \in Seq(Seq(Frags)) /\ mark' \in 0..Len(queue')
<1>1. CASE Skip
  BY <1>1 DEF Skip, history, control, ControlTypes, LoopTypes
<1>2. CASE Gap(m) /\ error_packet' = TRUE
  BY <1>2 DEF Gap, history, control, ControlTypes, LoopTypes
<1>3. CASE InSequence(m) /\ Record(d) /\ Effect(d) /\ error_packet' \in BOOLEAN
  <2>1. queue \in Seq(Seq(Frags)) /\ mark \in 0..Len(queue) /\ mark' = mark
    BY <1>3 DEF Record, LoopTypes
  <2>2. av_packet'.frags \in Seq(Frags)
    BY <1>3 DEF Effect, AvPackets
  <2>3. Len(queue') >= Len(queue)
    BY <1>3, <2>1, <2>2 DEF Effect
  <2>4. mark' \in 0..Len(queue')
    BY <1>3, <2>1, <2>3 DEF Effect
  <2> QED
    BY <1>3, <2>4 DEF Effect, InSequence
<1> QED
  BY <1>1, <1>2, <1>3, HandleCases

-----------------------------------------------------------------------------
(* The types are kept.                                                      *)

\* f is a fragment, perhaps without its payload, of one of the first u units
\* that a sender on the network n sends.
Sent(f, u, n) ==
  /\ f.unit \in 1..u /\ f.idx \in 1..f.of
  /\ \/ f.kind \in n.kinds /\ (f.kind = "fu" <=> f.of # 1)
     \/ f.kind = "empty" /\ "empty" \in n.faults

EnvInv ==
  /\ EnvTypes
  /\ \A i \in 1..Len(todo) : Sent(todo[i], unit, network) /\ todo[i].kind \in network.kinds
  /\ \A i \in 1..Len(net) : Sent(net[i].frag, unit, network)

\* The packet unpacked last was one that was sent, or was made up.
RtpInv ==
  rtp_packet = NULL \/ (rtp_packet.frag.kind = "fu" => rtp_packet.frag.of # 1)

TypeInv == EnvInv /\ ControlTypes /\ LoopTypes /\ RtpInv

\* Storing takes a datagram from the front, or none.
LEMMA LoopOnEnv ==
  ASSUME Recv \/ Runt \/ FirstRunt \/ NoData \/ StopSection \/ StartSection
  PROVE  /\ UNCHANGED sender
         /\ net' = net \/ (net # << >> /\ net' = Tail(net))
         /\ budget' = budget \/ (budget > 0 /\ budget' = budget - 1)
BY DEF Recv, Runt, FirstRunt, NoData, StopSection, StartSection, Fault, env, sender

\* The fragments of a new unit.
LEMMA NewUnitSent ==
  ASSUME EnvInv, NewUnit
  PROVE  /\ unit' = unit + 1 /\ unit' \in 0..MaxUnits /\ todo = << >>
         /\ todo' \in Seq(Frags) /\ todo' # << >>
         /\ \A i \in 1..Len(todo') :
              /\ Sent(todo'[i], unit', network') /\ todo'[i].kind \in network'.kinds
              /\ todo'[i].unit = unit' /\ todo'[i].idx = i
              /\ todo'[i].of = todo'[1].of /\ todo'[i].kind = todo'[1].kind
              /\ todo'[i].w = todo'[1].w
<1>1. unit' = unit + 1 /\ unit' \in 0..MaxUnits /\ todo = << >> /\ network' = network
  BY ConstantTypes DEF NewUnit, EnvInv, EnvTypes
<1>2. PICK k \in network.kinds, n \in Nat, w \in {0} \cup Widths :
        /\ todo' = [i \in 1..n |-> Packet(unit', k, i, n, w)] /\ n > 0
        /\ k = "fu" <=> n # 1
        /\ \A i \in 1..n : Packet(unit', k, i, n, w) \in Frags
  <2>1. PICK k \in network.kinds :
          \/ \E w \in {0} \cup Widths : todo' = <<Packet(unit', k, 1, 1, w)>> /\ k # "fu"
          \/ k = "fu" /\ \E n \in Parts : todo' = [i \in 1..n |-> Packet(unit', k, i, n, 0)]
    BY DEF NewUnit
  <2>2. k \in Kinds
    BY NetworkTypes DEF EnvInv, EnvTypes
  <2>3. CASE \E w \in {0} \cup Widths : todo' = <<Packet(unit', k, 1, 1, w)>> /\ k # "fu"
    <3>1. PICK w \in {0} \cup Widths : todo' = <<Packet(unit', k, 1, 1, w)>> /\ k # "fu"
      BY <2>3
    <3>2. <<Packet(unit', k, 1, 1, w)>> = [i \in 1..1 |-> Packet(unit', k, i, 1, w)]
      OBVIOUS
    <3>3. \A i \in 1..1 : Packet(unit', k, i, 1, w) \in Frags
      BY <1>1, <2>2, SentFrags
    <3> QED
      BY <3>1, <3>2, <3>3
  <2>4. CASE k = "fu" /\ \E n \in Parts : todo' = [i \in 1..n |-> Packet(unit', k, i, n, 0)]
    <3>1. PICK n \in Parts : todo' = [i \in 1..n |-> Packet(unit', k, i, n, 0)]
      BY <2>4
    <3>2. n \in Nat /\ n > 1
      BY ConstantTypes
    <3>3. \A i \in 1..n : Packet(unit', k, i, n, 0) \in Frags
      BY <1>1, <2>2, <3>2, SentFrags
    <3> QED
      BY <2>4, <3>1, <3>2, <3>3
  <2> QED
    BY <2>1, <2>3, <2>4
<1>3. todo' \in Seq(Frags) /\ Len(todo') = n
  BY <1>2
<1>4. \A i \in 1..n : todo'[i] = Packet(unit', k, i, n, w)
  BY <1>2
<1>5. \A i \in 1..n : /\ todo'[i].unit = unit' /\ todo'[i].idx = i /\ todo'[i].of = n
                      /\ todo'[i].kind = k /\ todo'[i].w = w
  BY <1>4, PacketFields
<1>6. unit' \in 1..unit'
  BY <1>1 DEF EnvInv, EnvTypes
<1>7. \A i \in 1..Len(todo') : Sent(todo'[i], unit', network')
  BY <1>1, <1>2, <1>3, <1>5, <1>6 DEF Sent
<1>8. 1 \in 1..n
  BY <1>2
<1> QED
  BY <1>1, <1>2, <1>3, <1>5, <1>7, <1>8

\* Sender and network keep the types.
LEMMA EnvStep ==
  ASSUME EnvInv, Next
  PROVE  EnvInv'
<1>0. unit \in 0..MaxUnits /\ network \in Networks /\ network.budget \in Nat
  BY NetworkTypes DEF EnvInv, EnvTypes
<1>1. CASE NewUnit
  <2>1. UNCHANGED <<network, seq, net, budget>>
    BY <1>1 DEF NewUnit
  <2>2. \A f : Sent(f, unit, network) => Sent(f, unit', network')
    BY <1>0, <1>1, <2>1, NewUnitSent DEF Sent
  <2>3. EnvTypes'
    BY <1>1, <2>1, NewUnitSent DEF EnvInv, EnvTypes
  <2>4. \A i \in 1..Len(net') : Sent(net'[i].frag, unit', network')
    BY <2>1, <2>2 DEF EnvInv
  <2>5. \A i \in 1..Len(todo') : Sent(todo'[i], unit', network') /\ todo'[i].kind \in network'.kinds
    BY <1>1, NewUnitSent
  <2> QED
    BY <2>3, <2>4, <2>5 DEF EnvInv
<1>2. CASE Send \/ SendEmpty
  <2>1. EnvTypes
    BY DEF EnvInv
  <2>2. UNCHANGED <<network, unit>> /\ budget' \in 0..network.budget
    BY <1>0, <1>2, <2>1 DEF Send, SendEmpty, Fault, EnvTypes
  <2>3. seq' \in Seqs
    BY <1>2, <2>1, NetSent, NxtType DEF EnvTypes, Seqs
  <2>4. todo # << >> /\ todo[1] \in Frags /\ Sent(todo[1], unit, network) /\ todo' \in {todo, Tail(todo)}
    <3>1. todo # << >> /\ todo' \in {todo, Tail(todo)}
      BY <1>2, <2>1, NetSent
    <3> QED
      BY <3>1 DEF EnvInv, EnvTypes
  <2>5. todo' \in Seq(Frags) /\ \A i \in 1..Len(todo') : \E j \in 1..Len(todo) : todo'[i] = todo[j]
    BY SMTT(30), <2>1, <2>4 DEF EnvTypes
  <2>6. \A f : Sent(f, unit, network) <=> Sent(f, unit', network')
    BY <2>2 DEF Sent
  <2>7. Sent(net'[Len(net')].frag, unit', network')
    <3>1. CASE Send
      BY <2>1, <2>4, <2>2, <3>1, NetSent
    <3>2. CASE SendEmpty
      <4>1. /\ "empty" \in network.faults
            /\ net'[Len(net')].frag = [todo[1] EXCEPT !.kind = "empty"]
        BY <2>1, <3>2, NetSent
      <4>2. /\ net'[Len(net')].frag.unit = todo[1].unit
            /\ net'[Len(net')].frag.idx = todo[1].idx
            /\ net'[Len(net')].frag.of = todo[1].of
            /\ net'[Len(net')].frag.kind = "empty"
        BY <2>4, <4>1 DEF Frags
      <4> QED
        BY <2>2, <2>4, <4>1, <4>2 DEF Sent
    <3> QED
      BY <1>2, <3>1, <3>2
  <2>8. /\ net' \in Seq(Datagrams) /\ Len(net') = Len(net) + 1
        /\ \A i \in 1..Len(net) : net'[i] = net[i]
    BY <1>2, <2>1, NetSent
  <2>9. ASSUME NEW i \in 1..Len(net') PROVE Sent(net'[i].frag, unit', network')
    <3>1. i \in 1..Len(net) \/ i = Len(net')
      BY <2>8, <2>1 DEF EnvTypes
    <3>2. CASE i \in 1..Len(net)
      <4>1. net'[i] = net[i] /\ Sent(net[i].frag, unit, network)
        BY <2>8, <3>2 DEF EnvInv
      <4> QED
        BY <2>6, <4>1
    <3> QED
      BY <2>7, <3>1, <3>2
  <2>10. \A i \in 1..Len(todo') : Sent(todo'[i], unit', network') /\ todo'[i].kind \in network'.kinds
    BY <2>2, <2>5, <2>6 DEF EnvInv
  <2>11. EnvTypes'
    BY <2>1, <2>2, <2>3, <2>5, <2>8 DEF EnvTypes
  <2> QED
    BY <2>6, <2>9, <2>10, <2>11 DEF EnvInv
<1>3. CASE \/ Lose \/ Duplicate \/ Swap \/ Recv \/ Runt \/ FirstRunt \/ NoData
           \/ StopSection \/ StartSection
  <2>1. UNCHANGED <<network, unit, todo, seq>>
    BY <1>3, LoopOnEnv DEF Lose, Duplicate, Swap, sender
  <2>2. budget' \in 0..network.budget
    BY <1>0, <1>3, LoopOnEnv DEF Lose, Duplicate, Swap, Fault, EnvInv, EnvTypes
  <2>3. /\ net' \in Seq(Datagrams)
        /\ \A i \in 1..Len(net') : \E j \in 1..Len(net) : net'[i] = net[j]
    <3>1. CASE net' = net
      BY <3>1 DEF EnvInv, EnvTypes
    <3> QED
      BY <1>3, <3>1, LoopOnEnv, NetShuffled DEF EnvInv, EnvTypes
  <2>4. \A f : Sent(f, unit, network) <=> Sent(f, unit', network')
    BY <2>1 DEF Sent
  <2>5. \A i \in 1..Len(net') : Sent(net'[i].frag, unit', network')
    BY <2>3, <2>4 DEF EnvInv
  <2>6. \A i \in 1..Len(todo') : Sent(todo'[i], unit', network') /\ todo'[i].kind \in network'.kinds
    BY <2>1, <2>4 DEF EnvInv
  <2>7. EnvTypes'
    BY <2>1, <2>2, <2>3 DEF EnvInv, EnvTypes
  <2> QED
    BY <2>5, <2>6, <2>7 DEF EnvInv
<1> QED
  BY <1>1, <1>2, <1>3 DEF Next

\* Initially the types are right.
LEMMA TypeInit == Init => TypeInv
<1> SUFFICES ASSUME Init PROVE TypeInv
  OBVIOUS
<1>1. EnvInv
  <2>1. network \in Networks /\ network.first \in Seqs /\ network.budget \in Nat
    BY NetworkTypes DEF Init
  <2>2. Len(todo) = 0 /\ Len(net) = 0 /\ todo \in Seq(Frags) /\ net \in Seq(Datagrams)
    BY DEF Init
  <2> QED
    BY <2>1, <2>2, ConstantTypes DEF Init, EnvInv, EnvTypes
<1>2. ControlTypes /\ RtpInv
  BY DEF Init, ControlTypes, RtpInv
<1>3. av_packet \in AvPackets
  <2>1. << >> \in Seq(Frags)
    OBVIOUS
  <2> QED
    BY <2>1 DEF Init, AvPackets
<1>4. queue \in Seq(Seq(Frags)) /\ mark \in 0..Len(queue) /\ before_seq \in Seqs
  BY ReceiverAssumption DEF Init, Seqs
<1> QED
  BY <1>1, <1>2, <1>3, <1>4 DEF Init, TypeInv, LoopTypes

\* The packet that is handled, and as what: the next datagram, or a made up one.
Handled(m, d) ==
  /\ pc = "recv" /\ m \in Datagrams /\ d \in Frags
  /\ d.kind = "fu" => d.of # 1
  /\ Handle(m, d) /\ rtp_packet' = m
  /\ \/ Recv /\ net # << >> /\ m = net[1] /\ d = m.frag /\ net' = Tail(net)
        /\ Sent(d, unit, network)
     \/ /\ Runt \/ FirstRunt
        /\ d.unit = 0 /\ m.frag.kind = d.kind /\ m.frag.of = d.of
        /\ "runt" \in network.faults /\ net = << >> /\ net' = net
        /\ rtp_packet = NULL \/ rtp_packet = m
        /\ rtp_packet = m \/ d.kind # "empty"

\* A step that handles a packet, or a runt that is skipped.
LEMMA HandledCases ==
  ASSUME TypeInv, Recv \/ Runt \/ FirstRunt
  PROVE  \/ \E m \in Datagrams, d \in Frags : Handled(m, d)
         \/ FirstRunt /\ Skip /\ UNCHANGED <<rtp_packet, net>> /\ "runt" \in network.faults
<1>1. CASE Recv
  <2>1. /\ pc = "recv" /\ net # << >> /\ net' = Tail(net) /\ rtp_packet' = Head(net)
        /\ Handle(Head(net), Head(net).frag)
    BY <1>1 DEF Recv
  <2>2. net[1] = Head(net) /\ net[1] \in Datagrams /\ 1 \in 1..Len(net)
    BY <2>1 DEF TypeInv, EnvInv, EnvTypes
  <2>3. Sent(net[1].frag, unit, network) /\ net[1].frag \in Frags
    BY <2>2 DEF TypeInv, EnvInv, Datagrams
  <2>4. net[1].frag.kind = "fu" => net[1].frag.of # 1
    BY <2>3 DEF Sent
  <2>5. Handled(net[1], net[1].frag)
    BY <1>1, <2>1, <2>2, <2>3, <2>4 DEF Handled
  <2> QED
    BY <2>2, <2>3, <2>5
<1>2. CASE Runt
  <2>1. /\ pc = "recv" /\ net = << >> /\ rtp_packet # NULL /\ "runt" \in network.faults
        /\ UNCHANGED <<net, rtp_packet>>
    BY <1>2 DEF Runt, Fault
  <2>2. PICK d \in Junk(rtp_packet.frag) : Handle(rtp_packet, d)
    BY <1>2 DEF Runt
  <2>3. rtp_packet \in Datagrams /\ rtp_packet.frag \in Frags
    BY <2>1 DEF TypeInv, LoopTypes, Datagrams
  <2>4. /\ d \in Frags /\ d.unit = 0 /\ rtp_packet.frag.kind = d.kind
        /\ rtp_packet.frag.of = d.of
    BY <2>2, <2>3, JunkFrags
  <2>5. d.kind = "fu" => d.of # 1
    BY <2>1, <2>4 DEF TypeInv, RtpInv
  <2>6. Handled(rtp_packet, d)
    BY <1>2, <2>1, <2>2, <2>3, <2>4, <2>5 DEF Handled
  <2> QED
    BY <2>3, <2>4, <2>6
<1>3. CASE FirstRunt
  <2>1. /\ pc = "recv" /\ net = << >> /\ rtp_packet = NULL /\ "runt" \in network.faults
        /\ UNCHANGED net
    BY <1>3 DEF FirstRunt, Fault
  <2>2. CASE Skip /\ UNCHANGED rtp_packet
    BY <1>3, <2>1, <2>2
  <2>3. CASE ~ (Skip /\ UNCHANGED rtp_packet)
    <3>1. PICK s \in Seqs, k \in Kinds, i \in 1..3 :
            \E d \in Junk(Packet(0, k, IF k = "fu" THEN i ELSE 1, IF k = "fu" THEN 3 ELSE 1, 0)) :
              rtp_packet' = [frag |-> d, seq |-> s] /\ Handle(rtp_packet', d)
      BY <1>3, <2>3 DEF FirstRunt, Seqs
    <3>2. PICK d \in Junk(Packet(0, k, IF k = "fu" THEN i ELSE 1, IF k = "fu" THEN 3 ELSE 1, 0)) :
            rtp_packet' = [frag |-> d, seq |-> s] /\ Handle(rtp_packet', d)
      BY <3>1
    <3>3. d \in Frags /\ d.unit = 0 /\ (d.kind = "fu" => d.of # 1) /\ d.kind # "empty"
      BY FirstJunkFrags DEF Kinds
    <3> DEFINE m == [frag |-> d, seq |-> s]
    <3>4. m \in Datagrams /\ m.frag = d
      BY <3>3 DEF Datagrams
    <3>5. rtp_packet' = m /\ Handle(m, d)
      BY <3>2
    <3> HIDE DEF m
    <3>6. Handled(m, d)
      BY <1>3, <2>1, <3>3, <3>4, <3>5 DEF Handled
    <3> QED
      BY <3>3, <3>4, <3>6
  <2> QED
    BY <2>2, <2>3
<1> QED
  BY <1>1, <1>2, <1>3

\* The loop keeps the types.
LEMMA LoopTypeStep ==
  ASSUME TypeInv, Next
  PROVE  ControlTypes' /\ LoopTypes' /\ RtpInv'
<1>0. ControlTypes /\ LoopTypes /\ RtpInv
  BY DEF TypeInv
<1>1. CASE UNCHANGED loop
  BY <1>0, <1>1 DEF loop, control, history, ControlTypes, LoopTypes, RtpInv
<1>2. ASSUME NEW m \in Datagrams, NEW d \in Frags, Handled(m, d)
      PROVE  ControlTypes' /\ LoopTypes' /\ RtpInv'
  <2>1. m.seq \in Seqs /\ rtp_packet' = m
    BY <1>2 DEF Datagrams, Handled
  <2>2. /\ ControlTypes'
        /\ pc' \in {"recv", "stop", "start"}
        /\ before_seq' \in Seqs /\ error_packet' \in BOOLEAN
        /\ av_packet' \in AvPackets
        /\ queue' \in Seq(Seq(Frags)) /\ mark' \in 0..Len(queue')
    BY <1>0, <1>2, <2>1, HandleTypes DEF Handled
  <2>3. m.frag.kind = "fu" => m.frag.of # 1
    BY <1>2 DEF Handled
  <2> QED
    BY <2>1, <2>2, <2>3 DEF LoopTypes, RtpInv
<1>3. CASE Skip /\ UNCHANGED <<rtp_packet, net>>
  BY <1>0, <1>3 DEF Skip, control, history, ControlTypes, LoopTypes, RtpInv
<1>4. CASE NoData
  BY <1>0, <1>4 DEF NoData, history, ControlTypes, LoopTypes, RtpInv
<1>5. CASE StopSection
  <2>1. 0 \in Seqs /\ Len(queue) \in 0..Len(queue)
    BY <1>0, ReceiverAssumption DEF LoopTypes, Seqs
  <2> QED
    BY <1>0, <1>5, <2>1 DEF StopSection, control, ControlTypes, LoopTypes, RtpInv
<1>6. CASE StartSection
  BY <1>0, <1>6 DEF StartSection, control, history, ControlTypes, LoopTypes, RtpInv
<1> QED
  BY <1>1, <1>2, <1>3, <1>4, <1>5, <1>6, HandledCases
  DEF Next, NewUnit, Send, SendEmpty, Lose, Duplicate, Swap

\* TypeInv holds in every state the receiver can reach.
THEOREM TypeInvHolds == Spec => []TypeInv
<1>1. TypeInv /\ [Next]_vars => TypeInv'
  <2> SUFFICES ASSUME TypeInv, [Next]_vars PROVE TypeInv'
    OBVIOUS
  <2>1. CASE Next
    BY <2>1, EnvStep, LoopTypeStep DEF TypeInv
  <2>2. CASE UNCHANGED vars
    BY <2>2
    DEF vars, env, loop, control, history, TypeInv, EnvInv, EnvTypes,
        ControlTypes, LoopTypes, RtpInv
  <2> QED
    BY <2>1, <2>2
<1> QED
  BY TypeInit, <1>1, PTL DEF Spec

\* The variables keep their types, and a decoding thread exists only while a
\* session is open (main_yuv4.c:362-380 and 388-420), whatever the network does.
THEOREM TypeCorrect == Spec => []TypeOK
<1>1. TypeInv => TypeOK
  BY TypesAreTypeOK DEF TypeInv, Types, EnvInv
<1> QED
  BY <1>1, TypeInvHolds, PTL

-----------------------------------------------------------------------------
(* A session starts with an SPS.                                            *)

\* What the steps other than handling a packet do, as far as the loop's own
\* state goes.
LEMMA OtherSteps ==
  ASSUME TypeInv, Next
  PROVE  \/ UNCHANGED loop
         \/ \E m \in Datagrams, d \in Frags : Handled(m, d)
         \/ FirstRunt /\ Skip /\ UNCHANGED <<rtp_packet, net>> /\ "runt" \in network.faults
         \/ NoData \/ StopSection \/ StartSection
BY HandledCases DEF Next, NewUnit, Send, SendEmpty, Lose, Duplicate, Swap

\* The network is chosen once.
LEMMA NetworkStays == ASSUME Next PROVE network' = network
BY LoopOnEnv
DEF Next, NewUnit, Send, SendEmpty, Lose, Duplicate, Swap, sender

\* A session that was asked for has stored something, and first an SPS.
SpsInv ==
  "mix" \notin network.kinds /\ network.faults \cap {"overrun", "runt"} = {} =>
    /\ start_flag => Len(queue) > mark
    /\ StartsWithSps

\* Each step keeps an SPS in front of what a session queues.
LEMMA SpsStep ==
  ASSUME TypeInv, SpsInv, Next
  PROVE  SpsInv'
<1> SUFFICES ASSUME "mix" \notin network.kinds, "overrun" \notin network.faults,
                    "runt" \notin network.faults,
                    network.faults \cap {"overrun", "runt"} = {}
             PROVE  (start_flag' => Len(queue') > mark') /\ StartsWithSps'
  BY NetworkStays DEF SpsInv
<1>0. /\ start_flag => Len(queue) > mark
      /\ Len(queue) > mark => /\ queue[mark + 1][1].unit # 0
                              /\ queue[mark + 1][1].kind \in {"sps", "stap"}
      /\ queue \in Seq(Seq(Frags)) /\ mark \in 0..Len(queue)
      /\ start_flag \in BOOLEAN /\ running \in BOOLEAN /\ (running => start_flag)
  BY DEF SpsInv, StartsWithSps, TypeInv, LoopTypes, ControlTypes
<1>1. CASE UNCHANGED <<start_flag, queue, mark>>
  BY <1>0, <1>1 DEF StartsWithSps
<1>2. CASE /\ Len(queue) > mark /\ mark' = mark
           /\ queue' = queue \/ \E f \in Seq(Frags) : queue' = Append(queue, f)
  <2>a. mark + 1 \in 1..Len(queue)
    BY <1>0, <1>2
  <2>b. ASSUME NEW f \in Seq(Frags), queue' = Append(queue, f)
        PROVE  Len(queue') > mark' /\ queue'[mark' + 1] = queue[mark + 1]
    BY <1>0, <1>2, <2>a, <2>b
  <2>1. Len(queue') > mark' /\ queue'[mark' + 1] = queue[mark + 1]
    BY <1>0, <1>2, <2>b
  <2> QED
    BY <1>0, <1>2, <2>1 DEF StartsWithSps
<1>3. ASSUME NEW m \in Datagrams, NEW d \in Frags, Handled(m, d)
      PROVE  (start_flag' => Len(queue') > mark') /\ StartsWithSps'
  <2>0. ControlTypes /\ LoopTypes /\ pc = "recv" /\ (d.kind = "fu" => d.of # 1) /\ Handle(m, d)
    BY <1>3 DEF TypeInv, Handled
  <2>1. CASE Skip \/ Gap(m)
    BY <1>1, <2>1 DEF Skip, Gap, control, history
  <2>2. CASE InSequence(m) /\ Record(d) /\ Effect(d)
    <3>1. mark' = mark /\ av_packet'.frags \in Seq(Frags)
      BY <2>2 DEF Record, Effect, AvPackets
    <3>2. CASE Len(queue) > mark
      BY <1>2, <2>2, <3>1, <3>2 DEF Effect
    <3>3. CASE ~ (Len(queue) > mark) /\ ~ start_flag'
      <4>1. queue' = queue
        BY <2>2, <3>3 DEF Effect
      <4> QED
        BY <3>1, <3>3, <4>1 DEF StartsWithSps
    <3>4. CASE ~ (Len(queue) > mark) /\ start_flag'
      <4>1. ~ start_flag /\ ~ running /\ Len(queue) = mark
        BY <1>0, <3>4
      <4>2. ~ (d.kind = "mix" /\ d.unit # 0)
        BY <1>3, NetworkTypes DEF Handled, Sent, Kinds
      <4>3. d.kind \in {"sps", "stap"}
        BY <2>2, <3>4, <4>1, <4>2 DEF Effect
      <4>6. d.unit # 0
        BY <1>3 DEF Handled, Sent, TypeInv, EnvInv, EnvTypes
      <4>4. queue' = Append(queue, <<d>>)
        BY <2>2, <3>4, <4>1, <4>3 DEF Effect
      <4>5. Len(queue') = mark + 1 /\ queue'[mark + 1] = <<d>>
        BY <1>0, <4>1, <4>4
      <4> QED
        BY <1>0, <3>1, <4>3, <4>5, <4>6 DEF StartsWithSps
    <3> QED
      BY <3>2, <3>3, <3>4
  <2> QED
    BY <2>0, <2>1, <2>2, HandleCases
<1>4. CASE Skip \/ NoData \/ UNCHANGED loop
  BY <1>1, <1>4 DEF Skip, NoData, control, history, loop
<1>5. CASE StopSection
  <2>1. CASE stop_flag /\ running
    BY <1>0, <1>5, <2>1 DEF StopSection, StartsWithSps
  <2>2. CASE ~ (stop_flag /\ running)
    BY <1>1, <1>5, <2>2 DEF StopSection, control
  <2> QED
    BY <2>1, <2>2
<1>6. CASE StartSection
  BY <1>1, <1>6 DEF StartSection, control, history
<1> QED
  BY <1>3, <1>4, <1>5, <1>6, OtherSteps

\* The first packet that is queued of a session holds an SPS (main_yuv4.c:208),
\* on every network whose senders begin aggregates with one and send no runts,
\* while the queue refuses nothing, also across losses, timeouts, parsers without
\* memory and decoders that do not open.
THEOREM SessionStartsWithSpsHolds == Spec => []SessionStartsWithSps
<1>1. Init => SpsInv
  BY DEF Init, SpsInv, StartsWithSps
<1>2. TypeInv /\ SpsInv /\ [Next]_vars => SpsInv'
  <2> SUFFICES ASSUME TypeInv, SpsInv, [Next]_vars PROVE SpsInv'
    OBVIOUS
  <2>1. CASE Next
    BY <2>1, SpsStep
  <2>2. CASE UNCHANGED vars
    BY <2>2 DEF vars, env, loop, control, history, SpsInv, StartsWithSps
  <2> QED
    BY <2>1, <2>2
<1>3. SpsInv => SessionStartsWithSps
  BY DEF SpsInv, SessionStartsWithSps
<1> QED
  BY <1>1, <1>2, <1>3, TypeInvHolds, PTL DEF Spec

-----------------------------------------------------------------------------
(* Networks that keep every packet, in order.                               *)

\* The number of the datagram that comes next.
OutSeq == IF net # << >> THEN net[1].seq ELSE seq

\* The numbers in flight follow each other, and the one expected.
SeqInv ==
  /\ \A i \in 1..Len(net) - 1 : net[i + 1].seq = Nxt(net[i].seq)
  /\ net # << >> => seq = Nxt(net[Len(net)].seq)
  /\ before_seq # 0 \/ start_flag => OutSeq = Nxt(before_seq)

\* What is taken then is the datagram at the front, and it is stored.
LEMMA TakenInOrder ==
  ASSUME TypeInv, Ordered, SeqInv, NEW m \in Datagrams, NEW d \in Frags, Handled(m, d)
  PROVE  /\ Recv /\ net # << >> /\ m = net[1] /\ d = m.frag /\ net' = Tail(net)
         /\ Sent(d, unit, network) /\ d.kind \in network.kinds
         /\ before_seq' = m.seq /\ Effect(d) /\ Record(d)
<1>1. "runt" \notin network.faults /\ "empty" \notin network.faults
  BY DEF Ordered
<1>2. /\ Recv /\ net # << >> /\ m = net[1] /\ d = m.frag /\ net' = Tail(net)
      /\ Sent(d, unit, network)
  BY <1>1 DEF Handled
<1>3. d.kind \in network.kinds /\ d.kind # "empty"
  BY <1>1, <1>2, NetworkTypes DEF Sent, TypeInv, EnvInv, EnvTypes, Kinds
<1>4. ~ Gap(m)
  BY <1>2 DEF Gap, Follows, SeqInv, OutSeq, Nxt
<1>5. InSequence(m) /\ Record(d) /\ Effect(d)
  BY <1>3, <1>4, HandleCases DEF Handled, TypeInv
<1> QED
  BY <1>2, <1>3, <1>5 DEF InSequence

\* The steps there are.
LEMMA OrderedSteps ==
  ASSUME TypeInv, Ordered, Next
  PROVE  \/ NewUnit \/ Send
         \/ \E m \in Datagrams, d \in Frags : Handled(m, d)
         \/ NoData \/ StopSection \/ StartSection
<1>1. /\ "runt" \notin network.faults /\ "empty" \notin network.faults
      /\ "loss" \notin network.faults /\ "dup" \notin network.faults
      /\ "swap" \notin network.faults
  BY DEF Ordered
<1> QED
  BY <1>1, HandledCases DEF Next, SendEmpty, Lose, Duplicate, Swap, Fault

\* An ordered network stays ordered.
LEMMA OrderedStays == ASSUME Next PROVE Ordered' = Ordered
BY NetworkStays DEF Ordered

\* Each step keeps the numbers consecutive.
LEMMA SeqStep ==
  ASSUME TypeInv, Ordered, SeqInv, Next
  PROVE  SeqInv'
<1>0. net \in Seq(Datagrams)
  BY DEF TypeInv, EnvInv, EnvTypes
<1>1. CASE UNCHANGED <<net, seq, before_seq, start_flag>>
  BY <1>1 DEF SeqInv, OutSeq
<1>2. CASE Send
  <2>1. /\ net' \in Seq(Datagrams) /\ Len(net') = Len(net) + 1
        /\ \A i \in 1..Len(net) : net'[i] = net[i]
        /\ net'[Len(net')].seq = seq /\ seq' = Nxt(seq)
        /\ UNCHANGED <<before_seq, start_flag>>
    BY <1>2, NetSent DEF TypeInv, EnvInv, Send, loop, control
  <2>2. OutSeq' = OutSeq
    <3>1. CASE net = << >>
      <4>1. Len(net') = 1
        BY <2>1, <3>1
      <4>2. net' # << >> /\ net'[1].seq = seq
        BY <2>1, <4>1
      <4> QED
        BY <3>1, <4>2 DEF OutSeq
    <3>2. CASE net # << >>
      <4>1. 1 \in 1..Len(net) /\ net' # << >>
        BY <1>0, <2>1, <3>2
      <4> QED
        BY <2>1, <3>2, <4>1 DEF OutSeq
    <3> QED
      BY <3>1, <3>2
  <2>3. \A i \in 1..Len(net') - 1 : net'[i + 1].seq = Nxt(net'[i].seq)
    <3> TAKE i \in 1..Len(net') - 1
    <3>1. CASE i < Len(net)
      <4>1. i \in 1..Len(net) - 1 /\ i \in 1..Len(net) /\ i + 1 \in 1..Len(net)
        BY <1>0, <2>1, <3>1
      <4> QED
        BY <2>1, <4>1 DEF SeqInv
    <3>2. CASE i = Len(net)
      <4>1. net # << >> /\ i \in 1..Len(net) /\ i + 1 = Len(net')
        BY <1>0, <2>1, <3>2
      <4> QED
        BY <2>1, <3>2, <4>1 DEF SeqInv
    <3> QED
      BY <1>0, <2>1, <3>1, <3>2
  <2> QED
    BY <2>1, <2>2, <2>3 DEF SeqInv
<1>3. ASSUME NEW m \in Datagrams, NEW d \in Frags, Handled(m, d)
      PROVE  SeqInv'
  <2>1. /\ net # << >> /\ m = net[1] /\ net' = Tail(net) /\ before_seq' = m.seq
        /\ seq' = seq
    BY <1>3, TakenInOrder, LoopOnEnv DEF sender
  <2>2. Len(net') = Len(net) - 1 /\ \A i \in 1..Len(net') : net'[i] = net[i + 1]
    BY <1>0, <2>1
  <2>3. OutSeq' = Nxt(before_seq')
    <3>0. Len(net) \in Nat /\ Len(net) > 0 /\ net' \in Seq(Datagrams)
      BY <1>0, <2>1
    <3>1. CASE Len(net) = 1
      <4>1. net' = << >>
        BY <2>2, <3>0, <3>1
      <4>2. seq = Nxt(net[1].seq)
        BY <2>1, <3>1 DEF SeqInv
      <4> QED
        BY <2>1, <4>1, <4>2 DEF OutSeq
    <3>2. CASE Len(net) > 1
      <4>1. net' # << >> /\ 1 \in 1..Len(net) - 1 /\ 1 \in 1..Len(net')
        BY <2>2, <3>0, <3>2
      <4>2. net'[1] = net[1 + 1] /\ net[1 + 1].seq = Nxt(net[1].seq)
        BY <2>2, <4>1 DEF SeqInv
      <4> QED
        BY <2>1, <4>1, <4>2 DEF OutSeq
    <3>3. Len(net) = 1 \/ Len(net) > 1
      <4>1. \A n \in Nat : n > 0 => n = 1 \/ n > 1
        OBVIOUS
      <4> QED
        BY <3>0, <4>1, Zenon
    <3> QED
      BY <3>1, <3>2, <3>3
  <2>4. \A i \in 1..Len(net') - 1 : net'[i + 1].seq = Nxt(net'[i].seq)
    <3> TAKE i \in 1..Len(net') - 1
    <3>1. i + 1 \in 1..Len(net) - 1 /\ i \in 1..Len(net') /\ i + 1 \in 1..Len(net')
      BY <1>0, <2>2
    <3>2. net[(i + 1) + 1].seq = Nxt(net[i + 1].seq)
      BY <3>1 DEF SeqInv
    <3>3. net'[i + 1] = net[(i + 1) + 1] /\ net'[i] = net[i + 1]
      BY <2>2, <3>1
    <3> QED
      BY <3>2, <3>3
  <2>5. net' # << >> => seq' = Nxt(net'[Len(net')].seq)
    <3> SUFFICES ASSUME net' # << >> PROVE seq' = Nxt(net'[Len(net')].seq)
      OBVIOUS
    <3>1. Len(net') \in 1..Len(net') /\ Len(net') + 1 = Len(net)
      BY <1>0, <2>1, <2>2
    <3> QED
      BY <2>1, <2>2, <3>1 DEF SeqInv
  <2> QED
    BY <2>3, <2>4, <2>5 DEF SeqInv
<1>4. CASE StopSection
  <2>1. UNCHANGED <<net, seq>> /\ (UNCHANGED <<before_seq, start_flag>> \/ (before_seq' = 0 /\ start_flag' = FALSE))
    BY <1>4 DEF StopSection, env, control
  <2> QED
    BY <2>1 DEF SeqInv, OutSeq
<1>5. CASE NewUnit \/ NoData \/ StartSection
  <2>1. UNCHANGED <<net, seq, before_seq, start_flag>>
    BY <1>5 DEF NewUnit, NoData, StartSection, loop, control, env, sender
  <2> QED
    BY <1>1, <2>1
<1> QED
  BY <1>2, <1>3, <1>4, <1>5, OrderedSteps

-----------------------------------------------------------------------------
(* The fragments in flight then, and what is queued of them.                *)

\* The fragments that are still to come, those not yet sent included.
InFlight == Len(net) + Len(todo)
flight == [i \in 1..InFlight |-> IF i <= Len(net) THEN net[i].frag ELSE todo[i - Len(net)]]

SameUnit(f, g) == f.unit = g.unit /\ f.kind = g.kind /\ f.of = g.of /\ f.w = g.w

\* g comes right after f: the next of its unit, or the first of a later one.
Continues(f, g) == IF g.idx = 1 THEN f.unit < g.unit
                                ELSE SameUnit(f, g) /\ g.idx = f.idx + 1

ChainInv == \A i \in 1..InFlight - 1 : Continues(flight[i], flight[i + 1])

\* The buffer holds the fragments of a unit before the one that comes next.
HeadInv ==
  InFlight > 0 /\ flight[1].idx > 1 =>
    /\ av_packet.kind = "fu" /\ ~ av_packet.queued
    /\ Len(av_packet.frags) = flight[1].idx - 1
    /\ \A i \in 1..Len(av_packet.frags) :
         SameUnit(av_packet.frags[i], flight[1]) /\ av_packet.frags[i].idx = i

\* What is queued is units before the one that comes next.
QueuedInv ==
  /\ \A i \in 1..Len(queue) : UnitOf(queue[i]) \in 1..unit
  /\ InFlight > 0 => \A i \in 1..Len(queue) : UnitOf(queue[i]) < flight[1].unit

FlightInv == SeqInv /\ ChainInv /\ HeadInv /\ QueuedInv /\ ~ av_packet.stray

\* What is between sender and loop are fragments of the sender.
LEMMA FlightTypes ==
  ASSUME TypeInv, Ordered
  PROVE  /\ Len(net) \in Nat /\ Len(todo) \in Nat /\ InFlight \in Nat
         /\ \A i \in 1..InFlight : flight[i] \in Frags /\ Sent(flight[i], unit, network)
                                   /\ flight[i].kind \in network.kinds
<1>1. /\ net \in Seq(Datagrams) /\ todo \in Seq(Frags)
      /\ \A i \in 1..Len(todo) : Sent(todo[i], unit, network) /\ todo[i].kind \in network.kinds
      /\ \A i \in 1..Len(net) : Sent(net[i].frag, unit, network)
  BY DEF TypeInv, EnvInv, EnvTypes
<1>2. Len(net) \in Nat /\ Len(todo) \in Nat /\ InFlight \in Nat
  BY <1>1 DEF InFlight
<1>3. "empty" \notin network.faults
  BY DEF Ordered
<1>4. ASSUME NEW i \in 1..InFlight
      PROVE  flight[i] \in Frags /\ Sent(flight[i], unit, network)
             /\ flight[i].kind \in network.kinds
  <2>1. CASE i <= Len(net)
    <3>1. i \in 1..Len(net) /\ flight[i] = net[i].frag
      BY <1>2, <2>1 DEF flight
    <3>2. net[i] \in Datagrams /\ Sent(net[i].frag, unit, network)
      BY <1>1, <3>1
    <3>3. net[i].frag \in Frags /\ net[i].frag.kind \in network.kinds
      BY <1>3, <3>2 DEF Datagrams, Sent
    <3> QED
      BY <3>1, <3>2, <3>3
  <2>2. CASE i > Len(net)
    <3>1. i - Len(net) \in 1..Len(todo) /\ flight[i] = todo[i - Len(net)]
      BY <1>2, <2>2 DEF flight, InFlight
    <3> QED
      BY <1>1, <3>1
  <2> QED
    BY <1>2, <2>1, <2>2
<1> QED
  BY <1>2, <1>4

\* Sending a packet leaves it in flight.
LEMMA FlightSent ==
  ASSUME TypeInv, Ordered, Send
  PROVE  InFlight' = InFlight /\ \A i \in 1..InFlight : flight'[i] = flight[i]
<1>1. net \in Seq(Datagrams) /\ todo \in Seq(Frags) /\ EnvTypes
  BY DEF TypeInv, EnvInv, EnvTypes
<1>2. /\ Len(net') = Len(net) + 1 /\ todo # << >>
      /\ \A i \in 1..Len(net) : net'[i] = net[i]
      /\ net'[Len(net')].frag = todo[1] /\ todo' = Tail(todo)
  BY <1>1, NetSent
<1>3. /\ Len(todo') = Len(todo) - 1 /\ Len(todo) > 0
      /\ \A i \in 1..Len(todo') : todo'[i] = todo[i + 1]
  BY <1>1, <1>2
<1>4. Len(net) \in Nat /\ Len(todo) \in Nat
  BY <1>1
<1>5. InFlight' = InFlight
  BY <1>2, <1>3, <1>4 DEF InFlight
<1>6. ASSUME NEW i \in 1..InFlight PROVE flight'[i] = flight[i]
  <2>1. flight'[i] = IF i <= Len(net') THEN net'[i].frag ELSE todo'[i - Len(net')]
    BY <1>5 DEF flight
  <2>2. flight[i] = IF i <= Len(net) THEN net[i].frag ELSE todo[i - Len(net)]
    BY DEF flight
  <2>3. CASE i <= Len(net)
    <3>1. i \in 1..Len(net) /\ i <= Len(net')
      BY <1>2, <1>4, <2>3
    <3> QED
      BY <1>2, <2>1, <2>2, <2>3, <3>1
  <2>4. CASE i = Len(net) + 1
    <3>1. ~ (i <= Len(net)) /\ i - Len(net) = 1 /\ i <= Len(net') /\ i = Len(net')
      BY <1>2, <1>4, <2>4
    <3> QED
      BY <1>2, <2>1, <2>2, <3>1
  <2>5. CASE i > Len(net) + 1
    <3>1. /\ ~ (i <= Len(net)) /\ ~ (i <= Len(net'))
          /\ i - Len(net') \in 1..Len(todo') /\ (i - Len(net')) + 1 = i - Len(net)
      BY <1>2, <1>3, <1>4, <2>5 DEF InFlight
    <3>2. todo'[i - Len(net')] = todo[(i - Len(net')) + 1]
      BY <1>3, <3>1
    <3> QED
      BY <2>1, <2>2, <3>1, <3>2
  <2> QED
    BY <1>4, <2>3, <2>4, <2>5
<1> QED
  BY <1>5, <1>6

\* Taking a datagram takes the first fragment.
LEMMA FlightTaken ==
  ASSUME TypeInv, Ordered, net # << >>, net' = Tail(net), todo' = todo
  PROVE  /\ InFlight' = InFlight - 1 /\ InFlight > 0 /\ flight[1] = net[1].frag
         /\ \A i \in 1..InFlight - 1 : flight'[i] = flight[i + 1]
<1>1. net \in Seq(Datagrams) /\ todo \in Seq(Frags)
  BY DEF TypeInv, EnvInv, EnvTypes
<1>2. /\ Len(net') = Len(net) - 1 /\ Len(net) > 0
      /\ \A i \in 1..Len(net') : net'[i] = net[i + 1]
  BY <1>1
<1>3. Len(net) \in Nat /\ Len(todo) \in Nat
  BY <1>1
<1>4. InFlight' = InFlight - 1 /\ InFlight > 0 /\ InFlight \in Nat
  BY <1>2, <1>3 DEF InFlight
<1>5. flight[1] = net[1].frag
  BY <1>2, <1>3, <1>4 DEF flight
<1>6. ASSUME NEW i \in 1..InFlight - 1 PROVE flight'[i] = flight[i + 1]
  <2>0. i \in 1..InFlight' /\ i + 1 \in 1..InFlight
    BY <1>4
  <2>1. flight'[i] = IF i <= Len(net') THEN net'[i].frag ELSE todo[i - Len(net')]
    BY <2>0 DEF flight
  <2>2. flight[i + 1] = IF i + 1 <= Len(net) THEN net[i + 1].frag
                                             ELSE todo[(i + 1) - Len(net)]
    BY <2>0 DEF flight
  <2>3. CASE i <= Len(net')
    <3>1. i \in 1..Len(net') /\ i + 1 <= Len(net)
      BY <1>2, <1>3, <2>3
    <3> QED
      BY <1>2, <2>1, <2>2, <2>3, <3>1
  <2>4. CASE ~ (i <= Len(net'))
    <3>1. ~ (i + 1 <= Len(net)) /\ (i + 1) - Len(net) = i - Len(net')
      BY <1>2, <1>3, <2>4
    <3> QED
      BY <2>1, <2>2, <2>4, <3>1
  <2> QED
    BY <2>3, <2>4
<1> QED
  BY <1>4, <1>5, <1>6

\* A new unit comes after all that is in flight.
LEMMA FlightBegun ==
  ASSUME TypeInv, Ordered, NewUnit
  PROVE  /\ InFlight = Len(net) /\ InFlight' = InFlight + Len(todo') /\ InFlight' > InFlight
         /\ \A i \in 1..InFlight : flight'[i] = flight[i]
         /\ \A i \in 1..Len(todo') : flight'[InFlight + i] = todo'[i]
<1>1. net \in Seq(Datagrams) /\ net' = net /\ EnvInv
  BY DEF TypeInv, EnvInv, EnvTypes, NewUnit
<1>2. todo = << >> /\ todo' \in Seq(Frags) /\ todo' # << >>
  BY <1>1, NewUnitSent
<1>3. Len(net) \in Nat /\ Len(todo') \in Nat /\ Len(todo') > 0 /\ Len(todo) = 0
  BY <1>1, <1>2
<1>4. InFlight = Len(net) /\ InFlight' = InFlight + Len(todo') /\ InFlight' > InFlight
  BY <1>1, <1>3 DEF InFlight
<1>5. ASSUME NEW i \in 1..InFlight PROVE flight'[i] = flight[i]
  <2>1. i \in 1..InFlight' /\ i <= Len(net)
    BY <1>3, <1>4
  <2>2. flight'[i] = net[i].frag
    BY <1>1, <2>1 DEF flight
  <2>3. flight[i] = net[i].frag
    BY <2>1 DEF flight
  <2> QED
    BY <2>2, <2>3
<1>6. ASSUME NEW i \in 1..Len(todo') PROVE flight'[InFlight + i] = todo'[i]
  <2>1. InFlight + i \in 1..InFlight' /\ ~ (InFlight + i <= Len(net))
        /\ (InFlight + i) - Len(net) = i
    BY <1>3, <1>4
  <2>2. flight'[InFlight + i] = todo'[(InFlight + i) - Len(net)]
    BY <1>1, <2>1 DEF flight
  <2> QED
    BY <2>1, <2>2
<1> QED
  BY <1>4, <1>5, <1>6

\* The fragment that is taken, and the one after it.
LEMMA TakenNext ==
  ASSUME TypeInv, Ordered, FlightInv, NEW m \in Datagrams, NEW d \in Frags, Handled(m, d)
  PROVE  /\ InFlight > 0 /\ d = flight[1] /\ InFlight' = InFlight - 1
         /\ \A i \in 1..InFlight - 1 : flight'[i] = flight[i + 1]
         /\ Sent(d, unit, network) /\ d.kind \in network.kinds /\ Effect(d)
         /\ unit' = unit /\ network' = network
         /\ InFlight' > 0 => /\ Continues(d, flight'[1])
                             /\ flight'[1].idx \in 1..flight'[1].of
                             /\ flight'[1].unit \in 1..unit
<1>1. /\ Recv /\ net # << >> /\ m = net[1] /\ d = m.frag /\ net' = Tail(net)
      /\ Sent(d, unit, network) /\ d.kind \in network.kinds /\ Effect(d)
  BY TakenInOrder DEF FlightInv
<1>2. UNCHANGED <<network, unit, todo>>
  BY <1>1 DEF Recv, sender
<1>3. /\ InFlight > 0 /\ d = flight[1] /\ InFlight' = InFlight - 1
      /\ \A i \in 1..InFlight - 1 : flight'[i] = flight[i + 1]
  BY <1>1, <1>2, FlightTaken
<1>4. ASSUME InFlight' > 0
      PROVE  /\ Continues(d, flight'[1])
             /\ flight'[1].idx \in 1..flight'[1].of /\ flight'[1].unit \in 1..unit
  <2>1. 1 \in 1..InFlight - 1 /\ 1 + 1 \in 1..InFlight
    BY <1>3, <1>4, FlightTypes
  <2>2. flight'[1] = flight[1 + 1] /\ Continues(flight[1], flight[1 + 1])
    BY <1>3, <2>1 DEF FlightInv, ChainInv
  <2>3. Sent(flight[1 + 1], unit, network)
    BY <2>1, FlightTypes
  <2> QED
    BY <1>3, <2>2, <2>3 DEF Sent
<1> QED
  BY <1>1, <1>2, <1>3, <1>4

\* When a buffer holds a whole unit.
LEMMA WholeWhen ==
  ASSUME NEW t \in Seq(Frags), NEW d \in Frags, d.unit # 0, d.of \in Nat, d.of # 0,
         Len(t) = d.of,
         \A i \in 1..d.of : SameUnit(t[i], d) /\ t[i].idx = i
  PROVE  IsWhole(t) /\ t[1].unit = d.unit
<1>1. 1 \in 1..d.of
  OBVIOUS
<1>2. \A f, g \in Frags : SameUnit(f, g) => f = [g EXCEPT !.idx = f.idx]
  <2> TAKE f, g \in Frags
  <2>1. /\ f = Packet(f.unit, f.kind, f.idx, f.of, f.w)
        /\ g = Packet(g.unit, g.kind, g.idx, g.of, g.w)
    BY FragFields
  <2> QED
    BY <2>1 DEF Packet, SameUnit
<1>3. \A i \in 1..d.of : t[i] = [t[1] EXCEPT !.idx = i]
  <2> TAKE i \in 1..d.of
  <2>1. SameUnit(t[i], t[1]) /\ t[i] \in Frags /\ t[1] \in Frags /\ t[i].idx = i
    BY <1>1 DEF SameUnit
  <2> QED
    BY <1>2, <2>1
<1>4. t[1].unit = d.unit /\ t[1].of = d.of /\ t # << >>
  BY <1>1 DEF SameUnit
<1> QED
  BY <1>3, <1>4 DEF IsWhole

\* A unit that is queued is whole.
LEMMA PutWhole ==
  ASSUME TypeInv, Ordered, FlightInv, NEW m \in Datagrams, NEW d \in Frags, Handled(m, d),
         queue' # queue
  PROVE  /\ queue' = Append(queue, av_packet'.frags)
         /\ av_packet'.frags \in Seq(Frags) /\ UnitOf(av_packet'.frags) = d.unit
         /\ d.idx = d.of
<1>1. /\ InFlight > 0 /\ d = flight[1] /\ Sent(d, unit, network) /\ d.kind \in network.kinds
      /\ Effect(d)
  BY TakenNext
<1>2. d.unit \in Nat /\ d.unit # 0 /\ d.idx \in 1..d.of /\ (d.kind = "fu" <=> d.of # 1)
      /\ d.of \in Nat
  <2>1. d.kind # "empty"
    BY <1>1, NetworkTypes DEF TypeInv, EnvInv, EnvTypes, Kinds
  <2> QED
    BY <1>1, <2>1, FragFields DEF Sent
<1>3. queue' = Append(queue, av_packet'.frags) /\ d.idx = d.of
      /\ av_packet'.frags = IF d.kind = "fu" /\ d.idx # 1
                              THEN Append(av_packet.frags, d) ELSE <<d>>
  BY <1>1, <1>2 DEF Effect
<1>4. av_packet.frags \in Seq(Frags)
  BY DEF TypeInv, LoopTypes, AvPackets
<1>5. av_packet'.frags \in Seq(Frags) /\ UnitOf(av_packet'.frags) = d.unit
  <2>1. CASE d.of = 1
    <3>1. av_packet'.frags = <<d>>
      BY <1>2, <1>3, <2>1
    <3>2. <<d>>[1] = d /\ Len(<<d>>) = 1 /\ <<d>> # << >> /\ <<d>> \in Seq(Frags)
      OBVIOUS
    <3>3. [d EXCEPT !.idx = 1] = d
      BY <1>3, <2>1 DEF Frags
    <3>4. IsWhole(<<d>>)
      BY <1>2, <2>1, <3>2, <3>3 DEF IsWhole
    <3> QED
      BY <3>1, <3>2, <3>4 DEF UnitOf
  <2>2. CASE d.of # 1
    <3> DEFINE s == av_packet.frags
    <3>1. d.idx > 1 /\ av_packet'.frags = Append(s, d)
      BY <1>2, <1>3, <2>2
    <3>2. /\ Len(s) = d.idx - 1
          /\ \A i \in 1..Len(s) : SameUnit(s[i], d) /\ s[i].idx = i
      BY <1>1, <3>1 DEF FlightInv, HeadInv
    <3>3. s \in Seq(Frags)
      BY <1>4
    <3> HIDE DEF s
    <3>4. PICK t \in Seq(Frags) :
            /\ t = Append(s, d) /\ Len(t) = d.of
            /\ \A i \in 1..Len(s) : t[i] = s[i]
            /\ t[d.of] = d
      <4>1. /\ Append(s, d) \in Seq(Frags) /\ Len(Append(s, d)) = Len(s) + 1
            /\ \A i \in 1..Len(s) : Append(s, d)[i] = s[i]
            /\ Append(s, d)[Len(s) + 1] = d
        BY <3>3, AppendProperties
      <4>2. Len(s) + 1 = d.of
        BY <1>2, <1>3, <3>2
      <4> QED
        BY <4>1, <4>2
    <3>5. \A i \in 1..d.of : t[i] \in Frags /\ SameUnit(t[i], d) /\ t[i].idx = i
      <4> TAKE i \in 1..d.of
      <4>1. CASE i = d.of
        BY <1>3, <3>4, <4>1 DEF SameUnit
      <4>2. CASE i # d.of
        <5>1. i \in 1..Len(s)
          BY <1>2, <1>3, <3>2, <4>2
        <5>2. t[i] = s[i] /\ s[i] \in Frags
          BY <3>3, <3>4, <5>1
        <5> QED
          BY <3>2, <5>1, <5>2
      <4> QED
        BY <4>1, <4>2
    <3>6. IsWhole(t) /\ t[1].unit = d.unit
      <4>1. d.of # 0
        BY <1>2
      <4>2. \A i \in 1..d.of : SameUnit(t[i], d) /\ t[i].idx = i
        BY <3>5
      <4> QED
        BY <1>2, <3>4, <4>1, <4>2, WholeWhen
    <3> QED
      BY <3>1, <3>4, <3>6 DEF UnitOf, s
  <2> QED
    BY <2>1, <2>2
<1> QED
  BY <1>3, <1>5

\* A fragment taken from the front goes where it belongs.
LEMMA TakeStep ==
  ASSUME TypeInv, Ordered, FlightInv, NEW m \in Datagrams, NEW d \in Frags, Handled(m, d)
  PROVE  ChainInv' /\ HeadInv' /\ QueuedInv' /\ ~ av_packet'.stray
<1>1. /\ InFlight > 0 /\ d = flight[1] /\ InFlight' = InFlight - 1
      /\ \A i \in 1..InFlight - 1 : flight'[i] = flight[i + 1]
      /\ Sent(d, unit, network) /\ d.kind \in network.kinds /\ Effect(d)
      /\ unit' = unit /\ network' = network
      /\ InFlight' > 0 => /\ Continues(d, flight'[1])
                          /\ flight'[1].idx \in 1..flight'[1].of
                          /\ flight'[1].unit \in 1..unit
  BY TakenNext
<1>2. InFlight \in Nat
  BY FlightTypes
<1>3. d.kind # "empty" /\ (d.kind = "fu" <=> d.of # 1) /\ d.idx \in 1..d.of
      /\ d.unit \in 1..unit /\ unit \in Nat /\ d.of \in Nat
  <2>1. d.kind # "empty"
    BY <1>1, NetworkTypes DEF TypeInv, EnvInv, EnvTypes, Kinds
  <2> QED
    BY <1>1, <2>1, FragFields, ConstantTypes DEF Sent, TypeInv, EnvInv, EnvTypes
<1>4. ChainInv'
  <2> SUFFICES ASSUME NEW i \in 1..InFlight' - 1
               PROVE  Continues(flight'[i], flight'[i + 1])
    BY DEF ChainInv, Continues, SameUnit
  <2>1. i \in 1..InFlight - 1 /\ i + 1 \in 1..InFlight - 1
    BY <1>1, <1>2
  <2>2. flight'[i] = flight[i + 1] /\ flight'[i + 1] = flight[(i + 1) + 1]
    BY <1>1, <2>1
  <2>3. Continues(flight[i + 1], flight[(i + 1) + 1])
    BY <2>1 DEF FlightInv, ChainInv
  <2> QED
    BY <2>2, <2>3
<1>5. HeadInv'
  <2> SUFFICES ASSUME InFlight' > 0, flight'[1].idx > 1
               PROVE  /\ av_packet'.kind = "fu" /\ ~ av_packet'.queued
                      /\ Len(av_packet'.frags) = flight'[1].idx - 1
                      /\ \A i \in 1..Len(av_packet'.frags) :
                           /\ SameUnit(av_packet'.frags[i], flight'[1])
                           /\ av_packet'.frags[i].idx = i
    BY DEF HeadInv, SameUnit
  <2>1. SameUnit(d, flight'[1]) /\ flight'[1].idx = d.idx + 1 /\ d.idx < d.of
        /\ d.kind = "fu"
    <3>1. flight'[1].idx # 1 /\ Continues(d, flight'[1]) /\ flight'[1].idx \in 1..flight'[1].of
      BY <1>1
    <3>2. SameUnit(d, flight'[1]) /\ flight'[1].idx = d.idx + 1
      BY <3>1 DEF Continues
    <3>3. flight'[1].of = d.of
      BY <3>2 DEF SameUnit
    <3> QED
      BY <1>3, <3>1, <3>2, <3>3
  <2>2. CASE d.idx = 1
    <3>1. av_packet'.kind = "fu" /\ ~ av_packet'.queued /\ av_packet'.frags = <<d>>
      BY <1>1, <2>1, <2>2 DEF Effect
    <3>2. Len(<<d>>) = 1 /\ \A i \in 1..1 : i = 1 /\ <<d>>[i] = d
      OBVIOUS
    <3> QED
      BY <2>1, <2>2, <3>1, <3>2
  <2>3. CASE d.idx # 1
    <3>1. /\ av_packet.kind = "fu" /\ ~ av_packet.queued
          /\ Len(av_packet.frags) = d.idx - 1
          /\ \A i \in 1..Len(av_packet.frags) :
               SameUnit(av_packet.frags[i], d) /\ av_packet.frags[i].idx = i
      BY <1>1, <1>3, <2>3 DEF FlightInv, HeadInv
    <3>2. /\ av_packet'.kind = "fu" /\ ~ av_packet'.queued
          /\ av_packet'.frags = Append(av_packet.frags, d)
      <4>1. d.kind = "fu" /\ d.idx # d.of
        BY <1>3, <2>1
      <4>2. /\ av_packet'.kind = av_packet.kind
            /\ av_packet'.queued <=> av_packet.queued
            /\ av_packet'.frags = Append(av_packet.frags, d)
        BY <1>1, <2>3, <4>1, Zenon DEF Effect
      <4> QED
        BY <3>1, <4>2, Zenon
    <3>3. av_packet.frags \in Seq(Frags)
      BY DEF TypeInv, LoopTypes, AvPackets
    <3>4. /\ Len(av_packet'.frags) = Len(av_packet.frags) + 1
          /\ \A i \in 1..Len(av_packet.frags) : av_packet'.frags[i] = av_packet.frags[i]
          /\ av_packet'.frags[Len(av_packet.frags) + 1] = d
      BY <3>2, <3>3, AppendProperties
    <3>5. Len(av_packet'.frags) = flight'[1].idx - 1 /\ Len(av_packet'.frags) = d.idx
      BY <1>3, <2>1, <3>1, <3>4
    <3>6. ASSUME NEW i \in 1..Len(av_packet'.frags)
          PROVE  SameUnit(av_packet'.frags[i], d) /\ av_packet'.frags[i].idx = i
      <4>1. CASE i = d.idx
        BY <1>3, <3>1, <3>4, <4>1 DEF SameUnit
      <4>2. CASE i # d.idx
        <5>1. i \in 1..Len(av_packet.frags)
          BY <1>3, <3>1, <3>5, <4>2
        <5> QED
          BY <3>1, <3>4, <5>1
      <4> QED
        BY <4>1, <4>2
    <3> QED
      BY <2>1, <3>2, <3>5, <3>6 DEF SameUnit
  <2> QED
    BY <2>2, <2>3
<1>6. QueuedInv'
  <2>0. queue \in Seq(Seq(Frags))
    BY DEF TypeInv, LoopTypes
  <2>1. \A i \in 1..Len(queue) : UnitOf(queue[i]) \in 1..unit /\ UnitOf(queue[i]) < d.unit
    BY <1>1 DEF FlightInv, QueuedInv
  <2>2. InFlight' > 0 => d.unit <= flight'[1].unit
    BY <1>1, <1>3 DEF Continues, SameUnit
  <2>3. CASE queue' = queue
    <3>1. \A i \in 1..Len(queue) : InFlight' > 0 => UnitOf(queue[i]) < flight'[1].unit
      BY <1>1, <1>3, <2>1, <2>2
    <3> QED
      BY SMTT(30), <1>1, <2>1, <2>3, <3>1 DEF QueuedInv, UnitOf, IsWhole
  <2>4. CASE queue' # queue
    <3>1. /\ queue' = Append(queue, av_packet'.frags)
          /\ av_packet'.frags \in Seq(Frags) /\ UnitOf(av_packet'.frags) = d.unit
          /\ d.idx = d.of
      BY <2>4, PutWhole
    <3>2. InFlight' > 0 => d.unit < flight'[1].unit
      <4> SUFFICES ASSUME InFlight' > 0 PROVE d.unit < flight'[1].unit
        OBVIOUS
      <4>1. Continues(d, flight'[1]) /\ flight'[1].idx \in 1..flight'[1].of
        BY <1>1
      <4>2. ~ SameUnit(d, flight'[1]) \/ flight'[1].idx # d.idx + 1
        BY <1>3, <3>1, <4>1 DEF SameUnit
      <4> QED
        BY <4>1, <4>2 DEF Continues
    <3>3. /\ Len(queue') = Len(queue) + 1 /\ Len(queue) \in Nat
          /\ \A i \in 1..Len(queue) : queue'[i] = queue[i]
          /\ queue'[Len(queue) + 1] = av_packet'.frags
      BY <2>0, <3>1, AppendProperties
    <3>4. ASSUME NEW i \in 1..Len(queue')
          PROVE  /\ UnitOf(queue'[i]) \in 1..unit
                 /\ InFlight' > 0 => UnitOf(queue'[i]) < flight'[1].unit
      <4>1. CASE i = Len(queue) + 1
        BY <1>3, <3>1, <3>2, <3>3, <4>1
      <4>2. CASE i # Len(queue) + 1
        <5>1. i \in 1..Len(queue) /\ queue'[i] = queue[i]
          BY <3>3, <4>2
        <5> QED
          BY <1>1, <1>3, <2>1, <2>2, <5>1
      <4> QED
        BY <4>1, <4>2
    <3> QED
      BY <1>1, <3>4 DEF QueuedInv, UnitOf, IsWhole
  <2> QED
    BY <2>3, <2>4
<1>7. ~ av_packet'.stray
  <2>1. d.idx # 1 => av_packet.kind = "fu" /\ ~ av_packet.queued
    BY <1>1, <1>3 DEF FlightInv, HeadInv
  <2> QED
    BY <1>1, <2>1 DEF Effect, FlightInv
<1> QED
  BY <1>4, <1>5, <1>6, <1>7

\* Each step keeps FlightInv.
LEMMA FlightStep ==
  ASSUME TypeInv, Ordered, FlightInv, Next
  PROVE  FlightInv'
<1>0. SeqInv'
  BY SeqStep DEF FlightInv
<1>1. Len(net) \in Nat /\ InFlight \in Nat /\ unit \in Nat
      /\ \A i \in 1..InFlight : flight[i] \in Frags /\ Sent(flight[i], unit, network)
  BY FlightTypes, ConstantTypes DEF TypeInv, EnvInv, EnvTypes
<1>2. ASSUME /\ InFlight' = InFlight /\ \A i \in 1..InFlight : flight'[i] = flight[i]
             /\ UNCHANGED <<unit, queue, av_packet>>
      PROVE  FlightInv'
  <2>1. ChainInv'
    <3> SUFFICES ASSUME NEW i \in 1..InFlight - 1
                 PROVE  Continues(flight'[i], flight'[i + 1])
      BY <1>2 DEF ChainInv, Continues, SameUnit
    <3>1. i \in 1..InFlight /\ i + 1 \in 1..InFlight
      BY <1>1
    <3> QED
      BY <1>2, <3>1 DEF FlightInv, ChainInv
  <2>2. InFlight > 0 => flight'[1] = flight[1]
    BY <1>1, <1>2
  <2>3. HeadInv'
    BY <1>2, <2>2 DEF FlightInv, HeadInv, SameUnit
  <2>4. QueuedInv'
    BY SMTT(30), <1>2, <2>2 DEF FlightInv, QueuedInv, UnitOf, IsWhole
  <2> QED
    BY <1>0, <1>2, <2>1, <2>3, <2>4 DEF FlightInv
<1>3. CASE UNCHANGED <<net, todo, unit, queue, av_packet>>
  <2>1. InFlight' = InFlight /\ flight' = flight
    BY <1>3 DEF InFlight, flight
  <2> QED
    BY <1>2, <1>3, <2>1
<1>4. CASE Send
  <2>1. UNCHANGED <<unit, queue, av_packet>>
    BY <1>4 DEF Send, loop
  <2> QED
    BY <1>2, <1>4, <2>1, FlightSent
<1>5. CASE NewUnit
  <2>1. /\ InFlight = Len(net) /\ InFlight' = InFlight + Len(todo') /\ InFlight' > InFlight
        /\ \A i \in 1..InFlight : flight'[i] = flight[i]
        /\ \A i \in 1..Len(todo') : flight'[InFlight + i] = todo'[i]
    BY <1>5, FlightBegun
  <2>2. /\ unit' = unit + 1 /\ todo' \in Seq(Frags) /\ todo' # << >>
        /\ \A i \in 1..Len(todo') :
             /\ todo'[i].unit = unit' /\ todo'[i].idx = i
             /\ todo'[i].of = todo'[1].of /\ todo'[i].kind = todo'[1].kind
             /\ todo'[i].w = todo'[1].w
    BY <1>5, NewUnitSent DEF TypeInv
  <2>3. UNCHANGED <<queue, av_packet>>
    BY <1>5 DEF NewUnit, loop
  <2>4. Len(todo') \in Nat /\ Len(todo') > 0
    BY <2>2
  <2>5. \A i \in 1..InFlight : flight[i].unit \in 1..unit
    BY <1>1 DEF Sent
  <2>6. ChainInv'
    <3> SUFFICES ASSUME NEW i \in 1..InFlight' - 1
                 PROVE  Continues(flight'[i], flight'[i + 1])
      BY DEF ChainInv, Continues, SameUnit
    <3>1. CASE i < InFlight
      <4>1. i \in 1..InFlight - 1 /\ i \in 1..InFlight /\ i + 1 \in 1..InFlight
        BY <1>1, <3>1
      <4>2. flight'[i] = flight[i] /\ flight'[i + 1] = flight[i + 1]
        BY <2>1, <4>1
      <4> QED
        BY <4>1, <4>2 DEF FlightInv, ChainInv
    <3>2. CASE i = InFlight
      <4>1. i \in 1..InFlight /\ 1 \in 1..Len(todo')
        BY <1>1, <2>4, <3>2
      <4>2. flight'[i] = flight[i] /\ flight'[i + 1] = todo'[1]
        BY <2>1, <3>2, <4>1
      <4>3. flight[i].unit < todo'[1].unit /\ todo'[1].idx = 1
        BY <1>1, <2>2, <2>5, <4>1
      <4> QED
        BY <4>2, <4>3 DEF Continues
    <3>3. CASE i > InFlight
      <4>1. /\ i - InFlight \in 1..Len(todo') /\ (i - InFlight) + 1 \in 1..Len(todo')
            /\ InFlight + (i - InFlight) = i
            /\ InFlight + ((i - InFlight) + 1) = i + 1
            /\ (i - InFlight) + 1 # 1
        BY <1>1, <2>1, <2>4, <3>3
      <4>2. /\ flight'[InFlight + (i - InFlight)] = todo'[i - InFlight]
            /\ flight'[InFlight + ((i - InFlight) + 1)] = todo'[(i - InFlight) + 1]
        BY <2>1, <4>1
      <4>3. flight'[i] = todo'[i - InFlight] /\ flight'[i + 1] = todo'[(i - InFlight) + 1]
        BY <4>1, <4>2
      <4>4. /\ SameUnit(todo'[i - InFlight], todo'[(i - InFlight) + 1])
            /\ todo'[i - InFlight].idx = i - InFlight
            /\ todo'[(i - InFlight) + 1].idx = (i - InFlight) + 1
        BY <2>2, <4>1 DEF SameUnit
      <4> QED
        BY <4>1, <4>3, <4>4 DEF Continues
    <3> QED
      BY <1>1, <3>1, <3>2, <3>3
  <2>7. CASE InFlight > 0
    <3>1. flight'[1] = flight[1] /\ InFlight' > 0
      BY <1>1, <2>1, <2>7
    <3>2. HeadInv'
      BY <2>3, <2>7, <3>1 DEF FlightInv, HeadInv, SameUnit
    <3>3. QueuedInv'
      <4>1. \A i \in 1..Len(queue) : UnitOf(queue[i]) \in 1..unit /\ UnitOf(queue[i]) < flight[1].unit
        BY <2>7 DEF FlightInv, QueuedInv
      <4>2. \A i \in 1..Len(queue) : UnitOf(queue[i]) \in 1..unit'
        BY <1>1, <2>2, <4>1
      <4> QED
        BY <2>3, <3>1, <4>1, <4>2 DEF QueuedInv, UnitOf, IsWhole
    <3> QED
      BY <1>0, <2>3, <2>6, <3>2, <3>3 DEF FlightInv
  <2>8. CASE InFlight = 0
    <3>1. 1 \in 1..Len(todo') /\ InFlight + 1 = 1
      BY <2>4, <2>8
    <3>2. flight'[1] = todo'[1]
      BY <2>1, <3>1
    <3>3. flight'[1].idx = 1 /\ flight'[1].unit = unit + 1
      BY <2>2, <3>1, <3>2
    <3>4. HeadInv'
      BY <3>3 DEF HeadInv
    <3>5. QueuedInv'
      <4>1. \A i \in 1..Len(queue) : UnitOf(queue[i]) \in 1..unit
        BY DEF FlightInv, QueuedInv
      <4>2. \A i \in 1..Len(queue) : UnitOf(queue[i]) \in 1..unit' /\ UnitOf(queue[i]) < unit + 1
        BY <1>1, <2>2, <4>1
      <4> QED
        BY <2>3, <3>3, <4>2 DEF QueuedInv, UnitOf, IsWhole
    <3> QED
      BY <1>0, <2>3, <2>6, <3>4, <3>5 DEF FlightInv
  <2> QED
    BY <1>1, <2>7, <2>8
<1>6. ASSUME NEW m \in Datagrams, NEW d \in Frags, Handled(m, d)
      PROVE  FlightInv'
  BY <1>0, <1>6, TakeStep DEF FlightInv
<1>7. CASE NoData \/ StopSection \/ StartSection
  <2>1. UNCHANGED <<net, todo, unit, queue, av_packet>>
    BY <1>7 DEF NoData, StopSection, StartSection, env, sender
  <2> QED
    BY <1>3, <2>1
<1> QED
  BY <1>4, <1>5, <1>6, <1>7, OrderedSteps

\* FlightInv holds on such a network, whatever else goes wrong.
THEOREM FlightInvHolds == Spec => [](Ordered => FlightInv)
<1>1. Init => FlightInv
  <2> SUFFICES ASSUME Init PROVE FlightInv
    OBVIOUS
  <2>1. Len(net) = 0 /\ Len(todo) = 0 /\ Len(queue) = 0 /\ net = << >> /\ before_seq = 0
        /\ start_flag = FALSE /\ av_packet.stray = FALSE
    BY DEF Init
  <2>2. InFlight = 0
    BY <2>1 DEF InFlight
  <2> QED
    BY <2>1, <2>2 DEF FlightInv, SeqInv, ChainInv, HeadInv, QueuedInv
<1>2. TypeInv /\ (Ordered => FlightInv) /\ [Next]_vars => (Ordered => FlightInv)'
  <2> SUFFICES ASSUME TypeInv, Ordered => FlightInv, [Next]_vars, Ordered'
               PROVE  FlightInv'
    OBVIOUS
  <2>1. CASE Next
    BY <2>1, FlightStep, OrderedStays
  <2>2. CASE UNCHANGED vars
    <3>1. /\ UNCHANGED <<network, unit, todo, seq, net>>
          /\ UNCHANGED <<before_seq, start_flag, av_packet, queue>>
      BY <2>2 DEF vars, env, loop, control
    <3>2. FlightInv
      BY <3>1 DEF Ordered
    <3>3. InFlight' = InFlight /\ flight' = flight
      BY <3>1 DEF InFlight, flight
    <3>4. SeqInv'
      BY <3>1, <3>2 DEF FlightInv, SeqInv, OutSeq, Nxt
    <3>5. ChainInv' /\ HeadInv'
      BY <3>1, <3>2, <3>3 DEF FlightInv, ChainInv, HeadInv, Continues, SameUnit
    <3>6. QueuedInv'
      BY <3>1, <3>2, <3>3 DEF FlightInv, QueuedInv, UnitOf, IsWhole
    <3> QED
      BY <3>1, <3>2, <3>4, <3>5, <3>6 DEF FlightInv
  <2> QED
    BY <2>1, <2>2
<1> QED
  BY <1>1, <1>2, TypeInvHolds, PTL DEF Spec

\* On a network that keeps every packet in order, no fragment is copied into a
\* buffer that the queue owns already or that another unit was begun in
\* (main_yuv4.c:257-279: only the first fragment gets a new one),
\* across wraps, timeouts, refused puts and sessions that end in the middle of a
\* unit.
THEOREM OwnBufferHolds == Spec => []OwnBuffer
<1>1. (Ordered => FlightInv) => OwnBuffer
  BY DEF FlightInv, OwnBuffer
<1> QED
  BY <1>1, FlightInvHolds, PTL

\* A step delivers one later unit, or none.
LEMMA DeliveryStep ==
  ASSUME TypeInv, Ordered => FlightInv, Next
  PROVE  [Delivery!Next]_(IF Ordered THEN [i \in 1..Len(queue) |-> UnitOf(queue[i])] ELSE << >>)
<1> DEFINE del == [i \in 1..Len(queue) |-> UnitOf(queue[i])]
<1>1. Ordered' = Ordered
  BY OrderedStays
<1>2. CASE ~ Ordered
  BY <1>1, <1>2
<1>3. CASE Ordered /\ queue' = queue
  <2>1. del' = del
    BY <1>3 DEF UnitOf, IsWhole
  <2> QED
    BY <1>1, <1>3, <2>1
<1>4. CASE Ordered /\ queue' # queue
  <2>1. PICK m \in Datagrams, d \in Frags : Handled(m, d)
    <3>1. ~ (NewUnit \/ Send \/ NoData \/ StopSection \/ StartSection)
      BY <1>4 DEF NewUnit, Send, NoData, StopSection, StartSection, loop
    <3> QED
      BY <1>4, <3>1, OrderedSteps
  <2>2. /\ queue' = Append(queue, av_packet'.frags)
        /\ av_packet'.frags \in Seq(Frags) /\ UnitOf(av_packet'.frags) = d.unit
    BY <1>4, <2>1, PutWhole
  <2>3. d = flight[1] /\ InFlight > 0 /\ Sent(d, unit, network)
    BY <1>4, <2>1, TakenNext
  <2>4. queue \in Seq(Seq(Frags)) /\ unit \in 0..MaxUnits /\ MaxUnits \in Nat
    BY ConstantTypes DEF TypeInv, EnvInv, EnvTypes, LoopTypes
  <2>5. d.unit \in 1..MaxUnits
    BY <2>3, <2>4 DEF Sent
  <2>6. \A i \in 1..Len(queue) : UnitOf(queue[i]) \in Nat /\ UnitOf(queue[i]) < d.unit
    BY <1>4, <2>3, <2>4 DEF FlightInv, QueuedInv
  <2>7. del \in Seq(Nat) /\ Len(del) = Len(queue)
    BY <2>4, <2>6
  <2>8. /\ Len(queue') = Len(queue) + 1 /\ Len(queue) \in Nat
        /\ \A i \in 1..Len(queue) : queue'[i] = queue[i]
        /\ queue'[Len(queue) + 1] = av_packet'.frags
    BY <2>2, <2>4, AppendProperties
  <2>9. del' = Append(del, d.unit)
    <3>1. del' = [i \in 1..Len(queue) + 1 |-> UnitOf(queue'[i])]
      BY <2>8 DEF UnitOf, IsWhole
    <3>2. Append(del, d.unit) = [i \in 1..Len(queue) + 1 |->
                                   IF i = Len(queue) + 1 THEN d.unit ELSE del[i]]
      BY <2>7, <2>8
    <3>3. \A i \in 1..Len(queue) + 1 :
            UnitOf(queue'[i]) = IF i = Len(queue) + 1 THEN d.unit ELSE del[i]
      <4> TAKE i \in 1..Len(queue) + 1
      <4>1. CASE i = Len(queue) + 1
        BY <2>2, <2>8, <4>1
      <4>2. CASE i # Len(queue) + 1
        <5>1. i \in 1..Len(queue)
          BY <2>8, <4>2
        <5> QED
          BY <2>8, <4>2, <5>1
      <4> QED
        BY <4>1, <4>2
    <3> QED
      BY <3>1, <3>2, <3>3
  <2>10. \A i \in 1..Len(del) : del[i] < d.unit
    BY <2>6, <2>7
  <2> HIDE DEF del
  <2>11. Delivery!Deliver(d.unit)
    BY <1>1, <1>4, <2>9, <2>10 DEF Delivery!Deliver, Delivery!Later, del
  <2> QED
    BY <2>5, <2>11 DEF Delivery!Next
<1> QED
  BY <1>2, <1>3, <1>4

\* The receiving loop implements UnitDelivery: over a network that keeps every
\* packet in order, what main() puts into videoPacketFifo (main_yuv4.c:278, 315, 351)
\* is whole units of the stream, each at most once, in order.
THEOREM LoopDeliversUnits == Spec => ImplementsUnitDelivery
<1>1. Init => Delivery!Init
  <2> SUFFICES ASSUME Init PROVE Delivery!Init
    OBVIOUS
  <2>1. Len(queue) = 0
    BY DEF Init
  <2>2. [i \in 1..Len(queue) |-> UnitOf(queue[i])] = << >>
    BY <2>1
  <2> QED
    BY <2>2 DEF Delivery!Init
<1>2. TypeInv /\ (Ordered => FlightInv) /\ [Next]_vars
      => [Delivery!Next]_(IF Ordered THEN [i \in 1..Len(queue) |-> UnitOf(queue[i])]
                                     ELSE << >>)
  <2> SUFFICES ASSUME TypeInv, Ordered => FlightInv, [Next]_vars
               PROVE  [Delivery!Next]_(IF Ordered
                                         THEN [i \in 1..Len(queue) |-> UnitOf(queue[i])]
                                         ELSE << >>)
    OBVIOUS
  <2>1. CASE Next
    BY <2>1, DeliveryStep
  <2>2. CASE UNCHANGED vars
    BY <2>2 DEF vars, env, loop, Ordered, UnitOf, IsWhole
  <2> QED
    BY <2>1, <2>2
<1> QED
  BY <1>1, <1>2, TypeInvHolds, FlightInvHolds, PTL
  DEF Spec, ImplementsUnitDelivery, Delivery!Spec

-----------------------------------------------------------------------------
(* Networks that lose packets.                                              *)

\* before_seq = 0 means that there was no packet yet: a packet of the sender
\* with that number makes the next gap invisible.
ZeroUnused == rtp_packet # NULL /\ rtp_packet.frag.unit # 0 => rtp_packet.seq # 0

\* The numbers tell whether a packet follows the one before it.
NumbersTell == Ordered \/ ZeroUnused

\* During a session before_seq is the number of the packet unpacked last.
BeforeInv ==
  start_flag /\ "empty" \notin network.faults =>
    rtp_packet \in Datagrams /\ before_seq = rtp_packet.seq

\* Each step keeps before_seq with the last datagram.
LEMMA BeforeStep ==
  ASSUME TypeInv, BeforeInv, Next
  PROVE  BeforeInv'
<1> SUFFICES ASSUME start_flag', "empty" \notin network.faults
             PROVE  rtp_packet' \in Datagrams /\ before_seq' = rtp_packet'.seq
  BY NetworkStays DEF BeforeInv
<1>1. CASE start_flag /\ UNCHANGED <<rtp_packet, before_seq>>
  BY <1>1 DEF BeforeInv
<1>2. ASSUME NEW m \in Datagrams, NEW d \in Frags, Handled(m, d)
      PROVE  rtp_packet' \in Datagrams /\ before_seq' = rtp_packet'.seq
  <2>1. /\ ControlTypes /\ LoopTypes /\ pc = "recv" /\ (d.kind = "fu" => d.of # 1)
        /\ Handle(m, d) /\ rtp_packet' = m
    BY <1>2 DEF Handled, TypeInv
  <2>2. CASE d.kind = "empty" /\ Skip
    <3>1. rtp_packet = m
      BY <1>2, <2>2, NetworkTypes DEF Handled, Sent, TypeInv, EnvInv, EnvTypes, Kinds
    <3>2. UNCHANGED <<start_flag, before_seq>>
      BY <2>2 DEF Skip, control
    <3> QED
      BY <2>1, <3>1, <3>2 DEF BeforeInv
  <2>3. CASE Gap(m) \/ InSequence(m)
    BY <2>1, <2>3 DEF Gap, InSequence
  <2> QED
    BY <2>1, <2>2, <2>3, HandleCases
<1>3. CASE \/ UNCHANGED loop \/ NoData \/ StartSection
           \/ FirstRunt /\ Skip /\ UNCHANGED <<rtp_packet, net>>
  <2>1. UNCHANGED <<start_flag, rtp_packet, before_seq>>
    BY <1>3 DEF loop, control, NoData, StartSection, Skip
  <2> QED
    BY <1>1, <2>1
<1>4. CASE StopSection
  BY <1>1, <1>4 DEF StopSection, control
<1> QED
  BY <1>2, <1>3, <1>4, OtherSteps

\* A datagram out of turn raises error_packet.
LEMMA LossStep ==
  ASSUME TypeInv, Ordered => FlightInv, NumbersTell, BeforeInv, Next,
         running, "empty" \notin network.faults,
         rtp_packet' # rtp_packet, rtp_packet.frag.unit # 0,
         rtp_packet'.seq # (rtp_packet.seq + 1) % SeqSpace
  PROVE  error_packet'
<1>1. start_flag /\ rtp_packet \in Datagrams /\ before_seq = rtp_packet.seq
  BY DEF TypeInv, ControlTypes, BeforeInv
<1>2. PICK m \in Datagrams, d \in Frags : Handled(m, d)
  BY OtherSteps DEF loop, NoData, StopSection, StartSection
<1>3. /\ ControlTypes /\ LoopTypes /\ pc = "recv" /\ (d.kind = "fu" => d.of # 1)
      /\ Handle(m, d) /\ rtp_packet' = m
  BY <1>2 DEF Handled, TypeInv
<1>4. d.kind # "empty"
  BY <1>2, <1>3, NetworkTypes DEF Handled, Sent, TypeInv, EnvInv, EnvTypes, Kinds
<1>5. ~ Follows(m.seq)
  BY <1>1, <1>3 DEF Follows
<1>6. CASE Ordered
  <2>1. m = net[1] /\ net # << >> /\ before_seq' = m.seq
    BY <1>2, <1>6, TakenInOrder DEF FlightInv
  <2>2. m.seq = Nxt(before_seq)
    BY <1>1, <1>6, <2>1 DEF FlightInv, SeqInv, OutSeq
  <2> QED
    BY <1>5, <2>2 DEF Follows, Nxt
<1>7. CASE ZeroUnused
  <2>1. before_seq # 0
    BY <1>1, <1>7, NullAssumption DEF ZeroUnused, Datagrams, Seqs
  <2> QED
    BY <1>3, <1>4, <1>5, <2>1, HandleCases DEF InSequence
<1> QED
  BY <1>6, <1>7 DEF NumbersTell

\* BeforeInv holds on every network.
THEOREM BeforeInvHolds == Spec => []BeforeInv
<1>1. Init => BeforeInv
  BY DEF Init, BeforeInv
<1>2. TypeInv /\ BeforeInv /\ [Next]_vars => BeforeInv'
  <2> SUFFICES ASSUME TypeInv, BeforeInv, [Next]_vars PROVE BeforeInv'
    OBVIOUS
  <2>1. CASE Next
    BY <2>1, BeforeStep
  <2>2. CASE UNCHANGED vars
    BY <2>2 DEF vars, env, loop, control, BeforeInv
  <2> QED
    BY <2>1, <2>2
<1> QED
  BY <1>1, <1>2, TypeInvHolds, PTL DEF Spec

\* While a session is open, a gap in the numbers raises error_packet
\* (main_yuv4.c:227-243), on a network that loses, doubles, swaps and cuts off
\* packets, as long as the sender does not use the number 0.
THEOREM LossNoticedHolds == Spec /\ []NumbersTell => LossNoticed
<1>1. TypeInv /\ (Ordered => FlightInv) /\ NumbersTell /\ BeforeInv /\ [Next]_vars =>
        [ running /\ running' /\ "empty" \notin network.faults
          /\ rtp_packet' # rtp_packet /\ rtp_packet.frag.unit # 0
          /\ rtp_packet'.seq # (rtp_packet.seq + 1) % SeqSpace
          => error_packet' ]_vars
  BY LossStep
<1> QED
  BY <1>1, TypeInvHolds, FlightInvHolds, BeforeInvHolds, PTL DEF Spec, LossNoticed

\* During a session before_seq is the number of the packet unpacked last, unless
\* that one was empty.
LastInv ==
  start_flag =>
    /\ rtp_packet \in Datagrams
    /\ rtp_packet.frag.kind # "empty" => before_seq = rtp_packet.seq

\* Each step keeps before_seq with the last datagram that was not empty.
LEMMA LastStep ==
  ASSUME TypeInv, LastInv, Next
  PROVE  LastInv'
<1> SUFFICES ASSUME start_flag'
             PROVE  /\ rtp_packet' \in Datagrams
                    /\ rtp_packet'.frag.kind # "empty" => before_seq' = rtp_packet'.seq
  BY DEF LastInv
<1>1. CASE start_flag /\ UNCHANGED <<rtp_packet, before_seq>>
  BY <1>1 DEF LastInv
<1>2. ASSUME NEW m \in Datagrams, NEW d \in Frags, Handled(m, d)
      PROVE  /\ rtp_packet' \in Datagrams
             /\ rtp_packet'.frag.kind # "empty" => before_seq' = rtp_packet'.seq
  <2>1. /\ ControlTypes /\ LoopTypes /\ pc = "recv" /\ (d.kind = "fu" => d.of # 1)
        /\ Handle(m, d) /\ rtp_packet' = m /\ m.frag.kind = d.kind
    BY <1>2 DEF Handled, TypeInv
  <2>2. CASE d.kind = "empty"
    BY <2>1, <2>2
  <2>3. CASE Gap(m) \/ InSequence(m)
    BY <2>1, <2>3 DEF Gap, InSequence
  <2> QED
    BY <2>1, <2>2, <2>3, HandleCases
<1>3. CASE \/ UNCHANGED loop \/ NoData \/ StartSection
           \/ FirstRunt /\ Skip /\ UNCHANGED <<rtp_packet, net>>
  <2>1. UNCHANGED <<start_flag, rtp_packet, before_seq>>
    BY <1>3 DEF loop, control, NoData, StartSection, Skip
  <2> QED
    BY <1>1, <2>1
<1>4. CASE StopSection
  BY <1>1, <1>4 DEF StopSection, control
<1> QED
  BY <1>2, <1>3, <1>4, OtherSteps

\* A runt repeats the number of the packet before it, and so does not follow it.
LEMMA RuntStep ==
  ASSUME TypeInv, LastInv, Next, start_flag, queue' # queue, net' = net
  PROVE  rtp_packet.seq = 0
<1>1. rtp_packet \in Datagrams /\ rtp_packet.seq \in Nat
  BY NullAssumption DEF LastInv, Datagrams, Seqs
<1>2. PICK m \in Datagrams, d \in Frags : Handled(m, d)
  BY OtherSteps DEF loop, NoData, StopSection, StartSection, Skip
<1>3. rtp_packet # NULL
  BY <1>1, NullAssumption DEF Datagrams, Seqs
<1>4. m = rtp_packet /\ d.kind = m.frag.kind
  <2>1. CASE net # << >> /\ net' = Tail(net)
    <3>1. net \in Seq(Datagrams)
      BY DEF TypeInv, EnvInv, EnvTypes
    <3>2. Len(net') = Len(net) - 1 /\ Len(net) \in Nat
      BY <2>1, <3>1
    <3> QED
      BY <3>2
  <2> QED
    BY <1>2, <1>3, <2>1 DEF Handled
<1>5. /\ ControlTypes /\ LoopTypes /\ pc = "recv" /\ (d.kind = "fu" => d.of # 1)
      /\ Handle(m, d)
  BY <1>2 DEF Handled, TypeInv
<1>6. InSequence(m) /\ d.kind # "empty"
  BY <1>5, HandleCases DEF Skip, Gap
<1>7. before_seq = rtp_packet.seq
  BY <1>4, <1>6 DEF LastInv
<1>8. ~ Follows(rtp_packet.seq)
  <2>1. rtp_packet.seq \in 0..SeqSpace - 1 /\ SeqSpace \in Nat \ {0, 1}
    BY <1>1, ReceiverAssumption DEF Datagrams, Seqs
  <2>2. CASE rtp_packet.seq = SeqSpace - 1
    <3>1. (rtp_packet.seq + 1) % SeqSpace = 0
      BY <2>1, <2>2
    <3> QED
      BY <1>7, <2>1, <2>2, <3>1 DEF Follows
  <2>3. CASE rtp_packet.seq # SeqSpace - 1
    <3>1. (rtp_packet.seq + 1) % SeqSpace = rtp_packet.seq + 1
      BY <2>1, <2>3
    <3> QED
      BY <1>7, <2>1, <3>1 DEF Follows
  <2> QED
    BY <2>2, <2>3
<1> QED
  BY <1>4, <1>6, <1>7, <1>8 DEF InSequence

\* Once a session is asked for, a datagram that is not unpacked does not reach
\* the queue (main_yuv4.c:223 and 227-247), unless the one before it had the
\* number 0, on every network.
THEOREM RuntNotQueuedHolds == Spec => RuntNotQueued
<1>1. Init => LastInv
  BY DEF Init, LastInv
<1>2. TypeInv /\ LastInv /\ [Next]_vars => LastInv'
  <2> SUFFICES ASSUME TypeInv, LastInv, [Next]_vars PROVE LastInv'
    OBVIOUS
  <2>1. CASE Next
    BY <2>1, LastStep
  <2>2. CASE UNCHANGED vars
    BY <2>2 DEF vars, env, loop, control, LastInv
  <2> QED
    BY <2>1, <2>2
<1>3. TypeInv /\ LastInv /\ [Next]_vars =>
        [ start_flag /\ queue' # queue /\ net' = net => rtp_packet.seq = 0 ]_vars
  BY RuntStep
<1> QED
  BY <1>1, <1>2, <1>3, TypeInvHolds, PTL DEF Spec, RuntNotQueued

-----------------------------------------------------------------------------
(* What a loss can damage.                                                  *)

\* A session never starts out with distrust that the first packet in sequence
\* would not lift.
ErrInv ==
  IF Ordered THEN ~ error_packet
  ELSE /\ rtp_packet = NULL => before_seq = 0 /\ ~ error_packet /\ ~ start_flag
       /\ rtp_packet # NULL /\ rtp_packet.seq = 0 => before_seq = 0 /\ ~ error_packet
       /\ start_flag /\ error_packet => before_seq # 0

\* Each step keeps ErrInv.
LEMMA ErrStep ==
  ASSUME TypeInv, Ordered => FlightInv, ErrInv, NumbersTell', Next
  PROVE  ErrInv'
<1>0. Ordered' = Ordered /\ error_packet \in BOOLEAN /\ start_flag \in BOOLEAN
  BY OrderedStays DEF TypeInv, LoopTypes, ControlTypes
<1>1. CASE UNCHANGED <<rtp_packet, before_seq, error_packet, start_flag>>
  BY <1>0, <1>1 DEF ErrInv
<1>2. ASSUME NEW m \in Datagrams, NEW d \in Frags, Handled(m, d)
      PROVE  ErrInv'
  <2>1. /\ ControlTypes /\ LoopTypes /\ pc = "recv" /\ (d.kind = "fu" => d.of # 1)
        /\ Handle(m, d) /\ rtp_packet' = m /\ m # NULL
    BY <1>2, NullAssumption DEF Handled, TypeInv, Datagrams, Seqs
  <2>2. CASE Ordered
    <3>1. /\ net # << >> /\ m = net[1] /\ d = m.frag /\ d.kind # "empty"
      BY <1>2, <2>2, TakenInOrder, NetworkTypes
      DEF FlightInv, TypeInv, EnvInv, EnvTypes, Kinds
    <3>2. ~ Gap(m)
      BY <2>2, <3>1 DEF Gap, Follows, FlightInv, SeqInv, OutSeq, Nxt
    <3>3. InSequence(m)
      BY <2>1, <3>1, <3>2, HandleCases
    <3> QED
      BY <1>0, <2>2, <3>3 DEF ErrInv, InSequence, Cleared
  <2>3. CASE ~ Ordered /\ Recv /\ d = m.frag /\ Sent(d, unit, network)
    <3>1. m.seq # 0
      <4>1. m.frag.unit # 0
        BY <2>3 DEF Sent
      <4>2. ZeroUnused'
        BY <1>0, <2>3 DEF NumbersTell
      <4> QED
        BY <2>1, <4>1, <4>2 DEF ZeroUnused
    <3>2. CASE Skip
      BY <1>0, <2>1, <2>3, <3>1, <3>2 DEF ErrInv, Skip, control
    <3>3. CASE Gap(m) \/ InSequence(m)
      BY <1>0, <2>1, <2>3, <3>1, <3>3 DEF ErrInv, Gap, InSequence
    <3> QED
      BY <2>1, <3>2, <3>3, HandleCases
  <2>4. CASE ~ Ordered /\ rtp_packet = m
    <3>1. CASE Skip
      BY <1>0, <2>1, <2>4, <3>1 DEF ErrInv, Skip, control
    <3>2. CASE Gap(m)
      BY <1>0, <2>1, <2>4, <3>2 DEF ErrInv, Gap, control
    <3>3. CASE InSequence(m)
      BY <1>0, <2>1, <2>4, <3>3 DEF ErrInv, InSequence, Cleared
    <3> QED
      BY <2>1, <3>1, <3>2, <3>3, HandleCases
  <2>5. CASE ~ Ordered /\ rtp_packet = NULL /\ d.kind # "empty"
    <3>1. InSequence(m)
      BY <2>1, <2>5, HandleCases DEF ErrInv, Gap
    <3> QED
      BY <1>0, <2>1, <2>5, <3>1 DEF ErrInv, InSequence, Cleared
  <2> QED
    BY <1>2, <2>2, <2>3, <2>4, <2>5 DEF Handled
<1>3. CASE \/ UNCHANGED loop \/ NoData \/ StartSection
           \/ FirstRunt /\ Skip /\ UNCHANGED <<rtp_packet, net>>
  <2>1. UNCHANGED <<rtp_packet, before_seq, error_packet, start_flag>>
    BY <1>3 DEF loop, control, NoData, StartSection, Skip
  <2> QED
    BY <1>1, <2>1
<1>4. CASE StopSection
  <2>1. /\ UNCHANGED <<rtp_packet, error_packet>>
        /\ \/ UNCHANGED <<before_seq, start_flag>>
           \/ before_seq' = 0 /\ start_flag' = FALSE
    BY <1>4 DEF StopSection, control
  <2> QED
    BY <1>0, <2>1 DEF ErrInv
<1> QED
  BY <1>2, <1>3, <1>4, OtherSteps

\* ErrInv holds, always, if the numbers tell.
THEOREM ErrInvHolds == Spec /\ []NumbersTell => []ErrInv
<1>1. Init => ErrInv
  BY DEF Init, ErrInv
<1>2. TypeInv /\ (Ordered => FlightInv) /\ ErrInv /\ NumbersTell' /\ [Next]_vars => ErrInv'
  <2> SUFFICES ASSUME TypeInv, Ordered => FlightInv, ErrInv, NumbersTell', [Next]_vars
               PROVE  ErrInv'
    OBVIOUS
  <2>1. CASE Next
    BY <2>1, ErrStep
  <2>2. CASE UNCHANGED vars
    BY <2>2 DEF vars, env, loop, control, ErrInv, Ordered
  <2> QED
    BY <2>1, <2>2
<1> QED
  BY <1>1, <1>2, TypeInvHolds, FlightInvHolds, PTL DEF Spec

\* The fragments in flight, to be sent and in the buffer.
Seen == {net[i].frag : i \in 1..Len(net)} \cup {todo[i] : i \in 1..Len(todo)}
          \cup {av_packet.frags[i] : i \in 1..Len(av_packet.frags)}

Alike(f, g) ==
  f.unit = g.unit /\ f.unit # 0 /\ f.kind # "empty" /\ g.kind # "empty" => SameUnit(f, g)

\* The fragments of a unit are of one kind, and there is a number of them.
ConsistentInv == \A f, g \in Seen : Alike(f, g)

AvInv == \A i \in 1..Len(av_packet.frags) :
           av_packet.frags[i].unit \in 0..unit /\ av_packet.frags[i].kind # "empty"

\* What was taken of a unit without a break is what the buffer holds.
TakenInv ==
  taken.unit # 0 /\ taken.n # 0 =>
    /\ Len(av_packet.frags) = taken.n
    /\ \A i \in 1..Len(av_packet.frags) :
         av_packet.frags[i].unit = taken.unit /\ av_packet.frags[i].idx = i

BufferInv == ConsistentInv /\ AvInv /\ TakenInv

\* No fragment is of a unit yet to come.
LEMMA SeenUnits ==
  ASSUME TypeInv, AvInv, NEW f \in Seen
  PROVE  f.unit \in 0..unit /\ unit \in Nat
<1>1. unit \in Nat
  BY ConstantTypes DEF TypeInv, EnvInv, EnvTypes
<1>2. CASE \E i \in 1..Len(net) : f = net[i].frag
  BY <1>1, <1>2 DEF TypeInv, EnvInv, Sent
<1>3. CASE \E i \in 1..Len(todo) : f = todo[i]
  BY <1>1, <1>3 DEF TypeInv, EnvInv, Sent
<1>4. CASE \E i \in 1..Len(av_packet.frags) : f = av_packet.frags[i]
  BY <1>1, <1>4 DEF AvInv
<1> QED
  BY <1>1, <1>2, <1>3, <1>4 DEF Seen

\* How the fragments of the next buffer come about.
LEMMA BufferFrags ==
  ASSUME TypeInv, NEW d \in Frags, Effect(d)
  PROVE  IF d.kind = "fu" /\ d.idx # 1
         THEN /\ Len(av_packet'.frags) = Len(av_packet.frags) + 1
              /\ \A i \in 1..Len(av_packet.frags) : av_packet'.frags[i] = av_packet.frags[i]
              /\ av_packet'.frags[Len(av_packet.frags) + 1] = d
              /\ Len(av_packet.frags) \in Nat
         ELSE Len(av_packet'.frags) = 1 /\ av_packet'.frags[1] = d
<1>1. av_packet.frags \in Seq(Frags)
  BY DEF TypeInv, LoopTypes, AvPackets
<1>2. CASE d.kind = "fu" /\ d.idx # 1
  <2>1. av_packet'.frags = Append(av_packet.frags, d)
    BY <1>2 DEF Effect
  <2> QED
    BY <1>1, <1>2, <2>1, AppendProperties
<1>3. CASE ~ (d.kind = "fu" /\ d.idx # 1)
  <2>1. av_packet'.frags = <<d>>
    BY <1>3, Zenon DEF Effect
  <2> QED
    BY <1>3, <2>1
<1> QED
  BY <1>2, <1>3

\* What is in the buffer was there before or has just come.
LEMMA BufferFrom ==
  ASSUME TypeInv, NEW d \in Frags, Effect(d), NEW i \in 1..Len(av_packet'.frags)
  PROVE  \/ av_packet'.frags[i] = d
         \/ \E j \in 1..Len(av_packet.frags) : av_packet'.frags[i] = av_packet.frags[j]
<1>1. CASE d.kind = "fu" /\ d.idx # 1
  <2>1. /\ Len(av_packet'.frags) = Len(av_packet.frags) + 1
        /\ \A j \in 1..Len(av_packet.frags) : av_packet'.frags[j] = av_packet.frags[j]
        /\ av_packet'.frags[Len(av_packet.frags) + 1] = d
        /\ Len(av_packet.frags) \in Nat
    BY <1>1, BufferFrags
  <2>2. i \in 1..Len(av_packet.frags) \/ i = Len(av_packet.frags) + 1
    BY <2>1
  <2> QED
    BY <2>1, <2>2
<1>2. CASE ~ (d.kind = "fu" /\ d.idx # 1)
  <2>1. Len(av_packet'.frags) = 1 /\ av_packet'.frags[1] = d
    BY <1>2, BufferFrags
  <2> QED
    BY <2>1
<1> QED
  BY <1>1, <1>2

\* A step makes new fragments only by beginning a unit and by making some up.
LEMMA SeenStep ==
  ASSUME TypeInv, Next, ~ NewUnit, NEW f \in Seen'
  PROVE  f \in Seen \/ f.unit = 0 \/ f.kind = "empty"
<1>0. net \in Seq(Datagrams) /\ todo \in Seq(Frags) /\ EnvTypes
  BY DEF TypeInv, EnvInv, EnvTypes
<1>1. CASE Send \/ SendEmpty
  <2>1. /\ Len(net') = Len(net) + 1 /\ \A i \in 1..Len(net) : net'[i] = net[i]
        /\ todo # << >>
        /\ Send => net'[Len(net')].frag = todo[1] /\ todo' = Tail(todo)
        /\ SendEmpty => /\ todo' = todo
                        /\ net'[Len(net')].frag = [todo[1] EXCEPT !.kind = "empty"]
    BY <1>0, <1>1, NetSent
  <2>2. av_packet' = av_packet
    BY <1>1 DEF Send, SendEmpty, loop
  <2>3. Len(net) \in Nat /\ 1 \in 1..Len(todo) /\ todo[1] \in Frags
    BY <1>0, <2>1
  <2>4. CASE \E i \in 1..Len(net') : f = net'[i].frag
    <3>1. PICK i \in 1..Len(net') : f = net'[i].frag
      BY <2>4
    <3>2. CASE i # Len(net')
      <4>1. i \in 1..Len(net) /\ net'[i] = net[i]
        BY <2>1, <2>3, <3>2
      <4> QED
        BY <3>1, <4>1 DEF Seen
    <3>3. CASE i = Len(net') /\ Send
      BY <2>1, <2>3, <3>1, <3>3 DEF Seen
    <3>4. CASE i = Len(net') /\ SendEmpty
      BY <2>1, <2>3, <3>1, <3>4 DEF Frags
    <3> QED
      BY <1>1, <3>2, <3>3, <3>4
  <2>5. CASE \E i \in 1..Len(todo') : f = todo'[i]
    <3>1. PICK i \in 1..Len(todo') : f = todo'[i]
      BY <2>5
    <3>2. \E j \in 1..Len(todo) : todo'[i] = todo[j]
      <4>1. CASE todo' = todo
        BY <4>1
      <4>2. CASE todo' = Tail(todo)
        BY <1>0, <2>1, <4>2
      <4> QED
        BY <1>1, <2>1, <4>1, <4>2
    <3> QED
      BY <3>1, <3>2 DEF Seen
  <2> QED
    BY <2>2, <2>4, <2>5 DEF Seen
<1>2. CASE ~ (Send \/ SendEmpty)
  <2>1. /\ todo' = todo
        /\ \A i \in 1..Len(net') : \E j \in 1..Len(net) : net'[i] = net[j]
    <3>1. CASE Lose \/ Duplicate \/ Swap
      BY <1>0, <3>1, NetShuffled DEF Lose, Duplicate, Swap, sender
    <3>2. CASE Recv \/ Runt \/ FirstRunt \/ NoData \/ StopSection \/ StartSection
      <4>1. todo' = todo /\ (net' = net \/ (net # << >> /\ net' = Tail(net)))
        BY <3>2, LoopOnEnv DEF sender
      <4> QED
        BY <1>0, <4>1, NetShuffled
    <3> QED
      BY <1>2, <3>1, <3>2 DEF Next
  <2>2. \/ f \in Seen
        \/ \E i \in 1..Len(av_packet'.frags) : f = av_packet'.frags[i]
    BY <2>1 DEF Seen
  <2>3. CASE av_packet' = av_packet
    BY <2>2, <2>3 DEF Seen
  <2>4. ASSUME NEW m \in Datagrams, NEW d \in Frags, Handled(m, d), av_packet' # av_packet
        PROVE  f \in Seen \/ f.unit = 0
    <3>1. /\ ControlTypes /\ LoopTypes /\ pc = "recv" /\ (d.kind = "fu" => d.of # 1)
          /\ Handle(m, d)
      BY <2>4 DEF Handled, TypeInv
    <3>2. Effect(d)
      BY <2>4, <3>1, HandleCases DEF Skip, Gap
    <3>3. d.unit = 0 \/ d \in Seen
      <4>1. CASE net # << >> /\ d = net[1].frag
        <5>1. 1 \in 1..Len(net)
          BY <1>0, <4>1
        <5> QED
          BY <4>1, <5>1 DEF Seen
      <4> QED
        BY <2>4, <4>1 DEF Handled
    <3> QED
      BY <2>2, <3>2, <3>3, BufferFrom DEF Seen
  <2> QED
    BY <2>3, <2>4, OtherSteps DEF loop, Skip, NoData, StopSection, StartSection
<1> QED
  BY <1>1, <1>2

\* Each step keeps fragments of one unit alike.
LEMMA ConsistentStep ==
  ASSUME TypeInv, BufferInv, Next
  PROVE  ConsistentInv'
<1> SUFFICES ASSUME NEW f \in Seen', NEW g \in Seen' PROVE Alike(f, g)
  BY DEF ConsistentInv, Alike, SameUnit
<1>1. CASE ~ NewUnit
  <2>1. /\ f \in Seen \/ f.unit = 0 \/ f.kind = "empty"
        /\ g \in Seen \/ g.unit = 0 \/ g.kind = "empty"
    BY <1>1, SeenStep
  <2> QED
    BY <2>1 DEF BufferInv, ConsistentInv, Alike
<1>2. CASE NewUnit
  <2>1. /\ unit' = unit + 1
        /\ \A i \in 1..Len(todo') :
             /\ todo'[i].unit = unit' /\ todo'[i].of = todo'[1].of
             /\ todo'[i].kind = todo'[1].kind /\ todo'[i].w = todo'[1].w
    BY <1>2, NewUnitSent DEF TypeInv
  <2>2. UNCHANGED <<net, av_packet>>
    BY <1>2 DEF NewUnit, loop
  <2>3. \A h \in Seen' : h \in Seen \/ \E i \in 1..Len(todo') : h = todo'[i]
    BY <2>2 DEF Seen
  <2>4. \A h \in Seen : h.unit # unit'
    <3> TAKE h \in Seen
    <3>1. h.unit \in 0..unit /\ unit \in Nat
      BY SeenUnits DEF BufferInv
    <3> QED
      BY <2>1, <3>1
  <2>5. CASE f \in Seen /\ g \in Seen
    BY <2>5 DEF BufferInv, ConsistentInv
  <2>6. CASE (\E i \in 1..Len(todo') : f = todo'[i]) /\ (\E i \in 1..Len(todo') : g = todo'[i])
    BY <2>1, <2>6 DEF Alike, SameUnit
  <2>7. CASE f \in Seen /\ (\E i \in 1..Len(todo') : g = todo'[i])
    BY <2>1, <2>4, <2>7 DEF Alike
  <2>8. CASE g \in Seen /\ (\E i \in 1..Len(todo') : f = todo'[i])
    BY <2>1, <2>4, <2>8 DEF Alike
  <2> QED
    BY <2>3, <2>5, <2>6, <2>7, <2>8
<1> QED
  BY <1>1, <1>2

\* Each step keeps BufferInv.
LEMMA BufferStep ==
  ASSUME TypeInv, BufferInv, Next
  PROVE  BufferInv'
<1>1. unit \in Nat /\ (unit' = unit \/ unit' = unit + 1)
  <2>1. unit \in Nat
    BY ConstantTypes DEF TypeInv, EnvInv, EnvTypes
  <2>2. NewUnit \/ unit' = unit
    BY LoopOnEnv DEF Next, Send, SendEmpty, Lose, Duplicate, Swap, sender
  <2> QED
    BY <2>1, <2>2 DEF NewUnit
<1>2. CASE UNCHANGED <<av_packet, taken>>
  BY <1>1, <1>2, ConsistentStep DEF BufferInv, AvInv, TakenInv
<1>3. ASSUME NEW m \in Datagrams, NEW d \in Frags, Handled(m, d)
      PROVE  AvInv' /\ TakenInv'
  <2>1. /\ ControlTypes /\ LoopTypes /\ pc = "recv" /\ (d.kind = "fu" => d.of # 1)
        /\ Handle(m, d)
    BY <1>3 DEF Handled, TypeInv
  <2>2. d.unit = 0 \/ Sent(d, unit, network)
    BY <1>3 DEF Handled
  <2>3. CASE Skip \/ Gap(m)
    <3>1. UNCHANGED <<av_packet, taken>>
      BY <2>3 DEF Skip, Gap, history
    <3> QED
      BY <1>1, <3>1 DEF BufferInv, AvInv, TakenInv
  <2>4. CASE d.kind # "empty" /\ Record(d) /\ Effect(d)
    <3>1. AvInv'
      <4> SUFFICES ASSUME NEW i \in 1..Len(av_packet'.frags)
                   PROVE  /\ av_packet'.frags[i].unit \in 0..unit'
                          /\ av_packet'.frags[i].kind # "empty"
        BY DEF AvInv
      <4>1. \/ av_packet'.frags[i] = d
            \/ \E j \in 1..Len(av_packet.frags) : av_packet'.frags[i] = av_packet.frags[j]
        BY <2>4, BufferFrom
      <4>2. d.unit \in 0..unit'
        BY <1>1, <2>2 DEF Sent
      <4>3. \A j \in 1..Len(av_packet.frags) :
              /\ av_packet.frags[j].unit \in 0..unit'
              /\ av_packet.frags[j].kind # "empty"
        BY <1>1 DEF BufferInv, AvInv
      <4> QED
        BY <2>4, <4>1, <4>2, <4>3
    <3>2. TakenInv'
      <4> SUFFICES ASSUME taken'.unit # 0, taken'.n # 0
                   PROVE  /\ Len(av_packet'.frags) = taken'.n
                          /\ \A i \in 1..Len(av_packet'.frags) :
                               /\ av_packet'.frags[i].unit = taken'.unit
                               /\ av_packet'.frags[i].idx = i
        BY DEF TakenInv
      <4>1. taken'.unit = d.unit /\ Sent(d, unit, network) /\ d.idx \in Nat
        BY <2>2, <2>4, FragFields DEF Record
      <4>2. CASE d.idx = 1
        <5>1. taken'.n = 1
          BY <2>4, <4>2 DEF Record
        <5>2. Len(av_packet'.frags) = 1 /\ av_packet'.frags[1] = d
          BY <2>4, <4>2, BufferFrags
        <5> QED
          BY <4>1, <4>2, <5>1, <5>2
      <4>3. CASE d.idx # 1
        <5>1. taken = [unit |-> d.unit, n |-> d.idx - 1] /\ taken'.n = d.idx
          BY <2>4, <4>3 DEF Record
        <5>2. taken.unit = d.unit /\ taken.n = d.idx - 1
          BY <5>1
        <5>3. d.kind = "fu" /\ d.idx - 1 # 0
          BY <2>4, <4>1, <4>3 DEF Sent
        <5>4. /\ Len(av_packet.frags) = d.idx - 1
              /\ \A i \in 1..Len(av_packet.frags) :
                   av_packet.frags[i].unit = d.unit /\ av_packet.frags[i].idx = i
          BY <4>1, <5>2, <5>3 DEF BufferInv, TakenInv
        <5>5. /\ Len(av_packet'.frags) = Len(av_packet.frags) + 1
              /\ \A i \in 1..Len(av_packet.frags) : av_packet'.frags[i] = av_packet.frags[i]
              /\ av_packet'.frags[Len(av_packet.frags) + 1] = d
          BY <2>4, <4>3, <5>3, BufferFrags
        <5>6. ASSUME NEW i \in 1..Len(av_packet'.frags)
              PROVE  /\ av_packet'.frags[i].unit = d.unit
                     /\ av_packet'.frags[i].idx = i
          <6>1. CASE i \in 1..Len(av_packet.frags)
            BY <5>4, <5>5, <6>1
          <6>2. CASE i \notin 1..Len(av_packet.frags)
            <7>1. i = d.idx /\ Len(av_packet.frags) + 1 = d.idx
              BY <4>1, <5>4, <5>5, <6>2
            <7> QED
              BY <5>5, <7>1
          <6> QED
            BY <6>1, <6>2
        <5> QED
          BY <4>1, <5>1, <5>4, <5>5, <5>6
      <4> QED
        BY <4>2, <4>3
    <3> QED
      BY <3>1, <3>2
  <2> QED
    BY <2>1, <2>3, <2>4, HandleCases
<1>4. CASE \/ UNCHANGED loop \/ NoData \/ StopSection \/ StartSection
           \/ FirstRunt /\ Skip /\ UNCHANGED <<rtp_packet, net>>
  <2>1. UNCHANGED <<av_packet, taken>>
    BY <1>4 DEF loop, history, NoData, StopSection, StartSection, Skip
  <2> QED
    BY <1>2, <2>1
<1> QED
  BY <1>3, <1>4, OtherSteps, ConsistentStep DEF BufferInv

\* A unit that ends up whole is what the buffer holds.
LEMMA WholeTaken ==
  ASSUME TypeInv, BufferInv, NEW m \in Datagrams, NEW d \in Frags, Handled(m, d),
         d.kind # "empty", Record(d), Effect(d), taken'.n = d.of, d.unit # 0
  PROVE  UnitOf(av_packet'.frags) = d.unit /\ d.idx = d.of
<1>1. Sent(d, unit, network) /\ net # << >> /\ d = net[1].frag
  BY DEF Handled
<1>2. /\ d.idx \in 1..d.of /\ (d.kind = "fu" <=> d.of # 1) /\ d.of \in Nat
      /\ taken'.unit = d.unit
  BY <1>1, FragFields DEF Sent, Record
<1>3. d.idx = d.of
  BY <1>2 DEF Record
<1>4. Next /\ BufferInv'
  <2>1. Next
    BY DEF Handled, Next
  <2> QED
    BY <2>1, BufferStep
<1>5. /\ Len(av_packet'.frags) = d.of
      /\ \A i \in 1..Len(av_packet'.frags) :
           /\ av_packet'.frags[i].unit = d.unit
           /\ av_packet'.frags[i].idx = i
  BY <1>2, <1>4 DEF BufferInv, TakenInv
<1>6. PICK t \in Seq(Frags) : t = av_packet'.frags
  BY DEF Effect, AvPackets
<1>7. d \in Seen /\ d \in Frags
  <2>1. 1 \in 1..Len(net)
    BY <1>1 DEF TypeInv, EnvInv, EnvTypes
  <2> QED
    BY <1>1, <2>1 DEF Seen
<1>8. ASSUME NEW i \in 1..d.of
      PROVE  t[i] \in Frags /\ SameUnit(t[i], d) /\ t[i].idx = i
  <2>1. t[i] \in Frags /\ t[i].unit = d.unit /\ t[i].idx = i
    BY <1>5, <1>6
  <2>2. t[i] = d \/ \E j \in 1..Len(av_packet.frags) : t[i] = av_packet.frags[j]
    BY <1>5, <1>6, BufferFrom
  <2>3. CASE \E j \in 1..Len(av_packet.frags) : t[i] = av_packet.frags[j]
    <3>1. t[i] \in Seen /\ t[i].kind # "empty"
      BY <2>3 DEF Seen, BufferInv, AvInv
    <3> QED
      BY <1>7, <2>1, <3>1 DEF BufferInv, ConsistentInv, Alike
  <2> QED
    BY <2>1, <2>2, <2>3 DEF SameUnit
<1>9. IsWhole(t) /\ t[1].unit = d.unit
  BY <1>2, <1>5, <1>6, <1>8, WholeWhen
<1> QED
  BY <1>3, <1>6, <1>9 DEF UnitOf

\* A unit taken whole is queued whole, in each step.
LEMMA DamageStep ==
  ASSUME TypeInv, ErrInv, BufferInv, DamageConfined, Next
  PROVE  DamageConfined'
<1> SUFFICES ASSUME "overrun" \notin network.faults, NEW u \in whole'
             PROVE  \E i \in 1..Len(queue') : UnitOf(queue'[i]) = u
  BY NetworkStays DEF DamageConfined, UnitOf, IsWhole
<1>0. queue \in Seq(Seq(Frags))
  BY DEF TypeInv, LoopTypes
<1>1. ASSUME NEW f \in Seq(Frags), queue' = queue \/ queue' = Append(queue, f), u \in whole
      PROVE  \E i \in 1..Len(queue') : UnitOf(queue'[i]) = u
  <2>1. PICK i \in 1..Len(queue) : UnitOf(queue[i]) = u
    BY <1>1 DEF DamageConfined
  <2>2. i \in 1..Len(queue') /\ queue'[i] = queue[i]
    <3>1. CASE queue' = queue
      BY <3>1
    <3>2. CASE queue' = Append(queue, f)
      <4>1. /\ Len(queue') = Len(queue) + 1 /\ Len(queue) \in Nat
            /\ \A j \in 1..Len(queue) : queue'[j] = queue[j]
        BY <1>0, <3>2, AppendProperties
      <4> QED
        BY <4>1
    <3> QED
      BY <1>1, <3>1, <3>2
  <2> QED
    BY <2>1, <2>2
<1>2. CASE UNCHANGED <<queue, whole>>
  BY <1>2 DEF DamageConfined
<1>3. ASSUME NEW m \in Datagrams, NEW d \in Frags, Handled(m, d)
      PROVE  \E i \in 1..Len(queue') : UnitOf(queue'[i]) = u
  <2>1. /\ ControlTypes /\ LoopTypes /\ pc = "recv" /\ (d.kind = "fu" => d.of # 1)
        /\ Handle(m, d)
    BY <1>3 DEF Handled, TypeInv
  <2>2. CASE Skip \/ Gap(m)
    BY <1>2, <2>2 DEF Skip, Gap, history
  <2>3. CASE d.kind # "empty" /\ InSequence(m) /\ Record(d) /\ Effect(d)
    <3>1. /\ av_packet'.frags \in Seq(Frags)
          /\ queue' = queue \/ queue' = Append(queue, av_packet'.frags)
      BY <2>3 DEF Effect, AvPackets
    <3>2. CASE u \in whole
      BY <1>1, <3>1, <3>2
    <3>3. CASE u \notin whole
      <4>1. /\ taken'.n = d.of /\ d.unit # 0 /\ start_flag' /\ u = d.unit
            /\ ~ (d.kind \in {"stap", "mix"} /\ running)
        <5>1. taken'.n = IF d.idx = 1 THEN 1
                         ELSE IF taken = [unit |-> d.unit, n |-> d.idx - 1] THEN d.idx ELSE 0
          BY <2>3 DEF Record
        <5> QED
          BY <2>3, <3>3, <5>1 DEF Record
      <4>2. UnitOf(av_packet'.frags) = d.unit /\ d.idx = d.of
        BY <1>3, <2>3, <4>1, WholeTaken
      <4>3. d.kind = "fu" => ~ error_packet'
        <5> SUFFICES ASSUME d.kind = "fu" PROVE ~ error_packet'
          OBVIOUS
        <5>1. start_flag
          BY <2>3, <4>1 DEF Effect
        <5>2. ~ (before_seq = 0 /\ error_packet)
          BY <5>1 DEF ErrInv
        <5> QED
          BY <2>3, <5>2 DEF InSequence, Cleared
      <4>4. queue' = Append(queue, av_packet'.frags)
        BY <2>3, <4>1, <4>2, <4>3 DEF Effect
      <4>5. /\ Len(queue) + 1 \in 1..Len(queue')
            /\ queue'[Len(queue) + 1] = av_packet'.frags
        BY <1>0, <3>1, <4>4, AppendProperties
      <4> QED
        BY <4>1, <4>2, <4>5
    <3> QED
      BY <3>2, <3>3
  <2> QED
    BY <2>1, <2>2, <2>3, HandleCases
<1>4. CASE \/ UNCHANGED loop \/ NoData \/ StopSection \/ StartSection
           \/ FirstRunt /\ Skip /\ UNCHANGED <<rtp_packet, net>>
  BY <1>2, <1>4 DEF loop, history, NoData, StopSection, StartSection, Skip
<1> QED
  BY <1>3, <1>4, OtherSteps

\* BufferInv holds on every network.
THEOREM BufferInvHolds == Spec => []BufferInv
<1>1. Init => BufferInv
  <2> SUFFICES ASSUME Init PROVE BufferInv
    OBVIOUS
  <2>1. Len(net) = 0 /\ Len(todo) = 0 /\ Len(av_packet.frags) = 0 /\ taken.unit = 0
    BY DEF Init
  <2>2. \A f : f \notin Seen
    BY <2>1 DEF Seen
  <2> QED
    BY <2>1, <2>2 DEF BufferInv, ConsistentInv, AvInv, TakenInv
<1>2. TypeInv /\ BufferInv /\ [Next]_vars => BufferInv'
  <2> SUFFICES ASSUME TypeInv, BufferInv, [Next]_vars PROVE BufferInv'
    OBVIOUS
  <2>1. CASE Next
    BY <2>1, BufferStep
  <2>2. CASE UNCHANGED vars
    <3>1. UNCHANGED <<net, todo, unit, av_packet, taken>>
      BY <2>2 DEF vars, env, loop, history
    <3>2. Seen' = Seen
      BY <3>1 DEF Seen
    <3> QED
      BY <3>1, <3>2 DEF BufferInv, ConsistentInv, AvInv, TakenInv, Alike, SameUnit
  <2> QED
    BY <2>1, <2>2
<1> QED
  BY <1>1, <1>2, TypeInvHolds, PTL DEF Spec

\* A loss, a packet twice, two swapped or one cut off costs no unit but those it
\* hits (main_yuv4.c:227-243 and 278): what was taken whole during a session is
\* queued whole, if the queue refuses nothing and the sender does not use the
\* number 0.
THEOREM DamageConfinedHolds == Spec /\ []NumbersTell => []DamageConfined
<1>1. Init => DamageConfined
  BY DEF Init, DamageConfined
<1>2. TypeInv /\ ErrInv /\ BufferInv /\ DamageConfined /\ [Next]_vars => DamageConfined'
  <2> SUFFICES ASSUME TypeInv, ErrInv, BufferInv, DamageConfined, [Next]_vars
               PROVE  DamageConfined'
    OBVIOUS
  <2>1. CASE Next
    BY <2>1, DamageStep
  <2>2. CASE UNCHANGED vars
    <3>1. UNCHANGED <<network, queue, whole>>
      BY <2>2 DEF vars, env, loop, history
    <3>2. "overrun" \notin network'.faults =>
            \A u \in whole' : \E i \in 1..Len(queue') : UnitOf(queue'[i]) = u
      BY <3>1 DEF DamageConfined
    <3> QED
      BY <3>2 DEF DamageConfined, UnitOf, IsWhole
  <2> QED
    BY <2>1, <2>2
<1> QED
  BY <1>1, <1>2, TypeInvHolds, ErrInvHolds, BufferInvHolds, PTL DEF Spec

=============================================================================
