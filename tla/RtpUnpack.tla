----------------------------- MODULE RtpUnpack -----------------------------
(***************************************************************************)
(* From datagram to av_packet: UnpackRTPH264 and UnpackRtpSTAP_A_NAL of    *)
(* src/unpackrtp.c and the buffers main() moves their results through, byte*)
(* by byte.  Sequence numbers and sessions are in Receiver: here every     *)
(* packet is in sequence and everything is stored.                         *)
(***************************************************************************)
EXTENDS RtpSyntax

CONSTANTS
  Streams,    \* what is sent: records with a field sends, a sequence of sendings
  HeadLen,    \* RTP_HEADLEN
  BufSize,    \* the size of buffer, outbuffer and the av_packet of an aggregate
  PacketMax   \* PACKET_MAX_SIZE, that of the av_packet of a fragmented unit

ASSUME UnpackAssumption ==
  HeadLen \in Nat /\ HeadLen > 2 /\ BufSize \in Nat /\ PacketMax \in Nat

ASSUME StreamsAssumption ==
  \A s \in Streams :
    /\ s.sends \in Seq(Sendings)
    /\ \A i \in 1..Len(s.sends) : Sendable(s.sends[i])

VARIABLES
  stream,      \* the one of Streams that is sent
  inbox,       \* the datagrams to come
  payload,     \* what follows the RTP header of the one in buffer
  rtp_packet,  \* nal, flag, and the outlen bytes of outbuffer
  av_packet,   \* the bytes written to av_packet.data, and its size
  nidx,        \* in UnpackRtpSTAP_A_NAL
  upc,         \* control
  queue,       \* videoPacketFifo
  copied       \* history: where the last memcpy ended reading and writing, and
               \*   how much room there was to write

unpackVars == <<stream, inbox, payload, rtp_packet, av_packet, nidx, upc, queue,
                copied>>

Copy(end, size, room) == [end |-> end, size |-> size, room |-> room]

-----------------------------------------------------------------------------
(* UnpackRTPH264.                                                           *)

\* buffer is cleared before every recvfrom: behind the payload are zeros.
Byte(p, i)     == IF i < Len(p) THEN p[i + 1] ELSE 0
Bytes(p, i, n) == [k \in 1..n |-> Byte(p, i + k - 1)]

Nal(p)    == Byte(p, 0) % 32
FuFlag(p) == (Byte(p, 1) \div 32) * 32

\* Mutant: the type is taken from the indicator.
NalOfIndicator(p) == Byte(p, 0)

NalFua(p) == (Byte(p, 0) \div 32) * 32 + (Byte(p, 1) % 32)

OutBuffer(p) ==
  IF Nal(p) # 28 THEN StartCode \o p
  ELSE IF FuFlag(p) = 128 THEN StartCode \o <<NalFua(p)>> \o Bytes(p, 2, Len(p) - 2)
  ELSE Bytes(p, 2, Len(p) - 2)

\* With the start of a unit, outlen counts the five bytes put before it, and as
\* many bytes too much are copied.
UnpackCopy(p) ==
  IF Nal(p) # 28 THEN Copy(HeadLen + Len(p), 4 + Len(p), BufSize)
  ELSE IF FuFlag(p) = 128 THEN Copy(HeadLen + Len(p) + 5, Len(p) + 8, BufSize)
  ELSE Copy(HeadLen + Len(p), Len(p) - 2, BufSize)

\* What main() does next: an empty packet is skipped, an SPS parsed first.
Sorted(r) ==
  IF r.out = << >> THEN "recv"
  ELSE CASE r.nal = 28 -> "fu"
         [] r.nal = 24 -> "stap"
         [] r.nal = 7  -> "parse"
         [] OTHER      -> "store"

Unpack ==
  /\ upc = "recv" /\ inbox # << >>
  /\ payload' = Head(inbox) /\ inbox' = Tail(inbox)
  /\ rtp_packet' = [nal |-> Nal(payload'), out |-> OutBuffer(payload'),
       flag |-> IF Nal(payload') = 28 THEN FuFlag(payload') ELSE rtp_packet.flag]
  /\ copied' = UnpackCopy(payload')
  /\ upc' = Sorted(rtp_packet')
  /\ UNCHANGED <<stream, av_packet, nidx, queue>>

-----------------------------------------------------------------------------
(* The fragments of a unit.                                                 *)

\* The bytes of outbuffer go behind those av_packet has.
Filled(packet) ==
  /\ av_packet' = [packet EXCEPT !.data = @ \o rtp_packet.out]
  /\ copied' = Copy(Len(rtp_packet.out), Len(av_packet'.data), packet.size)

FuStart ==
  /\ upc = "fu" /\ rtp_packet.flag = 128
  /\ Filled([data |-> << >>, size |-> PacketMax])
  /\ upc' = "recv"
  /\ UNCHANGED <<stream, inbox, payload, rtp_packet, nidx, queue>>

FuMid ==
  /\ upc = "fu" /\ rtp_packet.flag = 0
  /\ Filled(av_packet)
  /\ upc' = "recv"
  /\ UNCHANGED <<stream, inbox, payload, rtp_packet, nidx, queue>>

FuEnd ==
  /\ upc = "fu" /\ rtp_packet.flag = 64
  /\ Filled(av_packet)
  /\ queue' = Append(queue, av_packet'.data)
  /\ upc' = "recv"
  /\ UNCHANGED <<stream, inbox, payload, rtp_packet, nidx>>

-----------------------------------------------------------------------------
(* UnpackRtpSTAP_A_NAL.                                                     *)

StapStart ==
  /\ upc = "stap"
  /\ av_packet' = [data |-> << >>, size |-> BufSize] /\ nidx' = 0
  /\ upc' = "walk"
  /\ UNCHANGED <<stream, inbox, payload, rtp_packet, queue, copied>>

NaluSize == 256 * Byte(payload, nidx + 1) + Byte(payload, nidx + 2)

\* Mutant: the two bytes of the size are not stepped over.
AfterSize == nidx + NaluSize

\* A size of 0 is stepped over with one byte more.
AfterNalu == nidx + (IF NaluSize = 0 THEN 3 ELSE NaluSize + 2)

\* One round of the loop.
StapUnit ==
  /\ upc = "walk" /\ nidx < Len(payload) - 1
  /\ av_packet' = [av_packet EXCEPT
       !.data = @ \o StartCode \o Bytes(payload, nidx + 3, NaluSize)]
  /\ copied' = Copy(HeadLen + nidx + 3 + NaluSize, Len(av_packet'.data), av_packet.size)
  /\ nidx' = AfterNalu
  /\ UNCHANGED <<stream, inbox, payload, rtp_packet, upc, queue>>

StapEnd ==
  /\ upc = "walk" /\ nidx >= Len(payload) - 1
  /\ upc' = "parse"
  /\ UNCHANGED <<stream, inbox, payload, rtp_packet, av_packet, nidx, queue, copied>>

-----------------------------------------------------------------------------
(* Parsing and storing.                                                     *)

\* What main() hands to the parser: all behind the start code and the header.
SpsBuffer ==
  LET data == IF rtp_packet.nal = 7 THEN rtp_packet.out ELSE av_packet.data
  IN SubSeq(data, 6, Len(data))

Parsed ==
  /\ upc = "parse"
  /\ upc' = "store"
  /\ UNCHANGED <<stream, inbox, payload, rtp_packet, av_packet, nidx, queue, copied>>

\* A single unit gets an av_packet of its length; that of an aggregate is filled.
Store ==
  /\ upc = "store"
  /\ av_packet' = IF rtp_packet.nal = 24 THEN av_packet
                  ELSE [data |-> rtp_packet.out, size |-> Len(rtp_packet.out)]
  /\ queue' = Append(queue, av_packet'.data)
  /\ upc' = "recv"
  /\ UNCHANGED <<stream, inbox, payload, rtp_packet, nidx, copied>>

UnpackInit ==
  /\ stream \in Streams
  /\ inbox = FlattenSeq([i \in 1..Len(stream.sends) |-> Datagrams(stream.sends[i])])
  /\ payload = << >> /\ rtp_packet = [nal |-> 0, flag |-> 0, out |-> << >>]
  /\ av_packet = [data |-> << >>, size |-> 0] /\ nidx = 0
  /\ upc = "recv" /\ queue = << >> /\ copied = Copy(0, 0, 0)

\* All but Parsed, which waits for the parser.
UnpackStep ==
  \/ Unpack \/ FuStart \/ FuMid \/ FuEnd
  \/ StapStart \/ StapUnit \/ StapEnd \/ Store

UnpackSpec == UnpackInit /\ [][UnpackStep \/ Parsed]_unpackVars

-----------------------------------------------------------------------------
(* Properties.                                                              *)

\* Fragments with payload, units that are not empty (but for the last of an
\* aggregate), and room for them: an aggregate grows by two bytes for each unit.
Fits(s) ==
  /\ \A i \in 1..Len(Datagrams(s)) : HeadLen + 5 + Len(Datagrams(s)[i]) <= BufSize
  /\ s.how = "stap" =>
       /\ \A i \in 1..Len(s.units) - 1 : s.units[i] # << >>
       /\ Len(Aggregated(s.units)) + 2 * Len(s.units) <= BufSize + 1
  /\ s.how = "fu" =>
       /\ \A i \in 1..Len(s.cuts) : s.cuts[i] > 0
       /\ Len(s.units[1]) + 4 <= PacketMax

AllFit == \A i \in 1..Len(stream.sends) : Fits(stream.sends[i])

\* What is queued is what was sent, unit by unit behind its start code: the
\* header of a fragmented unit is put together again, no byte is added, lost or
\* moved, and when nothing is left to receive nothing is missing.
FramesAsSent ==
  LET units == [i \in 1..Len(stream.sends) |-> ByteStream(stream.sends[i])]
  IN AllFit => /\ IsPrefix(queue, units)
               /\ upc = "recv" /\ inbox = << >> => queue = units

\* No memcpy reads behind the buffer it reads from or writes behind the one it
\* writes to, if the units fit: the lengths are taken from the datagram unchecked.
CopiesInBounds == AllFit => copied.end <= BufSize /\ copied.size <= copied.room
=============================================================================
