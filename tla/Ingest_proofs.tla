--------------------------- MODULE Ingest_proofs ---------------------------
(***************************************************************************)
(* Proofs about Ingest: it unpacks as RtpUnpack does, the text of an SPS   *)
(* is decoded to the SPS, the parser has the payload that was sent, stays  *)
(* in its tables and in the data, ends where the encoder did and has the   *)
(* answers that were sent.                                                 *)
(*                                                                         *)
(* ParseInv says what the parser works on: before the removal of the       *)
(* emulation prevention bytes the payload with these bytes, behind it the  *)
(* payload, and anything after it. That main() hands over the former is    *)
(* known from the invariant of RtpUnpack_proofs, and that the latter comes *)
(* of it from Coding_proofs. TypeInv adds that the parser is in its table  *)
(* and in the data (ReaderInv of SpsParser_proofs), and WayInv that it is  *)
(* where the encoder was (Way there), if its parameter set is one it can   *)
(* read. At the end of the way EndsAsSent and AnswersAsSent can be read    *)
(* off.                                                                    *)
(***************************************************************************)
EXTENDS Ingest, RtpUnpack_proofs, SpsParser_proofs

\* Whatever the parser does, main() unpacks as RtpUnpack says.
THEOREM IngestUnpacks == Spec => UnpackSpec
<1>1. Init => UnpackInit
  BY DEF Init
<1>2. [Next]_vars => [UnpackStep \/ Parsed]_unpackVars
  <2>1. CASE UnpackStep
    BY <2>1
  <2>2. CASE SpsParsed
    BY <2>2 DEF SpsParsed
  <2>3. CASE unpackVars' = unpackVars
    BY <2>3
  <2>4. UNCHANGED vars => unpackVars' = unpackVars
    BY DEF vars
  <2>5. Next => UnpackStep \/ SpsParsed \/ unpackVars' = unpackVars
    BY DEF Next, ParseSps, ParsePps, ParseText, CallerGoesOn
  <2> QED
    BY <2>1, <2>2, <2>3, <2>4, <2>5
<1> QED
  BY <1>1, <1>2, PTL DEF Spec, UnpackSpec

\* So what is queued is what was sent, with the parser between.
THEOREM IngestFramesAsSent == Spec => []FramesAsSent
BY IngestUnpacks, FramesAsSentHolds, PTL

\* And no copy leaves its buffers.
THEOREM IngestCopiesInBounds == Spec => []CopiesInBounds
BY IngestUnpacks, CopiesInBoundsHolds, PTL

-----------------------------------------------------------------------------
(* The parameter set of a stream.                                           *)

SetBits(s) == IF s.what = "pps" THEN PpsBits(s.desc) ELSE SpsBits(s.desc)

\* Its bits, its payload, and the payload with the 3s put in.
LEMMA SetBytes ==
  ASSUME NEW s \in Streams
  PROVE  /\ Payload(SetBits(s)) \in Seq(Octet) /\ Payload(SetBits(s)) \in Seq(Nat)
         /\ Escaped(Payload(SetBits(s))) \in Seq(Octet)
<1>1. SetBits(s) \in Seq({0, 1})
  <2>1. \A E, N : AllCoded(E) /\ Len(E) = N /\ N \in Nat => Bits(E) \in Seq({0, 1})
    BY RowsEnd, Zenon DEF RowEnds
  <2>2. CASE s.what = "pps"
    <3>1. PpsOK(s.desc)  BY <2>2, IngestAssumption
    <3>2. AllCoded(PpsElements(s.desc)) /\ Len(PpsElements(s.desc)) = 27
      BY <3>1, PpsCoded
    <3>3. PpsBits(s.desc) \in Seq({0, 1})  BY <2>1, <3>2 DEF PpsBits
    <3> QED  BY <2>2, <3>3 DEF SetBits
  <2>3. CASE s.what # "pps"
    <3>1. SpsOK(s.desc)  BY <2>3, IngestAssumption
    <3>2. AllCoded(AllSpsElements(s.desc)) /\ Len(AllSpsElements(s.desc)) = 84
      BY <3>1, SpsCoded
    <3>3. SpsBits(s.desc) \in Seq({0, 1})  BY <2>1, <3>2 DEF SpsBits
    <3> QED  BY <2>3, <3>3 DEF SetBits
  <2> QED  BY <2>2, <2>3
<1>2. Payload(SetBits(s)) \in Seq(Octet)  BY <1>1, PayloadOctets
<1> QED  BY <1>2, OctetsAreNumbers, EscapedOctets

\* The unit of an SPS is made of bytes, and what is behind its header is that.
LEMMA UnitBytes ==
  ASSUME NEW s \in Streams, s.what # "pps",
         NEW E, E = Escaped(Payload(SetBits(s)))
  PROVE  /\ SpsUnit(s.desc) = <<103>> \o E /\ E \in Seq(Octet)
         /\ SpsUnit(s.desc) \in Seq(Octet) /\ SpsUnit(s.desc) # << >>
         /\ Len(SpsUnit(s.desc)) = 1 + Len(E)
<1>1. SpsUnit(s.desc) = <<103>> \o E  BY DEF SpsUnit, SetBits
<1>2. E \in Seq(Octet)  BY SetBytes
<1>3. <<103>> \in Seq(Octet) /\ Len(<<103>>) = 1  BY DEF Octet
<1>4. <<103>> \o E \in Seq(Octet) /\ Len(<<103>> \o E) = 1 + Len(E)  BY <1>2, <1>3
<1>5. <<103>> \o E # << >>  BY <1>2, <1>4
<1> QED  BY <1>1, <1>2, <1>4, <1>5

-----------------------------------------------------------------------------
(* The text of an SPS.                                                      *)

\* The stream is one of Streams.
LEMMA OneOfStreams == Spec => [](stream \in Streams)
<1>1. UnpackHolds => stream \in Streams  BY DEF UnpackHolds, WellSent
<1> QED  BY <1>1, IngestUnpacks, UnpackInvHolds, PTL

\* base64_encode and base64_decode, one after the other, give back the unit and
\* at most four zeros, whatever the unit.
THEOREM TextDecodedHolds == Spec => []TextDecoded
<1>1. stream \in Streams => TextDecoded
  <2> SUFFICES ASSUME stream \in Streams, stream.what = "text", stage = "raw",
                      NEW unit, unit = SpsUnit(stream.desc)
               PROVE  /\ \A k \in 0..8 * Len(unit) - 1 :
                           Bit(unit, k)
                             = (Encoded(unit)[k \div 6 + 1] \div 2^(5 - (k % 6))) % 2
                      /\ \E n \in 0..4 : Decoded(Encoded(unit)) = unit \o Zeros(n)
    BY Zenon DEF TextDecoded
  <2>1. unit \in Seq(Octet) /\ unit # << >>  BY UnitBytes
  <2> QED  BY <2>1, TextRestored, Zenon
<1> QED  BY <1>1, OneOfStreams, PTL

-----------------------------------------------------------------------------
(* The reads of the parser.                                                 *)

\* A position in b, wherever it is.
InBuffer(c, b) == \E p : c = Context(b, p)

\* Reading moves the position only.
LEMMA ReadsStay ==
  ASSUME NEW b, NEW c, InBuffer(c, b), NEW f
  PROVE  InBuffer(Read(f, c).ctx, b) /\ InBuffer(ParseSe(c).ctx, b)
<1>1. \A d, n : InBuffer(d, b) => InBuffer(Moved(d, n), b)
  <2> SUFFICES ASSUME NEW p, NEW n PROVE InBuffer(Moved(Context(b, p), n), b)
    BY DEF InBuffer
  <2>1. Moved(Context(b, p), n) = Context(b, p + n)  BY DEF Moved, Context
  <2> QED  BY <2>1 DEF InBuffer
<1>2. InBuffer(Get1Bit(c).ctx, b)  BY <1>1 DEF Get1Bit
<1>3. \A d, n : InBuffer(d, b) => InBuffer(GetBits(d, n).ctx, b)
  BY <1>1, Zenon DEF GetBits
<1>4. InBuffer(ParseUe(c).ctx, b)
  <2>1. ParseUe(c).ctx = GetBits(Moved(c, LeadingZeros(c) + 1), LeadingZeros(c)).ctx
    BY DEF ParseUe
  <2> QED  BY <2>1, <1>1, <1>3
<1>5. InBuffer(ParseSe(c).ctx, b)
  <2>1. ParseSe(c).ctx = ParseUe(c).ctx  BY DEF ParseSe
  <2> QED  BY <2>1, <1>4
<1>6. InBuffer([val |-> MoreRbspData(c), ctx |-> c].ctx, b)
  <2>1. [val |-> MoreRbspData(c), ctx |-> c].ctx = c OBVIOUS
  <2> QED  BY <2>1
<1>7. InBuffer(Read(f, c).ctx, b)
  BY <1>2, <1>3, <1>4, <1>5, <1>6, Zenon DEF Read
<1> QED  BY <1>5, <1>7

-----------------------------------------------------------------------------
(* What the parser is called with.                                          *)

\* Data that are the payload of a parameter set with the 3s put in, and more.
ToParse(data, s) == \E R \in Seq(Nat) : IsEscaped(data, Payload(SetBits(s)), R)

\* Behind start code and header of data that begin with an SPS.
LEMMA BehindHeader ==
  ASSUME NEW s \in Streams, s.what # "pps", NEW data \in Seq(Octet),
         NEW unit, unit = SpsUnit(s.desc), Grows(StartCode \o unit, data)
  PROVE  ToParse(SubSeq(data, 6, Len(data)), s)
<1>1. PICK E : E = Escaped(Payload(SetBits(s)))  OBVIOUS
<1>2. /\ unit = <<103>> \o E /\ E \in Seq(Octet) /\ unit \in Seq(Octet)
      /\ Len(unit) = 1 + Len(E)
  BY <1>1, UnitBytes
<1>3. PICK e, n : e = Len(E) /\ n = Len(data)  OBVIOUS
<1>4. e \in Nat /\ n \in Nat /\ E \in Seq(Nat) /\ data \in Seq(Nat) /\ unit \in Seq(Nat)
  BY <1>2, <1>3, OctetsAreNumbers
<1>5. PICK c : c = StartCode \o unit  OBVIOUS
<1>6. StartCode \in Seq(Nat) /\ Len(StartCode) = 4  BY DEF StartCode
<1>7. Len(c) = 5 + e /\ \A i \in 1..e : c[5 + i] = E[i]
  <2>0. /\ Len(c) = Len(StartCode) + Len(unit)
        /\ \A i \in 1..Len(unit) : c[Len(StartCode) + i] = unit[i]
    <3>1. IsCat(c, StartCode, unit, Nat)  BY <1>4, <1>5, <1>6 DEF IsCat
    <3> QED  BY <3>1, Catenation
  <2>1. Len(c) = 5 + e  BY <2>0, <1>2, <1>3, <1>4, <1>6
  <2>2. ASSUME NEW i \in 1..e PROVE c[5 + i] = E[i]
    <3>1. c[4 + (1 + i)] = unit[1 + i]
      <4>1. 1 + i \in 1..Len(unit)  BY <1>2, <1>3, <1>4
      <4> QED  BY <4>1, <2>0, <1>6, Zenon
    <3>2. unit[1 + i] = E[i]  BY <1>2, <1>3, <1>4
    <3>3. 4 + (1 + i) = 5 + i  OBVIOUS
    <3> QED  BY <3>1, <3>2, <3>3, Zenon
  <2> QED  BY <2>1, <2>2
<1>8. 5 + e <= n /\ \A i \in 1..e : data[5 + i] = E[i]
  <2>1. 5 + e <= n  BY <1>3, <1>5, <1>7 DEF Grows
  <2>2. ASSUME NEW i \in 1..e PROVE data[5 + i] = E[i]
    <3>1. 5 + i \in 1..Len(c)  BY <1>4, <1>7
    <3>2. data[5 + i] = c[5 + i]  BY <3>1, <1>5 DEF Grows
    <3> QED  BY <3>2, <1>7
  <2> QED  BY <2>1, <2>2
<1>9. PICK B, R : B = SubSeq(data, 6, n) /\ R = SubSeq(data, 6 + e, n)  OBVIOUS
<1>10. /\ B \in Seq(Nat) /\ Len(B) = n - 5
       /\ \A i \in 1..n - 5 : B[i] = data[5 + i]
  <2>1. B = [i \in 1..n - 6 + 1 |-> data[6 + i - 1]]  BY <1>3, <1>4, <1>8, <1>9
  <2>2. \A i \in 1..n - 5 : data[5 + i] \in Nat /\ 6 + i - 1 = 5 + i
    <3>1. \A i \in 1..n - 5 : 5 + i \in 1..n  BY <1>4, <1>8
    <3> QED  BY <3>1, <1>3, <1>4
  <2>3. n - 6 + 1 = n - 5 /\ n - 5 \in Nat  BY <1>4, <1>8
  <2> QED  BY <2>1, <2>2, <2>3
<1>11. /\ R \in Seq(Nat) /\ Len(R) = n - 5 - e
       /\ \A i \in 1..n - 5 - e : R[i] = data[5 + e + i]
  <2>1. R = [i \in 1..n - (6 + e) + 1 |-> data[(6 + e) + i - 1]]
    BY SMTT(30), <1>3, <1>4, <1>8, <1>9
  <2>2. \A i \in 1..n - 5 - e : data[5 + e + i] \in Nat /\ (6 + e) + i - 1 = 5 + e + i
    <3>1. \A i \in 1..n - 5 - e : 5 + e + i \in 1..n  BY <1>4, <1>8
    <3> QED  BY <3>1, <1>3, <1>4
  <2>3. n - (6 + e) + 1 = n - 5 - e /\ n - 5 - e \in Nat  BY <1>4, <1>8
  <2> QED  BY <2>1, <2>2, <2>3
<1>12. B = E \o R
  <2>1. PICK C : C = E \o R  OBVIOUS
  <2>0. /\ C \in Seq(Nat) /\ Len(C) = Len(E) + Len(R)
        /\ \A i \in 1..Len(E) : C[i] = E[i]
        /\ \A i \in 1..Len(R) : C[Len(E) + i] = R[i]
    <3>1. IsCat(C, E, R, Nat)  BY <2>1, <1>4, <1>11 DEF IsCat
    <3> QED  BY <3>1, Catenation
  <2>2. C \in Seq(Nat) /\ Len(C) = n - 5
    BY <2>0, <1>3, <1>4, <1>8, <1>11
  <2>3. ASSUME NEW i \in 1..n - 5 PROVE B[i] = C[i]
    <3>1. CASE i <= e
      <4>2. i \in 1..e  BY <3>1, <1>4
      <4>1. C[i] = E[i]  BY <4>2, <2>0, <1>3
      <4> QED  BY <4>1, <4>2, <1>8, <1>10
    <3>2. CASE ~ (i <= e)
      <4>2. i - e \in 1..n - 5 - e /\ 5 + e + (i - e) = 5 + i /\ e + (i - e) = i
        BY <3>2, <1>4
      <4>3. C[e + (i - e)] = R[i - e]  BY <4>2, <2>0, <1>3, <1>11
      <4>1. C[i] = R[i - e]  BY <4>2, <4>3, Zenon
      <4> QED  BY <4>1, <4>2, <1>10, <1>11
    <3> QED  BY <3>1, <3>2
  <2> QED  BY <2>1, <2>2, <2>3, <1>10, SeqEqual
<1> QED  BY <1>1, <1>3, <1>9, <1>11, <1>12 DEF ToParse, IsEscaped

\* The units of an aggregate behind start codes begin with the first.
LEMMA FirstOfAll ==
  ASSUME NEW s, Sendable(s)
  PROVE  /\ ByteStream(s) \in Seq(Octet)
         /\ Grows(StartCode \o s.units[1], ByteStream(s))
<1>1. PICK n : n = Len(s.units)  OBVIOUS
<1>2. n \in Nat \ {0} /\ \A i \in 1..n : s.units[i] \in Seq(Octet)
  BY <1>1, UnitTypes DEF Octet
<1>3. \A i \in 1..n : StartCode \o s.units[i] \in Seq(Octet)
  <2>1. StartCode \in Seq(Octet)  BY DEF StartCode, Octet
  <2> QED  BY <1>2, <2>1
<1>4. PICK q : q = [i \in 1..n |-> StartCode \o s.units[i]]  OBVIOUS
<1>5. q \in Seq(Seq(Octet)) /\ Len(q) = n /\ AllSeqs(q, n, Octet)
  <2>1. q \in [1..n -> Seq(Octet)]  BY <1>3, <1>4
  <2>2. AllSeqs(q, n, Octet)  BY <1>3, <1>4 DEF AllSeqs
  <2> QED  BY <1>2, <2>1, <2>2
<1>6. PICK f : Joins(f, q, n, Octet) /\ FlattenSeq(q) = f[n]
  BY <1>5, FlattenSeqDef
<1>7. ByteStream(s) = f[n]  BY <1>1, <1>4, <1>6 DEF ByteStream
<1>8. f[n] \in Seq(Octet) /\ f[0] = << >>
  <2>1. n \in 0..n  BY <1>2
  <2> QED  BY <1>6, <2>1 DEF Joins
<1>9. f[1] = StartCode \o s.units[1]
  <2>1. 1 \in 1..n /\ 1 - 1 = 0  BY <1>2
  <2>2. f[1] = f[1 - 1] \o q[1]  BY <2>1, <1>6 DEF Joins
  <2>3. q[1] = StartCode \o s.units[1] /\ q[1] \in Seq(Octet)  BY <2>1, <1>3, <1>4
  <2>4. f[1] = << >> \o q[1]  BY <2>1, <2>2, <1>8
  <2> QED  BY <2>3, <2>4
<1>10. Grows(f[1], f[n])
  <2>1. 1 \in 0..n /\ n \in 1..n  BY <1>2
  <2> QED  BY <2>1, <1>2, <1>5, <1>6, JoinsGrow
<1> QED  BY <1>7, <1>8, <1>9, <1>10

\* In the walk over an aggregate the packet is one, and an SPS is parsed only
\* from an SPS or from an aggregate.
NalInv ==
  /\ upc \in {"stap", "walk"} => rtp_packet.nal = 24
  /\ upc = "parse" => rtp_packet.nal \in {7, 24}

\* Each step keeps it.
LEMMA NalKeeps ==
  ASSUME NalInv, [UnpackStep \/ Parsed]_unpackVars
  PROVE  NalInv'
<1>1. CASE Unpack
  <2>1. /\ rtp_packet'.out = << >> => upc' = "recv"
        /\ rtp_packet'.out # << >> =>
             upc' = CASE rtp_packet'.nal = 28 -> "fu"
                      [] rtp_packet'.nal = 24 -> "stap"
                      [] rtp_packet'.nal = 7  -> "parse"
                      [] OTHER                -> "store"
    BY <1>1 DEF Unpack, Sorted
  <2>2. \/ upc' = "stap" /\ rtp_packet'.nal = 24
        \/ upc' = "parse" /\ rtp_packet'.nal = 7
        \/ upc' \in {"recv", "fu", "store"}
    BY <2>1, Zenon
  <2> QED  BY <2>2 DEF NalInv
<1>2. CASE FuStart \/ FuMid \/ FuEnd \/ Store \/ Parsed
  <2>1. upc' \in {"recv", "store"}  BY <1>2 DEF FuStart, FuMid, FuEnd, Store, Parsed
  <2> QED  BY <2>1 DEF NalInv
<1>3. CASE StapStart  BY <1>3 DEF StapStart, NalInv
<1>4. CASE StapUnit  BY <1>4 DEF StapUnit, NalInv
<1>5. CASE StapEnd  BY <1>5 DEF StapEnd, NalInv
<1>6. CASE UNCHANGED unpackVars  BY <1>6 DEF unpackVars, NalInv
<1> QED  BY <1>1, <1>2, <1>3, <1>4, <1>5, <1>6 DEF UnpackStep

\* What main() calls the parser with.
LEMMA SpsHandedOver ==
  ASSUME UnpackHolds, AllFit, NalInv, upc = "parse"
  PROVE  stream.what = "sps" /\ ToParse(SpsBuffer, stream)
<1>1. WellSent /\ UnpackInv /\ stream \in Streams  BY DEF UnpackHolds, WellSent
<1>2. Queued /\ \E s, k, r : Working(s, k, r)  BY <1>1, AtIt
<1>3. PICK s, k, r : Working(s, k, r)  BY <1>2
<1>4. /\ s = stream.sends[k + 1] /\ k = Len(queue) /\ k < Len(stream.sends)
      /\ Sendable(s) /\ Fits(s)
      /\ r \in 1..Len(Datagrams(s)) /\ payload = Datagrams(s)[r]
      /\ rtp_packet.nal = Nal(payload) /\ rtp_packet.out = OutBuffer(payload)
      /\ \/ s.how = "stap" /\ av_packet.data = ByteStream(s)
         \/ s.how = "single"
  BY <1>3 DEF Working, Made, AtWork, Current
<1>5. Len(stream.sends) \in Nat /\ k \in 0..Len(stream.sends)
  BY <1>1, <1>2, <1>4, AtCurrent
<1>6. k + 1 \in 1..Len(stream.sends) /\ stream.sends # << >>  BY <1>4, <1>5
<1>7. stream.what = "sps" /\ CarriesSps(s, SpsUnit(stream.desc))
  BY <1>1, <1>4, <1>6, IngestAssumption
<1>8. Unpacks(s, r, payload)  BY <1>4, DatagramUnpacked
<1>9. PICK unit : unit = SpsUnit(stream.desc)  OBVIOUS
<1>10. CASE s.how = "stap"
  <2>1. rtp_packet.nal = 24  BY <1>4, <1>8, <1>10 DEF Unpacks
  <2>2. SpsBuffer = SubSeq(ByteStream(s), 6, Len(ByteStream(s)))
    BY <1>4, <1>10, <2>1 DEF SpsBuffer
  <2>3. s.units[1] = unit  BY <1>7, <1>9, <1>10 DEF CarriesSps
  <2>4. ByteStream(s) \in Seq(Octet) /\ Grows(StartCode \o unit, ByteStream(s))
    BY <1>4, <2>3, FirstOfAll
  <2> QED  BY <1>1, <1>7, <1>9, <2>2, <2>4, BehindHeader
<1>11. CASE s.how = "single"
  <2>1. Nal(payload) # 24  BY <1>8, <1>11 DEF Unpacks
  <2>2. rtp_packet.nal = 7  BY <1>4, <2>1 DEF NalInv
  <2>3. \A p : p = Datagrams(s)[1] =>
          /\ Len(Datagrams(s)) = 1 /\ OutBuffer(p) = StartCode \o p
          /\ ByteStream(s) = StartCode \o p /\ p = s.units[1] /\ p # << >>
          /\ p \in Seq(Int)
    BY ZenonT(30), <1>4, <1>11, SingleUnpacked
  <2>4. Len(Datagrams(s)) = 1  BY <2>3
  <2>5. r = 1  BY <1>4, <2>4
  <2>6. /\ rtp_packet.out = StartCode \o payload /\ ByteStream(s) = StartCode \o payload
        /\ payload = s.units[1] /\ payload # << >> /\ payload \in Seq(Int)
    BY <1>4, <2>3, <2>5
  <2>7. payload[1] % 32 = 7
    <3>1. 0 < Len(payload)  BY <2>6
    <3> QED  BY <3>1, <1>4, <2>2 DEF Nal, Byte
  <2>8. payload = unit  BY <1>7, <1>9, <1>11, <2>6, <2>7 DEF CarriesSps
  <2>9. SpsBuffer = SubSeq(ByteStream(s), 6, Len(ByteStream(s)))
    BY <2>2, <2>6 DEF SpsBuffer
  <2>10. ByteStream(s) \in Seq(Octet) /\ Grows(StartCode \o unit, ByteStream(s))
    BY <1>4, <2>6, <2>8, FirstOfAll
  <2> QED  BY <1>1, <1>7, <1>9, <2>9, <2>10, BehindHeader
<1> QED  BY <1>4, <1>7, <1>10, <1>11

\* What the caller of src/temp.c has decoded, without the header.
LEMMA TextHandedOver ==
  ASSUME NEW s \in Streams, s.what = "text"
  PROVE  ToParse(Tail(Decoded(Encoded(SpsUnit(s.desc)))), s)
<1>1. PICK E, unit : E = Escaped(Payload(SetBits(s))) /\ unit = SpsUnit(s.desc)  OBVIOUS
<1>2. /\ unit = <<103>> \o E /\ E \in Seq(Octet) /\ unit \in Seq(Octet) /\ unit # << >>
      /\ Len(unit) = 1 + Len(E)
  BY <1>1, UnitBytes
<1>3. PICK z \in 0..4 : Decoded(Encoded(unit)) = unit \o Zeros(z)  BY <1>2, TextRestored
<1>4. Zeros(z) \in Seq(Nat) /\ E \in Seq(Nat)  BY <1>2, OctetsAreNumbers DEF Zeros
<1>5. Tail(unit \o Zeros(z)) = E \o Zeros(z)
  <2>1. PICK Z : Z = Zeros(z)  OBVIOUS
  <2>2. Z \in Seq(Nat)  BY <2>1, <1>4
  <2>3. (<<103>> \o E) \o Z = <<103>> \o (E \o Z)  BY <2>2, <1>4, ConcatAssociative
  <2>4. \A x \in Seq(Nat) : Tail(<<103>> \o x) = x  OBVIOUS
  <2>5. E \o Z \in Seq(Nat)  BY <2>2, <1>4
  <2>6. Tail(<<103>> \o (E \o Z)) = E \o Z  BY <2>4, <2>5
  <2> QED  BY <2>1, <2>3, <2>6, <1>2
<1> QED  BY <1>1, <1>3, <1>4, <1>5 DEF ToParse, IsEscaped

-----------------------------------------------------------------------------
(* What the parser works on.                                                *)

\* The payload is restored, unless it has 00 00 00 03.
Kept(buf, s) == NoThree(Payload(SetBits(s))) => IsPrefix(Payload(SetBits(s)), buf)

ParseInv ==
  /\ stage \in {"idle", "raw", "parse", "done", "failed", "lost"}
  /\ InBuffer(ctx, ctx.buf)
  /\ stage # "idle" => set = IF stream.what = "pps" THEN "pps" ELSE "sps"
  /\ stage = "raw" => ToParse(ctx.buf, stream)
  /\ stage \in {"parse", "done", "lost"} => Kept(ctx.buf, stream)

\* A call with such data.
LEMMA CallKeeps ==
  ASSUME ParseInv, NEW which, NEW buf, Call(which, buf), ToParse(buf, stream),
         which = IF stream.what = "pps" THEN "pps" ELSE "sps", stream' = stream
  PROVE  ParseInv'
<1>1. stage' = "raw" /\ set' = which /\ ctx' = Context(buf, 0)  BY DEF Call
<1>2. ctx'.buf = buf  BY <1>1 DEF Context
<1>3. InBuffer(ctx', ctx'.buf)  BY <1>1, <1>2, Zenon DEF InBuffer
<1> QED  BY <1>1, <1>2, <1>3 DEF ParseInv

\* The steps of the parser.
LEMMA ParserKeeps ==
  ASSUME stream \in Streams, ParseInv, ParserStep, stream' = stream
  PROVE  ParseInv'
<1>1. /\ stage # "idle" /\ stage' # "idle" /\ set' = set
      /\ stage' \in {"parse", "done", "failed", "lost"}
  BY DEF ParserStep, DeEmulate, NoMemory, ReadField, ReadScale, LeaveData, Finish, ParseInv
<1>2. PICK buf : buf = ctx.buf  OBVIOUS
<1>3. InBuffer(ctx, buf)  BY <1>2 DEF ParseInv
<1>4. CASE DeEmulate
  <2>1. stage = "raw" /\ stage' = "parse" /\ ctx' = Context(DeEmulated(buf), 0)
    BY <1>2, <1>4 DEF DeEmulate
  <2>2. ctx'.buf = DeEmulated(buf)  BY <2>1 DEF Context
  <2>3. InBuffer(ctx', ctx'.buf)  BY <2>1, <2>2, Zenon DEF InBuffer
  <2>4. PICK P : P = Payload(SetBits(stream))  OBVIOUS
  <2>5. PICK R \in Seq(Nat) : IsEscaped(buf, P, R)
    BY <1>2, <2>1, <2>4 DEF ParseInv, ToParse
  <2>6. P \in Seq(Nat)  BY <2>4, SetBytes
  <2>7. NoThree(P) => IsPrefix(P, DeEmulated(buf))  BY <2>5, <2>6, Restores
  <2>8. Kept(ctx'.buf, stream')  BY <2>2, <2>4, <2>7 DEF Kept
  <2> QED  BY <1>1, <2>1, <2>3, <2>8 DEF ParseInv
<1>5. ASSUME stage = "parse", InBuffer(ctx', buf) PROVE ParseInv'
  <2>1. ctx'.buf = buf  BY <1>5 DEF InBuffer, Context
  <2>2. Kept(ctx'.buf, stream')  BY <1>2, <1>5, <2>1 DEF ParseInv
  <2> QED  BY <1>1, <1>5, <2>1, <2>2 DEF ParseInv
<1>6. CASE ReadField
  <2>1. ctx' = Read(Fields[field], ctx).ctx  BY <1>6, Zenon DEF ReadField
  <2>2. InBuffer(ctx', buf)  BY <1>3, <2>1, ReadsStay
  <2>3. stage = "parse"  BY <1>6 DEF ReadField
  <2> QED  BY <1>5, <2>2, <2>3
<1>7. CASE ReadScale
  <2>1. ctx' = ctx \/ ctx' = ParseSe(ctx).ctx  BY <1>7, Zenon DEF ReadScale
  <2>2. InBuffer(ctx', buf)  BY <1>3, <2>1, ReadsStay
  <2>3. stage = "parse"  BY <1>7 DEF ReadScale
  <2> QED  BY <1>5, <2>2, <2>3
<1>8. CASE LeaveData \/ Finish
  <2>1. stage = "parse" /\ ctx' = ctx  BY <1>8 DEF LeaveData, Finish
  <2> QED  BY <1>3, <1>5, <2>1
<1>9. CASE NoMemory
  <2>1. stage' = "failed" /\ ctx' = ctx  BY <1>9 DEF NoMemory
  <2> QED  BY <1>1, <1>2, <1>3, <2>1 DEF ParseInv
<1> QED  BY <1>4, <1>6, <1>7, <1>8, <1>9 DEF ParserStep

\* What the parser works on, if what is sent fits.
IngestInv == UnpackHolds /\ NalInv /\ (AllFit => ParseInv)

\* Initially nothing was parsed.
LEMMA IngestStart == Init => IngestInv
<1> SUFFICES ASSUME Init PROVE IngestInv  OBVIOUS
<1>1. UnpackHolds  BY UnpackStart DEF Init, UnpackHolds
<1>2. NalInv  BY DEF Init, UnpackInit, NalInv
<1>3. ParseInv
  <2>1. stage = "idle" /\ ctx = Context(<< >>, 0)  BY DEF Init, ParserInit
  <2>2. ctx.buf = << >>  BY <2>1 DEF Context
  <2>3. InBuffer(ctx, ctx.buf)  BY <2>1, <2>2, Zenon DEF InBuffer
  <2> QED  BY <2>1, <2>3 DEF ParseInv
<1> QED  BY <1>1, <1>2, <1>3 DEF IngestInv

\* Each step of main() or of the parser keeps it.
LEMMA IngestKeeps == IngestInv /\ [Next]_vars => IngestInv'
<1> SUFFICES ASSUME IngestInv, [Next]_vars PROVE IngestInv'  OBVIOUS
<1>1. [UnpackStep \/ Parsed]_unpackVars
  <2>1. UNCHANGED vars => UNCHANGED unpackVars  BY DEF vars
  <2>2. Next => UnpackStep \/ Parsed \/ UNCHANGED unpackVars
    BY DEF Next, ParseSps, SpsParsed, ParsePps, ParseText, CallerGoesOn
  <2> QED  BY <2>1, <2>2
<1>2. UnpackHolds' /\ NalInv'
  BY <1>1, UnpackNext, NalKeeps DEF IngestInv, UnpackHolds
<1>3. stream' = stream
  BY <1>1 DEF UnpackStep, Parsed, unpackVars, Unpack, FuStart, FuMid, FuEnd, StapStart,
              StapUnit, StapEnd, Store
<1>4. stream \in Streams /\ (AllFit' <=> AllFit)
  BY <1>3 DEF IngestInv, UnpackHolds, WellSent, AllFit
<1>5. ASSUME AllFit PROVE ParseInv'
  <2>0. ParseInv  BY <1>5 DEF IngestInv
  <2>1. CASE UNCHANGED parserVars
    <3>1. stage' = stage /\ set' = set /\ ctx' = ctx  BY <2>1 DEF parserVars
    <3> QED  BY <1>3, <2>0, <3>1 DEF ParseInv
  <2>2. CASE ParserStep  BY <1>3, <1>4, <2>0, <2>2, ParserKeeps
  <2>3. CASE ParseSps
    <3>1. upc = "parse" /\ Call("sps", SpsBuffer)  BY <2>3 DEF ParseSps
    <3>2. stream.what = "sps" /\ ToParse(SpsBuffer, stream)
      BY <1>5, <3>1, SpsHandedOver DEF IngestInv
    <3> QED  BY <1>3, <2>0, <3>1, <3>2, CallKeeps
  <2>4. CASE ParsePps
    <3>1. PICK P : P = Payload(SetBits(stream))  OBVIOUS
    <3>2. stream.what = "pps" /\ Call("pps", Escaped(P))
      BY <2>4, <3>1 DEF ParsePps, SetBits
    <3>3. ToParse(Escaped(P), stream)
      <4>1. Escaped(P) \in Seq(Nat)  BY <1>4, <3>1, SetBytes, OctetsAreNumbers
      <4>2. Escaped(P) = Escaped(P) \o << >> /\ << >> \in Seq(Nat)  BY <4>1
      <4> QED  BY <3>1, <4>2 DEF ToParse, IsEscaped
    <3> QED  BY <1>3, <2>0, <3>2, <3>3, CallKeeps
  <2>5. CASE ParseText
    <3>1. /\ stream.what = "text"
          /\ Call("sps", Tail(Decoded(Encoded(SpsUnit(stream.desc)))))
      BY <2>5 DEF ParseText
    <3>2. ToParse(Tail(Decoded(Encoded(SpsUnit(stream.desc)))), stream)
      BY <1>4, <3>1, TextHandedOver
    <3> QED  BY <1>3, <2>0, <3>1, <3>2, CallKeeps
  <2>6. CASE Return
    <3>1. stage' = "idle" /\ ctx' = ctx  BY <2>6 DEF Return
    <3> QED  BY <2>0, <3>1 DEF ParseInv
  <2> QED
    BY <2>1, <2>2, <2>3, <2>4, <2>5, <2>6 DEF Next, vars, SpsParsed, CallerGoesOn
<1> QED  BY <1>2, <1>4, <1>5 DEF IngestInv

\* The invariant holds, for all streams the assumptions allow.
THEOREM IngestInvHolds == Spec => []IngestInv
BY IngestStart, IngestKeeps, PTL DEF Spec

\* de_emulation_prevention gives back the payload that was sent, however it was
\* sent and whatever its length, if it has no 00 00 00 03.
THEOREM PayloadRestoredHolds == Spec => [](AllFit => PayloadRestored)
<1>1. IngestInv => (AllFit => PayloadRestored)
  <2> SUFFICES ASSUME IngestInv, AllFit, Ended, ~ThreeAfterZeros(Payload(Sent))
               PROVE  Restored
    BY DEF PayloadRestored
  <2>1. ParseInv /\ stream \in Streams  BY DEF IngestInv, UnpackHolds, WellSent
  <2>2. /\ set = IF stream.what = "pps" THEN "pps" ELSE "sps"
        /\ Kept(ctx.buf, stream)
    BY <2>1 DEF ParseInv, Ended
  <2>3. Sent = SetBits(stream)  BY <2>2 DEF Sent, Elements, SetBits, SpsBits, PpsBits
  <2>4. PICK P : P = Payload(SetBits(stream))  OBVIOUS
  <2>5. P \in Seq(Nat)  BY <2>1, <2>4, SetBytes
  <2>6. NoThree(P)  BY <2>3, <2>4, <2>5, ThreeOrNone DEF ThreeAfterZeros
  <2> QED  BY <2>2, <2>3, <2>4, <2>6 DEF Kept, Restored
<1> QED  BY <1>1, IngestInvHolds, PTL

-----------------------------------------------------------------------------
(* The parser is in its table and in the data, and main() waits for it.      *)

\* What the data that are handed over consist of.
LEMMA ToParseBytes ==
  ASSUME NEW s \in Streams, NEW data, ToParse(data, s)
  PROVE  data \in Seq(Nat)
<1>1. PICK R \in Seq(Nat) : IsEscaped(data, Payload(SetBits(s)), R)  BY DEF ToParse
<1>2. PICK E : E = Escaped(Payload(SetBits(s)))  OBVIOUS
<1>3. E \in Seq(Nat)  BY <1>2, SetBytes, OctetsAreNumbers
<1>4. data = E \o R  BY <1>1, <1>2 DEF IsEscaped
<1> QED  BY <1>3, <1>4

\* Where the walk over an aggregate is.
LEMMA WalkInPayload ==
  ASSUME UnpackHolds, AllFit
  PROVE  /\ upc \in {"recv", "fu", "stap", "walk", "parse", "store"}
         /\ upc = "walk" => nidx \in 0..Len(payload)
<1>1. WellSent /\ UnpackInv  BY DEF UnpackHolds
<1>2. upc # "recv" => \E s, k, r : Working(s, k, r)  BY <1>1, AtIt
<1>3. upc \in {"recv", "fu", "stap", "walk", "parse", "store"}
  BY <1>2, Zenon DEF Working, AtWork
<1>4. ASSUME upc = "walk" PROVE nidx \in 0..Len(payload)
  <2>1. PICK s, k, r : Working(s, k, r)  BY <1>2, <1>4
  <2>2. /\ s.how = "stap" /\ payload = Datagrams(s)[1]
        /\ Sendable(s) /\ Walking(av_packet, nidx, s)
        /\ Len(payload) = 1 + Len(Walked(s, Len(s.units)))
        /\ Len(Walked(s, Len(s.units))) \in Nat
    BY <1>4, <2>1, OnWalk
  <2>3. PICK i \in 0..Len(s.units) :
          \/ nidx = Len(Walked(s, i))
          \/ i = Len(s.units) /\ nidx = Len(Walked(s, i)) + 1
    BY <2>2 DEF Walking
  <2>4. Len(s.units) \in Nat \ {0}  BY <2>2, UnitTypes
  <2>5. PICK w, lp : w = Len(Walked(s, Len(s.units))) /\ lp = Len(payload)  OBVIOUS
  <2>6. w \in Nat /\ lp = 1 + w  BY <2>2, <2>5
  <2>7. CASE i = Len(s.units)
    <3>1. nidx = w \/ nidx = w + 1  BY <2>3, <2>5, <2>7
    <3> QED  BY <2>5, <2>6, <3>1
  <2>8. CASE i # Len(s.units)
    <3>1. PICK j : j = i + 1  OBVIOUS
    <3>2. j \in 1..Len(s.units) /\ j - 1 = i  BY <2>4, <2>8, <3>1
    <3>3. nidx = Len(Walked(s, j - 1))  BY <2>3, <2>8, <3>2
    <3>4. FindsNext(s, j, nidx, payload, Len(s.units[j]))
      BY <2>2, <3>2, <3>3, StapRound
    <3>5. nidx < lp - 1 /\ nidx \in Nat  BY <3>4, <2>5, Zenon DEF FindsNext
    <3> QED  BY <2>5, <2>6, <3>5
  <2> QED  BY <2>7, <2>8
<1> QED  BY <1>3, <1>4

\* main() waits where the parser runs.
Waits == stream.what = "sps" /\ stage # "idle" => upc = "parse"

\* All three.
TypeInv == IngestInv /\ (AllFit => ReaderInv /\ Waits)

\* At first.
LEMMA TypeStart == Init => TypeInv
<1> SUFFICES ASSUME Init PROVE ReaderInv /\ Waits
  BY IngestStart DEF TypeInv
<1>1. /\ stage = "idle" /\ set = "sps" /\ ctx = Context(<< >>, 0)
      /\ sps = [name \in Names |-> 0] /\ field = 1 /\ round = 0 /\ list = NoList
  BY DEF Init, ParserInit
<1>2. Sane(sps)  BY <1>1, ZerosSane
<1>3. ctx.buf = << >> /\ << >> \in Seq(Nat)  BY <1>1 DEF Context
<1>4. 0 \in 0..8 * Len(<< >>)  OBVIOUS
<1>5. Within(ctx, ctx.buf) /\ ctx.buf \in Seq(Nat)
  BY <1>1, <1>3, <1>4, Zenon DEF Within
<1>6. Len(Fields) = 84 /\ Fields[1].when = "sps"
  <2>1. Fields = SpsTable /\ Len(Fields) = 84  BY <1>1, FieldsTable
  <2>2. Fields[1] = SpsFields[1]  BY <2>1, SpsTableIs
  <2> QED  BY <2>1, <2>2 DEF SpsFields, GetN, Row
<1>7. Times(sps, "sps") = 1  BY TimesIs
<1>8. field \in 1..Len(Fields) + 1 /\ round \in Nat
      /\ (field <= Len(Fields) => round < Times(sps, Fields[field].when))
  BY <1>1, <1>6, <1>7
<1>9. set \in {"sps", "pps"}  BY <1>1
<1> QED  BY <1>1, <1>2, <1>5, <1>8, <1>9, Zenon DEF ReaderInv, Waits

\* And after every step, of main() or of the parser.
LEMMA TypeKeeps == TypeInv /\ [Next]_vars => TypeInv'
<1> SUFFICES ASSUME TypeInv, [Next]_vars PROVE TypeInv'  OBVIOUS
<1>1. IngestInv /\ IngestInv'  BY IngestKeeps DEF TypeInv
<1>2. stream' = stream
  <2>1. UNCHANGED vars => UNCHANGED unpackVars  BY DEF vars
  <2>2. Next => UnpackStep \/ Parsed \/ UNCHANGED unpackVars
    BY DEF Next, ParseSps, SpsParsed, ParsePps, ParseText, CallerGoesOn
  <2>3. UnpackStep \/ Parsed => stream' = stream
    BY DEF UnpackStep, Parsed, Unpack, FuStart, FuMid, FuEnd, StapStart,
           StapUnit, StapEnd, Store
  <2>4. UNCHANGED unpackVars => stream' = stream  BY DEF unpackVars
  <2> QED  BY <2>1, <2>2, <2>3, <2>4
<1>3. stream \in Streams /\ (AllFit' <=> AllFit)
  BY <1>1, <1>2 DEF IngestInv, UnpackHolds, WellSent, AllFit
<1>4. ASSUME AllFit PROVE ReaderInv' /\ Waits'
  <2>0. ReaderInv /\ Waits /\ UnpackHolds /\ NalInv /\ ParseInv
    BY <1>4, <1>1 DEF TypeInv, IngestInv
  <2>a. ASSUME UNCHANGED <<set, ctx, sps, field, round, list>> PROVE ReaderInv'
    <3>1. Fields' = Fields  BY <2>a, Zenon DEF Fields
    <3> QED  BY <2>0, <2>a, <3>1, Zenon DEF ReaderInv
  <2>1. CASE UNCHANGED vars
    <3>1. UNCHANGED <<stage, set, ctx, sps, field, round, list>> /\ upc' = upc
      BY <2>1 DEF vars, parserVars, unpackVars
    <3> QED  BY <1>2, <2>0, <2>a, <3>1 DEF Waits
  <2>2. CASE UnpackStep /\ UNCHANGED parserVars
    <3>1. UNCHANGED <<stage, set, ctx, sps, field, round, list>>
      BY <2>2 DEF parserVars
    <3>2. upc # "parse"
      BY <2>2 DEF UnpackStep, Unpack, FuStart, FuMid, FuEnd, StapStart,
                  StapUnit, StapEnd, Store
    <3> QED  BY <1>2, <2>0, <2>a, <3>1, <3>2 DEF Waits
  <2>3. CASE ParserStep /\ UNCHANGED unpackVars
    <3>1. stage # "idle"
      BY <2>3 DEF ParserStep, DeEmulate, NoMemory, ReadField, ReadScale, LeaveData, Finish
    <3>2. upc' = upc  BY <2>3 DEF unpackVars
    <3> QED  BY <1>2, <2>0, <2>3, <3>1, <3>2, ParserReads DEF Waits
  <2>4. CASE ParseSps
    <3>1. upc = "parse" /\ Call("sps", SpsBuffer) /\ upc' = upc
      BY <2>4 DEF ParseSps, unpackVars
    <3>2. ToParse(SpsBuffer, stream)
      BY <1>4, <2>0, <3>1, SpsHandedOver
    <3>3. SpsBuffer \in Seq(Nat)  BY <1>3, <3>2, ToParseBytes
    <3> QED  BY <3>1, <3>3, CallReads DEF Waits
  <2>5. CASE ParsePps
    <3>1. PICK P : P = Payload(SetBits(stream))  OBVIOUS
    <3>2. stream.what = "pps" /\ Call("pps", Escaped(P))
      BY <2>5, <3>1 DEF ParsePps, SetBits
    <3>3. Escaped(P) \in Seq(Nat)  BY <1>3, <3>1, SetBytes, OctetsAreNumbers
    <3> QED  BY <1>2, <3>2, <3>3, CallReads DEF Waits
  <2>6. CASE ParseText
    <3>1. /\ stream.what = "text"
          /\ Call("sps", Tail(Decoded(Encoded(SpsUnit(stream.desc)))))
      BY <2>6 DEF ParseText
    <3>2. Tail(Decoded(Encoded(SpsUnit(stream.desc)))) \in Seq(Nat)
      BY <1>3, <3>1, TextHandedOver, ToParseBytes
    <3> QED  BY <1>2, <3>1, <3>2, CallReads DEF Waits
  <2>7. CASE Return
    <3>1. UNCHANGED <<set, ctx, sps, field, round, list>> /\ stage' = "idle"
      BY <2>7 DEF Return
    <3> QED  BY <2>a, <3>1 DEF Waits
  <2> QED
    BY <2>1, <2>2, <2>3, <2>4, <2>5, <2>6, <2>7 DEF Next, SpsParsed, CallerGoesOn
<1> QED  BY <1>1, <1>3, <1>4 DEF TypeInv

\* The strengthening of TypeOK that every step preserves.
THEOREM TypeInvHolds == Spec => []TypeInv
BY TypeStart, TypeKeeps, PTL DEF Spec

\* The parser stays in its table, in the data and in the loops of a field, and
\* the walk over an aggregate at most one byte behind it, whatever is sent.
THEOREM TypeOKHolds == Spec => [](AllFit => TypeOK)
<1>1. TypeInv => (AllFit => TypeOK)
  <2> SUFFICES ASSUME TypeInv, AllFit PROVE TypeOK  OBVIOUS
  <2>1. ReaderInv /\ Waits /\ UnpackHolds /\ ParseInv  BY DEF TypeInv, IngestInv
  <2>2. /\ upc \in {"recv", "fu", "stap", "walk", "parse", "store"}
        /\ upc = "walk" => nidx \in 0..Len(payload)
    BY <2>1, WalkInPayload
  <2>3. /\ list.i \in -1..11 /\ list.j \in 0..63 /\ list.last \in 1..255
        /\ list.next \in 0..255
    <3>1. list = NoList \/ ListIn(list)  BY <2>1, Zenon DEF ReaderInv
    <3>2. CASE list = NoList
      <4>1. list.i = -1 /\ list.j = 0 /\ list.last = 8 /\ list.next = 8
        BY <3>2 DEF NoList
      <4> QED  BY <4>1
    <3>3. CASE ListIn(list)
      <4>1. PICK i, j : i = list.i /\ j = list.j  OBVIOUS
      <4>2. i \in 0..11 /\ j \in Nat /\ j < (IF i < 6 THEN 16 ELSE 64)
        BY <3>3, <4>1, Zenon DEF ListIn
      <4>3. i \in -1..11 /\ j \in 0..63  BY <4>2
      <4> QED  BY <3>3, <4>1, <4>3, Zenon DEF ListIn
    <3> QED  BY <3>1, <3>2, <3>3
  <2>4. ctx.bit_pos \in 0..Total(ctx)
    <3>1. PICK p \in 0..8 * Len(ctx.buf) : ctx = Context(ctx.buf, p)
      BY <2>1 DEF ReaderInv, Within
    <3>2. ctx.bit_pos = p /\ Total(ctx) = 8 * Len(ctx.buf)
      <4>1. Context(ctx.buf, p).bit_pos = p  BY DEF Context
      <4> QED  BY <3>1, <4>1, Zenon DEF Total
    <3> QED  BY <3>2
  <2>5. ParserTypeOK
    <3>1. /\ set \in {"sps", "pps"} /\ Sane(sps)
          /\ field \in 1..Len(Fields) + 1 /\ round \in Nat
          /\ field <= Len(Fields) => round < Times(sps, Fields[field].when)
      BY <2>1, Zenon DEF ReaderInv
    <3>2. sps \in [Names -> Int]  BY <3>1, Zenon DEF Sane, Numbers
    <3>3. stage \in {"idle", "raw", "parse", "done", "failed", "lost"}
      BY <2>1, Zenon DEF ParseInv
    <3> QED  BY <3>1, <3>2, <3>3, <2>3, <2>4, Zenon DEF ParserTypeOK
  <2> QED  BY <2>1, <2>2, <2>5, Zenon DEF TypeOK, Waits
<1> QED  BY <1>1, TypeInvHolds, PTL

-----------------------------------------------------------------------------
(* The parameter sets this parser can read.                                 *)

\* The elements of what is parsed of a stream.
SetElements(s) == IF s.what = "pps" THEN PpsElements(s.desc) ELSE AllSpsElements(s.desc)

\* The table of the parser for it.
SetTable(s) == IF s.what = "pps" THEN PpsFields ELSE SpsTable

\* A stream whose parameter set can be read.
ReadableSet(s) ==
  /\ NoThree(Payload(SetBits(s))) /\ AllSmall(SetElements(s))
  /\ HaveRoom(SetTable(s), SetElements(s), Len(SetTable(s)))
  /\ s.what = "pps" => /\ PpsAsRead(s.desc)
                       /\ s.desc.ext = << >> => Len(SetBits(s)) % 8 = 7
                       /\ s.desc.ext # << >> => SentToEnd(s.desc.ext[1].lists)
  /\ s.what # "pps" => SentToEnd(s.desc.lists)

\* What is sent is one that the parser reads.
LEMMA RegularIsReadable ==
  ASSUME stream \in Streams, set = IF stream.what = "pps" THEN "pps" ELSE "sps",
         Regular(stream.desc)
  PROVE  ReadableSet(stream)
<1>1. PICK d, P : d = stream.desc /\ P = Payload(SetBits(stream))  OBVIOUS
<1>2. stream.what = "pps" <=> set = "pps"  BY SMT
<1>3. Elements(d) = SetElements(stream)
  <2>1. CASE stream.what = "pps"
    <3>1. set # "sps"  BY <2>1
    <3> QED  BY <1>1, <2>1, <3>1, Zenon DEF Elements, SetElements
  <2>2. CASE stream.what # "pps"
    <3>1. set = "sps"  BY <2>2
    <3> QED  BY <1>1, <2>2, <3>1, Zenon DEF Elements, SetElements
  <2> QED  BY <2>1, <2>2
<1>4. Sent = SetBits(stream)
  <2>1. Sent = Bits(SetElements(stream))  BY <1>1, <1>3, Zenon DEF Sent
  <2> QED  BY <2>1, Zenon DEF SetElements, SetBits, SpsBits, PpsBits
<1>5. /\ ~ ListEndsEarly(d) /\ ~ ThreeAfterZeros(P) /\ FitsArrays(d)
      /\ \A k \in 1..Len(Elements(d)) : Small(Elements(d)[k])
      /\ set = "pps" => RegularPps(d)
  BY <1>1, <1>4, Zenon DEF Regular
<1>6. NoThree(P)
  <2>1. P \in Seq(Nat)  BY <1>1, SetBytes
  <2> QED  BY <1>5, <2>1, ThreeOrNone DEF ThreeAfterZeros
<1>7. AllSmall(SetElements(stream))  BY <1>3, <1>5, Zenon DEF AllSmall
<1>8. SentToEnd(Lists(d))  BY <1>5, Zenon DEF SentToEnd, ListEndsEarly
<1>9. ASSUME stream.what = "pps"
      PROVE  /\ PpsAsRead(d)
             /\ d.ext = << >> => Len(SetBits(stream)) % 8 = 7
             /\ d.ext # << >> => SentToEnd(d.ext[1].lists)
  <2>1. set = "pps" /\ set # "sps"  BY <1>9
  <2>2. RegularPps(d)  BY <1>5, <2>1
  <2>3. d.map # << >> => d.type \notin {2, 6}  BY <2>2, Zenon DEF RegularPps
  <2>4. d.ext = << >> => Len(PpsBits(d)) % 8 = 7  BY <2>2, Zenon DEF RegularPps
  <2>5. d.ext # << >> => Lists(d) # << >> /\ Lists(d) = d.ext[1].lists
    BY <2>1, <2>2, Zenon DEF RegularPps, Lists
  <2>6. SetBits(stream) = PpsBits(d)  BY <1>1, <1>9, Zenon DEF SetBits
  <2>7. PpsAsRead(d)  BY <2>3, <2>5, Zenon DEF PpsAsRead
  <2>8. d.ext # << >> => SentToEnd(d.ext[1].lists)  BY <1>8, <2>5, Zenon
  <2> QED  BY <2>4, <2>6, <2>7, <2>8, Zenon
<1>10. ASSUME stream.what # "pps" PROVE SentToEnd(d.lists)
  <2>1. set = "sps"  BY <1>10
  <2>2. Lists(d) = d.lists  BY <2>1, Zenon DEF Lists
  <2> QED  BY <1>8, <2>2, Zenon
<1>11. HaveRoom(SetTable(stream), SetElements(stream), Len(SetTable(stream)))
  <2>1. PICK E, F : E = Elements(d) /\ F = Fields  OBVIOUS
  <2>2. SetElements(stream) = E  BY <1>3, <2>1, Zenon
  <2>3. SetTable(stream) = F
    <3>1. stream.what = "pps" => F = PpsFields
      <4>1. set = "pps" => set # "sps"  OBVIOUS
      <4> QED  BY <1>2, <2>1, <4>1, Zenon DEF Fields
    <3>2. stream.what # "pps" => F = SpsTable
      <4>1. stream.what # "pps" => set = "sps"  OBVIOUS
      <4> QED  BY <2>1, <4>1, Zenon DEF Fields, SpsTable
    <3> QED  BY <3>1, <3>2, Zenon DEF SetTable
  <2>4. HaveRoom(F, E, Len(F))
    BY <1>5, <2>1, Zenon DEF FitsArrays, HaveRoom, Count
  <2> QED  BY <2>2, <2>3, <2>4, Zenon
<1> QED  BY <1>1, <1>6, <1>7, <1>9, <1>10, <1>11, Zenon DEF ReadableSet

\* A picture parameter set has at least eight bits.
LEMMA TakesBit ==
  ASSUME NEW F, F = PpsFields, NEW d, NEW E, PpsMatch(F, E, d), NEW k \in 13..22
  PROVE  Pos(E, k + 1, 0) \in Nat /\ Pos(E, k, 0) \in Nat
         /\ Pos(E, k + 1, 0) >= Pos(E, k, 0) + 1
<1>1. /\ AllCoded(E) /\ Len(E) = 27 /\ \A m \in 1..27 : Paired(F[m], E[m])
      /\ PpsCounts(E, d)
  BY Zenon DEF PpsMatch
<1>2. 27 \in Nat /\ k \in 1..27 /\ k + 1 \in 1..27 /\ 0 \in Nat /\ 0 < 1 /\ 0 + 1 = 1
  OBVIOUS
<1>3. RowEnds(E, 27)  BY <1>1, <1>2, RowsEnd, Zenon
<1>4. Count(E, k) = 1
  <2>1. k \in {1, 2, 3, 4, 5, 13, 14, 15, 16, 17, 18, 19, 20, 21, 22, 23}  OBVIOUS
  <2> QED  BY <1>1, <2>1, Zenon DEF PpsCounts
<1>5. /\ Pos(E, k + 1, 0) = Pos(E, k, 1)
      /\ Pos(E, k + 1, 0) \in Nat /\ Pos(E, k, 0) \in Nat
  BY <1>2, <1>3, <1>4, Zenon DEF RowEnds, Count
<1>6. CodePlace(E, Bits(E), k, 0)  BY <1>1, <1>2, <1>4, PlaceOf, Zenon
<1>7. PICK e, v, c : e = E[k] /\ v = e.values[1] /\ c = Code(e, 1)  OBVIOUS
<1>8. Pos(E, k, 0 + 1) = Pos(E, k, 0) + Len(c)
  <2>1. Pos(E, k, 0 + 1) = Pos(E, k, 0) + Len(Code(E[k], 0 + 1))
    BY <1>6, Zenon DEF CodePlace
  <2> QED  BY <1>2, <1>7, <2>1, Zenon
<1>9. HasCode(e) /\ 1 \in 1..Len(e.values)
  <2>1. HasCode(e)  BY <1>1, <1>2, <1>7, Zenon DEF AllCoded
  <2>2. 1 \in 1..Len(e.values)  BY <1>4, <1>7 DEF Count
  <2> QED  BY <2>1, <2>2
<1>10. (e.as = "u" /\ e.n \in {1, 2}) \/ e.as = "ue" \/ e.as = "se"
  <2>1. (F[k].kind = "flag") \/ (F[k].kind = "u" /\ F[k].n = 2) \/ F[k].kind = "ue" \/ F[k].kind = "se"
    BY DEF PpsFields, Row, Get1, GetN, GetUe, GetSe
  <2>2. Paired(F[k], e)  BY <1>1, <1>2, <1>7, Zenon
  <2> QED  BY <2>1, <2>2 DEF Paired
<1>11. Len(c) \in Nat \ {0}
  <2>1. CASE e.as = "u" /\ e.n \in {1, 2}
    <3>1. PICK n : n = e.n  OBVIOUS
    <3>2. n \in Nat /\ n # 0  BY <2>1, <3>1
    <3>3. v \in Nat /\ c = U(n, v)
      BY <1>7, <1>9, <2>1, <3>1, Values, CodeOf, Zenon
    <3>4. UShape(U(n, v), n, v)  BY <3>2, <3>3, UCode, Zenon
    <3>5. Len(c) = n  BY <3>3, <3>4, Zenon DEF UShape
    <3> QED  BY <3>2, <3>5
  <2>2. CASE e.as = "ue"
    <3>1. e.as \in {"ue", "hrd"}  BY <2>2
    <3>2. v \in Nat /\ Below30(v) /\ c = Ue(v)
      BY <1>7, <1>9, <2>2, <3>1, Values, CodeOf, Zenon
    <3>3. PICK z : UeShape(Ue(v), v, z)  BY <3>2, UeCode, Zenon
    <3>4. Len(c) = 2 * z + 1 /\ z \in 0..30  BY <3>2, <3>3, Zenon DEF UeShape, HasBits
    <3> QED  BY <3>4
  <2>3. CASE e.as = "se"
    <3>1. v \in Int /\ Below29(v) /\ c = Se(v)
      BY <1>7, <1>9, <2>3, Values, CodeOf, Zenon
    <3> QED  BY <3>1, SeCode, Zenon
  <2> QED  BY <1>10, <2>1, <2>2, <2>3
<1>12. PICK x, y, l : x = Pos(E, k, 0) /\ y = Pos(E, k + 1, 0) /\ l = Len(c)  OBVIOUS
<1>13. y = x + l  BY <1>2, <1>5, <1>8, <1>12, Zenon
<1>14. x \in Nat /\ y \in Nat /\ y >= x + 1  BY <1>5, <1>11, <1>12, <1>13
<1> QED  BY <1>12, <1>14

\* A PPS has at least one byte and its stop bit, from what is always sent of it.
LEMMA PpsLong ==
  ASSUME NEW F, F = PpsFields, NEW d, PpsOK(d), PpsAsRead(d), NEW E, PpsMatch(F, E, d)
  PROVE  Len(Bits(E)) >= 8
<1> DEFINE q(k) == Pos(E, k, 0)
<1>1. \A k \in 13..22 : q(k + 1) \in Nat /\ q(k) \in Nat /\ q(k + 1) >= q(k) + 1
  BY TakesBit
<1> HIDE DEF q
<1>2. /\ q(13) \in Nat
      /\ q(13 + 1) >= q(13) + 1 /\ q(14 + 1) >= q(14) + 1 /\ q(15 + 1) >= q(15) + 1
      /\ q(16 + 1) >= q(16) + 1 /\ q(17 + 1) >= q(17) + 1 /\ q(18 + 1) >= q(18) + 1
      /\ q(19 + 1) >= q(19) + 1 /\ q(20 + 1) >= q(20) + 1 /\ q(21 + 1) >= q(21) + 1
      /\ q(22 + 1) >= q(22) + 1
  BY <1>1
<1>3. /\ q(14) \in Nat /\ q(15) \in Nat /\ q(16) \in Nat /\ q(17) \in Nat /\ q(18) \in Nat
      /\ q(19) \in Nat /\ q(20) \in Nat /\ q(21) \in Nat /\ q(22) \in Nat
  BY <1>1
<1>4. q(23) >= 8  BY <1>1, <1>2, <1>3
<1>5. PICK p, L : p = Pos(E, 23, 0) /\ L = Len(Bits(E))  OBVIOUS
<1>6. /\ p \in Nat /\ L \in Nat
      /\ d.ext = << >> => p = L
      /\ d.ext # << >> => p + 8 <= L
  BY <1>5, BehindMore
<1>7. p >= 8  BY <1>4, <1>5 DEF q
<1> QED  BY <1>5, <1>6, <1>7

\* The data that are restored can be read.
LEMMA SpsHandedCanRead ==
  ASSUME NEW s \in Streams, s.what # "pps", ReadableSet(s), set = "sps",
         NEW b \in Seq(Nat), Kept(b, s)
  PROVE  CanRead(Fields, SetElements(s), Len(Fields), b)
<1>1. PICK d, E, F : d = s.desc /\ E = AllSpsElements(d) /\ F = Fields  OBVIOUS
<1>2. F = SpsTable /\ Len(Fields) = 84  BY <1>1, FieldsTable
<1>3. SetElements(s) = E  BY <1>1, Zenon DEF SetElements
<1>4. SpsOK(d)  BY <1>1, IngestAssumption
<1>5. SetBits(s) = Bits(E)  BY <1>1, Zenon DEF SetBits, SpsBits
<1>6. SpsMatch(F, E, d)  BY <1>1, <1>2, <1>4, SpsMatches
<1>7. Bits(E) \in Seq({0, 1})
  <2>1. 84 \in Nat  OBVIOUS
  <2>2. AllCoded(E) /\ Len(E) = 84  BY <1>6, Zenon DEF SpsMatch
  <2>3. RowEnds(E, 84)
    <3>1. PICK N : N = 84  OBVIOUS
    <3>2. N = Len(E) /\ N \in Nat /\ AllCoded(E)  BY <2>2, <3>1
    <3>3. RowEnds(E, N)  BY <3>2, RowsEnd
    <3> QED  BY <3>1, <3>3, Zenon
  <2> QED  BY <2>3, Zenon DEF RowEnds
<1>8. Holds(b, Bits(E))
  <2>1. IsPrefix(Payload(Bits(E)), b)  BY <1>5, Zenon DEF Kept, ReadableSet
  <2> QED  BY <1>7, <2>1, PayloadHolds, Zenon
<1>9. Readable(F, E, 84, b)
  <2>1. AllSmall(E) /\ SentToEnd(d.lists) /\ HaveRoom(F, E, 84)
    <3>1. AllSmall(E) /\ SentToEnd(d.lists)
      BY <1>1, <1>3, Zenon DEF ReadableSet
    <3>2. SetTable(s) = F /\ Len(F) = 84  BY <1>1, <1>2 DEF SetTable
    <3>3. HaveRoom(SetTable(s), SetElements(s), Len(SetTable(s)))
      BY Zenon DEF ReadableSet
    <3> QED  BY <1>3, <3>1, <3>2, <3>3, ZenonT(30)
  <2>2. F = SpsTable /\ E = AllSpsElements(d)  BY <1>1, <1>2
  <2> QED  BY <1>4, <1>8, <2>1, <2>2, SpsReadable
<1>10. MoreAsSent(F, E, 84, b)
  <2>1. \A k \in 1..84 : F[k].kind # "more"  BY <1>2, SpsKindsAre, Zenon DEF SpsKinds
  <2> QED  BY <2>1, Zenon DEF MoreAsSent
<1>11. 84 >= 1 /\ Count(E, 1) # 0
  <2>1. SpsSends(E, d)  BY <1>6, Zenon DEF SpsMatch
  <2>2. PICK x : x = d.profile  OBVIOUS
  <2>3. Sends(E[1], TRUE, x)  BY <2>1, <2>2, Zenon DEF SpsSends
  <2>4. E[1].values = <<x>>  BY <2>3, Zenon DEF Sends, Given
  <2>5. Count(E, 1) = 1  BY <2>4 DEF Count
  <2> QED  BY <2>5
<1> QED  BY <1>1, <1>2, <1>3, <1>9, <1>10, <1>11, ZenonT(30) DEF CanRead

\* What the caller hands over of a PPS can be read, once the 3s are out of it.
LEMMA PpsHandedCanRead ==
  ASSUME NEW s \in Streams, s.what = "pps", ReadableSet(s), set = "pps",
         NEW b, b = DeEmulated(Escaped(Payload(SetBits(s))))
  PROVE  CanRead(Fields, SetElements(s), Len(Fields), b)
<1>1. PICK d, E, F, B, P : /\ d = s.desc /\ E = PpsElements(d) /\ F = Fields
                           /\ B = Bits(E) /\ P = Payload(B)
  OBVIOUS
<1>2. F = PpsFields /\ Len(Fields) = 27  BY <1>1, FieldsTable
<1>3. SetElements(s) = E  BY <1>1, Zenon DEF SetElements
<1>4. PpsOK(d)  BY <1>1, IngestAssumption
<1>5. SetBits(s) = B  BY <1>1, Zenon DEF SetBits, PpsBits
<1>6. /\ NoThree(P) /\ AllSmall(E) /\ PpsAsRead(d)
      /\ d.ext = << >> => Len(B) % 8 = 7
      /\ d.ext # << >> => SentToEnd(d.ext[1].lists)
      /\ HaveRoom(F, E, 27)
  BY <1>1, <1>2, <1>3, <1>5, Zenon DEF ReadableSet, SetTable
<1>7. CanRead(F, E, 27, P)  BY <1>1, <1>2, <1>4, <1>6, PpsCanRead, Zenon
<1>8. PpsMatch(F, E, d)  BY <1>1, <1>2, <1>4, <1>6, PpsMatches
<1>9. Len(B) >= 8  BY <1>1, <1>2, <1>4, <1>6, <1>8, PpsLong, Zenon
<1>10. P \in Seq(Nat)  BY <1>1, <1>5, SetBytes
<1>11. Len(P) >= 2
  <2>1. B \in Seq({0, 1})
    <3>1. 27 \in Nat /\ AllCoded(E) /\ Len(E) = 27  BY <1>8, Zenon DEF PpsMatch
    <3> QED  BY <1>1, <3>1, RowsEnd, Zenon DEF RowEnds
  <2>2. HasPayload(P, B)  BY <1>1, <2>1, PayloadBits, Zenon
  <2>3. Len(P) = (Len(B) + 8) \div 8  BY <2>2, Zenon DEF HasPayload
  <2>4. PICK L : L = Len(B)  OBVIOUS
  <2>5. L \in Nat /\ L >= 8  BY <1>9, <2>1, <2>4
  <2>6. (L + 8) \div 8 >= 2  BY <2>5
  <2> QED  BY <2>3, <2>4, <2>6
<1>12. b = P  BY <1>1, <1>5, <1>6, <1>10, <1>11, RestoresAll
<1> QED  BY <1>1, <1>2, <1>3, <1>7, <1>12, Zenon

\* The parser of a set that can be read is on its way over it; the caller of that for
\* a PPS hands over exactly its payload with the 3s put in.
ReadsInv ==
  stage # "idle" /\ ReadableSet(stream) =>
    /\ Way(SetElements(stream), ctx.buf)
    /\ stage = "raw" /\ stream.what = "pps" => ctx.buf = Escaped(Payload(SetBits(stream)))

WayInv == TypeInv /\ (AllFit => ReadsInv)

\* The buffer stays when it is read.
LEMMA BufferStays ==
  ASSUME ParseInv, ParserStep, stage = "parse"
  PROVE  ctx'.buf = ctx.buf
<1>1. PICK buf : buf = ctx.buf  OBVIOUS
<1>2. InBuffer(ctx, buf)  BY <1>1, Zenon DEF ParseInv
<1>3. InBuffer(ctx', buf) => ctx'.buf = buf  BY DEF InBuffer, Context
<1>4. CASE ReadField
  <2>1. ctx' = Read(Fields[field], ctx).ctx  BY <1>4, Zenon DEF ReadField
  <2> QED  BY <1>1, <1>2, <1>3, <2>1, ReadsStay
<1>5. CASE ReadScale
  <2>1. ctx' = ctx \/ ctx' = ParseSe(ctx).ctx  BY <1>5, Zenon DEF ReadScale
  <2> QED  BY <1>1, <1>2, <1>3, <2>1, ReadsStay
<1>6. CASE LeaveData \/ Finish
  <2>1. ctx' = ctx  BY <1>6 DEF LeaveData, Finish
  <2> QED  BY <2>1
<1>7. CASE DeEmulate \/ NoMemory
  <2>1. stage = "raw"  BY <1>7, Zenon DEF DeEmulate, NoMemory
  <2> QED  BY <2>1
<1> QED  BY <1>4, <1>5, <1>6, <1>7, Zenon DEF ParserStep

\* A call.
LEMMA CallWay ==
  ASSUME NEW which, NEW buf, Call(which, buf), stream' = stream,
         stream.what = "pps" => buf = Escaped(Payload(SetBits(stream)))
  PROVE  ReadsInv'
<1>1. /\ stage' = "raw" /\ ctx' = Context(buf, 0)
      /\ sps' = [name \in Names |-> 0] /\ field' = 1 /\ round' = 0 /\ list' = NoList
  BY Zenon DEF Call
<1>2. ctx'.buf = buf  BY <1>1 DEF Context
<1>3. PICK E : E = SetElements(stream)  OBVIOUS
<1>4. Way(E, ctx.buf)'  BY <1>1, Zenon DEF Way
<1>5. SetElements(stream') = E  BY <1>3, Zenon
<1> QED  BY <1>2, <1>4, <1>5, Zenon DEF ReadsInv

\* A step of the parser keeps it on its way.
LEMMA StepWay ==
  ASSUME MaxLen >= 32, stream \in Streams, stream' = stream, ParseInv, ReaderInv, ReadsInv,
         ParserStep, ParseInv', ReaderInv'
  PROVE  ReadsInv'
<1>1. stage # "idle" /\ stage' # "raw"
  <2>1. stage # "idle" /\ stage' \in {"parse", "done", "failed", "lost"}
    BY DEF ParserStep, DeEmulate, NoMemory, ReadField, ReadScale, LeaveData, Finish
  <2> QED  BY <2>1
<1>2. SUFFICES ASSUME ReadableSet(stream) PROVE Way(SetElements(stream), ctx.buf)'
  BY <1>1, Zenon DEF ReadsInv
<1>3. PICK E, b, c : E = SetElements(stream) /\ b = ctx.buf /\ c = ctx'.buf  OBVIOUS
<1>4. /\ Way(E, b)
      /\ stage = "raw" /\ stream.what = "pps" => b = Escaped(Payload(SetBits(stream)))
  BY <1>1, <1>2, <1>3, Zenon DEF ReadsInv
<1>5. b \in Seq(Nat) /\ c \in Seq(Nat)  BY <1>3, Zenon DEF ReaderInv
<1>6. stage = "parse" => c = b  BY <1>3, BufferStays, Zenon
<1>7. ASSUME DeEmulate PROVE CanRead(Fields, E, Len(Fields), c)
  <2>1. /\ stage = "raw" /\ stage' = "parse" /\ ctx' = Context(DeEmulated(b), 0)
        /\ set' = set
    BY <1>3, <1>7 DEF DeEmulate
  <2>2. set = IF stream.what = "pps" THEN "pps" ELSE "sps"  BY <2>1, Zenon DEF ParseInv
  <2>3. CASE stream.what = "pps"
    <3>1. set = "pps"  BY <2>2, <2>3
    <3>2. c = DeEmulated(b)  BY <1>3, <2>1 DEF Context
    <3>3. c = DeEmulated(Escaped(Payload(SetBits(stream))))
      BY <1>4, <2>1, <2>3, <3>2, Zenon
    <3> QED  BY <1>2, <1>3, <2>3, <3>1, <3>3, PpsHandedCanRead, Zenon
  <2>4. CASE stream.what # "pps"
    <3>1. set = "sps"  BY <2>2, <2>4
    <3>2. Kept(c, stream)
      <4>1. Kept(ctx'.buf, stream')  BY <2>1, Zenon DEF ParseInv
      <4>2. stream' = stream  OBVIOUS
      <4> QED  BY <1>3, <4>1, <4>2, Zenon
    <3> QED  BY <1>2, <1>3, <1>5, <2>4, <3>1, <3>2, SpsHandedCanRead, Zenon
  <2> QED  BY <2>3, <2>4
<1>8. Way(E, c)'  BY <1>3, <1>4, <1>5, <1>6, <1>7, WayKeeps, Zenon
<1>9. SetElements(stream') = E /\ ctx'.buf = c  BY <1>3, Zenon
<1> QED  BY <1>8, <1>9, Zenon

\* At first nothing is read.
LEMMA WayStart == Init => WayInv
<1> SUFFICES ASSUME Init PROVE ReadsInv
  BY TypeStart DEF WayInv
<1>1. stage = "idle"  BY DEF Init, ParserInit
<1> QED  BY <1>1 DEF ReadsInv

\* A call begins the way, a step of the parser goes on, and main() does not touch it.
LEMMA WayGoesOn == WayInv /\ [Next]_vars => WayInv'
<1> SUFFICES ASSUME WayInv, [Next]_vars PROVE WayInv'  OBVIOUS
<1>1. TypeInv /\ TypeInv'  BY TypeKeeps DEF WayInv
<1>2. stream' = stream
  <2>1. UNCHANGED vars => UNCHANGED unpackVars  BY DEF vars
  <2>2. Next => UnpackStep \/ Parsed \/ UNCHANGED unpackVars
    BY DEF Next, ParseSps, SpsParsed, ParsePps, ParseText, CallerGoesOn
  <2>3. UnpackStep \/ Parsed => stream' = stream
    BY DEF UnpackStep, Parsed, Unpack, FuStart, FuMid, FuEnd, StapStart,
           StapUnit, StapEnd, Store
  <2>4. UNCHANGED unpackVars => stream' = stream  BY DEF unpackVars
  <2> QED  BY <2>1, <2>2, <2>3, <2>4
<1>3. stream \in Streams /\ (AllFit' <=> AllFit)
  BY <1>1, <1>2 DEF TypeInv, IngestInv, UnpackHolds, WellSent, AllFit
<1>4. ASSUME AllFit PROVE ReadsInv'
  <2>0. /\ ReadsInv /\ ReaderInv /\ UnpackHolds /\ NalInv /\ ParseInv
        /\ ReaderInv' /\ ParseInv'
    BY <1>1, <1>3, <1>4, Zenon DEF WayInv, TypeInv, IngestInv
  <2>1. CASE UNCHANGED parserVars
    <3>1. UNCHANGED <<stage, set, ctx, sps, field, round, list>>
      BY <2>1 DEF parserVars
    <3>2. Fields' = Fields  BY <3>1, Zenon DEF Fields
    <3>3. PICK E : E = SetElements(stream)  OBVIOUS
    <3>4. Way(E, ctx.buf) => Way(E, ctx.buf)'
      <4>1. SUFFICES ASSUME Way(E, ctx.buf) PROVE Way(E, ctx.buf)'  OBVIOUS
      <4>2. Walk(E, Len(Fields), ctx.buf) => Walk(E, Len(Fields), ctx.buf)'
        BY <3>1, <3>2, Zenon DEF Walk
      <4> QED  BY <3>1, <3>2, <4>1, <4>2, Zenon DEF Way
    <3>5. SetElements(stream') = E  BY <1>2, <3>3, Zenon
    <3> QED  BY <1>2, <2>0, <3>1, <3>3, <3>4, <3>5, Zenon DEF ReadsInv
  <2>2. CASE ParserStep
    <3>1. MaxLen >= 32  BY IngestAssumption
    <3> QED  BY <1>2, <1>3, <2>0, <2>2, <3>1, StepWay, Zenon
  <2>3. CASE ParseSps
    <3>1. upc = "parse" /\ Call("sps", SpsBuffer)  BY <2>3 DEF ParseSps
    <3>2. stream.what = "sps"  BY <1>4, <2>0, <3>1, SpsHandedOver
    <3>3. stream.what # "pps"  BY <3>2
    <3> QED  BY <1>2, <3>1, <3>3, CallWay, Zenon
  <2>4. CASE ParsePps
    <3>1. PICK P : P = Payload(SetBits(stream))  OBVIOUS
    <3>2. stream.what = "pps" /\ Call("pps", Escaped(P))
      BY <2>4, <3>1 DEF ParsePps, SetBits
    <3> QED  BY <1>2, <3>1, <3>2, CallWay, Zenon
  <2>5. CASE ParseText
    <3>1. /\ stream.what = "text"
          /\ Call("sps", Tail(Decoded(Encoded(SpsUnit(stream.desc)))))
      BY <2>5 DEF ParseText
    <3>2. stream.what # "pps"  BY <3>1
    <3> QED  BY <1>2, <3>1, <3>2, CallWay, Zenon
  <2>6. CASE Return
    <3>1. stage' = "idle"  BY <2>6 DEF Return
    <3> QED  BY <3>1 DEF ReadsInv
  <2> QED
    BY <2>1, <2>2, <2>3, <2>4, <2>5, <2>6 DEF Next, vars, SpsParsed, CallerGoesOn
<1> QED  BY <1>1, <1>3, <1>4 DEF WayInv

\* The parser of a set that it can read is always where the encoder was.
THEOREM WayInvHolds == Spec => []WayInv
BY WayStart, WayGoesOn, PTL DEF Spec

\* Where the parser has ended with a set that it reads.
LEMMA EndOfWay ==
  ASSUME WayInv, AllFit, Ended, Regular(stream.desc)
  PROVE  /\ stream \in Streams /\ ParseInv /\ stage = "done" /\ ReadableSet(stream)
         /\ set = IF stream.what = "pps" THEN "pps" ELSE "sps"
         /\ Way(SetElements(stream), ctx.buf)
<1>1. stream \in Streams /\ ParseInv /\ ReadsInv
  BY Zenon DEF WayInv, TypeInv, IngestInv, UnpackHolds, WellSent
<1>2. stage # "idle"  BY DEF Ended
<1>3. set = IF stream.what = "pps" THEN "pps" ELSE "sps"  BY <1>1, <1>2, Zenon DEF ParseInv
<1>4. ReadableSet(stream)  BY <1>1, <1>3, RegularIsReadable
<1>5. Way(SetElements(stream), ctx.buf)  BY <1>1, <1>2, <1>4, Zenon DEF ReadsInv
<1>6. stage # "lost"  BY <1>5, Zenon DEF Way
<1>7. stage = "done"  BY <1>6 DEF Ended
<1> QED  BY <1>1, <1>3, <1>4, <1>5, <1>7

\* The parser of a regular set ends exactly where the encoder did: one whose numbers
\* have at most 25 bits and fit their arrays, with its 4x4 lists sent to their end
\* and no 00 00 00 03 in its payload, and a PPS as of PpsCanRead.
THEOREM EndsAsSentHolds == Spec => [](AllFit => EndsAsSent)
<1>1. WayInv => (AllFit => EndsAsSent)
  <2> SUFFICES ASSUME WayInv, AllFit, Ended, Regular(stream.desc)
               PROVE  stage = "done" /\ ctx.bit_pos = Len(Sent)
    BY DEF EndsAsSent
  <2>1. /\ stage = "done" /\ Way(SetElements(stream), ctx.buf)
        /\ set = IF stream.what = "pps" THEN "pps" ELSE "sps"
    BY EndOfWay
  <2>2. ctx.bit_pos = Len(Bits(SetElements(stream)))  BY <2>1, Zenon DEF Way
  <2>3. Elements(stream.desc) = SetElements(stream)
    <3>1. CASE stream.what = "pps"
      <4>1. set # "sps"  BY <2>1, <3>1
      <4> QED  BY <3>1, <4>1, Zenon DEF Elements, SetElements
    <3>2. CASE stream.what # "pps"
      <4>1. set = "sps"  BY <2>1, <3>2
      <4> QED  BY <3>2, <4>1, Zenon DEF Elements, SetElements
    <3> QED  BY <3>1, <3>2
  <2> QED  BY <2>1, <2>2, <2>3, Zenon DEF Sent
<1> QED  BY <1>1, WayInvHolds, PTL

\* The answers of a parser that knows the values of an SPS.
LEMMA AnswersKnown ==
  ASSUME NEW d, SpsOK(d), NEW E, E = AllSpsElements(d),
         Knows(SpsTable, E, 84, sps, 84 + 1, TRUE)
  PROVE  /\ GetWidth = IF d.width = 0 THEN 0 ELSE 16 * (d.width + 1)
         /\ GetHeight = IF d.height = 0 THEN 0
                        ELSE 16 * (d.height + 1) * (IF d.frames THEN 1 ELSE 2)
         /\ GetFramerate = IF Timing(d) = << >> THEN 0
                           ELSE (Timing(d)[2] \div Timing(d)[1]) \div 2
<1>1. PICK F, v : F = SpsTable /\ v = VuiOf(d)  OBVIOUS
<1>2. SpsTells(F, E, d) /\ VuiTells(F, E, v)  BY <1>1, SpsMatches, Zenon DEF SpsMatch
<1>3. Knows(F, E, 84, sps, 84 + 1, TRUE) /\ sps \in Numbers
  BY <1>1, Zenon DEF Knows
<1>4. ASSUME NEW c \in 1..84, NEW name, NEW x, Tells(F, E, 84, c, name, x)
      PROVE  sps[name] = x
  <2>1. 84 + 1 \in 1..84 + 1 /\ c < 84 + 1  OBVIOUS
  <2> QED  BY <1>3, <1>4, <2>1, Zenon DEF Tells
<1>5. /\ 26 \in 1..84 /\ 27 \in 1..84 /\ 28 \in 1..84 /\ 53 \in 1..84
      /\ 54 \in 1..84 /\ 55 \in 1..84
  OBVIOUS
<1>6. sps.pic_width_in_mbs_minus1 = d.width
  <2>1. Tells(F, E, 84, 26, "pic_width_in_mbs_minus1", d.width)  BY <1>2, Zenon DEF SpsTells
  <2> QED  BY <1>4, <1>5, <2>1, Zenon
<1>7. sps.pic_height_in_map_units_minus1 = d.height
  <2>1. Tells(F, E, 84, 27, "pic_height_in_map_units_minus1", d.height)
    BY <1>2, Zenon DEF SpsTells
  <2> QED  BY <1>4, <1>5, <2>1, Zenon
<1>8. sps.frame_mbs_only_flag = One(d.frames)
  <2>1. Tells(F, E, 84, 28, "frame_mbs_only_flag", One(d.frames))
    BY <1>2, Zenon DEF SpsTells
  <2> QED  BY <1>4, <1>5, <2>1, Zenon
<1>9. /\ sps.timing_info_present_flag = One(v.timing # << >>)
      /\ sps.num_units_in_tick = IF v.timing # << >> THEN v.timing[1] ELSE 0
      /\ sps.time_scale = IF v.timing # << >> THEN v.timing[2] ELSE 0
  <2>1. /\ Tells(F, E, 84, 53, "timing_info_present_flag", One(v.timing # << >>))
        /\ Tells(F, E, 84, 54, "num_units_in_tick",
                 IF v.timing # << >> THEN v.timing[1] ELSE 0)
        /\ Tells(F, E, 84, 55, "time_scale", IF v.timing # << >> THEN v.timing[2] ELSE 0)
    BY <1>2, Zenon DEF VuiTells
  <2>2. PICK x, y, z : /\ x = One(v.timing # << >>)
                       /\ y = IF v.timing # << >> THEN v.timing[1] ELSE 0
                       /\ z = IF v.timing # << >> THEN v.timing[2] ELSE 0
    OBVIOUS
  <2>3. /\ Tells(F, E, 84, 53, "timing_info_present_flag", x)
        /\ Tells(F, E, 84, 54, "num_units_in_tick", y)
        /\ Tells(F, E, 84, 55, "time_scale", z)
    BY <2>1, <2>2, Zenon
  <2>4. sps["timing_info_present_flag"] = x  BY <1>4, <1>5, <2>3, ZenonT(30)
  <2>5. sps["num_units_in_tick"] = y  BY <1>4, <1>5, <2>3, Zenon
  <2>6. sps["time_scale"] = z  BY <1>4, <1>5, <2>3, Zenon
  <2> QED  BY <2>2, <2>4, <2>5, <2>6, Zenon
<1>10. v.timing = Timing(d)
  <2>1. NoVui.timing = << >>  BY DEF NoVui
  <2> QED  BY <1>1, <2>1, Zenon DEF VuiOf, Timing
<1>11. PICK w, h : w = d.width /\ h = d.height  OBVIOUS
<1>12. w \in Int /\ h \in Int
  <2>1. \A k \in 1..36 : sps[SpsFields[k].name] \in Int
    BY <1>3, TablesNamed, Zenon DEF Numbers
  <2>2. /\ SpsFields[26].name = "pic_width_in_mbs_minus1"
        /\ SpsFields[27].name = "pic_height_in_map_units_minus1"
    BY DEF SpsFields, Row, Get1, GetN, GetUe, GetSe
  <2>3. 26 \in 1..36 /\ 27 \in 1..36  OBVIOUS
  <2>4. sps["pic_width_in_mbs_minus1"] \in Int  BY <2>1, <2>2, <2>3, Zenon
  <2>5. sps["pic_height_in_map_units_minus1"] \in Int  BY <2>1, <2>2, <2>3, Zenon
  <2> QED  BY <1>6, <1>7, <1>11, <2>4, <2>5, Zenon
<1>13. GetWidth = IF w = 0 THEN 0 ELSE 16 * (w + 1)
  <2>1. GetWidth = IF w = 0 THEN 0 ELSE (w + 1) * 16  BY <1>6, <1>11, Zenon DEF GetWidth
  <2>2. (w + 1) * 16 = 16 * (w + 1)  BY <1>12
  <2> QED  BY <2>1, <2>2, Zenon
<1>14. GetHeight = IF h = 0 THEN 0 ELSE 16 * (h + 1) * (IF d.frames THEN 1 ELSE 2)
  <2>1. PICK o, t : o = One(d.frames) /\ t = IF d.frames THEN 1 ELSE 2  OBVIOUS
  <2>2. GetHeight = IF h = 0 THEN 0 ELSE (h + 1) * 16 * (2 - o)
    BY <1>7, <1>8, <1>11, <2>1, Zenon DEF GetHeight
  <2>3. 2 - o = t /\ t \in Int
    <3>1. CASE d.frames
      <4>1. o = 1 /\ t = 1  BY <2>1, <3>1, Zenon DEF One
      <4> QED  BY <4>1
    <3>2. CASE ~ d.frames
      <4>1. o = 0 /\ t = 2  BY <2>1, <3>2, Zenon DEF One
      <4> QED  BY <4>1
    <3> QED  BY <3>1, <3>2
  <2>4. (h + 1) * 16 = 16 * (h + 1)  BY <1>12
  <2>5. (h + 1) * 16 * (2 - o) = 16 * (h + 1) * t  BY <2>3, <2>4, Zenon
  <2> QED  BY <2>1, <2>2, <2>5, Zenon
<1>15. GetFramerate = IF Timing(d) = << >> THEN 0
                      ELSE (Timing(d)[2] \div Timing(d)[1]) \div 2
  <2>1. CASE Timing(d) = << >>
    <3>1. sps.timing_info_present_flag = 0  BY <1>9, <1>10, <2>1, Zenon DEF One
    <3>2. 0 # 1  OBVIOUS
    <3> QED  BY <2>1, <3>1, <3>2, Zenon DEF GetFramerate
  <2>2. CASE Timing(d) # << >>
    <3>1. /\ sps.timing_info_present_flag = 1
          /\ sps.num_units_in_tick = Timing(d)[1] /\ sps.time_scale = Timing(d)[2]
      BY <1>9, <1>10, <2>2, Zenon DEF One
    <3> QED  BY <2>2, <3>1, Zenon DEF GetFramerate
  <2> QED  BY <2>1, <2>2
<1> QED  BY <1>11, <1>13, <1>14, <1>15, Zenon

\* main() gets the size and the frame rate that were sent with a regular SPS whose
\* num_units_in_tick is not 0.
THEOREM AnswersAsSentHolds == Spec => [](AllFit => AnswersAsSent)
<1>1. WayInv => (AllFit => AnswersAsSent)
  <2> SUFFICES ASSUME WayInv, AllFit, stage = "done", set = "sps", Regular(stream.desc),
                      NEW d, d = stream.desc, Timing(d) # << >> => Timing(d)[1] # 0
               PROVE  /\ GetWidth = IF d.width = 0 THEN 0 ELSE 16 * (d.width + 1)
                      /\ GetHeight = IF d.height = 0 THEN 0
                                     ELSE 16 * (d.height + 1) * (IF d.frames THEN 1 ELSE 2)
                      /\ GetFramerate = IF Timing(d) = << >> THEN 0
                                        ELSE (Timing(d)[2] \div Timing(d)[1]) \div 2
    BY Zenon DEF AnswersAsSent
  <2>1. Ended  BY DEF Ended
  <2>2. /\ stream \in Streams /\ Way(SetElements(stream), ctx.buf)
        /\ set = IF stream.what = "pps" THEN "pps" ELSE "sps"
    BY <2>1, EndOfWay
  <2>3. stream.what # "pps"  BY <2>2
  <2>4. SpsOK(d)  BY <2>2, <2>3, IngestAssumption
  <2>5. PICK E : E = AllSpsElements(d)  OBVIOUS
  <2>6. SetElements(stream) = E  BY <2>3, <2>5, Zenon DEF SetElements
  <2>7. Fields = SpsTable /\ Len(Fields) = 84  BY FieldsTable
  <2>8. Knows(SpsTable, E, 84, sps, 84 + 1, TRUE)  BY <2>2, <2>6, <2>7, Zenon DEF Way
  <2> QED  BY <2>4, <2>5, <2>8, AnswersKnown
<1> QED  BY <1>1, WayInvHolds, PTL
=============================================================================
