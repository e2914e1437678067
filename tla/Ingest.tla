------------------------------- MODULE Ingest -------------------------------
(***************************************************************************)
(* What main() does with the bytes of a stream: RtpUnpack takes the units  *)
(* out of the packets, and SpsParser reads each SPS on its way to the      *)
(* queue, and with it what follows it in an aggregate.  Two functions are  *)
(* called by nothing that is built: h264dec_picture_parameter_set, whose   *)
(* caller here does what the comment at its head asks for, and             *)
(* base64_decode, whose caller has the text of an SPS as in src/temp.c and *)
(* asks the parser for its size.                                           *)
(*                                                                         *)
(* A stream says which parameter set it has ("sps" over the network, "pps" *)
(* or "text"), the description of it, and for RtpUnpack what is sent.      *)
(***************************************************************************)
EXTENDS RtpUnpack, SpsParser, SpsSyntax, Base64

\* main() parses single units of type 7, and of an aggregate what is behind the
\* header of its first unit.
CarriesSps(s, unit) ==
  s.how = "stap" \/ (s.how = "single" /\ s.units[1][1] % 32 = 7)
    => s.units[1] = unit

\* A description can be sent, and what is parsed of a stream is its parameter set.
\* The widest field has 32 bits.
ASSUME IngestAssumption ==
  /\ MaxLen >= 32
  /\ \A s \in Streams :
    /\ IF s.what = "pps" THEN PpsOK(s.desc) ELSE SpsOK(s.desc)
    /\ s.what # "sps" => s.sends = << >>
    /\ \A i \in 1..Len(s.sends) : CarriesSps(s.sends[i], SpsUnit(s.desc))

vars == <<unpackVars, parserVars>>

\* main() calls the parser, and goes on when it returns.
ParseSps ==
  /\ upc = "parse" /\ Call("sps", SpsBuffer)
  /\ UNCHANGED unpackVars

SpsParsed == Parsed /\ Return

\* The payload of a PPS, without start code and header.
ParsePps ==
  /\ stream.what = "pps" /\ Call("pps", Escaped(Payload(PpsBits(stream.desc))))
  /\ UNCHANGED unpackVars

\* An SPS as a text, decoded and handed over without its header.
ParseText ==
  /\ stream.what = "text" /\ Call("sps", Tail(Decoded(Encoded(SpsUnit(stream.desc)))))
  /\ UNCHANGED unpackVars

CallerGoesOn ==
  /\ stream.what \in {"pps", "text"} /\ Return
  /\ UNCHANGED unpackVars

Init == UnpackInit /\ ParserInit

Next ==
  \/ UnpackStep /\ UNCHANGED parserVars
  \/ ParserStep /\ UNCHANGED unpackVars
  \/ ParseSps \/ SpsParsed \/ ParsePps \/ ParseText \/ CallerGoesOn

Spec == Init /\ [][Next]_vars

-----------------------------------------------------------------------------
(* Properties.                                                              *)

Elements(d) == IF set = "sps" THEN AllSpsElements(d) ELSE PpsElements(d)

Sent == Bits(Elements(stream.desc))

\* The scaling lists that are sent; a 4x4 list not sent to its end.
Lists(d) == IF set = "sps" THEN d.lists
            ELSE IF d.ext = << >> THEN << >> ELSE d.ext[1].lists

ListEndsEarly(d) ==
  \E i \in 1..Len(Lists(d)) : i <= 6 /\ Len(Lists(d)[i]) \in 1..15

\* 00 00 00 03 in the payload, sent as 00 00 03 00 03.
ThreeAfterZeros(bytes) ==
  \E i \in 1..Len(bytes) - 3 : SubSeq(bytes, i, i + 3) = <<0, 0, 0, 3>>

Timing(d) == IF d.vui = << >> THEN << >> ELSE d.vui[1].timing

\* The loops for slice group maps of type 2 and 6 are not those of the standard; an
\* extension is looked for wherever the stop bit is not the last of its byte, and
\* read to its end only with scaling lists.
RegularPps(d) ==
  /\ d.map # << >> => d.type \notin {2, 6}
  /\ IF d.ext = << >> THEN Len(PpsBits(d)) % 8 = 7 ELSE Lists(d) # << >>

\* The arrays hold what is sent for them: 16 offsets and buffers of a decoder where
\* H.264 allows 255 and 32, and the numbers of 32 slice groups.
FitsArrays(d) ==
  \A k \in 1..Len(Fields) :
    Fields[k].name \in DOMAIN Room => Len(Elements(d)[k].values) <= Room[Fields[k].name]

\* The parameter sets this parser can read.
Regular(d) ==
  /\ ~ListEndsEarly(d) /\ ~ThreeAfterZeros(Payload(Sent)) /\ FitsArrays(d)
  /\ \A k \in 1..Len(Elements(d)) : Small(Elements(d)[k])
  /\ set = "pps" => RegularPps(d)

\* The parser has ended, over data that begin with those the encoder had.
Ended    == stage \in {"done", "lost"}
Restored == IsPrefix(Payload(Sent), ctx.buf)

\* The parser is in its table and in the data, UnpackRtpSTAP_A_NAL in the packet
\* or one byte behind it, and main() waits where the parser runs.
TypeOK ==
  /\ ParserTypeOK
  /\ upc = "walk" => nidx \in 0..Len(payload)
  /\ upc \in {"recv", "fu", "stap", "walk", "parse", "store"}
  /\ stream.what = "sps" /\ stage # "idle" => upc = "parse"

\* Taking out the emulation prevention bytes gives what the encoder put them
\* into, if that has no 00 00 00 03: whether the SPS came alone or in front of
\* other units, and with the start codes put between them.
PayloadRestored ==
  Ended /\ ~ThreeAfterZeros(Payload(Sent)) => Restored

\* The text of an SPS has its bits, six in a character, and what is decoded from it
\* is the SPS with at most four zeros behind it: the length that base64_decode
\* returns is too large (a problem of the length that base64.c:159 admits).
TextDecoded ==
  LET unit == SpsUnit(stream.desc)
      text == Encoded(unit)
      out  == Decoded(text)
  IN stream.what = "text" /\ stage = "raw" =>
       /\ \A k \in 0..8 * Len(unit) - 1 :
            Bit(unit, k) = (text[k \div 6 + 1] \div 2^(5 - (k % 6))) % 2
       /\ \E n \in 0..4 : out = unit \o Zeros(n)

\* The parser ends exactly where the encoder did: it took every field that was
\* sent and no other, at its width, and never left the data or an array.
EndsAsSent ==
  Ended /\ Regular(stream.desc) => stage = "done" /\ ctx.bit_pos = Len(Sent)

\* main() gets the size and the frame rate that were sent, if num_units_in_tick is
\* not 0 (sps_pps.c:992 divides by it).  (A width or height of one macroblock is
\* reported as 0.)
AnswersAsSent ==
  LET d == stream.desc
  IN /\ stage = "done" /\ set = "sps" /\ Regular(d)
     /\ Timing(d) # << >> => Timing(d)[1] # 0
     =>
       /\ GetWidth = IF d.width = 0 THEN 0 ELSE 16 * (d.width + 1)
       /\ GetHeight = IF d.height = 0 THEN 0
                      ELSE 16 * (d.height + 1) * (IF d.frames THEN 1 ELSE 2)
       /\ GetFramerate = IF Timing(d) = << >> THEN 0
                         ELSE (Timing(d)[2] \div Timing(d)[1]) \div 2

\* The 03 that was put in after two zeros is thrown away and the original data
\* restored (sps_pps.c:235-246).
OriginalRestored == Ended => Restored

\* get_bits reads n bits, if n is not more than 32 (sps_pps.c:89).
AllBitsRead ==
  LET d == stream.desc
  IN stage = "done" /\ set = "sps" /\ ~ListEndsEarly(d)
       /\ ~ThreeAfterZeros(Payload(Sent)) /\ Timing(d) # << >>
     => sps.time_scale = Timing(d)[2]
=============================================================================
