----------------------------- MODULE RtpSyntax -----------------------------
(***************************************************************************)
(* What a sender makes of NAL units by RFC 6184: single packets, aggregates*)
(* (STAP-A) and fragments (FU-A).  A unit is its bytes, header first; a    *)
(* datagram is what follows its RTP header.                                *)
(*                                                                         *)
(* A sending says how units go out, which units, and for fragments how     *)
(* many bytes each of them has.                                            *)
(***************************************************************************)
EXTENDS Integers, Sequences, SequencesExt

StartCode == <<0, 0, 0, 1>>

Aggregated(units) ==
  <<120>> \o FlattenSeq([i \in 1..Len(units) |->
               LET n == Len(units[i]) IN <<n \div 256, n % 256>> \o units[i]])

\* Where the fragments end in the unit; the header is behind none of them.
Ends(cuts) ==
  LET upTo[i \in 0..Len(cuts)] == IF i = 0 THEN 1 ELSE upTo[i - 1] + cuts[i]
  IN upTo

Fragments(unit, cuts) ==
  LET Top(i) == CASE i = 1 -> 128 [] i = Len(cuts) -> 64 [] OTHER -> 0
  IN [i \in 1..Len(cuts) |->
        <<(unit[1] \div 32) * 32 + 28, Top(i) + (unit[1] % 32)>>
          \o SubSeq(unit, Ends(cuts)[i - 1] + 1, Ends(cuts)[i])]

Datagrams(s) ==
  CASE s.how = "single" -> s.units
    [] s.how = "stap"   -> <<Aggregated(s.units)>>
    [] s.how = "fu"     -> Fragments(s.units[1], s.cuts)

\* What a sender may do: the types 24 and 28 are no types of units, an aggregate
\* has a unit at least and gives its size in 16 bits, and a unit that is cut is
\* cut into two fragments at least.
Sendings ==
  [how : {"single", "stap", "fu"}, units : Seq(Seq(0..255)), cuts : Seq(Nat)]

Sendable(s) ==
  /\ s \in Sendings /\ s.units # << >>
  /\ s.how # "stap" => Len(s.units) = 1 /\ s.units[1] # << >>
  /\ s.how = "single" => s.units[1][1] % 32 \notin {24, 28}
  /\ s.how = "stap" => \A i \in 1..Len(s.units) : Len(s.units[i]) < 65536
  /\ s.how = "fu" => Len(s.cuts) > 1 /\ Ends(s.cuts)[Len(s.cuts)] = Len(s.units[1])

\* The same units as a decoder wants them.
ByteStream(s) == FlattenSeq([i \in 1..Len(s.units) |-> StartCode \o s.units[i]])
=============================================================================
