----------------------------- MODULE SpsSyntax -----------------------------
(***************************************************************************)
(* What an encoder sends: the bits of a sequence or picture parameter set, *)
(* written from the syntax tables of H.264 (7.3.2.1.1, E.1.1, 7.3.2.2) that*)
(* the comments of src/sps_pps.c refer to.  The parser of SpsParser is     *)
(* measured by it.                                                         *)
(*                                                                         *)
(* A description names what the parser's way depends on: the profile, the  *)
(* chroma format, the scaling lists (a sequence of deltas for each, empty  *)
(* if it is not sent; no lists: no matrix), the type of the picture order  *)
(* count and its offsets, the size in macroblocks less one, frame_mbs_only,*)
(* cropping, and the VUI parts that are sent.  That of a picture parameter *)
(* set: the map of slice groups and its numbers, and for the extension the *)
(* 8x8 transform and the lists, empty if there is no extension.            *)
(***************************************************************************)
EXTENDS Integers, Sequences, SequencesExt

\* u(n), for values below 2^31.
U(n, v) == [i \in 1..n |-> IF n - i > 30 THEN 0 ELSE (v \div 2^(n - i)) % 2]

Zeros(n) == [i \in 1..n |-> 0]

\* ue(v) and se(v).
Ue(v) ==
  LET k == CHOOSE k \in 0..30 : 2^k <= v + 1 /\ v + 1 < 2^(k + 1)
  IN Zeros(k) \o U(k + 1, v + 1)

Se(v) == Ue(IF v > 0 THEN 2 * v - 1 ELSE -2 * v)

-----------------------------------------------------------------------------
(* The elements of the syntax in their order, each with its descriptor and  *)
(* the values that are sent, none if the element is not.                    *)

Element(as, n, values) == [as |-> as, n |-> n, values |-> values]

u_n(n, values) == Element("u", n, values)
u_1(values)    == Element("u", 1, values)
ue_v(values)   == Element("ue", 0, values)
se_v(values)   == Element("se", 0, values)

Flag(b) == <<IF b THEN 1 ELSE 0>>

Given(b, values) == IF b THEN values ELSE << >>

HighProfiles == {44, 83, 86, 100, 110, 118, 122, 128, 244}

SpsElements(d) ==
  LET High(values) == Given(d.profile \in HighProfiles, values)
      poc0 == d.poc = 0
      poc1 == d.poc = 1
  IN <<u_n(8, <<d.profile>>), u_1(<<1>>), u_1(<<1>>), u_1(<<0>>), u_1(<<0>>),
       u_n(4, <<0>>), u_n(8, <<40>>), ue_v(<<0>>),
       ue_v(High(<<d.chroma>>)), u_1(High(Given(d.chroma = 3, <<0>>))),
       ue_v(High(<<0>>)), ue_v(High(<<2>>)), u_1(High(<<0>>)),
       u_1(High(Flag(d.lists # << >>))), Element("list", 0, High(d.lists)),
       ue_v(<<0>>), ue_v(<<d.poc>>), ue_v(Given(poc0, <<2>>)),
       u_1(Given(poc1, <<0>>)), se_v(Given(poc1, <<-1>>)), se_v(Given(poc1, <<2>>)),
       ue_v(Given(poc1, <<Len(d.offsets)>>)), se_v(Given(poc1, d.offsets)),
       ue_v(<<4>>), u_1(<<0>>), ue_v(<<d.width>>), ue_v(<<d.height>>),
       u_1(Flag(d.frames)), u_1(Given(~d.frames, <<1>>)), u_1(<<1>>),
       u_1(Flag(d.cropped)), ue_v(Given(d.cropped, <<0>>)), ue_v(Given(d.cropped, <<1>>)),
       ue_v(Given(d.cropped, <<0>>)), ue_v(Given(d.cropped, <<4>>)),
       u_1(Flag(d.vui # << >>))>>

\* The sizes of the buffers of a hypothetical decoder: bit_rate_value_minus1,
\* cpb_size_value_minus1 and cbr_flag for each.
HrdValues(hrd) ==
  [i \in 1..3 * Len(hrd) |->
     IF i % 3 = 1 THEN hrd[(i + 2) \div 3] ELSE IF i % 3 = 2 THEN 9 ELSE 1]

NoVui == [sar |-> << >>, signal |-> FALSE, timing |-> << >>, nal |-> << >>,
          vcl |-> << >>, restricted |-> FALSE]

\* The elements of VUI parameters v, if they are sent.
VuiRows(v, sent) ==
  LET Always(values) == Given(sent, values)
      Sar(values)    == Given(v.sar # << >>, values)
      Signal(values) == Given(v.signal, values)
      Timing(values) == Given(v.timing # << >>, values)
      Nal(values)    == Given(v.nal # << >>, values)
      Vcl(values)    == Given(v.vcl # << >>, values)
      Limits(values) == Given(v.restricted, values)
  IN <<u_1(Always(Flag(v.sar # << >>))), u_n(8, Sar(<<255>>)),
       u_n(16, Sar(<<v.sar[1]>>)), u_n(16, Sar(<<v.sar[2]>>)),
       u_1(Always(Flag(v.signal))), u_1(Signal(<<1>>)),   \* overscan
       u_1(Always(Flag(v.signal))), u_n(3, Signal(<<5>>)), u_1(Signal(<<1>>)),
       u_1(Signal(<<1>>)), u_n(8, Signal(<<1>>)), u_n(8, Signal(<<1>>)),
       u_n(8, Signal(<<1>>)),
       u_1(Always(Flag(v.signal))), ue_v(Signal(<<0>>)), ue_v(Signal(<<3>>)),
       u_1(Always(Flag(v.timing # << >>))), u_n(32, Timing(<<v.timing[1]>>)),
       u_n(32, Timing(<<v.timing[2]>>)), u_1(Timing(<<1>>)),
       u_1(Always(Flag(v.nal # << >>))), ue_v(Nal(<<Len(v.nal) - 1>>)),
       u_n(4, Nal(<<1>>)), u_n(4, Nal(<<6>>)), Element("hrd", 0, HrdValues(v.nal)),
       u_n(5, Nal(<<23>>)), u_n(5, Nal(<<15>>)), u_n(5, Nal(<<5>>)), u_n(5, Nal(<<24>>)),
       u_1(Always(Flag(v.vcl # << >>))), ue_v(Vcl(<<Len(v.vcl) - 1>>)),
       u_n(4, Vcl(<<1>>)), u_n(4, Vcl(<<6>>)), Element("hrd", 0, HrdValues(v.vcl)),
       u_n(5, Vcl(<<23>>)), u_n(5, Vcl(<<15>>)), u_n(5, Vcl(<<5>>)), u_n(5, Vcl(<<24>>)),
       u_1(Given(v.nal # << >> \/ v.vcl # << >>, <<0>>)), u_1(Always(<<1>>)),
       u_1(Always(Flag(v.restricted))), u_1(Limits(<<1>>)), ue_v(Limits(<<0>>)),
       ue_v(Limits(<<0>>)), ue_v(Limits(<<11>>)), ue_v(Limits(<<11>>)),
       ue_v(Limits(<<0>>)), ue_v(Limits(<<4>>))>>

VuiElements(vui) ==
  IF vui = << >> THEN VuiRows(NoVui, FALSE) ELSE VuiRows(vui[1], TRUE)

\* num_slice_groups_minus1: the last of the rectangles of a map of type 2 is the rest.
Groups(d) ==
  IF d.map = << >> THEN 0
  ELSE IF d.type = 2 THEN Len(d.map)
  ELSE IF d.type < 2 THEN Len(d.map) - 1
  ELSE 1

PpsElements(d) ==
  LET Map(types, values) == Given(d.map # << >> /\ d.type \in types, values)
      Ext(values) == Given(d.ext # << >>, values)
      e == d.ext[1]
      n == Len(d.map)
  IN <<ue_v(<<d.id>>), ue_v(<<0>>), u_1(<<1>>), u_1(<<0>>),
       ue_v(<<Groups(d)>>), ue_v(Map(0..6, <<d.type>>)), ue_v(Map({0}, d.map)),
       ue_v(Map({2}, [i \in 1..2 * n |-> IF i % 2 = 1 THEN 0 ELSE d.map[i \div 2]])),
       u_1(Map(3..5, <<1>>)), ue_v(Map(3..5, <<d.map[1]>>)),
       ue_v(Map({6}, <<n - 1>>)), u_1(Map({6}, d.map)),
       ue_v(<<2>>), ue_v(<<0>>), u_1(<<0>>), u_n(2, <<2>>),
       se_v(<<-3>>), se_v(<<0>>), se_v(<<-2>>), u_1(<<1>>), u_1(<<0>>), u_1(<<0>>),
       Element("more", 0, Flag(d.ext # << >>)), u_1(Ext(Flag(e.transform))),
       u_1(Ext(Flag(e.lists # << >>))), Element("list", 0, Ext(e.lists)),
       se_v(Ext(<<-2>>))>>

-----------------------------------------------------------------------------
(* The bits.                                                                *)

\* A scaling list, behind the flag that says whether it is sent.
ListBits(deltas) ==
  Flag(deltas # << >>) \o FlattenSeq([j \in 1..Len(deltas) |-> Se(deltas[j])])

\* What is sent for the i-th value of an element: for "more" nothing, it is known
\* by what follows.
Code(e, i) ==
  LET v == e.values[i]
  IN CASE e.as = "u"    -> U(e.n, v)
       [] e.as = "ue"   -> Ue(v)
       [] e.as = "se"   -> Se(v)
       [] e.as = "list" -> ListBits(v)
       [] e.as = "hrd"  -> IF i % 3 = 0 THEN U(1, v) ELSE Ue(v)
       [] e.as = "more" -> << >>

ElementBits(e) == FlattenSeq([i \in 1..Len(e.values) |-> Code(e, i)])

Bits(elements) == FlattenSeq([k \in 1..Len(elements) |-> ElementBits(elements[k])])

AllSpsElements(d) == SpsElements(d) \o VuiElements(d.vui)

SpsBits(d) == Bits(AllSpsElements(d))
PpsBits(d) == Bits(PpsElements(d))

-----------------------------------------------------------------------------
(* What can be sent.                                                        *)

\* The scales the deltas of a list lead to, from 8.
ScalesOf(deltas) ==
  LET scale[j \in 0..Len(deltas)] ==
        IF j = 0 THEN 8 ELSE (scale[j - 1] + deltas[j] + 256) % 256
  IN scale

\* A scaling list ends with its size or with a scale of 0 (7.3.2.1.1.1).
ListOK(deltas, size) ==
  LET scale == ScalesOf(deltas)
  IN /\ Len(deltas) <= size
     /\ \A j \in 1..Len(deltas) - 1 : scale[j] # 0
     /\ Len(deltas) \in 1..size - 1 => scale[Len(deltas)] = 0

\* The i-th value of an element has a code.
ValueOK(e, i) ==
  LET v == e.values[i]
  IN CASE e.as = "u" -> v \in Nat /\ (e.n <= 30 => v < 2^e.n)
       [] e.as \in {"ue", "hrd"} -> v \in 0..2^30 - 1
       [] e.as = "se" -> v \in 1 - 2^29..2^29 - 1
       [] e.as = "list" -> ListOK(v, IF i <= 6 THEN 16 ELSE 64)
       [] e.as = "more" -> TRUE

ElementOK(e) ==
  /\ e.values \in Seq(IF e.as = "list" THEN Seq(-128..127) ELSE Int)
  /\ \A i \in 1..Len(e.values) : ValueOK(e, i)

\* The numbers of scaling lists, of buffers and of slice groups are those of the
\* syntax; a map of slice groups says which group each unit of it is in only if
\* there is more than one.
SpsOK(d) ==
  /\ \A k \in 1..Len(AllSpsElements(d)) : ElementOK(AllSpsElements(d)[k])
  /\ d.lists # << >> => Len(d.lists) = IF d.chroma = 3 THEN 12 ELSE 8
  /\ d.vui # << >> => d.vui[1].nal \in Seq(Nat) /\ d.vui[1].vcl \in Seq(Nat)

PpsOK(d) ==
  /\ \A k \in 1..Len(PpsElements(d)) : ElementOK(PpsElements(d)[k])
  /\ d.map \in Seq(Nat)
  /\ d.map # << >> => d.type \in 0..6 /\ (d.type < 2 => Len(d.map) >= 2)
  /\ d.ext # << >> /\ d.ext[1].lists # << >> =>
       Len(d.ext[1].lists) = IF d.ext[1].transform THEN 8 ELSE 6

-----------------------------------------------------------------------------
\* The payload: a 1 and zeros fill the last byte.
Payload(data) ==
  LET bits == Append(data, 1)
      full == bits \o Zeros((-Len(bits)) % 8)
      Value(k) == LET b(i) == full[8 * k - 8 + i]
                  IN 128 * b(1) + 64 * b(2) + 32 * b(3) + 16 * b(4)
                       + 8 * b(5) + 4 * b(6) + 2 * b(7) + b(8)
  IN [k \in 1..Len(full) \div 8 |-> Value(k)]

\* 3 goes before a byte of at most 3 that follows two zeros.
Guarded(s, b) ==
  IF s.zeros = 2 /\ b <= 3
    THEN [out |-> s.out \o <<3, b>>, zeros |-> IF b = 0 THEN 1 ELSE 0]
    ELSE [out |-> Append(s.out, b), zeros |-> IF b = 0 THEN s.zeros + 1 ELSE 0]

\* What the first i bytes become, and the zeros at its end.
Escaping(bytes) ==
  LET upTo[i \in 0..Len(bytes)] ==
        IF i = 0 THEN [out |-> << >>, zeros |-> 0] ELSE Guarded(upTo[i - 1], bytes[i])
  IN upTo

Escaped(bytes) == Escaping(bytes)[Len(bytes)].out

\* The unit, with its header.
SpsUnit(d) == <<103>> \o Escaped(Payload(SpsBits(d)))

\* The numbers get_bits reads at every position: those of at most 25 bits.
Small(e) ==
  \A i \in 1..Len(e.values) :
    LET v == e.values[i]
    IN /\ e.as \in {"u", "ue", "hrd"} => v < 2^25
       /\ e.as = "se" => v > -(2^24) /\ v < 2^24
=============================================================================
