------------------------------ MODULE MCIngest ------------------------------
(***************************************************************************)
(* Streams for Ingest.  In the parameter sets every optional part is sent  *)
(* and left out, and the fields before the VUI vary in length, so that its *)
(* 32-bit fields meet every alignment.  16 offsets fill their array, 17 do *)
(* not fit.  The units fill the buffers, which are of 128 bytes here, to   *)
(* their last byte.                                                        *)
(***************************************************************************)
EXTENDS Ingest

Const(n, v) == [i \in 1..n |-> v]
None(n)     == Const(n, << >>)

\* Scaling lists of 4x4 and of 8x8, sent to the end or cut off by a scale of 0.
Full4  == Const(16, 1)
Full8  == <<-3>> \o Const(63, 1)
Short8 == <<2, -10>>
Short4 == <<0, 3, -11>>

Bare == [sar |-> << >>, signal |-> FALSE, timing |-> << >>, nal |-> << >>,
         vcl |-> << >>, restricted |-> FALSE]

Vuis ==
  {<<[Bare EXCEPT !.timing = t]>> :
     t \in {<<1, 50>>, <<3, 150>>, <<24, 2400>>, <<1001, 60000>>, <<1, 2^30>>}}
    \cup {<<[sar |-> <<64, 45>>, signal |-> TRUE, timing |-> <<1, 60>>,
             nal |-> n, vcl |-> <<40>>, restricted |-> TRUE]>> :
            n \in {<< >>, <<7, 300>>}}

Plain == [profile |-> 66, chroma |-> 1, lists |-> << >>, poc |-> 2,
          offsets |-> << >>, width |-> 119, height |-> 67, frames |-> TRUE,
          cropped |-> TRUE, vui |-> << >>]

High(chroma, lists) ==
  [Plain EXCEPT !.profile = 244, !.chroma = chroma, !.lists = lists]

SpsDescriptions ==
  {Plain, High(1, << >>), High(1, [None(8) EXCEPT ![2] = Full4, ![7] = Short8]),
   High(3, [None(12) EXCEPT ![12] = Full8]), High(1, [None(8) EXCEPT ![1] = Short4])}
  \cup {[Plain EXCEPT !.poc = p, !.width = w, !.frames = f, !.vui = v] :
          p \in {0, 2}, w \in {0, 14, 119}, f \in BOOLEAN, v \in Vuis}
  \cup {[Plain EXCEPT !.poc = 1, !.offsets = Const(n, 1)] : n \in {16, 17}}
  \cup {[Plain EXCEPT !.poc = 1, !.offsets = o, !.cropped = c, !.vui = v] :
          o \in {<< >>, <<1, -2>>, <<5>>}, c \in BOOLEAN, v \in Vuis}

\* Slice groups of every type, with and without the extension and its lists.
Maps == {<<0, << >>>>, <<0, <<4, 9>>>>, <<1, <<0, 0>>>>, <<2, <<7>>>>, <<6, <<1, 0, 1>>>>}
          \cup {<<t, <<n>>>> : t \in 3..5, n \in {0, 2}}

Extensions ==
  {<< >>} \cup {<<[transform |-> TRUE, lists |-> l]>> :
                  l \in {<< >>, [None(8) EXCEPT ![4] = Full4, ![8] = Full8],
                         [None(8) EXCEPT ![7] = Short8], [None(8) EXCEPT ![1] = Short4]}}
          \cup {<<[transform |-> FALSE, lists |-> None(6)]>>}

PpsDescriptions ==
  {[id |-> i, type |-> m[1], map |-> m[2], ext |-> e] :
     i \in {0, 1, 3, 7}, m \in Maps, e \in Extensions}

-----------------------------------------------------------------------------
PpsUnit  == <<104, 206, 60, 128>>
Slice(n) == <<101>> \o [i \in 1..n |-> (7 * i) % 256]

Sending(how, units, cuts) == [how |-> how, units |-> units, cuts |-> cuts]
Single(unit)   == Sending("single", <<unit>>, << >>)
Stap(units)    == Sending("stap", units, << >>)
Fu(unit, cuts) == Sending("fu", <<unit>>, cuts)

\* All ways to cut a unit with n bytes behind its header.
Cuts(n) == {c \in UNION {[1..k -> 1..n - 1] : k \in 2..n} : FoldSeq(+, 0, c) = n}

SpsStreams ==
  UNION {{[what |-> "sps", desc |-> d, sends |-> s] :
            s \in {<<Single(SpsUnit(d))>>, <<Stap(<<SpsUnit(d), PpsUnit>>)>>}} :
         d \in SpsDescriptions}

PpsStreams ==
  {[what |-> "pps", desc |-> d, sends |-> << >>] : d \in PpsDescriptions}

TextStreams ==
  {[what |-> "text", desc |-> d, sends |-> << >>] : d \in SpsDescriptions}

\* The largest units, fragments and aggregates there is room for, and an empty
\* unit at the end of an aggregate.
OneByte(n) == [i \in 1..n |-> <<9>>]

Layouts ==
  {<<Fu(Slice(6), c)>> : c \in Cuts(6)}
  \cup {<<Fu(Slice(123), c)>> :
          c \in {<<109, 14>>, <<14, 109>>, <<13, 1, 109>>, <<109, 7, 7>>}}
  \cup {<<Fu(Slice(123), <<100, 23>>), Single(Slice(0)), Fu(Slice(3), <<1, 2>>)>>,
        <<Single(SpsUnit(Plain)), Single(PpsUnit), Fu(Slice(8), <<5, 3>>),
          Stap(<<SpsUnit(Plain), PpsUnit>>), Single(Slice(110))>>,
        <<Stap(<<SpsUnit(Plain)>> \o OneByte(20)), Single(Slice(2))>>,
        <<Stap(<<SpsUnit(Plain), PpsUnit, << >>>>), Single(Slice(2))>>}

MCStreams ==
  SpsStreams \cup PpsStreams \cup TextStreams
    \cup {[what |-> "sps", desc |-> Plain, sends |-> s] : s \in Layouts}

ASSUME \A s \in SpsStreams : \A i \in 1..Len(s.sends) : Fits(s.sends[i])
ASSUME \A l \in Layouts : \A i \in 1..Len(l) : Fits(l[i])
=============================================================================
