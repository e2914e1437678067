-------------------------- MODULE SpsParser_proofs --------------------------
(***************************************************************************)
(* Proofs about SpsParser: it stays in its tables and in the data whatever *)
(* it is given, and of what an encoder sends as SpsSyntax says it reads    *)
(* the parameter sets that it can read field by field at the place where   *)
(* each was put.                                                           *)
(*                                                                         *)
(* ReaderInv is the first, preserved by every step of the parser on any    *)
(* data (ParserReads).                                                     *)
(*                                                                         *)
(* For the second the rows of the parser's table are set against the       *)
(* elements of the encoder. They are Paired: the code of each element is   *)
(* the one the row reads. And they Agree: whenever the parser comes to a   *)
(* row, Times, which asks what was read before, gives the number of values *)
(* that the encoder sends of the element. Knows is what makes the          *)
(* questions answerable: the fields that were not sent are 0, and those    *)
(* that were sent are what was sent. Both are shown for every SPS, and for *)
(* every PPS but those whose slice groups or extension the parser does not *)
(* read as the standard has them (SpsMatches, PpsMatches). To be read, a   *)
(* set needs more: numbers of at most 25 bits, 4x4 lists sent to their     *)
(* end, arrays with room, and of a PPS without an extension that the stop  *)
(* bit ends a byte (SpsReadable, PpsCanRead).                              *)
(*                                                                         *)
(* Way then is an invariant of the parser over such data: it is at the     *)
(* value that the encoder put where it reads (Walk), it never leaves the   *)
(* data, and at its end it is behind the last bit (WayKeeps). What calls   *)
(* the parser is in Ingest_proofs.                                         *)
(***************************************************************************)
EXTENDS SpsParser, Coding_proofs

-----------------------------------------------------------------------------
(* The fields of the parser and the elements of the encoder.                *)

SpsTable == SpsFields \o VuiFields

\* A field of the parser and the element of the encoder it takes.
Paired(f, e) ==
  \/ f.kind \in {"flag", "id"} /\ e.as = "u" /\ e.n = 1
  \/ f.kind = "u" /\ e.as = "u" /\ e.n = f.n /\ e.n \in 1..32
  \/ f.kind \in {"ue", "se", "list", "hrd", "more"} /\ e.as = f.kind /\ e.n = 0

\* The table of the parser is that of the SPS with that of the VUI behind it.
LEMMA SpsTableIs ==
  /\ Len(SpsTable) = 84
  /\ \A k \in 1..84 : SpsTable[k] = IF k <= 36 THEN SpsFields[k] ELSE VuiFields[k - 36]
<1>1. Len(SpsTable) = 84 /\ \A k \in 1..36 : SpsTable[k] = SpsFields[k]
  BY DEF SpsTable, SpsFields, VuiFields
<1>2. \A k \in 37..84 : SpsTable[k] = VuiFields[k - 36]
  BY DEF SpsTable, SpsFields, VuiFields
<1> QED  BY <1>1, <1>2

\* 36 elements s and 48 elements v.
BothParts(E, s, v) ==
  /\ Len(E) = 84 /\ E = [k \in 1..84 |-> E[k]]
  /\ \A k \in 1..36 : E[k] = s[k]
  /\ \A k \in 37..84 : E[k] = v[k - 36]

\* So are the elements that an encoder sends.
LEMMA SpsElementsAre ==
  ASSUME NEW d
  PROVE  BothParts(AllSpsElements(d), SpsElements(d), VuiElements(d.vui))
<1> DEFINE E == AllSpsElements(d)
<1> HIDE DEF E
<1>1. PICK s, v : s = SpsElements(d) /\ v = VuiElements(d.vui)  OBVIOUS
<1>2. Len(s) = 36 /\ s = [k \in 1..36 |-> s[k]]
  <2>1. Len(s) = 36  BY <1>1 DEF SpsElements
  <2>2. s = [k \in 1..36 |-> s[k]]  BY <1>1 DEF SpsElements
  <2> QED  BY <2>1, <2>2
<1>3. Len(v) = 48 /\ v = [k \in 1..48 |-> v[k]]
  <2>1. PICK w, sent : v = VuiRows(w, sent)  BY <1>1 DEF VuiElements
  <2>2. Len(v) = 48  BY <2>1 DEF VuiRows
  <2>3. v = [k \in 1..48 |-> v[k]]  BY SMTT(20), <2>1 DEF VuiRows
  <2> QED  BY <2>2, <2>3
<1>4. E = s \o v  BY <1>1 DEF E, AllSpsElements
<1> DEFINE S == {s[k] : k \in 1..36} \cup {v[k] : k \in 1..48}
<1>5. s \in Seq(S) /\ v \in Seq(S)
  <2>1. \A n \in Nat : \A f, R : f = [k \in 1..n |-> f[k]] /\ (\A k \in 1..n : f[k] \in R)
          => f \in Seq(R)
    OBVIOUS
  <2>2. (\A k \in 1..36 : s[k] \in S) /\ (\A k \in 1..48 : v[k] \in S)  BY Zenon
  <2>3. 36 \in Nat /\ 48 \in Nat  OBVIOUS
  <2> HIDE DEF S
  <2>4. s \in Seq(S)  BY <2>1, <2>2, <2>3, <1>2
  <2>5. v \in Seq(S)  BY <2>1, <2>2, <2>3, <1>3
  <2> QED  BY <2>4, <2>5
<1> HIDE DEF S
<1>6. /\ E \in Seq(S) /\ Len(E) = Len(s) + Len(v)
      /\ \A k \in 1..Len(s) : E[k] = s[k]
      /\ \A k \in 1..Len(v) : E[Len(s) + k] = v[k]
  <2>1. IsCat(E, s, v, S)  BY <1>4, <1>5 DEF IsCat
  <2> QED  BY <2>1, Catenation
<1>7. Len(E) = 84 /\ \A k \in 1..36 : E[k] = s[k]  BY <1>2, <1>3, <1>6
<1>8. ASSUME NEW k \in 37..84 PROVE E[k] = v[k - 36]
  <2>1. k - 36 \in 1..48 /\ 36 + (k - 36) = k  OBVIOUS
  <2>2. E[36 + (k - 36)] = v[k - 36]  BY <2>1, <1>2, <1>3, <1>6
  <2> QED  BY <2>1, <2>2, Zenon
<1>9. E = [k \in 1..84 |-> E[k]]
  <2>1. E = [k \in 1..Len(E) |-> E[k]]  BY <1>6
  <2> QED  BY <2>1, <1>7, Zenon
<1> QED  BY <1>1, <1>7, <1>8, <1>9, Zenon DEF BothParts, E

\* Each field of an SPS has the width and the code of its element.
LEMMA SpsPaired ==
  ASSUME NEW d, NEW F, F = SpsFields, NEW T, T = SpsElements(d)
  PROVE  \A k \in 1..36 : Paired(F[k], T[k])
<1>1. /\ Paired(F[1], T[1]) /\ Paired(F[2], T[2]) /\ Paired(F[3], T[3])
      /\ Paired(F[4], T[4]) /\ Paired(F[5], T[5]) /\ Paired(F[6], T[6])
      /\ Paired(F[7], T[7]) /\ Paired(F[8], T[8]) /\ Paired(F[9], T[9])
      /\ Paired(F[10], T[10]) /\ Paired(F[11], T[11]) /\ Paired(F[12], T[12])
  BY SMTT(30) DEF Paired, Get1, GetN, GetUe, GetSe, Row, u_n, u_1, ue_v, se_v, Element,
     SpsFields, SpsElements
<1>2. /\ Paired(F[13], T[13]) /\ Paired(F[14], T[14]) /\ Paired(F[15], T[15])
      /\ Paired(F[16], T[16]) /\ Paired(F[17], T[17]) /\ Paired(F[18], T[18])
      /\ Paired(F[19], T[19]) /\ Paired(F[20], T[20]) /\ Paired(F[21], T[21])
      /\ Paired(F[22], T[22]) /\ Paired(F[23], T[23]) /\ Paired(F[24], T[24])
  BY SMTT(30) DEF Paired, Get1, GetN, GetUe, GetSe, Row, u_n, u_1, ue_v, se_v, Element,
     SpsFields, SpsElements
<1>3. /\ Paired(F[25], T[25]) /\ Paired(F[26], T[26]) /\ Paired(F[27], T[27])
      /\ Paired(F[28], T[28]) /\ Paired(F[29], T[29]) /\ Paired(F[30], T[30])
      /\ Paired(F[31], T[31]) /\ Paired(F[32], T[32]) /\ Paired(F[33], T[33])
      /\ Paired(F[34], T[34]) /\ Paired(F[35], T[35]) /\ Paired(F[36], T[36])
  BY SMTT(30) DEF Paired, Get1, GetN, GetUe, GetSe, Row, u_n, u_1, ue_v, se_v, Element,
     SpsFields, SpsElements
<1> QED  BY <1>1, <1>2, <1>3

\* So has each field of the VUI,
LEMMA VuiPaired ==
  ASSUME NEW v, NEW sent, NEW F, F = VuiFields, NEW T, T = VuiRows(v, sent)
  PROVE  \A k \in 1..48 : Paired(F[k], T[k])
<1>1. /\ Paired(F[1], T[1]) /\ Paired(F[2], T[2]) /\ Paired(F[3], T[3])
      /\ Paired(F[4], T[4]) /\ Paired(F[5], T[5]) /\ Paired(F[6], T[6])
      /\ Paired(F[7], T[7]) /\ Paired(F[8], T[8]) /\ Paired(F[9], T[9])
      /\ Paired(F[10], T[10]) /\ Paired(F[11], T[11]) /\ Paired(F[12], T[12])
  BY SMTT(30) DEF Paired, Get1, GetN, GetUe, GetSe, Row, u_n, u_1, ue_v, se_v, Element,
     VuiFields, VuiRows
<1>2. /\ Paired(F[13], T[13]) /\ Paired(F[14], T[14]) /\ Paired(F[15], T[15])
      /\ Paired(F[16], T[16]) /\ Paired(F[17], T[17]) /\ Paired(F[18], T[18])
      /\ Paired(F[19], T[19]) /\ Paired(F[20], T[20]) /\ Paired(F[21], T[21])
      /\ Paired(F[22], T[22]) /\ Paired(F[23], T[23]) /\ Paired(F[24], T[24])
  BY SMTT(30) DEF Paired, Get1, GetN, GetUe, GetSe, Row, u_n, u_1, ue_v, se_v, Element,
     VuiFields, VuiRows
<1>3. /\ Paired(F[25], T[25]) /\ Paired(F[26], T[26]) /\ Paired(F[27], T[27])
      /\ Paired(F[28], T[28]) /\ Paired(F[29], T[29]) /\ Paired(F[30], T[30])
      /\ Paired(F[31], T[31]) /\ Paired(F[32], T[32]) /\ Paired(F[33], T[33])
      /\ Paired(F[34], T[34]) /\ Paired(F[35], T[35]) /\ Paired(F[36], T[36])
  BY SMTT(30) DEF Paired, Get1, GetN, GetUe, GetSe, Row, u_n, u_1, ue_v, se_v, Element,
     VuiFields, VuiRows
<1>4. /\ Paired(F[37], T[37]) /\ Paired(F[38], T[38]) /\ Paired(F[39], T[39])
      /\ Paired(F[40], T[40]) /\ Paired(F[41], T[41]) /\ Paired(F[42], T[42])
      /\ Paired(F[43], T[43]) /\ Paired(F[44], T[44]) /\ Paired(F[45], T[45])
      /\ Paired(F[46], T[46]) /\ Paired(F[47], T[47]) /\ Paired(F[48], T[48])
  BY SMTT(30) DEF Paired, Get1, GetN, GetUe, GetSe, Row, u_n, u_1, ue_v, se_v, Element,
     VuiFields, VuiRows
<1> QED  BY <1>1, <1>2, <1>3, <1>4

\* and each of a PPS.
LEMMA PpsPaired ==
  ASSUME NEW d, NEW F, F = PpsFields, NEW T, T = PpsElements(d)
  PROVE  \A k \in 1..27 : Paired(F[k], T[k])
<1>1. /\ Paired(F[1], T[1]) /\ Paired(F[2], T[2]) /\ Paired(F[3], T[3])
      /\ Paired(F[4], T[4]) /\ Paired(F[5], T[5]) /\ Paired(F[6], T[6])
      /\ Paired(F[7], T[7]) /\ Paired(F[8], T[8]) /\ Paired(F[9], T[9])
  BY SMTT(30) DEF Paired, Get1, GetN, GetUe, GetSe, Row, u_n, u_1, ue_v, se_v, Element,
     PpsFields, PpsElements
<1>2. /\ Paired(F[10], T[10]) /\ Paired(F[11], T[11]) /\ Paired(F[12], T[12])
      /\ Paired(F[13], T[13]) /\ Paired(F[14], T[14]) /\ Paired(F[15], T[15])
      /\ Paired(F[16], T[16]) /\ Paired(F[17], T[17]) /\ Paired(F[18], T[18])
  BY SMTT(30) DEF Paired, Get1, GetN, GetUe, GetSe, Row, u_n, u_1, ue_v, se_v, Element,
     PpsFields, PpsElements
<1>3. /\ Paired(F[19], T[19]) /\ Paired(F[20], T[20]) /\ Paired(F[21], T[21])
      /\ Paired(F[22], T[22]) /\ Paired(F[23], T[23]) /\ Paired(F[24], T[24])
      /\ Paired(F[25], T[25]) /\ Paired(F[26], T[26]) /\ Paired(F[27], T[27])
  BY SMTT(30) DEF Paired, Get1, GetN, GetUe, GetSe, Row, u_n, u_1, ue_v, se_v, Element,
     PpsFields, PpsElements
<1> QED  BY <1>1, <1>2, <1>3

\* What can be sent of a parameter set has codes.
LEMMA PairedCoded ==
  ASSUME NEW f, NEW e, Paired(f, e), ElementOK(e)
  PROVE  HasCode(e)
<1>1. e.as \in {"u", "ue", "se", "list", "hrd", "more"}  BY Zenon DEF Paired
<1>2. e.n \in 0..32
  <2>1. e.n = 1 \/ e.n \in 1..32 \/ e.n = 0  BY Zenon DEF Paired
  <2>2. \A n : n = 1 \/ n \in 1..32 \/ n = 0 => n \in 0..32  OBVIOUS
  <2> QED  BY <2>1, <2>2, Zenon
<1> QED  BY <1>1, <1>2, Zenon DEF HasCode

\* All of them in one table.
LEMMA SpsAllPaired ==
  ASSUME NEW d, NEW E, E = AllSpsElements(d), NEW k \in 1..84
  PROVE  Paired(SpsTable[k], E[k])
<1>0. /\ \A m \in 1..36 : E[m] = SpsElements(d)[m]
      /\ \A m \in 37..84 : E[m] = VuiElements(d.vui)[m - 36]
  BY SpsElementsAre, ZenonT(30) DEF BothParts
<1>1. CASE k \in 1..36
  <2>1. SpsTable[k] = SpsFields[k] /\ E[k] = SpsElements(d)[k]
    <3>1. k <= 36  BY <1>1
    <3> QED  BY <3>1, <1>0, <1>1, SpsTableIs, Zenon
  <2>2. Paired(SpsFields[k], SpsElements(d)[k])  BY <1>1, SpsPaired, Zenon
  <2> QED  BY <2>1, <2>2, Zenon
<1>2. CASE k \in 37..84
  <2>1. PICK j : j = k - 36  OBVIOUS
  <2>2. j \in 1..48  BY <1>2, <2>1
  <2>3. SpsTable[k] = VuiFields[j] /\ E[k] = VuiElements(d.vui)[j]
    <3>1. ~ (k <= 36)  BY <1>2
    <3> QED  BY <3>1, <1>0, <1>2, <2>1, SpsTableIs, Zenon
  <2>4. PICK v, sent : VuiElements(d.vui) = VuiRows(v, sent)  BY DEF VuiElements
  <2>5. Paired(VuiFields[j], VuiRows(v, sent)[j])  BY <2>2, VuiPaired, Zenon
  <2> QED  BY <2>3, <2>4, <2>5, Zenon
<1> QED  BY <1>1, <1>2

\* Every element of an SPS that can be sent has codes.
LEMMA SpsCoded ==
  ASSUME NEW d, SpsOK(d), NEW E, E = AllSpsElements(d)
  PROVE  AllCoded(E) /\ Len(E) = 84
<1>1. Len(E) = 84 /\ E = [k \in 1..84 |-> E[k]]  BY SpsElementsAre, Zenon DEF BothParts
<1>2. ASSUME NEW k \in 1..84 PROVE HasCode(E[k])
  <2>1. k \in 1..Len(AllSpsElements(d))  BY <1>1
  <2>2. ElementOK(E[k])  BY <2>1, Zenon DEF SpsOK
  <2>3. Paired(SpsTable[k], E[k])  BY SpsAllPaired
  <2> QED  BY <2>2, <2>3, PairedCoded
<1> QED  BY <1>1, <1>2, Zenon DEF AllCoded

\* So has every element of a PPS.
LEMMA PpsCoded ==
  ASSUME NEW d, PpsOK(d), NEW E, E = PpsElements(d)
  PROVE  AllCoded(E) /\ Len(E) = 27
<1>1. Len(E) = 27 /\ E = [k \in 1..27 |-> E[k]]
  <2>1. Len(E) = 27  BY DEF PpsElements
  <2>2. E = [k \in 1..27 |-> E[k]]  BY DEF PpsElements
  <2> QED  BY <2>1, <2>2
<1>2. ASSUME NEW k \in 1..27 PROVE HasCode(E[k])
  <2>1. k \in 1..Len(PpsElements(d))  BY <1>1
  <2>2. ElementOK(E[k])  BY <2>1, Zenon DEF PpsOK
  <2>3. Paired(PpsFields[k], E[k])  BY PpsPaired, Zenon
  <2> QED  BY <2>2, <2>3, PairedCoded
<1> QED  BY <1>1, <1>2, Zenon DEF AllCoded

-----------------------------------------------------------------------------
(* How often a field is read.                                               *)

One(b) == IF b THEN 1 ELSE 0

\* Times, label by label.
LEMMA TimesIs ==
  ASSUME NEW s
  PROVE  /\ Times(s, "sps") = 1 /\ Times(s, "pps") = 1
         /\ Times(s, "high") = One(HighProfile(s))
         /\ Times(s, "planes") = One(HighProfile(s) /\ s.chroma_format_idc = 3)
         /\ Times(s, "matrix") = s.seq_scaling_matrix_present_flag * ListCount(s)
         /\ Times(s, "poc0") = One(s.pic_order_cnt_type = 0)
         /\ Times(s, "poc1") = One(s.pic_order_cnt_type = 1)
         /\ Times(s, "cycle") = s.num_ref_frames_in_pic_order_cnt_cycle
         /\ Times(s, "fields") = 1 - s.frame_mbs_only_flag
         /\ Times(s, "crop") = s.frame_cropping_flag
         /\ Times(s, "vui") = s.vui_parameters_present_flag
         /\ Times(s, "aspect") = s.aspect_ratio_info_present_flag
         /\ Times(s, "sar") = One(s.aspect_ratio_idc = 255)
         /\ Times(s, "overscan") = s.overscan_info_present_flag
         /\ Times(s, "signal") = s.video_signal_type_present_flag
         /\ Times(s, "colour") = s.colour_description_present_flag
         /\ Times(s, "chroma") = s.chroma_loc_info_present_flag
         /\ Times(s, "timing") = s.timing_info_present_flag
         /\ Times(s, "nal") = s.nal_hrd_parameters_present_flag
         /\ Times(s, "nalcpb") = s.nal_hrd_parameters_present_flag * 3 * (s.cpb_cnt_minus1 + 1)
         /\ Times(s, "vcl") = s.vcl_hrd_parameters_present_flag
         /\ Times(s, "vclcpb") = s.vcl_hrd_parameters_present_flag * 3 * (s.cpb_cnt_minus1 + 1)
         /\ Times(s, "hrd") = One(\/ s.nal_hrd_parameters_present_flag = 1
                                  \/ s.vcl_hrd_parameters_present_flag = 1)
         /\ Times(s, "limits") = s.bitstream_restriction_flag
BY Zenon DEF Times, One

\* How often a field of a PPS is read, by what its row says.
LEMMA PpsTimesIs ==
  ASSUME NEW s, NEW n, n = s.num_slice_groups_minus1
  PROVE  /\ Times(s, "pps") = 1
         /\ Times(s, "groups") = One(n > 0)
         /\ Times(s, "runs") = One(n > 0 /\ s.slice_group_map_type = 0) * (n + 1)
         /\ Times(s, "rectangles") = One(n > 0 /\ s.slice_group_map_type = 2) * 2 * (n + 1)
         /\ Times(s, "change") = One(n > 0 /\ s.slice_group_map_type \in 3..5)
         /\ Times(s, "units") = One(n > 0 /\ s.slice_group_map_type = 6)
         /\ Times(s, "ids") = One(n > 0 /\ s.slice_group_map_type = 6)
                                * s.pic_size_in_map_units_minus1
         /\ Times(s, "more") = s.more_rbsp_data
         /\ Times(s, "lists") = s.pic_scaling_matrix_present_flag
                                  * (6 + 2 * s.transform_8x8_mode_flag)
         /\ Times(s, "second") = s.pic_scaling_matrix_present_flag
BY Zenon DEF Times, One

\* The names of the fields are those of the structure.
LEMMA TablesNamed ==
  /\ \A k \in 1..36 : SpsFields[k].name \in Names
  /\ \A k \in 1..48 : VuiFields[k].name \in Names
  /\ \A k \in 1..27 : PpsFields[k].name \in Names
<1>1. Len(SpsFields) = 36  BY DEF SpsFields
<1>2. Len(VuiFields) = 48  BY DEF VuiFields
<1>3. Len(PpsFields) = 27  BY DEF PpsFields
<1> QED  BY <1>1, <1>2, <1>3, Zenon DEF Names, NamesOf

\* A structure of numbers.
Numbers == [Names -> Int]

Has(s, names) == \A name \in names : s[name] \in Int

\* What is asked for the number of times is a number: of an SPS,
LEMMA SpsNumbers ==
  ASSUME NEW s \in Numbers
  PROVE  Has(s, {"profile_idc", "chroma_format_idc", "seq_scaling_matrix_present_flag",
                 "pic_order_cnt_type", "num_ref_frames_in_pic_order_cnt_cycle",
                 "frame_mbs_only_flag", "frame_cropping_flag", "vui_parameters_present_flag"})
<1>1. \A k \in 1..36 : s[SpsFields[k].name] \in Int  BY TablesNamed, Zenon DEF Numbers
<1>2. /\ SpsFields[1].name = "profile_idc" /\ SpsFields[9].name = "chroma_format_idc"
      /\ SpsFields[14].name = "seq_scaling_matrix_present_flag"
      /\ SpsFields[17].name = "pic_order_cnt_type"
      /\ SpsFields[22].name = "num_ref_frames_in_pic_order_cnt_cycle"
      /\ SpsFields[28].name = "frame_mbs_only_flag"
      /\ SpsFields[31].name = "frame_cropping_flag"
      /\ SpsFields[36].name = "vui_parameters_present_flag"
  BY DEF SpsFields, Get1, GetN, GetUe, GetSe, Row
<1>3. {1, 9, 14, 17, 22, 28, 31, 36} \subseteq 1..36  BY SMT
<1> QED  BY <1>1, <1>2, <1>3, ZenonT(30) DEF Has

\* of the VUI,
LEMMA VuiNumbers ==
  ASSUME NEW s \in Numbers
  PROVE  Has(s, {"aspect_ratio_info_present_flag", "aspect_ratio_idc",
                 "overscan_info_present_flag", "video_signal_type_present_flag",
                 "colour_description_present_flag", "chroma_loc_info_present_flag",
                 "timing_info_present_flag", "nal_hrd_parameters_present_flag",
                 "cpb_cnt_minus1", "vcl_hrd_parameters_present_flag",
                 "bitstream_restriction_flag"})
<1>1. \A k \in 1..48 : s[VuiFields[k].name] \in Int  BY TablesNamed, Zenon DEF Numbers
<1>2. /\ VuiFields[1].name = "aspect_ratio_info_present_flag"
      /\ VuiFields[2].name = "aspect_ratio_idc"
      /\ VuiFields[5].name = "overscan_info_present_flag"
      /\ VuiFields[7].name = "video_signal_type_present_flag"
      /\ VuiFields[10].name = "colour_description_present_flag"
      /\ VuiFields[14].name = "chroma_loc_info_present_flag"
      /\ VuiFields[17].name = "timing_info_present_flag"
      /\ VuiFields[21].name = "nal_hrd_parameters_present_flag"
      /\ VuiFields[22].name = "cpb_cnt_minus1"
      /\ VuiFields[30].name = "vcl_hrd_parameters_present_flag"
      /\ VuiFields[41].name = "bitstream_restriction_flag"
  BY DEF VuiFields, Get1, GetN, GetUe, GetSe, Row
<1> QED  BY <1>1, <1>2, SMT DEF Has

\* and of a PPS.
LEMMA PpsNumbers ==
  ASSUME NEW s \in Numbers
  PROVE  Has(s, {"num_slice_groups_minus1", "slice_group_map_type",
                 "pic_size_in_map_units_minus1", "more_rbsp_data",
                 "transform_8x8_mode_flag", "pic_scaling_matrix_present_flag"})
<1>1. \A k \in 1..27 : s[PpsFields[k].name] \in Int  BY TablesNamed, Zenon DEF Numbers
<1>2. /\ PpsFields[5].name = "num_slice_groups_minus1"
      /\ PpsFields[6].name = "slice_group_map_type"
      /\ PpsFields[11].name = "pic_size_in_map_units_minus1"
      /\ PpsFields[23].name = "more_rbsp_data"
      /\ PpsFields[24].name = "transform_8x8_mode_flag"
      /\ PpsFields[25].name = "pic_scaling_matrix_present_flag"
  BY DEF PpsFields, Get1, GetN, GetUe, GetSe, Row
<1>3. {5, 6, 11, 23, 24, 25} \subseteq 1..27  BY SMT
<1> QED  BY <1>1, <1>2, <1>3, Zenon DEF Has

SpsLabels == {"sps", "high", "planes", "matrix", "poc0", "poc1", "cycle", "fields", "crop"}
VuiLabels == {"vui", "aspect", "sar", "overscan", "signal", "colour", "chroma", "timing",
              "nal", "nalcpb", "vcl", "vclcpb", "hrd", "limits"}
PpsLabels == {"pps", "groups", "runs", "rectangles", "change", "units", "ids", "more",
              "lists", "second"}

\* The rows of each table say when they are read in words of their own.
LEMMA TablesLabelled ==
  /\ \A k \in 1..36 : SpsFields[k].when \in SpsLabels
  /\ \A k \in 1..48 : VuiFields[k].when \in VuiLabels
  /\ \A k \in 1..27 : PpsFields[k].when \in PpsLabels
<1>1. \A k \in 1..36 : SpsFields[k].when \in SpsLabels
  BY DEF SpsFields, Get1, GetN, GetUe, GetSe, Row, SpsLabels
<1>2. \A k \in 1..48 : VuiFields[k].when \in VuiLabels
  BY DEF VuiFields, Get1, GetN, GetUe, GetSe, Row, VuiLabels
<1>3. \A k \in 1..27 : PpsFields[k].when \in PpsLabels
  BY DEF PpsFields, Get1, GetN, GetUe, GetSe, Row, PpsLabels
<1> QED  BY <1>1, <1>2, <1>3

\* It is a number of times.
LEMMA TimesInt ==
  ASSUME NEW s \in Numbers, NEW w \in SpsLabels \cup VuiLabels \cup PpsLabels
  PROVE  Times(s, w) \in Int
<1>0. \A b : One(b) \in Int  BY DEF One
<1>p. \A x, y \in Int : x * y \in Int /\ x + y \in Int /\ x - y \in Int  OBVIOUS
<1>n. 1 \in Int /\ 2 \in Int /\ 3 \in Int /\ 6 \in Int /\ 8 \in Int /\ 12 \in Int
  OBVIOUS
<1>1. CASE w \in SpsLabels
  <2>1. /\ s.seq_scaling_matrix_present_flag \in Int
        /\ s.num_ref_frames_in_pic_order_cnt_cycle \in Int
        /\ s.frame_mbs_only_flag \in Int /\ s.frame_cropping_flag \in Int
    BY SpsNumbers, Zenon DEF Has
  <2>2. ListCount(s) \in Int  BY <1>n, Zenon DEF ListCount
  <2>3. /\ s.seq_scaling_matrix_present_flag * ListCount(s) \in Int
        /\ 1 - s.frame_mbs_only_flag \in Int
    BY <1>p, <1>n, <2>1, <2>2
  <2>4. \A x \in SpsLabels : Times(s, x) \in Int
    BY <2>1, <2>3, TimesIs, SMT DEF SpsLabels, One
  <2> QED  BY <1>1, <2>4
<1>2. CASE w \in VuiLabels
  <2>1. /\ s.aspect_ratio_info_present_flag \in Int /\ s.overscan_info_present_flag \in Int
        /\ s.video_signal_type_present_flag \in Int
        /\ s.colour_description_present_flag \in Int
        /\ s.chroma_loc_info_present_flag \in Int /\ s.timing_info_present_flag \in Int
        /\ s.nal_hrd_parameters_present_flag \in Int /\ s.cpb_cnt_minus1 \in Int
        /\ s.vcl_hrd_parameters_present_flag \in Int /\ s.bitstream_restriction_flag \in Int
    BY VuiNumbers, Zenon DEF Has
  <2>2. s.vui_parameters_present_flag \in Int  BY SpsNumbers, Zenon DEF Has
  <2>3. /\ s.nal_hrd_parameters_present_flag * 3 * (s.cpb_cnt_minus1 + 1) \in Int
        /\ s.vcl_hrd_parameters_present_flag * 3 * (s.cpb_cnt_minus1 + 1) \in Int
    BY <1>p, <1>n, <2>1
  <2>4. \A x \in VuiLabels : Times(s, x) \in Int
    BY <2>1, <2>2, <2>3, TimesIs, SMT DEF VuiLabels, One
  <2> QED  BY <1>2, <2>4
<1>3. CASE w \in PpsLabels
  <2>1. /\ s.num_slice_groups_minus1 \in Int /\ s.pic_size_in_map_units_minus1 \in Int
        /\ s.more_rbsp_data \in Int /\ s.transform_8x8_mode_flag \in Int
        /\ s.pic_scaling_matrix_present_flag \in Int
    BY PpsNumbers, Zenon DEF Has
  <2>2. \A b : /\ One(b) * (s.num_slice_groups_minus1 + 1) \in Int
                  /\ One(b) * 2 * (s.num_slice_groups_minus1 + 1) \in Int
                  /\ One(b) * s.pic_size_in_map_units_minus1 \in Int
                  /\ s.pic_scaling_matrix_present_flag
                       * (6 + 2 * s.transform_8x8_mode_flag) \in Int
    BY <1>0, <1>p, <1>n, <2>1
  <2>3. \A x \in PpsLabels : Times(s, x) \in Int
    BY <1>0, <2>1, <2>2, PpsTimesIs, SMT DEF PpsLabels
  <2> QED  BY <1>3, <2>3
<1> QED  BY <1>1, <1>2, <1>3

-----------------------------------------------------------------------------
(* The parser is in its table and in the data.                              *)

AllLabels == SpsLabels \cup VuiLabels \cup PpsLabels
Kinds     == {"flag", "u", "ue", "se", "list", "hrd", "id", "more"}
Flags     == {"seq_scaling_matrix_present_flag", "pic_scaling_matrix_present_flag",
              "transform_8x8_mode_flag"}

\* A row of a table: the fields that are counted with are read as such.
RowOK(f) ==
  /\ f.name \in Names /\ f.when \in AllLabels /\ f.kind \in Kinds /\ f.n \in 0..32
  /\ f.kind = "list" => f.when \in {"matrix", "lists"}
  /\ f.name \in Flags => f.kind = "flag"
  /\ f.name = "pic_size_in_map_units_minus1" => f.kind = "ue"

Table(F, N) == N \in Nat /\ Len(F) = N /\ \A k \in 1..N : RowOK(F[k])

\* The tables are made of such rows.
LEMMA RowsOK ==
  /\ \A k \in 1..36 : RowOK(SpsFields[k])
  /\ \A k \in 1..48 : RowOK(VuiFields[k])
  /\ \A k \in 1..27 : RowOK(PpsFields[k])
<1> DEFINE Kind(f) == /\ f.kind \in Kinds /\ f.n \in 0..32
                      /\ f.kind = "list" => f.when \in {"matrix", "lists"}
                      /\ f.name \in Flags => f.kind = "flag"
                      /\ f.name = "pic_size_in_map_units_minus1" => f.kind = "ue"
<1>1. \A k \in 1..36 : Kind(SpsFields[k])
  BY DEF SpsFields, Get1, GetN, GetUe, GetSe, Row, Kinds, Flags
<1>2. \A k \in 1..48 : Kind(VuiFields[k])
  BY DEF VuiFields, Get1, GetN, GetUe, GetSe, Row, Kinds, Flags
<1>3. \A k \in 1..27 : Kind(PpsFields[k])
  BY DEF PpsFields, Get1, GetN, GetUe, GetSe, Row, Kinds, Flags
<1>4. ASSUME NEW f, Kind(f), f.name \in Names, f.when \in AllLabels PROVE RowOK(f)
  BY <1>4, Zenon DEF RowOK
<1> HIDE DEF Kind
<1> QED  BY <1>1, <1>2, <1>3, <1>4, TablesNamed, TablesLabelled, Zenon DEF AllLabels

\* Whichever parser it is.
LEMMA FieldsTable ==
  ASSUME set \in {"sps", "pps"}
  PROVE  /\ Table(Fields, Len(Fields))
         /\ set = "sps" => Fields = SpsTable /\ Len(Fields) = 84
         /\ set = "pps" => Fields = PpsFields /\ Len(Fields) = 27
<1>1. CASE set = "sps"
  <2>1. Fields = SpsTable  BY <1>1 DEF Fields, SpsTable
  <2>2. ASSUME NEW k \in 1..84 PROVE RowOK(SpsTable[k])
    <3>1. CASE k <= 36
      <4>1. k \in 1..36  BY <3>1
      <4> QED  BY <3>1, <4>1, SpsTableIs, RowsOK, Zenon
    <3>2. CASE ~ (k <= 36)
      <4>1. k - 36 \in 1..48  BY <3>2
      <4> QED  BY <3>2, <4>1, SpsTableIs, RowsOK, ZenonT(30)
    <3> QED  BY <3>1, <3>2
  <2>3. Table(SpsTable, 84)  BY <2>2, SpsTableIs DEF Table
  <2> QED  BY <1>1, <2>1, <2>3, SpsTableIs
<1>2. CASE set = "pps"
  <2>1. Fields = PpsFields  BY <1>2 DEF Fields
  <2>2. Len(PpsFields) = 27  BY DEF PpsFields
  <2>3. Table(PpsFields, 27)  BY <2>2, RowsOK DEF Table
  <2> QED  BY <1>2, <2>1, <2>2, <2>3
<1> QED  BY <1>1, <1>2

\* The numbers that are counted with.
Sane(s) ==
  /\ s \in Numbers /\ \A name \in Flags : s[name] \in {0, 1}
  /\ s.pic_size_in_map_units_minus1 \in Nat

\* They are in the structure.
LEMMA FlagNames == Flags \subseteq Names /\ "pic_size_in_map_units_minus1" \in Names
<1>1. SpsFields[14].name = "seq_scaling_matrix_present_flag"
  BY DEF SpsFields, Get1, GetN, GetUe, GetSe, Row
<1>2. /\ PpsFields[11].name = "pic_size_in_map_units_minus1"
      /\ PpsFields[24].name = "transform_8x8_mode_flag"
      /\ PpsFields[25].name = "pic_scaling_matrix_present_flag"
  BY DEF PpsFields, Get1, GetN, GetUe, GetSe, Row
<1>3. 14 \in 1..36 /\ 11 \in 1..27 /\ 24 \in 1..27 /\ 25 \in 1..27  BY SMT
<1> QED  BY <1>1, <1>2, <1>3, TablesNamed, Zenon DEF Flags

\* A structure that is cleared.
LEMMA ZerosSane == Sane([name \in Names |-> 0])
<1>1. Flags \subseteq Names /\ "pic_size_in_map_units_minus1" \in Names  BY FlagNames
<1>2. PICK Z : Z = [name \in Names |-> 0]  OBVIOUS
<1>3. Z \in Numbers  BY <1>2 DEF Numbers
<1>4. \A name \in Names : Z[name] = 0  BY <1>2
<1>5. (\A name \in Flags : Z[name] \in {0, 1}) /\ Z.pic_size_in_map_units_minus1 \in Nat
  BY <1>1, <1>4
<1> QED  BY <1>2, <1>3, <1>5, Zenon DEF Sane

\* A matrix has at most 12 lists.
LEMMA FewLists ==
  ASSUME NEW s, Sane(s), NEW w \in {"matrix", "lists"}
  PROVE  Times(s, w) <= 12
<1>1. /\ s.seq_scaling_matrix_present_flag \in {0, 1}
      /\ s.pic_scaling_matrix_present_flag \in {0, 1}
      /\ s.transform_8x8_mode_flag \in {0, 1}
  BY Zenon DEF Sane, Flags
<1>2. ListCount(s) = 8 \/ ListCount(s) = 12  BY Zenon DEF ListCount
<1>3. \A x, y \in {0, 1}, n \in {8, 12} : x * n <= 12 /\ x * (6 + 2 * y) <= 12  OBVIOUS
<1>4. Times(s, "matrix") <= 12
  <2>1. Times(s, "matrix") = s.seq_scaling_matrix_present_flag * ListCount(s)
    BY TimesIs, Zenon
  <2>2. ListCount(s) \in {8, 12}  BY <1>2
  <2> QED  BY <1>1, <1>3, <2>1, <2>2, Zenon
<1>5. Times(s, "lists") <= 12
  <2>1. Times(s, "lists") = s.pic_scaling_matrix_present_flag
                              * (6 + 2 * s.transform_8x8_mode_flag)
    BY PpsTimesIs, Zenon
  <2> QED  BY <1>1, <1>3, <2>1, Zenon
<1> QED  BY <1>4, <1>5

\* The next field that is read: it is, and none before it.
NextRead(F, N, s, k, i) ==
  /\ i \in k + 1..N + 1
  /\ i <= N => Times(s, F[i].when) > 0
  /\ \A j \in k + 1..i - 1 : Times(s, F[j].when) <= 0

\* Following finds it.
LEMMA FollowingIs ==
  ASSUME set \in {"sps", "pps"}, NEW s \in Numbers, NEW N, N = Len(Fields), NEW k \in 1..N
  PROVE  NextRead(Fields, N, s, k, Following(s, k))
<1>1. N \in Nat /\ \A j \in 1..N : Times(s, Fields[j].when) \in Int
  <2>1. Table(Fields, N)  BY FieldsTable
  <2>2. \A j \in 1..N : Fields[j].when \in AllLabels  BY <2>1, Zenon DEF Table, RowOK
  <2> QED  BY <2>1, <2>2, TimesInt, Zenon DEF Table, AllLabels
<1> DEFINE T == {j \in k + 1..N + 1 : j <= N => Times(s, Fields[j].when) > 0}
<1>2. T \in SUBSET Nat
  <2>1. \A j \in k + 1..N + 1 : j \in Nat  BY <1>1
  <2> QED  BY <2>1, Zenon
<1>3. T # {}
  <2>1. N + 1 \in k + 1..N + 1 /\ ~ (N + 1 <= N)  BY <1>1
  <2>2. N + 1 \in T  BY <2>1, Zenon
  <2> QED  BY <2>2, Zenon
<1>4. \A j : j \in T <=> j \in k + 1..N + 1 /\ (j <= N => Times(s, Fields[j].when) > 0)
  BY Zenon
<1> HIDE DEF T
<1>5. PICK i \in T : \A m \in T : i <= m  BY <1>2, <1>3, LeastNat
<1>6. i \in k + 1..N + 1 /\ (i <= N => Times(s, Fields[i].when) > 0)
  BY <1>4, <1>5
<1>7. ASSUME NEW j \in k + 1..i - 1 PROVE Times(s, Fields[j].when) <= 0
  <2>1. j \in 1..N /\ j \in k + 1..N + 1 /\ ~ (i <= j)  BY <1>1, <1>6
  <2>2. j \notin T  BY <1>5, <2>1
  <2>3. ~ (Times(s, Fields[j].when) > 0)  BY <1>4, <2>1, <2>2
  <2> QED  BY <1>1, <2>1, <2>3
<1>8. NextRead(Fields, N, s, k, i)  BY <1>6, <1>7, Zenon DEF NextRead
<1>9. Following(s, k) = CHOOSE x \in k + 1..N + 1 :
                          /\ x <= N => Times(s, Fields[x].when) > 0
                          /\ \A j \in k + 1..x - 1 : Times(s, Fields[j].when) <= 0
  BY Zenon DEF Following
<1> QED  BY <1>8, <1>9, Zenon DEF NextRead

\* What a field is read as.
LEMMA ReadValue ==
  ASSUME NEW f, RowOK(f), Sane(sps), FieldInData(f),
         NEW b \in Seq(Nat), ctx.buf = b, Within(ctx, b)
  PROVE  /\ Read(f, ctx).val \in Int /\ Within(Read(f, ctx).ctx, b)
         /\ f.kind = "ue" => Read(f, ctx).val \in Nat
         /\ f.kind \in {"flag", "list"} => Read(f, ctx).val \in {0, 1}
<1>0. \A x : (x \in Nat => x \in Int) /\ (x \in {0, 1} => x \in Int)  OBVIOUS
<1>t. Total(ctx) = 8 * Len(b)  BY DEF Total
<1>1. CASE IsUe(f) \/ f.kind = "se"
  <2>1. CodeInData  BY <1>1 DEF FieldInData
  <2>2. CodeIn(b, ctx.bit_pos)  BY <1>t, <2>1, Zenon DEF CodeInData, CodeIn
  <2>3. /\ IsUe(f) => Read(f, ctx) = ParseUe(ctx)
        /\ ~ IsUe(f) /\ f.kind = "se" => Read(f, ctx) = ParseSe(ctx)
    <3>0. IsUe(f) => f.kind \notin {"se", "u", "id", "more"}  BY DEF IsUe
    <3>1. IsUe(f) => Read(f, ctx) = ParseUe(ctx)  BY <3>0, Zenon DEF Read
    <3>2. ~ IsUe(f) /\ f.kind = "se" => Read(f, ctx) = ParseSe(ctx)  BY Zenon DEF Read
    <3> QED  BY <3>1, <3>2
  <2>4. ParseUe(ctx).val \in Nat /\ Within(ParseUe(ctx).ctx, b)
    BY <2>2, UeStays
  <2>5. ParseSe(ctx).val \in Int /\ Within(ParseSe(ctx).ctx, b)
    BY <2>2, SeStays
  <2>6. f.kind = "se" => f.kind \notin {"ue", "flag", "list"}  OBVIOUS
  <2>7. IsUe(f) => f.kind \notin {"flag", "list"}  BY DEF IsUe
  <2>8. (IsUe(f) \/ f.kind = "se") /\ f.kind = "ue" => IsUe(f)  BY DEF IsUe
  <2> QED  BY <1>0, <1>1, <2>3, <2>4, <2>5, <2>6, <2>7, <2>8, Zenon
<1>2. CASE ~ IsUe(f) /\ f.kind = "u"
  <2>1. Read(f, ctx) = GetBits(ctx, f.n)  BY <1>2, Zenon DEF Read
  <2>2. f.n \in Nat
    <3>1. \A n \in 0..32 : n \in Nat  OBVIOUS
    <3> QED  BY <3>1, Zenon DEF RowOK
  <2>3. GetBits(ctx, f.n).val \in Nat /\ Within(GetBits(ctx, f.n).ctx, b)
    BY <2>2, BitsStay
  <2> QED  BY <1>0, <1>2, <2>1, <2>3, Zenon
<1>3. CASE ~ IsUe(f) /\ f.kind = "id"
  <2>1. PICK n : n = sps.pic_size_in_map_units_minus1  OBVIOUS
  <2>2. Read(f, ctx) = GetBits(ctx, n)  BY <1>3, <2>1, Zenon DEF Read
  <2>3. n \in Nat  BY <2>1, Zenon DEF Sane
  <2>4. GetBits(ctx, n).val \in Nat /\ Within(GetBits(ctx, n).ctx, b)
    BY <2>3, BitsStay
  <2> QED  BY <1>0, <1>3, <2>2, <2>4, Zenon
<1>4. CASE ~ IsUe(f) /\ f.kind = "more"
  <2>1. PICK m : m = MoreRbspData(ctx)  OBVIOUS
  <2>2. Read(f, ctx) = [val |-> m, ctx |-> ctx]  BY <1>4, <2>1, Zenon DEF Read
  <2>3. m \in {0, 1}  BY <2>1, Zenon DEF MoreRbspData
  <2>4. Read(f, ctx).val = m /\ Read(f, ctx).ctx = ctx  BY <2>2
  <2> QED  BY <1>0, <1>4, <2>3, <2>4, Zenon
<1>5. CASE ~ IsUe(f) /\ f.kind \in {"flag", "list", "hrd"}
  <2>1. ctx.bit_pos < Total(ctx)  BY <1>5, Zenon DEF FieldInData
  <2>2. Read(f, ctx) = Get1Bit(ctx)  BY <1>5, Zenon DEF Read
  <2>3. Get1Bit(ctx).val \in {0, 1} /\ Within(Get1Bit(ctx).ctx, b)
    BY <2>1, FlagStays
  <2> QED  BY <1>0, <1>5, <2>2, <2>3, Zenon
<1>6. f.kind = "ue" => IsUe(f)  BY DEF IsUe
<1> QED  BY <1>1, <1>2, <1>3, <1>4, <1>5, <1>6, Zenon DEF RowOK, Kinds

\* A scaling list that is being read.
ListIn(l) ==
  /\ l = [i |-> l.i, j |-> l.j, last |-> l.last, next |-> l.next]
  /\ l.i \in 0..11 /\ l.j \in Nat /\ l.j < (IF l.i < 6 THEN 16 ELSE 64)
  /\ l.last \in 1..255 /\ l.next \in 0..255

\* The way through the table: the field is read once more, and the buffer is left
\* only where nothing is known of what is read.
ReaderInv ==
  /\ set \in {"sps", "pps"} /\ Sane(sps)
  /\ field \in 1..Len(Fields) + 1 /\ round \in Nat
  /\ field <= Len(Fields) => round < Times(sps, Fields[field].when)
  /\ ctx.buf \in Seq(Nat) /\ Within(ctx, ctx.buf)
  /\ list = NoList \/ ListIn(list)

\* The call of the parser.
LEMMA CallReads ==
  ASSUME NEW which \in {"sps", "pps"}, NEW buf \in Seq(Nat), Call(which, buf)
  PROVE  ReaderInv'
<1>1. /\ set' = which /\ ctx' = Context(buf, 0) /\ sps' = [name \in Names |-> 0]
      /\ field' = 1 /\ round' = 0 /\ list' = NoList
  BY DEF Call
<1>2. Sane(sps')  BY <1>1, ZerosSane
<1>3. ctx'.buf = buf  BY <1>1 DEF Context
<1>4. Within(ctx', ctx'.buf)
  <2>1. 0 \in 0..8 * Len(buf)  OBVIOUS
  <2> QED  BY <1>1, <1>3, <2>1, Zenon DEF Within
<1>5. /\ field' \in 1..Len(Fields') + 1 /\ round' \in Nat
      /\ field' <= Len(Fields') => round' < Times(sps', Fields'[field'].when)
  <2>1. Fields' = IF which = "sps" THEN SpsFields \o VuiFields ELSE PpsFields
    BY <1>1, Zenon DEF Fields
  <2>2. CASE which = "sps"
    <3>1. Fields' = SpsTable  BY <2>1, <2>2 DEF SpsTable
    <3>2. Len(Fields') = 84 /\ Fields'[1] = SpsFields[1]  BY <3>1, SpsTableIs
    <3>3. SpsFields[1].when = "sps"  BY DEF SpsFields, GetN, Row
    <3>4. Times(sps', "sps") = 1  BY TimesIs
    <3> QED  BY <1>1, <3>2, <3>3, <3>4
  <2>3. CASE which = "pps"
    <3>1. Fields' = PpsFields  BY <2>1, <2>3
    <3>2. Len(Fields') = 27 /\ Fields'[1].when = "pps"
      BY <3>1 DEF PpsFields, GetUe, Row
    <3>4. Times(sps', "pps") = 1  BY TimesIs
    <3> QED  BY <1>1, <3>2, <3>4
  <2> QED  BY <2>2, <2>3
<1>6. list' = NoList \/ ListIn(list')  BY <1>1
<1>7. set' \in {"sps", "pps"} /\ ctx'.buf \in Seq(Nat)  BY <1>1, <1>3
<1> QED  BY <1>2, <1>4, <1>5, <1>6, <1>7, Zenon DEF ReaderInv

\* A step that reads a field.
LEMMA FieldReads ==
  ASSUME ReaderInv, ReadField
  PROVE  ReaderInv'
<1> DEFINE f == Fields[field]
           r == Read(f, ctx)
           s == [sps EXCEPT ![f.name] = r.val]
<1>1. /\ list = NoList /\ field <= Len(Fields) /\ FieldInData(f) /\ set' = set
      /\ ctx' = r.ctx /\ sps' = s
      /\ list' = (IF f.kind = "list" /\ r.val = 1 THEN [list EXCEPT !.i = round] ELSE list)
      /\ IF round + 1 < Times(s, f.when)
           THEN round' = round + 1 /\ field' = field
           ELSE round' = 0 /\ field' = Following(s, field)
  BY Zenon DEF ReadField
<1>2. PICK N : N = Len(Fields)  OBVIOUS
<1>3. Table(Fields, N)  BY <1>2, FieldsTable DEF ReaderInv
<1>4. Fields' = Fields  BY <1>1, Zenon DEF Fields
<1>5. N \in Nat /\ field \in 1..N
  <2>1. field \in 1..N + 1  BY <1>2 DEF ReaderInv
  <2> QED  BY <1>1, <1>2, <1>3, <2>1 DEF Table
<1>6. RowOK(f)  BY <1>3, <1>5, Zenon DEF Table
<1>7. /\ r.val \in Int /\ Within(r.ctx, ctx.buf)
      /\ f.kind = "ue" => r.val \in Nat
      /\ f.kind \in {"flag", "list"} => r.val \in {0, 1}
  BY <1>1, <1>6, ReadValue, Zenon DEF ReaderInv
<1>8. ctx'.buf = ctx.buf
  <2>1. \A p : Context(ctx.buf, p).buf = ctx.buf  BY DEF Context
  <2> QED  BY <1>1, <1>7, <2>1, Zenon DEF Within
<1>9. Sane(s)
  <2>1. f.name \in Names /\ sps \in Numbers  BY <1>6, Zenon DEF RowOK, ReaderInv, Sane
  <2>2. PICK v, n, t : v = r.val /\ n = f.name /\ t = [sps EXCEPT ![n] = v]  OBVIOUS
  <2>3. t \in Numbers /\ \A name \in Names : t[name] = IF name = n THEN v ELSE sps[name]
    BY <1>7, <2>1, <2>2 DEF Numbers
  <2>4. Flags \subseteq Names /\ "pic_size_in_map_units_minus1" \in Names  BY FlagNames
  <2>5. \A name \in Flags : t[name] \in {0, 1}
    <3> SUFFICES ASSUME NEW name \in Flags PROVE t[name] \in {0, 1}  OBVIOUS
    <3>1. CASE name = n
      <4>1. f.kind = "flag"  BY <2>2, <3>1, <1>6, Zenon DEF RowOK
      <4> QED  BY <4>1, <2>2, <2>3, <2>4, <3>1, <1>7, Zenon
    <3>2. CASE name # n
      <4>1. sps[name] \in {0, 1}  BY Zenon DEF ReaderInv, Sane
      <4> QED  BY <4>1, <2>3, <2>4, <3>2, Zenon
    <3> QED  BY <3>1, <3>2
  <2>6. t.pic_size_in_map_units_minus1 \in Nat
    <3>1. CASE n = "pic_size_in_map_units_minus1"
      <4>1. f.kind = "ue"  BY <2>2, <3>1, <1>6, Zenon DEF RowOK
      <4> QED  BY <4>1, <2>2, <2>3, <2>4, <3>1, <1>7, Zenon
    <3>2. CASE n # "pic_size_in_map_units_minus1"
      <4>1. sps.pic_size_in_map_units_minus1 \in Nat  BY Zenon DEF ReaderInv, Sane
      <4> QED  BY <4>1, <2>3, <2>4, <3>2, Zenon
    <3> QED  BY <3>1, <3>2
  <2>7. s = t  BY <2>2, Zenon
  <2> QED  BY <2>3, <2>5, <2>6, <2>7, Zenon DEF Sane
<1>10. /\ field' \in 1..N + 1 /\ round' \in Nat
       /\ field' <= N => round' < Times(s, Fields[field'].when)
  <2>0. round \in Nat  BY DEF ReaderInv
  <2>1. CASE round + 1 < Times(s, f.when)
    <3>1. round' = round + 1 /\ field' = field  BY <1>1, <2>1
    <3> QED  BY <1>5, <2>0, <2>1, <3>1
  <2>2. CASE ~ (round + 1 < Times(s, f.when))
    <3>1. PICK i : i = Following(s, field)  OBVIOUS
    <3>2. round' = 0 /\ field' = i  BY <1>1, <2>2, <3>1
    <3>3. NextRead(Fields, N, s, field, i)
      BY <1>2, <1>5, <1>9, <3>1, FollowingIs, Zenon DEF ReaderInv, Sane
    <3>4. i \in field + 1..N + 1 /\ (i <= N => Times(s, Fields[i].when) > 0)
      BY <3>3, Zenon DEF NextRead
    <3>5. \A x : x > 0 <=> 0 < x  OBVIOUS
    <3>6. i \in 1..N + 1  BY <1>5, <3>4
    <3> QED  BY <3>2, <3>4, <3>5, <3>6
  <2> QED  BY <2>1, <2>2
<1>11. list' = NoList \/ ListIn(list')
  <2>1. CASE f.kind = "list" /\ r.val = 1
    <3>1. list' = [NoList EXCEPT !.i = round]  BY <1>1, <2>1, Zenon
    <3>2. f.when \in {"matrix", "lists"}  BY <1>6, <2>1, Zenon DEF RowOK
    <3>3. Times(sps, f.when) <= 12  BY <3>2, FewLists, Zenon DEF ReaderInv
    <3>4. Times(sps, f.when) \in Int
      BY <1>6, TimesInt, Zenon DEF RowOK, ReaderInv, Sane, AllLabels
    <3>5. round \in Nat /\ round < Times(sps, f.when)  BY <1>1, Zenon DEF ReaderInv
    <3>6. round \in 0..11  BY <3>3, <3>4, <3>5
    <3>7. list' = [i |-> round, j |-> 0, last |-> 8, next |-> 8]  BY <3>1 DEF NoList
    <3> QED  BY <3>6, <3>7 DEF ListIn
  <2>2. CASE ~ (f.kind = "list" /\ r.val = 1)
    <3>1. list' = list  BY <1>1, <2>2, Zenon
    <3> QED  BY <1>1, <3>1
  <2> QED  BY <2>1, <2>2
<1>12. Within(ctx', ctx'.buf) /\ ctx'.buf \in Seq(Nat)
  BY <1>1, <1>7, <1>8, Zenon DEF ReaderInv
<1>13. set' \in {"sps", "pps"} /\ Sane(sps') /\ Len(Fields') = N
  BY <1>1, <1>2, <1>4, <1>9, Zenon DEF ReaderInv
<1>14. field' <= N => round' < Times(sps', Fields'[field'].when)
  BY <1>1, <1>4, <1>10, Zenon
<1> QED  BY <1>10, <1>11, <1>12, <1>13, <1>14, Zenon DEF ReaderInv

\* A step that reads an element of a scaling list.
LEMMA ScaleReads ==
  ASSUME ReaderInv, ReadScale
  PROVE  ReaderInv'
<1> DEFINE delta == ParseSe(ctx)
           next  == IF Scale.next = 0 THEN 0 ELSE (Scale.last + delta.val + 256) % 256
<1>1. /\ list # NoList /\ ScaleInData /\ UNCHANGED <<set, sps, field, round>>
      /\ ctx' = IF Scale.next = 0 THEN ctx ELSE delta.ctx
      /\ list' = IF list.j + 1 = ListSize THEN NoList
                 ELSE [i |-> list.i, j |-> list.j + 1, next |-> next,
                       last |-> NewScale(Scale.last, next)]
  BY Zenon DEF ReadScale
<1>2. ListIn(list) /\ Within(ctx, ctx.buf) /\ ctx.buf \in Seq(Nat)
  BY <1>1, Zenon DEF ReaderInv
<1>3. Scale.last \in 1..255 /\ Scale.next \in 0..255
  BY <1>2 DEF ListIn, Scale
<1>4. ASSUME Scale.next # 0 PROVE delta.val \in Int /\ Within(delta.ctx, ctx.buf)
  <2>1. CodeInData  BY <1>1, <1>4 DEF ScaleInData
  <2>2. Total(ctx) = 8 * Len(ctx.buf)  BY DEF Total
  <2>3. CodeIn(ctx.buf, ctx.bit_pos)  BY <2>1, <2>2, Zenon DEF CodeInData, CodeIn
  <2> QED  BY <1>2, <2>3, SeStays, Zenon
<1>5. next \in 0..255
  <2>1. \A x \in Int, y \in 1..255 : (y + x + 256) % 256 \in 0..255  OBVIOUS
  <2> QED  BY <1>3, <1>4, <2>1, ZenonT(30)
<1>6. NewScale(Scale.last, next) \in 1..255
  <2>1. PICK x : x = next  OBVIOUS
  <2>2. NewScale(Scale.last, x) \in 1..255  BY <1>3, <1>5, <2>1 DEF NewScale
  <2> QED  BY <2>1, <2>2, Zenon
<1>7. list' = NoList \/ ListIn(list')
  <2>1. CASE list.j + 1 = ListSize  BY <1>1, <2>1, Zenon
  <2>2. CASE list.j + 1 # ListSize
    <3>1. PICK i, j, x, l : /\ i = list.i /\ j = list.j + 1 /\ x = next
                            /\ l = NewScale(Scale.last, next)
      OBVIOUS
    <3>2. list' = [i |-> i, j |-> j, next |-> x, last |-> l]
      BY <1>1, <2>2, <3>1, Zenon
    <3>3. i \in 0..11 /\ j \in Nat /\ j < (IF i < 6 THEN 16 ELSE 64)
      BY <1>2, <2>2, <3>1 DEF ListIn, ListSize
    <3>4. x \in 0..255 /\ l \in 1..255  BY <1>5, <1>6, <3>1, Zenon
    <3>5. ListIn([i |-> i, j |-> j, next |-> x, last |-> l])  BY <3>3, <3>4 DEF ListIn
    <3> QED  BY <3>2, <3>5, Zenon
  <2> QED  BY <2>1, <2>2
<1>8. Within(ctx', ctx'.buf) /\ ctx'.buf = ctx.buf
  <2>1. \A p : Context(ctx.buf, p).buf = ctx.buf  BY DEF Context
  <2>2. Within(ctx', ctx.buf)  BY <1>1, <1>2, <1>4, Zenon
  <2> QED  BY <2>1, <2>2, Zenon DEF Within
<1>9. Fields' = Fields  BY <1>1, Zenon DEF Fields
<1> QED  BY <1>1, <1>2, <1>7, <1>8, <1>9, Zenon DEF ReaderInv

\* Every step of the parser, on any data, keeps it in its table, in its loops and
\* lists, and in the data.  What it reads there is not said here.
THEOREM ParserReads ==
  ASSUME ReaderInv, ParserStep
  PROVE  ReaderInv'
<1>1. CASE DeEmulate
  <2>1. PICK B : B = DeEmulated(ctx.buf)  OBVIOUS
  <2>2. ctx' = Context(B, 0) /\ UNCHANGED <<set, sps, field, round, list>>
    BY <1>1, <2>1 DEF DeEmulate
  <2>3. B \in Seq(Nat)  BY <2>1, DeEmulatedIn DEF ReaderInv
  <2>4. ctx'.buf = B  BY <2>2 DEF Context
  <2>5. 0 \in 0..8 * Len(B)  BY <2>3
  <2>6. Within(ctx', ctx'.buf)  BY <2>2, <2>4, <2>5, Zenon DEF Within
  <2>7. Fields' = Fields  BY <2>2, Zenon DEF Fields
  <2> QED  BY <2>2, <2>3, <2>4, <2>6, <2>7, Zenon DEF ReaderInv
<1>2. CASE NoMemory \/ LeaveData \/ Finish
  <2>1. UNCHANGED <<set, ctx, sps, field, round, list>>
    BY <1>2 DEF NoMemory, LeaveData, Finish
  <2>2. Fields' = Fields  BY <2>1, Zenon DEF Fields
  <2> QED  BY <2>1, <2>2, Zenon DEF ReaderInv
<1> QED  BY <1>1, <1>2, FieldReads, ScaleReads DEF ParserStep

-----------------------------------------------------------------------------
(* What the parser knows.                                                   *)

Count(E, k) == Len(E[k].values)
Final(e)     == e.values[Len(e.values)]

\* An element whose values are kept: of a scaling list there is only the flag, and of
\* the buffers of a decoder one of three.
Scalar(e) == e.as \notin {"list", "hrd"}

\* Before the k-th field, or while it is read (then nothing is said of its name):
\* a field that was not sent is 0, and one that was sent is the last of its values.
Knows(F, E, N, s, k, before) ==
  /\ s \in Numbers
  /\ \A m \in 1..N :
       /\ before \/ F[m].name # F[k].name
       /\ \A j \in 1..N : j < k /\ F[j].name = F[m].name => Count(E, j) = 0
       => s[F[m].name] = 0
  /\ \A m \in 1..N :
       /\ m < k /\ Count(E, m) # 0 /\ Scalar(E[m])
       /\ before \/ F[m].name # F[k].name
       /\ \A j \in 1..N : m < j /\ j < k => F[j].name # F[m].name
       => s[F[m].name] = Final(E[m])

\* Rows and elements, and the numbers of values.
Rows(F, E, N) ==
  /\ N \in Nat /\ \A k \in 1..N : RowOK(F[k]) /\ Count(E, k) \in Nat

\* Nothing is known of what is read.
LEMMA KnowsReading ==
  ASSUME NEW F, NEW E, NEW N, NEW s, NEW k, NEW before, Knows(F, E, N, s, k, before)
  PROVE  Knows(F, E, N, s, k, FALSE)
BY Zenon DEF Knows

\* At first.
LEMMA KnowsFirst ==
  ASSUME NEW F, NEW E, NEW N, Rows(F, E, N)
  PROVE  Knows(F, E, N, [name \in Names |-> 0], 1, TRUE)
<1>1. PICK s : s = [name \in Names |-> 0]  OBVIOUS
<1>2. s \in Numbers  BY <1>1 DEF Numbers
<1>3. \A m \in 1..N : s[F[m].name] = 0
  <2>1. \A m \in 1..N : F[m].name \in Names  BY Zenon DEF Rows, RowOK
  <2> QED  BY <1>1, <2>1
<1>4. \A m \in 1..N : ~ (m < 1)  BY DEF Rows
<1>5. Knows(F, E, N, s, 1, TRUE)  BY <1>2, <1>3, <1>4, Zenon DEF Knows
<1> QED  BY <1>1, <1>5

\* A value of the k-th is read.
Learnt(F, E, N, t, k, v) == Knows(F, E, N, t, k, FALSE) /\ t[F[k].name] = v

\* A value that is read is all that changes in what is known.
LEMMA KnowsMore ==
  ASSUME NEW F, NEW E, NEW N, Rows(F, E, N), NEW s, NEW k \in 1..N,
         Knows(F, E, N, s, k, FALSE), NEW v \in Int,
         NEW t, t = [s EXCEPT ![F[k].name] = v]
  PROVE  Learnt(F, E, N, t, k, v)
<1>1. s \in Numbers /\ F[k].name \in Names  BY Zenon DEF Knows, Rows, RowOK
<1>2. PICK n : n = F[k].name  OBVIOUS
<1>3. t \in Numbers /\ t[n] = v /\ \A x \in Names : x # n => t[x] = s[x]
  BY <1>1, <1>2 DEF Numbers
<1>4. \A m \in 1..N : F[m].name \in Names  BY Zenon DEF Rows, RowOK
<1>5. \A m \in 1..N : F[m].name # n => t[F[m].name] = s[F[m].name]  BY <1>3, <1>4, Zenon
<1> QED  BY <1>2, <1>3, <1>5, Zenon DEF Knows, Learnt

\* The last value of the k-th was read.
LEMMA KnowsEnd ==
  ASSUME NEW F, NEW E, NEW N, Rows(F, E, N), NEW s, NEW k \in 1..N,
         Knows(F, E, N, s, k, FALSE), Count(E, k) # 0,
         Scalar(E[k]) => s[F[k].name] = Final(E[k])
  PROVE  Knows(F, E, N, s, k + 1, TRUE)
<1>1. PICK l : l = k + 1  OBVIOUS
<1>2. \A j \in 1..N : (j < l <=> j < k \/ j = k) /\ ~ (k < k)
  BY <1>1 DEF Rows
<1>3. ASSUME NEW m \in 1..N,
             \A j \in 1..N : j < l /\ F[j].name = F[m].name => Count(E, j) = 0
      PROVE  s[F[m].name] = 0
  <2>1. F[m].name # F[k].name  BY <1>2, <1>3, Zenon
  <2> QED  BY <1>2, <1>3, <2>1, Zenon DEF Knows
<1>4. ASSUME NEW m \in 1..N, m < l, Count(E, m) # 0, Scalar(E[m]),
             \A j \in 1..N : m < j /\ j < l => F[j].name # F[m].name
      PROVE  s[F[m].name] = Final(E[m])
  <2>1. CASE m = k  BY <1>4, <2>1, Zenon
  <2>2. CASE m # k
    <3>1. m < k  BY <1>2, <1>4, <2>2, Zenon
    <3>2. F[m].name # F[k].name  BY <1>2, <1>4, <3>1, Zenon
    <3> QED  BY <1>2, <1>4, <3>1, <3>2, Zenon DEF Knows
  <2> QED  BY <2>1, <2>2
<1>5. Knows(F, E, N, s, l, TRUE)  BY <1>3, <1>4, Zenon DEF Knows
<1> QED  BY <1>1, <1>5

\* A field that is not sent is passed.
LEMMA KnowsPast ==
  ASSUME NEW F, NEW E, NEW N, Rows(F, E, N), NEW s, NEW k \in 1..N,
         Knows(F, E, N, s, k, TRUE), Count(E, k) = 0
  PROVE  Knows(F, E, N, s, k + 1, TRUE)
<1>1. PICK l : l = k + 1  OBVIOUS
<1>2. \A j \in 1..N : (j < l <=> j < k \/ j = k)
  BY <1>1 DEF Rows
<1>5. Knows(F, E, N, s, l, TRUE)  BY <1>2, Zenon DEF Knows
<1> QED  BY <1>1, <1>5

\* What is known of a field of its own name.
Unique(F, N, c) == \A m \in 1..N : F[m].name = F[c].name => m = c

\* A name that is read once: it is 0 if nothing was sent, and what was sent if it was.
LEMMA Known ==
  ASSUME NEW F, NEW E, NEW N, Rows(F, E, N), NEW s, NEW k \in 1..N + 1,
         NEW before, before \/ k \in 1..N, Knows(F, E, N, s, k, before),
         NEW c \in 1..N, c < k, Unique(F, N, c)
  PROVE  /\ Count(E, c) = 0 => s[F[c].name] = 0
         /\ Count(E, c) # 0 /\ Scalar(E[c]) => s[F[c].name] = Final(E[c])
<1>1. before \/ F[c].name # F[k].name
  <2>1. c # k  BY DEF Rows
  <2> QED  BY <2>1, Zenon DEF Unique
<1>2. \A j \in 1..N : F[j].name = F[c].name => j = c  BY Zenon DEF Unique
<1>3. \A j \in 1..N : ~ (j < j)  BY DEF Rows
<1> QED  BY <1>1, <1>2, <1>3, Zenon DEF Knows

\* The number of times a field is read is that of its values.
Agree(F, E, N) ==
  \A k \in 1..N : \A s : Knows(F, E, N, s, k, FALSE) => Times(s, F[k].when) = Count(E, k)

\* Over fields that are not sent.
LEMMA KnowsNext ==
  ASSUME NEW F, NEW E, NEW N, Rows(F, E, N), Agree(F, E, N), AllCoded(E), Len(E) = N,
         NEW s, NEW k \in 1..N, Knows(F, E, N, s, k + 1, TRUE),
         NEW i, NextRead(F, N, s, k, i)
  PROVE  Knows(F, E, N, s, i, TRUE) /\ Pos(E, i, 0) = Pos(E, k + 1, 0)
<1>1. N \in Nat /\ i \in k + 1..N + 1
      /\ \A j \in k + 1..i - 1 : Times(s, F[j].when) <= 0
  BY Zenon DEF Rows, NextRead
<1>2. RowEnds(E, N)  BY <1>1, RowsEnd
<1> DEFINE P(j) == Knows(F, E, N, s, j, TRUE) /\ Pos(E, j, 0) = Pos(E, k + 1, 0)
           S == {n \in Nat : k + 1 + n <= i => P(k + 1 + n)}
<1>3. ASSUME NEW n \in Nat, k + 1 + n <= i => P(k + 1 + n), k + 1 + (n + 1) <= i
      PROVE  P(k + 1 + (n + 1))
  <2>1. PICK j : j = k + 1 + n  OBVIOUS
  <2>2. j \in 1..N /\ j \in k + 1..i - 1 /\ k + 1 + (n + 1) = j + 1 /\ j <= i
    BY <1>1, <1>3, <2>1
  <2>3. P(j)  BY <1>3, <2>1, <2>2, Zenon
  <2>4. Count(E, j) = 0
    <3>1. Knows(F, E, N, s, j, FALSE)  BY <2>3, KnowsReading
    <3>2. Times(s, F[j].when) = Count(E, j)  BY <2>2, <3>1, Zenon DEF Agree
    <3>3. Times(s, F[j].when) <= 0  BY <1>1, <2>2
    <3>4. Count(E, j) \in Nat  BY <2>2, Zenon DEF Rows
    <3> QED  BY <3>2, <3>3, <3>4
  <2>5. Knows(F, E, N, s, j + 1, TRUE)  BY <2>2, <2>3, <2>4, KnowsPast
  <2>6. Pos(E, j + 1, 0) = Pos(E, j, 0)
    <3>1. Pos(E, j + 1, 0) = Pos(E, j, Len(E[j].values))  BY <1>2, <2>2, Zenon DEF RowEnds
    <3> QED  BY <2>4, <3>1, Zenon DEF Count
  <2> QED  BY <2>2, <2>3, <2>5, <2>6, Zenon
<1>4. P(k + 1)  OBVIOUS
<1>5. k + 1 + 0 = k + 1  OBVIOUS
<1> HIDE DEF P
<1>6. 0 \in S  BY <1>4, <1>5, Zenon
<1>7. ASSUME NEW n \in Nat, n \in S PROVE n + 1 \in S
  <2>1. n + 1 \in Nat  OBVIOUS
  <2> QED  BY <1>3, <1>7, <2>1, Zenon
<1>8. \A n : n \in S => n \in Nat /\ (k + 1 + n <= i => P(k + 1 + n))  BY Zenon
<1> HIDE DEF S
<1>9. \A n \in Nat : n \in S  BY <1>6, <1>7, CountUp
<1>10. PICK n : n = i - (k + 1)  OBVIOUS
<1>11. n \in Nat /\ k + 1 + n = i /\ k + 1 + n <= i  BY <1>1, <1>10
<1>12. P(i)  BY <1>8, <1>9, <1>11, Zenon
<1> QED  BY <1>12 DEF P

-----------------------------------------------------------------------------
(* The scaling lists.                                                       *)

NextScale(s, delta) == (s + delta + 256) % 256

\* A scale is a byte.
LEMMA NextScaleIs ==
  ASSUME NEW s \in 0..255, NEW delta \in Int
  PROVE  NextScale(s, delta) \in 0..255
BY DEF NextScale

\* The scales of n deltas.
Scales(g, deltas, n) ==
  /\ g \in [0..n -> 0..255] /\ g[0] = 8
  /\ \A j \in 1..n : g[j] = NextScale(g[j - 1], deltas[j])

\* No scale but the last is 0, and that only if it is the last that is sent.
ScaleEnds(g, n, size) ==
  /\ n \in Nat /\ n <= size /\ \A j \in 1..n - 1 : g[j] # 0
  /\ n \in 1..size - 1 => g[n] = 0

\* A list that can be sent has such scales.
LEMMA ListScales ==
  ASSUME NEW deltas \in Seq(Deltas), NEW size, ListOK(deltas, size),
         NEW n, n = Len(deltas)
  PROVE  \E g : Scales(g, deltas, n) /\ ScaleEnds(g, n, size)
<1>1. n \in Nat /\ \A j \in 1..n : deltas[j] \in Int
  <2>1. n \in Nat /\ \A j \in 1..n : deltas[j] \in Deltas  OBVIOUS
  <2>2. \A x \in Deltas : x \in Int  BY DEF Deltas
  <2> QED  BY <2>1, <2>2
<1> DEFINE step == [i \in 1..n |-> [s \in 0..255 |-> NextScale(s, deltas[i])]]
           IsScale(f) == f = [j \in 0..n |-> IF j = 0 THEN 8
                                             ELSE NextScale(f[j - 1], deltas[j])]
<1>2. \A i \in 1..n, s \in 0..255 :
        step[i][s] = NextScale(s, deltas[i]) /\ step[i][s] \in 0..255
  <2>1. \A x \in Int, s \in 0..255 : NextScale(s, x) \in 0..255  BY NextScaleIs, Zenon
  <2> QED  BY <1>1, <2>1, Zenon
<1> HIDE DEF step
<1>3. PICK f : IsFold(f, 8, step, n, 0..255)
  <2>1. StepsIn(step, n, 0..255)  BY <1>2, Zenon DEF StepsIn
  <2>2. 8 \in 0..255  OBVIOUS
  <2> HIDE DEF IsScale
  <2> QED  BY <1>1, <2>1, <2>2, FoldExists, Zenon
<1>4. f \in [0..n -> 0..255] /\ f[0] = 8 /\ \A i \in 1..n : f[i] = step[i][f[i - 1]]
  BY <1>3 DEF IsFold
<1>5. ASSUME NEW i \in 1..n PROVE f[i] = NextScale(f[i - 1], deltas[i])
  <2>1. i - 1 \in 0..n  BY <1>1
  <2>2. f[i - 1] \in 0..255 /\ f[i] = step[i][f[i - 1]]  BY <1>4, <2>1
  <2> QED  BY <1>2, <2>2, Zenon
<1>6. IsScale(f)
  <2>1. \A i \in 0..n : i = 0 \/ i \in 1..n  BY <1>1
  <2>2. \A i \in 0..n : f[i] = IF i = 0 THEN 8 ELSE NextScale(f[i - 1], deltas[i])
    BY <2>1, <1>4, <1>5
  <2> QED  BY <2>2, <1>4
<1>7. PICK g : /\ IsScale(g) /\ n <= size /\ \A j \in 1..n - 1 : g[j] # 0
               /\ n \in 1..size - 1 => g[n] = 0
  <2>1. PICK h : h = ScalesOf(deltas)  OBVIOUS
  <2>2. /\ n <= size /\ \A j \in 1..n - 1 : h[j] # 0
        /\ n \in 1..size - 1 => h[n] = 0
    BY <2>1, Zenon DEF ListOK
  <2>3. ScalesOf(deltas) = CHOOSE x : IsScale(x)  BY DEF ScalesOf, NextScale
  <2> HIDE DEF IsScale
  <2>4. IsScale(h)  BY <1>6, <2>1, <2>3
  <2> QED  BY <2>2, <2>4, Zenon
<1>8. g[0] = 8 /\ \A j \in 1..n : g[j] = NextScale(g[j - 1], deltas[j])
  <2>1. \A j \in 0..n : g[j] = IF j = 0 THEN 8 ELSE NextScale(g[j - 1], deltas[j])
    BY <1>7
  <2>2. \A j \in 1..n : j \in 0..n /\ j # 0  BY <1>1
  <2>3. 0 \in 0..n  BY <1>1
  <2> QED  BY <2>1, <2>2, <2>3
<1>9. g \in [0..n -> 0..255]
  <2> DEFINE T == {j \in Nat : j <= n => g[j] \in 0..255}
  <2>1. 0 \in T  BY <1>8
  <2>2. ASSUME NEW j \in Nat, j \in T PROVE j + 1 \in T
    <3> SUFFICES ASSUME j + 1 <= n PROVE g[j + 1] \in 0..255  BY <2>2
    <3>1. PICK k : k = j + 1  OBVIOUS
    <3>2. k \in 1..n /\ k - 1 = j /\ j <= n  BY <1>1, <3>1
    <3>3. g[j] \in 0..255  BY <2>2, <3>2
    <3>4. g[k] = NextScale(g[j], deltas[k]) /\ deltas[k] \in Int
      BY <1>1, <1>8, <3>2
    <3>5. \A x \in Int, s \in 0..255 : NextScale(s, x) \in 0..255  BY NextScaleIs, Zenon
    <3>6. g[k] \in 0..255  BY <3>3, <3>4, <3>5, Zenon
    <3> QED  BY <3>1, <3>6
  <2>3. \A j : j \in T => (j <= n => g[j] \in 0..255)  BY Zenon
  <2> HIDE DEF T
  <2>4. \A j \in Nat : j \in T  BY <2>1, <2>2, CountUp
  <2>5. \A j \in 0..n : g[j] \in 0..255  BY <1>1, <2>3, <2>4
  <2> QED  BY <1>7, <2>5
<1> QED  BY <1>1, <1>7, <1>8, <1>9 DEF Scales
-----------------------------------------------------------------------------
(* A code that was sent is in the data.                                     *)

\* parse_ue stays in the data where a number was sent,
LEMMA UeInData ==
  ASSUME NEW b, NEW p, NEW v \in Nat, Below30(v), CodeAt(b, p, Ue(v))
  PROVE  CodeIn(b, p)
<1>1. PICK k : UeShape(Ue(v), v, k)  BY UeCode
<1>2. PICK c : c = Ue(v)  OBVIOUS
<1>3. k \in 0..30 /\ Len(c) = 2 * k + 1 /\ c[k + 1] = 1  BY <1>1, <1>2 DEF UeShape, HasBits
<1>4. /\ b \in Seq(Nat) /\ p \in Nat /\ p + Len(c) <= 8 * Len(b)
      /\ \A i \in 1..Len(c) : Bit(b, p + i - 1) = c[i]
  BY <1>2 DEF CodeAt
<1>5. PICK i : i = k + 1  OBVIOUS
<1>6. i \in 1..Len(c) /\ p + i - 1 = p + k  BY <1>3, <1>4, <1>5
<1>7. Bit(b, p + k) = 1
  <2>1. Bit(b, p + i - 1) = 1  BY <1>3, <1>4, <1>5, <1>6, Zenon
  <2> QED  BY <1>6, <2>1, Zenon
<1>8. p + k \in p..p + 30 /\ p + k < 8 * Len(b)
  <2>1. PICK n : n = 8 * Len(b)  OBVIOUS
  <2>2. n \in Nat  BY <1>4, <2>1
  <2>3. p + (2 * k + 1) <= n  BY <1>3, <1>4, <2>1
  <2> QED  BY <1>3, <1>4, <2>1, <2>2, <2>3
<1> QED  BY <1>7, <1>8, Zenon DEF CodeIn

\* and so does parse_se.
LEMMA SeInData ==
  ASSUME NEW b, NEW p, NEW v \in Int, Below29(v), CodeAt(b, p, Se(v))
  PROVE  CodeIn(b, p)
<1>1. PICK k : k = IF v > 0 THEN 2 * v - 1 ELSE -2 * v  OBVIOUS
<1>2. k \in Nat  BY <1>1
<1>3. Below30(k)  BY <1>1, SMT DEF Below29, Below30
<1>4. Se(v) = Ue(k)  BY <1>1 DEF Se
<1> QED  BY <1>2, <1>3, <1>4, UeInData

\* A delta.
LEMMA DeltaSmall ==
  ASSUME NEW v \in Deltas
  PROVE  v \in Int /\ Below24(v) /\ Below29(v)
BY SMT DEF Deltas, Below24, Below29

-----------------------------------------------------------------------------
(* Reading a scaling list.                                                  *)

\* The list that is read has deltas, from start on, with scales g; h are the codes of
\* its first deltas.  The 4x4 lists are sent to their end.
AtList(deltas, n, g, h, l, start, pos) ==
  /\ n # 0 /\ (l.i < 6 => n = 16)
  /\ l.j < n => pos = start + 1 + Len(h[l.j])
  /\ l.j >= n => pos = start + 1 + Len(h[n])
  /\ l.i >= 6 /\ l.j < n => l.last = g[l.j] /\ l.next = g[l.j] /\ g[l.j] # 0
  /\ l.i >= 6 /\ l.j >= n => l.next = 0

\* What is known of the list while it is.
ListFacts(deltas, n, g, h, l, start, b) ==
  /\ deltas \in Seq(Deltas) /\ n = Len(deltas) /\ h = ListParts(deltas)
  /\ Scales(g, deltas, n) /\ ScaleEnds(g, n, IF l.i < 6 THEN 16 ELSE 64)
  /\ ListAt(b, start, deltas) /\ start \in Nat

\* There are deltas left exactly if the next scale is not 0.
LEMMA DeltasLeft ==
  ASSUME NEW deltas, NEW n, NEW g, NEW h, NEW start, NEW b,
         ListFacts(deltas, n, g, h, list, start, b), ListIn(list),
         AtList(deltas, n, g, h, list, start, ctx.bit_pos)
  PROVE  Scale.next # 0 <=> list.j < n
<1>1. list.i \in 0..11 /\ list.j \in Nat /\ list.j < (IF list.i < 6 THEN 16 ELSE 64)
  BY Zenon DEF ListIn
<1>2. n \in Nat  BY Zenon DEF ListFacts, ScaleEnds
<1>3. CASE list.i < 6
  <2>1. Scale.next = 8  BY <1>3 DEF Scale
  <2>2. n = 16  BY <1>3 DEF AtList
  <2> QED  BY <1>1, <1>3, <2>1, <2>2
<1>4. CASE ~ (list.i < 6)
  <2>1. Scale.next = list.next  BY <1>4 DEF Scale
  <2>2. list.i >= 6  BY <1>1, <1>4
  <2>3. list.j >= n <=> ~ (list.j < n)  BY <1>1, <1>2
  <2> QED  BY <2>1, <2>2, <2>3, Zenon DEF AtList
<1> QED  BY <1>3, <1>4

\* And the next of them can be read.
LEMMA DeltaRead ==
  ASSUME MaxLen >= 32,
         NEW deltas, NEW n, NEW g, NEW h, NEW start, NEW b,
         ListFacts(deltas, n, g, h, list, start, b), ListIn(list),
         AtList(deltas, n, g, h, list, start, ctx.bit_pos),
         ctx = Context(b, ctx.bit_pos), list.j < n
  PROVE  /\ CodeInData /\ list.j + 1 \in 1..n
         /\ ParseSe(ctx).val = deltas[list.j + 1]
         /\ ParseSe(ctx).ctx = Context(b, start + 1 + Len(h[list.j + 1]))
<1>1. list.j \in Nat /\ n \in Nat  BY Zenon DEF ListIn, ListFacts, ScaleEnds
<1>2. PICK j, k : j = list.j /\ k = j + 1  OBVIOUS
<1>3. j \in 0..n - 1 /\ k \in 1..n /\ j \in 0..n /\ k \in 0..n  BY <1>1, <1>2
<1>4. PICK v : v = deltas[k]  OBVIOUS
<1>5. /\ Len(h[j]) \in Nat /\ Len(h[k]) = Len(h[j]) + Len(Se(v))
      /\ CodeAt(b, start + 1 + Len(h[j]), Se(v))
  <2>1. /\ \A m \in 0..n : Len(h[m]) \in Nat
        /\ \A m \in 0..n - 1 : /\ Len(h[m + 1]) = Len(h[m]) + Len(Se(deltas[m + 1]))
                               /\ CodeAt(b, start + 1 + Len(h[m]), Se(deltas[m + 1]))
    BY Zenon DEF ListFacts, ListAt
  <2> QED  BY <1>2, <1>3, <1>4, <2>1, Zenon
<1>6. v \in Deltas /\ start \in Nat
  BY <1>3, <1>4 DEF ListFacts
<1>7. PICK p, q : p = start + 1 + Len(h[j]) /\ q = p + Len(Se(v))  OBVIOUS
<1>8. ctx.bit_pos = p  BY <1>2, <1>7, Zenon DEF AtList
<1>9. ctx = Context(b, p)  BY <1>8, Zenon
<1>10. v \in Int /\ Below24(v) /\ Below29(v)  BY <1>6, DeltaSmall
<1>11. ParseSe(Context(b, p)) = [val |-> v, ctx |-> Context(b, q)]
  BY <1>5, <1>7, <1>10, SeRead, Zenon
<1>12. CodeInData
  <2>1. CodeIn(b, p)  BY <1>5, <1>7, <1>10, SeInData, Zenon
  <2>2. ctx.buf = b /\ Total(ctx) = 8 * Len(b)  BY <1>9, Contexts, Zenon
  <2> QED  BY <1>8, <2>1, <2>2, Zenon DEF CodeIn, CodeInData
<1>13. q = start + 1 + Len(h[k])
  <2>1. PICK x, y : x = Len(h[j]) /\ y = Len(Se(v))  OBVIOUS
  <2>2. x \in Nat /\ y \in Nat
    <3>1. Len(Se(v)) \in Nat \ {0}  BY <1>10, SeCode
    <3> QED  BY <1>5, <2>1, <3>1
  <2>3. Len(h[k]) = x + y /\ q = (start + 1 + x) + y  BY <1>5, <1>7, <2>1, Zenon
  <2> QED  BY <1>6, <2>2, <2>3
<1>14. ParseSe(ctx).val = v /\ ParseSe(ctx).ctx = Context(b, q)
  <2>1. PICK r, c : r = ParseSe(Context(b, p)) /\ c = Context(b, q)  OBVIOUS
  <2>2. r = [val |-> v, ctx |-> c]  BY <1>11, <2>1, Zenon
  <2>3. r.val = v /\ r.ctx = c  BY <2>2
  <2> QED  BY <1>9, <2>1, <2>3, Zenon
<1> QED  BY <1>2, <1>3, <1>4, <1>12, <1>13, <1>14, Zenon

\* One element further.
LEMMA ScaleStep ==
  ASSUME MaxLen >= 32,
         NEW deltas, NEW n, NEW g, NEW h, NEW start, NEW b,
         ListFacts(deltas, n, g, h, list, start, b), ListIn(list),
         AtList(deltas, n, g, h, list, start, ctx.bit_pos),
         ctx = Context(b, ctx.bit_pos), ReadScale
  PROVE  /\ ctx' = Context(b, ctx'.bit_pos)
         /\ list' = NoList => ctx'.bit_pos = start + 1 + Len(h[n])
         /\ list' # NoList => /\ list'.i = list.i
                              /\ AtList(deltas, n, g, h, list', start, ctx'.bit_pos)
<1> DEFINE next  == IF Scale.next = 0 THEN 0
                    ELSE (Scale.last + ParseSe(ctx).val + 256) % 256
<1>1. /\ ctx' = IF Scale.next = 0 THEN ctx ELSE ParseSe(ctx).ctx
      /\ list' = IF list.j + 1 = ListSize THEN NoList
                 ELSE [i |-> list.i, j |-> list.j + 1, next |-> next,
                       last |-> NewScale(Scale.last, next)]
  BY Zenon DEF ReadScale
<1>2. PICK x, l, j, k, i : /\ x = next /\ l = NewScale(Scale.last, next)
                           /\ j = list.j /\ k = j + 1 /\ i = list.i
  OBVIOUS
<1>3. /\ j \in Nat /\ n \in Nat /\ n <= ListSize /\ j < ListSize /\ i \in 0..11
      /\ n \in 1..ListSize - 1 => g[n] = 0
      /\ \A m \in 1..n - 1 : g[m] # 0
      /\ ListSize \in {16, 64}
  BY <1>2, Zenon DEF ListIn, ListFacts, ScaleEnds, ListSize
<1>4. Scale.next # 0 <=> j < n  BY <1>2, DeltasLeft, Zenon
<1>5. ~ (j + 1 = ListSize) => list' = [i |-> i, j |-> k, next |-> x, last |-> l]
  BY <1>1, <1>2, Zenon
<1>6. \A z : z = [i |-> i, j |-> k, next |-> x, last |-> l] =>
        z # NoList /\ z.i = i /\ z.j = k /\ z.next = x /\ z.last = l
  <2>1. i # -1  BY <1>3
  <2> QED  BY <2>1 DEF NoList
<1>7. n # 0 /\ (i < 6 => n = 16)  BY <1>2, Zenon DEF AtList
<1>8. \A q : Context(b, q).bit_pos = q  BY DEF Context
<1>9. CASE j < n
  <2>1. /\ ParseSe(ctx).val = deltas[k]
        /\ ParseSe(ctx).ctx = Context(b, start + 1 + Len(h[k]))
    BY <1>2, <1>9, DeltaRead, Zenon
  <2>2. ctx' = Context(b, start + 1 + Len(h[k]))  BY <1>1, <1>4, <1>9, <2>1, Zenon
  <2>3. ctx'.bit_pos = start + 1 + Len(h[k])  BY <1>8, <2>2, Zenon
  <2>4. CASE j + 1 = ListSize
    <3>1. k = n  BY <1>2, <1>3, <1>9, <2>4
    <3>2. list' = NoList  BY <1>1, <1>2, <2>4, Zenon
    <3> QED  BY <2>2, <2>3, <3>1, <3>2, Zenon
  <2>5. CASE ~ (j + 1 = ListSize)
    <3>1. /\ list' # NoList /\ list'.i = i /\ list'.j = k /\ list'.next = x
          /\ list'.last = l
      BY <1>5, <1>6, <2>5, Zenon
    <3>2. k >= n => k = n /\ n \in 1..ListSize - 1 /\ ~ (k < n)
      BY <1>2, <1>3, <1>9, <2>5
    <3>3. k < n => k \in 1..n - 1 /\ ~ (k >= n)  BY <1>2, <1>3
    <3>4. ASSUME i >= 6 PROVE x = g[k] /\ (g[k] # 0 => l = g[k])
      <4>1. ~ (i < 6)  BY <1>3, <3>4
      <4>2. Scale.last = list.last /\ list.last = g[j]
        <5>1. Scale.last = list.last  BY <1>2, <4>1 DEF Scale
        <5> QED  BY <1>2, <1>9, <3>4, <5>1, Zenon DEF AtList
      <4>3. x = (g[j] + deltas[k] + 256) % 256  BY <1>2, <1>4, <1>9, <2>1, <4>2, Zenon
      <4>4. g[k] = NextScale(g[j], deltas[k])
        <5>1. k \in 1..n /\ k - 1 = j  BY <1>2, <1>3, <1>9
        <5> QED  BY <5>1, Zenon DEF ListFacts, Scales
      <4>5. x = g[k]  BY <4>3, <4>4, Zenon DEF NextScale
      <4>6. l = IF x = 0 THEN Scale.last ELSE x  BY <1>2, Zenon DEF NewScale
      <4> QED  BY <4>5, <4>6, Zenon
    <3>5. AtList(deltas, n, g, h, list', start, ctx'.bit_pos)
      BY <1>3, <1>7, <2>3, <3>1, <3>2, <3>3, <3>4, Zenon DEF AtList
    <3> QED  BY <1>2, <2>2, <2>3, <3>1, <3>5, Zenon
  <2> QED  BY <2>4, <2>5
<1>10. CASE ~ (j < n)
  <2>0. j >= n /\ k >= n /\ ~ (k < n)  BY <1>2, <1>3, <1>10
  <2>1. ctx' = ctx /\ x = 0  BY <1>1, <1>2, <1>4, <1>10, Zenon
  <2>2. ctx'.bit_pos = start + 1 + Len(h[n])  BY <1>2, <2>0, <2>1, Zenon DEF AtList
  <2>3. CASE j + 1 = ListSize
    <3>1. list' = NoList  BY <1>1, <1>2, <2>3, Zenon
    <3> QED  BY <2>1, <2>2, <3>1, Zenon
  <2>4. CASE ~ (j + 1 = ListSize)
    <3>1. /\ list' # NoList /\ list'.i = i /\ list'.j = k /\ list'.next = x
          /\ list'.last = l
      BY <1>5, <1>6, <2>4, Zenon
    <3>2. AtList(deltas, n, g, h, list', start, ctx'.bit_pos)
      BY <1>7, <2>0, <2>1, <2>2, <3>1, Zenon DEF AtList
    <3> QED  BY <1>2, <2>1, <2>2, <3>1, <3>2, Zenon
  <2> QED  BY <2>3, <2>4
<1> QED  BY <1>9, <1>10

-----------------------------------------------------------------------------
(* Reading the values of a parameter set.                                   *)

\* Numbers of at most 25 bits.
LEMMA SmallValues ==
  ASSUME NEW e, Small(e), NEW i \in 1..Len(e.values), NEW v, v = e.values[i]
  PROVE  /\ e.as \in {"u", "ue", "hrd"} /\ v \in Nat => Below25(v)
         /\ e.as = "se" /\ v \in Int => Below24(v)
<1>1. /\ e.as \in {"u", "ue", "hrd"} => v < 2^25
      /\ e.as = "se" => v > -(2^24) /\ v < 2^24
  BY Zenon DEF Small
<1>2. ASSUME v \in Nat, v < 2^25 PROVE Below25(v)  BY <1>2, SMT DEF Below25
<1>3. ASSUME v \in Int, v > -(2^24), v < 2^24 PROVE Below24(v)  BY <1>3, SMT DEF Below24
<1> QED  BY <1>1, <1>2, <1>3, Zenon

\* The arrays hold what is sent for them.
HaveRoom(F, E, N) ==
  \A k \in 1..N : F[k].name \in DOMAIN Room => Count(E, k) <= Room[F[k].name]

\* A parameter set this parser can read, in the buffer b.
Readable(F, E, N, b) ==
  /\ Rows(F, E, N) /\ Agree(F, E, N) /\ AllCoded(E) /\ Len(E) = N
  /\ Holds(b, Bits(E)) /\ HaveRoom(F, E, N)
  /\ \A k \in 1..N : /\ Paired(F[k], E[k]) /\ Small(E[k])
                     /\ F[k].kind = "id" => Count(E, k) = 0
                     /\ E[k].as = "list" => \A i \in 1..Count(E, k) :
                          i <= 6 => Len(E[k].values[i]) \notin 1..15

\* The next value, at its place.
ValueAt(F, E, b, k, i, p, q) ==
  LET f == F[k]
      v == E[k].values[i + 1]
      r == Read(f, ctx)
  IN /\ FieldInData(f)
     /\ f.kind = "list" => /\ r.ctx = Context(b, p + 1) /\ ListAt(b, p, v)
                           /\ v \in Seq(Deltas)
                           /\ ListOK(v, IF i + 1 <= 6 THEN 16 ELSE 64)
                           /\ q = p + Len(ListBits(v))
                           /\ r.val = IF v # << >> THEN 1 ELSE 0
     /\ f.kind # "list" => r.ctx = Context(b, q)
     /\ Scalar(E[k]) => r.val = v

\* A value that is where it was sent is read as it was sent.
LEMMA ValueRead ==
  ASSUME MaxLen >= 32, NEW F, NEW E, NEW N, NEW b, Readable(F, E, N, b),
         NEW k \in 1..N, NEW i \in Nat, i < Count(E, k), round = i,
         NEW p, NEW q, p = Pos(E, k, i), q = Pos(E, k, i + 1), ctx = Context(b, p),
         F[k].kind = "more" => MoreRbspData(ctx) = E[k].values[i + 1]
  PROVE  ValueAt(F, E, b, k, i, p, q)
<1>1. PICK f, e, j, v : f = F[k] /\ e = E[k] /\ j = i + 1 /\ v = e.values[j]  OBVIOUS
<1>2. /\ N \in Nat /\ RowOK(f) /\ Len(e.values) \in Nat /\ Paired(f, e) /\ HasCode(e)
      /\ Small(e) /\ (f.kind = "id" => Len(e.values) = 0) /\ AllCoded(E) /\ Len(E) = N
      /\ Holds(b, Bits(E)) /\ i < Len(e.values)
  BY <1>1, Zenon DEF Readable, Rows, Count, AllCoded
<1>3. j \in 1..Len(e.values) /\ i \in 0..Len(e.values) - 1 /\ f.kind # "id"
  BY <1>1, <1>2
<1>4. PICK c : c = Code(e, j)  OBVIOUS
<1>5. c \in Seq({0, 1}) /\ CodeAt(b, p, c) /\ q = p + Len(c) /\ p \in Nat
  <2>1. CodePlace(E, Bits(E), k, i)  BY <1>1, <1>2, <1>3, CodesPlaced
  <2>2. Bits(E) \in Seq({0, 1})  BY <1>2, RowsEnd, Zenon DEF RowEnds
  <2>3. CodeAt(b, p, c)  BY <1>1, <1>2, <1>4, <2>1, <2>2, CodeFound
  <2> QED  BY <1>1, <1>4, <2>1, <2>3, Zenon DEF CodePlace
<1>6. /\ e.as = "u" => v \in Nat /\ (e.n <= 30 => v < 2^e.n) /\ c = U(e.n, v)
      /\ e.as \in {"ue", "hrd"} => v \in Nat /\ Below30(v)
      /\ e.as = "ue" => c = Ue(v)
      /\ e.as = "se" => v \in Int /\ Below29(v) /\ c = Se(v)
      /\ e.as = "list" => /\ v \in Seq(Deltas) /\ ListOK(v, IF j <= 6 THEN 16 ELSE 64)
                          /\ c = ListBits(v)
      /\ e.as = "hrd" => c = IF j % 3 = 0 THEN U(1, v) ELSE Ue(v)
      /\ e.as = "more" => c = << >>
  BY <1>1, <1>2, <1>3, <1>4, Values, CodeOf, ZenonT(30)
<1>7. /\ e.as \in {"u", "ue", "hrd"} /\ v \in Nat => Below25(v)
      /\ e.as = "se" /\ v \in Int => Below24(v)
  BY <1>1, <1>2, <1>3, SmallValues, Zenon
<1>8. ctx.buf = b /\ ctx.bit_pos = p /\ Total(ctx) = 8 * Len(b)
      /\ \A n : Moved(ctx, n) = Context(b, p + n)
  <2>1. PICK c0 : c0 = Context(b, p)  OBVIOUS
  <2>2. /\ c0.buf = b /\ c0.bit_pos = p /\ Total(c0) = 8 * Len(b)
        /\ \A n : Moved(c0, n) = Context(b, p + n)
    BY <2>1, Contexts
  <2>3. c0 = ctx  BY <2>1
  <2> QED  BY <2>2, <2>3, Zenon
<1>9. \A x, y : [val |-> x, ctx |-> y].val = x /\ [val |-> x, ctx |-> y].ctx = y
  OBVIOUS
<1>10. ASSUME Len(c) # 0 PROVE ctx.bit_pos < Total(ctx)
  <2>1. p + Len(c) <= 8 * Len(b) /\ b \in Seq(Nat)  BY <1>5 DEF CodeAt
  <2>2. PICK l, m : l = Len(c) /\ m = 8 * Len(b)  OBVIOUS
  <2>3. l \in Nat /\ m \in Nat /\ l # 0 /\ p + l <= m  BY <1>5, <1>10, <2>1, <2>2
  <2>4. p < m  BY <1>5, <2>3
  <2> QED  BY <1>8, <2>2, <2>4, Zenon
<1>11. ASSUME CodeIn(b, p) PROVE CodeInData
  BY <1>8, <1>11, Zenon DEF CodeIn, CodeInData
<1>12. /\ IsUe(f) <=> f.kind = "ue" \/ (f.kind = "hrd" /\ i % 3 # 2)
       /\ IsUe(f) => f.kind \notin {"se", "u", "id", "more", "list", "flag"}
  BY DEF IsUe
<1>13. i % 3 = 2 <=> j % 3 = 0  BY <1>1
<1>14. /\ f.kind \in {"ue", "se", "list", "hrd", "more"} => e.as = f.kind
       /\ f.kind \in {"flag", "u"} => e.as = "u"
  <2>1. f.kind \in {"ue", "se", "list", "hrd", "more"} => e.as = f.kind
    BY <1>2, Zenon DEF Paired
  <2>2. f.kind \in {"flag", "u"} => e.as = "u"  BY <1>2, Zenon DEF Paired
  <2> QED  BY <2>1, <2>2
<1>20. CASE IsUe(f)
  <2>1. e.as \in {"ue", "hrd"} /\ v \in Nat /\ Below30(v) /\ Below25(v) /\ c = Ue(v)
    BY <1>6, <1>7, <1>12, <1>13, <1>14, <1>20, Zenon
  <2>2. CodeInData  BY <1>5, <1>11, <2>1, UeInData, Zenon
  <2>3. PICK r : r = ParseUe(ctx)  OBVIOUS
  <2>4. r = [val |-> v, ctx |-> Context(b, q)]  BY <1>5, <2>1, <2>3, UeRead, Zenon
  <2>5. Read(f, ctx) = r  BY <1>12, <1>20, <2>3, Zenon DEF Read
  <2>6. FieldInData(f)  BY <1>20, <2>2, Zenon DEF FieldInData
  <2>7. r.val = v /\ r.ctx = Context(b, q)  BY <2>4
  <2> QED  BY <1>1, <1>12, <1>20, <2>5, <2>6, <2>7, Zenon DEF ValueAt
<1>21. CASE f.kind = "se"
  <2>1. v \in Int /\ Below29(v) /\ Below24(v) /\ c = Se(v)
    BY <1>6, <1>7, <1>14, <1>21, Zenon
  <2>2. CodeInData  BY <1>5, <1>11, <2>1, SeInData, Zenon
  <2>3. PICK r : r = ParseSe(ctx)  OBVIOUS
  <2>4. r = [val |-> v, ctx |-> Context(b, q)]  BY <1>5, <2>1, <2>3, SeRead, Zenon
  <2>5. Read(f, ctx) = r  BY <1>12, <1>21, <2>3, Zenon DEF Read
  <2>6. FieldInData(f)  BY <1>21, <2>2, Zenon DEF FieldInData
  <2>7. r.val = v /\ r.ctx = Context(b, q)  BY <2>4
  <2> QED  BY <1>1, <1>21, <2>5, <2>6, <2>7, Zenon DEF ValueAt
<1>22. CASE f.kind = "u"
  <2>1. PICK n : n = f.n  OBVIOUS
  <2>2. e.n = n /\ n \in 1..32  BY <1>2, <1>22, <2>1, Zenon DEF Paired
  <2>3. v \in Nat /\ Below25(v) /\ (n <= 30 => v < 2^n) /\ c = U(n, v)
    BY <1>6, <1>7, <1>14, <1>22, <2>2, Zenon
  <2>4. n \in 0..32 /\ (n <= 25 => n <= 30)  BY <2>2
  <2>5. Len(c) = n
    <3>1. n \in Nat  BY <2>4
    <3> QED  BY <2>3, <3>1, UCode, Zenon DEF UShape
  <2>6. PICK r : r = GetBits(ctx, n)  OBVIOUS
  <2>7. r = [val |-> v, ctx |-> Context(b, p + n)]
    BY <1>5, <2>3, <2>4, <2>6, URead, ZenonT(30)
  <2>8. Read(f, ctx) = r  BY <1>12, <1>22, <2>1, <2>6, Zenon DEF Read
  <2>9. FieldInData(f)  BY <1>12, <1>22, Zenon DEF FieldInData
  <2>10. r.val = v /\ r.ctx = Context(b, q)
    <3>1. r.val = v /\ r.ctx = Context(b, p + n)  BY <2>7
    <3> QED  BY <1>5, <2>5, <3>1, Zenon
  <2> QED  BY <1>1, <1>22, <2>8, <2>9, <2>10, Zenon DEF ValueAt
<1>23. CASE f.kind = "more"
  <2>1. c = << >>  BY <1>6, <1>14, <1>23, Zenon
  <2>2. q = p  BY <1>5, <2>1
  <2>3. PICK m, r : m = MoreRbspData(ctx) /\ r = [val |-> m, ctx |-> ctx]  OBVIOUS
  <2>4. Read(f, ctx) = r  BY <1>12, <1>23, <2>3, Zenon DEF Read
  <2>5. r.val = m /\ r.ctx = ctx  BY <2>3
  <2>6. m = v  BY <1>1, <1>23, <2>3, Zenon
  <2>7. FieldInData(f)  BY <1>12, <1>23, Zenon DEF FieldInData
  <2> QED  BY <1>1, <1>23, <2>2, <2>4, <2>5, <2>6, <2>7, Zenon DEF ValueAt
<1>24. CASE f.kind = "flag"
  <2>1. e.n = 1 /\ e.as = "u"  BY <1>2, <1>24, Zenon DEF Paired
  <2>2. v \in Nat /\ (1 <= 30 => v < 2^1) /\ c = U(1, v)
    BY <1>6, <2>1, Zenon
  <2>3. v \in {0, 1}  BY <2>2, SMT
  <2>4. Len(c) = 1
    <3>1. 1 \in Nat  OBVIOUS
    <3> QED  BY <2>2, <3>1, UCode, Zenon DEF UShape
  <2>5. PICK r : r = Get1Bit(ctx)  OBVIOUS
  <2>6. r = [val |-> v, ctx |-> Context(b, p + 1)]
    BY <1>5, <2>2, <2>3, <2>5, FlagRead, Zenon
  <2>7. Read(f, ctx) = r  BY <1>12, <1>24, <2>5, Zenon DEF Read
  <2>8. FieldInData(f)
    <3>1. ctx.bit_pos < Total(ctx)  BY <1>10, <2>4
    <3> QED  BY <1>12, <1>24, <3>1, Zenon DEF FieldInData
  <2>9. r.val = v /\ r.ctx = Context(b, q)
    <3>1. r.val = v /\ r.ctx = Context(b, p + 1)  BY <2>6
    <3> QED  BY <1>5, <2>4, <3>1, Zenon
  <2> QED  BY <1>1, <1>24, <2>7, <2>8, <2>9, Zenon DEF ValueAt
<1>25. CASE f.kind = "list"
  <2>1. /\ v \in Seq(Deltas) /\ ListOK(v, IF j <= 6 THEN 16 ELSE 64)
        /\ c = ListBits(v) /\ e.as = "list"
    BY <1>6, <1>14, <1>25, Zenon
  <2>2. ListAt(b, p, v)  BY <1>5, <2>1, ListFound, Zenon
  <2>3. PICK w : w = IF v # << >> THEN 1 ELSE 0  OBVIOUS
  <2>4. CodeAt(b, p, U(1, w))  BY <2>2, <2>3, Zenon DEF ListAt
  <2>5. w \in {0, 1}  BY <2>3
  <2>6. PICK r : r = Get1Bit(ctx)  OBVIOUS
  <2>7. r = [val |-> w, ctx |-> Context(b, p + 1)]
    BY <2>4, <2>5, <2>6, FlagRead, Zenon
  <2>8. Read(f, ctx) = r  BY <1>12, <1>25, <2>6, Zenon DEF Read
  <2>9. FieldInData(f)
    <3>1. Len(c) # 0
      <4>1. Len(ListBits(v)) = 1 + Len(ListParts(v)[Len(v)])
            /\ Len(ListParts(v)[Len(v)]) \in Nat
        <5>1. Len(v) \in Nat /\ Len(v) \in 0..Len(v)  BY <2>1
        <5> QED  BY <2>2, <5>1, Zenon DEF ListAt
      <4> QED  BY <2>1, <4>1
    <3>2. ctx.bit_pos < Total(ctx)  BY <1>10, <3>1
    <3> QED  BY <1>12, <1>25, <3>2, Zenon DEF FieldInData
  <2>10. r.val = w /\ r.ctx = Context(b, p + 1)  BY <2>7
  <2>11. ~ Scalar(E[k])  BY <1>1, <2>1, Zenon DEF Scalar
  <2> QED  BY <1>1, <1>5, <1>25, <2>1, <2>2, <2>3, <2>8, <2>9, <2>10, <2>11, Zenon
              DEF ValueAt
<1>26. CASE f.kind = "hrd" /\ ~ IsUe(f)
  <2>1. v \in Nat /\ c = U(1, v) /\ e.as = "hrd"
    BY <1>6, <1>12, <1>13, <1>14, <1>26, Zenon
  <2>2. Len(c) = 1
    <3>1. 1 \in Nat  OBVIOUS
    <3> QED  BY <2>1, <3>1, UCode, Zenon DEF UShape
  <2>3. PICK r : r = Get1Bit(ctx)  OBVIOUS
  <2>4. r.ctx = Context(b, q)
    <3>1. r.ctx = Moved(ctx, 1)  BY <2>3 DEF Get1Bit
    <3> QED  BY <1>5, <1>8, <2>2, <3>1, Zenon
  <2>5. Read(f, ctx) = r  BY <1>26, <2>3, Zenon DEF Read
  <2>6. FieldInData(f)
    <3>1. ctx.bit_pos < Total(ctx)  BY <1>10, <2>2
    <3> QED  BY <1>26, <3>1, Zenon DEF FieldInData
  <2>7. ~ Scalar(E[k])  BY <1>1, <2>1, Zenon DEF Scalar
  <2> QED  BY <1>1, <1>26, <2>4, <2>5, <2>6, <2>7, Zenon DEF ValueAt
<1> QED
  <2>1. f.kind \in {"flag", "u", "ue", "se", "list", "hrd", "id", "more"}
    BY <1>2, Zenon DEF RowOK, Kinds
  <2> QED  BY <1>3, <1>12, <1>20, <1>21, <1>22, <1>23, <1>24, <1>25, <1>26, <2>1, Zenon

-----------------------------------------------------------------------------
(* The way through the table.                                               *)

\* A list is read, and behind it is the place of the next value.
InList(l, b, pos, next) ==
  \E deltas, n, g, h, start :
    /\ ListFacts(deltas, n, g, h, l, start, b)
    /\ AtList(deltas, n, g, h, l, start, pos)
    /\ next = start + 1 + Len(h[n])

\* The parser is where the value is that the encoder put there.
Walk(E, N, b) ==
  /\ field \in 1..N + 1 /\ round \in Nat
  /\ field <= N => round < Count(E, field)
  /\ field = N + 1 => round = 0
  /\ Knows(Fields, E, N, sps, field, round = 0)
  /\ ctx = Context(b, ctx.bit_pos)
  /\ list = NoList => ctx.bit_pos = Pos(E, field, round)
  /\ list # NoList => InList(list, b, ctx.bit_pos, Pos(E, field, round))

\* The place of the next field, whichever it is.
NextAt(F, E, N, s, k, l) ==
  /\ l \in 1..N + 1 /\ (l <= N => 0 < Count(E, l))
  /\ Knows(F, E, N, s, l, TRUE) /\ Pos(E, l, 0) = Pos(E, k, Count(E, k))

\* Behind the last value of a field is the first of the next field that was sent: the
\* parser skips a field just when the encoder did.
LEMMA NextPlace ==
  ASSUME ReaderInv, NEW F, F = Fields, NEW N, N = Len(Fields), NEW E, NEW b,
         Readable(F, E, N, b),
         NEW k \in 1..N, NEW s, Knows(F, E, N, s, k, FALSE), Count(E, k) # 0,
         Scalar(E[k]) => s[F[k].name] = Final(E[k]),
         NEW l, l = Following(s, k)
  PROVE  NextAt(F, E, N, s, k, l)
<1>1. /\ Rows(F, E, N) /\ Agree(F, E, N) /\ AllCoded(E) /\ Len(E) = N /\ N \in Nat
      /\ s \in Numbers
  BY Zenon DEF Readable, Rows, Knows
<1>2. Knows(F, E, N, s, k + 1, TRUE)  BY <1>1, KnowsEnd
<1>3. NextRead(F, N, s, k, l)  BY <1>1, FollowingIs DEF ReaderInv
<1>4. Knows(F, E, N, s, l, TRUE) /\ Pos(E, l, 0) = Pos(E, k + 1, 0)
  BY <1>1, <1>2, <1>3, KnowsNext, ZenonT(30)
<1>5. Pos(E, k + 1, 0) = Pos(E, k, Count(E, k))
  <2>1. RowEnds(E, N)  BY <1>1, RowsEnd
  <2> QED  BY <2>1, Zenon DEF RowEnds, Count
<1>6. l \in k + 1..N + 1 /\ (l <= N => Times(s, F[l].when) > 0)
  BY <1>3, Zenon DEF NextRead
<1>7. l \in 1..N + 1  BY <1>1, <1>6
<1>8. ASSUME l <= N PROVE 0 < Count(E, l)
  <2>1. l \in 1..N  BY <1>1, <1>7, <1>8
  <2>2. Knows(F, E, N, s, l, FALSE)  BY <1>4, KnowsReading
  <2>3. Times(s, F[l].when) = Count(E, l)  BY <1>1, <2>1, <2>2, Zenon DEF Agree
  <2>4. Count(E, l) \in Nat  BY <1>1, <2>1, Zenon DEF Rows
  <2> QED  BY <1>6, <1>8, <2>3, <2>4
<1> QED  BY <1>4, <1>5, <1>7, <1>8, Zenon DEF NextAt

\* Reading a field.
LEMMA FieldWalks ==
  ASSUME MaxLen >= 32, ReaderInv, ReadField,
         NEW F, F = Fields, NEW N, N = Len(Fields), NEW E, NEW b \in Seq(Nat),
         Readable(F, E, N, b), Walk(E, N, b),
         F[field].kind = "more" => MoreRbspData(ctx) = E[field].values[round + 1]
  PROVE  Walk(E, N, b)'
<1> DEFINE f == F[field]
           r == Read(f, ctx)
<1>0. PICK s : s = [sps EXCEPT ![f.name] = r.val]  OBVIOUS
<1>1. /\ list = NoList /\ field <= N /\ set' = set
      /\ ctx' = r.ctx /\ sps' = s
      /\ list' = (IF f.kind = "list" /\ r.val = 1 THEN [list EXCEPT !.i = round] ELSE list)
      /\ IF round + 1 < Times(s, f.when)
           THEN round' = round + 1 /\ field' = field
           ELSE round' = 0 /\ field' = Following(s, field)
  BY <1>0, Zenon DEF ReadField
<1>2. /\ N \in Nat /\ Rows(F, E, N) /\ Agree(F, E, N)
      /\ \A m \in 1..N : /\ RowOK(F[m]) /\ Count(E, m) \in Nat /\ Paired(F[m], E[m])
                         /\ E[m].as = "list" => \A i \in 1..Count(E, m) :
                              i <= 6 => Len(E[m].values[i]) \notin 1..15
  BY Zenon DEF Readable, Rows
<1>3. Fields' = F  BY <1>1, Zenon DEF Fields
<1>4. PICK k, i, c : k = field /\ i = round /\ c = Count(E, k)  OBVIOUS
<1>5. k \in 1..N /\ i \in Nat /\ i < c /\ c \in Nat /\ RowOK(F[k]) /\ Paired(F[k], E[k])
  <2>1. field \in 1..N + 1 /\ round \in Nat /\ (field <= N => round < Count(E, field))
    BY Zenon DEF Walk
  <2>2. field \in 1..N  BY <1>1, <1>2, <2>1
  <2> QED  BY <1>1, <1>2, <1>4, <2>1, <2>2, Zenon
<1>6. PICK p, q, v, w : /\ p = Pos(E, k, i) /\ q = Pos(E, k, i + 1)
                        /\ v = E[k].values[i + 1] /\ w = r.val
  OBVIOUS
<1>7. ctx = Context(b, p)  BY <1>1, <1>4, <1>6, Zenon DEF Walk
<1>8. ValueAt(F, E, b, k, i, p, q)
  <2>1. F[k].kind = "more" => MoreRbspData(ctx) = E[k].values[i + 1]  BY <1>4, Zenon
  <2> QED  BY <1>4, <1>5, <1>6, <1>7, <2>1, ValueRead, Zenon
<1>9. /\ FieldInData(F[k])
      /\ F[k].kind = "list" => /\ ctx' = Context(b, p + 1) /\ ListAt(b, p, v)
                               /\ v \in Seq(Deltas)
                               /\ ListOK(v, IF i + 1 <= 6 THEN 16 ELSE 64)
                               /\ q = p + Len(ListBits(v))
                               /\ w = IF v # << >> THEN 1 ELSE 0
      /\ F[k].kind # "list" => ctx' = Context(b, q)
      /\ Scalar(E[k]) => w = v
  BY <1>1, <1>4, <1>6, <1>8, Zenon DEF ValueAt
<1>10. w \in Int
  <2>1. ctx.buf = b  BY <1>7 DEF Context
  <2>2. Sane(sps) /\ Within(ctx, ctx.buf)  BY Zenon DEF ReaderInv
  <2> QED  BY <1>4, <1>5, <1>6, <1>9, <2>1, <2>2, ReadValue, Zenon
<1>11. Knows(F, E, N, s, k, FALSE) /\ s[F[k].name] = w
  <2>1. Knows(F, E, N, sps, k, round = 0)  BY <1>4, Zenon DEF Walk
  <2>2. Knows(F, E, N, sps, k, FALSE)  BY <2>1, KnowsReading
  <2>3. s = [sps EXCEPT ![F[k].name] = w]  BY <1>0, <1>4, <1>6, Zenon
  <2>4. Learnt(F, E, N, s, k, w)  BY <1>2, <1>5, <1>10, <2>2, <2>3, KnowsMore, Zenon
  <2> QED  BY <2>4, Zenon DEF Learnt
<1>12. Times(s, F[k].when) = c  BY <1>2, <1>4, <1>5, <1>11, Zenon DEF Agree
<1>13. /\ field' \in 1..N + 1 /\ round' \in Nat
       /\ field' <= N => round' < Count(E, field')
       /\ field' = N + 1 => round' = 0
       /\ Knows(F, E, N, sps', field', round' = 0)
       /\ Pos(E, field', round') = q
  <2>1. CASE i + 1 < c
    <3>1. round' = i + 1 /\ field' = k  BY <1>1, <1>4, <1>12, <2>1, Zenon
    <3>2. i + 1 # 0 /\ i + 1 \in Nat /\ k \in 1..N + 1 /\ k # N + 1  BY <1>2, <1>5
    <3>3. (round' = 0) = FALSE  BY <3>1, <3>2
    <3>4. Knows(F, E, N, sps', field', round' = 0)
      BY <1>1, <1>11, <3>1, <3>3, Zenon
    <3> QED  BY <1>4, <1>6, <2>1, <3>1, <3>2, <3>4, Zenon
  <2>2. CASE ~ (i + 1 < c)
    <3>1. PICK l : l = Following(s, k)  OBVIOUS
    <3>2. round' = 0 /\ field' = l  BY <1>1, <1>4, <1>12, <2>2, <3>1, Zenon
    <3>3. i + 1 = c /\ c # 0  BY <1>5, <2>2
    <3>4. Scalar(E[k]) => s[F[k].name] = Final(E[k])
      <4>1. v = Final(E[k])  BY <1>4, <1>6, <3>3, Zenon DEF Final, Count
      <4> QED  BY <1>9, <1>11, <4>1, Zenon
    <3>5. /\ l \in 1..N + 1 /\ (l <= N => 0 < Count(E, l))
          /\ Knows(F, E, N, s, l, TRUE) /\ Pos(E, l, 0) = Pos(E, k, Count(E, k))
      <4>1. Count(E, k) # 0  BY <1>4, <3>3, Zenon
      <4>2. NextAt(F, E, N, s, k, l)
        BY <1>5, <1>11, <3>1, <3>4, <4>1, NextPlace, Zenon
      <4> QED  BY <4>2, Zenon DEF NextAt
    <3>6. (round' = 0) = TRUE  BY <3>2
    <3>7. Knows(F, E, N, sps', field', round' = 0)
      BY <1>1, <3>2, <3>5, <3>6, Zenon
    <3>8. 0 \in Nat  OBVIOUS
    <3> QED  BY <1>4, <1>6, <3>2, <3>3, <3>5, <3>7, <3>8, Zenon
  <2> QED  BY <2>1, <2>2
<1>14. \A x : Context(b, x).bit_pos = x  BY DEF Context
<1>15. CASE ~ (F[k].kind = "list" /\ v # << >>)
  <2>1. ctx' = Context(b, q)
    <3>1. CASE F[k].kind # "list"  BY <1>9, <3>1
    <3>2. CASE F[k].kind = "list"
      <4>1. v = << >> /\ Len(v) = 0  BY <1>15, <3>2
      <4>2. PICK h, m : h = ListParts(v) /\ m = Len(ListBits(v))  OBVIOUS
      <4>4. Len(h[0]) = 0 /\ m = 1 + Len(h[0])
        BY <1>9, <3>2, <4>1, <4>2, Zenon DEF ListAt
      <4>5. m = 1  BY <4>4
      <4>3. Len(ListBits(v)) = 1  BY <4>2, <4>5, Zenon
      <4> QED  BY <1>9, <3>2, <4>3, Zenon
    <3> QED  BY <3>1, <3>2
  <2>2. list' = NoList
    <3>1. ~ (F[k].kind = "list" /\ w = 1)
      <4>1. 0 # 1  OBVIOUS
      <4> QED  BY <1>9, <1>15, <4>1, Zenon
    <3> QED  BY <1>1, <1>4, <1>6, <3>1, Zenon
  <2>3. ctx'.bit_pos = q  BY <1>14, <2>1, Zenon
  <2> QED  BY <1>3, <1>13, <2>1, <2>2, <2>3, Zenon DEF Walk
<1>16. CASE F[k].kind = "list" /\ v # << >>
  <2>1. PICK l : l = [NoList EXCEPT !.i = i]  OBVIOUS
  <2>2. list' = l
    <3>1. w = 1  BY <1>9, <1>16, Zenon
    <3> QED  BY <1>1, <1>4, <1>6, <1>16, <2>1, <3>1, Zenon
  <2>3. l = [i |-> i, j |-> 0, last |-> 8, next |-> 8]  BY <2>1 DEF NoList
  <2>4. l.i = i /\ l.j = 0 /\ l.last = 8 /\ l.next = 8  BY <2>3
  <2>5. PICK n, size, h : /\ n = Len(v) /\ size = (IF i < 6 THEN 16 ELSE 64)
                          /\ h = ListParts(v)
    OBVIOUS
  <2>6. v \in Seq(Deltas) /\ ListOK(v, size) /\ n \in Nat /\ n # 0
    <3>1. (i + 1 <= 6) = (i < 6)  BY <1>5
    <3>2. ListOK(v, size)  BY <1>9, <1>16, <2>5, <3>1, Zenon
    <3>3. v \in Seq(Deltas)  BY <1>9, <1>16
    <3> QED  BY <1>16, <2>5, <3>2, <3>3
  <2>7. PICK g : Scales(g, v, n) /\ ScaleEnds(g, n, size)  BY <2>5, <2>6, ListScales, Zenon
  <2>8. ListAt(b, p, v) /\ ctx' = Context(b, p + 1) /\ q = p + Len(ListBits(v))
    BY <1>9, <1>16
  <2>9. /\ Len(h[0]) = 0 /\ Len(h[n]) \in Nat /\ Len(ListBits(v)) = 1 + Len(h[n])
        /\ p \in Nat
    <3>1. n \in 0..n  BY <2>6
    <3>2. p \in Nat  BY <2>8, Zenon DEF ListAt, CodeAt
    <3> QED  BY <2>5, <2>8, <3>1, <3>2, Zenon DEF ListAt
  <2>10. ctx'.bit_pos = p + 1 /\ p + 1 = p + 1 + Len(h[0])
         /\ q = p + 1 + Len(h[n])
    <3>1. ctx'.bit_pos = p + 1  BY <1>14, <2>8, Zenon
    <3>2. PICK x, y, z : x = Len(h[0]) /\ y = Len(h[n]) /\ z = Len(ListBits(v))  OBVIOUS
    <3>3. x = 0 /\ y \in Nat /\ z = 1 + y /\ p \in Nat /\ q = p + z
      BY <2>8, <2>9, <3>2, Zenon
    <3>4. p + 1 = p + 1 + x /\ q = p + 1 + y  BY <3>3
    <3> QED  BY <3>1, <3>2, <3>4, Zenon
  <2>11. ListFacts(v, n, g, h, list', p, b)
    <3>1. l.i < 6 <=> i < 6  BY <2>4
    <3> QED  BY <2>2, <2>4, <2>5, <2>6, <2>7, <2>8, <2>9, Zenon DEF ListFacts
  <2>12. i < 6 => n = 16
    <3>1. ASSUME i < 6 PROVE n = 16
      <4>1. E[k].as = "list"  BY <1>5, <1>16, Zenon DEF Paired
      <4>2. PICK m : m = i + 1  OBVIOUS
      <4>3. m \in 1..c /\ m <= 6  BY <1>5, <3>1, <4>2
      <4>4. n \notin 1..15  BY <1>2, <1>4, <1>5, <1>6, <2>5, <4>1, <4>2, <4>3, Zenon
      <4>5. n <= 16  BY <2>5, <2>7, <3>1, Zenon DEF ScaleEnds
      <4> QED  BY <2>6, <4>4, <4>5
    <3> QED  BY <3>1
  <2>13. AtList(v, n, g, h, list', p, ctx'.bit_pos)
    <3>1. 0 < n /\ ~ (0 >= n) /\ 8 # 0  BY <2>6
    <3>2. g[0] = 8  BY <2>7, Zenon DEF Scales
    <3> QED  BY <2>2, <2>4, <2>6, <2>10, <2>12, <3>1, <3>2, Zenon DEF AtList
  <2>14. InList(list', b, ctx'.bit_pos, q)  BY <2>10, <2>11, <2>13, Zenon DEF InList
  <2>15. list' # NoList
    <3>1. i # -1  BY <1>5
    <3> QED  BY <2>2, <2>4, <3>1 DEF NoList
  <2>16. ctx' = Context(b, ctx'.bit_pos)  BY <2>8, <2>10, Zenon
  <2> QED  BY <1>3, <1>13, <2>14, <2>15, <2>16, Zenon DEF Walk
<1> QED  BY <1>15, <1>16

\* Reading an element of a list.
LEMMA ScaleWalks ==
  ASSUME MaxLen >= 32, ReaderInv, ReadScale,
         NEW F, F = Fields, NEW N, N = Len(Fields), NEW E, NEW b,
         Walk(E, N, b)
  PROVE  Walk(E, N, b)'
<1>1. /\ list # NoList /\ set' = set /\ sps' = sps /\ field' = field /\ round' = round
  BY Zenon DEF ReadScale
<1>2. ListIn(list)  BY <1>1, Zenon DEF ReaderInv
<1>3. PICK next : next = Pos(E, field, round)  OBVIOUS
<1>4. InList(list, b, ctx.bit_pos, next) /\ ctx = Context(b, ctx.bit_pos)
  BY <1>1, <1>3, Zenon DEF Walk
<1>5. PICK deltas, n, g, h, start :
        /\ ListFacts(deltas, n, g, h, list, start, b)
        /\ AtList(deltas, n, g, h, list, start, ctx.bit_pos)
        /\ next = start + 1 + Len(h[n])
  BY <1>4, Zenon DEF InList
<1>6. /\ ctx' = Context(b, ctx'.bit_pos)
      /\ list' = NoList => ctx'.bit_pos = start + 1 + Len(h[n])
      /\ list' # NoList => /\ list'.i = list.i
                           /\ AtList(deltas, n, g, h, list', start, ctx'.bit_pos)
  BY <1>2, <1>4, <1>5, ScaleStep
<1>7. list' # NoList => ListFacts(deltas, n, g, h, list', start, b)
  BY <1>5, <1>6, Zenon DEF ListFacts
<1>8. list' # NoList => InList(list', b, ctx'.bit_pos, next)
  BY <1>5, <1>6, <1>7, Zenon DEF InList
<1>9. Fields' = Fields  BY <1>1, Zenon DEF Fields
<1>10. Knows(Fields, E, N, sps, field, round = 0)' BY <1>1, <1>9, Zenon DEF Walk
<1>11. /\ field' \in 1..N + 1 /\ round' \in Nat
       /\ field' <= N => round' < Count(E, field')
       /\ field' = N + 1 => round' = 0
  BY <1>1, Zenon DEF Walk
<1>12. next = Pos(E, field', round')  BY <1>1, <1>3, Zenon
<1> QED  BY <1>5, <1>6, <1>8, <1>10, <1>11, <1>12, Zenon DEF Walk

\* In a list the parser is in the data.
LEMMA ListInData ==
  ASSUME MaxLen >= 32, ReaderInv, NEW E, NEW N, NEW b, Walk(E, N, b), list # NoList
  PROVE  ~ LeaveData
<1>1. ListIn(list)  BY Zenon DEF ReaderInv
<1>2. PICK next : next = Pos(E, field, round)  OBVIOUS
<1>3. InList(list, b, ctx.bit_pos, next) /\ ctx = Context(b, ctx.bit_pos)
  BY <1>2, Zenon DEF Walk
<1>4. PICK deltas, n, g, h, start :
        /\ ListFacts(deltas, n, g, h, list, start, b)
        /\ AtList(deltas, n, g, h, list, start, ctx.bit_pos)
  BY <1>3, Zenon DEF InList
<1>5. Scale.next # 0 => list.j < n  BY <1>1, <1>4, DeltasLeft
<1>6. list.j < n => CodeInData  BY <1>1, <1>3, <1>4, DeltaRead
<1>7. ScaleInData  BY <1>5, <1>6, Zenon DEF ScaleInData
<1> QED  BY <1>7, Zenon DEF LeaveData

\* The sizes of the arrays.
LEMMA RoomNumbers == \A name \in DOMAIN Room : Room[name] \in Nat
BY DEF Room

\* Between the lists it is in the data and in the arrays.
LEMMA WalkInData ==
  ASSUME MaxLen >= 32, ReaderInv,
         NEW F, F = Fields, NEW N, N = Len(Fields), NEW E, NEW b \in Seq(Nat),
         Readable(F, E, N, b), Walk(E, N, b), list = NoList,
         F[field].kind = "more" => MoreRbspData(ctx) = E[field].values[round + 1]
  PROVE  ~ LeaveData
<1> SUFFICES ASSUME field <= N
             PROVE  FieldInData(Fields[field]) /\ HasRoom(Fields[field])
  BY Zenon DEF LeaveData
<1>1. PICK k, i, p, q : /\ k = field /\ i = round
                        /\ p = Pos(E, k, i) /\ q = Pos(E, k, i + 1)
  OBVIOUS
<1>2. field \in 1..N + 1 /\ round \in Nat /\ (field <= N => round < Count(E, field))
      /\ ctx = Context(b, p)
  BY <1>1, Zenon DEF Walk
<1>3. N \in Nat  BY Zenon DEF Readable, Rows
<1>4. k \in 1..N /\ i \in Nat  BY <1>1, <1>2, <1>3
<1>5. i < Count(E, k)  BY <1>1, <1>2, Zenon
<1>6. F[k].kind = "more" => MoreRbspData(ctx) = E[k].values[i + 1]  BY <1>1, Zenon
<1>7. ValueAt(F, E, b, k, i, p, q)
  BY <1>1, <1>2, <1>4, <1>5, <1>6, ValueRead, Zenon
<1>8. FieldInData(Fields[field])  BY <1>1, <1>7, Zenon DEF ValueAt
<1>9. HasRoom(Fields[field])
  <2> SUFFICES ASSUME F[k].name \in DOMAIN Room PROVE round < Room[F[k].name]
    BY <1>1, Zenon DEF HasRoom
  <2>1. PICK c, r : c = Count(E, k) /\ r = Room[F[k].name]  OBVIOUS
  <2>2. c <= r  BY <1>4, <2>1, Zenon DEF Readable, HaveRoom
  <2>3. c \in Nat  BY <1>4, <2>1, Zenon DEF Readable, Rows
  <2>4. r \in Nat  BY <2>1, RoomNumbers, Zenon
  <2>5. i < c  BY <1>5, <2>1, Zenon
  <2>6. i < r  BY <1>4, <2>2, <2>3, <2>4, <2>5
  <2> QED  BY <1>1, <2>1, <2>6, Zenon
<1> QED  BY <1>8, <1>9

\* It begins before the first field, which is always sent.
LEMMA WalkStarts ==
  ASSUME NEW F, F = Fields, NEW N, N = Len(Fields), NEW E, NEW b,
         Readable(F, E, N, b), N >= 1, Count(E, 1) # 0,
         ctx' = Context(b, 0), set' = set,
         sps' = [name \in Names |-> 0], field' = 1, round' = 0, list' = NoList
  PROVE  Walk(E, N, b)'
<1>1. /\ Rows(F, E, N) /\ AllCoded(E) /\ Len(E) = N /\ N \in Nat
      /\ Count(E, 1) \in Nat
  <2>1. /\ Rows(F, E, N) /\ AllCoded(E) /\ Len(E) = N /\ N \in Nat
    BY Zenon DEF Readable, Rows
  <2>2. 1 \in 1..N  BY <2>1
  <2> QED  BY <2>1, <2>2, Zenon DEF Rows
<1>2. RowEnds(E, N)  BY <1>1, RowsEnd
<1>3. Pos(E, 1, 0) = 0  BY <1>2, Zenon DEF RowEnds
<1>4. ctx'.bit_pos = 0  BY DEF Context
<1>5. Knows(F, E, N, [name \in Names |-> 0], 1, TRUE)  BY <1>1, KnowsFirst
<1>6. Fields' = F  BY Zenon DEF Fields
<1>7. (round' = 0) = TRUE  OBVIOUS
<1>8. Knows(Fields', E, N, sps', field', round' = 0)  BY <1>5, <1>6, <1>7, Zenon
<1>9. /\ field' \in 1..N + 1 /\ round' \in Nat
      /\ field' <= N => round' < Count(E, field')
      /\ field' = N + 1 => round' = 0
  BY <1>1
<1> QED  BY <1>3, <1>4, <1>8, <1>9, Zenon DEF Walk

\* It ends behind the last bit that was sent.
LEMMA WalkEnds ==
  ASSUME NEW F, NEW N, NEW E, NEW b,
         Readable(F, E, N, b), Walk(E, N, b), field > N, list = NoList
  PROVE  ctx.bit_pos = Len(Bits(E)) /\ Knows(Fields, E, N, sps, N + 1, TRUE)
<1>1. /\ AllCoded(E) /\ Len(E) = N /\ N \in Nat  BY Zenon DEF Readable, Rows
<1>2. field \in 1..N + 1 /\ (field = N + 1 => round = 0)
      /\ Knows(Fields, E, N, sps, field, round = 0)
      /\ ctx.bit_pos = Pos(E, field, round)
  BY Zenon DEF Walk
<1>3. field = N + 1  BY <1>1, <1>2
<1>4. (round = 0) = TRUE  BY <1>2, <1>3
<1>5. RowEnds(E, N)  BY <1>1, RowsEnd
<1>6. Pos(E, N + 1, 0) = Len(Bits(E))  BY <1>1, <1>5, Zenon DEF RowEnds
<1> QED  BY <1>2, <1>3, <1>4, <1>6, Zenon

-----------------------------------------------------------------------------
(* What the encoder sends of each element.                                  *)

\* One value x if c, and else none.
Sends(e, c, x) == Scalar(e) /\ e.values = Given(c, <<x>>)

SpsSends(T, d) ==
  /\ Sends(T[1], TRUE, d.profile)
  /\ Sends(T[2], TRUE, 1)
  /\ Sends(T[3], TRUE, 1)
  /\ Sends(T[4], TRUE, 0)
  /\ Sends(T[5], TRUE, 0)
  /\ Sends(T[6], TRUE, 0)
  /\ Sends(T[7], TRUE, 40)
  /\ Sends(T[8], TRUE, 0)
  /\ Sends(T[9], d.profile \in HighProfiles, d.chroma)
  /\ Sends(T[10], d.profile \in HighProfiles /\ d.chroma = 3, 0)
  /\ Sends(T[11], d.profile \in HighProfiles, 0)
  /\ Sends(T[12], d.profile \in HighProfiles, 2)
  /\ Sends(T[13], d.profile \in HighProfiles, 0)
  /\ Sends(T[14], d.profile \in HighProfiles, One(d.lists # << >>))
  /\ Sends(T[16], TRUE, 0)
  /\ Sends(T[17], TRUE, d.poc)
  /\ Sends(T[18], d.poc = 0, 2)
  /\ Sends(T[19], d.poc = 1, 0)
  /\ Sends(T[20], d.poc = 1, -1)
  /\ Sends(T[21], d.poc = 1, 2)
  /\ Sends(T[22], d.poc = 1, Len(d.offsets))
  /\ Sends(T[24], TRUE, 4)
  /\ Sends(T[25], TRUE, 0)
  /\ Sends(T[26], TRUE, d.width)
  /\ Sends(T[27], TRUE, d.height)
  /\ Sends(T[28], TRUE, One(d.frames))
  /\ Sends(T[29], ~ d.frames, 1)
  /\ Sends(T[30], TRUE, 1)
  /\ Sends(T[31], TRUE, One(d.cropped))
  /\ Sends(T[32], d.cropped, 0)
  /\ Sends(T[33], d.cropped, 1)
  /\ Sends(T[34], d.cropped, 0)
  /\ Sends(T[35], d.cropped, 4)
  /\ Sends(T[36], TRUE, One(d.vui # << >>))
  /\ T[15].values = Given(d.profile \in HighProfiles, d.lists)
  /\ T[23].values = Given(d.poc = 1, d.offsets)

\* The elements of SpsElements are these.
LEMMA SpsRows ==
  ASSUME NEW d, NEW T, T = SpsElements(d)
  PROVE  SpsSends(T, d)
<1>1. /\ Sends(T[1], TRUE, d.profile)
      /\ Sends(T[2], TRUE, 1)
      /\ Sends(T[3], TRUE, 1)
      /\ Sends(T[4], TRUE, 0)
      /\ Sends(T[5], TRUE, 0)
      /\ Sends(T[6], TRUE, 0)
  BY DEF Sends, Scalar, Given, Flag, One, u_n, u_1, ue_v, se_v, Element, SpsElements
<1>2. /\ Sends(T[7], TRUE, 40)
      /\ Sends(T[8], TRUE, 0)
      /\ Sends(T[9], d.profile \in HighProfiles, d.chroma)
      /\ Sends(T[10], d.profile \in HighProfiles /\ d.chroma = 3, 0)
      /\ Sends(T[11], d.profile \in HighProfiles, 0)
      /\ Sends(T[12], d.profile \in HighProfiles, 2)
  BY DEF Sends, Scalar, Given, Flag, One, u_n, u_1, ue_v, se_v, Element, SpsElements
<1>3. /\ Sends(T[13], d.profile \in HighProfiles, 0)
      /\ Sends(T[14], d.profile \in HighProfiles, One(d.lists # << >>))
      /\ Sends(T[16], TRUE, 0)
      /\ Sends(T[17], TRUE, d.poc)
      /\ Sends(T[18], d.poc = 0, 2)
      /\ Sends(T[19], d.poc = 1, 0)
  BY DEF Sends, Scalar, Given, Flag, One, u_n, u_1, ue_v, se_v, Element, SpsElements
<1>4. /\ Sends(T[20], d.poc = 1, -1)
      /\ Sends(T[21], d.poc = 1, 2)
      /\ Sends(T[22], d.poc = 1, Len(d.offsets))
      /\ Sends(T[24], TRUE, 4)
      /\ Sends(T[25], TRUE, 0)
      /\ Sends(T[26], TRUE, d.width)
  BY DEF Sends, Scalar, Given, Flag, One, u_n, u_1, ue_v, se_v, Element, SpsElements
<1>5. /\ Sends(T[27], TRUE, d.height)
      /\ Sends(T[28], TRUE, One(d.frames))
      /\ Sends(T[29], ~ d.frames, 1)
      /\ Sends(T[30], TRUE, 1)
      /\ Sends(T[31], TRUE, One(d.cropped))
      /\ Sends(T[32], d.cropped, 0)
  BY DEF Sends, Scalar, Given, Flag, One, u_n, u_1, ue_v, se_v, Element, SpsElements
<1>6. /\ Sends(T[33], d.cropped, 1)
      /\ Sends(T[34], d.cropped, 0)
      /\ Sends(T[35], d.cropped, 4)
      /\ Sends(T[36], TRUE, One(d.vui # << >>))
  BY DEF Sends, Scalar, Given, Flag, One, u_n, u_1, ue_v, se_v, Element, SpsElements
<1>20. /\ T[15].values = Given(d.profile \in HighProfiles, d.lists)
       /\ T[23].values = Given(d.poc = 1, d.offsets)
  BY DEF Given, u_n, u_1, ue_v, se_v, Element, SpsElements
<1> QED  BY <1>1, <1>2, <1>3, <1>4, <1>5, <1>6, <1>20, Zenon DEF SpsSends

VuiSends(T, v, sent) ==
  /\ Sends(T[1], sent, One(v.sar # << >>))
  /\ Sends(T[2], v.sar # << >>, 255)
  /\ Sends(T[3], v.sar # << >>, v.sar[1])
  /\ Sends(T[4], v.sar # << >>, v.sar[2])
  /\ Sends(T[5], sent, One(v.signal))
  /\ Sends(T[6], v.signal, 1)
  /\ Sends(T[7], sent, One(v.signal))
  /\ Sends(T[8], v.signal, 5)
  /\ Sends(T[9], v.signal, 1)
  /\ Sends(T[10], v.signal, 1)
  /\ Sends(T[11], v.signal, 1)
  /\ Sends(T[12], v.signal, 1)
  /\ Sends(T[13], v.signal, 1)
  /\ Sends(T[14], sent, One(v.signal))
  /\ Sends(T[15], v.signal, 0)
  /\ Sends(T[16], v.signal, 3)
  /\ Sends(T[17], sent, One(v.timing # << >>))
  /\ Sends(T[18], v.timing # << >>, v.timing[1])
  /\ Sends(T[19], v.timing # << >>, v.timing[2])
  /\ Sends(T[20], v.timing # << >>, 1)
  /\ Sends(T[21], sent, One(v.nal # << >>))
  /\ Sends(T[22], v.nal # << >>, Len(v.nal) - 1)
  /\ Sends(T[23], v.nal # << >>, 1)
  /\ Sends(T[24], v.nal # << >>, 6)
  /\ Sends(T[26], v.nal # << >>, 23)
  /\ Sends(T[27], v.nal # << >>, 15)
  /\ Sends(T[28], v.nal # << >>, 5)
  /\ Sends(T[29], v.nal # << >>, 24)
  /\ Sends(T[30], sent, One(v.vcl # << >>))
  /\ Sends(T[31], v.vcl # << >>, Len(v.vcl) - 1)
  /\ Sends(T[32], v.vcl # << >>, 1)
  /\ Sends(T[33], v.vcl # << >>, 6)
  /\ Sends(T[35], v.vcl # << >>, 23)
  /\ Sends(T[36], v.vcl # << >>, 15)
  /\ Sends(T[37], v.vcl # << >>, 5)
  /\ Sends(T[38], v.vcl # << >>, 24)
  /\ Sends(T[39], v.nal # << >> \/ v.vcl # << >>, 0)
  /\ Sends(T[40], sent, 1)
  /\ Sends(T[41], sent, One(v.restricted))
  /\ Sends(T[42], v.restricted, 1)
  /\ Sends(T[43], v.restricted, 0)
  /\ Sends(T[44], v.restricted, 0)
  /\ Sends(T[45], v.restricted, 11)
  /\ Sends(T[46], v.restricted, 11)
  /\ Sends(T[47], v.restricted, 0)
  /\ Sends(T[48], v.restricted, 4)
  /\ T[25].values = HrdValues(v.nal) /\ T[34].values = HrdValues(v.vcl)

\* Those of VuiRows are these.
LEMMA VuiRowsSend ==
  ASSUME NEW v, NEW sent, NEW T, T = VuiRows(v, sent)
  PROVE  VuiSends(T, v, sent)
<1>1. /\ Sends(T[1], sent, One(v.sar # << >>))
      /\ Sends(T[2], v.sar # << >>, 255)
      /\ Sends(T[3], v.sar # << >>, v.sar[1])
      /\ Sends(T[4], v.sar # << >>, v.sar[2])
      /\ Sends(T[5], sent, One(v.signal))
      /\ Sends(T[6], v.signal, 1)
  BY DEF Sends, Scalar, Given, Flag, One, u_n, u_1, ue_v, se_v, Element, VuiRows
<1>2. /\ Sends(T[7], sent, One(v.signal))
      /\ Sends(T[8], v.signal, 5)
      /\ Sends(T[9], v.signal, 1)
      /\ Sends(T[10], v.signal, 1)
      /\ Sends(T[11], v.signal, 1)
      /\ Sends(T[12], v.signal, 1)
  BY DEF Sends, Scalar, Given, Flag, One, u_n, u_1, ue_v, se_v, Element, VuiRows
<1>3. /\ Sends(T[13], v.signal, 1)
      /\ Sends(T[14], sent, One(v.signal))
      /\ Sends(T[15], v.signal, 0)
      /\ Sends(T[16], v.signal, 3)
      /\ Sends(T[17], sent, One(v.timing # << >>))
      /\ Sends(T[18], v.timing # << >>, v.timing[1])
  BY DEF Sends, Scalar, Given, Flag, One, u_n, u_1, ue_v, se_v, Element, VuiRows
<1>4. /\ Sends(T[19], v.timing # << >>, v.timing[2])
      /\ Sends(T[20], v.timing # << >>, 1)
      /\ Sends(T[21], sent, One(v.nal # << >>))
      /\ Sends(T[22], v.nal # << >>, Len(v.nal) - 1)
      /\ Sends(T[23], v.nal # << >>, 1)
      /\ Sends(T[24], v.nal # << >>, 6)
  BY DEF Sends, Scalar, Given, Flag, One, u_n, u_1, ue_v, se_v, Element, VuiRows
<1>5. /\ Sends(T[26], v.nal # << >>, 23)
      /\ Sends(T[27], v.nal # << >>, 15)
      /\ Sends(T[28], v.nal # << >>, 5)
      /\ Sends(T[29], v.nal # << >>, 24)
      /\ Sends(T[30], sent, One(v.vcl # << >>))
      /\ Sends(T[31], v.vcl # << >>, Len(v.vcl) - 1)
  BY DEF Sends, Scalar, Given, Flag, One, u_n, u_1, ue_v, se_v, Element, VuiRows
<1>6. /\ Sends(T[32], v.vcl # << >>, 1)
      /\ Sends(T[33], v.vcl # << >>, 6)
      /\ Sends(T[35], v.vcl # << >>, 23)
      /\ Sends(T[36], v.vcl # << >>, 15)
      /\ Sends(T[37], v.vcl # << >>, 5)
      /\ Sends(T[38], v.vcl # << >>, 24)
  BY DEF Sends, Scalar, Given, Flag, One, u_n, u_1, ue_v, se_v, Element, VuiRows
<1>7. /\ Sends(T[39], v.nal # << >> \/ v.vcl # << >>, 0)
      /\ Sends(T[40], sent, 1)
      /\ Sends(T[41], sent, One(v.restricted))
      /\ Sends(T[42], v.restricted, 1)
      /\ Sends(T[43], v.restricted, 0)
      /\ Sends(T[44], v.restricted, 0)
  BY DEF Sends, Scalar, Given, Flag, One, u_n, u_1, ue_v, se_v, Element, VuiRows
<1>8. /\ Sends(T[45], v.restricted, 11)
      /\ Sends(T[46], v.restricted, 11)
      /\ Sends(T[47], v.restricted, 0)
      /\ Sends(T[48], v.restricted, 4)
  BY DEF Sends, Scalar, Given, Flag, One, u_n, u_1, ue_v, se_v, Element, VuiRows
<1>20. T[25].values = HrdValues(v.nal) /\ T[34].values = HrdValues(v.vcl)
  BY DEF u_n, u_1, ue_v, se_v, Element, VuiRows
<1> QED  BY <1>1, <1>2, <1>3, <1>4, <1>5, <1>6, <1>7, <1>8, <1>20, Zenon DEF VuiSends

\* An element that is sent under a condition, and the number of its values.
LEMMA SendsIs ==
  ASSUME NEW e, NEW c, NEW x, Sends(e, c, x)
  PROVE  /\ Scalar(e) /\ Len(e.values) = One(c)
         /\ One(c) # 0 => Final(e) = x
<1>1. Scalar(e) /\ e.values = Given(c, <<x>>)  BY Zenon DEF Sends
<1>2. PICK w : w = e.values  OBVIOUS
<1>3. CASE c
  <2>1. w = <<x>> /\ One(c) = 1  BY <1>1, <1>2, <1>3 DEF Given, One
  <2>2. Len(w) = 1 /\ w[1] = x  BY <2>1
  <2> QED  BY <1>1, <1>2, <2>1, <2>2, Zenon DEF Final
<1>4. CASE ~ c
  <2>1. w = << >> /\ One(c) = 0  BY <1>1, <1>2, <1>4 DEF Given, One
  <2>2. Len(w) = 0  BY <2>1
  <2> QED  BY <1>1, <1>2, <2>1, <2>2, Zenon
<1> QED  BY <1>3, <1>4

\* What is known of a field behind it.
Tells(F, E, N, c, name, x) ==
  \A s, before : \A k \in 1..N + 1 :
    c < k /\ (before \/ k \in 1..N) /\ Knows(F, E, N, s, k, before) => s[name] = x

\* What an element says of its field: its last value, or 0 if it is not sent.
Says(e, x) ==
  \/ Len(e.values) = 0 /\ x = 0
  \/ Len(e.values) # 0 /\ Scalar(e) /\ x = Final(e)

\* What the parser has for a name that is read once.
LEMMA SaidTells ==
  ASSUME NEW F, NEW E, NEW N, Rows(F, E, N), NEW c \in 1..N, Unique(F, N, c),
         NEW name, F[c].name = name, NEW x, Says(E[c], x)
  PROVE  Tells(F, E, N, c, name, x)
<1>2. ASSUME NEW s, NEW before, NEW k \in 1..N + 1, c < k, before \/ k \in 1..N,
             Knows(F, E, N, s, k, before)
      PROVE  s[name] = x
  <2>1. /\ Count(E, c) = 0 => s[F[c].name] = 0
        /\ Count(E, c) # 0 /\ Scalar(E[c]) => s[F[c].name] = Final(E[c])
    BY <1>2, Known
  <2> QED  BY <2>1, Zenon DEF Says, Count
<1> QED  BY <1>2, Zenon DEF Tells

\* The fields that others depend on have names of their own.
NamedAlone(c, name) == SpsTable[c].name = name /\ Unique(SpsTable, 84, c)

\* The fields that are asked for later have names that no other field has.
LEMMA SpsNamed ==
  /\ NamedAlone(1, "profile_idc")
  /\ NamedAlone(9, "chroma_format_idc")
  /\ NamedAlone(14, "seq_scaling_matrix_present_flag")
  /\ NamedAlone(17, "pic_order_cnt_type")
  /\ NamedAlone(22, "num_ref_frames_in_pic_order_cnt_cycle")
  /\ NamedAlone(26, "pic_width_in_mbs_minus1")
  /\ NamedAlone(27, "pic_height_in_map_units_minus1")
  /\ NamedAlone(28, "frame_mbs_only_flag")
  /\ NamedAlone(31, "frame_cropping_flag")
  /\ NamedAlone(36, "vui_parameters_present_flag")
  /\ NamedAlone(37, "aspect_ratio_info_present_flag")
  /\ NamedAlone(38, "aspect_ratio_idc")
  /\ NamedAlone(41, "overscan_info_present_flag")
  /\ NamedAlone(43, "video_signal_type_present_flag")
  /\ NamedAlone(46, "colour_description_present_flag")
  /\ NamedAlone(50, "chroma_loc_info_present_flag")
  /\ NamedAlone(53, "timing_info_present_flag")
  /\ NamedAlone(54, "num_units_in_tick")
  /\ NamedAlone(55, "time_scale")
  /\ NamedAlone(57, "nal_hrd_parameters_present_flag")
  /\ NamedAlone(66, "vcl_hrd_parameters_present_flag")
  /\ NamedAlone(77, "bitstream_restriction_flag")
<1> DEFINE F == SpsTable
<1>0. \A k \in 1..84 : F[k] = IF k <= 36 THEN SpsFields[k] ELSE VuiFields[k - 36]
  BY SpsTableIs
<1> DEFINE Alone(c, name) == /\ F[c].name = name
                           /\ \A m \in 1..84 : F[m].name = name => m = c
<1> HIDE DEF F
<1>1. Alone(1, "profile_idc")
  BY <1>0 DEF SpsFields, VuiFields, Row, Get1, GetN, GetUe, GetSe
<1>2. Alone(9, "chroma_format_idc")
  BY <1>0 DEF SpsFields, VuiFields, Row, Get1, GetN, GetUe, GetSe
<1>3. Alone(14, "seq_scaling_matrix_present_flag")
  BY <1>0 DEF SpsFields, VuiFields, Row, Get1, GetN, GetUe, GetSe
<1>4. Alone(17, "pic_order_cnt_type")
  BY <1>0 DEF SpsFields, VuiFields, Row, Get1, GetN, GetUe, GetSe
<1>5. Alone(22, "num_ref_frames_in_pic_order_cnt_cycle")
  BY <1>0 DEF SpsFields, VuiFields, Row, Get1, GetN, GetUe, GetSe
<1>6. Alone(26, "pic_width_in_mbs_minus1")
  BY <1>0 DEF SpsFields, VuiFields, Row, Get1, GetN, GetUe, GetSe
<1>7. Alone(27, "pic_height_in_map_units_minus1")
  BY <1>0 DEF SpsFields, VuiFields, Row, Get1, GetN, GetUe, GetSe
<1>8. Alone(28, "frame_mbs_only_flag")
  BY <1>0 DEF SpsFields, VuiFields, Row, Get1, GetN, GetUe, GetSe
<1>9. Alone(31, "frame_cropping_flag")
  BY <1>0 DEF SpsFields, VuiFields, Row, Get1, GetN, GetUe, GetSe
<1>10. Alone(36, "vui_parameters_present_flag")
  BY <1>0 DEF SpsFields, VuiFields, Row, Get1, GetN, GetUe, GetSe
<1>11. Alone(37, "aspect_ratio_info_present_flag")
  BY <1>0 DEF SpsFields, VuiFields, Row, Get1, GetN, GetUe, GetSe
<1>12. Alone(38, "aspect_ratio_idc")
  BY <1>0 DEF SpsFields, VuiFields, Row, Get1, GetN, GetUe, GetSe
<1>13. Alone(41, "overscan_info_present_flag")
  BY <1>0 DEF SpsFields, VuiFields, Row, Get1, GetN, GetUe, GetSe
<1>14. Alone(43, "video_signal_type_present_flag")
  BY <1>0 DEF SpsFields, VuiFields, Row, Get1, GetN, GetUe, GetSe
<1>15. Alone(46, "colour_description_present_flag")
  BY <1>0 DEF SpsFields, VuiFields, Row, Get1, GetN, GetUe, GetSe
<1>16. Alone(50, "chroma_loc_info_present_flag")
  BY <1>0 DEF SpsFields, VuiFields, Row, Get1, GetN, GetUe, GetSe
<1>17. Alone(53, "timing_info_present_flag")
  BY <1>0 DEF SpsFields, VuiFields, Row, Get1, GetN, GetUe, GetSe
<1>18. Alone(54, "num_units_in_tick")
  BY <1>0 DEF SpsFields, VuiFields, Row, Get1, GetN, GetUe, GetSe
<1>19. Alone(55, "time_scale")
  BY <1>0 DEF SpsFields, VuiFields, Row, Get1, GetN, GetUe, GetSe
<1>20. Alone(57, "nal_hrd_parameters_present_flag")
  BY <1>0 DEF SpsFields, VuiFields, Row, Get1, GetN, GetUe, GetSe
<1>21. Alone(66, "vcl_hrd_parameters_present_flag")
  BY <1>0 DEF SpsFields, VuiFields, Row, Get1, GetN, GetUe, GetSe
<1>22. Alone(77, "bitstream_restriction_flag")
  BY <1>0 DEF SpsFields, VuiFields, Row, Get1, GetN, GetUe, GetSe
<1>23. ASSUME NEW c, NEW name, Alone(c, name) PROVE NamedAlone(c, name)
  BY <1>23, Zenon DEF F, NamedAlone, Unique
<1> HIDE DEF Alone
<1> QED  BY <1>1, <1>2, <1>3, <1>4, <1>5, <1>6, <1>7, <1>8, <1>9, <1>10, <1>11, <1>12,
            <1>13, <1>14, <1>15, <1>16, <1>17, <1>18, <1>19, <1>20, <1>21, <1>22, <1>23, Zenon

SpsTells(F, E, d) ==
  /\ Tells(F, E, 84, 1, "profile_idc", d.profile)
  /\ Tells(F, E, 84, 9, "chroma_format_idc",
           IF d.profile \in HighProfiles THEN d.chroma ELSE 0)
  /\ Tells(F, E, 84, 14, "seq_scaling_matrix_present_flag",
           IF d.profile \in HighProfiles THEN One(d.lists # << >>) ELSE 0)
  /\ Tells(F, E, 84, 17, "pic_order_cnt_type", d.poc)
  /\ Tells(F, E, 84, 22, "num_ref_frames_in_pic_order_cnt_cycle",
           IF d.poc = 1 THEN Len(d.offsets) ELSE 0)
  /\ Tells(F, E, 84, 26, "pic_width_in_mbs_minus1", d.width)
  /\ Tells(F, E, 84, 27, "pic_height_in_map_units_minus1", d.height)
  /\ Tells(F, E, 84, 28, "frame_mbs_only_flag", One(d.frames))
  /\ Tells(F, E, 84, 31, "frame_cropping_flag", One(d.cropped))
  /\ Tells(F, E, 84, 36, "vui_parameters_present_flag", One(d.vui # << >>))

VuiTells(F, E, v) ==
  /\ Tells(F, E, 84, 37, "aspect_ratio_info_present_flag", One(v.sar # << >>))
  /\ Tells(F, E, 84, 38, "aspect_ratio_idc", IF v.sar # << >> THEN 255 ELSE 0)
  /\ Tells(F, E, 84, 41, "overscan_info_present_flag", One(v.signal))
  /\ Tells(F, E, 84, 43, "video_signal_type_present_flag", One(v.signal))
  /\ Tells(F, E, 84, 46, "colour_description_present_flag", One(v.signal))
  /\ Tells(F, E, 84, 50, "chroma_loc_info_present_flag", One(v.signal))
  /\ Tells(F, E, 84, 53, "timing_info_present_flag", One(v.timing # << >>))
  /\ Tells(F, E, 84, 54, "num_units_in_tick", IF v.timing # << >> THEN v.timing[1] ELSE 0)
  /\ Tells(F, E, 84, 55, "time_scale", IF v.timing # << >> THEN v.timing[2] ELSE 0)
  /\ Tells(F, E, 84, 57, "nal_hrd_parameters_present_flag", One(v.nal # << >>))
  /\ Tells(F, E, 84, 66, "vcl_hrd_parameters_present_flag", One(v.vcl # << >>))
  /\ Tells(F, E, 84, 77, "bitstream_restriction_flag", One(v.restricted))

\* What the parser has of the fields of an SPS that others depend on.
LEMMA SpsControls ==
  ASSUME NEW F, F = SpsTable, NEW E, Rows(F, E, 84), NEW d, SpsSends(E, d)
  PROVE  SpsTells(F, E, d)
<1>1. Tells(F, E, 84, 1, "profile_idc", d.profile)
  <2>1. Sends(E[1], TRUE, d.profile)  BY Zenon DEF SpsSends
  <2>2. 1 \in 1..84  OBVIOUS
  <2>3. Unique(F, 84, 1) /\ F[1].name = "profile_idc"  BY SpsNamed, Zenon DEF NamedAlone
  <2>4. PICK x : x = d.profile  OBVIOUS
  <2>5. x = IF TRUE THEN d.profile ELSE 0  BY <2>4, Zenon DEF One
  <2>6. Says(E[1], x)  BY <2>1, <2>5 DEF Sends, Given, Says, Final
  <2>7. Tells(F, E, 84, 1, "profile_idc", x)  BY <2>2, <2>3, <2>6, SaidTells, Zenon
  <2> QED  BY <2>4, <2>7, Zenon
<1>2. Tells(F, E, 84, 9, "chroma_format_idc",
            IF d.profile \in HighProfiles THEN d.chroma ELSE 0)
  <2>1. Sends(E[9], d.profile \in HighProfiles, d.chroma)  BY Zenon DEF SpsSends
  <2>2. 9 \in 1..84  OBVIOUS
  <2>3. Unique(F, 84, 9) /\ F[9].name = "chroma_format_idc"
    BY SpsNamed, ZenonT(30) DEF NamedAlone
  <2>4. PICK x : x = IF d.profile \in HighProfiles THEN d.chroma ELSE 0  OBVIOUS
  <2>5. x = IF d.profile \in HighProfiles THEN d.chroma ELSE 0  BY <2>4, Zenon DEF One
  <2>6. Says(E[9], x)  BY <2>1, <2>5 DEF Sends, Given, Says, Final
  <2>7. Tells(F, E, 84, 9, "chroma_format_idc", x)  BY <2>2, <2>3, <2>6, SaidTells, Zenon
  <2> QED  BY <2>4, <2>7, Zenon
<1>3. Tells(F, E, 84, 14, "seq_scaling_matrix_present_flag",
            IF d.profile \in HighProfiles THEN One(d.lists # << >>) ELSE 0)
  <2>1. Sends(E[14], d.profile \in HighProfiles, One(d.lists # << >>))
    BY Zenon DEF SpsSends
  <2>2. 14 \in 1..84  OBVIOUS
  <2>3. Unique(F, 84, 14) /\ F[14].name = "seq_scaling_matrix_present_flag"
    BY SpsNamed, Zenon DEF NamedAlone
  <2>4. PICK x : x = IF d.profile \in HighProfiles THEN One(d.lists # << >>) ELSE 0  OBVIOUS
  <2>5. x = IF d.profile \in HighProfiles THEN One(d.lists # << >>) ELSE 0
    BY <2>4, Zenon DEF One
  <2>6. Says(E[14], x)  BY <2>1, <2>5 DEF Sends, Given, Says, Final
  <2>7. Tells(F, E, 84, 14, "seq_scaling_matrix_present_flag", x)
    BY <2>2, <2>3, <2>6, SaidTells, Zenon
  <2> QED  BY <2>4, <2>7, Zenon
<1>4. Tells(F, E, 84, 17, "pic_order_cnt_type", d.poc)
  <2>1. Sends(E[17], TRUE, d.poc)  BY Zenon DEF SpsSends
  <2>2. 17 \in 1..84  OBVIOUS
  <2>3. Unique(F, 84, 17) /\ F[17].name = "pic_order_cnt_type"
    BY SpsNamed, Zenon DEF NamedAlone
  <2>4. PICK x : x = d.poc  OBVIOUS
  <2>5. x = IF TRUE THEN d.poc ELSE 0  BY <2>4, Zenon DEF One
  <2>6. Says(E[17], x)  BY <2>1, <2>5 DEF Sends, Given, Says, Final
  <2>7. Tells(F, E, 84, 17, "pic_order_cnt_type", x)  BY <2>2, <2>3, <2>6, SaidTells, Zenon
  <2> QED  BY <2>4, <2>7, Zenon
<1>5. Tells(F, E, 84, 22, "num_ref_frames_in_pic_order_cnt_cycle",
            IF d.poc = 1 THEN Len(d.offsets) ELSE 0)
  <2>1. Sends(E[22], d.poc = 1, Len(d.offsets))  BY Zenon DEF SpsSends
  <2>2. 22 \in 1..84  OBVIOUS
  <2>3. Unique(F, 84, 22) /\ F[22].name = "num_ref_frames_in_pic_order_cnt_cycle"
    BY SpsNamed, Zenon DEF NamedAlone
  <2>4. PICK x : x = IF d.poc = 1 THEN Len(d.offsets) ELSE 0  OBVIOUS
  <2>5. x = IF d.poc = 1 THEN Len(d.offsets) ELSE 0  BY <2>4, Zenon DEF One
  <2>6. Says(E[22], x)  BY <2>1, <2>5 DEF Sends, Given, Says, Final
  <2>7. Tells(F, E, 84, 22, "num_ref_frames_in_pic_order_cnt_cycle", x)
    BY <2>2, <2>3, <2>6, SaidTells, Zenon
  <2> QED  BY <2>4, <2>7, Zenon
<1>6. Tells(F, E, 84, 26, "pic_width_in_mbs_minus1", d.width)
  <2>1. Sends(E[26], TRUE, d.width)  BY Zenon DEF SpsSends
  <2>2. 26 \in 1..84  OBVIOUS
  <2>3. Unique(F, 84, 26) /\ F[26].name = "pic_width_in_mbs_minus1"
    BY SpsNamed, Zenon DEF NamedAlone
  <2>4. PICK x : x = d.width  OBVIOUS
  <2>5. x = IF TRUE THEN d.width ELSE 0  BY <2>4, Zenon DEF One
  <2>6. Says(E[26], x)  BY <2>1, <2>5 DEF Sends, Given, Says, Final
  <2>7. Tells(F, E, 84, 26, "pic_width_in_mbs_minus1", x)
    BY <2>2, <2>3, <2>6, SaidTells, Zenon
  <2> QED  BY <2>4, <2>7, Zenon
<1>7. Tells(F, E, 84, 27, "pic_height_in_map_units_minus1", d.height)
  <2>1. Sends(E[27], TRUE, d.height)  BY Zenon DEF SpsSends
  <2>2. 27 \in 1..84  OBVIOUS
  <2>3. Unique(F, 84, 27) /\ F[27].name = "pic_height_in_map_units_minus1"
    BY SpsNamed, Zenon DEF NamedAlone
  <2>4. PICK x : x = d.height  OBVIOUS
  <2>5. x = IF TRUE THEN d.height ELSE 0  BY <2>4, Zenon DEF One
  <2>6. Says(E[27], x)  BY <2>1, <2>5 DEF Sends, Given, Says, Final
  <2>7. Tells(F, E, 84, 27, "pic_height_in_map_units_minus1", x)
    BY <2>2, <2>3, <2>6, SaidTells, Zenon
  <2> QED  BY <2>4, <2>7, Zenon
<1>8. Tells(F, E, 84, 28, "frame_mbs_only_flag", One(d.frames))
  <2>1. Sends(E[28], TRUE, One(d.frames))  BY Zenon DEF SpsSends
  <2>2. 28 \in 1..84  OBVIOUS
  <2>3. Unique(F, 84, 28) /\ F[28].name = "frame_mbs_only_flag"
    BY SpsNamed, Zenon DEF NamedAlone
  <2>4. PICK x : x = One(d.frames)  OBVIOUS
  <2>5. x = IF TRUE THEN One(d.frames) ELSE 0  BY <2>4, Zenon DEF One
  <2>6. Says(E[28], x)  BY <2>1, <2>5 DEF Sends, Given, Says, Final
  <2>7. Tells(F, E, 84, 28, "frame_mbs_only_flag", x)  BY <2>2, <2>3, <2>6, SaidTells, Zenon
  <2> QED  BY <2>4, <2>7, Zenon
<1>9. Tells(F, E, 84, 31, "frame_cropping_flag", One(d.cropped))
  <2>1. Sends(E[31], TRUE, One(d.cropped))  BY Zenon DEF SpsSends
  <2>2. 31 \in 1..84  OBVIOUS
  <2>3. Unique(F, 84, 31) /\ F[31].name = "frame_cropping_flag"
    BY SpsNamed, Zenon DEF NamedAlone
  <2>4. PICK x : x = One(d.cropped)  OBVIOUS
  <2>5. x = IF TRUE THEN One(d.cropped) ELSE 0  BY <2>4, Zenon DEF One
  <2>6. Says(E[31], x)  BY <2>1, <2>5 DEF Sends, Given, Says, Final
  <2>7. Tells(F, E, 84, 31, "frame_cropping_flag", x)  BY <2>2, <2>3, <2>6, SaidTells, Zenon
  <2> QED  BY <2>4, <2>7, Zenon
<1>10. Tells(F, E, 84, 36, "vui_parameters_present_flag", One(d.vui # << >>))
  <2>1. Sends(E[36], TRUE, One(d.vui # << >>))  BY Zenon DEF SpsSends
  <2>2. 36 \in 1..84  OBVIOUS
  <2>3. Unique(F, 84, 36) /\ F[36].name = "vui_parameters_present_flag"
    BY SpsNamed, Zenon DEF NamedAlone
  <2>4. PICK x : x = One(d.vui # << >>)  OBVIOUS
  <2>5. x = IF TRUE THEN One(d.vui # << >>) ELSE 0  BY <2>4, Zenon DEF One
  <2>6. Says(E[36], x)  BY <2>1, <2>5 DEF Sends, Given, Says, Final
  <2>7. Tells(F, E, 84, 36, "vui_parameters_present_flag", x)
    BY <2>2, <2>3, <2>6, SaidTells, Zenon
  <2> QED  BY <2>4, <2>7, Zenon
<1> QED
  BY <1>1, <1>2, <1>3, <1>4, <1>5, <1>6, <1>7, <1>8, <1>9, <1>10, Zenon DEF SpsTells

\* What it has of those of the VUI.
LEMMA VuiControls ==
  ASSUME NEW F, F = SpsTable, NEW E, Rows(F, E, 84), NEW v, NEW sent, sent \/ v = NoVui,
         NEW T, VuiSends(T, v, sent), \A k \in 37..84 : E[k] = T[k - 36]
  PROVE  VuiTells(F, E, v)
<1>0. ~ sent => /\ ~ (v.sar # << >>) /\ ~ v.signal /\ ~ (v.timing # << >>)
                /\ ~ (v.nal # << >>) /\ ~ (v.vcl # << >>) /\ ~ v.restricted
  <2>1. SUFFICES ASSUME ~ sent
        PROVE  /\ v.sar = << >> /\ ~ v.signal /\ v.timing = << >>
               /\ v.nal = << >> /\ v.vcl = << >> /\ ~ v.restricted
    OBVIOUS
  <2>2. v = NoVui  BY <2>1
  <2>3. v.sar = << >> /\ v.timing = << >> /\ v.nal = << >> /\ v.vcl = << >>
    BY <2>2 DEF NoVui
  <2>4. ~ v.signal /\ ~ v.restricted  BY <2>2, Zenon DEF NoVui
  <2> QED  BY <2>3, <2>4
<1>1. Tells(F, E, 84, 37, "aspect_ratio_info_present_flag", One(v.sar # << >>))
  <2>1. Sends(E[37], sent, One(v.sar # << >>))
    <3>1. 37 \in 37..84 /\ 37 - 36 = 1  OBVIOUS
    <3>2. E[37] = T[1]  BY <3>1
    <3>3. Sends(T[1], sent, One(v.sar # << >>))  BY Zenon DEF VuiSends
    <3> QED  BY <3>2, <3>3, Zenon
  <2>2. 37 \in 1..84  OBVIOUS
  <2>3. Unique(F, 84, 37) /\ F[37].name = "aspect_ratio_info_present_flag"
    BY SpsNamed, Zenon DEF NamedAlone
  <2>4. PICK x : x = One(v.sar # << >>)  OBVIOUS
  <2>5. x = IF sent THEN One(v.sar # << >>) ELSE 0  BY <1>0, <2>4, Zenon DEF One
  <2>6. Says(E[37], x)  BY <2>1, <2>5 DEF Sends, Given, Says, Final
  <2>7. Tells(F, E, 84, 37, "aspect_ratio_info_present_flag", x)
    BY <2>2, <2>3, <2>6, SaidTells, Zenon
  <2> QED  BY <2>4, <2>7, Zenon
<1>2. Tells(F, E, 84, 38, "aspect_ratio_idc", IF v.sar # << >> THEN 255 ELSE 0)
  <2>1. Sends(E[38], v.sar # << >>, 255)
    <3>1. 38 \in 37..84 /\ 38 - 36 = 2  OBVIOUS
    <3>2. E[38] = T[2]  BY <3>1
    <3>3. Sends(T[2], v.sar # << >>, 255)  BY Zenon DEF VuiSends
    <3> QED  BY <3>2, <3>3, Zenon
  <2>2. 38 \in 1..84  OBVIOUS
  <2>3. Unique(F, 84, 38) /\ F[38].name = "aspect_ratio_idc"
    BY SpsNamed, Zenon DEF NamedAlone
  <2>4. PICK x : x = IF v.sar # << >> THEN 255 ELSE 0  BY ZenonT(30)
  <2>5. x = IF v.sar # << >> THEN 255 ELSE 0  BY <1>0, <2>4, Zenon DEF One
  <2>6. Says(E[38], x)  BY <2>1, <2>5 DEF Sends, Given, Says, Final
  <2>7. Tells(F, E, 84, 38, "aspect_ratio_idc", x)  BY <2>2, <2>3, <2>6, SaidTells, Zenon
  <2> QED  BY <2>4, <2>7, Zenon
<1>3. Tells(F, E, 84, 41, "overscan_info_present_flag", One(v.signal))
  <2>1. Sends(E[41], sent, One(v.signal))
    <3>1. 41 \in 37..84 /\ 41 - 36 = 5  OBVIOUS
    <3>2. E[41] = T[5]  BY <3>1
    <3>3. Sends(T[5], sent, One(v.signal))  BY Zenon DEF VuiSends
    <3> QED  BY <3>2, <3>3, Zenon
  <2>2. 41 \in 1..84  OBVIOUS
  <2>3. Unique(F, 84, 41) /\ F[41].name = "overscan_info_present_flag"
    BY SpsNamed, Zenon DEF NamedAlone
  <2>4. PICK x : x = One(v.signal)  OBVIOUS
  <2>5. x = IF sent THEN One(v.signal) ELSE 0  BY <1>0, <2>4, Zenon DEF One
  <2>6. Says(E[41], x)  BY <2>1, <2>5 DEF Sends, Given, Says, Final
  <2>7. Tells(F, E, 84, 41, "overscan_info_present_flag", x)
    BY <2>2, <2>3, <2>6, SaidTells, Zenon
  <2> QED  BY <2>4, <2>7, Zenon
<1>4. Tells(F, E, 84, 43, "video_signal_type_present_flag", One(v.signal))
  <2>1. Sends(E[43], sent, One(v.signal))
    <3>1. 43 \in 37..84 /\ 43 - 36 = 7  OBVIOUS
    <3>2. E[43] = T[7]  BY <3>1
    <3>3. Sends(T[7], sent, One(v.signal))  BY Zenon DEF VuiSends
    <3> QED  BY <3>2, <3>3, Zenon
  <2>2. 43 \in 1..84  OBVIOUS
  <2>3. Unique(F, 84, 43) /\ F[43].name = "video_signal_type_present_flag"
    BY SpsNamed, Zenon DEF NamedAlone
  <2>4. PICK x : x = One(v.signal)  OBVIOUS
  <2>5. x = IF sent THEN One(v.signal) ELSE 0  BY <1>0, <2>4, Zenon DEF One
  <2>6. Says(E[43], x)  BY <2>1, <2>5 DEF Sends, Given, Says, Final
  <2>7. Tells(F, E, 84, 43, "video_signal_type_present_flag", x)
    BY <2>2, <2>3, <2>6, SaidTells, Zenon
  <2> QED  BY <2>4, <2>7, Zenon
<1>5. Tells(F, E, 84, 46, "colour_description_present_flag", One(v.signal))
  <2>1. Sends(E[46], v.signal, 1)
    <3>1. 46 \in 37..84 /\ 46 - 36 = 10  OBVIOUS
    <3>2. E[46] = T[10]  BY <3>1
    <3>3. Sends(T[10], v.signal, 1)  BY Zenon DEF VuiSends
    <3> QED  BY <3>2, <3>3, Zenon
  <2>2. 46 \in 1..84  OBVIOUS
  <2>3. Unique(F, 84, 46) /\ F[46].name = "colour_description_present_flag"
    BY SpsNamed, Zenon DEF NamedAlone
  <2>4. PICK x : x = One(v.signal)  OBVIOUS
  <2>5. x = IF v.signal THEN 1 ELSE 0  BY <1>0, <2>4, Zenon DEF One
  <2>6. Says(E[46], x)  BY <2>1, <2>5 DEF Sends, Given, Says, Final
  <2>7. Tells(F, E, 84, 46, "colour_description_present_flag", x)
    BY <2>2, <2>3, <2>6, SaidTells, Zenon
  <2> QED  BY <2>4, <2>7, Zenon
<1>6. Tells(F, E, 84, 50, "chroma_loc_info_present_flag", One(v.signal))
  <2>1. Sends(E[50], sent, One(v.signal))
    <3>1. 50 \in 37..84 /\ 50 - 36 = 14  OBVIOUS
    <3>2. E[50] = T[14]  BY <3>1
    <3>3. Sends(T[14], sent, One(v.signal))  BY Zenon DEF VuiSends
    <3> QED  BY <3>2, <3>3, Zenon
  <2>2. 50 \in 1..84  OBVIOUS
  <2>3. Unique(F, 84, 50) /\ F[50].name = "chroma_loc_info_present_flag"
    BY SpsNamed, Zenon DEF NamedAlone
  <2>4. PICK x : x = One(v.signal)  OBVIOUS
  <2>5. x = IF sent THEN One(v.signal) ELSE 0  BY <1>0, <2>4, Zenon DEF One
  <2>6. Says(E[50], x)  BY <2>1, <2>5 DEF Sends, Given, Says, Final
  <2>7. Tells(F, E, 84, 50, "chroma_loc_info_present_flag", x)
    BY <2>2, <2>3, <2>6, SaidTells, Zenon
  <2> QED  BY <2>4, <2>7, Zenon
<1>7. Tells(F, E, 84, 53, "timing_info_present_flag", One(v.timing # << >>))
  <2>1. Sends(E[53], sent, One(v.timing # << >>))
    <3>1. 53 \in 37..84 /\ 53 - 36 = 17  OBVIOUS
    <3>2. E[53] = T[17]  BY <3>1
    <3>3. Sends(T[17], sent, One(v.timing # << >>))  BY Zenon DEF VuiSends
    <3> QED  BY <3>2, <3>3, Zenon
  <2>2. 53 \in 1..84  OBVIOUS
  <2>3. Unique(F, 84, 53) /\ F[53].name = "timing_info_present_flag"
    BY SpsNamed, Zenon DEF NamedAlone
  <2>4. PICK x : x = One(v.timing # << >>)  OBVIOUS
  <2>5. x = IF sent THEN One(v.timing # << >>) ELSE 0  BY <1>0, <2>4, Zenon DEF One
  <2>6. Says(E[53], x)  BY <2>1, <2>5 DEF Sends, Given, Says, Final
  <2>7. Tells(F, E, 84, 53, "timing_info_present_flag", x)
    BY <2>2, <2>3, <2>6, SaidTells, Zenon
  <2> QED  BY <2>4, <2>7, Zenon
<1>8. Tells(F, E, 84, 54, "num_units_in_tick", IF v.timing # << >> THEN v.timing[1] ELSE 0)
  <2>1. Sends(E[54], v.timing # << >>, v.timing[1])
    <3>1. 54 \in 37..84 /\ 54 - 36 = 18  OBVIOUS
    <3>2. E[54] = T[18]  BY <3>1
    <3>3. Sends(T[18], v.timing # << >>, v.timing[1])  BY Zenon DEF VuiSends
    <3> QED  BY <3>2, <3>3, Zenon
  <2>2. 54 \in 1..84  OBVIOUS
  <2>3. Unique(F, 84, 54) /\ F[54].name = "num_units_in_tick"
    BY SpsNamed, Zenon DEF NamedAlone
  <2>4. PICK x : x = IF v.timing # << >> THEN v.timing[1] ELSE 0  OBVIOUS
  <2>5. x = IF v.timing # << >> THEN v.timing[1] ELSE 0  BY <1>0, <2>4, Zenon DEF One
  <2>6. Says(E[54], x)
    <3>1. PICK y : y = v.timing[1]  OBVIOUS
    <3>2. Sends(E[54], v.timing # << >>, y) /\ x = IF v.timing # << >> THEN y ELSE 0
      BY <2>1, <2>5, <3>1, Zenon
    <3> QED  BY <3>2 DEF Sends, Given, Says, Final
  <2>7. Tells(F, E, 84, 54, "num_units_in_tick", x)  BY <2>2, <2>3, <2>6, SaidTells, Zenon
  <2> QED  BY <2>4, <2>7, Zenon
<1>9. Tells(F, E, 84, 55, "time_scale", IF v.timing # << >> THEN v.timing[2] ELSE 0)
  <2>1. Sends(E[55], v.timing # << >>, v.timing[2])
    <3>1. 55 \in 37..84 /\ 55 - 36 = 19  OBVIOUS
    <3>2. E[55] = T[19]  BY <3>1
    <3>3. Sends(T[19], v.timing # << >>, v.timing[2])  BY Zenon DEF VuiSends
    <3> QED  BY <3>2, <3>3, Zenon
  <2>2. 55 \in 1..84  OBVIOUS
  <2>3. Unique(F, 84, 55) /\ F[55].name = "time_scale"  BY SpsNamed, Zenon DEF NamedAlone
  <2>4. PICK x : x = IF v.timing # << >> THEN v.timing[2] ELSE 0  OBVIOUS
  <2>5. x = IF v.timing # << >> THEN v.timing[2] ELSE 0  BY <1>0, <2>4, Zenon DEF One
  <2>6. Says(E[55], x)
    <3>1. PICK y : y = v.timing[2]  OBVIOUS
    <3>2. Sends(E[55], v.timing # << >>, y) /\ x = IF v.timing # << >> THEN y ELSE 0
      BY <2>1, <2>5, <3>1, Zenon
    <3> QED  BY <3>2 DEF Sends, Given, Says, Final
  <2>7. Tells(F, E, 84, 55, "time_scale", x)  BY <2>2, <2>3, <2>6, SaidTells, Zenon
  <2> QED  BY <2>4, <2>7, Zenon
<1>10. Tells(F, E, 84, 57, "nal_hrd_parameters_present_flag", One(v.nal # << >>))
  <2>1. Sends(E[57], sent, One(v.nal # << >>))
    <3>1. 57 \in 37..84 /\ 57 - 36 = 21  OBVIOUS
    <3>2. E[57] = T[21]  BY <3>1
    <3>3. Sends(T[21], sent, One(v.nal # << >>))  BY Zenon DEF VuiSends
    <3> QED  BY <3>2, <3>3, Zenon
  <2>2. 57 \in 1..84  OBVIOUS
  <2>3. Unique(F, 84, 57) /\ F[57].name = "nal_hrd_parameters_present_flag"
    BY SpsNamed, Zenon DEF NamedAlone
  <2>4. PICK x : x = One(v.nal # << >>)  OBVIOUS
  <2>5. x = IF sent THEN One(v.nal # << >>) ELSE 0  BY <1>0, <2>4, Zenon DEF One
  <2>6. Says(E[57], x)  BY <2>1, <2>5 DEF Sends, Given, Says, Final
  <2>7. Tells(F, E, 84, 57, "nal_hrd_parameters_present_flag", x)
    BY <2>2, <2>3, <2>6, SaidTells, Zenon
  <2> QED  BY <2>4, <2>7, Zenon
<1>11. Tells(F, E, 84, 66, "vcl_hrd_parameters_present_flag", One(v.vcl # << >>))
  <2>1. Sends(E[66], sent, One(v.vcl # << >>))
    <3>1. 66 \in 37..84 /\ 66 - 36 = 30  OBVIOUS
    <3>2. E[66] = T[30]  BY <3>1
    <3>3. Sends(T[30], sent, One(v.vcl # << >>))  BY Zenon DEF VuiSends
    <3> QED  BY <3>2, <3>3, Zenon
  <2>2. 66 \in 1..84  OBVIOUS
  <2>3. Unique(F, 84, 66) /\ F[66].name = "vcl_hrd_parameters_present_flag"
    BY SpsNamed, Zenon DEF NamedAlone
  <2>4. PICK x : x = One(v.vcl # << >>)  OBVIOUS
  <2>5. x = IF sent THEN One(v.vcl # << >>) ELSE 0  BY <1>0, <2>4, Zenon DEF One
  <2>6. Says(E[66], x)  BY <2>1, <2>5 DEF Sends, Given, Says, Final
  <2>7. Tells(F, E, 84, 66, "vcl_hrd_parameters_present_flag", x)
    BY <2>2, <2>3, <2>6, SaidTells, Zenon
  <2> QED  BY <2>4, <2>7, Zenon
<1>12. Tells(F, E, 84, 77, "bitstream_restriction_flag", One(v.restricted))
  <2>1. Sends(E[77], sent, One(v.restricted))
    <3>1. 77 \in 37..84 /\ 77 - 36 = 41  OBVIOUS
    <3>2. E[77] = T[41]  BY <3>1
    <3>3. Sends(T[41], sent, One(v.restricted))  BY Zenon DEF VuiSends
    <3> QED  BY <3>2, <3>3, Zenon
  <2>2. 77 \in 1..84  OBVIOUS
  <2>3. Unique(F, 84, 77) /\ F[77].name = "bitstream_restriction_flag"
    BY SpsNamed, Zenon DEF NamedAlone
  <2>4. PICK x : x = One(v.restricted)  OBVIOUS
  <2>5. x = IF sent THEN One(v.restricted) ELSE 0  BY <1>0, <2>4, Zenon DEF One
  <2>6. Says(E[77], x)  BY <2>1, <2>5 DEF Sends, Given, Says, Final
  <2>7. Tells(F, E, 84, 77, "bitstream_restriction_flag", x)
    BY <2>2, <2>3, <2>6, SaidTells, Zenon
  <2> QED  BY <2>4, <2>7, Zenon
<1> QED
  BY <1>1, <1>2, <1>3, <1>4, <1>5, <1>6, <1>7, <1>8, <1>9, <1>10, <1>11, <1>12, Zenon
     DEF VuiTells

\* The fields with each condition.
Labelled(F, k) ==
  /\ F[k].when = "sps" => k \in {1, 2, 3, 4, 5, 6, 7, 8, 16, 17, 24, 25, 26, 27, 28, 30, 31, 36}
  /\ F[k].when = "high" => k \in {9, 11, 12, 13, 14}
  /\ F[k].when = "planes" => k \in {10}
  /\ F[k].when = "matrix" => k \in {15}
  /\ F[k].when = "poc0" => k \in {18}
  /\ F[k].when = "poc1" => k \in {19, 20, 21, 22}
  /\ F[k].when = "cycle" => k \in {23}
  /\ F[k].when = "fields" => k \in {29}
  /\ F[k].when = "crop" => k \in {32, 33, 34, 35}
  /\ F[k].when = "vui" => k \in {37, 41, 43, 50, 53, 57, 66, 76, 77}
  /\ F[k].when = "aspect" => k \in {38}
  /\ F[k].when = "sar" => k \in {39, 40}
  /\ F[k].when = "overscan" => k \in {42}
  /\ F[k].when = "signal" => k \in {44, 45, 46}
  /\ F[k].when = "colour" => k \in {47, 48, 49}
  /\ F[k].when = "chroma" => k \in {51, 52}
  /\ F[k].when = "timing" => k \in {54, 55, 56}
  /\ F[k].when = "nal" => k \in {58, 59, 60, 62, 63, 64, 65}
  /\ F[k].when = "nalcpb" => k \in {61}
  /\ F[k].when = "vcl" => k \in {67, 68, 69, 71, 72, 73, 74}
  /\ F[k].when = "vclcpb" => k \in {70}
  /\ F[k].when = "hrd" => k \in {75}
  /\ F[k].when = "limits" => k \in {78, 79, 80, 81, 82, 83, 84}

\* Which fields of an SPS are read under which condition.
LEMMA SpsLabelled ==
  ASSUME NEW F, F = SpsTable, NEW k \in 1..84
  PROVE  Labelled(F, k)
<1>1. \A m \in 1..84 : F[m] = IF m <= 36 THEN SpsFields[m] ELSE VuiFields[m - 36]
  BY SpsTableIs
<1>2. F[k].when = "sps" => k \in {1, 2, 3, 4, 5, 6, 7, 8, 16, 17, 24, 25, 26, 27, 28, 30, 31, 36}
  BY <1>1 DEF SpsFields, VuiFields, Row, Get1, GetN, GetUe, GetSe
<1>3. F[k].when = "high" => k \in {9, 11, 12, 13, 14}
  BY <1>1 DEF SpsFields, VuiFields, Row, Get1, GetN, GetUe, GetSe
<1>4. F[k].when = "planes" => k \in {10}
  BY <1>1 DEF SpsFields, VuiFields, Row, Get1, GetN, GetUe, GetSe
<1>5. F[k].when = "matrix" => k \in {15}
  BY <1>1 DEF SpsFields, VuiFields, Row, Get1, GetN, GetUe, GetSe
<1>6. F[k].when = "poc0" => k \in {18}
  BY <1>1 DEF SpsFields, VuiFields, Row, Get1, GetN, GetUe, GetSe
<1>7. F[k].when = "poc1" => k \in {19, 20, 21, 22}
  BY <1>1 DEF SpsFields, VuiFields, Row, Get1, GetN, GetUe, GetSe
<1>8. F[k].when = "cycle" => k \in {23}
  BY <1>1 DEF SpsFields, VuiFields, Row, Get1, GetN, GetUe, GetSe
<1>9. F[k].when = "fields" => k \in {29}
  BY <1>1 DEF SpsFields, VuiFields, Row, Get1, GetN, GetUe, GetSe
<1>10. F[k].when = "crop" => k \in {32, 33, 34, 35}
  BY <1>1 DEF SpsFields, VuiFields, Row, Get1, GetN, GetUe, GetSe
<1>11. F[k].when = "vui" => k \in {37, 41, 43, 50, 53, 57, 66, 76, 77}
  BY <1>1 DEF SpsFields, VuiFields, Row, Get1, GetN, GetUe, GetSe
<1>12. F[k].when = "aspect" => k \in {38}
  BY <1>1 DEF SpsFields, VuiFields, Row, Get1, GetN, GetUe, GetSe
<1>13. F[k].when = "sar" => k \in {39, 40}
  BY <1>1 DEF SpsFields, VuiFields, Row, Get1, GetN, GetUe, GetSe
<1>14. F[k].when = "overscan" => k \in {42}
  BY <1>1 DEF SpsFields, VuiFields, Row, Get1, GetN, GetUe, GetSe
<1>15. F[k].when = "signal" => k \in {44, 45, 46}
  BY <1>1 DEF SpsFields, VuiFields, Row, Get1, GetN, GetUe, GetSe
<1>16. F[k].when = "colour" => k \in {47, 48, 49}
  BY <1>1 DEF SpsFields, VuiFields, Row, Get1, GetN, GetUe, GetSe
<1>17. F[k].when = "chroma" => k \in {51, 52}
  BY <1>1 DEF SpsFields, VuiFields, Row, Get1, GetN, GetUe, GetSe
<1>18. F[k].when = "timing" => k \in {54, 55, 56}
  BY <1>1 DEF SpsFields, VuiFields, Row, Get1, GetN, GetUe, GetSe
<1>19. F[k].when = "nal" => k \in {58, 59, 60, 62, 63, 64, 65}
  BY <1>1 DEF SpsFields, VuiFields, Row, Get1, GetN, GetUe, GetSe
<1>20. F[k].when = "nalcpb" => k \in {61}
  BY <1>1 DEF SpsFields, VuiFields, Row, Get1, GetN, GetUe, GetSe
<1>21. F[k].when = "vcl" => k \in {67, 68, 69, 71, 72, 73, 74}
  BY <1>1 DEF SpsFields, VuiFields, Row, Get1, GetN, GetUe, GetSe
<1>22. F[k].when = "vclcpb" => k \in {70}
  BY <1>1 DEF SpsFields, VuiFields, Row, Get1, GetN, GetUe, GetSe
<1>23. F[k].when = "hrd" => k \in {75}
  BY <1>1 DEF SpsFields, VuiFields, Row, Get1, GetN, GetUe, GetSe
<1>24. F[k].when = "limits" => k \in {78, 79, 80, 81, 82, 83, 84}
  BY <1>1 DEF SpsFields, VuiFields, Row, Get1, GetN, GetUe, GetSe
<1> QED
  BY <1>2, <1>3, <1>4, <1>5, <1>6, <1>7, <1>8, <1>9, <1>10, <1>11,
     <1>12, <1>13, <1>14, <1>15, <1>16, <1>17, <1>18, <1>19, <1>20,
     <1>21, <1>22, <1>23, <1>24, Zenon DEF Labelled

SpsCounts(E, d) ==
  /\ \A k \in {1, 2, 3, 4, 5, 6, 7, 8, 16, 17, 24, 25, 26, 27, 28, 30, 31, 36} : Count(E, k) = 1
  /\ \A k \in {9, 11, 12, 13, 14} : Count(E, k) = One(d.profile \in HighProfiles)
  /\ \A k \in {10} : Count(E, k) = One(d.profile \in HighProfiles /\ d.chroma = 3)
  /\ \A k \in {15} : Count(E, k) = Len(Given(d.profile \in HighProfiles, d.lists))
  /\ \A k \in {18} : Count(E, k) = One(d.poc = 0)
  /\ \A k \in {19, 20, 21, 22} : Count(E, k) = One(d.poc = 1)
  /\ \A k \in {23} : Count(E, k) = Len(Given(d.poc = 1, d.offsets))
  /\ \A k \in {29} : Count(E, k) = One(~ d.frames)
  /\ \A k \in {32, 33, 34, 35} : Count(E, k) = One(d.cropped)

\* How many values the encoder sends of each element of an SPS,
LEMMA SpsCounted ==
  ASSUME NEW E, NEW d, SpsSends(E, d)
  PROVE  SpsCounts(E, d)
<1>1. \A k \in {1, 2, 3, 4, 5, 6, 7, 8, 16, 17, 24, 25, 26, 27, 28, 30, 31, 36} : Count(E, k) = 1
  <2>2. /\ Sends(E[1], TRUE, d.profile)
        /\ Sends(E[2], TRUE, 1)
        /\ Sends(E[3], TRUE, 1)
        /\ Sends(E[4], TRUE, 0)
        /\ Sends(E[5], TRUE, 0)
        /\ Sends(E[6], TRUE, 0)
        /\ Sends(E[7], TRUE, 40)
        /\ Sends(E[8], TRUE, 0)
        /\ Sends(E[16], TRUE, 0)
        /\ Sends(E[17], TRUE, d.poc)
        /\ Sends(E[24], TRUE, 4)
        /\ Sends(E[25], TRUE, 0)
        /\ Sends(E[26], TRUE, d.width)
        /\ Sends(E[27], TRUE, d.height)
        /\ Sends(E[28], TRUE, One(d.frames))
        /\ Sends(E[30], TRUE, 1)
        /\ Sends(E[31], TRUE, One(d.cropped))
        /\ Sends(E[36], TRUE, One(d.vui # << >>))
    BY Zenon DEF SpsSends
  <2>3. Count(E, 1) = 1 /\ Count(E, 2) = 1 /\ Count(E, 3) = 1 /\ Count(E, 4) = 1 /\
        Count(E, 5) = 1 /\ Count(E, 6) = 1 /\ Count(E, 7) = 1 /\ Count(E, 8) = 1 /\
        Count(E, 16) = 1 /\ Count(E, 17) = 1 /\ Count(E, 24) = 1 /\ Count(E, 25) = 1 /\
        Count(E, 26) = 1 /\ Count(E, 27) = 1 /\ Count(E, 28) = 1 /\ Count(E, 30) = 1 /\
        Count(E, 31) = 1 /\ Count(E, 36) = 1
    BY <2>2 DEF Sends, Given, Count, One
  <2> QED  BY <2>3
<1>2. \A k \in {9, 11, 12, 13, 14} : Count(E, k) = One(d.profile \in HighProfiles)
  <2>2. /\ Sends(E[9], d.profile \in HighProfiles, d.chroma)
        /\ Sends(E[11], d.profile \in HighProfiles, 0)
        /\ Sends(E[12], d.profile \in HighProfiles, 2)
        /\ Sends(E[13], d.profile \in HighProfiles, 0)
        /\ Sends(E[14], d.profile \in HighProfiles, One(d.lists # << >>))
    BY Zenon DEF SpsSends
  <2>3. Count(E, 9) = One(d.profile \in HighProfiles) /\
        Count(E, 11) = One(d.profile \in HighProfiles) /\
        Count(E, 12) = One(d.profile \in HighProfiles) /\
        Count(E, 13) = One(d.profile \in HighProfiles) /\
        Count(E, 14) = One(d.profile \in HighProfiles)
    BY <2>2 DEF Sends, Given, Count, One
  <2> QED  BY <2>3
<1>3. \A k \in {10} : Count(E, k) = One(d.profile \in HighProfiles /\ d.chroma = 3)
  <2>2. /\ Sends(E[10], d.profile \in HighProfiles /\ d.chroma = 3, 0)
    BY Zenon DEF SpsSends
  <2>3. Count(E, 10) = One(d.profile \in HighProfiles /\ d.chroma = 3)
    BY <2>2 DEF Sends, Given, Count, One
  <2> QED  BY <2>3
<1>4. \A k \in {15} : Count(E, k) = Len(Given(d.profile \in HighProfiles, d.lists))
  <2>2. E[15].values = Given(d.profile \in HighProfiles, d.lists)  BY Zenon DEF SpsSends
  <2>3. Count(E, 15) = Len(Given(d.profile \in HighProfiles, d.lists))
    BY <2>2, Zenon DEF Count
  <2> QED  BY <2>3
<1>5. \A k \in {18} : Count(E, k) = One(d.poc = 0)
  <2>2. /\ Sends(E[18], d.poc = 0, 2)
    BY Zenon DEF SpsSends
  <2>3. Count(E, 18) = One(d.poc = 0)
    BY <2>2 DEF Sends, Given, Count, One
  <2> QED  BY <2>3
<1>6. \A k \in {19, 20, 21, 22} : Count(E, k) = One(d.poc = 1)
  <2>2. /\ Sends(E[19], d.poc = 1, 0)
        /\ Sends(E[20], d.poc = 1, -1)
        /\ Sends(E[21], d.poc = 1, 2)
        /\ Sends(E[22], d.poc = 1, Len(d.offsets))
    BY Zenon DEF SpsSends
  <2>3. Count(E, 19) = One(d.poc = 1) /\ Count(E, 20) = One(d.poc = 1) /\
        Count(E, 21) = One(d.poc = 1) /\ Count(E, 22) = One(d.poc = 1)
    BY <2>2 DEF Sends, Given, Count, One
  <2> QED  BY <2>3
<1>7. \A k \in {23} : Count(E, k) = Len(Given(d.poc = 1, d.offsets))
  <2>2. E[23].values = Given(d.poc = 1, d.offsets)  BY Zenon DEF SpsSends
  <2>3. Count(E, 23) = Len(Given(d.poc = 1, d.offsets))  BY <2>2, Zenon DEF Count
  <2> QED  BY <2>3
<1>8. \A k \in {29} : Count(E, k) = One(~ d.frames)
  <2>2. /\ Sends(E[29], ~ d.frames, 1)
    BY Zenon DEF SpsSends
  <2>3. Count(E, 29) = One(~ d.frames)
    BY <2>2 DEF Sends, Given, Count, One
  <2> QED  BY <2>3
<1>9. \A k \in {32, 33, 34, 35} : Count(E, k) = One(d.cropped)
  <2>2. /\ Sends(E[32], d.cropped, 0)
        /\ Sends(E[33], d.cropped, 1)
        /\ Sends(E[34], d.cropped, 0)
        /\ Sends(E[35], d.cropped, 4)
    BY Zenon DEF SpsSends
  <2>3. Count(E, 32) = One(d.cropped) /\ Count(E, 33) = One(d.cropped) /\
        Count(E, 34) = One(d.cropped) /\ Count(E, 35) = One(d.cropped)
    BY <2>2 DEF Sends, Given, Count, One
  <2> QED  BY <2>3
<1> QED  BY <1>1, <1>2, <1>3, <1>4, <1>5, <1>6, <1>7, <1>8, <1>9, Zenon DEF SpsCounts

VuiCounts(E, v, sent) ==
  /\ \A k \in {37, 41, 43, 50, 53, 57, 66, 76, 77} : Count(E, k) = One(sent)
  /\ \A k \in {38} : Count(E, k) = One(v.sar # << >>)
  /\ \A k \in {39, 40} : Count(E, k) = One(v.sar # << >>)
  /\ \A k \in {42} : Count(E, k) = One(v.signal)
  /\ \A k \in {44, 45, 46} : Count(E, k) = One(v.signal)
  /\ \A k \in {47, 48, 49} : Count(E, k) = One(v.signal)
  /\ \A k \in {51, 52} : Count(E, k) = One(v.signal)
  /\ \A k \in {54, 55, 56} : Count(E, k) = One(v.timing # << >>)
  /\ \A k \in {58, 59, 60, 62, 63, 64, 65} : Count(E, k) = One(v.nal # << >>)
  /\ \A k \in {61} : Count(E, k) = Len(HrdValues(v.nal))
  /\ \A k \in {67, 68, 69, 71, 72, 73, 74} : Count(E, k) = One(v.vcl # << >>)
  /\ \A k \in {70} : Count(E, k) = Len(HrdValues(v.vcl))
  /\ \A k \in {75} : Count(E, k) = One(v.nal # << >> \/ v.vcl # << >>)
  /\ \A k \in {78, 79, 80, 81, 82, 83, 84} : Count(E, k) = One(v.restricted)

\* and of each of the VUI.
LEMMA VuiCounted ==
  ASSUME NEW E, NEW v, NEW sent, NEW T, VuiSends(T, v, sent),
         \A k \in 37..84 : E[k] = T[k - 36]
  PROVE  VuiCounts(E, v, sent)
<1>1. \A k \in {37, 41, 43, 50, 53, 57, 66, 76, 77} : Count(E, k) = One(sent)
  <2>1. E[37] = T[1] /\ E[41] = T[5] /\ E[43] = T[7] /\ E[50] = T[14] /\ E[53] = T[17] /\
        E[57] = T[21] /\ E[66] = T[30] /\ E[76] = T[40] /\ E[77] = T[41]
    OBVIOUS
  <2>2. /\ Sends(E[37], sent, One(v.sar # << >>))
        /\ Sends(E[41], sent, One(v.signal))
        /\ Sends(E[43], sent, One(v.signal))
        /\ Sends(E[50], sent, One(v.signal))
        /\ Sends(E[53], sent, One(v.timing # << >>))
        /\ Sends(E[57], sent, One(v.nal # << >>))
        /\ Sends(E[66], sent, One(v.vcl # << >>))
        /\ Sends(E[76], sent, 1)
        /\ Sends(E[77], sent, One(v.restricted))
    BY <2>1, ZenonT(30) DEF VuiSends
  <2>3. Count(E, 37) = One(sent) /\ Count(E, 41) = One(sent) /\ Count(E, 43) = One(sent) /\
        Count(E, 50) = One(sent) /\ Count(E, 53) = One(sent) /\ Count(E, 57) = One(sent) /\
        Count(E, 66) = One(sent) /\ Count(E, 76) = One(sent) /\ Count(E, 77) = One(sent)
    BY <2>2 DEF Sends, Given, Count, One
  <2> QED  BY <2>3
<1>2. \A k \in {38} : Count(E, k) = One(v.sar # << >>)
  <2>1. E[38] = T[2]
    OBVIOUS
  <2>2. /\ Sends(E[38], v.sar # << >>, 255)
    BY <2>1, Zenon DEF VuiSends
  <2>3. Count(E, 38) = One(v.sar # << >>)
    BY <2>2 DEF Sends, Given, Count, One
  <2> QED  BY <2>3
<1>3. \A k \in {39, 40} : Count(E, k) = One(v.sar # << >>)
  <2>1. E[39] = T[3] /\ E[40] = T[4]
    OBVIOUS
  <2>2. /\ Sends(E[39], v.sar # << >>, v.sar[1])
        /\ Sends(E[40], v.sar # << >>, v.sar[2])
    BY <2>1, Zenon DEF VuiSends
  <2>3. Count(E, 39) = One(v.sar # << >>) /\ Count(E, 40) = One(v.sar # << >>)
    BY <2>2 DEF Sends, Given, Count, One
  <2> QED  BY <2>3
<1>4. \A k \in {42} : Count(E, k) = One(v.signal)
  <2>1. E[42] = T[6]
    OBVIOUS
  <2>2. /\ Sends(E[42], v.signal, 1)
    BY <2>1, Zenon DEF VuiSends
  <2>3. Count(E, 42) = One(v.signal)
    BY <2>2 DEF Sends, Given, Count, One
  <2> QED  BY <2>3
<1>5. \A k \in {44, 45, 46} : Count(E, k) = One(v.signal)
  <2>1. E[44] = T[8] /\ E[45] = T[9] /\ E[46] = T[10]
    OBVIOUS
  <2>2. /\ Sends(E[44], v.signal, 5)
        /\ Sends(E[45], v.signal, 1)
        /\ Sends(E[46], v.signal, 1)
    BY <2>1, Zenon DEF VuiSends
  <2>3. Count(E, 44) = One(v.signal) /\ Count(E, 45) = One(v.signal) /\
        Count(E, 46) = One(v.signal)
    BY <2>2 DEF Sends, Given, Count, One
  <2> QED  BY <2>3
<1>6. \A k \in {47, 48, 49} : Count(E, k) = One(v.signal)
  <2>1. E[47] = T[11] /\ E[48] = T[12] /\ E[49] = T[13]
    OBVIOUS
  <2>2. /\ Sends(E[47], v.signal, 1)
        /\ Sends(E[48], v.signal, 1)
        /\ Sends(E[49], v.signal, 1)
    BY <2>1, Zenon DEF VuiSends
  <2>3. Count(E, 47) = One(v.signal) /\ Count(E, 48) = One(v.signal) /\
        Count(E, 49) = One(v.signal)
    BY <2>2 DEF Sends, Given, Count, One
  <2> QED  BY <2>3
<1>7. \A k \in {51, 52} : Count(E, k) = One(v.signal)
  <2>1. E[51] = T[15] /\ E[52] = T[16]
    OBVIOUS
  <2>2. /\ Sends(E[51], v.signal, 0)
        /\ Sends(E[52], v.signal, 3)
    BY <2>1, Zenon DEF VuiSends
  <2>3. Count(E, 51) = One(v.signal) /\ Count(E, 52) = One(v.signal)
    BY <2>2 DEF Sends, Given, Count, One
  <2> QED  BY <2>3
<1>8. \A k \in {54, 55, 56} : Count(E, k) = One(v.timing # << >>)
  <2>1. E[54] = T[18] /\ E[55] = T[19] /\ E[56] = T[20]
    OBVIOUS
  <2>2. /\ Sends(E[54], v.timing # << >>, v.timing[1])
        /\ Sends(E[55], v.timing # << >>, v.timing[2])
        /\ Sends(E[56], v.timing # << >>, 1)
    BY <2>1, Zenon DEF VuiSends
  <2>3. Count(E, 54) = One(v.timing # << >>) /\ Count(E, 55) = One(v.timing # << >>) /\
        Count(E, 56) = One(v.timing # << >>)
    BY <2>2 DEF Sends, Given, Count, One
  <2> QED  BY <2>3
<1>9. \A k \in {58, 59, 60, 62, 63, 64, 65} : Count(E, k) = One(v.nal # << >>)
  <2>1. E[58] = T[22] /\ E[59] = T[23] /\ E[60] = T[24] /\ E[62] = T[26] /\
        E[63] = T[27] /\ E[64] = T[28] /\ E[65] = T[29]
    OBVIOUS
  <2>2. /\ Sends(E[58], v.nal # << >>, Len(v.nal) - 1)
        /\ Sends(E[59], v.nal # << >>, 1)
        /\ Sends(E[60], v.nal # << >>, 6)
        /\ Sends(E[62], v.nal # << >>, 23)
        /\ Sends(E[63], v.nal # << >>, 15)
        /\ Sends(E[64], v.nal # << >>, 5)
        /\ Sends(E[65], v.nal # << >>, 24)
    BY <2>1, ZenonT(30) DEF VuiSends
  <2>3. Count(E, 58) = One(v.nal # << >>) /\ Count(E, 59) = One(v.nal # << >>) /\
        Count(E, 60) = One(v.nal # << >>) /\ Count(E, 62) = One(v.nal # << >>) /\
        Count(E, 63) = One(v.nal # << >>) /\ Count(E, 64) = One(v.nal # << >>) /\
        Count(E, 65) = One(v.nal # << >>)
    BY <2>2 DEF Sends, Given, Count, One
  <2> QED  BY <2>3
<1>10. \A k \in {61} : Count(E, k) = Len(HrdValues(v.nal))
  <2>1. E[61] = T[25]
    OBVIOUS
  <2>2. E[61].values = HrdValues(v.nal)  BY <2>1, Zenon DEF VuiSends
  <2>3. Count(E, 61) = Len(HrdValues(v.nal))  BY <2>2, Zenon DEF Count
  <2> QED  BY <2>3
<1>11. \A k \in {67, 68, 69, 71, 72, 73, 74} : Count(E, k) = One(v.vcl # << >>)
  <2>1. E[67] = T[31] /\ E[68] = T[32] /\ E[69] = T[33] /\ E[71] = T[35] /\
        E[72] = T[36] /\ E[73] = T[37] /\ E[74] = T[38]
    OBVIOUS
  <2>2. /\ Sends(E[67], v.vcl # << >>, Len(v.vcl) - 1)
        /\ Sends(E[68], v.vcl # << >>, 1)
        /\ Sends(E[69], v.vcl # << >>, 6)
        /\ Sends(E[71], v.vcl # << >>, 23)
        /\ Sends(E[72], v.vcl # << >>, 15)
        /\ Sends(E[73], v.vcl # << >>, 5)
        /\ Sends(E[74], v.vcl # << >>, 24)
    BY <2>1, Zenon DEF VuiSends
  <2>3. Count(E, 67) = One(v.vcl # << >>) /\ Count(E, 68) = One(v.vcl # << >>) /\
        Count(E, 69) = One(v.vcl # << >>) /\ Count(E, 71) = One(v.vcl # << >>) /\
        Count(E, 72) = One(v.vcl # << >>) /\ Count(E, 73) = One(v.vcl # << >>) /\
        Count(E, 74) = One(v.vcl # << >>)
    BY <2>2 DEF Sends, Given, Count, One
  <2> QED  BY <2>3
<1>12. \A k \in {70} : Count(E, k) = Len(HrdValues(v.vcl))
  <2>1. E[70] = T[34]
    OBVIOUS
  <2>2. E[70].values = HrdValues(v.vcl)  BY <2>1, Zenon DEF VuiSends
  <2>3. Count(E, 70) = Len(HrdValues(v.vcl))  BY <2>2, Zenon DEF Count
  <2> QED  BY <2>3
<1>13. \A k \in {75} : Count(E, k) = One(v.nal # << >> \/ v.vcl # << >>)
  <2>1. E[75] = T[39]
    OBVIOUS
  <2>2. /\ Sends(E[75], v.nal # << >> \/ v.vcl # << >>, 0)
    BY <2>1, Zenon DEF VuiSends
  <2>3. Count(E, 75) = One(v.nal # << >> \/ v.vcl # << >>)
    BY <2>2 DEF Sends, Given, Count, One
  <2> QED  BY <2>3
<1>14. \A k \in {78, 79, 80, 81, 82, 83, 84} : Count(E, k) = One(v.restricted)
  <2>1. E[78] = T[42] /\ E[79] = T[43] /\ E[80] = T[44] /\ E[81] = T[45] /\
        E[82] = T[46] /\ E[83] = T[47] /\ E[84] = T[48]
    OBVIOUS
  <2>2. /\ Sends(E[78], v.restricted, 1)
        /\ Sends(E[79], v.restricted, 0)
        /\ Sends(E[80], v.restricted, 0)
        /\ Sends(E[81], v.restricted, 11)
        /\ Sends(E[82], v.restricted, 11)
        /\ Sends(E[83], v.restricted, 0)
        /\ Sends(E[84], v.restricted, 4)
    BY <2>1, ZenonT(30) DEF VuiSends
  <2>3. Count(E, 78) = One(v.restricted) /\ Count(E, 79) = One(v.restricted) /\
        Count(E, 80) = One(v.restricted) /\ Count(E, 81) = One(v.restricted) /\
        Count(E, 82) = One(v.restricted) /\ Count(E, 83) = One(v.restricted) /\
        Count(E, 84) = One(v.restricted)
    BY <2>2 DEF Sends, Given, Count, One
  <2> QED  BY <2>3
<1> QED  BY <1>1, <1>2, <1>3, <1>4, <1>5, <1>6, <1>7, <1>8, <1>9, <1>10, <1>11, <1>12,
            <1>13, <1>14, Zenon DEF VuiCounts

\* The fields of a sequence parameter set are read as often as they are sent.
LEMMA SpsAgrees ==
  ASSUME NEW F, F = SpsTable, NEW E, NEW d, SpsTells(F, E, d), SpsCounts(E, d),
         d.lists # << >> => Len(d.lists) = IF d.chroma = 3 THEN 12 ELSE 8,
         NEW k \in 1..84, NEW s, Knows(F, E, 84, s, k, FALSE), F[k].when \in SpsLabels
  PROVE  Times(s, F[k].when) = Count(E, k)
<1>1. /\ 1 < k => s["profile_idc"] = d.profile
      /\ 9 < k => s["chroma_format_idc"] = IF d.profile \in HighProfiles THEN d.chroma ELSE 0
      /\ 14 < k => s["seq_scaling_matrix_present_flag"] =
                     IF d.profile \in HighProfiles THEN One(d.lists # << >>) ELSE 0
      /\ 17 < k => s["pic_order_cnt_type"] = d.poc
      /\ 22 < k => s["num_ref_frames_in_pic_order_cnt_cycle"] =
                     IF d.poc = 1 THEN Len(d.offsets) ELSE 0
      /\ 28 < k => s["frame_mbs_only_flag"] = One(d.frames)
      /\ 31 < k => s["frame_cropping_flag"] = One(d.cropped)
  <2>0. k \in 1..84 + 1  OBVIOUS
  <2>1. 1 < k => s["profile_idc"] =
                d.profile
    <3>1. Tells(F, E, 84, 1, "profile_idc",
                d.profile)
      BY Zenon DEF SpsTells
    <3> QED  BY <2>0, <3>1, Zenon DEF Tells
  <2>2. 9 < k => s["chroma_format_idc"] =
                IF d.profile \in HighProfiles THEN d.chroma ELSE 0
    <3>1. Tells(F, E, 84, 9, "chroma_format_idc",
                IF d.profile \in HighProfiles THEN d.chroma ELSE 0)
      BY Zenon DEF SpsTells
    <3> QED  BY <2>0, <3>1, Zenon DEF Tells
  <2>3. 14 < k => s["seq_scaling_matrix_present_flag"] =
                IF d.profile \in HighProfiles THEN One(d.lists # << >>) ELSE 0
    <3>1. Tells(F, E, 84, 14, "seq_scaling_matrix_present_flag",
                IF d.profile \in HighProfiles THEN One(d.lists # << >>) ELSE 0)
      BY Zenon DEF SpsTells
    <3> QED  BY <2>0, <3>1, Zenon DEF Tells
  <2>4. 17 < k => s["pic_order_cnt_type"] =
                d.poc
    <3>1. Tells(F, E, 84, 17, "pic_order_cnt_type",
                d.poc)
      BY Zenon DEF SpsTells
    <3> QED  BY <2>0, <3>1, Zenon DEF Tells
  <2>5. 22 < k => s["num_ref_frames_in_pic_order_cnt_cycle"] =
                IF d.poc = 1 THEN Len(d.offsets) ELSE 0
    <3>1. Tells(F, E, 84, 22, "num_ref_frames_in_pic_order_cnt_cycle",
                IF d.poc = 1 THEN Len(d.offsets) ELSE 0)
      BY Zenon DEF SpsTells
    <3> QED  BY <2>0, <3>1, Zenon DEF Tells
  <2>6. 28 < k => s["frame_mbs_only_flag"] =
                One(d.frames)
    <3>1. Tells(F, E, 84, 28, "frame_mbs_only_flag",
                One(d.frames))
      BY Zenon DEF SpsTells
    <3> QED  BY <2>0, <3>1, Zenon DEF Tells
  <2>7. 31 < k => s["frame_cropping_flag"] =
                One(d.cropped)
    <3>1. Tells(F, E, 84, 31, "frame_cropping_flag",
                One(d.cropped))
      BY Zenon DEF SpsTells
    <3> QED  BY <2>0, <3>1, Zenon DEF Tells
  <2> QED  BY <2>1, <2>2, <2>3, <2>4, <2>5, <2>6, <2>7, Zenon
<1>0. Labelled(F, k)  BY SpsLabelled
<1>2. CASE F[k].when = "sps"
  <2>1. k \in {1, 2, 3, 4, 5, 6, 7, 8, 16, 17, 24, 25, 26, 27, 28, 30, 31, 36}
    BY <1>0, <1>2, Zenon DEF Labelled
  <2>2. Count(E, k) = 1  BY <2>1, Zenon DEF SpsCounts
  <2>3. Times(s, "sps") = 1  BY TimesIs, Zenon
  <2> QED  BY <1>2, <2>2, <2>3, Zenon
<1>3. ASSUME k \in {9, 10, 11, 12, 13, 14, 15}
      PROVE  HighProfile(s) <=> d.profile \in HighProfiles
  <2>1. s.profile_idc = d.profile  BY <1>1, <1>3
  <2> QED  BY <2>1 DEF HighProfile, HighProfiles
<1>4. CASE F[k].when = "high"
  <2>1. k \in {9, 11, 12, 13, 14}  BY <1>0, <1>4, Zenon DEF Labelled
  <2>2. Count(E, k) = One(d.profile \in HighProfiles)  BY <2>1, Zenon DEF SpsCounts
  <2>3. HighProfile(s) <=> d.profile \in HighProfiles  BY <1>3, <2>1
  <2>4. Times(s, "high") = One(HighProfile(s))  BY TimesIs, Zenon
  <2>5. One(HighProfile(s)) = One(d.profile \in HighProfiles)  BY <2>3, Zenon DEF One
  <2> QED  BY <1>4, <2>2, <2>4, <2>5, Zenon
<1>5. CASE F[k].when = "planes"
  <2>1. k = 10  BY <1>0, <1>5, Zenon DEF Labelled
  <2>2. Count(E, k) = One(d.profile \in HighProfiles /\ d.chroma = 3)
    BY <2>1, Zenon DEF SpsCounts
  <2>3. HighProfile(s) <=> d.profile \in HighProfiles  BY <1>3, <2>1
  <2>4. s.chroma_format_idc = IF d.profile \in HighProfiles THEN d.chroma ELSE 0
    BY <1>1, <2>1
  <2>5. Times(s, "planes") = One(HighProfile(s) /\ s.chroma_format_idc = 3)
    BY TimesIs, Zenon
  <2>6. (HighProfile(s) /\ s.chroma_format_idc = 3)
          <=> (d.profile \in HighProfiles /\ d.chroma = 3)
    BY <2>3, <2>4, Zenon
  <2>7. Times(s, "planes") = One(d.profile \in HighProfiles /\ d.chroma = 3)
    BY <2>5, <2>6, Zenon DEF One
  <2> QED  BY <1>5, <2>2, <2>7, Zenon
<1>6. CASE F[k].when = "matrix"
  <2>1. k = 15  BY <1>0, <1>6, Zenon DEF Labelled
  <2>2. Count(E, k) = Len(Given(d.profile \in HighProfiles, d.lists))
    BY <2>1, Zenon DEF SpsCounts
  <2>4. s.chroma_format_idc = IF d.profile \in HighProfiles THEN d.chroma ELSE 0
    BY <1>1, <2>1
  <2>5. s.seq_scaling_matrix_present_flag =
          IF d.profile \in HighProfiles THEN One(d.lists # << >>) ELSE 0
    BY <1>1, <2>1
  <2>6. Times(s, "matrix") = s.seq_scaling_matrix_present_flag * ListCount(s)
    BY TimesIs, Zenon
  <2>7. ListCount(s) = IF s.chroma_format_idc # 3 THEN 8 ELSE 12  BY DEF ListCount
  <2>8. Len(<< >>) = 0  OBVIOUS
  <2>9. CASE d.profile \in HighProfiles /\ d.lists # << >>
    <3>1. s.seq_scaling_matrix_present_flag = 1  BY <2>5, <2>9, Zenon DEF One
    <3>2. Len(d.lists) = ListCount(s)  BY <2>4, <2>7, <2>9
    <3>3. ListCount(s) \in Int  BY <2>7
    <3>4. 1 * ListCount(s) = ListCount(s)  BY <3>3
    <3>5. Count(E, k) = Len(d.lists)  BY <2>2, <2>9, Zenon DEF Given
    <3> QED  BY <1>6, <2>6, <3>1, <3>2, <3>4, <3>5, Zenon
  <2>10. CASE ~ (d.profile \in HighProfiles /\ d.lists # << >>)
    <3>1. s.seq_scaling_matrix_present_flag = 0  BY <2>5, <2>10, Zenon DEF One
    <3>2. 0 * ListCount(s) = 0  BY <2>7
    <3>3. Count(E, k) = 0  BY <2>2, <2>8, <2>10, Zenon DEF Given
    <3> QED  BY <1>6, <2>6, <3>1, <3>2, <3>3, Zenon
  <2> QED  BY <2>9, <2>10
<1>7. CASE F[k].when = "poc0"
  <2>1. k = 18  BY <1>0, <1>7, Zenon DEF Labelled
  <2>2. Count(E, k) = One(d.poc = 0)  BY <2>1, Zenon DEF SpsCounts
  <2>3. s.pic_order_cnt_type = d.poc  BY <1>1, <2>1
  <2>4. Times(s, "poc0") = One(s.pic_order_cnt_type = 0)  BY TimesIs, Zenon
  <2> QED  BY <1>7, <2>2, <2>3, <2>4, Zenon
<1>8. CASE F[k].when = "poc1"
  <2>1. k \in {19, 20, 21, 22}  BY <1>0, <1>8, Zenon DEF Labelled
  <2>2. Count(E, k) = One(d.poc = 1)  BY <2>1, Zenon DEF SpsCounts
  <2>3. s.pic_order_cnt_type = d.poc  BY <1>1, <2>1
  <2>4. Times(s, "poc1") = One(s.pic_order_cnt_type = 1)  BY TimesIs, Zenon
  <2> QED  BY <1>8, <2>2, <2>3, <2>4, Zenon
<1>9. CASE F[k].when = "cycle"
  <2>1. k = 23  BY <1>0, <1>9, Zenon DEF Labelled
  <2>2. Count(E, k) = Len(Given(d.poc = 1, d.offsets))  BY <2>1, Zenon DEF SpsCounts
  <2>3. s.num_ref_frames_in_pic_order_cnt_cycle = IF d.poc = 1 THEN Len(d.offsets) ELSE 0
    BY <1>1, <2>1
  <2>4. Times(s, "cycle") = s.num_ref_frames_in_pic_order_cnt_cycle  BY TimesIs, Zenon
  <2>5. Len(<< >>) = 0  OBVIOUS
  <2> QED  BY <1>9, <2>2, <2>3, <2>4, <2>5, Zenon DEF Given
<1>10. CASE F[k].when = "fields"
  <2>1. k = 29  BY <1>0, <1>10, Zenon DEF Labelled
  <2>2. Count(E, k) = One(~ d.frames)  BY <2>1, Zenon DEF SpsCounts
  <2>3. s.frame_mbs_only_flag = One(d.frames)  BY <1>1, <2>1
  <2>4. Times(s, "fields") = 1 - s.frame_mbs_only_flag  BY TimesIs, Zenon
  <2>5. 1 - 0 = 1 /\ 1 - 1 = 0  OBVIOUS
  <2> QED  BY <1>10, <2>2, <2>3, <2>4, <2>5, Zenon DEF One
<1>11. CASE F[k].when = "crop"
  <2>1. k \in {32, 33, 34, 35}  BY <1>0, <1>11, Zenon DEF Labelled
  <2>2. Count(E, k) = One(d.cropped)  BY <2>1, Zenon DEF SpsCounts
  <2>3. s.frame_cropping_flag = One(d.cropped)  BY <1>1, <2>1
  <2>4. Times(s, "crop") = s.frame_cropping_flag  BY TimesIs, Zenon
  <2> QED  BY <1>11, <2>2, <2>3, <2>4, Zenon
<1> QED
  BY <1>2, <1>4, <1>5, <1>6, <1>7, <1>8, <1>9, <1>10, <1>11 DEF SpsLabels

\* The number of values for the buffers of a decoder.
LEMMA HrdCount ==
  ASSUME NEW h \in Seq(Nat)
  PROVE  /\ Len(HrdValues(h)) = 3 * Len(h) /\ Len(h) \in Nat
         /\ h = << >> => Len(HrdValues(h)) = 0
<1>1. Len(h) \in Nat /\ (h = << >> => Len(h) = 0)  OBVIOUS
<1>2. PICK n : n = 3 * Len(h)  OBVIOUS
<1>3. n \in Nat /\ (h = << >> => n = 0)  BY <1>1, <1>2
<1>4. PICK g : g = HrdValues(h)  OBVIOUS
<1>5. g = [i \in 1..n |-> g[i]]
  BY <1>2, <1>4 DEF HrdValues
<1>6. Len(g) = n
  <2>1. \A m \in Nat : \A f : f = [i \in 1..m |-> f[i]] => Len(f) = m  OBVIOUS
  <2> QED  BY <1>3, <1>5, <2>1, Zenon
<1> QED  BY <1>1, <1>2, <1>3, <1>4, <1>6, Zenon

\* The number of buffers is the last that was read.
CpbIs(F, E, v, s) ==
  /\ v.nal # << >> /\ Knows(F, E, 84, s, 61, FALSE)
       => s["cpb_cnt_minus1"] = Len(v.nal) - 1
  /\ v.vcl # << >> /\ Knows(F, E, 84, s, 70, FALSE)
       => s["cpb_cnt_minus1"] = Len(v.vcl) - 1

\* The number of buffers of a decoder, which is sent once for the NAL and once for the
\* VCL, and kept under one name.
LEMMA CpbKnown ==
  ASSUME NEW F, F = SpsTable, NEW E, NEW v, NEW sent, NEW T, VuiSends(T, v, sent),
         \A k \in 37..84 : E[k] = T[k - 36],
         NEW s
  PROVE  CpbIs(F, E, v, s)
<1>1. \A m \in 1..84 : F[m] = IF m <= 36 THEN SpsFields[m] ELSE VuiFields[m - 36]
  BY SpsTableIs
<1>2. ASSUME v.nal # << >>, Knows(F, E, 84, s, 61, FALSE)
      PROVE  s["cpb_cnt_minus1"] = Len(v.nal) - 1
  <2>1. /\ F[58].name = "cpb_cnt_minus1" /\ F[61].name # "cpb_cnt_minus1"
        /\ F[59].name # "cpb_cnt_minus1" /\ F[60].name # "cpb_cnt_minus1"
    BY <1>1 DEF VuiFields, Row, Get1, GetN, GetUe, GetSe
  <2>2. \A j \in 1..84 : 58 < j /\ j < 61 => j = 59 \/ j = 60  OBVIOUS
  <2>3. \A j \in 1..84 : 58 < j /\ j < 61 => F[j].name # F[58].name
    BY <2>1, <2>2, Zenon
  <2>4. E[58] = T[22]  OBVIOUS
  <2>5. Sends(E[58], v.nal # << >>, Len(v.nal) - 1)  BY <2>4, Zenon DEF VuiSends
  <2>6. PICK x : x = Len(v.nal) - 1  OBVIOUS
  <2>7. Sends(E[58], v.nal # << >>, x)  BY <2>5, <2>6, Zenon
  <2>8. Scalar(E[58]) /\ Count(E, 58) # 0 /\ Final(E[58]) = x
    BY <1>2, <2>7 DEF Sends, Given, Count, Final
  <2>9. 58 \in 1..84 /\ 58 < 61  OBVIOUS
  <2> QED  BY <1>2, <2>1, <2>3, <2>6, <2>8, <2>9, ZenonT(30) DEF Knows
<1>3. ASSUME v.vcl # << >>, Knows(F, E, 84, s, 70, FALSE)
      PROVE  s["cpb_cnt_minus1"] = Len(v.vcl) - 1
  <2>1. /\ F[67].name = "cpb_cnt_minus1" /\ F[70].name # "cpb_cnt_minus1"
        /\ F[68].name # "cpb_cnt_minus1" /\ F[69].name # "cpb_cnt_minus1"
    BY <1>1 DEF VuiFields, Row, Get1, GetN, GetUe, GetSe
  <2>2. \A j \in 1..84 : 67 < j /\ j < 70 => j = 68 \/ j = 69  OBVIOUS
  <2>3. \A j \in 1..84 : 67 < j /\ j < 70 => F[j].name # F[67].name
    BY <2>1, <2>2, Zenon
  <2>4. E[67] = T[31]  OBVIOUS
  <2>5. Sends(E[67], v.vcl # << >>, Len(v.vcl) - 1)  BY <2>4, Zenon DEF VuiSends
  <2>6. PICK x : x = Len(v.vcl) - 1  OBVIOUS
  <2>7. Sends(E[67], v.vcl # << >>, x)  BY <2>5, <2>6, Zenon
  <2>8. Scalar(E[67]) /\ Count(E, 67) # 0 /\ Final(E[67]) = x
    BY <1>3, <2>7 DEF Sends, Given, Count, Final
  <2>9. 67 \in 1..84 /\ 67 < 70  OBVIOUS
  <2> QED  BY <1>3, <2>1, <2>3, <2>6, <2>8, <2>9, ZenonT(30) DEF Knows
<1> QED  BY <1>2, <1>3 DEF CpbIs

\* A field of the VUI stands behind the one that says whether it is sent.
LEMMA FlagsFirst ==
  /\ \A k \in {37, 41, 43, 50, 53, 57, 66, 76, 77} : 36 < k
  /\ \A k \in {38} : 37 < k
  /\ \A k \in {42} : 41 < k
  /\ \A k \in {44, 45, 46} : 43 < k
  /\ \A k \in {47, 48, 49} : 46 < k
  /\ \A k \in {51, 52} : 50 < k
  /\ \A k \in {54, 55, 56} : 53 < k
  /\ \A k \in {58, 59, 60, 62, 63, 64, 65} : 57 < k
  /\ \A k \in {67, 68, 69, 71, 72, 73, 74} : 66 < k
  /\ \A k \in {78, 79, 80, 81, 82, 83, 84} : 77 < k
  /\ \A k \in {39, 40} : 38 < k
OBVIOUS

\* The fields of VUI parameters are read as often as they are sent.
LEMMA VuiAgrees ==
  ASSUME NEW F, F = SpsTable, NEW E, NEW d, NEW v, NEW sent, sent <=> d.vui # << >>,
         SpsTells(F, E, d), VuiTells(F, E, v), VuiCounts(E, v, sent),
         v.nal \in Seq(Nat), v.vcl \in Seq(Nat),
         NEW T, VuiSends(T, v, sent), \A j \in 37..84 : E[j] = T[j - 36],
         NEW k \in 1..84, NEW s, Knows(F, E, 84, s, k, FALSE), F[k].when \in VuiLabels
  PROVE  Times(s, F[k].when) = Count(E, k)
<1>0. Labelled(F, k)  BY SpsLabelled
<1>b. /\ v.nal # << >> /\ Knows(F, E, 84, s, 61, FALSE)
           => s["cpb_cnt_minus1"] = Len(v.nal) - 1
      /\ v.vcl # << >> /\ Knows(F, E, 84, s, 70, FALSE)
           => s["cpb_cnt_minus1"] = Len(v.vcl) - 1
  <2>1. CpbIs(F, E, v, s)  BY CpbKnown, Zenon
  <2> QED  BY <2>1, Zenon DEF CpbIs
<1>1. /\ 37 < k => s["aspect_ratio_info_present_flag"] = One(v.sar # << >>)
      /\ 41 < k => s["overscan_info_present_flag"] = One(v.signal)
      /\ 43 < k => s["video_signal_type_present_flag"] = One(v.signal)
      /\ 46 < k => s["colour_description_present_flag"] = One(v.signal)
      /\ 50 < k => s["chroma_loc_info_present_flag"] = One(v.signal)
      /\ 53 < k => s["timing_info_present_flag"] = One(v.timing # << >>)
      /\ 57 < k => s["nal_hrd_parameters_present_flag"] = One(v.nal # << >>)
      /\ 66 < k => s["vcl_hrd_parameters_present_flag"] = One(v.vcl # << >>)
      /\ 77 < k => s["bitstream_restriction_flag"] = One(v.restricted)
      /\ 38 < k => s["aspect_ratio_idc"] = IF v.sar # << >> THEN 255 ELSE 0
      /\ 36 < k => s["vui_parameters_present_flag"] = One(sent)
  <2>0. k \in 1..84 + 1  OBVIOUS
  <2>1. 37 < k => s["aspect_ratio_info_present_flag"] = One(v.sar # << >>)
    <3>1. Tells(F, E, 84, 37, "aspect_ratio_info_present_flag", One(v.sar # << >>))
      BY Zenon DEF VuiTells
    <3> QED  BY <2>0, <3>1, Zenon DEF Tells
  <2>2. 41 < k => s["overscan_info_present_flag"] = One(v.signal)
    <3>1. Tells(F, E, 84, 41, "overscan_info_present_flag", One(v.signal))
      BY Zenon DEF VuiTells
    <3> QED  BY <2>0, <3>1, Zenon DEF Tells
  <2>3. 43 < k => s["video_signal_type_present_flag"] = One(v.signal)
    <3>1. Tells(F, E, 84, 43, "video_signal_type_present_flag", One(v.signal))
      BY Zenon DEF VuiTells
    <3> QED  BY <2>0, <3>1, Zenon DEF Tells
  <2>4. 46 < k => s["colour_description_present_flag"] = One(v.signal)
    <3>1. Tells(F, E, 84, 46, "colour_description_present_flag", One(v.signal))
      BY Zenon DEF VuiTells
    <3> QED  BY <2>0, <3>1, Zenon DEF Tells
  <2>5. 50 < k => s["chroma_loc_info_present_flag"] = One(v.signal)
    <3>1. Tells(F, E, 84, 50, "chroma_loc_info_present_flag", One(v.signal))
      BY Zenon DEF VuiTells
    <3> QED  BY <2>0, <3>1, Zenon DEF Tells
  <2>6. 53 < k => s["timing_info_present_flag"] = One(v.timing # << >>)
    <3>1. Tells(F, E, 84, 53, "timing_info_present_flag", One(v.timing # << >>))
      BY Zenon DEF VuiTells
    <3> QED  BY <2>0, <3>1, Zenon DEF Tells
  <2>7. 57 < k => s["nal_hrd_parameters_present_flag"] = One(v.nal # << >>)
    <3>1. Tells(F, E, 84, 57, "nal_hrd_parameters_present_flag", One(v.nal # << >>))
      BY Zenon DEF VuiTells
    <3> QED  BY <2>0, <3>1, Zenon DEF Tells
  <2>8. 66 < k => s["vcl_hrd_parameters_present_flag"] = One(v.vcl # << >>)
    <3>1. Tells(F, E, 84, 66, "vcl_hrd_parameters_present_flag", One(v.vcl # << >>))
      BY Zenon DEF VuiTells
    <3> QED  BY <2>0, <3>1, Zenon DEF Tells
  <2>9. 77 < k => s["bitstream_restriction_flag"] = One(v.restricted)
    <3>1. Tells(F, E, 84, 77, "bitstream_restriction_flag", One(v.restricted))
      BY Zenon DEF VuiTells
    <3> QED  BY <2>0, <3>1, Zenon DEF Tells
  <2>10. 38 < k => s["aspect_ratio_idc"] = IF v.sar # << >> THEN 255 ELSE 0
    <3>1. Tells(F, E, 84, 38, "aspect_ratio_idc", IF v.sar # << >> THEN 255 ELSE 0)
      BY Zenon DEF VuiTells
    <3> QED  BY <2>0, <3>1, Zenon DEF Tells
  <2>20. 36 < k => s["vui_parameters_present_flag"] = One(sent)
    <3>1. Tells(F, E, 84, 36, "vui_parameters_present_flag", One(d.vui # << >>))
      BY Zenon DEF SpsTells
    <3>2. One(d.vui # << >>) = One(sent)  BY Zenon DEF One
    <3> QED  BY <2>0, <3>1, <3>2, Zenon DEF Tells
  <2> QED
    BY <2>1, <2>2, <2>3, <2>4, <2>5, <2>6, <2>7, <2>8, <2>9, <2>10, <2>20, Zenon
<1>2. CASE F[k].when = "vui"
  <2>1. k \in {37, 41, 43, 50, 53, 57, 66, 76, 77}  BY <1>0, <1>2, Zenon DEF Labelled
  <2>2. Count(E, k) = One(sent)  BY <2>1, Zenon DEF VuiCounts
  <2>3. s.vui_parameters_present_flag = One(sent)
    <3>1. 36 < k  BY <2>1, FlagsFirst, Zenon
    <3> QED  BY <1>1, <3>1, Zenon
  <2>4. Times(s, "vui") = s.vui_parameters_present_flag  BY TimesIs, Zenon
  <2> QED  BY <1>2, <2>2, <2>3, <2>4, Zenon
<1>3. CASE F[k].when = "aspect"
  <2>1. k \in {38}  BY <1>0, <1>3, Zenon DEF Labelled
  <2>2. Count(E, k) = One(v.sar # << >>)  BY <2>1, Zenon DEF VuiCounts
  <2>3. s.aspect_ratio_info_present_flag = One(v.sar # << >>)
    <3>1. 37 < k  BY <2>1, FlagsFirst, Zenon
    <3> QED  BY <1>1, <3>1, Zenon
  <2>4. Times(s, "aspect") = s.aspect_ratio_info_present_flag  BY TimesIs, Zenon
  <2> QED  BY <1>3, <2>2, <2>3, <2>4, Zenon
<1>4. CASE F[k].when = "overscan"
  <2>1. k \in {42}  BY <1>0, <1>4, Zenon DEF Labelled
  <2>2. Count(E, k) = One(v.signal)  BY <2>1, Zenon DEF VuiCounts
  <2>3. s.overscan_info_present_flag = One(v.signal)
    <3>1. 41 < k  BY <2>1, FlagsFirst, Zenon
    <3> QED  BY <1>1, <3>1, Zenon
  <2>4. Times(s, "overscan") = s.overscan_info_present_flag  BY TimesIs, Zenon
  <2> QED  BY <1>4, <2>2, <2>3, <2>4, Zenon
<1>5. CASE F[k].when = "signal"
  <2>1. k \in {44, 45, 46}  BY <1>0, <1>5, Zenon DEF Labelled
  <2>2. Count(E, k) = One(v.signal)  BY <2>1, Zenon DEF VuiCounts
  <2>3. s.video_signal_type_present_flag = One(v.signal)
    <3>1. 43 < k  BY <2>1, FlagsFirst, Zenon
    <3> QED  BY <1>1, <3>1, Zenon
  <2>4. Times(s, "signal") = s.video_signal_type_present_flag  BY TimesIs, Zenon
  <2> QED  BY <1>5, <2>2, <2>3, <2>4, Zenon
<1>6. CASE F[k].when = "colour"
  <2>1. k \in {47, 48, 49}  BY <1>0, <1>6, Zenon DEF Labelled
  <2>2. Count(E, k) = One(v.signal)  BY <2>1, Zenon DEF VuiCounts
  <2>3. s.colour_description_present_flag = One(v.signal)
    <3>1. 46 < k  BY <2>1, FlagsFirst, Zenon
    <3> QED  BY <1>1, <3>1, Zenon
  <2>4. Times(s, "colour") = s.colour_description_present_flag  BY TimesIs, Zenon
  <2> QED  BY <1>6, <2>2, <2>3, <2>4, Zenon
<1>7. CASE F[k].when = "chroma"
  <2>1. k \in {51, 52}  BY <1>0, <1>7, Zenon DEF Labelled
  <2>2. Count(E, k) = One(v.signal)  BY <2>1, Zenon DEF VuiCounts
  <2>3. s.chroma_loc_info_present_flag = One(v.signal)
    <3>1. 50 < k  BY <2>1, FlagsFirst, Zenon
    <3> QED  BY <1>1, <3>1, Zenon
  <2>4. Times(s, "chroma") = s.chroma_loc_info_present_flag  BY TimesIs, Zenon
  <2> QED  BY <1>7, <2>2, <2>3, <2>4, Zenon
<1>8. CASE F[k].when = "timing"
  <2>1. k \in {54, 55, 56}  BY <1>0, <1>8, Zenon DEF Labelled
  <2>2. Count(E, k) = One(v.timing # << >>)  BY <2>1, Zenon DEF VuiCounts
  <2>3. s.timing_info_present_flag = One(v.timing # << >>)
    <3>1. 53 < k  BY <2>1, FlagsFirst, Zenon
    <3> QED  BY <1>1, <3>1, Zenon
  <2>4. Times(s, "timing") = s.timing_info_present_flag  BY TimesIs, Zenon
  <2> QED  BY <1>8, <2>2, <2>3, <2>4, Zenon
<1>9. CASE F[k].when = "nal"
  <2>1. k \in {58, 59, 60, 62, 63, 64, 65}  BY <1>0, <1>9, Zenon DEF Labelled
  <2>2. Count(E, k) = One(v.nal # << >>)  BY <2>1, Zenon DEF VuiCounts
  <2>3. s.nal_hrd_parameters_present_flag = One(v.nal # << >>)
    <3>1. 57 < k  BY <2>1, FlagsFirst, Zenon
    <3> QED  BY <1>1, <3>1, Zenon
  <2>4. Times(s, "nal") = s.nal_hrd_parameters_present_flag  BY TimesIs, Zenon
  <2> QED  BY <1>9, <2>2, <2>3, <2>4, Zenon
<1>10. CASE F[k].when = "vcl"
  <2>1. k \in {67, 68, 69, 71, 72, 73, 74}  BY <1>0, <1>10, Zenon DEF Labelled
  <2>2. Count(E, k) = One(v.vcl # << >>)  BY <2>1, Zenon DEF VuiCounts
  <2>3. s.vcl_hrd_parameters_present_flag = One(v.vcl # << >>)
    <3>1. 66 < k  BY <2>1, FlagsFirst, Zenon
    <3> QED  BY <1>1, <3>1, Zenon
  <2>4. Times(s, "vcl") = s.vcl_hrd_parameters_present_flag  BY TimesIs, Zenon
  <2> QED  BY <1>10, <2>2, <2>3, <2>4, Zenon
<1>11. CASE F[k].when = "limits"
  <2>1. k \in {78, 79, 80, 81, 82, 83, 84}  BY <1>0, <1>11, Zenon DEF Labelled
  <2>2. Count(E, k) = One(v.restricted)  BY <2>1, ZenonT(30) DEF VuiCounts
  <2>3. s.bitstream_restriction_flag = One(v.restricted)
    <3>1. 77 < k  BY <2>1, FlagsFirst, Zenon
    <3> QED  BY <1>1, <3>1, Zenon
  <2>4. Times(s, "limits") = s.bitstream_restriction_flag  BY TimesIs, Zenon
  <2> QED  BY <1>11, <2>2, <2>3, <2>4, Zenon
<1>12. CASE F[k].when = "sar"
  <2>1. k \in {39, 40}  BY <1>0, <1>12, Zenon DEF Labelled
  <2>2. Count(E, k) = One(v.sar # << >>)  BY <2>1, Zenon DEF VuiCounts
  <2>3. s.aspect_ratio_idc = IF v.sar # << >> THEN 255 ELSE 0
    <3>1. 38 < k  BY <2>1, FlagsFirst, Zenon
    <3> QED  BY <1>1, <3>1, Zenon
  <2>4. Times(s, "sar") = One(s.aspect_ratio_idc = 255)  BY TimesIs, Zenon
  <2>5. 0 # 255  OBVIOUS
  <2> QED  BY <1>12, <2>2, <2>3, <2>4, <2>5, Zenon DEF One
<1>13. CASE F[k].when = "hrd"
  <2>1. k = 75  BY <1>0, <1>13, Zenon DEF Labelled
  <2>2. Count(E, k) = One(v.nal # << >> \/ v.vcl # << >>)  BY <2>1, Zenon DEF VuiCounts
  <2>3. s.nal_hrd_parameters_present_flag = One(v.nal # << >>)  BY <1>1, <2>1
  <2>4. s.vcl_hrd_parameters_present_flag = One(v.vcl # << >>)  BY <1>1, <2>1
  <2>5. Times(s, "hrd") = One(\/ s.nal_hrd_parameters_present_flag = 1
                              \/ s.vcl_hrd_parameters_present_flag = 1)
    BY TimesIs, Zenon
  <2>6. 0 # 1  OBVIOUS
  <2> QED  BY <1>13, <2>2, <2>3, <2>4, <2>5, <2>6, Zenon DEF One
<1>14. CASE F[k].when = "nalcpb"
  <2>1. k = 61  BY <1>0, <1>14, Zenon DEF Labelled
  <2>2. Count(E, k) = Len(HrdValues(v.nal))  BY <2>1, Zenon DEF VuiCounts
  <2>3. s.nal_hrd_parameters_present_flag = One(v.nal # << >>)  BY <1>1, <2>1
  <2>4. Times(s, "nalcpb") = s.nal_hrd_parameters_present_flag * 3 * (s.cpb_cnt_minus1 + 1)
    BY TimesIs, Zenon
  <2>5. PICK a, c, m : /\ a = s.nal_hrd_parameters_present_flag /\ c = s.cpb_cnt_minus1
                       /\ m = Len(v.nal)
    OBVIOUS
  <2>6. m \in Nat /\ Count(E, k) = 3 * m
    BY <2>2, <2>5, HrdCount, Zenon
  <2>7. c \in Int
    <3>1. s \in Numbers  BY Zenon DEF Knows
    <3>2. VuiFields[22].name = "cpb_cnt_minus1" /\ 22 \in 1..48
      BY DEF VuiFields, Row, Get1, GetN, GetUe, GetSe
    <3>4. "cpb_cnt_minus1" \in Names  BY <3>2, TablesNamed, Zenon
    <3> QED  BY <2>5, <3>1, <3>4 DEF Numbers
  <2>8. CASE v.nal # << >>
    <3>1. a = 1  BY <2>3, <2>5, <2>8, Zenon DEF One
    <3>2. c = m - 1
      <4>1. Knows(F, E, 84, s, 61, FALSE)  BY <2>1, Zenon
      <4> QED  BY <1>b, <2>5, <2>8, <4>1, Zenon
    <3>3. a * 3 * (c + 1) = 3 * m  BY <2>6, <3>1, <3>2
    <3> QED  BY <1>14, <2>4, <2>5, <2>6, <3>3, Zenon
  <2>9. CASE ~ (v.nal # << >>)
    <3>1. a = 0  BY <2>3, <2>5, <2>9, Zenon DEF One
    <3>2. Count(E, k) = 0  BY <2>2, <2>9, HrdCount, Zenon
    <3>3. a * 3 * (c + 1) = 0  BY <2>7, <3>1
    <3> QED  BY <1>14, <2>4, <2>5, <3>2, <3>3, Zenon
  <2> QED  BY <2>8, <2>9
<1>15. CASE F[k].when = "vclcpb"
  <2>1. k = 70  BY <1>0, <1>15, Zenon DEF Labelled
  <2>2. Count(E, k) = Len(HrdValues(v.vcl))  BY <2>1, Zenon DEF VuiCounts
  <2>3. s.vcl_hrd_parameters_present_flag = One(v.vcl # << >>)  BY <1>1, <2>1
  <2>4. Times(s, "vclcpb") = s.vcl_hrd_parameters_present_flag * 3 * (s.cpb_cnt_minus1 + 1)
    BY TimesIs, Zenon
  <2>5. PICK a, c, m : /\ a = s.vcl_hrd_parameters_present_flag /\ c = s.cpb_cnt_minus1
                       /\ m = Len(v.vcl)
    OBVIOUS
  <2>6. m \in Nat /\ Count(E, k) = 3 * m
    BY <2>2, <2>5, HrdCount, Zenon
  <2>7. c \in Int
    <3>1. s \in Numbers  BY Zenon DEF Knows
    <3>2. VuiFields[31].name = "cpb_cnt_minus1" /\ 31 \in 1..48
      BY DEF VuiFields, Row, Get1, GetN, GetUe, GetSe
    <3>4. "cpb_cnt_minus1" \in Names  BY <3>2, TablesNamed, Zenon
    <3> QED  BY <2>5, <3>1, <3>4 DEF Numbers
  <2>8. CASE v.vcl # << >>
    <3>1. a = 1  BY <2>3, <2>5, <2>8, Zenon DEF One
    <3>2. c = m - 1
      <4>1. Knows(F, E, 84, s, 70, FALSE)  BY <2>1, Zenon
      <4> QED  BY <1>b, <2>5, <2>8, <4>1, Zenon
    <3>3. a * 3 * (c + 1) = 3 * m  BY <2>6, <3>1, <3>2
    <3> QED  BY <1>15, <2>4, <2>5, <2>6, <3>3, Zenon
  <2>9. CASE ~ (v.vcl # << >>)
    <3>1. a = 0  BY <2>3, <2>5, <2>9, Zenon DEF One
    <3>2. Count(E, k) = 0  BY <2>2, <2>9, HrdCount, Zenon
    <3>3. a * 3 * (c + 1) = 0  BY <2>7, <3>1
    <3> QED  BY <1>15, <2>4, <2>5, <3>2, <3>3, Zenon
  <2> QED  BY <2>8, <2>9
<1> QED
  BY <1>2, <1>3, <1>4, <1>5, <1>6, <1>7, <1>8, <1>9, <1>10, <1>11,
     <1>12, <1>13, <1>14, <1>15 DEF VuiLabels

\* The VUI parameters of a description, those of none if there are none.
VuiOf(d) == IF d.vui = << >> THEN NoVui ELSE d.vui[1]

\* The table of an SPS and the elements of a description.
SpsMatch(F, E, d) ==
  /\ Rows(F, E, 84) /\ Agree(F, E, 84) /\ AllCoded(E) /\ Len(E) = 84
  /\ \A k \in 1..84 : Paired(F[k], E[k])
  /\ SpsSends(E, d) /\ SpsTells(F, E, d) /\ VuiTells(F, E, VuiOf(d))

\* The table and what an encoder sends fit together, for every SPS.
LEMMA SpsMatches ==
  ASSUME NEW F, F = SpsTable, NEW d, SpsOK(d), NEW E, E = AllSpsElements(d)
  PROVE  SpsMatch(F, E, d)
<1>1. AllCoded(E) /\ Len(E) = 84  BY SpsCoded
<1>2. \A k \in 1..84 : Paired(F[k], E[k])  BY SpsAllPaired
<1>3. Rows(F, E, 84)
  <2>1. \A k \in 1..84 : RowOK(F[k])
    <3>1. ASSUME NEW k \in 1..84 PROVE RowOK(F[k])
      <4>1. CASE k <= 36
        <5>1. k \in 1..36  BY <4>1
        <5> QED  BY <4>1, <5>1, SpsTableIs, RowsOK, Zenon
      <4>2. CASE ~ (k <= 36)
        <5>1. k - 36 \in 1..48  BY <4>2
        <5> QED  BY <4>2, <5>1, SpsTableIs, RowsOK, Zenon
      <4> QED  BY <4>1, <4>2
    <3> QED  BY <3>1
  <2>2. RowEnds(E, 84)
    <3>1. 84 \in Nat  OBVIOUS
    <3> QED  BY <1>1, <3>1, RowsEnd, Zenon
  <2>3. 84 \in Nat /\ \A k \in 1..84 : Count(E, k) \in Nat  BY <2>2 DEF RowEnds, Count
  <2> QED  BY <2>1, <2>3, Zenon DEF Rows
<1>4. PICK v, sent, T : v = VuiOf(d) /\ sent = (d.vui # << >>) /\ T = VuiElements(d.vui)
  OBVIOUS
<1>5. /\ \A k \in 1..36 : E[k] = SpsElements(d)[k]
      /\ \A k \in 37..84 : E[k] = T[k - 36]
  BY <1>4, SpsElementsAre, ZenonT(30) DEF BothParts
<1>6. SpsSends(E, d)
  <2>1. PICK S : S = SpsElements(d)  OBVIOUS
  <2>2. SpsSends(S, d)  BY <2>1, SpsRows
  <2>3. \A k \in 1..36 : E[k] = S[k]  BY <1>5, <2>1, Zenon
  <2>4. /\ E[1] = S[1] /\ E[2] = S[2] /\ E[3] = S[3] /\ E[4] = S[4] /\ E[5] = S[5]
        /\ E[6] = S[6] /\ E[7] = S[7] /\ E[8] = S[8] /\ E[9] = S[9] /\ E[10] = S[10]
        /\ E[11] = S[11] /\ E[12] = S[12] /\ E[13] = S[13] /\ E[14] = S[14] /\ E[15] = S[15]
        /\ E[16] = S[16] /\ E[17] = S[17] /\ E[18] = S[18] /\ E[19] = S[19] /\ E[20] = S[20]
        /\ E[21] = S[21] /\ E[22] = S[22] /\ E[23] = S[23] /\ E[24] = S[24] /\ E[25] = S[25]
        /\ E[26] = S[26] /\ E[27] = S[27] /\ E[28] = S[28] /\ E[29] = S[29] /\ E[30] = S[30]
        /\ E[31] = S[31] /\ E[32] = S[32] /\ E[33] = S[33] /\ E[34] = S[34] /\ E[35] = S[35]
        /\ E[36] = S[36]
    BY <2>3
  <2> QED  BY <2>2, <2>4, ZenonT(30) DEF SpsSends
<1>7. (sent <=> d.vui # << >>) /\ (sent \/ v = NoVui) /\ VuiSends(T, v, sent)
  <2>1. (sent <=> d.vui # << >>) /\ (sent \/ v = NoVui)  BY <1>4, Zenon DEF VuiOf
  <2>2. CASE d.vui = << >>
    <3>1. T = VuiRows(v, FALSE)  BY <1>4, <2>2, Zenon DEF VuiElements, VuiOf
    <3>2. sent = FALSE  BY <1>4, <2>2
    <3> QED  BY <2>1, <3>1, <3>2, VuiRowsSend, Zenon
  <2>3. CASE d.vui # << >>
    <3>1. T = VuiRows(v, TRUE)  BY <1>4, <2>3, Zenon DEF VuiElements, VuiOf
    <3>2. sent = TRUE  BY <1>4, <2>3
    <3> QED  BY <2>1, <3>1, <3>2, VuiRowsSend, Zenon
  <2> QED  BY <2>2, <2>3
<1>8. SpsTells(F, E, d)  BY <1>3, <1>6, SpsControls
<1>9. VuiTells(F, E, v)  BY <1>3, <1>5, <1>7, VuiControls, Zenon
<1>10. v.nal \in Seq(Nat) /\ v.vcl \in Seq(Nat)
  <2>1. CASE d.vui = << >>
    <3>1. v.nal = << >> /\ v.vcl = << >>  BY <1>4, <2>1 DEF VuiOf, NoVui
    <3> QED  BY <3>1
  <2>2. CASE d.vui # << >>  BY <1>4, <2>2, Zenon DEF VuiOf, SpsOK
  <2> QED  BY <2>1, <2>2
<1>11. Agree(F, E, 84)
  <2>1. ASSUME NEW k \in 1..84, NEW s, Knows(F, E, 84, s, k, FALSE)
        PROVE  Times(s, F[k].when) = Count(E, k)
    <3>1. F[k].when \in SpsLabels \/ F[k].when \in VuiLabels
      <4>1. CASE k <= 36
        <5>1. k \in 1..36  BY <4>1
        <5> QED  BY <4>1, <5>1, SpsTableIs, TablesLabelled, Zenon
      <4>2. CASE ~ (k <= 36)
        <5>1. k - 36 \in 1..48  BY <4>2
        <5> QED  BY <4>2, <5>1, SpsTableIs, TablesLabelled, Zenon
      <4> QED  BY <4>1, <4>2
    <3>2. CASE F[k].when \in SpsLabels
      <4>1. d.lists # << >> => Len(d.lists) = IF d.chroma = 3 THEN 12 ELSE 8
        BY Zenon DEF SpsOK
      <4>2. SpsCounts(E, d)  BY <1>6, SpsCounted
      <4> QED  BY <1>8, <2>1, <3>2, <4>1, <4>2, SpsAgrees, Zenon
    <3>3. CASE F[k].when \in VuiLabels
      <4>1. VuiCounts(E, v, sent)  BY <1>5, <1>7, VuiCounted, Zenon
      <4> QED
        BY <1>5, <1>7, <1>8, <1>9, <1>10, <2>1, <3>3, <4>1, VuiAgrees, ZenonT(30)
    <3> QED  BY <3>1, <3>2, <3>3
  <2> QED  BY <2>1, Zenon DEF Agree
<1> QED  BY <1>1, <1>2, <1>3, <1>4, <1>6, <1>8, <1>9, <1>11, Zenon DEF SpsMatch

\* The 4x4 lists are sent to their end.
SentToEnd(lists) == \A i \in 1..Len(lists) : i <= 6 => Len(lists[i]) \notin 1..15

AllSmall(E) == \A k \in 1..Len(E) : Small(E[k])

\* The only fields of their kinds.
SpsKinds(F, k) ==
  F[k].kind # "id" /\ F[k].kind # "more" /\ (F[k].kind = "list" => k = 15)

\* The matrix and the lists of an SPS, and that none of its fields asks for more data.
LEMMA SpsKindsAre ==
  ASSUME NEW F, F = SpsTable, NEW k \in 1..84
  PROVE  SpsKinds(F, k)
<1>1. ASSUME NEW m \in 1..36
      PROVE  /\ SpsFields[m].kind # "id" /\ SpsFields[m].kind # "more"
             /\ SpsFields[m].kind = "list" => m = 15
  <2>1. SpsFields[m].kind \notin {"id", "more"}
    BY DEF SpsFields, Row, Get1, GetN, GetUe, GetSe
  <2>2. SpsFields[m].kind = "list" => m = 15
    BY DEF SpsFields, Row, Get1, GetN, GetUe, GetSe
  <2> QED  BY <2>1, <2>2
<1>2. ASSUME NEW m \in 1..48 PROVE VuiFields[m].kind \notin {"id", "more", "list"}
  BY DEF VuiFields, Row, Get1, GetN, GetUe, GetSe
<1>3. CASE k <= 36
  <2>1. k \in 1..36  BY <1>3
  <2>2. F[k] = SpsFields[k]  BY <1>3, <2>1, SpsTableIs, Zenon
  <2> QED  BY <1>1, <2>1, <2>2, Zenon DEF SpsKinds
<1>4. CASE ~ (k <= 36)
  <2>1. PICK j : j = k - 36  OBVIOUS
  <2>2. j \in 1..48  BY <1>4, <2>1
  <2>3. F[k] = VuiFields[j]  BY <1>4, <2>1, <2>2, SpsTableIs, Zenon
  <2> QED  BY <1>2, <2>2, <2>3, Zenon DEF SpsKinds
<1> QED  BY <1>3, <1>4

\* An SPS of numbers of at most 25 bits, with its 4x4 lists sent to their end and
\* no more of anything than its array holds, can be read.
THEOREM SpsReadable ==
  ASSUME NEW F, F = SpsTable, NEW d, SpsOK(d), NEW E, E = AllSpsElements(d),
         AllSmall(E), SentToEnd(d.lists), HaveRoom(F, E, 84),
         NEW b, Holds(b, Bits(E))
  PROVE  Readable(F, E, 84, b)
<1>1. SpsMatch(F, E, d)  BY SpsMatches
<1>2. /\ Rows(F, E, 84) /\ Agree(F, E, 84) /\ AllCoded(E) /\ Len(E) = 84
      /\ \A k \in 1..84 : Paired(F[k], E[k])
      /\ SpsSends(E, d)
  BY <1>1, Zenon DEF SpsMatch
<1>3. \A k \in 1..84 : SpsKinds(F, k)  BY SpsKindsAre
<1>4. ASSUME NEW k \in 1..84, E[k].as = "list", NEW i \in 1..Count(E, k), i <= 6
      PROVE  Len(E[k].values[i]) \notin 1..15
  <2>1. F[k].kind = "list"
    <3>1. Paired(F[k], E[k])  BY <1>2
    <3> QED  BY <1>4, <3>1, Zenon DEF Paired
  <2>2. E[k].values = Given(d.profile \in HighProfiles, d.lists)
    <3>1. k = 15  BY <1>3, <2>1, Zenon DEF SpsKinds
    <3> QED  BY <1>2, <3>1, Zenon DEF SpsSends
  <2>3. CASE d.profile \in HighProfiles
    <3>1. E[k].values = d.lists  BY <2>2, <2>3, Zenon DEF Given
    <3> QED  BY <1>4, <3>1, Zenon DEF Count, SentToEnd
  <2>4. CASE ~ (d.profile \in HighProfiles)
    <3>1. E[k].values = << >>  BY <2>2, <2>4, Zenon DEF Given
    <3>2. Count(E, k) = 0  BY <3>1 DEF Count
    <3>3. 1..0 = {}  OBVIOUS
    <3> QED  BY <1>4, <3>2, <3>3, Zenon
  <2> QED  BY <2>3, <2>4
<1>5. \A k \in 1..84 : Small(E[k])  BY <1>2, Zenon DEF AllSmall
<1> QED  BY <1>2, <1>3, <1>4, <1>5, Zenon DEF Readable, SpsKinds

-----------------------------------------------------------------------------
(* The way of the parser over a parameter set that can be read.             *)

\* more_rbsp_data answers what was sent.
MoreAsSent(F, E, N, b) ==
  \A k \in 1..N : F[k].kind = "more" =>
    Count(E, k) = 1 /\ MoreRbspData(Context(b, Pos(E, k, 0))) = E[k].values[1]

\* The data can be read, and the first field was sent.
CanRead(F, E, N, b) ==
  Readable(F, E, N, b) /\ MoreAsSent(F, E, N, b) /\ N >= 1 /\ Count(E, 1) # 0

\* The answer of more_rbsp_data where it is asked.
LEMMA MoreHere ==
  ASSUME NEW F, NEW N, NEW E, NEW b, CanRead(F, E, N, b), Walk(E, N, b), list = NoList,
         field <= N
  PROVE  F[field].kind = "more" => MoreRbspData(ctx) = E[field].values[round + 1]
<1> SUFFICES ASSUME F[field].kind = "more"
             PROVE  MoreRbspData(ctx) = E[field].values[round + 1]
  OBVIOUS
<1>1. N \in Nat  BY Zenon DEF CanRead, Readable, Rows
<1>2. /\ field \in 1..N + 1 /\ round \in Nat /\ round < Count(E, field)
      /\ ctx = Context(b, ctx.bit_pos) /\ ctx.bit_pos = Pos(E, field, round)
  BY Zenon DEF Walk
<1>3. field \in 1..N  BY <1>1, <1>2
<1>4. /\ Count(E, field) = 1
      /\ MoreRbspData(Context(b, Pos(E, field, 0))) = E[field].values[1]
  BY <1>3, Zenon DEF CanRead, MoreAsSent
<1>5. round = 0 /\ round + 1 = 1  BY <1>2, <1>4
<1> QED  BY <1>2, <1>4, <1>5, Zenon

\* The parser of a parameter set it can read: at first it has read nothing, then it
\* is where the encoder was, and at last behind the last bit.
Way(E, b) ==
  LET N == Len(Fields)
  IN /\ stage = "raw" => /\ sps = [name \in Names |-> 0]
                         /\ field = 1 /\ round = 0 /\ list = NoList
     /\ stage = "parse" => CanRead(Fields, E, N, b) /\ Walk(E, N, b)
     /\ stage = "done" => ctx.bit_pos = Len(Bits(E)) /\ Knows(Fields, E, N, sps, N + 1, TRUE)
     /\ stage # "lost"

\* The steps of the parser.
THEOREM WayKeeps ==
  ASSUME MaxLen >= 32, ReaderInv, ParserStep, NEW E, NEW b \in Seq(Nat),
         stage # "raw" => b = ctx.buf, Way(E, b),
         NEW c, c = ctx'.buf, stage = "parse" => c = b,
         DeEmulate => CanRead(Fields, E, Len(Fields), c)
  PROVE  Way(E, c)'
<1>1. PICK F, N : F = Fields /\ N = Len(Fields)  OBVIOUS
<1>2. set' = set
  BY Zenon DEF ParserStep, DeEmulate, NoMemory, ReadField, ReadScale, LeaveData, Finish
<1>3. Fields' = F /\ Len(Fields') = N
  <2>1. Fields' = Fields  BY <1>2, Zenon DEF Fields
  <2> QED  BY <1>1, <2>1, Zenon
<1>4. CASE DeEmulate
  <2>1. /\ stage = "raw" /\ stage' = "parse" /\ ctx' = Context(DeEmulated(ctx.buf), 0)
        /\ UNCHANGED <<set, sps, field, round, list>>
    BY <1>4 DEF DeEmulate
  <2>2. c = DeEmulated(ctx.buf)  BY <2>1 DEF Context
  <2>3. ctx' = Context(c, 0)  BY <2>1, <2>2
  <2>4. /\ sps' = [name \in Names |-> 0] /\ field' = 1 /\ round' = 0 /\ list' = NoList
    BY <2>1, Zenon DEF Way
  <2>5. CanRead(F, E, N, c)  BY <1>1, <1>4, Zenon
  <2>6. Walk(E, N, c)'
    BY <1>1, <2>1, <2>3, <2>4, <2>5, WalkStarts, Zenon DEF CanRead
  <2> QED  BY <1>3, <2>1, <2>5, <2>6, Zenon DEF Way
<1>5. ASSUME stage = "parse"
      PROVE  CanRead(F, E, N, b) /\ Walk(E, N, b) /\ c = b
  BY <1>1, <1>5, Zenon DEF Way
<1>6. CASE ReadField
  <2>1. stage = "parse" /\ stage' = stage /\ list = NoList /\ field <= N
    BY <1>1, <1>6, Zenon DEF ReadField
  <2>2. CanRead(F, E, N, b) /\ Walk(E, N, b) /\ c = b  BY <1>5, <2>1
  <2>3. F[field].kind = "more" => MoreRbspData(ctx) = E[field].values[round + 1]
    BY <2>1, <2>2, MoreHere, Zenon
  <2>4. Walk(E, N, b)'  BY <1>1, <1>6, <2>2, <2>3, FieldWalks, Zenon DEF CanRead
  <2> QED  BY <1>3, <2>1, <2>2, <2>4, Zenon DEF Way
<1>7. CASE ReadScale
  <2>1. stage = "parse" /\ stage' = stage  BY <1>7, Zenon DEF ReadScale
  <2>2. CanRead(F, E, N, b) /\ Walk(E, N, b) /\ c = b  BY <1>5, <2>1
  <2>3. Walk(E, N, b)'  BY <1>1, <1>7, <2>2, ScaleWalks, Zenon
  <2> QED  BY <1>3, <2>1, <2>2, <2>3, Zenon DEF Way
<1>8. ~ LeaveData
  <2> SUFFICES ASSUME LeaveData PROVE FALSE  OBVIOUS
  <2>1. stage = "parse"  BY Zenon DEF LeaveData
  <2>2. CanRead(F, E, N, b) /\ Walk(E, N, b)  BY <1>5, <2>1
  <2>3. CASE list = NoList /\ field <= N
    <3>1. F[field].kind = "more" => MoreRbspData(ctx) = E[field].values[round + 1]
      BY <2>2, <2>3, MoreHere, Zenon
    <3> QED  BY <1>1, <2>2, <2>3, <3>1, WalkInData, Zenon DEF CanRead
  <2>4. CASE ~ (list = NoList /\ field <= N)
    <3>1. list # NoList  BY <1>1, <2>4, Zenon DEF LeaveData
    <3> QED  BY <1>1, <2>2, <3>1, ListInData, Zenon DEF CanRead
  <2> QED  BY <2>3, <2>4
<1>9. CASE Finish
  <2>1. stage = "parse" /\ stage' = "done" /\ list = NoList /\ field > N
        /\ UNCHANGED <<set, ctx, sps, field, round, list>>
    BY <1>1, <1>9, Zenon DEF Finish
  <2>2. CanRead(F, E, N, b) /\ Walk(E, N, b)  BY <1>5, <2>1
  <2>3. ctx.bit_pos = Len(Bits(E)) /\ Knows(F, E, N, sps, N + 1, TRUE)
    BY <1>1, <2>1, <2>2, WalkEnds, Zenon DEF CanRead
  <2> QED  BY <1>3, <2>1, <2>3, Zenon DEF Way
<1>10. CASE NoMemory
  <2>1. stage' = "failed"  BY <1>10, Zenon DEF NoMemory
  <2> QED  BY <2>1, Zenon DEF Way
<1> QED  BY <1>4, <1>6, <1>7, <1>8, <1>9, <1>10 DEF ParserStep

-----------------------------------------------------------------------------
(* The fields of a picture parameter set.                                   *)

\* What is sent of each.
PpsSends(T, d) ==
  /\ Sends(T[1], TRUE, d.id)
  /\ Sends(T[2], TRUE, 0)
  /\ Sends(T[3], TRUE, 1)
  /\ Sends(T[4], TRUE, 0)
  /\ Sends(T[5], TRUE, Groups(d))
  /\ Sends(T[6], d.map # << >> /\ d.type \in 0..6, d.type)
  /\ Sends(T[9], d.map # << >> /\ d.type \in 3..5, 1)
  /\ Sends(T[10], d.map # << >> /\ d.type \in 3..5, d.map[1])
  /\ Sends(T[11], d.map # << >> /\ d.type \in {6}, Len(d.map) - 1)
  /\ Sends(T[13], TRUE, 2)
  /\ Sends(T[14], TRUE, 0)
  /\ Sends(T[15], TRUE, 0)
  /\ Sends(T[16], TRUE, 2)
  /\ Sends(T[17], TRUE, -3)
  /\ Sends(T[18], TRUE, 0)
  /\ Sends(T[19], TRUE, -2)
  /\ Sends(T[20], TRUE, 1)
  /\ Sends(T[21], TRUE, 0)
  /\ Sends(T[22], TRUE, 0)
  /\ Sends(T[23], TRUE, One(d.ext # << >>))
  /\ Sends(T[24], d.ext # << >>, One(d.ext[1].transform))
  /\ Sends(T[25], d.ext # << >>, One(d.ext[1].lists # << >>))
  /\ Sends(T[27], d.ext # << >>, -2)
  /\ T[7].values = Given(d.map # << >> /\ d.type \in {0}, d.map)
  /\ T[12].values = Given(d.map # << >> /\ d.type \in {6}, d.map)
  /\ T[26].values = Given(d.ext # << >>, d.ext[1].lists)
  /\ ~ (d.map # << >> /\ d.type \in {2}) => T[8].values = << >>

\* The elements of PpsElements are these.
LEMMA PpsRows ==
  ASSUME NEW d, NEW T, T = PpsElements(d)
  PROVE  PpsSends(T, d)
<1>1. /\ Sends(T[1], TRUE, d.id)
      /\ Sends(T[2], TRUE, 0)
      /\ Sends(T[3], TRUE, 1)
      /\ Sends(T[4], TRUE, 0)
      /\ Sends(T[5], TRUE, Groups(d))
      /\ Sends(T[6], d.map # << >> /\ d.type \in 0..6, d.type)
  BY DEF Sends, Scalar, Given, Flag, One, u_n, u_1, ue_v, se_v, Element, PpsElements
<1>2. /\ Sends(T[9], d.map # << >> /\ d.type \in 3..5, 1)
      /\ Sends(T[10], d.map # << >> /\ d.type \in 3..5, d.map[1])
      /\ Sends(T[11], d.map # << >> /\ d.type \in {6}, Len(d.map) - 1)
      /\ Sends(T[13], TRUE, 2)
      /\ Sends(T[14], TRUE, 0)
      /\ Sends(T[15], TRUE, 0)
  BY DEF Sends, Scalar, Given, Flag, One, u_n, u_1, ue_v, se_v, Element, PpsElements
<1>3. /\ Sends(T[16], TRUE, 2)
      /\ Sends(T[17], TRUE, -3)
      /\ Sends(T[18], TRUE, 0)
      /\ Sends(T[19], TRUE, -2)
      /\ Sends(T[20], TRUE, 1)
      /\ Sends(T[21], TRUE, 0)
  BY DEF Sends, Scalar, Given, Flag, One, u_n, u_1, ue_v, se_v, Element, PpsElements
<1>4. /\ Sends(T[22], TRUE, 0)
      /\ Sends(T[23], TRUE, One(d.ext # << >>))
      /\ Sends(T[24], d.ext # << >>, One(d.ext[1].transform))
      /\ Sends(T[25], d.ext # << >>, One(d.ext[1].lists # << >>))
      /\ Sends(T[27], d.ext # << >>, -2)
  BY DEF Sends, Scalar, Given, Flag, One, u_n, u_1, ue_v, se_v, Element, PpsElements
<1>20. /\ T[7].values = Given(d.map # << >> /\ d.type \in {0}, d.map)
       /\ T[12].values = Given(d.map # << >> /\ d.type \in {6}, d.map)
       /\ T[26].values = Given(d.ext # << >>, d.ext[1].lists)
  BY DEF Given, u_n, u_1, ue_v, se_v, Element, PpsElements
<1>21. ~ (d.map # << >> /\ d.type \in {2}) => T[8].values = << >>
  BY DEF Given, u_n, u_1, ue_v, se_v, Element, PpsElements
<1> QED  BY <1>1, <1>2, <1>3, <1>4, <1>20, <1>21, Zenon DEF PpsSends

\* What they say of the fields that others depend on.
PpsTells(F, E, d) ==
  /\ Tells(F, E, 27, 5, "num_slice_groups_minus1",
           Groups(d))
  /\ Tells(F, E, 27, 6, "slice_group_map_type",
           IF d.map # << >> /\ d.type \in 0..6 THEN d.type ELSE 0)
  /\ Tells(F, E, 27, 23, "more_rbsp_data",
           One(d.ext # << >>))
  /\ Tells(F, E, 27, 24, "transform_8x8_mode_flag",
           IF d.ext # << >> THEN One(d.ext[1].transform) ELSE 0)
  /\ Tells(F, E, 27, 25, "pic_scaling_matrix_present_flag",
           IF d.ext # << >> THEN One(d.ext[1].lists # << >>) ELSE 0)

\* What the parser has of the fields of a PPS that others depend on.
LEMMA PpsControls ==
  ASSUME NEW F, F = PpsFields, NEW E, Rows(F, E, 27), NEW d, PpsSends(E, d)
  PROVE  PpsTells(F, E, d)
<1>1. Tells(F, E, 27, 5, "num_slice_groups_minus1",
          Groups(d))
  <2>1. Sends(E[5], TRUE, Groups(d))  BY Zenon DEF PpsSends
  <2>2. 5 \in 1..27  OBVIOUS
  <2>3. Unique(F, 27, 5) /\ F[5].name = "num_slice_groups_minus1"
    <3>1. F[5].name = "num_slice_groups_minus1" /\ \A m \in 1..27 : F[m].name = "num_slice_groups_minus1" => m = 5
      BY DEF PpsFields, Row, Get1, GetN, GetUe, GetSe
    <3> QED  BY <3>1, Zenon DEF Unique
  <2>4. PICK x, y : /\ y = Groups(d)
                    /\ x = Groups(d)
    OBVIOUS
  <2>5. Sends(E[5], TRUE, y)
        /\ x = (IF TRUE THEN y ELSE 0)
    BY <2>1, <2>4, Zenon
  <2>6. Says(E[5], x)  BY <2>5 DEF Sends, Given, Says, Final
  <2>7. Tells(F, E, 27, 5, "num_slice_groups_minus1", x)
    BY <2>2, <2>3, <2>6, SaidTells, Zenon
  <2> QED  BY <2>4, <2>7, Zenon
<1>2. Tells(F, E, 27, 6, "slice_group_map_type",
          IF d.map # << >> /\ d.type \in 0..6 THEN d.type ELSE 0)
  <2>1. Sends(E[6], d.map # << >> /\ d.type \in 0..6, d.type)  BY Zenon DEF PpsSends
  <2>2. 6 \in 1..27  OBVIOUS
  <2>3. Unique(F, 27, 6) /\ F[6].name = "slice_group_map_type"
    <3>1. F[6].name = "slice_group_map_type" /\ \A m \in 1..27 : F[m].name = "slice_group_map_type" => m = 6
      BY DEF PpsFields, Row, Get1, GetN, GetUe, GetSe
    <3> QED  BY <3>1, Zenon DEF Unique
  <2>4. PICK x, y : /\ y = d.type
                    /\ x = IF d.map # << >> /\ d.type \in 0..6 THEN d.type ELSE 0
    OBVIOUS
  <2>5. Sends(E[6], d.map # << >> /\ d.type \in 0..6, y)
        /\ x = (IF d.map # << >> /\ d.type \in 0..6 THEN y ELSE 0)
    BY <2>1, <2>4, Zenon
  <2>6. Says(E[6], x)  BY <2>5 DEF Sends, Given, Says, Final
  <2>7. Tells(F, E, 27, 6, "slice_group_map_type", x)  BY <2>2, <2>3, <2>6, SaidTells, Zenon
  <2> QED  BY <2>4, <2>7, Zenon
<1>3. Tells(F, E, 27, 23, "more_rbsp_data",
          One(d.ext # << >>))
  <2>1. Sends(E[23], TRUE, One(d.ext # << >>))  BY Zenon DEF PpsSends
  <2>2. 23 \in 1..27  OBVIOUS
  <2>3. Unique(F, 27, 23) /\ F[23].name = "more_rbsp_data"
    <3>1. F[23].name = "more_rbsp_data" /\ \A m \in 1..27 : F[m].name = "more_rbsp_data" => m = 23
      BY DEF PpsFields, Row, Get1, GetN, GetUe, GetSe
    <3> QED  BY <3>1, Zenon DEF Unique
  <2>4. PICK x, y : /\ y = One(d.ext # << >>)
                    /\ x = One(d.ext # << >>)
    OBVIOUS
  <2>5. Sends(E[23], TRUE, y)
        /\ x = (IF TRUE THEN y ELSE 0)
    BY <2>1, <2>4, Zenon
  <2>6. Says(E[23], x)  BY <2>5 DEF Sends, Given, Says, Final
  <2>7. Tells(F, E, 27, 23, "more_rbsp_data", x)  BY <2>2, <2>3, <2>6, SaidTells, Zenon
  <2> QED  BY <2>4, <2>7, Zenon
<1>4. Tells(F, E, 27, 24, "transform_8x8_mode_flag",
          IF d.ext # << >> THEN One(d.ext[1].transform) ELSE 0)
  <2>1. Sends(E[24], d.ext # << >>, One(d.ext[1].transform))  BY Zenon DEF PpsSends
  <2>2. 24 \in 1..27  OBVIOUS
  <2>3. Unique(F, 27, 24) /\ F[24].name = "transform_8x8_mode_flag"
    <3>1. F[24].name = "transform_8x8_mode_flag" /\ \A m \in 1..27 : F[m].name = "transform_8x8_mode_flag" => m = 24
      BY DEF PpsFields, Row, Get1, GetN, GetUe, GetSe
    <3> QED  BY <3>1, Zenon DEF Unique
  <2>4. PICK x, y : /\ y = One(d.ext[1].transform)
                    /\ x = IF d.ext # << >> THEN One(d.ext[1].transform) ELSE 0
    OBVIOUS
  <2>5. Sends(E[24], d.ext # << >>, y)
        /\ x = (IF d.ext # << >> THEN y ELSE 0)
    BY <2>1, <2>4, Zenon
  <2>6. Says(E[24], x)  BY <2>5 DEF Sends, Given, Says, Final
  <2>7. Tells(F, E, 27, 24, "transform_8x8_mode_flag", x)
    BY <2>2, <2>3, <2>6, SaidTells, Zenon
  <2> QED  BY <2>4, <2>7, Zenon
<1>5. Tells(F, E, 27, 25, "pic_scaling_matrix_present_flag",
          IF d.ext # << >> THEN One(d.ext[1].lists # << >>) ELSE 0)
  <2>1. Sends(E[25], d.ext # << >>, One(d.ext[1].lists # << >>))  BY Zenon DEF PpsSends
  <2>2. 25 \in 1..27  OBVIOUS
  <2>3. Unique(F, 27, 25) /\ F[25].name = "pic_scaling_matrix_present_flag"
    <3>1. F[25].name = "pic_scaling_matrix_present_flag" /\ \A m \in 1..27 : F[m].name = "pic_scaling_matrix_present_flag" => m = 25
      BY DEF PpsFields, Row, Get1, GetN, GetUe, GetSe
    <3> QED  BY <3>1, Zenon DEF Unique
  <2>4. PICK x, y : /\ y = One(d.ext[1].lists # << >>)
                    /\ x = IF d.ext # << >> THEN One(d.ext[1].lists # << >>) ELSE 0
    OBVIOUS
  <2>5. Sends(E[25], d.ext # << >>, y)
        /\ x = (IF d.ext # << >> THEN y ELSE 0)
    BY <2>1, <2>4, Zenon
  <2>6. Says(E[25], x)  BY <2>5 DEF Sends, Given, Says, Final
  <2>7. Tells(F, E, 27, 25, "pic_scaling_matrix_present_flag", x)
    BY <2>2, <2>3, <2>6, SaidTells, Zenon
  <2> QED  BY <2>4, <2>7, Zenon
<1> QED
  BY <1>1, <1>2, <1>3, <1>4, <1>5, Zenon DEF PpsTells

\* The fields with each condition.
PpsLabelled(F, k) ==
  /\ F[k].when = "pps" => k \in {1, 2, 3, 4, 5, 13, 14, 15, 16, 17, 18, 19, 20, 21, 22, 23}
  /\ F[k].when = "groups" => k \in {6}
  /\ F[k].when = "runs" => k \in {7}
  /\ F[k].when = "rectangles" => k \in {8}
  /\ F[k].when = "change" => k \in {9, 10}
  /\ F[k].when = "units" => k \in {11}
  /\ F[k].when = "ids" => k \in {12}
  /\ F[k].when = "more" => k \in {24, 25}
  /\ F[k].when = "lists" => k \in {26}
  /\ F[k].when = "second" => k \in {27}

\* Which fields of a PPS are read under which condition.
LEMMA PpsAreLabelled ==
  ASSUME NEW F, F = PpsFields, NEW k \in 1..27
  PROVE  PpsLabelled(F, k)
<1>1. F[k].when = "pps" => k \in {1, 2, 3, 4, 5, 13, 14, 15, 16, 17, 18, 19, 20, 21, 22, 23}
  BY DEF PpsFields, Row, Get1, GetN, GetUe, GetSe
<1>2. F[k].when = "groups" => k \in {6}
  BY DEF PpsFields, Row, Get1, GetN, GetUe, GetSe
<1>3. F[k].when = "runs" => k \in {7}
  BY DEF PpsFields, Row, Get1, GetN, GetUe, GetSe
<1>4. F[k].when = "rectangles" => k \in {8}
  BY DEF PpsFields, Row, Get1, GetN, GetUe, GetSe
<1>5. F[k].when = "change" => k \in {9, 10}
  BY DEF PpsFields, Row, Get1, GetN, GetUe, GetSe
<1>6. F[k].when = "units" => k \in {11}
  BY DEF PpsFields, Row, Get1, GetN, GetUe, GetSe
<1>7. F[k].when = "ids" => k \in {12}
  BY DEF PpsFields, Row, Get1, GetN, GetUe, GetSe
<1>8. F[k].when = "more" => k \in {24, 25}
  BY DEF PpsFields, Row, Get1, GetN, GetUe, GetSe
<1>9. F[k].when = "lists" => k \in {26}
  BY DEF PpsFields, Row, Get1, GetN, GetUe, GetSe
<1>10. F[k].when = "second" => k \in {27}
  BY DEF PpsFields, Row, Get1, GetN, GetUe, GetSe
<1> QED
  BY <1>1, <1>2, <1>3, <1>4, <1>5, <1>6, <1>7, <1>8, <1>9, <1>10, Zenon DEF PpsLabelled

\* How many values are sent of each.
PpsCounts(E, d) ==
  /\ \A k \in {1, 2, 3, 4, 5, 13, 14, 15, 16, 17, 18, 19, 20, 21, 22, 23} : Count(E, k) = 1
  /\ Count(E, 6) = One(d.map # << >> /\ d.type \in 0..6)
  /\ Count(E, 9) = One(d.map # << >> /\ d.type \in 3..5)
  /\ Count(E, 10) = One(d.map # << >> /\ d.type \in 3..5)
  /\ Count(E, 11) = One(d.map # << >> /\ d.type \in {6})
  /\ Count(E, 24) = One(d.ext # << >>)
  /\ Count(E, 25) = One(d.ext # << >>)
  /\ Count(E, 27) = One(d.ext # << >>)
  /\ Count(E, 7) = Len(Given(d.map # << >> /\ d.type \in {0}, d.map))
  /\ Count(E, 12) = Len(Given(d.map # << >> /\ d.type \in {6}, d.map))
  /\ Count(E, 26) = Len(Given(d.ext # << >>, d.ext[1].lists))
  /\ ~ (d.map # << >> /\ d.type \in {2}) => Count(E, 8) = 0

\* How many values the encoder sends of each element of a PPS.
LEMMA PpsCounted ==
  ASSUME NEW E, NEW d, PpsSends(E, d)
  PROVE  PpsCounts(E, d)
<1>1. \A k \in {1, 2, 3, 4, 5, 13, 14, 15, 16, 17, 18, 19, 20, 21, 22, 23} : Count(E, k) = 1
  <2>1. /\ Sends(E[1], TRUE, d.id) /\ Sends(E[2], TRUE, 0) /\ Sends(E[3], TRUE, 1)
        /\ Sends(E[4], TRUE, 0) /\ Sends(E[5], TRUE, Groups(d))
        /\ Sends(E[13], TRUE, 2) /\ Sends(E[14], TRUE, 0) /\ Sends(E[15], TRUE, 0)
        /\ Sends(E[16], TRUE, 2) /\ Sends(E[17], TRUE, -3) /\ Sends(E[18], TRUE, 0)
        /\ Sends(E[19], TRUE, -2) /\ Sends(E[20], TRUE, 1) /\ Sends(E[21], TRUE, 0)
        /\ Sends(E[22], TRUE, 0) /\ Sends(E[23], TRUE, One(d.ext # << >>))
    BY Zenon DEF PpsSends
  <2>2. /\ Count(E, 1) = 1 /\ Count(E, 2) = 1 /\ Count(E, 3) = 1 /\ Count(E, 4) = 1
        /\ Count(E, 5) = 1 /\ Count(E, 13) = 1 /\ Count(E, 14) = 1
        /\ Count(E, 15) = 1 /\ Count(E, 16) = 1 /\ Count(E, 17) = 1
        /\ Count(E, 18) = 1 /\ Count(E, 19) = 1 /\ Count(E, 20) = 1
        /\ Count(E, 21) = 1 /\ Count(E, 22) = 1 /\ Count(E, 23) = 1
    BY <2>1 DEF Sends, Given, Count, One
  <2> QED  BY <2>2
<1>2. Count(E, 6) = One(d.map # << >> /\ d.type \in 0..6)
  <2>1. Sends(E[6], d.map # << >> /\ d.type \in 0..6, d.type)
    BY Zenon DEF PpsSends
  <2> QED  BY <2>1 DEF Sends, Given, Count, One
<1>3. /\ Count(E, 9) = One(d.map # << >> /\ d.type \in 3..5)
      /\ Count(E, 10) = One(d.map # << >> /\ d.type \in 3..5)
  <2>1. /\ Sends(E[9], d.map # << >> /\ d.type \in 3..5, 1)
        /\ Sends(E[10], d.map # << >> /\ d.type \in 3..5, d.map[1])
    BY Zenon DEF PpsSends
  <2> QED  BY <2>1 DEF Sends, Given, Count, One
<1>4. Count(E, 11) = One(d.map # << >> /\ d.type \in {6})
  <2>1. Sends(E[11], d.map # << >> /\ d.type \in {6}, Len(d.map) - 1)
    BY Zenon DEF PpsSends
  <2> QED  BY <2>1 DEF Sends, Given, Count, One
<1>5. /\ Count(E, 24) = One(d.ext # << >>)
      /\ Count(E, 25) = One(d.ext # << >>)
      /\ Count(E, 27) = One(d.ext # << >>)
  <2>1. /\ Sends(E[24], d.ext # << >>, One(d.ext[1].transform))
        /\ Sends(E[25], d.ext # << >>, One(d.ext[1].lists # << >>))
        /\ Sends(E[27], d.ext # << >>, -2)
    BY Zenon DEF PpsSends
  <2> QED  BY <2>1 DEF Sends, Given, Count, One
<1>6. /\ Count(E, 7) = Len(Given(d.map # << >> /\ d.type \in {0}, d.map))
      /\ Count(E, 12) = Len(Given(d.map # << >> /\ d.type \in {6}, d.map))
      /\ Count(E, 26) = Len(Given(d.ext # << >>, d.ext[1].lists))
  BY Zenon DEF PpsSends, Count
<1>7. ~ (d.map # << >> /\ d.type \in {2}) => Count(E, 8) = 0
  <2>1. Len(<< >>) = 0  OBVIOUS
  <2> QED  BY <2>1, Zenon DEF PpsSends, Count
<1> QED  BY <1>1, <1>2, <1>3, <1>4, <1>5, <1>6, <1>7, Zenon DEF PpsCounts

\* The picture parameter sets whose fields this parser reads as often as they are sent.
PpsAsRead(d) ==
  /\ d.map # << >> => d.type \notin {2, 6}
  /\ d.ext # << >> => d.ext[1].lists # << >>

\* A map has groups, and its number of lists is that of the syntax.
LEMMA PpsNumbersAre ==
  ASSUME NEW d, PpsOK(d), PpsAsRead(d)
  PROVE  /\ d.map # << >> => /\ d.type \in {0, 1, 3, 4, 5}
                             /\ d.type = 0 => Groups(d) + 1 = Len(d.map)
                             /\ Groups(d) > 0
         /\ d.map = << >> => Groups(d) = 0
         /\ d.ext # << >> => Len(d.ext[1].lists) = 6 + 2 * One(d.ext[1].transform)
<1>1. /\ d.map \in Seq(Nat)
      /\ d.map # << >> => d.type \in 0..6 /\ (d.type < 2 => Len(d.map) >= 2)
      /\ d.ext # << >> /\ d.ext[1].lists # << >> =>
           Len(d.ext[1].lists) = IF d.ext[1].transform THEN 8 ELSE 6
  BY Zenon DEF PpsOK
<1>2. PICK n, t : n = Len(d.map) /\ t = d.type  OBVIOUS
<1>3. n \in Nat  BY <1>1, <1>2
<1>4. ASSUME d.map # << >>
      PROVE  t \in {0, 1, 3, 4, 5} /\ (t = 0 => Groups(d) + 1 = n) /\ Groups(d) > 0
  <2>1. t \in 0..6 /\ t \notin {2, 6} /\ (t < 2 => n >= 2)
    BY <1>1, <1>2, <1>4, Zenon DEF PpsAsRead
  <2>2. t \in {0, 1, 3, 4, 5}  BY <2>1
  <2>3. t # 2  BY <2>1
  <2>4. Groups(d) = IF t < 2 THEN n - 1 ELSE 1  BY <1>2, <1>4, <2>3 DEF Groups
  <2> QED  BY <1>3, <2>1, <2>2, <2>4
<1>5. d.map = << >> => Groups(d) = 0  BY DEF Groups
<1>6. ASSUME d.ext # << >> PROVE Len(d.ext[1].lists) = 6 + 2 * One(d.ext[1].transform)
  <2>1. Len(d.ext[1].lists) = IF d.ext[1].transform THEN 8 ELSE 6
    BY <1>1, <1>6, Zenon DEF PpsAsRead
  <2>2. PICK l, x : l = Len(d.ext[1].lists) /\ x = d.ext[1].transform  OBVIOUS
  <2>3. l = IF x THEN 8 ELSE 6  BY <2>1, <2>2, Zenon
  <2>4. l = 6 + 2 * One(x)
    <3>1. CASE x
      <4>1. One(x) = 1 /\ l = 8  BY <2>3, <3>1, Zenon DEF One
      <4> QED  BY <4>1
    <3>2. CASE ~ x
      <4>1. One(x) = 0 /\ l = 6  BY <2>3, <3>2, Zenon DEF One
      <4> QED  BY <4>1
    <3> QED  BY <3>1, <3>2
  <2> QED  BY <2>2, <2>4, Zenon
<1> QED  BY <1>2, <1>4, <1>5, <1>6, Zenon

\* The fields of a picture parameter set are read as often as they are sent.
LEMMA PpsAgrees ==
  ASSUME NEW F, F = PpsFields, NEW E, NEW d, PpsOK(d), PpsAsRead(d),
         PpsTells(F, E, d), PpsCounts(E, d),
         NEW k \in 1..27, NEW s, Knows(F, E, 27, s, k, FALSE)
  PROVE  Times(s, F[k].when) = Count(E, k)
<1>l. PpsLabelled(F, k)  BY PpsAreLabelled
<1>m. F[k].when \in PpsLabels  BY TablesLabelled, Zenon
<1>0. k \in 1..27 + 1  OBVIOUS
<1>n. PICK n, t, g, m, x, l :
        /\ n = s.num_slice_groups_minus1 /\ t = s.slice_group_map_type
        /\ g = Groups(d) /\ m = Len(d.map)
        /\ x = d.ext[1].transform /\ l = d.ext[1].lists
  OBVIOUS
<1>1. /\ 5 < k => n = g
      /\ 6 < k => t = IF d.map # << >> /\ d.type \in 0..6 THEN d.type ELSE 0
      /\ 23 < k => s.more_rbsp_data = One(d.ext # << >>)
      /\ 24 < k => s.transform_8x8_mode_flag = IF d.ext # << >> THEN One(x) ELSE 0
      /\ 25 < k => s.pic_scaling_matrix_present_flag =
                     IF d.ext # << >> THEN One(l # << >>) ELSE 0
  <2>1. 5 < k => n = g
    <3>1. Tells(F, E, 27, 5, "num_slice_groups_minus1", g)  BY <1>n, Zenon DEF PpsTells
    <3> QED  BY <1>0, <1>n, <3>1, Zenon DEF Tells
  <2>2. 6 < k => t = IF d.map # << >> /\ d.type \in 0..6 THEN d.type ELSE 0
    <3>1. Tells(F, E, 27, 6, "slice_group_map_type",
                IF d.map # << >> /\ d.type \in 0..6 THEN d.type ELSE 0)
      BY Zenon DEF PpsTells
    <3> QED  BY <1>0, <1>n, <3>1, Zenon DEF Tells
  <2>3. 23 < k => s.more_rbsp_data = One(d.ext # << >>)
    <3>1. Tells(F, E, 27, 23, "more_rbsp_data", One(d.ext # << >>))  BY Zenon DEF PpsTells
    <3> QED  BY <1>0, <3>1, Zenon DEF Tells
  <2>4. 24 < k => s.transform_8x8_mode_flag = IF d.ext # << >> THEN One(x) ELSE 0
    <3>1. Tells(F, E, 27, 24, "transform_8x8_mode_flag",
                IF d.ext # << >> THEN One(d.ext[1].transform) ELSE 0)
      BY Zenon DEF PpsTells
    <3> QED  BY <1>0, <1>n, <3>1, Zenon DEF Tells
  <2>5. 25 < k => s.pic_scaling_matrix_present_flag =
                    IF d.ext # << >> THEN One(l # << >>) ELSE 0
    <3>1. Tells(F, E, 27, 25, "pic_scaling_matrix_present_flag",
                IF d.ext # << >> THEN One(d.ext[1].lists # << >>) ELSE 0)
      BY Zenon DEF PpsTells
    <3> QED  BY <1>0, <1>n, <3>1, Zenon DEF Tells
  <2> QED  BY <2>1, <2>2, <2>3, <2>4, <2>5, Zenon
<1>2. /\ d.map # << >> => d.type \in {0, 1, 3, 4, 5} /\ (d.type = 0 => g + 1 = m) /\ g > 0
      /\ d.map = << >> => g = 0
      /\ d.ext # << >> => l # << >> /\ Len(l) = 6 + 2 * One(x)
  BY <1>n, PpsNumbersAre, Zenon DEF PpsAsRead
<1>3. 5 < k => (n > 0 <=> d.map # << >>)
  <2>1. ~ (0 > 0)  OBVIOUS
  <2> QED  BY <1>1, <1>2, <2>1, Zenon
<1>4. 6 < k => (d.map # << >> => t = d.type)
  <2>1. d.map # << >> => d.type \in 0..6  BY <1>2
  <2> QED  BY <1>1, <2>1, Zenon
<1>5. ASSUME k \in {7, 8, 9, 10, 11, 12}
      PROVE  \A T : (n > 0 /\ t \in T) <=> (d.map # << >> /\ d.type \in T)
  <2>1. 5 < k /\ 6 < k  BY <1>5
  <2> QED  BY <1>3, <1>4, <2>1, Zenon
<1>6. CASE F[k].when = "pps"
  <2>1. k \in {1, 2, 3, 4, 5, 13, 14, 15, 16, 17, 18, 19, 20, 21, 22, 23}
    BY <1>l, <1>6, Zenon DEF PpsLabelled
  <2>2. Count(E, k) = 1  BY <2>1, Zenon DEF PpsCounts
  <2> QED  BY <1>6, <2>2, PpsTimesIs, Zenon
<1>7. CASE F[k].when = "groups"
  <2>1. k = 6  BY <1>l, <1>7 DEF PpsLabelled
  <2>2. Count(E, k) = One(d.map # << >> /\ d.type \in 0..6)  BY <2>1, Zenon DEF PpsCounts
  <2>3. Times(s, "groups") = One(n > 0)  BY <1>n, PpsTimesIs, Zenon
  <2>4. d.map # << >> => d.type \in 0..6  BY <1>2
  <2>5. n > 0 <=> d.map # << >>  BY <1>3, <2>1
  <2> QED  BY <1>7, <2>2, <2>3, <2>4, <2>5, Zenon DEF One
<1>8. CASE F[k].when = "runs"
  <2>1. k = 7  BY <1>l, <1>8 DEF PpsLabelled
  <2>2. Count(E, k) = Len(Given(d.map # << >> /\ d.type \in {0}, d.map))
    BY <2>1, Zenon DEF PpsCounts
  <2>3. Times(s, "runs") = One(n > 0 /\ t = 0) * (n + 1)  BY <1>n, PpsTimesIs, Zenon
  <2>4. (n > 0 /\ t \in {0}) <=> (d.map # << >> /\ d.type \in {0})  BY <1>5, <2>1
  <2>5. CASE d.map # << >> /\ d.type = 0
    <3>1. Count(E, k) = m  BY <1>n, <2>2, <2>5 DEF Given
    <3>2. One(n > 0 /\ t = 0) = 1  BY <2>4, <2>5 DEF One
    <3>3. n + 1 = m  BY <1>1, <1>2, <2>1, <2>5
    <3>4. m \in Int  BY <1>n DEF PpsOK
    <3>5. 1 * (n + 1) = n + 1  BY <3>3, <3>4
    <3> QED  BY <1>8, <2>3, <3>1, <3>2, <3>3, <3>5, Zenon
  <2>6. CASE ~ (d.map # << >> /\ d.type = 0)
    <3>1. Count(E, k) = 0
      <4>1. Len(<< >>) = 0  OBVIOUS
      <4> QED  BY <2>2, <2>6, <4>1 DEF Given
    <3>2. One(n > 0 /\ t = 0) = 0  BY <2>4, <2>6 DEF One
    <3>3. n \in Int
      <4>1. s \in Numbers  BY Zenon DEF Knows
      <4> QED  BY <1>n, <4>1, PpsNumbers, Zenon DEF Has
    <3>4. 0 * (n + 1) = 0  BY <3>3
    <3> QED  BY <1>8, <2>3, <3>1, <3>2, <3>4, Zenon
  <2> QED  BY <2>5, <2>6
<1>9. CASE F[k].when = "rectangles"
  <2>1. k = 8  BY <1>l, <1>9 DEF PpsLabelled
  <2>2. ~ (d.map # << >> /\ d.type \in {2})  BY <1>2
  <2>3. Count(E, k) = 0  BY <2>1, <2>2, Zenon DEF PpsCounts
  <2>4. ~ (n > 0 /\ t = 2)  BY <1>5, <2>1, <2>2
  <2>5. Times(s, "rectangles") = One(n > 0 /\ t = 2) * 2 * (n + 1)
    BY <1>n, PpsTimesIs, Zenon
  <2>6. One(n > 0 /\ t = 2) = 0  BY <2>4, Zenon DEF One
  <2>7. n \in Int
    <3>1. s \in Numbers  BY Zenon DEF Knows
    <3> QED  BY <1>n, <3>1, PpsNumbers, Zenon DEF Has
  <2>8. 0 * 2 * (n + 1) = 0  BY <2>7
  <2> QED  BY <1>9, <2>3, <2>5, <2>6, <2>8, Zenon
<1>10. CASE F[k].when = "change"
  <2>1. k \in {9, 10}  BY <1>l, <1>10, Zenon DEF PpsLabelled
  <2>2. Count(E, k) = One(d.map # << >> /\ d.type \in 3..5)  BY <2>1, Zenon DEF PpsCounts
  <2>3. Times(s, "change") = One(n > 0 /\ t \in 3..5)  BY <1>n, PpsTimesIs, Zenon
  <2>4. (n > 0 /\ t \in 3..5) <=> (d.map # << >> /\ d.type \in 3..5)
    <3>1. k \in {7, 8, 9, 10, 11, 12}  BY <2>1
    <3> QED  BY <1>5, <3>1
  <2> QED  BY <1>10, <2>2, <2>3, <2>4, Zenon DEF One
<1>11. CASE F[k].when \in {"units", "ids"}
  <2>1. k \in {11, 12}  BY <1>l, <1>11 DEF PpsLabelled
  <2>2. ~ (d.map # << >> /\ d.type \in {6})  BY <1>2
  <2>3. Count(E, k) = 0
    <3>1. Count(E, 11) = One(d.map # << >> /\ d.type \in {6})
          /\ Count(E, 12) = Len(Given(d.map # << >> /\ d.type \in {6}, d.map))
      BY Zenon DEF PpsCounts
    <3>2. Len(<< >>) = 0  OBVIOUS
    <3>3. Count(E, 11) = 0 /\ Count(E, 12) = 0  BY <2>2, <3>1, <3>2, Zenon DEF One, Given
    <3> QED  BY <2>1, <3>3
  <2>4. ~ (n > 0 /\ t = 6)
    <3>1. k \in {7, 8, 9, 10, 11, 12}  BY <2>1
    <3>2. (n > 0 /\ t \in {6}) <=> (d.map # << >> /\ d.type \in {6})  BY <1>5, <3>1
    <3> QED  BY <2>2, <3>2
  <2>5. One(n > 0 /\ t = 6) = 0  BY <2>4, Zenon DEF One
  <2>6. Times(s, "units") = 0  BY <1>n, <2>5, PpsTimesIs, Zenon
  <2>7. Times(s, "ids") = 0
    <3>1. PICK p : p = s.pic_size_in_map_units_minus1  OBVIOUS
    <3>2. s \in Numbers  BY Zenon DEF Knows
    <3>3. p \in Int  BY <3>1, <3>2, PpsNumbers, Zenon DEF Has
    <3>4. Times(s, "ids") = 0 * p  BY <1>n, <2>5, <3>1, PpsTimesIs, Zenon
    <3> QED  BY <3>3, <3>4
  <2> QED  BY <1>11, <2>3, <2>6, <2>7, Zenon
<1>12. CASE F[k].when = "more"
  <2>1. k \in {24, 25}  BY <1>l, <1>12, Zenon DEF PpsLabelled
  <2>2. Count(E, k) = One(d.ext # << >>)  BY <2>1, Zenon DEF PpsCounts
  <2>3. 23 < k  BY <2>1
  <2> QED  BY <1>1, <1>12, <2>2, <2>3, PpsTimesIs, Zenon
<1>13. CASE F[k].when = "lists"
  <2>1. k = 26  BY <1>l, <1>13 DEF PpsLabelled
  <2>2. Count(E, k) = Len(Given(d.ext # << >>, l))  BY <1>n, <2>1, Zenon DEF PpsCounts
  <2>3. PICK y, z : y = s.pic_scaling_matrix_present_flag /\ z = s.transform_8x8_mode_flag
    OBVIOUS
  <2>4. Times(s, "lists") = y * (6 + 2 * z)  BY <2>3, PpsTimesIs, Zenon
  <2>5. 24 < k /\ 25 < k  BY <2>1
  <2>6. CASE d.ext # << >>
    <3>1. y = 1 /\ z = One(x)  BY <1>1, <1>2, <2>3, <2>5, <2>6, Zenon DEF One
    <3>2. PICK o, q : o = One(x) /\ q = Len(l)  OBVIOUS
    <3>3. q = 6 + 2 * o  BY <1>2, <2>6, <3>2, Zenon
    <3>4. o \in Int  BY <3>2 DEF One
    <3>5. 1 * (6 + 2 * o) = q  BY <3>3, <3>4
    <3>6. Count(E, k) = q  BY <2>2, <2>6, <3>2, Zenon DEF Given
    <3> QED  BY <1>13, <2>4, <3>1, <3>2, <3>5, <3>6, Zenon
  <2>7. CASE ~ (d.ext # << >>)
    <3>1. y = 0 /\ z = 0  BY <1>1, <2>3, <2>5, <2>7, Zenon
    <3>2. 0 * (6 + 2 * 0) = 0 /\ Len(<< >>) = 0  OBVIOUS
    <3> QED  BY <1>13, <2>2, <2>4, <2>7, <3>1, <3>2, Zenon DEF Given
  <2> QED  BY <2>6, <2>7
<1>14. CASE F[k].when = "second"
  <2>1. k = 27  BY <1>l, <1>14 DEF PpsLabelled
  <2>2. Count(E, k) = One(d.ext # << >>)  BY <2>1, Zenon DEF PpsCounts
  <2>3. 25 < k  BY <2>1
  <2>4. Times(s, "second") = s.pic_scaling_matrix_present_flag  BY PpsTimesIs, Zenon
  <2> QED  BY <1>1, <1>2, <1>14, <2>2, <2>3, <2>4, Zenon DEF One
<1> QED
  BY <1>m, <1>6, <1>7, <1>8, <1>9, <1>10, <1>11, <1>12, <1>13, <1>14 DEF PpsLabels

-----------------------------------------------------------------------------
(* Where a picture parameter set ends.                                      *)

\* The items of a prefix.
BeginsWith(t, s) == Len(s) <= Len(t) /\ \A i \in 1..Len(s) : t[i] = s[i]

\* What a prefix says of the items.
LEMMA PrefixItems ==
  ASSUME NEW A, NEW C, NEW s \in Seq(A), NEW t \in Seq(C), IsPrefix(s, t)
  PROVE  BeginsWith(t, s)
<1>1. PICK n, m : n = Len(s) /\ m = Len(t)  OBVIOUS
<1>2. n \in Nat /\ m \in Nat /\ n <= m /\ SubSeq(s, 1, n) = SubSeq(t, 1, n)
  BY <1>1 DEF IsPrefix
<1>3. ASSUME NEW i \in 1..n PROVE t[i] = s[i]
  <2>1. SubSeq(s, 1, n)[i] = s[i]  BY <1>1, <1>2
  <2>2. SubSeq(t, 1, n)[i] = t[i]  BY <1>1, <1>2
  <2> QED  BY <1>2, <2>1, <2>2
<1> QED  BY <1>1, <1>2, <1>3, Zenon DEF BeginsWith

\* A buffer that begins with the payload of a set holds its bits.
LEMMA PayloadHolds ==
  ASSUME NEW B \in Seq({0, 1}), NEW b \in Seq(Nat), IsPrefix(Payload(B), b)
  PROVE  Holds(b, B)
<1>1. PICK P, L, n : P = Payload(B) /\ L = Len(B) /\ n = Len(P)  OBVIOUS
<1>2. /\ P \in Seq(Octet) /\ n = (L + 8) \div 8 /\ L \in Nat
      /\ \A k \in 0..8 * n - 1 :
           Bit(P, k) = IF k < L THEN B[k + 1] ELSE IF k = L THEN 1 ELSE 0
  <2>1. HasPayload(P, B)  BY <1>1, PayloadBits, Zenon
  <2>2. L \in Nat  BY <1>1
  <2> QED  BY <1>1, <2>1, <2>2, Zenon DEF HasPayload
<1>3. n \in Nat /\ 8 * n > L  BY <1>2
<1>4. n <= Len(b) /\ \A i \in 1..n : b[i] = P[i]
  <2>1. IsPrefix(P, b)  BY <1>1, Zenon
  <2>2. BeginsWith(b, P)  BY <1>2, <2>1, PrefixItems, Zenon
  <2> QED  BY <1>1, <2>2, Zenon DEF BeginsWith
<1>5. ASSUME NEW k \in 0..L - 1 PROVE Bit(b, k) = B[k + 1]
  <2>1. k \in 0..8 * n - 1 /\ k < L  BY <1>3, <1>2
  <2>2. (k \div 8) + 1 \in 1..n  BY <1>3, <2>1
  <2>3. Bit(b, k) = Bit(P, k)  BY <1>4, <2>2, Zenon DEF Bit
  <2> QED  BY <1>2, <2>1, <2>3, Zenon
<1>6. 8 * Len(b) > L
  <2>1. PICK m : m = Len(b)  OBVIOUS
  <2>2. m \in Nat /\ n <= m /\ L \in Nat  BY <1>2, <1>4, <2>1
  <2>3. 8 * m > L  BY <1>3, <2>2
  <2> QED  BY <2>1, <2>3
<1> QED  BY <1>1, <1>5, <1>6, Zenon DEF Holds

\* more_rbsp_data says no in front of a stop bit that is the last of its byte, and
\* yes if behind the next eight bits the last that was sent is a 1.
LEMMA MoreAnswers ==
  ASSUME NEW B \in Seq({0, 1}), NEW P, HasPayload(P, B), NEW p \in Nat
  PROVE  /\ p = Len(B) /\ Len(B) % 8 = 7 => MoreRbspData(Context(P, p)) = 0
         /\ p + 8 <= Len(B) /\ B[Len(B)] = 1 => MoreRbspData(Context(P, p)) = 1
<1>1. PICK c, L, n : c = Context(P, p) /\ L = Len(B) /\ n = Len(P)  OBVIOUS
<1>2. /\ L \in Nat /\ P \in Seq(Octet) /\ n = (L + 8) \div 8
      /\ \A k \in 0..8 * n - 1 :
           Bit(P, k) = IF k < L THEN B[k + 1] ELSE IF k = L THEN 1 ELSE 0
  <2>1. L \in Nat  BY <1>1
  <2> QED  BY <1>1, <2>1, Zenon DEF HasPayload
<1>3. c.buf = P /\ c.bit_pos = p /\ Total(c) = 8 * n  BY <1>1 DEF Context, Total
<1>4. ASSUME p = L, L % 8 = 7 PROVE MoreRbspData(c) = 0
  <2>1. 8 * n - 1 = p  BY <1>2, <1>4
  <2> QED  BY <1>3, <2>1, Zenon DEF MoreRbspData
<1>5. ASSUME p + 8 <= L, B[L] = 1 PROVE MoreRbspData(c) = 1
  <2>1. PICK r : r = L % 8  OBVIOUS
  <2>2. n \in Nat /\ r \in 0..7 /\ L = 8 * (n - 1) + r /\ n >= 2
    BY <1>2, <1>5, <2>1
  <2>3. PICK k : k = IF r < 2 THEN 1 ELSE 9 - r  OBVIOUS
  <2>4. PICK last : last = 8 * n - 1  OBVIOUS
  <2>5. k \in 1..7 /\ k \in 1..last - p - 1  BY <1>5, <2>2, <2>3, <2>4
  <2>6. PICK q : q = 8 * ((last - k) \div 8) + ((1 - k) % 8)  OBVIOUS
  <2>7. q = 8 * (n - 1) + (IF r < 2 THEN 0 ELSE r)
    <3>1. (last - k) \div 8 = n - 1  BY <2>2, <2>4, <2>5
    <3>2. (1 - k) % 8 = IF r < 2 THEN 0 ELSE r
      <4>1. CASE r < 2  BY <2>3, <4>1
      <4>2. CASE ~ (r < 2)
        <5>1. 1 - k = r - 8 /\ r \in 0..7  BY <2>2, <2>3, <4>2
        <5>2. (r - 8) % 8 = r  BY <5>1
        <5> QED  BY <4>2, <5>1, <5>2
      <4> QED  BY <4>1, <4>2
    <3> QED  BY <2>6, <3>1, <3>2
  <2>8. q \in 0..8 * n - 1 /\ (q = L \/ q = L - 1) /\ L - 1 + 1 = L /\ L > 0
    BY <1>5, <2>2, <2>7
  <2>9. Bit(P, q) = 1
    <3>1. CASE q = L
      <4>1. ~ (L < L)  BY <1>2
      <4> QED  BY <1>2, <2>8, <3>1, <4>1, Zenon
    <3>2. CASE q = L - 1
      <4>1. q < L /\ q + 1 = L  BY <1>2, <3>2
      <4> QED  BY <1>2, <1>5, <2>8, <4>1, Zenon
    <3> QED  BY <2>8, <3>1, <3>2
  <2>10. q \in LookedAt(c)
    <3>1. q \in {8 * ((last - j) \div 8) + ((1 - j) % 8) : j \in 1..last - p - 1}
      BY <2>5, <2>6, Zenon
    <3> QED  BY <1>3, <2>4, <3>1, Zenon DEF LookedAt
  <2>11. Total(c) - 1 # c.bit_pos  BY <1>3, <1>5, <2>2
  <2> QED  BY <1>3, <2>9, <2>10, <2>11, Zenon DEF MoreRbspData
<1> QED  BY <1>1, <1>4, <1>5

\* The table of a PPS and the elements of a description.
PpsMatch(F, E, d) ==
  /\ Rows(F, E, 27) /\ Agree(F, E, 27) /\ AllCoded(E) /\ Len(E) = 27
  /\ \A k \in 1..27 : Paired(F[k], E[k])
  /\ PpsSends(E, d) /\ PpsCounts(E, d)

\* The table and what an encoder sends fit together, for every PPS whose slice groups
\* are read as they are sent.
LEMMA PpsMatches ==
  ASSUME NEW F, F = PpsFields, NEW d, PpsOK(d), PpsAsRead(d), NEW E, E = PpsElements(d)
  PROVE  PpsMatch(F, E, d)
<1>1. AllCoded(E) /\ Len(E) = 27  BY PpsCoded
<1>2. \A k \in 1..27 : Paired(F[k], E[k])  BY PpsPaired
<1>3. Rows(F, E, 27)
  <2>1. \A k \in 1..27 : RowOK(F[k])  BY RowsOK, Zenon
  <2>2. RowEnds(E, 27)
    <3>1. 27 \in Nat  OBVIOUS
    <3> QED  BY <1>1, <3>1, RowsEnd, Zenon
  <2>3. 27 \in Nat /\ \A k \in 1..27 : Count(E, k) \in Nat  BY <2>2 DEF RowEnds, Count
  <2> QED  BY <2>1, <2>3, Zenon DEF Rows
<1>4. PpsSends(E, d)  BY PpsRows
<1>5. PpsTells(F, E, d) /\ PpsCounts(E, d)  BY <1>3, <1>4, PpsControls, PpsCounted
<1>6. Agree(F, E, 27)  BY <1>5, PpsAgrees, Zenon DEF Agree
<1> QED  BY <1>1, <1>2, <1>3, <1>4, <1>5, <1>6, Zenon DEF PpsMatch

\* The only fields of their kinds.
PpsKinds(F, k) ==
  /\ F[k].kind = "id" => k = 12
  /\ F[k].kind = "list" => k = 26
  /\ F[k].kind = "more" => k = 23

\* The kinds of the fields of a PPS.
LEMMA PpsKindsAre ==
  ASSUME NEW F, F = PpsFields, NEW k \in 1..27
  PROVE  PpsKinds(F, k)
<1>1. F[k].kind = "id" => k \in {12}
  BY DEF PpsFields, Row, Get1, GetN, GetUe, GetSe
<1>2. F[k].kind = "list" => k \in {26}
  BY DEF PpsFields, Row, Get1, GetN, GetUe, GetSe
<1>3. F[k].kind = "more" => k \in {23}
  BY DEF PpsFields, Row, Get1, GetN, GetUe, GetSe
<1> QED  BY <1>1, <1>2, <1>3 DEF PpsKinds

\* A PPS with small numbers, its 4x4 lists sent to their end and no more of anything
\* than its array holds, can be read.
LEMMA PpsReadable ==
  ASSUME NEW F, F = PpsFields, NEW d, PpsOK(d), PpsAsRead(d), NEW E, PpsMatch(F, E, d),
         AllSmall(E), d.ext # << >> => SentToEnd(d.ext[1].lists), HaveRoom(F, E, 27),
         NEW b, Holds(b, Bits(E))
  PROVE  Readable(F, E, 27, b)
<1>1. /\ Rows(F, E, 27) /\ Agree(F, E, 27) /\ AllCoded(E) /\ Len(E) = 27
      /\ \A k \in 1..27 : Paired(F[k], E[k])
      /\ PpsSends(E, d) /\ PpsCounts(E, d)
  BY Zenon DEF PpsMatch
<1>2. \A k \in 1..27 : PpsKinds(F, k)  BY PpsKindsAre
<1>3. ASSUME NEW k \in 1..27, F[k].kind = "id" PROVE Count(E, k) = 0
  <2>1. Count(E, 12) = Len(Given(d.map # << >> /\ d.type \in {6}, d.map))
    BY <1>1, Zenon DEF PpsCounts
  <2>2. ~ (d.map # << >> /\ d.type \in {6})  BY Zenon DEF PpsAsRead
  <2>3. Len(<< >>) = 0  OBVIOUS
  <2>4. Count(E, 12) = 0  BY <2>1, <2>2, <2>3, Zenon DEF Given
  <2> QED  BY <1>2, <1>3, <2>4, Zenon DEF PpsKinds
<1>4. ASSUME NEW k \in 1..27, E[k].as = "list", NEW i \in 1..Count(E, k), i <= 6
      PROVE  Len(E[k].values[i]) \notin 1..15
  <2>1. F[k].kind = "list"
    <3>1. Paired(F[k], E[k])  BY <1>1
    <3> QED  BY <1>4, <3>1, Zenon DEF Paired
  <2>2. E[k].values = Given(d.ext # << >>, d.ext[1].lists)
    <3>1. k = 26  BY <1>2, <2>1, Zenon DEF PpsKinds
    <3> QED  BY <1>1, <3>1, Zenon DEF PpsSends
  <2>3. CASE d.ext # << >>
    <3>1. E[k].values = d.ext[1].lists  BY <2>2, <2>3, Zenon DEF Given
    <3> QED  BY <1>4, <2>3, <3>1, Zenon DEF Count, SentToEnd
  <2>4. CASE ~ (d.ext # << >>)
    <3>1. E[k].values = << >>  BY <2>2, <2>4, Zenon DEF Given
    <3>2. Count(E, k) = 0  BY <3>1 DEF Count
    <3>3. 1..0 = {}  OBVIOUS
    <3> QED  BY <1>4, <3>2, <3>3, Zenon
  <2> QED  BY <2>3, <2>4
<1>5. \A k \in 1..27 : Small(E[k])  BY <1>1, Zenon DEF AllSmall
<1> QED  BY <1>1, <1>3, <1>4, <1>5, Zenon DEF Readable

\* Where the values of row k are.
LEMMA PlaceOf ==
  ASSUME NEW E, AllCoded(E), NEW N, N = Len(E), N \in Nat, NEW k \in 1..N,
         NEW i \in Nat, i < Count(E, k)
  PROVE  CodePlace(E, Bits(E), k, i)
<1>1. RowEnds(E, N)  BY RowsEnd
<1>2. PICK n : n = Len(E[k].values)  OBVIOUS
<1>3. n \in Nat  BY <1>1, <1>2, Zenon DEF RowEnds
<1>4. i \in 0..n - 1  BY <1>2, <1>3 DEF Count
<1> QED  BY <1>2, <1>3, <1>4, CodesPlaced, Zenon

\* The lists that are sent take a bit each or more.
LEMMA ListsTakeBits ==
  ASSUME NEW E, AllCoded(E), NEW N, N = Len(E), N \in Nat, NEW k \in 1..N,
         E[k].as = "list", NEW n, n = Count(E, k)
  PROVE  Pos(E, k, n) >= Pos(E, k, 0) + n
<1>1. RowEnds(E, N)  BY RowsEnd
<1>2. n \in Nat /\ n = Len(E[k].values) /\ Pos(E, k, 0) \in Nat
  BY <1>1, Zenon DEF RowEnds, Count
<1>3. PICK p : p = Pos(E, k, 0)  OBVIOUS
<1> DEFINE A == {i \in Nat : i <= n => Pos(E, k, i) \in Nat /\ Pos(E, k, i) >= p + i}
<1>4. 0 \in A  BY <1>2, <1>3
<1>5. ASSUME NEW i \in Nat, i \in A PROVE i + 1 \in A
  <2> SUFFICES ASSUME i + 1 <= n
               PROVE  Pos(E, k, i + 1) \in Nat /\ Pos(E, k, i + 1) >= p + (i + 1)
    OBVIOUS
  <2>1. i < Count(E, k) /\ i <= n /\ i + 1 \in 1..n  BY <1>2
  <2>2. CodePlace(E, Bits(E), k, i)  BY <2>1, PlaceOf, Zenon
  <2>3. PICK c : c = Code(E[k], i + 1)  OBVIOUS
  <2>4. Pos(E, k, i + 1) = Pos(E, k, i) + Len(c)  BY <2>2, <2>3, Zenon DEF CodePlace
  <2>5. Len(c) \in Nat \ {0}
    <3>1. PICK e, v : e = E[k] /\ v = e.values[i + 1]  OBVIOUS
    <3>2. HasCode(e)  BY <3>1, Zenon DEF AllCoded
    <3>3. i + 1 \in 1..Len(e.values)  BY <1>2, <2>1, <3>1
    <3>4. v \in Seq(Deltas)  BY <1>2, <3>1, <3>2, <3>3, Values, Zenon
    <3>5. c = ListBits(v)  BY <2>3, <3>1, CodeOf, Zenon
    <3>6. PICK h, m : h = ListParts(v) /\ m = Len(v)  OBVIOUS
    <3>7. ListMadeOf(v, h, m)  BY <3>4, <3>6, ListCode
    <3>8. PICK l : l = Len(h[m])  OBVIOUS
    <3>9. l \in Nat /\ Len(c) = 1 + l
      <4>1. h[m] \in Seq({0, 1}) /\ Len(c) = 1 + l
        BY <3>5, <3>7, <3>8, Zenon DEF ListMadeOf
      <4> QED  BY <3>8, <4>1
    <3> QED  BY <3>9
  <2>6. PICK x, l : x = Pos(E, k, i) /\ l = Len(c)  OBVIOUS
  <2>7. x \in Nat /\ x >= p + i /\ l \in Nat \ {0} /\ p \in Nat
    BY <1>2, <1>3, <1>5, <2>1, <2>5, <2>6
  <2>8. x + l \in Nat /\ x + l >= p + (i + 1)  BY <2>7
  <2> QED  BY <2>4, <2>6, <2>8, Zenon
<1> HIDE DEF A
<1>6. \A i \in Nat : i \in A  BY <1>4, <1>5, CountUp
<1> QED  BY <1>2, <1>3, <1>6 DEF A

\* The code of -2 has three bits or more, and the last is a 1.
LEMMA LastOfMinusTwo == LET c == Se(-2) IN Len(c) \in Nat \ {0} /\ c[Len(c)] = 1
<1>1. PICK c : c = Se(-2)  OBVIOUS
<1>2. c = Ue(4)  BY <1>1 DEF Se
<1>3. Below30(4) /\ 4 \in Nat  BY SMT DEF Below30
<1>4. PICK z : UeShape(Ue(4), 4, z)  BY <1>3, UeCode, Zenon
<1>5. /\ z \in 0..30 /\ 2^z <= 4 + 1 /\ 4 + 1 < 2^(z + 1)
      /\ Len(c) = 2 * z + 1
      /\ \A i \in 1..z : c[z + 1 + i] = BitOf(4 + 1, z - i)
  BY <1>2, <1>4, Zenon DEF UeShape, HasBits
<1>6. z # 0
  <2> SUFFICES ASSUME z = 0 PROVE FALSE  OBVIOUS
  <2>1. 2^(0 + 1) = 2 /\ 4 + 1 = 5  BY SMT
  <2> QED  BY <1>5, <2>1
<1>7. z \in 1..z /\ z + 1 + z = 2 * z + 1 /\ z - z = 0 /\ 2 * z + 1 \in Nat \ {0}
  BY <1>5, <1>6
<1>8. c[z + 1 + z] = BitOf(4 + 1, z - z)  BY <1>5, <1>7
<1>9. BitOf(4 + 1, 0) = 1
  <2>1. BitOf(4 + 1, 0) = ((4 + 1) \div 2^0) % 2  BY DEF BitOf
  <2>2. 2^0 = 1  BY SMT
  <2> QED  BY <2>1, <2>2
<1> QED  BY <1>1, <1>5, <1>7, <1>8, <1>9, Zenon

\* Nothing is behind what says that no extension is sent; of an extension at least
\* eight bits, the last of them a 1.
LEMMA BehindMore ==
  ASSUME NEW F, F = PpsFields, NEW d, PpsOK(d), PpsAsRead(d), NEW E, PpsMatch(F, E, d),
         NEW p, p = Pos(E, 23, 0), NEW B, B = Bits(E), NEW L, L = Len(B)
  PROVE  /\ p \in Nat /\ L \in Nat
         /\ d.ext = << >> => p = L
         /\ d.ext # << >> => p + 8 <= L /\ B[L] = 1
<1>1. /\ AllCoded(E) /\ Len(E) = 27 /\ \A k \in 1..27 : Paired(F[k], E[k])
      /\ PpsSends(E, d) /\ PpsCounts(E, d)
  BY Zenon DEF PpsMatch
<1>2. RowEnds(E, 27)
  <2>1. 27 \in Nat  OBVIOUS
  <2> QED  BY <1>1, <2>1, RowsEnd, Zenon
<1>3. B \in Seq({0, 1}) /\ L \in Nat
  <2>1. B \in Seq({0, 1})  BY <1>2, Zenon DEF RowEnds
  <2> QED  BY <2>1
<1>4. \A k \in 1..27 : /\ Pos(E, k + 1, 0) = Pos(E, k, Count(E, k))
                       /\ Pos(E, k, 0) \in Nat
  BY <1>2, Zenon DEF RowEnds, Count
<1>5. PICK q4, q5, q6, q7 : /\ q4 = Pos(E, 24, 0) /\ q5 = Pos(E, 25, 0)
                            /\ q6 = Pos(E, 26, 0) /\ q7 = Pos(E, 27, 0)
  OBVIOUS
<1>6. p \in Nat /\ q4 \in Nat /\ q5 \in Nat /\ q6 \in Nat /\ q7 \in Nat
  BY <1>4, <1>5
<1>7. /\ q4 = Pos(E, 23, Count(E, 23)) /\ q5 = Pos(E, 24, Count(E, 24))
      /\ q6 = Pos(E, 25, Count(E, 25)) /\ q7 = Pos(E, 26, Count(E, 26))
      /\ L = Pos(E, 27, Count(E, 27))
  <2>1. /\ 23 + 1 = 24 /\ 24 + 1 = 25 /\ 25 + 1 = 26 /\ 26 + 1 = 27
        /\ 23 \in 1..27 /\ 24 \in 1..27 /\ 25 \in 1..27 /\ 26 \in 1..27 /\ 27 \in 1..27
    OBVIOUS
  <2>2. L = Pos(E, 27 + 1, 0)  BY <1>2, Zenon DEF RowEnds
  <2>3. q4 = Pos(E, 23, Count(E, 23))  BY <1>4, <1>5, <2>1, Zenon
  <2>4. q5 = Pos(E, 24, Count(E, 24))  BY <1>4, <1>5, <2>1, Zenon
  <2>5. q6 = Pos(E, 25, Count(E, 25))  BY <1>4, <1>5, <2>1, Zenon
  <2>6. q7 = Pos(E, 26, Count(E, 26))  BY <1>4, <1>5, <2>1, Zenon
  <2>7. L = Pos(E, 27, Count(E, 27))  BY <1>4, <2>1, <2>2, Zenon
  <2> QED  BY <2>3, <2>4, <2>5, <2>6, <2>7
<1>8. \A k \in 1..27, i \in Nat : i < Count(E, k) => CodePlace(E, B, k, i)
  <2>1. 27 \in Nat  OBVIOUS
  <2> QED  BY <1>1, <2>1, PlaceOf, Zenon
<1>9. q4 = p
  <2>1. Count(E, 23) = 1  BY <1>1, Zenon DEF PpsCounts
  <2>2. 0 \in Nat /\ 0 < 1 /\ 23 \in 1..27 /\ 0 + 1 = 1  OBVIOUS
  <2>3. CodePlace(E, B, 23, 0)  BY <1>8, <2>1, <2>2, Zenon
  <2>4. E[23].as = "more"
    <3>1. F[23].kind = "more"  BY DEF PpsFields, Row, Get1, GetN, GetUe, GetSe
    <3>2. Paired(F[23], E[23])  BY <1>1, <2>2, Zenon
    <3> QED  BY <3>1, <3>2 DEF Paired
  <2>5. Code(E[23], 1) = << >>  BY <2>4, CodeOf, Zenon
  <2>6. Pos(E, 23, 0 + 1) = p + Len(Code(E[23], 0 + 1))  BY <2>3, Zenon DEF CodePlace
  <2>7. Len(<< >>) = 0 /\ p + 0 = p  BY <1>6
  <2>8. Pos(E, 23, 1) = p  BY <2>2, <2>5, <2>6, <2>7, Zenon
  <2> QED  BY <1>7, <2>1, <2>8, Zenon
<1>10. ASSUME d.ext = << >> PROVE p = L
  <2>1. ~ (d.ext # << >>)  BY <1>10
  <2>2. Count(E, 24) = 0 /\ Count(E, 25) = 0 /\ Count(E, 27) = 0
    BY <1>1, <2>1, Zenon DEF PpsCounts, One
  <2>3. Count(E, 26) = 0
    <3>1. Count(E, 26) = Len(Given(d.ext # << >>, d.ext[1].lists))
      BY <1>1, Zenon DEF PpsCounts
    <3>2. Len(<< >>) = 0  OBVIOUS
    <3> QED  BY <2>1, <3>1, <3>2, Zenon DEF Given
  <2> QED  BY <1>5, <1>7, <1>9, <2>2, <2>3, Zenon
<1>11. ASSUME d.ext # << >> PROVE p + 8 <= L /\ B[L] = 1
  <2>1. Count(E, 24) = 1 /\ Count(E, 25) = 1 /\ Count(E, 27) = 1
    BY <1>1, <1>11, Zenon DEF PpsCounts, One
  <2>2. Count(E, 26) >= 6
    <3>1. PICK n, o : n = Len(d.ext[1].lists) /\ o = One(d.ext[1].transform)  OBVIOUS
    <3>2. n = 6 + 2 * o  BY <1>11, <3>1, PpsNumbersAre, Zenon
    <3>3. o \in {0, 1}  BY <3>1 DEF One
    <3>4. Count(E, 26) = n
      <4>1. Count(E, 26) = Len(Given(d.ext # << >>, d.ext[1].lists))
        BY <1>1, Zenon DEF PpsCounts
      <4> QED  BY <1>11, <3>1, <4>1, Zenon DEF Given
    <3> QED  BY <3>2, <3>3, <3>4
  <2>3. ASSUME NEW k \in {24, 25} PROVE Pos(E, k, 1) = Pos(E, k, 0) + 1
    <3>1. k \in 1..27 /\ Count(E, k) = 1 /\ 0 \in Nat /\ 0 < 1 /\ 0 + 1 = 1
      BY <2>1, <2>3
    <3>2. CodePlace(E, B, k, 0)  BY <1>8, <3>1, Zenon
    <3>3. E[k].as = "u" /\ E[k].n = 1
      <4>1. F[k].kind = "flag"
        <5>1. F[24].kind = "flag"  BY DEF PpsFields, Row, Get1, GetN, GetUe, GetSe
        <5>2. F[25].kind = "flag"  BY DEF PpsFields, Row, Get1, GetN, GetUe, GetSe
        <5> QED  BY <2>3, <5>1, <5>2
      <4>2. Paired(F[k], E[k])  BY <1>1, <3>1, Zenon
      <4> QED  BY <4>1, <4>2 DEF Paired
    <3>4. PICK e, v, c : e = E[k] /\ v = e.values[1] /\ c = Code(e, 1)  OBVIOUS
    <3>5. HasCode(e)  BY <1>1, <3>1, <3>4, Zenon DEF AllCoded
    <3>6. 1 \in 1..Len(e.values)  BY <3>1, <3>4 DEF Count
    <3>7. v \in Nat  BY <3>3, <3>4, <3>5, <3>6, Values, Zenon
    <3>8. c = U(1, v)  BY <3>3, <3>4, CodeOf, ZenonT(30)
    <3>9. Len(c) = 1
      <4>1. 1 \in Nat  OBVIOUS
      <4>2. UShape(U(1, v), 1, v)  BY <3>7, <4>1, UCode, Zenon
      <4> QED  BY <3>8, <4>2, Zenon DEF UShape
    <3>10. Pos(E, k, 0 + 1) = Pos(E, k, 0) + Len(Code(E[k], 0 + 1))
      BY <3>2, Zenon DEF CodePlace
    <3> QED  BY <3>1, <3>4, <3>9, <3>10, Zenon
  <2>4. q5 = q4 + 1 /\ q6 = q5 + 1  BY <1>5, <1>7, <2>1, <2>3, Zenon
  <2>5. q7 >= q6 + 6
    <3>1. E[26].as = "list"
      <4>1. F[26].kind = "list"  BY DEF PpsFields, Row, Get1, GetN, GetUe, GetSe
      <4>2. 26 \in 1..27  OBVIOUS
      <4>3. Paired(F[26], E[26])  BY <1>1, <4>2, Zenon
      <4> QED  BY <4>1, <4>3 DEF Paired
    <3>2. PICK n : n = Count(E, 26)  OBVIOUS
    <3>3. 27 \in Nat /\ 26 \in 1..27  OBVIOUS
    <3>4. Pos(E, 26, n) >= Pos(E, 26, 0) + n
      BY <1>1, <3>1, <3>2, <3>3, ListsTakeBits, Zenon
    <3>5. n \in Nat  BY <1>2, <3>2, <3>3, Zenon DEF RowEnds, Count
    <3>6. q7 >= q6 + n  BY <1>5, <1>7, <3>2, <3>4, Zenon
    <3> QED  BY <1>6, <2>2, <3>2, <3>5, <3>6
  <2>6. PICK c, l : c = Se(-2) /\ l = Len(c)  OBVIOUS
  <2>7. l \in Nat \ {0} /\ c[l] = 1  BY <2>6, LastOfMinusTwo
  <2>8. Code(E[27], 1) = c
    <3>1. E[27].as = "se"
      <4>1. F[27].kind = "se"  BY DEF PpsFields, Row, Get1, GetN, GetUe, GetSe
      <4>2. 27 \in 1..27  OBVIOUS
      <4>3. Paired(F[27], E[27])  BY <1>1, <4>2, Zenon
      <4> QED  BY <4>1, <4>3 DEF Paired
    <3>2. E[27].values = <<-2>>
      <4>1. Sends(E[27], d.ext # << >>, -2)  BY <1>1, Zenon DEF PpsSends
      <4> QED  BY <1>11, <4>1, Zenon DEF Sends, Given
    <3>3. E[27].values[1] = -2  BY <3>2
    <3> QED  BY <2>6, <3>1, <3>3, CodeOf, Zenon
  <2>9. L = q7 + l /\ \A r \in 1..l : B[q7 + r] = c[r]
    <3>1. 0 \in Nat /\ 0 < 1 /\ 27 \in 1..27 /\ 0 + 1 = 1  OBVIOUS
    <3>2. CodePlace(E, B, 27, 0)  BY <1>8, <2>1, <3>1, Zenon
    <3>3. /\ Pos(E, 27, 0 + 1) = Pos(E, 27, 0) + Len(Code(E[27], 0 + 1))
          /\ \A r \in 1..Len(Code(E[27], 0 + 1)) :
               B[Pos(E, 27, 0) + r] = Code(E[27], 0 + 1)[r]
      BY <3>2, Zenon DEF CodePlace
    <3> QED  BY <1>5, <1>7, <2>1, <2>6, <2>8, <3>1, <3>3, Zenon
  <2>10. l \in 1..l /\ q7 + l = L  BY <2>7, <2>9
  <2>11. B[L] = 1  BY <2>7, <2>9, <2>10, Zenon
  <2>12. p + 8 <= L  BY <1>6, <1>9, <2>4, <2>5, <2>7, <2>9
  <2> QED  BY <2>11, <2>12
<1> QED  BY <1>3, <1>6, <1>10, <1>11

\* A PPS with no slice groups of type 2 or 6, with scaling lists if it has an
\* extension, and otherwise with its stop bit last in its byte, so that nothing in
\* its payload looks like one, can be read.  Its numbers, lists and arrays are those
\* of SpsReadable.
THEOREM PpsCanRead ==
  ASSUME NEW F, F = PpsFields, NEW d, PpsOK(d), PpsAsRead(d), NEW E, E = PpsElements(d),
         AllSmall(E), d.ext # << >> => SentToEnd(d.ext[1].lists), HaveRoom(F, E, 27),
         NEW B, B = Bits(E), d.ext = << >> => Len(B) % 8 = 7,
         NEW P, P = Payload(B)
  PROVE  CanRead(F, E, 27, P)
<1>1. PpsMatch(F, E, d)  BY PpsMatches
<1>2. AllCoded(E) /\ Len(E) = 27 /\ PpsSends(E, d) /\ PpsCounts(E, d)
  BY <1>1, Zenon DEF PpsMatch
<1>3. B \in Seq({0, 1})
  <2>1. 27 \in Nat  OBVIOUS
  <2> QED  BY <1>2, <2>1, RowsEnd, Zenon DEF RowEnds
<1>4. HasPayload(P, B)  BY <1>3, PayloadBits
<1>5. P \in Seq(Octet)  BY <1>4, Zenon DEF HasPayload
<1>6. P \in Seq(Nat)  BY <1>5, OctetsAreNumbers
<1>7. Holds(P, B)
  <2>1. IsPrefix(P, P)  BY <1>6 DEF IsPrefix
  <2> QED  BY <1>3, <1>6, <2>1, PayloadHolds
<1>8. Readable(F, E, 27, P)  BY <1>1, <1>7, PpsReadable, Zenon
<1>9. PICK p, L : p = Pos(E, 23, 0) /\ L = Len(B)  OBVIOUS
<1>10. /\ p \in Nat /\ L \in Nat
       /\ d.ext = << >> => p = L
       /\ d.ext # << >> => p + 8 <= L /\ B[L] = 1
  BY <1>1, <1>9, BehindMore
<1>11. MoreRbspData(Context(P, p)) = One(d.ext # << >>)
  <2>1. /\ p = Len(B) /\ Len(B) % 8 = 7 => MoreRbspData(Context(P, p)) = 0
        /\ p + 8 <= Len(B) /\ B[Len(B)] = 1 => MoreRbspData(Context(P, p)) = 1
    BY <1>3, <1>4, <1>10, MoreAnswers
  <2>2. CASE d.ext = << >>
    <3>1. ~ (d.ext # << >>)  BY <2>2
    <3> QED  BY <1>9, <1>10, <2>1, <2>2, <3>1, Zenon DEF One
  <2>3. CASE d.ext # << >>  BY <1>9, <1>10, <2>1, <2>3, Zenon DEF One
  <2> QED  BY <2>2, <2>3
<1>12. Count(E, 23) = 1 /\ E[23].values[1] = One(d.ext # << >>)
  <2>1. PICK x : x = One(d.ext # << >>)  OBVIOUS
  <2>2. Sends(E[23], TRUE, x)  BY <1>2, <2>1, Zenon DEF PpsSends
  <2>3. E[23].values = <<x>>  BY <2>2, Zenon DEF Sends, Given
  <2> QED  BY <2>1, <2>3 DEF Count
<1>13. MoreAsSent(F, E, 27, P)
  <2>1. ASSUME NEW k \in 1..27, F[k].kind = "more"
        PROVE  Count(E, k) = 1 /\ MoreRbspData(Context(P, Pos(E, k, 0))) = E[k].values[1]
    <3>1. k = 23  BY <2>1, PpsKindsAre, Zenon DEF PpsKinds
    <3> QED  BY <1>9, <1>11, <1>12, <3>1, Zenon
  <2> QED  BY <2>1, Zenon DEF MoreAsSent
<1>14. 27 >= 1 /\ Count(E, 1) # 0
  <2>1. Count(E, 1) = 1  BY <1>2, Zenon DEF PpsCounts
  <2> QED  BY <2>1
<1> QED  BY <1>8, <1>13, <1>14, Zenon DEF CanRead

=============================================================================
