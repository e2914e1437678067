----------------------------- MODULE SpsParser -----------------------------
(***************************************************************************)
(* h264dec_seq_parameter_set and h264dec_picture_parameter_set of          *)
(* src/sps_pps.c and what main() asks of their result: the way through the *)
(* fields of an SPS or a PPS, one read after another.                      *)
(***************************************************************************)
EXTENDS BitReader

VARIABLES
  stage,  \* "idle", "raw", "parse", "done", "failed", or "lost": the parser left the
          \* data it reads or an array it fills
  set,    \* which of the two parsers it is: "sps" or "pps"
  ctx,    \* get_bit_context
  sps,    \* the fields, 0 before they are read
  field,  \* the field that is read next
  round,  \* how often it was read
  list    \* the scaling list being read: number, element, last_ and next_scale

parserVars == <<stage, set, ctx, sps, field, round, list>>

NoList == [i |-> -1, j |-> 0, last |-> 8, next |-> 8]

-----------------------------------------------------------------------------
(* The fields in the order of the code, each with the way it is read and    *)
(* the condition under which it is.                                         *)

Row(kind, n, when, name) == [name |-> name, kind |-> kind, n |-> n, when |-> when]

Get1(when, name)   == Row("flag", 1, when, name)
GetN(n, when, name) == Row("u", n, when, name)
GetUe(when, name)  == Row("ue", 0, when, name)
GetSe(when, name)  == Row("se", 0, when, name)

SpsFields ==
  <<GetN(8, "sps", "profile_idc"),
    Get1("sps", "constraint_set0_flag"), Get1("sps", "constraint_set1_flag"),
    Get1("sps", "constraint_set2_flag"), Get1("sps", "constraint_set3_flag"),
    GetN(4, "sps", "reserved_zero_4bits"), GetN(8, "sps", "level_idc"),
    GetUe("sps", "seq_parameter_set_id"),
    GetUe("high", "chroma_format_idc"), Get1("planes", "separate_colour_plane_flag"),
    GetUe("high", "bit_depth_luma_minus8"), GetUe("high", "bit_depth_chroma_minus8"),
    Get1("high", "qpprime_y_zero_transform_bypass_flag"),
    Get1("high", "seq_scaling_matrix_present_flag"),
    Row("list", 1, "matrix", "seq_scaling_list_present_flag"),
    GetUe("sps", "log2_max_frame_num_minus4"), GetUe("sps", "pic_order_cnt_type"),
    GetUe("poc0", "log2_max_pic_order_cnt_lsb_minus4"),
    Get1("poc1", "delta_pic_order_always_zero_flag"),
    GetSe("poc1", "offset_for_non_ref_pic"),
    GetSe("poc1", "offset_for_top_to_bottom_field"),
    GetUe("poc1", "num_ref_frames_in_pic_order_cnt_cycle"),
    GetSe("cycle", "offset_for_ref_frame_array"),
    GetUe("sps", "num_ref_frames"), Get1("sps", "gaps_in_frame_num_value_allowed_flag"),
    GetUe("sps", "pic_width_in_mbs_minus1"),
    GetUe("sps", "pic_height_in_map_units_minus1"),
    Get1("sps", "frame_mbs_only_flag"), Get1("fields", "mb_adaptive_frame_field_flag"),
    Get1("sps", "direct_8x8_inference_flag"), Get1("sps", "frame_cropping_flag"),
    GetUe("crop", "frame_crop_left_offset"), GetUe("crop", "frame_crop_right_offset"),
    GetUe("crop", "frame_crop_top_offset"), GetUe("crop", "frame_crop_bottom_offset"),
    Get1("sps", "vui_parameters_present_flag")>>

\* The loops over SchedSelIdx read three fields a round.
VuiFields ==
  <<Get1("vui", "aspect_ratio_info_present_flag"), GetN(8, "aspect", "aspect_ratio_idc"),
    GetN(16, "sar", "sar_width"), GetN(16, "sar", "sar_height"),
    Get1("vui", "overscan_info_present_flag"), Get1("overscan", "overscan_appropriate_flag"),
    Get1("vui", "video_signal_type_present_flag"), GetN(3, "signal", "video_format"),
    Get1("signal", "video_full_range_flag"),
    Get1("signal", "colour_description_present_flag"),
    GetN(8, "colour", "colour_primaries"), GetN(8, "colour", "transfer_characteristics"),
    GetN(8, "colour", "matrix_coefficients"),
    Get1("vui", "chroma_loc_info_present_flag"),
    GetUe("chroma", "chroma_sample_loc_type_top_field"),
    GetUe("chroma", "chroma_sample_loc_type_bottom_field"),
    Get1("vui", "timing_info_present_flag"), GetN(32, "timing", "num_units_in_tick"),
    GetN(32, "timing", "time_scale"), Get1("timing", "fixed_frame_rate_flag"),
    Get1("vui", "nal_hrd_parameters_present_flag"), GetUe("nal", "cpb_cnt_minus1"),
    GetN(4, "nal", "bit_rate_scale"), GetN(4, "nal", "cpb_size_scale"),
    Row("hrd", 0, "nalcpb", "bit_rate_cpb_size_cbr"),
    GetN(5, "nal", "initial_cpb_removal_delay_length_minus1"),
    GetN(5, "nal", "cpb_removal_delay_length_minus1"),
    GetN(5, "nal", "dpb_output_delay_length_minus1"), GetN(5, "nal", "time_offset_length"),
    Get1("vui", "vcl_hrd_parameters_present_flag"), GetUe("vcl", "cpb_cnt_minus1"),
    GetN(4, "vcl", "bit_rate_scale"), GetN(4, "vcl", "cpb_size_scale"),
    Row("hrd", 0, "vclcpb", "bit_rate_cpb_size_cbr"),
    GetN(5, "vcl", "initial_cpb_removal_delay_length_minus1"),
    GetN(5, "vcl", "cpb_removal_delay_length_minus1"),
    GetN(5, "vcl", "dpb_output_delay_length_minus1"), GetN(5, "vcl", "time_offset_length"),
    Get1("hrd", "low_delay_hrd_flag"), Get1("vui", "pic_struct_present_flag"),
    Get1("vui", "bitstream_restriction_flag"),
    Get1("limits", "motion_vectors_over_pic_boundaries_flag"),
    GetUe("limits", "max_bytes_per_pic_denom"), GetUe("limits", "max_bits_per_mb_denom"),
    GetUe("limits", "log2_max_mv_length_horizontal"),
    GetUe("limits", "log2_max_mv_length_vertical"),
    GetUe("limits", "num_reorder_frames"), GetUe("limits", "max_dec_frame_buffering")>>

\* "more" asks for more_rbsp_data and reads nothing.
PpsFields ==
  <<GetUe("pps", "pic_parameter_set_id"), GetUe("pps", "pps_seq_parameter_set_id"),
    Get1("pps", "entropy_coding_mode_flag"), Get1("pps", "pic_order_present_flag"),
    GetUe("pps", "num_slice_groups_minus1"), GetUe("groups", "slice_group_map_type"),
    GetUe("runs", "run_length_minus1"), GetUe("rectangles", "top_left_bottom_right"),
    Get1("change", "slice_group_change_direction_flag"),
    GetUe("change", "slice_group_change_rate_minus1"),
    GetUe("units", "pic_size_in_map_units_minus1"), Row("id", 0, "ids", "slice_group_id"),
    GetUe("pps", "num_ref_idx_10_active_minus1"),
    GetUe("pps", "num_ref_idx_11_active_minus1"),
    Get1("pps", "weighted_pred_flag"), GetN(2, "pps", "weighted_bipred_idc"),
    GetSe("pps", "pic_init_qp_minus26"), GetSe("pps", "pic_init_qs_minus26"),
    GetSe("pps", "chroma_qp_index_offset"),
    Get1("pps", "deblocking_filter_control_present_flag"),
    Get1("pps", "constrained_intra_pred_flag"),
    Get1("pps", "redundant_pic_cnt_present_flag"),
    Row("more", 0, "pps", "more_rbsp_data"), Get1("more", "transform_8x8_mode_flag"),
    Get1("more", "pic_scaling_matrix_present_flag"),
    Row("list", 1, "lists", "pic_scaling_list_present_flag"),
    GetSe("second", "second_chroma_qp_index_offset")>>

Fields == IF set = "sps" THEN SpsFields \o VuiFields ELSE PpsFields

\* The numbers that the arrays hold, of fields read more than once; one index of
\* an hrd loop takes three numbers, one of a rectangle two.
Room ==
  [offset_for_ref_frame_array |-> 16, bit_rate_cpb_size_cbr |-> 48,
   run_length_minus1 |-> 32, top_left_bottom_right |-> 64, slice_group_id |-> 32]

HasRoom(f) == f.name \in DOMAIN Room => round < Room[f.name]

NamesOf(fields) == {fields[i].name : i \in 1..Len(fields)}
Names == NamesOf(SpsFields) \cup NamesOf(VuiFields) \cup NamesOf(PpsFields)

\* Mutant: the profiles of H.264 before its extensions.
HighProfileOnly(s) == s.profile_idc \in {100, 110, 122, 144}

HighProfile(s) == s.profile_idc \in {100, 110, 122, 244, 44, 83, 86, 118, 128}

ListCount(s) == IF s.chroma_format_idc # 3 THEN 8 ELSE 12

\* How often the fields with a condition are read.
Times(s, when) ==
  LET If(x) == IF x THEN 1 ELSE 0
      map == s.num_slice_groups_minus1 > 0
  IN CASE when \in {"sps", "pps"} -> 1
       [] when = "high"     -> If(HighProfile(s))
       [] when = "planes"   -> If(HighProfile(s) /\ s.chroma_format_idc = 3)
       [] when = "matrix"   -> s.seq_scaling_matrix_present_flag * ListCount(s)
       [] when = "poc0"     -> If(s.pic_order_cnt_type = 0)
       [] when = "poc1"     -> If(s.pic_order_cnt_type = 1)
       [] when = "cycle"    -> s.num_ref_frames_in_pic_order_cnt_cycle
       [] when = "fields"   -> 1 - s.frame_mbs_only_flag
       [] when = "crop"     -> s.frame_cropping_flag
       [] when = "vui"      -> s.vui_parameters_present_flag
       [] when = "aspect"   -> s.aspect_ratio_info_present_flag
       [] when = "sar"      -> If(s.aspect_ratio_idc = 255)
       [] when = "overscan" -> s.overscan_info_present_flag
       [] when = "signal"   -> s.video_signal_type_present_flag
       [] when = "colour"   -> s.colour_description_present_flag
       [] when = "chroma"   -> s.chroma_loc_info_present_flag
       [] when = "timing"   -> s.timing_info_present_flag
       [] when = "nal"      -> s.nal_hrd_parameters_present_flag
       [] when = "nalcpb"   -> s.nal_hrd_parameters_present_flag * 3 * (s.cpb_cnt_minus1 + 1)
       [] when = "vcl"      -> s.vcl_hrd_parameters_present_flag
       [] when = "vclcpb"   -> s.vcl_hrd_parameters_present_flag * 3 * (s.cpb_cnt_minus1 + 1)
       [] when = "hrd"      -> If(\/ s.nal_hrd_parameters_present_flag = 1
                                  \/ s.vcl_hrd_parameters_present_flag = 1)
       [] when = "limits"   -> s.bitstream_restriction_flag
       [] when = "groups"   -> If(map)
       [] when = "runs"     -> If(map /\ s.slice_group_map_type = 0)
                                 * (s.num_slice_groups_minus1 + 1)
       [] when = "rectangles" -> If(map /\ s.slice_group_map_type = 2)
                                 * 2 * (s.num_slice_groups_minus1 + 1)
       [] when = "change"   -> If(map /\ s.slice_group_map_type \in 3..5)
       [] when = "units"    -> If(map /\ s.slice_group_map_type = 6)
       [] when = "ids"      -> If(map /\ s.slice_group_map_type = 6)
                                 * s.pic_size_in_map_units_minus1
       [] when = "more"     -> s.more_rbsp_data
       [] when = "lists"    -> s.pic_scaling_matrix_present_flag
                                 * (6 + 2 * s.transform_8x8_mode_flag)
       [] when = "second"   -> s.pic_scaling_matrix_present_flag

\* The next field that is read; one behind the last if there is none.
Following(s, k) ==
  CHOOSE i \in k + 1..Len(Fields) + 1 :
    /\ i <= Len(Fields) => Times(s, Fields[i].when) > 0
    /\ \A j \in k + 1..i - 1 : Times(s, Fields[j].when) <= 0

-----------------------------------------------------------------------------
(* The parser.                                                              *)

\* The bits more_rbsp_data looks at on its way back: it moves bit_pos but not
\* cur_bit_pos, so that but for the first they are not those it is at.
LookedAt(c) ==
  LET last == Total(c) - 1
  IN {8 * (last \div 8) + (c.bit_pos % 8)}
       \cup {8 * ((last - k) \div 8) + ((1 - k) % 8) : k \in 1..last - c.bit_pos - 1}

MoreRbspData(c) ==
  IF Total(c) - 1 = c.bit_pos THEN 0
  ELSE IF Total(c) = c.bit_pos \/ \E k \in LookedAt(c) : Bit(c.buf, k) = 1 THEN 1 ELSE 0

IsUe(f) == f.kind = "ue" \/ (f.kind = "hrd" /\ round % 3 # 2)

Read(f, c) ==
  CASE IsUe(f) -> ParseUe(c)
    [] f.kind = "se" -> ParseSe(c)
    [] f.kind = "u"  -> GetBits(c, f.n)
    [] f.kind = "id" -> GetBits(c, sps.pic_size_in_map_units_minus1)
    [] f.kind = "more" -> [val |-> MoreRbspData(c), ctx |-> c]
    [] OTHER         -> Get1Bit(c)

\* A code has its 1 in the data, behind at most 30 zeros: its number fits an int.
CodeInData ==
  \E k \in ctx.bit_pos..ctx.bit_pos + 30 : k < Total(ctx) /\ Bit(ctx.buf, k) = 1

\* get_bits stays in the data, and more_rbsp_data does; a flag needs a bit.
FieldInData(f) ==
  IF IsUe(f) \/ f.kind = "se" THEN CodeInData
  ELSE f.kind \in {"flag", "list", "hrd"} => ctx.bit_pos < Total(ctx)

\* The call: the structure that is filled is cleared first.
Call(which, buf) ==
  /\ stage = "idle"
  /\ stage' = "raw" /\ set' = which
  /\ ctx' = Context(buf, 0)
  /\ sps' = [name \in Names |-> 0]
  /\ field' = 1 /\ round' = 0 /\ list' = NoList

Return ==
  /\ stage \in {"done", "failed"}
  /\ stage' = "idle"
  /\ UNCHANGED <<set, ctx, sps, field, round, list>>

DeEmulate ==
  /\ stage = "raw"
  /\ stage' = "parse"
  /\ ctx' = Context(DeEmulated(ctx.buf), 0)
  /\ UNCHANGED <<set, sps, field, round, list>>

NoMemory ==
  /\ stage = "raw"
  /\ stage' = "failed"
  /\ UNCHANGED <<set, ctx, sps, field, round, list>>

ReadField ==
  /\ stage = "parse" /\ list = NoList /\ field <= Len(Fields)
  /\ FieldInData(Fields[field]) /\ HasRoom(Fields[field])
  /\ LET f == Fields[field]
         r == Read(f, ctx)
         s == [sps EXCEPT ![f.name] = r.val]
     IN /\ ctx' = r.ctx
        /\ sps' = s
        /\ list' = IF f.kind = "list" /\ r.val = 1 THEN [list EXCEPT !.i = round] ELSE list
        /\ IF round + 1 < Times(s, f.when)
             THEN round' = round + 1 /\ field' = field
             ELSE round' = 0 /\ field' = Following(s, field)
  /\ UNCHANGED <<stage, set>>

ListSize == IF list.i < 6 THEN 16 ELSE 64

\* In the 4x4 lists last_scale and next_scale are set to 8 for every element.
Scale == IF list.i < 6 THEN [last |-> 8, next |-> 8]
                       ELSE [last |-> list.last, next |-> list.next]

\* Mutant: a next_scale of 0 is taken for a scale.
ScalePlain(last, next) == next

NewScale(last, next) == IF next = 0 THEN last ELSE next

\* A next_scale of 0 ends what is read of the list.
ScaleInData == Scale.next # 0 => CodeInData

\* One element of a scaling list; after a next_scale of 0 no more are read.
ReadScale ==
  /\ stage = "parse" /\ list # NoList /\ ScaleInData
  /\ LET delta == ParseSe(ctx)
         next == IF Scale.next = 0 THEN 0 ELSE (Scale.last + delta.val + 256) % 256
     IN /\ ctx' = IF Scale.next = 0 THEN ctx ELSE delta.ctx
        /\ list' = IF list.j + 1 = ListSize THEN NoList
                   ELSE [i |-> list.i, j |-> list.j + 1, next |-> next,
                         last |-> NewScale(Scale.last, next)]
  /\ UNCHANGED <<stage, set, sps, field, round>>

\* What get_1bit reads behind the data is not known, nor what a number overwrites
\* behind its array.
LeaveData ==
  /\ stage = "parse"
  /\ IF list # NoList THEN ~ScaleInData
     ELSE /\ field <= Len(Fields)
          /\ ~FieldInData(Fields[field]) \/ ~HasRoom(Fields[field])
  /\ stage' = "lost"
  /\ UNCHANGED <<set, ctx, sps, field, round, list>>

Finish ==
  /\ stage = "parse" /\ list = NoList /\ field > Len(Fields)
  /\ stage' = "done"
  /\ UNCHANGED <<set, ctx, sps, field, round, list>>

ParserInit ==
  /\ stage = "idle" /\ set = "sps"
  /\ ctx = Context(<< >>, 0)
  /\ sps = [name \in Names |-> 0]
  /\ field = 1 /\ round = 0 /\ list = NoList

\* All but the call and the return.
ParserStep ==
  DeEmulate \/ NoMemory \/ ReadField \/ ReadScale \/ LeaveData \/ Finish

-----------------------------------------------------------------------------
(* What main() asks for.                                                    *)

GetWidth ==
  LET w == sps.pic_width_in_mbs_minus1
  IN IF w = 0 THEN 0 ELSE (w + 1) * 16

\* Mutant: fields are counted as frames.
GetHeightOfFrame == (sps.pic_height_in_map_units_minus1 + 1) * 16

GetHeight ==
  LET h == sps.pic_height_in_map_units_minus1
  IN IF h = 0 THEN 0 ELSE (h + 1) * 16 * (2 - sps.frame_mbs_only_flag)

\* There is none to ask for if num_units_in_tick is 0: the division ends the program.
GetFramerate ==
  IF sps.timing_info_present_flag = 1
    THEN (sps.time_scale \div sps.num_units_in_tick) \div 2
    ELSE 0

-----------------------------------------------------------------------------
\* The parser is in its table, in the data and in the loops of a field.
ParserTypeOK ==
  /\ stage \in {"idle", "raw", "parse", "done", "failed", "lost"}
  /\ set \in {"sps", "pps"} /\ sps \in [Names -> Int]
  /\ field \in 1..Len(Fields) + 1 /\ round \in Nat
  /\ stage = "parse" /\ field <= Len(Fields) => round < Times(sps, Fields[field].when)
  /\ list.i \in -1..11 /\ list.j \in 0..63 /\ list.last \in 1..255
  /\ list.next \in 0..255
  /\ ctx.bit_pos \in 0..Total(ctx)
=============================================================================
