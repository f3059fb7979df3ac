----------------------------- MODULE H264Syntax -----------------------------
(***************************************************************************)
(* The syntax tables of h264_stream.cpp.  Its read_x and write_x functions *)
(* go through the elements of a structure in the same way, so a structure  *)
(* has one table; the writers' tables are given where they differ.         *)
(*                                                                         *)
(* A structure is a function from the names of the elements that were      *)
(* given a value to these values; memset makes the others 0.  A name is a  *)
(* tuple: the field and its indexes.  A table is a sequence of parts, each *)
(* a sequence of elements <<name, kind, n, flag>>, present when `flag' is  *)
(* <<>> or names an element that is not 0.  The parts depend on the        *)
(* structure: part k on what the parts before it have read.                *)
(***************************************************************************)
EXTENDS Integers, Sequences, SequencesExt

ValAt(v, name) == IF name \in DOMAIN v THEN v[name] ELSE 0
Val(v, field) == ValAt(v, <<field>>)

When(condition, elements) == IF condition THEN elements ELSE <<>>

\* Elements of one kind, present if the flag is set; then those whose fields
\* have no index.
IfAt(flag, kind, n, names) == [i \in DOMAIN names |-> <<names[i], kind, n, flag>>]
All(kind, n, names) == IfAt(<<>>, kind, n, names)

Fields(names) == [i \in DOMAIN names |-> <<names[i]>>]
If(flag, kind, n, fields) == IfAt(<<flag>>, kind, n, Fields(fields))
u(n, fields) == All("u", n, Fields(fields))
ue(fields) == All("ue", 0, Fields(fields))
se(fields) == All("se", 0, Fields(fields))
Flags(fields) == u(1, fields)
FlagAt(name) == All("u", 1, <<name>>)

\* elements(lo) \o ... \o elements(hi), nothing if hi < lo.
Each(lo, hi, elements(_)) ==
    FlattenSeq([i \in 1..(IF hi < lo THEN 0 ELSE hi - lo + 1) |-> elements(lo + i - 1)])

intlog2(x) == CHOOSE n \in 0..31 : 2^n >= x /\ (n = 0 \/ 2^(n - 1) < x)

is_slice_type(slice_type, cmp_type) ==
    (IF slice_type >= 5 THEN slice_type - 5 ELSE slice_type) = cmp_type
IsP(v) == is_slice_type(Val(v, "slice_type"), 0)
IsB(v) == is_slice_type(Val(v, "slice_type"), 1)
IsI(v) == is_slice_type(Val(v, "slice_type"), 2)
IsSP(v) == is_slice_type(Val(v, "slice_type"), 3)
IsSI(v) == is_slice_type(Val(v, "slice_type"), 4)

-----------------------------------------------------------------------------
(* Sequence parameter set                                                   *)

HighProfile(v) == Val(v, "profile_idc") \in {100, 110, 122, 144}

\* sps_t has one int for each scaling list and one for each flag, and the
\* lists are read into them as if they were arrays: they lie over each other
\* and over the flags.  Cell 0 is ScalingList4x4[0], cell 6 the first
\* UseDefaultScalingMatrix4x4Flag, cell 12 ScalingList8x8[0], cell 14 its
\* flag, and cell -8 the first of the eight seq_scaling_list_present_flag.
ScalingLists(count) ==
    Each(0, count - 1, LAMBDA i :
        FlagAt(<<"cell", i - 8>>)
            \o << IF i < 6 THEN << <<"cell", i>>, "list", 16, <<"cell", i - 8>> >>
                           ELSE << <<"cell", i + 6>>, "list", 64, <<"cell", i - 8>> >> >>)

hrd_parameters(v) ==
    << ue(<<"cpb_cnt_minus1">>) \o u(4, <<"bit_rate_scale", "cpb_size_scale">>),
       Each(0, Val(v, "cpb_cnt_minus1"), LAMBDA i :
            All("ue", 0, << <<"bit_rate_value_minus1", i>>, <<"cpb_size_value_minus1", i>> >>)
                \o FlagAt(<<"cbr_flag", i>>))
         \o u(5, <<"initial_cpb_removal_delay_length_minus1",
                   "cpb_removal_delay_length_minus1",
                   "dpb_output_delay_length_minus1", "time_offset_length">>) >>

Unless(condition, parts) == [k \in DOMAIN parts |-> When(~condition, parts[k])]

vui_parameters(v) ==
    << Flags(<<"aspect_ratio_info_present_flag">>)
         \o If("aspect_ratio_info_present_flag", "u", 8, <<"aspect_ratio_idc">>),
       When(Val(v, "aspect_ratio_idc") = 255, u(16, <<"sar_width", "sar_height">>))
         \o Flags(<<"overscan_info_present_flag">>)
         \o If("overscan_info_present_flag", "u", 1, <<"overscan_appropriate_flag">>)
         \o Flags(<<"video_signal_type_present_flag">>)
         \o If("video_signal_type_present_flag", "u", 3, <<"video_format">>)
         \o If("video_signal_type_present_flag", "u", 1,
               <<"video_full_range_flag", "colour_description_present_flag">>)
         \o If("colour_description_present_flag", "u", 8,
               <<"colour_primaries", "transfer_characteristics", "matrix_coefficients">>)
         \o Flags(<<"chroma_loc_info_present_flag">>)
         \o If("chroma_loc_info_present_flag", "ue", 0,
               <<"chroma_sample_loc_type_top_field", "chroma_sample_loc_type_bottom_field">>)
         \o Flags(<<"timing_info_present_flag">>)
         \o If("timing_info_present_flag", "u", 32, <<"num_units_in_tick", "time_scale">>)
         \o If("timing_info_present_flag", "u", 1, <<"fixed_frame_rate_flag">>)
         \o Flags(<<"nal_hrd_parameters_present_flag">>) >>
    \o Unless(Val(v, "nal_hrd_parameters_present_flag") = 0, hrd_parameters(v))
    \o << Flags(<<"vcl_hrd_parameters_present_flag">>) >>
    \* The second set of HRD parameters is read over the first.
    \o Unless(Val(v, "vcl_hrd_parameters_present_flag") = 0, hrd_parameters(v))
    \o << When(Val(v, "nal_hrd_parameters_present_flag") = 1
                  \/ Val(v, "vcl_hrd_parameters_present_flag") = 1,
               Flags(<<"low_delay_hrd_flag">>))
            \o Flags(<<"pic_struct_present_flag", "bitstream_restriction_flag">>)
            \o If("bitstream_restriction_flag", "u", 1,
                  <<"motion_vectors_over_pic_boundaries_flag">>)
            \o If("bitstream_restriction_flag", "ue", 0,
                  <<"max_bytes_per_pic_denom", "max_bits_per_mb_denom",
                    "log2_max_mv_length_horizontal", "log2_max_mv_length_vertical",
                    "num_reorder_frames", "max_dec_frame_buffering">>) >>

\* `lists' is the number of scaling lists.
SpsTable(v, lists) ==
    << u(8, <<"profile_idc">>)
         \o Flags(<<"constraint_set0_flag", "constraint_set1_flag", "constraint_set2_flag",
                    "constraint_set3_flag", "constraint_set4_flag", "constraint_set5_flag">>)
         \o u(2, <<"reserved_zero_2bits">>) \o u(8, <<"level_idc">>)
         \o ue(<<"seq_parameter_set_id">>),
       When(HighProfile(v), ue(<<"chroma_format_idc">>)),
       When(HighProfile(v),
            When(Val(v, "chroma_format_idc") = 3, Flags(<<"separate_colour_plane_flag">>))
              \o ue(<<"bit_depth_luma_minus8", "bit_depth_chroma_minus8">>)
              \o Flags(<<"qpprime_y_zero_transform_bypass_flag",
                         "seq_scaling_matrix_present_flag">>)),
       When(Val(v, "seq_scaling_matrix_present_flag") = 1, ScalingLists(lists))
         \o ue(<<"log2_max_frame_num_minus4", "pic_order_cnt_type">>),
       CASE Val(v, "pic_order_cnt_type") = 0 -> ue(<<"log2_max_pic_order_cnt_lsb_minus4">>)
         [] Val(v, "pic_order_cnt_type") = 1 ->
                Flags(<<"delta_pic_order_always_zero_flag">>)
                  \o se(<<"offset_for_non_ref_pic", "offset_for_top_to_bottom_field">>)
                  \o ue(<<"num_ref_frames_in_pic_order_cnt_cycle">>)
         [] OTHER -> <<>>,
       When(Val(v, "pic_order_cnt_type") = 1,
            Each(0, Val(v, "num_ref_frames_in_pic_order_cnt_cycle") - 1, LAMBDA i :
                 All("se", 0, << <<"offset_for_ref_frame", i>> >>)))
         \o ue(<<"max_num_ref_frames">>)
         \o Flags(<<"gaps_in_frame_num_value_allowed_flag">>)
         \o ue(<<"pic_width_in_mbs_minus1", "pic_height_in_map_units_minus1">>)
         \o Flags(<<"frame_mbs_only_flag">>),
       When(Val(v, "frame_mbs_only_flag") = 0, Flags(<<"mb_adaptive_frame_field_flag">>))
         \o Flags(<<"direct_8x8_inference_flag", "frame_cropping_flag">>)
         \o If("frame_cropping_flag", "ue", 0,
               <<"frame_crop_left_offset", "frame_crop_right_offset",
                 "frame_crop_top_offset", "frame_crop_bottom_offset">>)
         \o Flags(<<"vui_parameters_present_flag">>) >>
    \o Unless(Val(v, "vui_parameters_present_flag") = 0, vui_parameters(v))

read_sps(v) == SpsTable(v, IF Val(v, "chroma_format_idc") # 3 THEN 8 ELSE 12)

\* The writer stops after eight lists, whatever the chroma format.
write_sps(v) == SpsTable(v, 8)

\* What read_seq_parameter_set_rbsp leaves in h->info: the picture's size
\* behind cropping, and what is copied.
SpsInfo(v) ==
    LET fields == 2 - Val(v, "frame_mbs_only_flag")
        chroma == Val(v, "chroma_format_idc")
        unitX == IF chroma \in {1, 2} THEN 2 ELSE 1
        unitY == IF chroma = 1 THEN 2 * fields ELSE fields
        cropped == Val(v, "frame_cropping_flag")
    IN [width |-> (Val(v, "pic_width_in_mbs_minus1") + 1) * 16
            - cropped * unitX * (Val(v, "frame_crop_left_offset")
                                    + Val(v, "frame_crop_right_offset")),
        height |-> fields * (Val(v, "pic_height_in_map_units_minus1") + 1) * 16
            - cropped * unitY * (Val(v, "frame_crop_top_offset")
                                    + Val(v, "frame_crop_bottom_offset")),
        bit_depth_luma |-> Val(v, "bit_depth_luma_minus8") + 8,
        bit_depth_chroma |-> Val(v, "bit_depth_chroma_minus8") + 8,
        profile_idc |-> Val(v, "profile_idc"), level_idc |-> Val(v, "level_idc"),
        chroma_format_idc |-> chroma]

-----------------------------------------------------------------------------
(* Picture parameter set                                                    *)

\* more_rbsp_data_in_pps: the extension is taken to be there unless h->sps,
\* the sequence parameter set used last, is of a constrained lower profile.
more_rbsp_data_in_pps(sps) ==
    ~ /\ Val(sps, "profile_idc") \in {66, 77, 88}
      /\ \E flag \in {"constraint_set0_flag", "constraint_set1_flag", "constraint_set2_flag"} :
            Val(sps, flag) = 1

slice_groups(v) ==
    LET last == Val(v, "num_slice_groups_minus1")
        type == Val(v, "slice_group_map_type")
    IN CASE last = 0 -> <<>>
         [] type = 0 -> All("ue", 0, [i \in 1..(last + 1) |-> <<"run_length_minus1", i - 1>>])
         [] type = 2 -> Each(0, last - 1, LAMBDA i :
                            All("ue", 0, << <<"top_left", i>>, <<"bottom_right", i>> >>))
         [] type \in 3..5 -> Flags(<<"slice_group_change_direction_flag">>)
                                \o ue(<<"slice_group_change_rate_minus1">>)
         [] type = 6 -> ue(<<"pic_size_in_map_units_minus1">>)
         [] OTHER -> <<>>

\* pic_order is the name of the element the source reads or writes; `more'
\* whether the extension is there.  pps_t has no memory for scaling lists: a
\* list whose flag is set is not read at all.
PpsTable(v, pic_order, more) ==
    << ue(<<"pic_parameter_set_id", "seq_parameter_set_id">>)
         \o Flags(<<"entropy_coding_mode_flag", pic_order>>)
         \o ue(<<"num_slice_groups_minus1">>),
       When(Val(v, "num_slice_groups_minus1") > 0, ue(<<"slice_group_map_type">>)),
       slice_groups(v),
       When(Val(v, "slice_group_map_type") = 6,
            All("u", intlog2(Val(v, "num_slice_groups_minus1") + 1),
              [i \in 1..(Val(v, "pic_size_in_map_units_minus1") + 1) |->
                    <<"slice_group_id", i - 1>>]))
         \o ue(<<"num_ref_idx_l0_active_minus1", "num_ref_idx_l1_active_minus1">>)
         \o Flags(<<"weighted_pred_flag">>) \o u(2, <<"weighted_bipred_idc">>)
         \o se(<<"pic_init_qp_minus26", "pic_init_qs_minus26", "chroma_qp_index_offset">>)
         \o Flags(<<"deblocking_filter_control_present_flag", "constrained_intra_pred_flag",
                    "redundant_pic_cnt_present_flag">>)
         \o When(more, Flags(<<"transform_8x8_mode_flag", "pic_scaling_matrix_present_flag">>)),
       When(Val(v, "pic_scaling_matrix_present_flag") = 1,
            All("u", 1, [i \in 1..(6 + 2 * Val(v, "transform_8x8_mode_flag")) |->
                    <<"pic_scaling_list_present_flag", i - 1>>]))
         \o When(more, se(<<"second_chroma_qp_index_offset">>)) >>

read_pps(v, sps) ==
    PpsTable(v, "bottom_field_pic_order_in_frame_present_flag", more_rbsp_data_in_pps(sps))

\* The writer has the element's name of the standard of 2005.
write_pps(v) ==
    PpsTable(v, "pic_order_present_flag", Val(v, "_more_rbsp_data_present") = 1)

-----------------------------------------------------------------------------
(* Slice header                                                             *)

pwt_entries(count, list, chroma) ==
    Each(0, count - 1, LAMBDA i :
        FlagAt(<<"luma_weight_flag", list, i>>)
          \o IfAt(<<"luma_weight_flag", list, i>>, "se", 0,
                << <<"luma_weight", list, i>>, <<"luma_offset", list, i>> >>)
          \o When(chroma, FlagAt(<<"chroma_weight_flag", list, i>>)
               \o IfAt(<<"chroma_weight_flag", list, i>>, "se", 0,
                     << <<"chroma_weight", list, i, 0>>, <<"chroma_offset", list, i, 0>>,
                        <<"chroma_weight", list, i, 1>>, <<"chroma_offset", list, i, 1>> >>)))

\* `counts' has num_ref_idx_l0_active_minus1 and _l1_: the reader takes the
\* slice header's, the writer those of the picture parameter set.
pred_weight_table(v, counts, chroma) ==
    ue(<<"luma_log2_weight_denom">>)
      \o When(chroma, ue(<<"chroma_log2_weight_denom">>))
      \o pwt_entries(Val(counts, "num_ref_idx_l0_active_minus1") + 1, 0, chroma)
      \o When(IsB(v), pwt_entries(Val(counts, "num_ref_idx_l1_active_minus1") + 1, 1, chroma))

Weighted(v, pps) ==
    \/ Val(pps, "weighted_pred_flag") = 1 /\ (IsP(v) \/ IsSP(v))
    \/ Val(pps, "weighted_bipred_idc") = 1 /\ IsB(v)

\* read_ref_pic_list_modification and read_dec_ref_pic_marking: lists of
\* commands, each up to the one that ends its list.
ref_pic_list_modification(v) ==
    When(~IsI(v) /\ ~IsSI(v),
         FlagAt(<<"ref_pic_list_modification_flag", 0>>)
           \o << << <<"rplm", 0>>, "commands", 0, <<"ref_pic_list_modification_flag", 0>> >> >>)
      \o When(IsB(v),
         FlagAt(<<"ref_pic_list_modification_flag", 1>>)
           \o << << <<"rplm", 1>>, "commands", 0, <<"ref_pic_list_modification_flag", 1>> >> >>)

dec_ref_pic_marking(nal) ==
    IF nal.nal_unit_type = 5
    THEN Flags(<<"no_output_of_prior_pics_flag", "long_term_reference_flag">>)
    ELSE Flags(<<"adaptive_ref_pic_marking_mode_flag">>)
           \o << << <<"drpm">>, "commands", 0, <<"adaptive_ref_pic_marking_mode_flag">> >> >>

\* The operands of a command, and whether it ends its list.
Operands(list, command) ==
    IF list = "drpm"
    THEN CASE command \in {1, 2, 4, 6} -> 1 [] command = 3 -> 2 [] OTHER -> 0
    ELSE IF command \in {0, 1, 2} THEN 1 ELSE 0
EndsList(list, command) == command = (IF list = "drpm" THEN 0 ELSE 3)

\* What the reader and the writer of the header share: `pic_order' as above,
\* `lists' are the elements between num_ref_idx and cabac_init_idc.
SliceTable(v, nal, sps, pps, colour, pic_order, lists) ==
    << ue(<<"first_mb_in_slice", "slice_type", "pic_parameter_set_id">>),
       When(colour, u(2, <<"colour_plane_id">>))
         \o u(Val(sps, "log2_max_frame_num_minus4") + 4, <<"frame_num">>)
         \o When(Val(sps, "frame_mbs_only_flag") = 0,
                 Flags(<<"field_pic_flag">>) \o If("field_pic_flag", "u", 1, <<"bottom_field_flag">>))
         \o When(nal.nal_unit_type = 5, ue(<<"idr_pic_id">>)),
       When(Val(sps, "pic_order_cnt_type") = 0,
            u(Val(sps, "log2_max_pic_order_cnt_lsb_minus4") + 4, <<"pic_order_cnt_lsb">>)
              \o When(pic_order /\ Val(v, "field_pic_flag") = 0,
                      se(<<"delta_pic_order_cnt_bottom">>)))
         \o When(Val(sps, "pic_order_cnt_type") = 1
                    /\ Val(sps, "delta_pic_order_always_zero_flag") = 0,
            All("se", 0, << <<"delta_pic_order_cnt", 0>> >>)
              \o When(pic_order /\ Val(v, "field_pic_flag") = 0,
                      All("se", 0, << <<"delta_pic_order_cnt", 1>> >>)))
         \o When(Val(pps, "redundant_pic_cnt_present_flag") = 1, ue(<<"redundant_pic_cnt">>))
         \o When(IsB(v), Flags(<<"direct_spatial_mv_pred_flag">>))
         \o When(IsP(v) \/ IsSP(v) \/ IsB(v),
            Flags(<<"num_ref_idx_active_override_flag">>)
              \o If("num_ref_idx_active_override_flag", "ue", 0, <<"num_ref_idx_l0_active_minus1">>)
              \o When(IsB(v), If("num_ref_idx_active_override_flag", "ue", 0,
                                 <<"num_ref_idx_l1_active_minus1">>))),
       lists,
       When(Val(pps, "entropy_coding_mode_flag") = 1 /\ ~IsI(v) /\ ~IsSI(v),
            ue(<<"cabac_init_idc">>))
         \o se(<<"slice_qp_delta">>)
         \o When(IsSP(v), Flags(<<"sp_for_switch_flag">>))
         \o When(IsSP(v) \/ IsSI(v), se(<<"slice_qs_delta">>))
         \o When(Val(pps, "deblocking_filter_control_present_flag") = 1,
                 ue(<<"disable_deblocking_filter_idc">>)),
       When(Val(pps, "deblocking_filter_control_present_flag") = 1
                /\ Val(v, "disable_deblocking_filter_idc") # 1,
            se(<<"slice_alpha_c0_offset_div2", "slice_beta_offset_div2">>))
         \o When(Val(pps, "num_slice_groups_minus1") > 0
                    /\ Val(pps, "slice_group_map_type") \in 3..5,
            u(intlog2(Val(pps, "pic_size_in_map_units_minus1")
                        + Val(pps, "slice_group_change_rate_minus1") + 1),
              <<"slice_group_change_cycle">>)) >>

\* ChromaArrayType is set for the high profiles only; elsewhere it stays 0.
ChromaArrayType(sps) ==
    IF HighProfile(sps) /\ Val(sps, "separate_colour_plane_flag") = 0
    THEN Val(sps, "chroma_format_idc") ELSE 0

\* With read_slice_type set, as the NAL scanner does, the reader returns
\* behind the slice type.
read_slice_header(v, nal, sps, pps, read_slice_type) ==
    IF read_slice_type THEN << ue(<<"first_mb_in_slice", "slice_type">>) >>
    ELSE SliceTable(v, nal, sps, pps, Val(sps, "separate_colour_plane_flag") = 1,
            Val(pps, "bottom_field_pic_order_in_frame_present_flag") = 1,
            When(nal.nal_unit_type \notin {20, 21}, ref_pic_list_modification(v))
              \o When(Weighted(v, pps), pred_weight_table(v, v, ChromaArrayType(sps) # 0))
              \o When(nal.nal_ref_idc # 0, dec_ref_pic_marking(nal)))

\* The writer leaves out the colour plane, and the bodies of its functions
\* for list modification and picture marking are switched off.
write_slice_header(v, nal, sps, pps) ==
    SliceTable(v, nal, sps, pps, FALSE, Val(pps, "pic_order_present_flag") = 1,
        When(Weighted(v, pps), pred_weight_table(v, pps, Val(sps, "chroma_format_idc") # 0)))

read_aud == << u(3, <<"primary_pic_type">>) >>
=============================================================================
