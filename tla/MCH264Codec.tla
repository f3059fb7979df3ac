----------------------------- MODULE MCH264Codec -----------------------------
EXTENDS H264Codec

Nal(ref, type) ==
    [forbidden_zero_bit |-> 0, nal_ref_idc |-> ref, nal_unit_type |-> type]

\* A structure from a record of its fields without indexes.
V(fields) == [name \in {<<f>> : f \in DOMAIN fields} |-> fields[name[1]]]

\* Constrained baseline, progressive, QCIF, with a tick that has to be escaped.
Baseline == V([profile_idc |-> 66, constraint_set0_flag |-> 1, level_idc |-> 20,
    pic_width_in_mbs_minus1 |-> 10, pic_height_in_map_units_minus1 |-> 8,
    frame_mbs_only_flag |-> 1, max_num_ref_frames |-> 1, log2_max_frame_num_minus4 |-> 1,
    vui_parameters_present_flag |-> 1, timing_info_present_flag |-> 1,
    num_units_in_tick |-> 1, time_scale |-> 50])

\* Main, interlaced, the other kind of picture order count, under the same number.
Main == V([profile_idc |-> 77, level_idc |-> 30, pic_order_cnt_type |-> 1,
    offset_for_non_ref_pic |-> -2, num_ref_frames_in_pic_order_cnt_cycle |-> 2,
    pic_width_in_mbs_minus1 |-> 44, pic_height_in_map_units_minus1 |-> 17,
    frame_cropping_flag |-> 1, frame_crop_bottom_offset |-> 3, max_num_ref_frames |-> 4])
        @@ << "offset_for_ref_frame", 0 >> :> 3 @@ << "offset_for_ref_frame", 1 >> :> -4

\* High, with HRD parameters; and the same with a scaling list.
High == V([profile_idc |-> 100, level_idc |-> 40, seq_parameter_set_id |-> 1,
    chroma_format_idc |-> 1, bit_depth_luma_minus8 |-> 2, frame_mbs_only_flag |-> 1,
    pic_width_in_mbs_minus1 |-> 119, pic_height_in_map_units_minus1 |-> 67,
    vui_parameters_present_flag |-> 1, aspect_ratio_info_present_flag |-> 1,
    aspect_ratio_idc |-> 255, sar_width |-> 4, sar_height |-> 3,
    nal_hrd_parameters_present_flag |-> 1, bit_rate_scale |-> 5, low_delay_hrd_flag |-> 1,
    bitstream_restriction_flag |-> 1, num_reorder_frames |-> 2])
        @@ << "bit_rate_value_minus1", 0 >> :> 1249 @@ << "cbr_flag", 0 >> :> 1
Scaled == (<<"seq_scaling_matrix_present_flag">> :> 1) @@ (<<"cell", -8>> :> 1)
              @@ [name \in {<<"cell", j>> : j \in 0..15} |-> 16 + name[2]] @@ High

PpsLow == V([entropy_coding_mode_flag |-> 0, deblocking_filter_control_present_flag |-> 1,
    num_ref_idx_l0_active_minus1 |-> 1, pic_init_qp_minus26 |-> -3])
PpsGroups == V([pic_parameter_set_id |-> 1, num_slice_groups_minus1 |-> 2,
    slice_group_map_type |-> 2, pic_order_present_flag |-> 1,
    bottom_field_pic_order_in_frame_present_flag |-> 1, weighted_pred_flag |-> 1])
        @@ << "top_left", 0 >> :> 1 @@ << "bottom_right", 0 >> :> 13
PpsHigh == V([pic_parameter_set_id |-> 2, seq_parameter_set_id |-> 1,
    entropy_coding_mode_flag |-> 1, weighted_bipred_idc |-> 1,
    _more_rbsp_data_present |-> 1, transform_8x8_mode_flag |-> 1,
    second_chroma_qp_index_offset |-> -2])

Slice(type, pps) == V([slice_type |-> type, pic_parameter_set_id |-> pps, frame_num |-> 5,
    delta_pic_order_cnt_bottom |-> 2, pic_order_cnt_lsb |-> 6, slice_qp_delta |-> -1,
    slice_alpha_c0_offset_div2 |-> 1, luma_log2_weight_denom |-> 3])
        @@ << "luma_weight_flag", 0, 0 >> :> 1 @@ << "luma_weight", 0, 0 >> :> 7

UserData == << [payloadType |-> 5, payloadSize |-> 16, payload |-> [i \in 1..16 |-> IF i % 3 = 0 THEN 3 ELSE 0]] >>

MCUnits ==
    {[nal |-> Nal(3, 7), v |-> v] : v \in {Baseline, Main, High, Scaled}}
        \cup {[nal |-> Nal(3, 8), v |-> v] : v \in {PpsLow, PpsGroups, PpsHigh}}
        \cup {[nal |-> Nal(0, 1), v |-> Slice(t, p)] : t \in {0, 2, 6}, p \in 0..2}
        \cup {[nal |-> Nal(3, 5), v |-> Slice(7, 0)],
              [nal |-> Nal(0, 6), v |-> UserData],
              [nal |-> Nal(0, 9), v |-> V([primary_pic_type |-> 2])]}
=============================================================================
