------------------------------- MODULE H264Nal -------------------------------
(***************************************************************************)
(* h264_stream.cpp and h264_sei.cpp: NAL units to RBSP and back, and the   *)
(* stream object that reading them fills.  A stream object h has the       *)
(* tables of parameter sets, the numbers of the ones in use (h->sps and    *)
(* h->pps), the header of the last unit, the last slice header, delimiter  *)
(* and SEI messages, and the summary h->info.  Numbers of parameter sets   *)
(* are within the tables.                                                  *)
(***************************************************************************)
EXTENDS BitStream, H264Syntax, TLC

Entry(table, id) == IF id \in DOMAIN table THEN table[id] ELSE <<>>

h264_new ==
    [sps_table |-> <<>>, pps_table |-> <<>>, sps |-> 0, pps |-> 0,
     nal |-> [forbidden_zero_bit |-> 0, nal_ref_idc |-> 0, nal_unit_type |-> 0],
     sh |-> <<>>, aud |-> <<>>, seis |-> <<>>, info |-> <<>>, rc |-> 0]

-----------------------------------------------------------------------------
(* Emulation prevention                                                     *)

\* nal_to_rbsp behind the header byte: the bytes or `failed'.  A 3 at the end
\* stops the loop and counts as not read.
nal_to_rbsp(nal) ==
    LET last == Len(nal)
        \* count is the number of zeros just copied; stop ends the loop.
        take(s, i) ==
            LET byte == nal[i]
            IN IF s.stop \/ s.failed THEN s
               ELSE IF s.count = 2 /\ (byte < 3 \/ (byte = 3 /\ i < last /\ nal[i + 1] > 3))
                    THEN [s EXCEPT !.failed = TRUE]
               ELSE IF s.count = 2 /\ byte = 3
                    THEN [s EXCEPT !.stop = (i = last), !.count = 0]
               ELSE [s EXCEPT !.rbsp = Append(@, byte),
                              !.count = IF byte = 0 THEN @ + 1 ELSE 0]
    IN FoldLeft(take, [rbsp |-> <<>>, count |-> 0, stop |-> FALSE, failed |-> FALSE],
                [k \in 1..(IF last = 0 THEN 0 ELSE last - 1) |-> k + 1])

\* rbsp_to_nal into a buffer of `size' bytes: it begins by clearing the first
\* byte.  `failed' when the buffer is full; the room is looked at once for
\* every byte of the RBSP, also when that byte takes two.
Escaping(rbsp, size, limit) ==
    LET put(s, byte) ==
            IF s.failed \/ Len(s.nal) >= size THEN [s EXCEPT !.failed = TRUE]
            ELSE LET escaped == s.count = 2 /\ byte < limit
                 IN [s EXCEPT
                        !.nal = @ \o (IF escaped THEN <<3, byte>> ELSE <<byte>>),
                        !.count = IF byte # 0 THEN 0 ELSE IF escaped THEN 1 ELSE @ + 1]
    IN FoldLeft(put, [nal |-> <<0>>, count |-> 0, failed |-> FALSE], rbsp)

rbsp_to_nal_three_plain(rbsp, size) == Escaping(rbsp, size, 3)
rbsp_to_nal(rbsp, size) == Escaping(rbsp, size, 4)

-----------------------------------------------------------------------------
(* Reading by table                                                         *)

\* read_scaling_list: into the cells from `base' on.
RECURSIVE read_scaling_list(_, _, _, _, _, _)
read_scaling_list(s, base, j, size, lastScale, nextScale) ==
    IF j = size THEN s
    ELSE LET next == IF nextScale = 0 THEN 0
                     ELSE (lastScale + bs_read(s.b, "se", 0) + 256) % 256
             scale == IF next = 0 THEN lastScale ELSE next
         IN read_scaling_list(
                [v |-> (<<"cell", base + j>> :> scale) @@ s.v,
                 b |-> IF nextScale = 0 THEN s.b ELSE bs_behind(s.b, "se", 0)],
                base, j + 1, size, scale, next)

\* The loops over commands in read_ref_pic_list_modification and
\* read_dec_ref_pic_marking.
RECURSIVE read_commands(_, _, _)
read_commands(b, list, commands) ==
    LET command == ue_value(b)
        b1 == bs_behind(b, "ue", 0)
        b2 == bs_behind(b1, "ue", 0)
        operands == Operands(list, command)
        entry == <<command>>
                    \o When(operands > 0, <<ue_value(b1)>>)
                    \o When(operands > 1, <<ue_value(b2)>>)
        rest == CASE operands = 0 -> b1 [] operands = 1 -> b2
                  [] OTHER -> bs_behind(b2, "ue", 0)
    IN IF EndsList(list, command) \/ bs_eof(rest)
       THEN [commands |-> Append(commands, entry), b |-> rest]
       ELSE read_commands(rest, list, Append(commands, entry))

read_element(s, e) ==
    LET name == e[1]
    IN IF e[4] # <<>> /\ ValAt(s.v, e[4]) = 0 THEN s
       ELSE CASE e[2] = "list" -> read_scaling_list(s, name[2], 0, e[3], 8, 8)
              [] e[2] = "commands" ->
                    LET read == read_commands(s.b, name[1], <<>>)
                    IN [v |-> (name :> read.commands) @@ s.v, b |-> read.b]
              [] OTHER -> [v |-> (name :> bs_read(s.b, e[2], e[3])) @@ s.v,
                           b |-> bs_behind(s.b, e[2], e[3])]

\* The tables the readers follow; the slice header picks its parameter sets
\* by the number it has read; the first form of the pick takes the sets in use.
SetsInUse(h, v) == [sps |-> h.sps, pps |-> h.pps]
SetsNamed(h, v) ==
    LET pps == Val(v, "pic_parameter_set_id")
    IN [sps |-> Val(Entry(h.pps_table, pps), "seq_parameter_set_id"), pps |-> pps]

ReadTable(what, h, v) ==
    LET pps == Entry(h.pps_table, SetsNamed(h, v).pps)
        sps == Entry(h.sps_table, SetsNamed(h, v).sps)
    IN CASE what = "sps" -> read_sps(v)
         [] what = "pps" -> read_pps(v, Entry(h.sps_table, h.sps))
         [] what = "aud" -> read_aud
         [] what = "slice" -> read_slice_header(v, h.nal, sps, pps, FALSE)
         [] what = "slice_type" -> read_slice_header(v, h.nal, sps, pps, TRUE)

RECURSIVE read_parts(_, _, _, _)
read_parts(what, h, k, s) ==
    LET from(table) == IF k > Len(table) THEN s
                       ELSE read_parts(what, h, k + 1, FoldLeft(read_element, s, table[k]))
    IN from(ReadTable(what, h, s.v))

read_rbsp_trailing_bits(b) == [b EXCEPT !.pos = 8 * (@ \div 8 + 1)]

\* Reads the rest in pairs of bytes if the picture parameter set in use asks
\* for CABAC: an odd rest leaves the cursor behind the end.
read_rbsp_slice_trailing_bits(h, b) ==
    LET behind == read_rbsp_trailing_bits(b)
        left == Len(b.bits) - behind.pos
    IN IF Val(Entry(h.pps_table, h.pps), "entropy_coding_mode_flag") = 1 /\ left > 0
       THEN [behind EXCEPT !.pos = @ + 16 * ((left + 15) \div 16)]
       ELSE behind

-----------------------------------------------------------------------------
(* Supplemental enhancement information                                     *)

RECURSIVE read_ff_coded_number(_, _)
read_ff_coded_number(b, sum) ==
    LET byte == bs_next_bits(b, 8)
    IN IF byte = 255 THEN read_ff_coded_number(bs_skip_u(b, 8), sum + 255)
       ELSE [value |-> sum + byte, b |-> bs_skip_u(b, 8)]

RECURSIVE write_ff_coded_number(_)
write_ff_coded_number(n) ==
    IF n > 255 THEN <<255>> \o write_ff_coded_number(n - 255) ELSE <<n>>

\* more_rbsp_data: a byte that begins with a one counts as the stop bit.
more_rbsp_data(b) == ~bs_eof(b) /\ bs_peek_u1(b) = 0

\* read_sei_message: only user data is read, 16 bytes at least, and nothing
\* is skipped for the other types; trailing bits are read behind each
\* message (read_sei_end_bits), and once more at the end (read_sei_rbsp).
RECURSIVE read_sei_messages(_, _)
read_sei_messages(b, seis) ==
    LET type == read_ff_coded_number(b, 0)
        size == read_ff_coded_number(type.b, 0)
        read == IF type.value # 5 THEN 0 ELSE IF size.value < 16 THEN 16 ELSE size.value
        message == [payloadType |-> type.value, payloadSize |-> size.value,
                    payload |-> [i \in 1..(IF size.value < read THEN size.value ELSE read) |->
                                    bs_next_bits(bs_skip_u(size.b, 8 * (i - 1)), 8)]]
        behind == read_rbsp_trailing_bits(bs_skip_u(size.b, 8 * read))
    IN IF more_rbsp_data(behind)
       THEN read_sei_messages(behind, Append(seis, message))
       ELSE [seis |-> Append(seis, message), b |-> read_rbsp_trailing_bits(behind)]

write_sei_message(sei) ==
    BitsOfBytes(write_ff_coded_number(sei.payloadType)
                    \o write_ff_coded_number(sei.payloadSize) \o sei.payload)

-----------------------------------------------------------------------------
(* NAL units                                                                *)

Header(byte) ==
    [forbidden_zero_bit |-> byte \div 128, nal_ref_idc |-> (byte \div 32) % 4,
     nal_unit_type |-> byte % 32]
HeaderByte(nal) ==
    128 * nal.forbidden_zero_bit + 32 * nal.nal_ref_idc + nal.nal_unit_type

IsSlice(type) == type \in {1, 5, 19}

\* The result of a reader that has left the cursor `behind'.
Checked(h, behind, nal_size) == [h EXCEPT !.rc = IF bs_overrun(behind) THEN -1 ELSE nal_size]

\* A structure s read from a unit is stored: slices are read as far as
\* `slices' says, "slice" or "slice_type".
Stored(h, s, nal_size, slices) ==
    LET type == h.nal.nal_unit_type
        slice(sets) == IF slices = "slice_type" THEN [h EXCEPT !.sh = s.v]
                       ELSE [h EXCEPT !.sh = s.v, !.pps = sets.pps, !.sps = sets.sps]
        set(id) ==
            IF type = 8 THEN [h EXCEPT !.pps = id, !.pps_table = (id :> s.v) @@ @]
            ELSE [h EXCEPT !.sps = id, !.sps_table = (id :> s.v) @@ @, !.info = SpsInfo(s.v)]
        trailed(g) == Checked(g, IF IsSlice(type) THEN read_rbsp_slice_trailing_bits(g, s.b)
                                 ELSE read_rbsp_trailing_bits(s.b), nal_size)
    IN trailed(CASE IsSlice(type) -> slice(SetsNamed(h, s.v))
                 [] type = 7 -> set(Val(s.v, "seq_parameter_set_id"))
                 [] type = 8 -> set(Val(s.v, "pic_parameter_set_id"))
                 [] type = 9 -> [h EXCEPT !.aud = s.v])

\* The part of read_nal_unit behind nal_to_rbsp.
read_rbsp(h, rbsp, nal_size, slices) ==
    LET type == h.nal.nal_unit_type
        messages(s) == Checked([h EXCEPT !.seis = s.seis], s.b, nal_size)
    IN CASE IsSlice(type) \/ type \in 7..9 ->
              Stored(h, read_parts(CASE type = 7 -> "sps" [] type = 8 -> "pps"
                                     [] type = 9 -> "aud" [] OTHER -> slices,
                            h, 1,
                            [v |-> IF type = 7 THEN <<"chroma_format_idc">> :> 1 ELSE <<>>,
                             b |-> bs_new(rbsp)]),
                     nal_size, slices)
         [] type = 6 -> messages(read_sei_messages(bs_new(rbsp), <<>>))
         [] type \in {10, 11} -> Checked(h, bs_new(rbsp), nal_size)
         [] OTHER -> [h EXCEPT !.rc = 0]

\* The header is kept even if the conversion fails; h.rc is the result.
read_nal_unit(h, nal, slices) ==
    LET g == [h EXCEPT !.nal = Header(IF nal = <<>> THEN 0 ELSE nal[1])]
        converted == nal_to_rbsp(nal)
    IN IF converted.failed THEN [g EXCEPT !.rc = -1]
       ELSE read_rbsp(g, converted.rbsp, Len(nal) - (IF converted.stop THEN 1 ELSE 0), slices)

\* peek_nal_unit: the type, or -1 for a header that cannot be one.
peek_nal_unit(nal) ==
    LET header == Header(IF nal = <<>> THEN 0 ELSE nal[1])
        type == header.nal_unit_type
    IN IF \/ header.forbidden_zero_bit = 1
          \/ type \notin 1..20 \ 16..18
          \/ type \in (IF header.nal_ref_idc = 0 THEN {5} ELSE {6, 9, 10, 11, 12})
       THEN -1 ELSE type

\* find_nal_unit on a buffer: where the first unit begins and ends and the
\* result, 0 without a start code, -1 if the unit goes to the end.  It looks
\* at up to two bytes behind the buffer, which are `behind'.
find_nal_unit(buf, behind) ==
    LET size == Len(buf)
        At(i) == IF i < size THEN buf[i + 1] ELSE behind
        IsCode(i, third) == At(i) = 0 /\ At(i + 1) = 0 /\ At(i + 2) = third
        StartsAt(i) == IsCode(i, 1) \/ (IsCode(i, 0) /\ At(i + 3) = 1)
        First(lo, test(_)) == CHOOSE i \in lo..size : test(i) /\ \A j \in lo..(i - 1) : ~test(j)
        code == First(0, LAMBDA i : StartsAt(i) \/ (i > 0 /\ i + 4 >= size))
        start == IF IsCode(code, 1) THEN code + 3 ELSE code + 4
        stop(i) == IsCode(i, 0) \/ IsCode(i, 1)
        end == First(start, LAMBDA i : stop(i) \/ (i > start /\ i + 3 >= size))
    IN CASE code > 0 /\ code + 4 >= size -> [rc |-> 0, nal_start |-> 0, nal_end |-> 0]
         [] end > start /\ end + 3 >= size -> [rc |-> -1, nal_start |-> start, nal_end |-> size]
         [] OTHER -> [rc |-> end - start, nal_start |-> start, nal_end |-> end]

-----------------------------------------------------------------------------
(* Writing                                                                  *)

\* write_scaling_list: the list is the cells from `base' on; `default' is the
\* list's flag.  Every value is written as a difference to the one before.
write_scaling_list(v, base, size, default) ==
    LET scale(j) == ValAt(v, <<"cell", base + j>>)
        put(s, j) ==
            LET next == IF default # 0 THEN 0 ELSE scale(j)
            IN [bits |-> s.bits \o When(s.next # 0, bs_write_se(next - s.last)),
                next |-> IF s.next # 0 THEN next ELSE 0, last |-> scale(j)]
    IN FoldLeft(put, [bits |-> <<>>, next |-> 8, last |-> 8],
                [j \in 1..size |-> j - 1]).bits

write_element(v, e) ==
    LET name == e[1]
    IN IF e[4] # <<>> /\ ValAt(v, e[4]) = 0 THEN <<>>
       ELSE IF e[2] = "list"
       THEN write_scaling_list(v, name[2], e[3],
                ValAt(v, <<"cell", IF e[3] = 16 THEN name[2] + 6 ELSE name[2] + 2>>))
       ELSE bs_write(e[2], e[3], ValAt(v, name))

write_parts(table, v) ==
    FlattenSeq([k \in DOMAIN table |->
        FlattenSeq([i \in DOMAIN table[k] |-> write_element(v, table[k][i])])])

write_rbsp_trailing_bits(bits) ==
    LET stopped == Append(bits, 1)
    IN stopped \o [i \in 1..((8 - (Len(stopped) % 8)) % 8) |-> 0]

\* The bits of the RBSP of h->nal's type, from the fields of h.
write_rbsp(h) ==
    LET type == h.nal.nal_unit_type
        sps == Entry(h.sps_table, h.sps)
        pps == Entry(h.pps_table, h.pps)
    IN CASE IsSlice(type) ->
                write_rbsp_trailing_bits(
                    write_parts(write_slice_header(h.sh, h.nal, sps, pps), h.sh))
         [] type = 6 -> write_rbsp_trailing_bits(
                FlattenSeq([i \in DOMAIN h.seis |-> write_sei_message(h.seis[i])]))
         [] type = 7 -> write_rbsp_trailing_bits(write_parts(write_sps(sps), sps))
         [] type = 8 -> write_rbsp_trailing_bits(write_parts(write_pps(pps), pps))
         [] type = 9 -> write_rbsp_trailing_bits(write_parts(read_aud, h.aud))
         [] type \in {10, 11} -> <<>>

\* write_nal_unit into a buffer of `size' bytes: the result and the bytes.
\* The header byte is written first, and rbsp_to_nal clears it again.
write_nal_unit(h, size) ==
    LET bits == write_rbsp(h)
        written == rbsp_to_nal(BytesOfBits(bits), size)
    IN CASE h.nal.nal_unit_type \notin {1, 5, 6, 7, 8, 9, 10, 11, 19} ->
                [rc |-> 0, nal |-> <<HeaderByte(h.nal)>>]
         [] Len(bits) \div 8 > (size * 3) \div 4 -> [rc |-> -1, nal |-> <<HeaderByte(h.nal)>>]
         [] written.failed -> [rc |-> -1, nal |-> <<>>]
         [] OTHER -> [rc |-> Len(written.nal), nal |-> written.nal]

-----------------------------------------------------------------------------
(* AVC decoder configuration record, h264_avcc.cpp                          *)

\* The parameter sets of one kind: a count, then a length of 16 bits and a
\* unit for each.  `ids' are the numbers of the sets read, -1 for a unit that
\* is of another type or fails.
read_avcc_units(s, count, type) ==
    LET len(t) == bs_next_bits(t.b, 16)
        at(t) == bs_skip_u(t.b, 16)
        id(h) == CASE h.nal.nal_unit_type # type \/ h.rc < 0 -> -1
                   [] type = 7 -> h.sps
                   [] type = 8 -> h.pps
        with(t, h) == [h |-> h, b |-> bs_skip_u(at(t), 8 * len(t)), ids |-> Append(t.ids, id(h))]
    IN FoldLeft(LAMBDA t, i :
                    with(t, read_nal_unit(t.h, bs_read_bytes(at(t), len(t)), "slice")),
                [s EXCEPT !.ids = <<>>], [i \in 1..count |-> i])

\* read_avcc.  The table of picture parameter sets has as many entries as
\* there are sequence parameter sets: with more of them, it is overrun.
read_avcc(h, bytes) ==
    LET b == bs_new(bytes)
        result(sps, pps) ==
            [h |-> pps.h, sps_table |-> sps.ids, pps_table |-> pps.ids,
             overrun |-> Len(pps.ids) > Len(sps.ids),
             rc |-> IF bs_overrun(pps.b) THEN -1 ELSE pps.b.pos \div 8]
        behind(sps) == result(sps, read_avcc_units([sps EXCEPT !.b = bs_skip_u(@, 8)],
                                                   bs_next_bits(sps.b, 8), 8))
    IN behind(read_avcc_units([h |-> h, b |-> bs_skip_u(b, 48), ids |-> <<>>],
                              bs_next_bits(bs_skip_u(b, 43), 5), 7))
=============================================================================
