------------------------------ MODULE H264Codec ------------------------------
(***************************************************************************)
(* One h264_stream_t fills and writes NAL units, another reads them: the   *)
(* parameter sets that the reader keeps from unit to unit have to be the   *)
(* writer's when a slice arrives.  A unit may be cut when it arrives (the  *)
(* recordings end anywhere), and nothing is sent behind it.                *)
(*                                                                         *)
(* write_nal_unit clears the header byte, so whoever sends the unit has to *)
(* put it back; the wire carries the unit with its header.                 *)
(***************************************************************************)
EXTENDS H264Nal

CONSTANTS
    Units,      \* what the writer may fill in: [nal, v], by the unit's type
    MaxUnits,   \* bound of the number of units sent
    Losses,     \* the numbers of bytes that may be lost at the end of a unit
    BufferSize  \* size of the buffer given to write_nal_unit

VARIABLES
    w,          \* the writer's stream object
    r,          \* the reader's stream object
    before,     \* the reader's object when the last unit arrived
    wire,       \* the last unit as it was sent
    record,     \* the last configuration record as read_avcc took it
    arrived,    \* the number of its bytes that arrived
    sent        \* number of units sent

vars == <<w, r, before, wire, record, arrived, sent>>

NoRecord == [rc |-> 0]

Init ==
    /\ w = h264_new /\ r = h264_new /\ before = h264_new
    /\ wire = <<>> /\ record = NoRecord /\ arrived = 0 /\ sent = 0

\* The writer's fields for a unit: a slice points h->pps and h->sps to the
\* sets it is coded with, which have been sent before.
Filled(o, unit) ==
    LET type == unit.nal.nal_unit_type
        v == unit.v
        h == [o EXCEPT !.nal = unit.nal]
        sps == Val(v, "seq_parameter_set_id")
        pps == Val(v, "pic_parameter_set_id")
    IN CASE IsSlice(type) ->
                [h EXCEPT !.sh = v, !.pps = pps,
                          !.sps = Val(Entry(h.pps_table, pps), "seq_parameter_set_id")]
         [] type = 6 -> [h EXCEPT !.seis = v]
         [] type = 7 -> [h EXCEPT !.sps = sps, !.sps_table = (sps :> v) @@ @]
         [] type = 8 -> [h EXCEPT !.pps = pps, !.pps_table = (pps :> v) @@ @]
         [] OTHER -> [h EXCEPT !.aud = v]

Ready(unit) ==
    LET id == Val(unit.v, "pic_parameter_set_id")
    IN IsSlice(unit.nal.nal_unit_type) =>
        /\ id \in DOMAIN w.pps_table
        /\ Val(w.pps_table[id], "seq_parameter_set_id") \in DOMAIN w.sps_table

\* The unit that write_nal_unit makes, with the header put back.
OnWire(h) == [write_nal_unit(h, BufferSize).nal EXCEPT ![1] = HeaderByte(h.nal)]

Send(unit, lost) ==
    /\ sent < MaxUnits /\ arrived = Len(wire)
    /\ Ready(unit)
    /\ w' = Filled(w, unit)
    /\ wire' = OnWire(w')
    /\ Len(wire') > lost
    /\ arrived' = Len(wire') - lost
    /\ before' = r
    /\ r' = read_nal_unit(r, SubSeq(wire', 1, arrived'), "slice")
    /\ record' = NoRecord
    /\ sent' = sent + 1

SendWhole == \E unit \in Units : Send(unit, 0)
SendCut == \E unit \in Units, lost \in Losses : Send(unit, lost)

\* A configuration record with one set of each kind, as a muxer makes it.
AvccRecord(sps, pps) ==
    LET Unit(bytes) == <<Len(bytes) \div 256, Len(bytes) % 256>> \o bytes
    IN <<1, 0, 0, 0, 255, 225>> \o Unit(sps) \o <<1>> \o Unit(pps)

\* A stream in a container begins with the record.
SendRecord ==
    \E sps \in Units, pps \in Units :
        LET first == OnWire(Filled(w, sps))
        IN /\ sps.nal.nal_unit_type = 7 /\ pps.nal.nal_unit_type = 8
           /\ sent = 0 /\ MaxUnits > 1
           /\ w' = Filled(Filled(w, sps), pps)
           /\ wire' = OnWire(w') /\ arrived' = Len(wire')
           /\ before' = read_nal_unit(r, first, "slice")
           /\ record' = read_avcc(r, AvccRecord(first, wire'))
           /\ r' = record'.h
           /\ sent' = sent + 2

Next == SendWhole \/ SendCut \/ SendRecord
Spec == Init /\ [][Next]_vars

-----------------------------------------------------------------------------
Whole == arrived = Len(wire)
Type == w.nal.nal_unit_type
W_sps == Entry(w.sps_table, w.sps)
W_pps == Entry(w.pps_table, w.pps)

\* a and b agree on the elements of the table that are present in a.
Agree(table, a, b) ==
    \A k \in DOMAIN table : \A i \in DOMAIN table[k] :
        LET e == table[k][i]
        IN (e[4] = <<>> \/ ValAt(a, e[4]) # 0) => ValAt(a, e[1]) = ValAt(b, e[1])

NoLists(sps) == \A i \in -8..-1 : ValAt(sps, <<"cell", i>>) = 0

\* The reader's guess whether the picture parameter set has the extension,
\* from the sequence parameter set it used last, is right.
GuessRight(h, pps) ==
    more_rbsp_data_in_pps(Entry(h.sps_table, h.sps)) = (Val(pps, "_more_rbsp_data_present") = 1)

SpsAgree(id) == Agree(write_sps(w.sps_table[id]), w.sps_table[id], Entry(r.sps_table, id))

\* The reader's name for the flag that the writer takes from
\* pic_order_present_flag is another field.
PpsAgree(id) ==
    LET pps == w.pps_table[id]
    IN Agree(PpsTable(pps, "bottom_field_pic_order_in_frame_present_flag",
                      Val(pps, "_more_rbsp_data_present") = 1),
             pps, Entry(r.pps_table, id))

\* A parameter set that arrives whole is in the reader's table under its
\* number, element for element (read_seq_parameter_set_rbsp and
\* read_pic_parameter_set_rbsp against their writers), unless it has scaling
\* lists, whose memory overlaps, or unless the profile of the sequence
\* parameter set used last makes the reader guess the extension of a picture
\* parameter set wrong.
SetsArrive ==
    (sent > 0 /\ Whole) =>
        /\ Type = 7 /\ NoLists(W_sps) => SpsAgree(w.sps)
        /\ Type = 8 /\ GuessRight(before, W_pps) => PpsAgree(w.pps)
        /\ record # NoRecord =>
              /\ NoLists(w.sps_table[record.sps_table[1]]) => SpsAgree(record.sps_table[1])
              /\ GuessRight(before, W_pps) => record.pps_table = <<w.pps>>

\* A slice is read with the parameter sets it names, not with those of the
\* unit before: when the reader has these two right, the part of the header
\* up to the reference lists agrees, and all of it in an intra slice that is
\* no reference; for the others the writer leaves out the lists that the
\* reader reads (write_slice_header against read_slice_header).
SlicesArrive ==
    (sent > 0 /\ Whole /\ IsSlice(Type) /\ SpsAgree(w.sps) /\ PpsAgree(w.pps)
        /\ Val(W_sps, "separate_colour_plane_flag") = 0) =>
        LET table == write_slice_header(w.sh, w.nal, W_sps, W_pps)
        IN /\ r.pps = w.pps /\ r.sps = w.sps
           /\ Agree(SubSeq(table, 1, 3), w.sh, r.sh)
           /\ IsI(w.sh) /\ w.nal.nal_ref_idc = 0 => Agree(table, w.sh, r.sh) /\ r.rc >= 0

\* A parameter set or delimiter that has lost bytes at its end is refused:
\* reading goes on behind the end and bs_overrun notices (read_nal_unit); a
\* whole one is not.  The exception is again an extension that the reader does
\* not expect.  Supplemental information is always refused, whole or not: the
\* reader looks for another message behind the last one.
CutsRefused ==
    (sent > 0 /\ Type \in {6, 7, 8, 9} /\ (Type = 8 => GuessRight(before, W_pps)))
        => (r.rc = -1 <=> ~Whole \/ Type = 6)

StartCode == <<0, 0, 1>>

\* Behind its header no unit contains a start code, and none of the three
\* bytes that announce one; taking the escapes out again gives back what was
\* written (rbsp_to_nal and nal_to_rbsp).  So find_nal_unit finds the unit
\* between two start codes, or up to the end of the data, and peek_nal_unit
\* knows its type.
NoStartCodeInside ==
    sent > 0 =>
        /\ \A i \in 2..(Len(wire) - 2) :
                wire[i] = 0 /\ wire[i + 1] = 0 => wire[i + 2] > 2
        /\ nal_to_rbsp(wire).rbsp = BytesOfBits(write_rbsp(w))
        /\ ~nal_to_rbsp(wire).failed
        /\ \A behind \in {StartCode \o wire, <<0>> \o StartCode \o <<9>>, <<>>} :
                LET found == find_nal_unit(StartCode \o wire \o behind, 1) IN
                /\ SubSeq(StartCode \o wire, found.nal_start + 1, found.nal_end) = wire
                /\ found.rc = IF behind = <<>> THEN -1 ELSE Len(wire)
        /\ peek_nal_unit(wire) = Type
=============================================================================
