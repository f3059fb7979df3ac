------------------------------ MODULE MCNalScan ------------------------------
EXTENDS NalScan

Lib == INSTANCE H264Nal

MCNewStream == Lib!h264_new
MCReadNalUnit(o, nal) == Lib!read_nal_unit(o, nal, "slice_type")
MCNalType(o) == o.nal.nal_unit_type
MCSliceType(o) == Lib!Val(o.sh, "slice_type")
MCInfo(o) == o.info

\* What an encoder has written, without start codes: sequence parameter sets
\* of a picture 64 and 16 pixels wide, slices of the types 7, 2, 0, 6 and 1
\* that end behind their type, and the header of a delimiter.
Wide == <<103, 66, 0, 0, 248, 152, 128>>
Small == <<103, 66, 0, 0, 251, 136>>
InfoOfWidth(width) ==
    [width |-> width, height |-> 16, bit_depth_luma |-> 8, bit_depth_chroma |-> 8,
     profile_idc |-> 66, level_idc |-> 0, chroma_format_idc |-> 1]

\* A piece of a file: start code, unit, and perhaps zeros behind it.
Piece(code, nal, kind, info) ==
    [bytes |-> (IF code = 3 THEN <<0, 0, 1>> ELSE <<0, 0, 0, 1>>) \o nal,
     kind |-> kind, info |-> info]

Pieces ==
    {Piece(4, Wide, "none", InfoOfWidth(64)), Piece(3, Small, "none", InfoOfWidth(16)),
     Piece(4, <<101, 136, 128>>, "I", <<>>), Piece(3, <<65, 184>>, "I", <<>>),
     Piece(3, <<65, 224>>, "P", <<>>), Piece(4, <<1, 158>>, "B", <<>>),
     Piece(3, <<65, 168, 0, 0, 0, 0>>, "broken", <<>>), Piece(3, <<9>>, "none", <<>>)}

Bytes(pieces) ==
    pieces[1].bytes \o (IF Len(pieces) > 1 THEN pieces[2].bytes ELSE <<>>)
                    \o (IF Len(pieces) > 2 THEN pieces[3].bytes ELSE <<>>)
Stream(pieces) ==
    LET sets == {i \in DOMAIN pieces : pieces[i].info # <<>>}
    IN [bytes |-> Bytes(pieces), kinds |-> [i \in DOMAIN pieces |-> pieces[i].kind],
        info |-> IF sets = {} THEN <<>>
                 ELSE pieces[CHOOSE i \in sets : \A j \in sets : j <= i].info]

\* As many bytes as a buffer has.
Long == [i \in 1..MAX_NAL_SIZE |-> 9]

\* Streams of up to two pieces, or of three around which an I frame closes a
\* group of pictures, and short files of any bytes.
Triples == {<<a, b, c>> : a \in Pieces, b \in Pieces, c \in {p \in Pieces : p.kind = "I"}}
MCFiles ==
    {Stream(pieces) : pieces \in [1..1 -> Pieces] \cup [1..2 -> Pieces]
                                  \cup {t \in Triples : t[1].kind = "I"}}
        \cup {[bytes |-> bytes, kinds |-> <<>>, info |-> <<>>] :
                    bytes \in UNION {[1..k -> {0, 1}] : k \in 0..5}
                              \cup {<<0, 0, 1>> \o Long, Long}}
=============================================================================
