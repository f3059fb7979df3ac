------------------------------ MODULE FlvFormat ------------------------------
(***************************************************************************)
(* What a streaming server sends: the layout of an FLV stream as the       *)
(* parser in FlvCheck.cpp takes it apart.  Nothing in src/ makes up the    *)
(* body of a tag (RTMP_Read puts received bodies behind headers, see       *)
(* RtmpRead), so this module is the environment.  A tag is a record        *)
(*     kind   what it carries                                              *)
(*     units  the lengths of its parts: the parameter sets of "config",    *)
(*            the NAL units of "nalus", one body length for the others;    *)
(*            but the payload of "h263" byte by byte, and the length that  *)
(*            "claiming" claims for a NAL unit that is not there           *)
(* and lays itself out as bytes.  A parser leaves the payload of H.263     *)
(* unread, and may take it for what comes behind the tag.  Any other       *)
(* payload it reads as far as the tag's lengths say and does not look at,  *)
(* so there every byte is Filler.                                          *)
(***************************************************************************)
EXTENDS Integers, Sequences, SequencesExt

Filler == 7

Bytes(n) == [i \in 1..n |-> Filler]
U8(n) == <<n>>
U16(n) == <<n \div 256, n % 256>>
U24(n) == <<n \div 65536, (n \div 256) % 256, n % 256>>
U32(n) == <<n \div 16777216>> \o U24(n % 16777216)

\* A NAL unit behind its 4-byte length.
Nalu(n) == U32(n) \o Bytes(n)

\* An AVCDecoderConfigurationRecord with one SPS and one PPS.
Config(sps, pps) ==
    <<1, 66, 0, 30, 255, 225>> \o U16(sps) \o Bytes(sps)
        \o U8(1) \o U16(pps) \o Bytes(pps)

VideoHead(frameAndCodec, packetType) == <<frameAndCodec, packetType, 0, 0, 0>>

Type(tag) ==
    CASE tag.kind = "audio" -> 8
      [] tag.kind = "script" -> 18
      [] tag.kind = "other" -> 15
      \* an encrypted video tag: the filter bit above the type
      [] tag.kind = "filtered" -> 41
      [] OTHER -> 9

Body(tag) ==
    CASE tag.kind \in {"audio", "script", "other", "filtered"} -> Bytes(tag.units[1])
      \* key frame, AVC
      [] tag.kind \in {"nalus", "badsize"} ->
            VideoHead(23, 1) \o FlattenSeq([i \in DOMAIN tag.units |-> Nalu(tag.units[i])])
      [] tag.kind = "config" -> VideoHead(23, 0) \o Config(tag.units[1], tag.units[2])
      \* the profiles above Main append chroma format and bit depths
      [] tag.kind = "config_high" ->
            VideoHead(23, 0) \o Config(tag.units[1], tag.units[2]) \o <<253, 248, 248, 0>>
      \* a PPS whose length field promises one byte more than there is
      [] tag.kind = "longset" ->
            Front(VideoHead(23, 0) \o Config(tag.units[1], tag.units[2] + 1))
      \* a NAL unit whose length field promises one byte more than there is
      [] tag.kind = "overlong" -> VideoHead(23, 1) \o U32(tag.units[1] + 1) \o Bytes(tag.units[1])
      \* a NAL unit whose length field claims what is not in the tag
      [] tag.kind = "claiming" -> VideoHead(23, 1) \o U32(tag.units[1])
      \* inter frame, H.263
      [] tag.kind = "h263" -> VideoHead(34, 0) \o tag.units
      \* video info/command frame
      [] tag.kind = "command" -> VideoHead(87, 0) \o Bytes(tag.units[1])

DataSize(tag) == Len(Body(tag))

\* The tags there are: each kind with the lengths its body is made of, which
\* fit in the three bytes of a tag's size.
Kinds == {"audio", "script", "other", "filtered", "nalus", "badsize", "config", "config_high",
          "longset", "overlong", "claiming", "h263", "command"}
Tags ==
    {tag \in [kind: Kinds, units: Seq(Nat)] :
        /\ tag.kind \notin {"nalus", "badsize", "h263"} => Len(tag.units) >= 1
        /\ tag.kind \in {"config", "config_high", "longset"} => Len(tag.units) >= 2
        /\ tag.kind = "claiming" => tag.units[1] \div 16777216 < 256
        /\ tag.kind = "h263" => \A i \in DOMAIN tag.units : tag.units[i] < 256
        /\ DataSize(tag) < 16777216}

PreviousTagSize(tag) == DataSize(tag) + 11 + (IF tag.kind = "badsize" THEN 1 ELSE 0)

Layout(tag) ==
    U8(Type(tag)) \o U24(DataSize(tag)) \o <<0, 0, 0, 0, 0, 0, 0>>
        \o Body(tag) \o U32(PreviousTagSize(tag))

Header == <<70, 76, 86, 1, 5>> \o U32(9)

Stream(tags) == Header \o U32(0) \o FlattenSeq([i \in DOMAIN tags |-> Layout(tags[i])])

Headerless(tags) == U32(0) \o FlattenSeq([i \in DOMAIN tags |-> Layout(tags[i])])

-----------------------------------------------------------------------------
(***************************************************************************)
(* What a stream holds and where, said without any parser.                 *)
(***************************************************************************)

\* The tags the parser is made for.
Regular(tag) ==
    \/ tag.kind \in {"script", "nalus", "config"}
    \/ tag.kind = "audio" /\ tag.units[1] > 0
    \/ tag.kind = "command" /\ tag.units[1] = 1

\* How many bytes lie between the PreviousTagSize0 and tag i.
Offset(tags, i) == Len(Headerless(SubSeq(tags, 1, i - 1))) - 4

Total(lengths) == FoldLeft(LAMBDA a, b: a + b, 0, lengths)

\* Where the units of a tag that starts at `start' lie.
Places(tag, start) ==
    LET u == tag.units
        payload == start + 16
    IN CASE tag.kind = "nalus" ->
              [k \in DOMAIN u |->
                  [from |-> payload + 4 * k + Total(SubSeq(u, 1, k - 1)), len |-> u[k]]]
         [] tag.kind = "config" ->
              <<[from |-> payload + 8, len |-> u[1]],
                [from |-> payload + 8 + u[1] + 3, len |-> u[2]]>>
         [] OTHER -> <<>>

\* The tags of a stream whose first tag starts at `first', each with the
\* offset at which it starts and the places of its units.
Laid(tags, first) ==
    [i \in DOMAIN tags |->
        LET start == first + Offset(tags, i)
        IN [kind |-> tags[i].kind, units |-> tags[i].units,
            start |-> start, size |-> DataSize(tags[i]), places |-> Places(tags[i], start)]]

\* How many units the first n of them carry.
UnitsOfFirst(laid, n) == Total([i \in 1..n |-> Len(laid[i].places)])
=============================================================================
