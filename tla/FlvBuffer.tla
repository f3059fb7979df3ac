------------------------------ MODULE FlvBuffer ------------------------------
(***************************************************************************)
(* ParseFlvFile, ParseHead, ParseBody and ParseBodyTag of FlvCheck.cpp,    *)
(* the variants that read a buffer: a piece of a stream handed over by a   *)
(* client that downloads by itself.  A piece is the start of a stream, or  *)
(* starts at the PreviousTagSize in front of a tag, and ends anywhere.     *)
(*                                                                         *)
(* Most reads are not checked against the end of the buffer.  A header or  *)
(* a PreviousTagSize read past it may have any value.  When ParseBodyTag   *)
(* reads past it, what follows depends on the memory there, and the model  *)
(* stops in phase "stray".                                                 *)
(***************************************************************************)
EXTENDS FlvFormat

CONSTANT
    Pieces      \* the sequences of tags a piece may be cut from

ASSUME FlvBufferAssumption == Pieces \subseteq Seq(Tags)

VARIABLES
    sent,       \* the tags of the piece and where they lie in it
    buffer,     \* its bytes
    bufferRead, \* how many of them ParseBody is through with
    phase,      \* "head", "tag", "nalu", "previous", "done" or "stray"
    tag,        \* tagItem: its type and size
    vFlvTag,    \* the tags listed so far
    pointer,    \* ParseBodyTag's position in a tag with NAL units
    countsize,  \* its counter of the tag's bytes
    h264,       \* H264file: the units behind start codes, in order
    iRet        \* the result

vars == <<sent, buffer, bufferRead, phase, tag, vFlvTag, pointer, countsize, h264, iRet>>

length == Len(buffer)
Inside(p, n) == p + n <= length
Byte(p) == buffer[p + 1]
Big(p, n) ==
    FoldLeft(LAMBDA value, byte: 256 * value + byte, 0, SubSeq(buffer, p + 1, p + n))

Unit(p, n) == [from |-> p, len |-> n]

-----------------------------------------------------------------------------
Init ==
    /\ \E tags \in Pieces, withHeader \in BOOLEAN :
          LET stream == IF withHeader THEN Stream(tags) ELSE Headerless(tags)
          IN /\ sent = Laid(tags, IF withHeader THEN 13 ELSE 4)
             /\ \E size \in 0..Len(stream) : buffer = SubSeq(stream, 1, size)
    /\ bufferRead = 0
    /\ phase = "head"
    /\ tag = [type |-> 0, size |-> 0]
    /\ vFlvTag = <<>>
    /\ pointer = 0 /\ countsize = 0
    /\ h264 = <<>>
    /\ iRet = "STREAM_OK"

Finish(result) == phase' = "done" /\ iRet' = result

EmptyBuffer ==
    /\ phase = "head" /\ length = 0
    /\ Finish("STREAM_OK")
    /\ UNCHANGED <<sent, buffer, bufferRead, tag, vFlvTag, pointer, countsize, h264>>

(***************************************************************************)
(* ParseHead.  FLV_HEADER is padded to 12 bytes, so DataOffset is read,    *)
(* little end first, from the last byte of the header and the first three  *)
(* of PreviousTagSize0; a shorter buffer is read past its end.             *)
(***************************************************************************)
HeaderOK ==
    /\ Byte(0) \in {70, 102} /\ Byte(1) \in {76, 108} /\ Byte(2) \in {86, 118}
    /\ SubSeq(buffer, 9, 12) = <<9, 0, 0, 0>>

ParseHead ==
    /\ phase = "head" /\ length > 0
    /\ \E ok \in IF Inside(0, 12) THEN {HeaderOK} ELSE BOOLEAN :
          bufferRead' = (IF ok THEN 9 ELSE 0) + 4   \* over a PreviousTagSize
    /\ phase' = "tag"
    /\ UNCHANGED <<sent, buffer, tag, vFlvTag, pointer, countsize, h264, iRet>>

-----------------------------------------------------------------------------
(***************************************************************************)
(* ParseBody: the 11 bytes in front of a tag.                              *)
(***************************************************************************)
Known == {8, 9, 18}

More == bufferRead + 11 < length
EndOfTags ==
    /\ phase = "tag" /\ ~More
    /\ Finish("STREAM_OK")
    /\ UNCHANGED <<sent, buffer, bufferRead, tag, vFlvTag, pointer, countsize, h264>>

\* The type without the three bits above it.
UnknownTag ==
    /\ phase = "tag" /\ More
    /\ Byte(bufferRead) % 32 \notin Known
    /\ Finish("FLV_VIDEOTAG_UNKNOWN")
    /\ bufferRead' = bufferRead + 11
    /\ UNCHANGED <<sent, buffer, tag, vFlvTag, pointer, countsize, h264>>

PushTag ==
    /\ phase = "tag" /\ More
    /\ Byte(bufferRead) % 32 \in Known
    /\ tag' = [type |-> Byte(bufferRead), size |-> Big(bufferRead + 1, 3)]
    /\ vFlvTag' = Append(vFlvTag, tag')

\* Script tags, and tags with a bit set above their type, are passed over.
SkipTag ==
    /\ PushTag
    /\ tag'.type \notin {8, 9}
    /\ bufferRead' = bufferRead + 11 + tag'.size + 4
    /\ UNCHANGED <<sent, buffer, phase, pointer, countsize, h264, iRet>>

-----------------------------------------------------------------------------
(***************************************************************************)
(* ParseBodyTag, which works on a copy of the pointer: only when it        *)
(* returns STREAM_OK does ParseBody move on, by the tag's own size.        *)
(***************************************************************************)
BodyAt == bufferRead + 11

CutBody ==
    /\ PushTag
    /\ tag'.type \in {8, 9} /\ ~Inside(BodyAt, tag'.size)
    /\ Finish("FLV_VIDEOTAG_UNKNOWN")
    /\ bufferRead' = BodyAt
    /\ UNCHANGED <<sent, buffer, pointer, countsize, h264>>

WholeTagUnchecked(type) ==
    /\ PushTag
    /\ tag'.type = type

WholeTag(type) ==
    /\ PushTag
    /\ tag'.type = type /\ Inside(BodyAt, tag'.size)

LeaveTag ==
    /\ phase' = "previous"
    /\ bufferRead' = BodyAt + tag'.size
    /\ UNCHANGED iRet

AudioTag ==
    /\ WholeTag(8)
    /\ LeaveTag
    /\ UNCHANGED <<sent, buffer, pointer, countsize, h264>>

VideoTag == WholeTag(9)
FrameType == Byte(BodyAt) \div 16
CodecID == Byte(BodyAt) % 16
AVCPacketType == Byte(BodyAt + 1)

CommandFrame ==
    /\ VideoTag
    /\ FrameType = 5
    /\ IF tag'.size = 6
       THEN LeaveTag
       ELSE Finish("FLV_VIDEOTAGSIZE_NOTMATCH") /\ bufferRead' = BodyAt
    /\ UNCHANGED <<sent, buffer, pointer, countsize, h264>>

\* The body of any other codec is passed over.
OtherCodec ==
    /\ VideoTag
    /\ FrameType # 5 /\ CodecID # 7
    /\ LeaveTag
    /\ UNCHANGED <<sent, buffer, pointer, countsize, h264>>

Avc == FrameType # 5 /\ CodecID = 7 /\ Inside(BodyAt, 2)

\* One SPS, one PPS; what else the record holds is passed over.
SequenceHeader ==
    /\ VideoTag
    /\ Avc /\ AVCPacketType = 0
    /\ LET spsAt == BodyAt + 13
           spsSize == Big(spsAt - 2, 2)
           ppsAt == spsAt + spsSize + 3
           ppsSize == Big(ppsAt - 2, 2)
       IN IF Inside(spsAt - 2, 2) /\ Inside(spsAt, spsSize + 3) /\ Inside(ppsAt, ppsSize)
          THEN /\ h264' = h264 \o <<Unit(spsAt, spsSize), Unit(ppsAt, ppsSize)>>
               /\ LeaveTag
          ELSE /\ phase' = "stray"
               /\ UNCHANGED <<bufferRead, h264, iRet>>
    /\ UNCHANGED <<sent, buffer, pointer, countsize>>

Nalus ==
    /\ VideoTag
    /\ Avc /\ AVCPacketType # 0
    /\ bufferRead' = BodyAt
    /\ pointer' = BodyAt + 5
    /\ countsize' = 5
    /\ phase' = "nalu"
    /\ UNCHANGED <<sent, buffer, h264, iRet>>

\* A unit inside is too short to wrap the counter.
NaluInside == Inside(pointer, 4) /\ Inside(pointer + 4, Big(pointer, 4))

CopyNaluCountsPayload ==
    /\ phase = "nalu" /\ countsize < tag.size
    /\ NaluInside
    /\ LET len == Big(pointer, 4)
       IN /\ h264' = Append(h264, Unit(pointer + 4, len))
          /\ pointer' = pointer + 4 + len
          /\ countsize' = countsize + len
    /\ UNCHANGED <<sent, buffer, bufferRead, phase, tag, vFlvTag, iRet>>

CopyNalu ==
    /\ phase = "nalu" /\ countsize < tag.size
    /\ NaluInside
    /\ LET len == Big(pointer, 4)
       IN /\ h264' = Append(h264, Unit(pointer + 4, len))
          /\ pointer' = pointer + 4 + len
          /\ countsize' = countsize + len + 4
    /\ UNCHANGED <<sent, buffer, bufferRead, phase, tag, vFlvTag, iRet>>

NaluStrays ==
    /\ phase = "nalu" /\ countsize < tag.size
    /\ ~NaluInside
    /\ phase' = "stray"
    /\ UNCHANGED <<sent, buffer, bufferRead, tag, vFlvTag, pointer, countsize, h264, iRet>>

NalusCopied ==
    /\ phase = "nalu" /\ countsize >= tag.size
    /\ phase' = "previous"
    /\ bufferRead' = bufferRead + tag.size
    /\ UNCHANGED <<sent, buffer, tag, vFlvTag, pointer, countsize, h264, iRet>>

-----------------------------------------------------------------------------
(***************************************************************************)
(* ParseBody: the PreviousTagSize behind a tag.                            *)
(***************************************************************************)
PreviousMatches == SubSeq(buffer, bufferRead + 1, bufferRead + 4) = U32(tag.size + 11)

CheckPreviousStays ==
    /\ phase = "previous"
    /\ \E match \in IF Inside(bufferRead, 4) THEN {PreviousMatches} ELSE BOOLEAN :
          IF match THEN phase' = "tag" /\ UNCHANGED iRet ELSE Finish("FLV_TAGSIZE_NOTMATCH")
    /\ UNCHANGED <<sent, buffer, bufferRead, tag, vFlvTag, pointer, countsize, h264>>

CheckPrevious ==
    /\ phase = "previous"
    /\ \E match \in IF Inside(bufferRead, 4) THEN {PreviousMatches} ELSE BOOLEAN :
          IF match
          THEN phase' = "tag" /\ bufferRead' = bufferRead + 4 /\ UNCHANGED iRet
          ELSE Finish("FLV_TAGSIZE_NOTMATCH") /\ UNCHANGED bufferRead
    /\ UNCHANGED <<sent, buffer, tag, vFlvTag, pointer, countsize, h264>>

-----------------------------------------------------------------------------
Next ==
    \/ EmptyBuffer \/ ParseHead
    \/ EndOfTags \/ UnknownTag \/ SkipTag \/ CutBody \/ AudioTag
    \/ CommandFrame \/ OtherCodec \/ SequenceHeader \/ Nalus
    \/ CopyNalu \/ NaluStrays \/ NalusCopied
    \/ CheckPrevious

Spec == Init /\ [][Next]_vars
-----------------------------------------------------------------------------
AllRegular == \A i \in DOMAIN sent : Regular(sent[i])

\* Whatever the tags hold, the parser is never out of step: before it reads
\* a tag it is where that tag starts, and has listed those before it.
InStep ==
    phase = "tag" /\ More =>
        /\ Len(vFlvTag) < Len(sent)
        /\ bufferRead = sent[Len(vFlvTag) + 1].start

\* Where the units of the piece lie.
Units == FlattenSeq([i \in DOMAIN sent |-> sent[i].places])

\* However a regular piece is cut, ParseBodyTag stays inside the buffer: the
\* one check against the tag's size is enough for all its reads, and each
\* unit it copies is the next of the piece, where it lies and all of it.
ReadsInside == AllRegular => phase # "stray" /\ IsPrefix(h264, Units)

D == INSTANCE Demux WITH
        counts <- IF AllRegular THEN [i \in DOMAIN sent |-> Len(sent[i].places)] ELSE <<>>,
        listed <- IF AllRegular THEN Len(vFlvTag) ELSE 0,
        owed <- IF AllRegular THEN UnitsOfFirst(sent, Len(vFlvTag)) - Len(h264) ELSE 0,
        damaged <- FALSE,
        finished <- phase = "done"

\* On regular pieces, however cut, this parser too is a demultiplexer, and
\* one that never damages a unit.  An odd piece stands for an empty one.
Demultiplexes == D!Spec
=============================================================================
