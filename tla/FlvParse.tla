------------------------------ MODULE FlvParse ------------------------------
(***************************************************************************)
(* ParseFlvFile, ParseHead, ParseBody and ParseBodyTag of FlvCheck.cpp,    *)
(* the variants that read a FILE*: one pass over a recording that lists    *)
(* its tags and copies its NAL units to the scratch file, each behind a    *)
(* start code.  A recording is what the server sent up to where the        *)
(* recorder stopped (or lost the connection), which is anywhere.           *)
(*                                                                         *)
(* One step is one turn of the loop in ParseBody up to the video payload,  *)
(* one turn of the loop over the NAL units of a tag, or the check of a     *)
(* PreviousTagSize.  Reads at the end of the file do what fread does:      *)
(* they take what is there, report the shortage, and leave in memory a     *)
(* mixture of the old value and the bytes they got.                        *)
(***************************************************************************)
EXTENDS FlvFormat

CONSTANTS
    Recordings,     \* the sequences of tags a server may send
    Word            \* the values of an uint32_t (2^32 in the program)

\* A length of three bytes is far from wrapping.
ASSUME FlvParseAssumption ==
    /\ Recordings \subseteq Seq(Tags)
    /\ Word \in Nat /\ Word > 2 * 16777216

VARIABLES
    sent,       \* the tags of the stream and where they lie in it
    file,       \* flvFile: its bytes
    pos,        \* the position of flvFile
    phase,      \* "head", "tag", "nalu", "previous", "done" or "stray"
    tag,        \* tagItem: its type and size
    vFlvTag,    \* the tags listed so far
    countsize,  \* ParseBodyTag's counter of the bytes of a video tag
    templength, \* the length ParseBodyTag read last
    h264,       \* H264file: the units behind start codes, in order; `from' is
                \* where the unit begins in flvFile, `len' its length, `got'
                \* how many of its bytes come from flvFile: the rest is zero
    iRet        \* the result

vars == <<sent, file, pos, phase, tag, vFlvTag, countsize, templength, h264, iRet>>

EndOfFile == Len(file)
Least(a, b) == IF a < b THEN a ELSE b
Greatest(a, b) == IF a > b THEN a ELSE b

\* How many of n bytes at p fread delivers, and where it leaves the file.
Got(p, n) == Least(n, Greatest(0, EndOfFile - p))
Behind(p, n) == p + Got(p, n)

Big(p, n) ==
    FoldLeft(LAMBDA value, byte: 256 * value + byte, 0, SubSeq(file, p + 1, p + n))

\* The bytes that reach a little-endian word replace its low bytes.
Overlay(word, bytes) ==
    LET high == 256 ^ Len(bytes)
    IN high * (word \div high)
        + FoldLeft(LAMBDA value, byte: 256 * value + byte, 0, Reverse(bytes))

\* ReadU16 and ReadU32 into a variable that holds `old', result ignored.
ReadInto(old, p, n) ==
    IF Got(p, n) = n THEN Big(p, n)
    ELSE Overlay(old, SubSeq(file, p + 1, p + Got(p, n)))

Unit(p, n) == [from |-> p, len |-> n, got |-> Got(p, n)]

\* ReadU8 touches the low byte only.
ReadByteInto(old, p) == Overlay(old, SubSeq(file, p + 1, p + Got(p, 1)))

Next8(p) == file[p + 1]

-----------------------------------------------------------------------------
Init ==
    /\ \E tags \in Recordings :
          /\ sent = Laid(tags, 13)
          /\ \E size \in 0..Len(Stream(tags)) : file = SubSeq(Stream(tags), 1, size)
    /\ pos = 0
    /\ phase = "head"
    /\ tag = [type |-> 0, size |-> 0]
    /\ vFlvTag = <<>>
    /\ countsize = 0
    /\ templength = 0
    /\ h264 = <<>>
    /\ iRet = "STREAM_OK"

Finish(result) == phase' = "done" /\ iRet' = result

(***************************************************************************)
(* ParseFlvFile up to ParseBody.  ParseHead accepts exactly the header of  *)
(* the format, so the signature test behind it never seeks back.  Where a  *)
(* rejected header leaves the file is only logged and is left out.         *)
(***************************************************************************)
EmptyFile ==
    /\ phase = "head" /\ EndOfFile = 0
    /\ Finish("STREAM_OK")
    /\ UNCHANGED <<sent, file, pos, tag, vFlvTag, countsize, templength, h264>>

HeaderOK ==
    /\ EndOfFile >= 9
    /\ SubSeq(file, 1, 3) \in {<<70, 76, 86>>, <<102, 108, 118>>}
    /\ Big(5, 4) = 9

HeaderError ==
    /\ phase = "head" /\ EndOfFile > 0 /\ ~HeaderOK
    /\ Finish("FLV_HEADER_ERROR")
    /\ UNCHANGED <<sent, file, pos, tag, vFlvTag, countsize, templength, h264>>

ParseHead ==
    /\ phase = "head" /\ HeaderOK
    /\ pos' = 9 + 4     \* over PreviousTagSize0
    /\ phase' = "tag"
    /\ UNCHANGED <<sent, file, tag, vFlvTag, countsize, templength, h264, iRet>>

-----------------------------------------------------------------------------
(***************************************************************************)
(* ParseBody: the 11 bytes in front of a tag.                              *)
(***************************************************************************)
Known == {8, 9, 18}

EndOfTags ==
    /\ phase = "tag" /\ pos >= EndOfFile
    /\ Finish("STREAM_OK")
    /\ UNCHANGED <<sent, file, pos, tag, vFlvTag, countsize, templength, h264>>

UnknownTag ==
    /\ phase = "tag" /\ pos < EndOfFile
    /\ Next8(pos) \notin Known
    /\ Finish("FLV_VIDEOTAG_UNKNOWN")
    /\ pos' = pos + 1
    /\ UNCHANGED <<sent, file, tag, vFlvTag, countsize, templength, h264>>

CutTagHeader ==
    /\ phase = "tag" /\ pos < EndOfFile /\ pos + 11 > EndOfFile
    /\ Next8(pos) \in Known
    /\ Finish("FILE_READ_ERROR")
    /\ pos' = EndOfFile
    /\ UNCHANGED <<sent, file, tag, vFlvTag, countsize, templength, h264>>

\* A tag whose header is complete is listed, whatever becomes of its body.
PushTag(type) ==
    /\ phase = "tag" /\ pos + 11 <= EndOfFile
    /\ Next8(pos) = type
    /\ tag' = [type |-> type, size |-> Big(pos + 1, 3)]
    /\ vFlvTag' = Append(vFlvTag, tag')

\* fseek over the body and its PreviousTagSize, past the end of the file too.
ScriptTag ==
    /\ PushTag(18)
    /\ pos' = pos + 11 + tag'.size + 4
    /\ UNCHANGED <<sent, file, phase, countsize, templength, h264, iRet>>

-----------------------------------------------------------------------------
(***************************************************************************)
(* ParseBodyTag.                                                           *)
(***************************************************************************)
AudioTag ==
    /\ PushTag(8)
    /\ pos' = Behind(pos + 11, tag'.size)
    /\ IF Got(pos + 11, tag'.size) = 0
       THEN Finish("BUFFER_READ_ERROR")
       ELSE phase' = "previous" /\ UNCHANGED iRet
    /\ UNCHANGED <<sent, file, countsize, templength, h264>>

\* The video header is 5 bytes, whatever the size of the tag.
CutVideoHeader ==
    /\ PushTag(9)
    /\ Got(pos + 11, 5) < 5
    /\ Finish("BUFFER_READ_ERROR")
    /\ pos' = EndOfFile
    /\ UNCHANGED <<sent, file, countsize, templength, h264>>

FrameType(p) == Next8(p) \div 16
CodecID(p) == Next8(p) % 16
AVCPacketType(p) == Next8(p + 1)

VideoTag ==
    /\ PushTag(9)
    /\ Got(pos + 11, 5) = 5

CommandFrame ==
    /\ VideoTag
    /\ FrameType(pos + 11) = 5
    /\ pos' = Behind(pos + 16, 1)
    /\ CASE Got(pos + 16, 1) = 0 -> Finish("BUFFER_READ_ERROR")
         [] Got(pos + 16, 1) = 1 /\ tag'.size # 6 -> Finish("FLV_VIDEOTAGSIZE_NOTMATCH")
         [] OTHER -> phase' = "previous" /\ UNCHANGED iRet
    /\ UNCHANGED <<sent, file, countsize, templength, h264>>

\* The body of any other codec is left unread.
OtherCodec ==
    /\ VideoTag
    /\ FrameType(pos + 11) # 5 /\ CodecID(pos + 11) # 7
    /\ pos' = pos + 16
    /\ phase' = "previous"
    /\ UNCHANGED <<sent, file, countsize, templength, h264, iRet>>

\* One SPS, one PPS; what else the record holds is left unread.
SequenceHeader ==
    /\ VideoTag
    /\ FrameType(pos + 11) # 5 /\ CodecID(pos + 11) = 7 /\ AVCPacketType(pos + 11) = 0
    /\ LET sizeAt == pos + 22
           spsSize == ReadInto(0, sizeAt, 2)
           spsAt == Behind(sizeAt, 2)
           ppsNumAt == Behind(spsAt, spsSize)
           ppsNum == ReadByteInto(spsSize, ppsNumAt)
           ppsSizeAt == Behind(ppsNumAt, 1)
           ppsSize == ReadInto(ppsNum, ppsSizeAt, 2)
           ppsAt == Behind(ppsSizeAt, 2)
       IN /\ h264' = h264 \o <<Unit(spsAt, spsSize), Unit(ppsAt, ppsSize)>>
          /\ pos' = Behind(ppsAt, ppsSize)
    /\ phase' = "previous"
    /\ UNCHANGED <<sent, file, countsize, templength, iRet>>

Nalus ==
    /\ VideoTag
    /\ FrameType(pos + 11) # 5 /\ CodecID(pos + 11) = 7 /\ AVCPacketType(pos + 11) # 0
    /\ pos' = pos + 16
    /\ countsize' = 5
    /\ templength' = 0
    /\ phase' = "nalu"
    /\ UNCHANGED <<sent, file, h264, iRet>>

\* A turn without progress is the last one over again, and is recorded once.
Progress(len) == (len + 4) % Word # 0
Recorded(unit) ==
    IF ~Progress(unit.len) /\ h264 # <<>> /\ Last(h264) = unit THEN h264 ELSE Append(h264, unit)

\* One byte more than the length is allocated, unless that wraps to none.
Allocated(len) == (len + 1) % Word # 0

CopyNaluCountsPayload ==
    /\ phase = "nalu" /\ countsize < tag.size
    /\ LET len == ReadInto(templength, pos, 4)
           at == Behind(pos, 4)
       IN /\ Allocated(len)
          /\ h264' = Recorded(Unit(at, len))
          /\ pos' = Behind(at, len)
          /\ templength' = len
          /\ countsize' = (countsize + len) % Word
    /\ UNCHANGED <<sent, file, phase, tag, vFlvTag, iRet>>

\* A turn of the loop: neither read is checked, and the counter wraps.  (Memory
\* for a long unit may run out here; the crash that follows is Exit of Session.)
CopyNalu ==
    /\ phase = "nalu" /\ countsize < tag.size
    /\ LET len == ReadInto(templength, pos, 4)
           at == Behind(pos, 4)
       IN /\ Allocated(len)
          /\ h264' = Recorded(Unit(at, len))
          /\ pos' = Behind(at, len)
          /\ templength' = len
          /\ countsize' = (countsize + len + 4) % Word
    /\ UNCHANGED <<sent, file, phase, tag, vFlvTag, iRet>>

\* The unit is read into memory that is not there; what follows is undefined.
NaluStrays ==
    /\ phase = "nalu" /\ countsize < tag.size
    /\ ~Allocated(ReadInto(templength, pos, 4))
    /\ phase' = "stray"
    /\ UNCHANGED <<sent, file, pos, tag, vFlvTag, countsize, templength, h264, iRet>>

NalusCopiedExactly ==
    /\ phase = "nalu" /\ countsize = tag.size
    /\ phase' = "previous"
    /\ UNCHANGED <<sent, file, pos, tag, vFlvTag, countsize, templength, h264, iRet>>

NalusCopied ==
    /\ phase = "nalu" /\ countsize >= tag.size
    /\ phase' = "previous"
    /\ UNCHANGED <<sent, file, pos, tag, vFlvTag, countsize, templength, h264, iRet>>

-----------------------------------------------------------------------------
(***************************************************************************)
(* ParseBody: the PreviousTagSize behind a tag.                            *)
(***************************************************************************)
EndBeforePreviousFails ==
    /\ phase = "previous" /\ Got(pos, 4) < 4
    /\ Finish("FILE_READ_ERROR")
    /\ pos' = Behind(pos, 4)
    /\ UNCHANGED <<sent, file, tag, vFlvTag, countsize, templength, h264>>

EndBeforePrevious ==
    /\ phase = "previous" /\ Got(pos, 4) < 4
    /\ Finish("STREAM_OK")
    /\ pos' = Behind(pos, 4)
    /\ UNCHANGED <<sent, file, tag, vFlvTag, countsize, templength, h264>>

PreviousTagSizeUnread(n) == TRUE
PreviousTagSizeIs(n) == SubSeq(file, pos + 1, pos + 4) = U32(n)

CheckPrevious ==
    /\ phase = "previous" /\ Got(pos, 4) = 4
    /\ IF PreviousTagSizeIs(tag.size + 11)
       THEN phase' = "tag" /\ UNCHANGED iRet
       ELSE Finish("FLV_TAGSIZE_NOTMATCH")
    /\ pos' = pos + 4
    /\ UNCHANGED <<sent, file, tag, vFlvTag, countsize, templength, h264>>

-----------------------------------------------------------------------------
Next ==
    \/ EmptyFile \/ HeaderError \/ ParseHead
    \/ EndOfTags \/ UnknownTag \/ CutTagHeader
    \/ ScriptTag \/ AudioTag
    \/ CutVideoHeader \/ CommandFrame \/ OtherCodec \/ SequenceHeader \/ Nalus
    \/ CopyNalu \/ NaluStrays \/ NalusCopied
    \/ EndBeforePrevious \/ CheckPrevious

Spec == Init /\ [][Next]_vars
FairSpec == Spec /\ WF_vars(Next)
-----------------------------------------------------------------------------
(***************************************************************************)
(* What is on disk, said without the parser.                               *)
(***************************************************************************)
AllRegular == \A i \in DOMAIN sent : Regular(sent[i])

Start(i) == sent[i].start

\* Where the units of the stream lie.
Units == FlattenSeq([i \in DOMAIN sent |-> sent[i].places])

\* How much of a tag must be there for its loss not to be reported.
FixedPart(t) == CASE t.kind = "script" -> 11 [] t.kind = "audio" -> 12
                  [] t.kind = "command" -> 17 [] OTHER -> 16

-----------------------------------------------------------------------------

\* A cut regular stream is reported exactly when the cut is in the FLV header
\* or in the fixed part of a tag: elsewhere, and that is nearly everywhere,
\* the recording counts as complete.
CutsReported ==
    phase = "done" /\ AllRegular =>
        (iRet = "STREAM_OK" <=>
            /\ EndOfFile \notin 1..8
            /\ \A i \in DOMAIN sent :
                  EndOfFile \notin (Start(i) + 1)..(Start(i) + FixedPart(sent[i]) - 1))

\* A tag that may mislead the parser: the first bytes of a payload it leaves unread
\* are the size it looks for behind the tag, or the length of a NAL unit reaches
\* into the tags behind it.
Misleads(t) ==
    \/ t.kind = "h263" /\ Len(t.units) >= 4 /\ SubSeq(t.units, 1, 4) = U32(t.size + 11)
    \/ t.kind = "claiming"

\* A stream received whole whose result is STREAM_OK was read tag by tag to
\* its end, unless a tag in it misleads the parser: a tag left early (another
\* codec, a parameter record with extensions) or whose sizes disagree is caught
\* by the size behind it, because the bytes looked at are not that size by
\* chance.  Only a unit that overruns the last tag of all goes unnoticed.
NothingSkipped ==
    (phase = "done" /\ iRet = "STREAM_OK" /\ file = Stream(sent)) =>
        \/ /\ Len(vFlvTag) = Len(sent)
           /\ \A i \in DOMAIN sent :
                 \/ Regular(sent[i]) \/ sent[i].size = 5
                 \/ i = Len(sent) /\ sent[i].kind \in {"overlong", "longset"}
        \/ \E i \in DOMAIN sent : Misleads(sent[i])

\* How many units, from the first, are in the scratch file as they are in the
\* stream.
Intact ==
    LET units == Units
        good(k) == k \in DOMAIN units /\
            h264[k] = [from |-> units[k].from, len |-> units[k].len, got |-> units[k].len]
    IN CHOOSE n \in 0..Len(h264) :
          (\A k \in 1..n : good(k)) /\ (n < Len(h264) => ~good(n + 1))

D == INSTANCE Demux WITH
        counts <- IF AllRegular THEN [i \in DOMAIN sent |-> Len(sent[i].places)] ELSE <<>>,
        listed <- IF AllRegular THEN Len(vFlvTag) ELSE 0,
        owed <- IF AllRegular THEN UnitsOfFirst(sent, Len(vFlvTag)) - Intact ELSE 0,
        damaged <- AllRegular /\ Len(h264) > Intact,
        finished <- phase = "done"

\* On regular streams, however cut, the parser is a demultiplexer: it copies
\* each unit of a tag once and in order before it lists the next tag, and
\* once it has damaged a unit it does nothing but finish.  An odd stream
\* stands for an empty one.
Demultiplexes == D!Spec

\* The parser comes to an end, at whatever byte the recording does, but for one
\* length of a NAL unit: 2^32 - 4 adds nothing to the counter of the tag's bytes, and
\* the loop writes the same unit for ever.
Parsed == <>(phase \in {"done", "stray"}) \/ <>[](phase = "nalu" /\ templength = Word - 4)
=============================================================================
