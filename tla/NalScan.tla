------------------------------- MODULE NalScan -------------------------------
(***************************************************************************)
(* CheckBitStream (StreamCheck.cpp): the NAL units of an H.264 byte stream *)
(* are found by their start codes, handed to h264bitstream one by one, and *)
(* counted by slice type.  Reading is modelled by the byte, with the end   *)
(* of the file as stdio has it: fgetc at the end returns EOF, which is     *)
(* stored as byte 255, and only then feof is true; fseek makes it false.   *)
(*                                                                         *)
(* Positions are counted from 0.  A position below 0 is memory in front of *)
(* a buffer, which is `ahead'.  The process scans one file after another;  *)
(* its counters are static.                                                *)
(***************************************************************************)
EXTENDS Integers, Sequences, FiniteSets, SequencesExt

CONSTANTS
    Files,              \* the files: [bytes, kinds, info], see ReportMatches
    Ahead,              \* the bytes that may lie in front of a buffer
    MAX_NAL_SIZE,       \* size of the buffers
    MaxScans,           \* bound of the number of files scanned
    NewStream,          \* h264_new()
    ReadNalUnit(_, _),  \* read_nal_unit with read_slice_type set
    NalTypeOf(_),       \* h->nal->nal_unit_type
    SliceTypeOf(_),     \* h->sh->slice_type
    InfoOf(_)           \* h->info

ASSUME NalScanAssumption ==
    /\ \A file \in Files : file.bytes \in Seq(0..255)
    /\ MAX_NAL_SIZE \in Nat /\ MAX_NAL_SIZE > 4
    /\ MaxScans \in Nat
    /\ Ahead \subseteq 0..255

VARIABLES
    pc,         \* "idle", "find", "probe", "scan", "outside", "done"
    file, ahead, scans,
    fp, eof,    \* the position in the file and its end indicator
    buffer,     \* what has been read into the buffer; pos is its length
    h,          \* m_hH264
    offset,     \* of the unit that is being read
    n, vNal,    \* the unit and the list of units
    frames,     \* iFrame, pFrame and bFrame
    gopInfo, streamInfo, media, result

reading == <<fp, eof, buffer>>
report == <<frames, gopInfo, streamInfo, media>>
vars == <<pc, file, ahead, scans, reading, h, offset, n, vNal, report, result>>

NoFrames == [I |-> 0, P |-> 0, B |-> 0]
NoGop == [P |-> 0, B |-> 0]
NoUnit == [offset |-> 0, len |-> 0, startcodeLen |-> 0, nalType |-> 0, sliceType |-> 0]

NoBytes == [bytes |-> <<>>, kinds |-> <<>>, info |-> <<>>]
Size == Len(file.bytes)
pos == Len(buffer)

Init ==
    /\ pc = "idle" /\ file = NoBytes /\ ahead = 0 /\ scans = 0
    /\ fp = 0 /\ eof = FALSE /\ buffer = <<>>
    /\ h = NewStream /\ offset = 0 /\ n = NoUnit /\ vNal = <<>>
    /\ frames = NoFrames /\ gopInfo = NoGop /\ streamInfo = <<>>
    /\ media = InfoOf(NewStream) /\ result = "none"

\* The caller opens the next file; CheckBitStream clears what is static, apart
\* from validPFrame and validBFrame, which nothing reads.
CheckBitStream ==
    /\ pc \in {"idle", "done"} /\ scans < MaxScans
    /\ file' \in Files /\ ahead' \in Ahead /\ scans' = scans + 1
    /\ fp' = 0 /\ eof' = FALSE /\ buffer' = <<>>
    /\ h' = NewStream /\ offset' = 0 /\ n' = NoUnit /\ vNal' = <<>>
    /\ frames' = NoFrames /\ gopInfo' = NoGop /\ streamInfo' = <<>>
    /\ media' = InfoOf(NewStream) /\ result' = "none"
    /\ pc' = "find"

\* CheckBitStream(NULL): the counters are cleared all the same.
NoFile ==
    /\ pc \in {"idle", "done"} /\ scans < MaxScans
    /\ scans' = scans + 1 /\ file' = NoBytes
    /\ frames' = NoFrames /\ gopInfo' = NoGop /\ streamInfo' = <<>>
    /\ media' = InfoOf(NewStream)
    /\ vNal' = <<>> /\ result' = "FILE_NOT_EXSIT" /\ pc' = "done"
    /\ UNCHANGED <<ahead, reading, h, offset, n>>

-----------------------------------------------------------------------------
(* Start codes                                                              *)

ByteAt(bytes, i) == IF i < 0 THEN ahead ELSE bytes[i + 1]

findStartcode3(bytes, i) ==
    ByteAt(bytes, i) = 0 /\ ByteAt(bytes, i + 1) = 0 /\ ByteAt(bytes, i + 2) = 1
findStartcode4_any(bytes, i) == findStartcode3(bytes, i + 1)
findStartcode4(bytes, i) == ByteAt(bytes, i) = 0 /\ findStartcode3(bytes, i + 1)

\* The start code that ends at the end of the bytes, the longer one first.
ShortCodeBehind(bytes) == IF findStartcode3(bytes, Len(bytes) - 3) THEN 3 ELSE 0
CodeBehind(bytes) ==
    IF findStartcode4(bytes, Len(bytes) - 4) THEN 4
    ELSE IF findStartcode3(bytes, Len(bytes) - 3) THEN 3 ELSE 0

\* buffer[pos++] = fgetc(fp).
fgetc ==
    /\ buffer' = Append(buffer, IF fp < Size THEN file.bytes[fp + 1] ELSE 255)
    /\ fp' = IF fp < Size THEN fp + 1 ELSE fp
    /\ eof' = (fp >= Size)

-----------------------------------------------------------------------------
(* findFirstNALU and probeNALU                                              *)

FindByte ==
    /\ pc = "find" /\ ~eof /\ CodeBehind(buffer) = 0 /\ pos < MAX_NAL_SIZE
    /\ fgetc
    /\ UNCHANGED <<pc, file, ahead, scans, h, offset, n, vNal, report, result>>

\* A file with no start code ends here too, with a length of 0 and an offset
\* behind the end.
FirstOffset == pos - CodeBehind(buffer)

Refuse ==
    /\ pc = "find" /\ (eof \/ CodeBehind(buffer) # 0 \/ pos = MAX_NAL_SIZE)
    /\ (pos = MAX_NAL_SIZE \/ FirstOffset < 0)
    /\ result' = "FLV_VIDEOTAG_NO_NALU" /\ pc' = "done"
    /\ UNCHANGED <<file, ahead, scans, reading, h, offset, n, vNal, report>>

FoundFirst ==
    /\ pc = "find" /\ (eof \/ CodeBehind(buffer) # 0)
    /\ pos < MAX_NAL_SIZE /\ FirstOffset >= 0
    /\ n' = [NoUnit EXCEPT !.startcodeLen = CodeBehind(buffer)]
    /\ offset' = FirstOffset
    /\ fp' = FirstOffset /\ eof' = FALSE /\ buffer' = <<>>
    /\ pc' = "probe"
    /\ UNCHANGED <<file, ahead, scans, h, vNal, report, result>>

-----------------------------------------------------------------------------
(* getAnnexbNALU                                                            *)

\* The bytes of the file from fp on, at most k.
Next3or4(k) == SubSeq(file.bytes, fp + 1, IF fp + k < Size THEN fp + k ELSE Size)
StartcodeAtFp ==
    LET four == Next3or4(4)
    IN CASE Len(four) >= 3 /\ findStartcode3(four, 0) -> 3
         [] Len(four) = 4 /\ findStartcode4(four, 0) -> 4
         [] OTHER -> 0

\* The end of an iteration of probeNALU's loop: the unit is listed.
ListUnit(unit, length) ==
    /\ n' = unit
    /\ vNal' = Append(vNal, [unit EXCEPT !.offset = offset])
    /\ offset' = offset + length
    /\ buffer' = <<>>

ReadStartcode ==
    /\ pc = "probe" /\ ~eof /\ StartcodeAtFp # 0
    /\ n' = [n EXCEPT !.startcodeLen = StartcodeAtFp]
    /\ buffer' = SubSeq(file.bytes, fp + 1, fp + StartcodeAtFp)
    /\ fp' = fp + StartcodeAtFp
    /\ pc' = "scan"
    /\ UNCHANGED <<file, ahead, scans, eof, h, offset, vNal, report, result>>

\* No start code where one is expected, or the file ends before: the last
\* unit is listed once more, 0 or -1 bytes further on.
NoStartcode ==
    /\ pc = "probe" /\ ~eof /\ StartcodeAtFp = 0
    /\ LET four == Len(Next3or4(4)) = 4
       IN /\ ListUnit(n, IF four THEN -1 ELSE 0)
          /\ fp' = (IF fp < Size THEN IF four THEN fp + 4 ELSE Size ELSE fp)
          /\ eof' = ~four
    /\ UNCHANGED <<pc, file, ahead, scans, h, report, result>>

AtAnyCode == CodeBehind(buffer) # 0
AtNextCode == pos > n.startcodeLen /\ CodeBehind(buffer) # 0

ScanByte ==
    /\ pc = "scan" /\ ~eof /\ ~AtNextCode /\ pos < MAX_NAL_SIZE
    /\ fgetc
    /\ UNCHANGED <<pc, file, ahead, scans, h, offset, n, vNal, report, result>>

\* A unit that does not fit is written on behind the buffer: anything goes.
Overrun ==
    /\ pc = "scan" /\ ~eof /\ ~AtNextCode /\ pos = MAX_NAL_SIZE
    /\ pc' = "outside"
    /\ UNCHANGED <<file, ahead, scans, reading, h, offset, n, vNal, report, result>>

\* The next start code, or the byte that stands for the end of the file, is
\* given back and the unit is read.
Rewind(code) == IF eof THEN 1 ELSE code

GotNal ==
    LET len == pos - Rewind(CodeBehind(buffer))
        read == ReadNalUnit(h, SubSeq(buffer, n.startcodeLen + 1, len))
    IN /\ pc = "scan" /\ (eof \/ AtNextCode)
       /\ h' = read
       /\ ListUnit([n EXCEPT !.len = len, !.nalType = NalTypeOf(h'),
                             !.sliceType = SliceTypeOf(h')], len)
       /\ fp' = IF eof THEN fp ELSE fp - CodeBehind(buffer)
       /\ pc' = "probe"
       /\ UNCHANGED <<file, ahead, scans, eof, report, result>>

-----------------------------------------------------------------------------
(* PrintNALInfo and PrintStreamInfo                                         *)

FrameKind(unit) ==
    CASE unit.nalType = 5 -> "I"
      [] unit.nalType = 1 /\ unit.sliceType \in {0, 5} -> "P"
      [] unit.nalType = 1 /\ unit.sliceType \in {1, 6} -> "B"
      [] unit.nalType = 1 /\ unit.sliceType \in {2, 7} -> "I"
      [] OTHER -> "none"

\* PrintNALInfo's loop over the units.
CountAnyI(c, kind) ==
    LET frames2 == IF kind = "none" THEN c.frames ELSE [c.frames EXCEPT ![kind] = @ + 1]
    IN [frames |-> frames2,
        gop |-> IF kind = "I" THEN [P |-> frames2["P"], B |-> frames2["B"]] ELSE c.gop]
Count(c, kind) ==
    LET frames2 == IF kind = "none" THEN c.frames ELSE [c.frames EXCEPT ![kind] = @ + 1]
    IN [frames |-> frames2,
        gop |-> IF kind = "I" /\ frames2["I"] = 2
                THEN [P |-> frames2["P"], B |-> frames2["B"]] ELSE c.gop]
Report ==
    LET count == FoldLeft(LAMBDA c, unit : Count(c, FrameKind(unit)),
                          [frames |-> frames, gop |-> NoGop], vNal)
    IN /\ pc = "probe" /\ eof
       /\ frames' = count.frames /\ gopInfo' = count.gop
       /\ streamInfo' = streamInfo \o vNal /\ media' = InfoOf(h)
       /\ result' = "STREAM_OK" /\ pc' = "done"
       /\ UNCHANGED <<file, ahead, scans, reading, h, offset, n, vNal>>

Next ==
    \/ CheckBitStream \/ NoFile
    \/ FindByte \/ Refuse \/ FoundFirst
    \/ ReadStartcode \/ NoStartcode \/ ScanByte \/ Overrun \/ GotNal
    \/ Report

Spec == Init /\ [][Next]_vars

-----------------------------------------------------------------------------
(* What a scan promises, in terms of the file                               *)

Codes == {i \in 0..(Size - 3) : findStartcode3(file.bytes, i)}
Begins == {IF i > 0 /\ ByteAt(file.bytes, i - 1) = 0 THEN i - 1 ELSE i : i \in Codes}
Scanned == pc = "done" /\ result = "STREAM_OK"

\* The units listed are the file from its first start code to its end, cut in
\* front of every start code, of three bytes or four: nothing between two
\* units is lost or listed twice, and the byte that fgetc returns at the end of
\* the file is not part of the last one (probeNALU, getAnnexbNALU).
UnitsFound ==
    Scanned /\ Codes # {} =>
        /\ Len(vNal) = Cardinality(Begins)
        /\ \A k \in DOMAIN vNal :
             /\ vNal[k].offset \in Begins
             /\ vNal[k].offset + vNal[k].len =
                    IF k = Len(vNal) THEN Size ELSE vNal[k + 1].offset

\* A file is refused only when it has no start code in its first MAX_NAL_SIZE
\* bytes, or when its first three bytes and what lies in front of the buffer
\* look like a start code that begins before the file (findFirstNALU); never
\* a file that begins with the long start code, as those do that ParseBodyTag
\* writes.
RefusedOnlyInFront ==
    result = "FLV_VIDEOTAG_NO_NALU" =>
        \/ \A i \in Codes : i + 3 >= MAX_NAL_SIZE
        \/ ahead = 0 /\ \E k \in 1..3 :
              /\ Size >= k /\ file.bytes[k] = 1
              /\ \A i \in 1..(k - 1) : file.bytes[i] = 0

\* file.kinds says what the encoder has put into the file: "I", "P", "B",
\* "none", or "broken" for a slice whose bytes are no NAL unit, as zeros behind
\* it make it.  A broken slice counts as a slice of the type of the last one
\* that was read, P if there is none: its type is read, its header is not.
Intended ==
    FoldLeft(LAMBDA kinds, kind :
        Append(kinds, IF kind # "broken" THEN kind
                      ELSE LET slices == SelectSeq(kinds, LAMBDA x : x # "none")
                           IN IF slices = <<>> THEN "P" ELSE Last(slices)),
        <<>>, file.kinds)
Number(kind, k) == Cardinality({i \in 1..k : Intended[i] = kind})

\* The report of a scan is about this file alone, whatever was scanned before:
\* it counts the frames of each kind, its GOP is what lies in front of the
\* second I frame, and the picture is that of the last sequence parameter set.
ReportMatches ==
    Scanned /\ file.kinds # <<>> =>
        /\ \A kind \in {"I", "P", "B"} : frames[kind] = Number(kind, Len(Intended))
        /\ \A i \in DOMAIN Intended :
             Intended[i] = "I" /\ Number("I", i) = 2 =>
                gopInfo = [P |-> Number("P", i), B |-> Number("B", i)]
        /\ Number("I", Len(Intended)) < 2 => gopInfo = NoGop
        /\ media = file.info
        /\ streamInfo = vNal

\* Every unit takes the scanner forward, although it gives back the start code
\* behind it: no unit is empty, and after a unit the file stands where the
\* offsets, which are summed up apart from it, say the next one begins
\* (rewind and pos in getAnnexbNALU, offset in probeNALU).
Advances ==
    [][pc = "scan" /\ pc' = "probe" => offset' > offset /\ fp' = offset']_vars
=============================================================================
