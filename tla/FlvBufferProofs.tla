-------------------------- MODULE FlvBufferProofs --------------------------
(***************************************************************************)
(* That the variant which reads a buffer is a demultiplexer, for every     *)
(* stream and wherever it is cut.  The reason is arithmetic on the layout: *)
(* a tag starts where the layouts of those before it end (AtIs), what is   *)
(* there is the tag's own head and body as far as the buffer goes          *)
(* (TagRead), and fields read are the numbers written (TwoBack, ThreeBack, *)
(* FourBack).  So the parser keeps its place (Where), whatever the tags    *)
(* hold; on regular ones the counter of a tag's bytes is below its size    *)
(* exactly as long as there is a unit left (UnitRead), and that unit is    *)
(* the next of the stream (Rest).  Progress says both.                     *)
(***************************************************************************)
EXTENDS FlvBuffer, FlvFormatProofs

-----------------------------------------------------------------------------
(* Numbers and units by the parser's names.                                *)

LEMMA BigIs ==
  ASSUME NEW p, NEW n
  PROVE  Big(p, n) = Number(buffer, p, n)
BY DEF Big, Number, Digits

\* PlacesAre, with the parser's units.
LEMMA PlacedUnits ==
  ASSUME NEW tg \in Tags, NEW start \in Nat
  PROVE  /\ IsSeq(Places(tg, start)) /\ Len(Places(tg, start)) \in Nat
         /\ tg.kind = "nalus" =>
              /\ Len(Places(tg, start)) = Len(tg.units)
              /\ \A k \in 0..(Len(tg.units) - 1) :
                   Places(tg, start)[k + 1]
                     = Unit(start + 11 + Lot(tg.units, k) + 4, tg.units[k + 1])
         /\ tg.kind = "config" =>
              Places(tg, start)
                = <<Unit(start + 24, tg.units[1]), Unit(start + 27 + tg.units[1], tg.units[2])>>
         /\ tg.kind \notin {"nalus", "config"} => Places(tg, start) = <<>>
BY PlacesAre, Zenon DEF Unit, UnitAt

-----------------------------------------------------------------------------
(* What the parser reads.                                                  *)

\* The piece is cut from a stream of these tags.
Cut(tags, w) ==
  /\ tags \in Pieces /\ w \in BOOLEAN
  /\ sent = Laid(tags, First(w))
  /\ \E size \in 0..Len(Sending(tags, w)) : buffer = SubSeq(Sending(tags, w), 1, size)

\* The buffer holds the stream as far as it goes.
Holds(tags, w) ==
  /\ tags \in Seq(Tags) /\ w \in BOOLEAN /\ Len(tags) \in Nat
  /\ IsSeq(buffer) /\ length \in Nat /\ length <= At(tags, w, Len(tags) + 1)
  /\ \A i \in 1..length : buffer[i] = Sending(tags, w)[i]
  /\ LaidOut(sent, tags, w)

\* So much is known of a piece that was cut from a stream.
LEMMA CutHolds ==
  ASSUME NEW tags, NEW w, Cut(tags, w)
  PROVE  Holds(tags, w)
<1>1. tags \in Seq(Tags) /\ w \in BOOLEAN  BY FlvBufferAssumption DEF Cut
<1>2. PICK size \in 0..Len(Sending(tags, w)) : buffer = SubSeq(Sending(tags, w), 1, size)
  BY DEF Cut
<1>3. IsSeq(Sending(tags, w)) /\ Len(Sending(tags, w)) = At(tags, w, Len(tags) + 1)
  BY <1>1, SendingIs
<1>4. Len(Sending(tags, w)) \in Nat  BY <1>3, SeqFacts
<1>5. IsSeq(buffer) /\ length = size /\ \A i \in 1..size : buffer[i] = Sending(tags, w)[i]
  BY <1>2, <1>3, FirstOnes DEF length
<1>6. LaidOut(sent, tags, w)  BY <1>1, LaidIs DEF Cut
<1>7. Len(tags) \in Nat  BY <1>1, PlacedPieced
<1>8. length \in Nat /\ length <= At(tags, w, Len(tags) + 1)  BY <1>3, <1>4, <1>5
<1>. QED BY <1>1, <1>5, <1>6, <1>7, <1>8 DEF Holds

\* The header is known for one where it is there.
LEMMA HeadRead ==
  ASSUME NEW tags, NEW w, Holds(tags, w), length >= 12
  PROVE  HeaderOK <=> w
<1>0. tags \in Seq(Tags) /\ w \in BOOLEAN /\ IsSeq(buffer) /\ length \in Nat  BY DEF Holds
<1>1. /\ 1 \in 1..length /\ 2 \in 1..length /\ 3 \in 1..length /\ 9 \in 1..length
      /\ 10 \in 1..length /\ 11 \in 1..length /\ 12 \in 1..length
  BY <1>0
<1>2. \A i \in 1..length : buffer[i] = Sending(tags, w)[i]  BY DEF Holds
<1>3. CASE ~w
  <2>1. buffer[1] = 0  BY <1>0, <1>1, <1>2, <1>3, SendingIs
  <2>2. 0 + 1 = 1 /\ 0 \notin {70, 102}  OBVIOUS
  <2>3. Byte(0) \notin {70, 102}  BY <2>1, <2>2 DEF Byte
  <2>. QED BY <1>3, <2>3 DEF HeaderOK
<1>4. CASE w
  <2>1. /\ buffer[1] = 70 /\ buffer[2] = 76 /\ buffer[3] = 86
        /\ buffer[9] = 9 /\ buffer[10] = 0 /\ buffer[11] = 0 /\ buffer[12] = 0
    <3>. DEFINE s == Sending(tags, w)
    <3>1. /\ s[1] = 70 /\ s[2] = 76 /\ s[3] = 86
          /\ s[9] = 9 /\ s[10] = 0 /\ s[11] = 0 /\ s[12] = 0
      BY <1>0, <1>4, SendingIs, Zenon
    <3>. HIDE DEF s
    <3>2. \A i \in 1..length : buffer[i] = s[i]  BY <1>2 DEF s
    <3>. QED BY <1>1, <3>1, <3>2
  <2>2. Byte(0) = 70 /\ Byte(1) = 76 /\ Byte(2) = 86
    <3>1. 0 + 1 = 1 /\ 1 + 1 = 2 /\ 2 + 1 = 3  OBVIOUS
    <3>. QED BY <2>1, <3>1 DEF Byte
  <2>3. SubSeq(buffer, 9, 12) = <<9, 0, 0, 0>>
    <3>. DEFINE s == SubSeq(buffer, 9, 12)
    <3>1. 8 \in Nat /\ 4 \in Nat /\ 8 + 4 <= Len(buffer) /\ 8 + 1 = 9 /\ 8 + 4 = 12
          /\ 8 + 2 = 10 /\ 8 + 3 = 11 /\ 1 \in 1..4 /\ 2 \in 1..4 /\ 3 \in 1..4 /\ 4 \in 1..4
      BY <1>0 DEF length
    <3>2. /\ Len(SubSeq(buffer, 8 + 1, 8 + 4)) = 4
          /\ \A i \in 1..4 : SubSeq(buffer, 8 + 1, 8 + 4)[i] = buffer[8 + i]
      BY <1>0, <3>1, MiddleIs
    <3>3. Len(s) = 4 /\ s[1] = 9 /\ s[2] = 0 /\ s[3] = 0 /\ s[4] = 0  BY <2>1, <3>1, <3>2
    <3>4. \E S : s \in Seq(S)
      <4>1. PICK S : buffer \in Seq(S)  BY <1>0 DEF IsSeq
      <4>2. Len(buffer) \in Nat /\ \A i \in 1..Len(buffer) : buffer[i] \in S
        BY <4>1, LenProperties, ElementOfSeq
      <4>3. \A i \in 9..12 : buffer[i] \in S  BY <4>2 DEF length
      <4>. QED BY <4>3, SubSeqProperties, 9 \in Int, 12 \in Int
    <3>. HIDE DEF s
    <3>5. s = <<9, 0, 0, 0>>
      <4>1. PICK S : s \in Seq(S)  BY <3>4
      <4>2. s \in [1..4 -> S] /\ s = [i \in 1..4 |-> s[i]]  BY <4>1, <3>3, LenProperties
      <4>. QED BY <3>3, <4>2
    <3>. QED BY <3>5 DEF s
  <2>4. Byte(0) \in {70, 102} /\ Byte(1) \in {76, 108} /\ Byte(2) \in {86, 118}  BY <2>2
  <2>. QED BY <1>4, <2>3, <2>4 DEF HeaderOK
<1>. QED BY <1>0, <1>3, <1>4

\* What stands in front of a tag, and what it holds.
LEMMA TagRead ==
  ASSUME NEW tags, NEW w, Holds(tags, w), NEW k \in 1..Len(tags),
         NEW p, p = At(tags, w, k), p + 11 <= length
  PROVE  /\ p \in Nat /\ Byte(p) = Type(tags[k]) /\ Big(p + 1, 3) = DataSize(tags[k])
         /\ \A j \in 1..DataSize(tags[k]) :
              p + 11 + j <= length => buffer[p + 11 + j] = Body(tags[k])[j]
<1>0. /\ tags \in Seq(Tags) /\ w \in BOOLEAN /\ IsSeq(buffer) /\ length \in Nat
      /\ \A i \in 1..length : buffer[i] = Sending(tags, w)[i]
  BY DEF Holds
<1>. DEFINE d == DataSize(tags[k])
<1>1. tags[k] \in Tags /\ p \in Nat /\ d \in Nat  BY <1>0, PlacedPieced, BodyIs
<1>2. \A j \in 1..(15 + d) : Sending(tags, w)[p + j] = Layout(tags[k])[j]
  BY <1>0, SendingIs
<1>3. /\ Layout(tags[k])[1] = Type(tags[k])
      /\ \A i \in 1..3 : Layout(tags[k])[1 + i] = U24(d)[i]
      /\ \A i \in 1..d : Layout(tags[k])[11 + i] = Body(tags[k])[i]
  BY <1>1, LayoutIs
<1>4. DataSize(tags[k]) = d  OBVIOUS
<1>. HIDE DEF d
<1>5. ASSUME NEW j \in 1..(15 + d), p + j <= length
      PROVE  buffer[p + j] = Layout(tags[k])[j]
  <2>1. p + j \in 1..length  BY <1>0, <1>1, <1>5
  <2>. QED BY <1>0, <1>2, <2>1
<1>6. Byte(p) = Type(tags[k])
  <2>1. 1 \in 1..(15 + d) /\ p + 1 <= length  BY <1>0, <1>1
  <2>. QED BY <1>3, <1>5, <2>1 DEF Byte
<1>7. Big(p + 1, 3) = d
  <2>1. p + 1 \in Nat /\ (p + 1) + 3 <= length  BY <1>0, <1>1
  <2>2. \A i \in 1..3 : (p + 1) + i = p + (1 + i) /\ 1 + i \in 1..(15 + d) /\ p + (1 + i) <= length
    BY <1>0, <1>1
  <2>3. \A i \in 1..3 : buffer[(p + 1) + i] = U24(d)[i]  BY <1>3, <1>5, <2>2
  <2>. QED BY <1>0, <1>1, <2>1, <2>3, ThreeBack, BigIs DEF length
<1>8. ASSUME NEW j \in 1..d, p + 11 + j <= length
      PROVE  buffer[p + 11 + j] = Body(tags[k])[j]
  <2>1. p + 11 + j = p + (11 + j) /\ 11 + j \in 1..(15 + d)  BY <1>1
  <2>. QED BY <1>3, <1>5, <1>8, <2>1
<1>. QED BY <1>1, <1>4, <1>6, <1>7, <1>8

-----------------------------------------------------------------------------
(* Where the parser is.                                                    *)

\* Between a header or a tag and the PreviousTagSize behind it, it is where
\* the tags it has listed say, in front of a tag it is where that tag starts,
\* unless it has taken a header for none, or none for one, in a piece that
\* ends before twelve bytes.
Where(tags, w) ==
  /\ IsSeq(vFlvTag) /\ Len(vFlvTag) <= Len(tags)
  /\ phase = "head" => Len(vFlvTag) = 0
  /\ phase = "tag" => \/ bufferRead = At(tags, w, Len(vFlvTag) + 1)
                      \/ length < 12 /\ bufferRead \in {4, 13}
  /\ phase \in {"nalu", "previous"} =>
       Len(vFlvTag) >= 1 /\ tag.size = DataSize(tags[Len(vFlvTag)])
  /\ phase = "nalu" => /\ bufferRead = At(tags, w, Len(vFlvTag)) + 11
                       /\ bufferRead + tag.size <= length
  /\ phase = "previous" => bufferRead = At(tags, w, Len(vFlvTag)) + 11 + tag.size

\* It is in front of tag n, all of whose head is there.
InFront(tags, w, n) ==
  /\ n = Len(vFlvTag) + 1 /\ n \in 1..Len(tags)
  /\ bufferRead = At(tags, w, n) /\ bufferRead \in Nat /\ bufferRead + 11 <= length
  /\ DataSize(tags[n]) \in Nat /\ At(tags, w, n + 1) = bufferRead + 15 + DataSize(tags[n])

\* In front of a tag means in front of the next one of the stream.
LEMMA FrontOfTag ==
  ASSUME NEW tags, NEW w, Holds(tags, w), Where(tags, w), phase = "tag", More
  PROVE  InFront(tags, w, Len(vFlvTag) + 1)
<1>. DEFINE n == Len(vFlvTag) + 1
<1>0. /\ tags \in Seq(Tags) /\ w \in BOOLEAN /\ Len(tags) \in Nat /\ length \in Nat
      /\ length <= At(tags, w, Len(tags) + 1) /\ Len(vFlvTag) \in Nat
      /\ Len(vFlvTag) <= Len(tags)
  BY SeqFacts DEF Holds, Where
<1>1. bufferRead = At(tags, w, n)
  <2>1. ~(length < 12 /\ bufferRead \in {4, 13})  BY <1>0 DEF More
  <2>. QED BY <2>1 DEF Where
<1>2. n \in 1..(Len(tags) + 1)  BY <1>0
<1>3. bufferRead \in Nat  BY <1>0, <1>1, <1>2, AtIs
<1>4. bufferRead + 11 < length  BY DEF More
<1>5. n # Len(tags) + 1  BY <1>0, <1>1, <1>3, <1>4
<1>6. n \in 1..Len(tags) /\ n = Len(vFlvTag) + 1  BY <1>0, <1>2, <1>5
<1>7. bufferRead + 11 <= length  BY <1>0, <1>3, <1>4
<1>. HIDE DEF n
<1>8. DataSize(tags[n]) \in Nat  BY <1>0, <1>6, PlacedPieced, BodyIs
<1>9. At(tags, w, n + 1) = bufferRead + 15 + DataSize(tags[n])  BY <1>0, <1>1, <1>6, AtIs
<1>10. InFront(tags, w, n)  BY <1>1, <1>3, <1>6, <1>7, <1>8, <1>9 DEF InFront
<1>. QED BY <1>10 DEF n

\* The tag it lists is that one.
Lists(tags, n) ==
  /\ tag' = [type |-> Type(tags[n]), size |-> DataSize(tags[n])]
  /\ IsSeq(vFlvTag') /\ Len(vFlvTag') = n

\* PushTag lists the tag the parser is in front of.
LEMMA TagPushed ==
  ASSUME NEW tags, NEW w, Holds(tags, w), Where(tags, w), PushTag
  PROVE  InFront(tags, w, Len(vFlvTag) + 1) /\ Lists(tags, Len(vFlvTag) + 1)
<1>. DEFINE n == Len(vFlvTag) + 1
<1>1. InFront(tags, w, n)  BY FrontOfTag DEF PushTag
<1>2. n \in 1..Len(tags) /\ bufferRead = At(tags, w, n) /\ bufferRead + 11 <= length
  BY <1>1 DEF InFront
<1>3. IsSeq(vFlvTag)  BY DEF Where
<1>4. vFlvTag' = Append(vFlvTag, tag')  BY DEF PushTag
<1>5. IsSeq(vFlvTag') /\ Len(vFlvTag') = n  BY <1>3, <1>4, AppendIs
<1>. HIDE DEF n
<1>6. Byte(bufferRead) = Type(tags[n]) /\ Big(bufferRead + 1, 3) = DataSize(tags[n])
  BY <1>2, TagRead
<1>7. tag' = [type |-> Type(tags[n]), size |-> DataSize(tags[n])]  BY <1>6 DEF PushTag
<1>8. Lists(tags, n)  BY <1>5, <1>7 DEF Lists
<1>. QED BY <1>1, <1>8 DEF n

\* Behind the body of the tag just listed, at its NAL units, or nowhere at all.
LEMMA TagLeft ==
  ASSUME NEW tags, NEW w, Holds(tags, w), Where(tags, w), PushTag,
         UNCHANGED <<sent, buffer>>,
         \/ phase' = "previous" /\ bufferRead' = BodyAt + tag'.size
         \/ phase' = "tag" /\ bufferRead' = BodyAt + tag'.size + 4
         \/ phase' = "nalu" /\ bufferRead' = BodyAt /\ BodyAt + tag'.size <= length
         \/ phase' \in {"done", "stray"}
  PROVE  Where(tags, w)'
<1>. DEFINE n == Len(vFlvTag) + 1
<1>1. InFront(tags, w, n) /\ Lists(tags, n)  BY TagPushed
<1>. HIDE DEF n
<1>2. /\ n \in 1..Len(tags) /\ bufferRead = At(tags, w, n) /\ bufferRead \in Nat
      /\ DataSize(tags[n]) \in Nat /\ At(tags, w, n + 1) = bufferRead + 15 + DataSize(tags[n])
  BY <1>1 DEF InFront
<1>3. IsSeq(vFlvTag') /\ Len(vFlvTag') = n /\ tag'.size = DataSize(tags[n])
  BY <1>1 DEF Lists
<1>4. n >= 1 /\ n <= Len(tags) /\ Len(tags) \in Nat  BY <1>2 DEF Holds
<1>5. length' = length  BY DEF length
<1>6. CASE phase' = "previous" /\ bufferRead' = BodyAt + tag'.size
  BY <1>2, <1>3, <1>4, <1>6 DEF Where, BodyAt
<1>7. CASE phase' = "tag" /\ bufferRead' = BodyAt + tag'.size + 4
  <2>1. bufferRead' = At(tags, w, n + 1)  BY <1>2, <1>3, <1>7 DEF BodyAt
  <2>. QED BY <1>3, <1>4, <1>7, <2>1 DEF Where
<1>8. CASE phase' = "nalu" /\ bufferRead' = BodyAt /\ BodyAt + tag'.size <= length
  <2>1. bufferRead' = At(tags, w, n) + 11 /\ bufferRead' + tag'.size <= length
    BY <1>2, <1>8 DEF BodyAt
  <2>. QED BY <1>3, <1>4, <1>5, <1>8, <2>1 DEF Where
<1>9. CASE phase' \in {"done", "stray"}  BY <1>3, <1>4, <1>9 DEF Where
<1>. QED BY <1>6, <1>7, <1>8, <1>9

\* The piece stays what it is.
LEMMA PieceKept ==
  ASSUME Next
  PROVE  UNCHANGED <<sent, buffer>> /\ length' = length
<1>1. UNCHANGED <<sent, buffer>>
  BY DEF Next, EmptyBuffer, ParseHead, EndOfTags, UnknownTag, SkipTag, CutBody, AudioTag,
     CommandFrame, OtherCodec, SequenceHeader, Nalus, CopyNalu, NaluStrays, NalusCopied,
     CheckPrevious
<1>. QED BY <1>1 DEF length

\* No step takes the parser out of step.
LEMMA WhereKept ==
  ASSUME NEW tags, NEW w, Holds(tags, w), Where(tags, w), Next
  PROVE  Where(tags, w)'
<1>. USE PieceKept
<1>0. UNCHANGED <<sent, buffer>> /\ length' = length  OBVIOUS
<1>1. CASE EmptyBuffer
  BY <1>0, <1>1 DEF EmptyBuffer, Finish, Where
<1>2. CASE ParseHead
  <2>1. /\ phase = "head" /\ phase' = "tag" /\ vFlvTag' = vFlvTag
        /\ Len(vFlvTag) = 0 /\ Len(vFlvTag) + 1 = 1
    BY <1>2 DEF ParseHead, Where
  <2>2. PICK ok \in IF Inside(0, 12) THEN {HeaderOK} ELSE BOOLEAN :
          bufferRead' = (IF ok THEN 9 ELSE 0) + 4
    BY <1>2 DEF ParseHead
  <2>3. CASE Inside(0, 12)
    <3>1. length >= 12  BY <2>3 DEF Inside, Holds
    <3>2. ok <=> w  BY <2>2, <2>3, <3>1, HeadRead
    <3>3. bufferRead' = First(w)  BY <2>2, <3>2 DEF First
    <3>4. bufferRead' = At(tags, w, 1)  BY <3>3, AtIs DEF Holds
    <3>. QED BY <2>1, <3>4 DEF Where
  <2>4. CASE ~Inside(0, 12)
    <3>1. length < 12  BY <2>4 DEF Inside, Holds
    <3>2. bufferRead' \in {4, 13}  BY <2>2
    <3>. QED BY <1>0, <2>1, <3>1, <3>2 DEF Where
  <2>. QED BY <2>3, <2>4
<1>3. CASE EndOfTags \/ UnknownTag
  BY <1>0, <1>3 DEF EndOfTags, UnknownTag, Finish, Where
<1>4. CASE SkipTag
  <2>1. PushTag /\ phase' = "tag" /\ bufferRead' = BodyAt + tag'.size + 4
    BY <1>4 DEF SkipTag, PushTag, BodyAt
  <2>. QED BY <1>0, <2>1, TagLeft
<1>5. CASE CutBody
  <2>1. PushTag /\ phase' = "done"  BY <1>5 DEF CutBody, Finish
  <2>. QED BY <1>0, <2>1, TagLeft
<1>6. CASE AudioTag \/ OtherCodec
  <2>1. PushTag /\ phase' = "previous" /\ bufferRead' = BodyAt + tag'.size
    BY <1>6 DEF AudioTag, OtherCodec, VideoTag, WholeTag, LeaveTag
  <2>. QED BY <1>0, <2>1, TagLeft
<1>7. CASE CommandFrame
  <2>1. /\ PushTag
        /\ \/ phase' = "previous" /\ bufferRead' = BodyAt + tag'.size
           \/ phase' = "done"
    BY <1>7 DEF CommandFrame, VideoTag, WholeTag, LeaveTag, Finish
  <2>. QED BY <1>0, <2>1, TagLeft
<1>8. CASE SequenceHeader
  <2>1. /\ PushTag
        /\ \/ phase' = "previous" /\ bufferRead' = BodyAt + tag'.size
           \/ phase' = "stray"
    BY <1>8 DEF SequenceHeader, VideoTag, WholeTag, LeaveTag
  <2>. QED BY <1>0, <2>1, TagLeft
<1>9. CASE Nalus
  <2>1. PushTag /\ phase' = "nalu" /\ bufferRead' = BodyAt /\ BodyAt + tag'.size <= length
    BY <1>9 DEF Nalus, VideoTag, WholeTag, Inside
  <2>. QED BY <1>0, <2>1, TagLeft
<1>10. CASE CopyNalu
  <2>1. UNCHANGED <<bufferRead, phase, tag, vFlvTag>>  BY <1>10 DEF CopyNalu
  <2>. QED BY <1>0, <2>1 DEF Where
<1>11. CASE NaluStrays
  <2>1. vFlvTag' = vFlvTag /\ phase' = "stray"  BY <1>11 DEF NaluStrays
  <2>. QED BY <2>1 DEF Where
<1>12. CASE NalusCopied
  <2>1. /\ phase = "nalu" /\ phase' = "previous" /\ bufferRead' = bufferRead + tag.size
        /\ vFlvTag' = vFlvTag /\ tag' = tag
    BY <1>12 DEF NalusCopied
  <2>. QED BY <2>1 DEF Where
<1>13. CASE CheckPrevious
  <2>1. phase = "previous" /\ vFlvTag' = vFlvTag /\ tag' = tag  BY <1>13 DEF CheckPrevious
  <2>2. \/ phase' = "tag" /\ bufferRead' = bufferRead + 4
        \/ phase' = "done"
    BY <1>13 DEF CheckPrevious, Finish
  <2>. DEFINE n == Len(vFlvTag)
  <2>3. /\ IsSeq(vFlvTag) /\ n <= Len(tags) /\ n >= 1 /\ tag.size = DataSize(tags[n])
        /\ bufferRead = At(tags, w, n) + 11 + tag.size
    BY <2>1 DEF Where
  <2>4. n \in 1..Len(tags)  BY <2>3, SeqFacts DEF Holds
  <2>. HIDE DEF n
  <2>5. /\ At(tags, w, n + 1) = At(tags, w, n) + 15 + DataSize(tags[n])
        /\ At(tags, w, n) \in Nat /\ DataSize(tags[n]) \in Nat
    BY <2>4, AtIs, PlacedPieced, BodyIs DEF Holds
  <2>6. bufferRead + 4 = At(tags, w, n + 1)  BY <2>3, <2>5
  <2>7. CASE phase' = "tag" /\ bufferRead' = bufferRead + 4
    <3>1. bufferRead' = At(tags, w, Len(vFlvTag') + 1)  BY <2>1, <2>6, <2>7 DEF n
    <3>. QED BY <2>1, <2>3, <2>7, <3>1 DEF Where, n
  <2>8. CASE phase' = "done"  BY <2>1, <2>3, <2>8 DEF Where, n
  <2>. QED BY <2>2, <2>7, <2>8
<1>. QED BY <1>1, <1>2, <1>3, <1>4, <1>5, <1>6, <1>7, <1>8, <1>9, <1>10, <1>11, <1>12, <1>13
     DEF Next

\* The piece, and where the parser is in it.
Placement == \E tags, w : Cut(tags, w) /\ Where(tags, w)

\* A piece that stays the same is still one.
LEMMA CutKept ==
  ASSUME NEW tags, NEW w, Cut(tags, w), UNCHANGED <<sent, buffer>>
  PROVE  Cut(tags, w)'
BY DEF Cut

\* At first there is a piece, and the parser at its head.
LEMMA InitCuts ==
  ASSUME Init
  PROVE  \E tags, w : Cut(tags, w) /\ Where(tags, w)
<1>1. PICK tags \in Pieces, w \in BOOLEAN :
        /\ sent = Laid(tags, IF w THEN 13 ELSE 4)
        /\ \E size \in 0..Len(IF w THEN Stream(tags) ELSE Headerless(tags)) :
             buffer = SubSeq(IF w THEN Stream(tags) ELSE Headerless(tags), 1, size)
  BY DEF Init
<1>2. Cut(tags, w)  BY <1>1 DEF Cut, First, Sending
<1>3. Len(tags) \in Nat  BY <1>2, CutHolds DEF Holds
<1>4. IsSeq(vFlvTag) /\ Len(vFlvTag) = 0 /\ phase = "head"  BY EmptyIs DEF Init
<1>5. Where(tags, w)  BY <1>3, <1>4 DEF Where
<1>. QED BY <1>2, <1>5

\* The parser keeps its place in the stream.
THEOREM KeepsPlace == Spec => []Placement
<1>1. Init => Placement  BY InitCuts DEF Placement
<1>2. ASSUME Placement, [Next]_vars PROVE Placement'
  <2>1. PICK tags, w : Cut(tags, w) /\ Where(tags, w)  BY <1>2 DEF Placement
  <2>2. CASE Next
    <3>1. Holds(tags, w)  BY <2>1, CutHolds
    <3>2. Where(tags, w)'  BY <2>1, <2>2, <3>1, WhereKept
    <3>3. Cut(tags, w)'  BY <2>1, <2>2, PieceKept, CutKept
    <3>. QED BY <3>2, <3>3 DEF Placement
  <2>3. CASE UNCHANGED vars
    <3>1. Cut(tags, w)'  BY <2>1, <2>3 DEF vars, Cut
    <3>2. Where(tags, w)'  BY <2>1, <2>3 DEF vars, Where, length
    <3>. QED BY <3>1, <3>2 DEF Placement
  <2>. QED BY <1>2, <2>2, <2>3
<1>. QED BY <1>1, <1>2, PTL DEF Spec

\* Before the parser reads a tag, it is where that tag starts and has listed
\* those before it, for every stream however it is cut.
THEOREM ParserInStep == Spec => []InStep
<1>1. ASSUME Placement PROVE InStep
  <2>1. PICK tags, w : Cut(tags, w) /\ Where(tags, w)  BY <1>1 DEF Placement
  <2>2. Holds(tags, w)  BY <2>1, CutHolds
  <2>3. SUFFICES ASSUME phase = "tag", More
                 PROVE  /\ Len(vFlvTag) < Len(sent)
                        /\ bufferRead = sent[Len(vFlvTag) + 1].start
    BY DEF InStep
  <2>. DEFINE n == Len(vFlvTag) + 1
  <2>4. InFront(tags, w, n)  BY <2>1, <2>2, <2>3, FrontOfTag
  <2>5. Len(vFlvTag) \in Nat  BY <2>1, SeqFacts DEF Where
  <2>6. LaidOut(sent, tags, w)  BY <2>2 DEF Holds
  <2>7. n \in 1..Len(tags) /\ bufferRead = At(tags, w, n)  BY <2>4 DEF InFront
  <2>8. sent[n].start = At(tags, w, n) /\ Len(sent) = Len(tags)  BY <2>6, <2>7 DEF LaidOut
  <2>. QED BY <2>5, <2>7, <2>8
<1>. QED BY <1>1, KeepsPlace, PTL

-----------------------------------------------------------------------------
(* What it copies.                                                         *)

Regulars(tags) == \A i \in 1..Len(tags) : Regular(tags[i])

\* The units copied so far are the first of the stream.
Own(copies, units) ==
  /\ IsSeq(copies) /\ Len(copies) <= Len(units)
  /\ \A j \in 1..Len(copies) : copies[j] = units[j]

\* Tag by tag; amid a tag the pointer is in front of the next unit.
Rest(tags, w) ==
  /\ phase # "stray"
  /\ Own(h264, FlattenSeq(Placed(tags, w)))
  /\ phase \in {"head", "tag", "previous"} => Len(h264) = Count(tags, w, Len(vFlvTag))
  /\ phase = "nalu" =>
       /\ tags[Len(vFlvTag)].kind = "nalus"
       /\ \E k \in 0..Len(tags[Len(vFlvTag)].units) :
            /\ Len(h264) = Count(tags, w, Len(vFlvTag) - 1) + k
            /\ countsize = Lot(tags[Len(vFlvTag)].units, k)
            /\ pointer = bufferRead + countsize

\* The piece is regular if the tags it was cut from are.
LEMMA RegularsAre ==
  ASSUME NEW tags, NEW w, LaidOut(sent, tags, w)
  PROVE  AllRegular <=> Regulars(tags)
<1>1. DOMAIN sent = 1..Len(tags)  BY DEF LaidOut
<1>2. \A i \in 1..Len(tags) : sent[i].kind = tags[i].kind /\ sent[i].units = tags[i].units
  BY DEF LaidOut
<1>3. \A i \in 1..Len(tags) : Regular(sent[i]) <=> Regular(tags[i])
  BY <1>2 DEF Regular
<1>. QED BY <1>1, <1>3 DEF AllRegular, Regulars

\* One more unit of a tag, the next one.
LEMMA OwnMore ==
  ASSUME NEW tags, NEW w, NEW m, NEW places, ThoseNext(tags, w, m, places),
         NEW copies, Own(copies, FlattenSeq(Placed(tags, w))),
         NEW k \in Nat, Len(places) \in Nat, k < Len(places), Count(tags, w, m) \in Nat,
         Len(FlattenSeq(Placed(tags, w))) \in Nat,
         Len(copies) = Count(tags, w, m) + k, NEW x, x = places[k + 1]
  PROVE  /\ Own(Append(copies, x), FlattenSeq(Placed(tags, w)))
         /\ Len(Append(copies, x)) = Count(tags, w, m) + (k + 1)
<1>. DEFINE units == FlattenSeq(Placed(tags, w))
            c == Count(tags, w, m)
            s == Append(copies, x)
<1>1. /\ Count(tags, w, m + 1) = c + Len(places) /\ Count(tags, w, m + 1) <= Len(units)
      /\ \A j \in 1..Len(places) : units[c + j] = places[j]
  BY DEF ThoseNext
<1>2. IsSeq(copies) /\ \A j \in 1..Len(copies) : copies[j] = units[j]  BY DEF Own
<1>3. c \in Nat /\ Len(copies) = c + k /\ Len(units) \in Nat  OBVIOUS
<1>. HIDE DEF units, c
<1>4. /\ IsSeq(s) /\ Len(s) = Len(copies) + 1 /\ s[Len(copies) + 1] = x
      /\ \A j \in 1..Len(copies) : s[j] = copies[j]
  BY <1>2, AppendIs
<1>. HIDE DEF s
<1>5. k + 1 \in 1..Len(places) /\ Len(copies) + 1 = c + (k + 1)  BY <1>3
<1>6. s[c + (k + 1)] = units[c + (k + 1)]  BY <1>1, <1>4, <1>5
<1>7. ASSUME NEW j \in 1..(c + (k + 1)) PROVE s[j] = units[j]
  <2>1. CASE j = c + (k + 1)  BY <1>6, <2>1
  <2>2. CASE j # c + (k + 1)
    <3>1. j \in 1..Len(copies)  BY <1>3, <2>2
    <3>. QED BY <1>2, <1>4, <3>1
  <2>. QED BY <2>1, <2>2
<1>8. Len(s) = c + (k + 1)  BY <1>4, <1>5
<1>9. c + (k + 1) <= Len(units)  BY <1>1, <1>3
<1>. QED BY <1>4, <1>7, <1>8, <1>9 DEF Own, units, c, s

\* The numbers of units are numbers, and a tag's units the next ones.
LEMMA UnitsNext ==
  ASSUME NEW tags, NEW w, Holds(tags, w), NEW n \in 1..Len(tags)
  PROVE  /\ tags[n] \in Tags /\ At(tags, w, n) \in Nat
         /\ Count(tags, w, n - 1) \in Nat /\ Count(tags, w, n) \in Nat
         /\ Len(FlattenSeq(Placed(tags, w))) \in Nat
         /\ Len(Places(tags[n], At(tags, w, n))) \in Nat
         /\ ThoseNext(tags, w, n - 1, Places(tags[n], At(tags, w, n)))
         /\ Count(tags, w, n) = Count(tags, w, n - 1) + Len(Places(tags[n], At(tags, w, n)))
<1>0. tags \in Seq(Tags) /\ w \in BOOLEAN /\ Len(tags) \in Nat  BY DEF Holds
<1>1. n - 1 \in 0..(Len(tags) - 1) /\ n - 1 \in 0..Len(tags) /\ n \in 0..Len(tags) /\ (n - 1) + 1 = n
  BY <1>0
<1>2. tags[n] \in Tags /\ At(tags, w, n) \in Nat  BY <1>0, PlacedPieced
<1>3. Len(Places(tags[n], At(tags, w, n))) \in Nat  BY <1>2, PlacedUnits
<1>4. Len(FlattenSeq(Placed(tags, w))) \in Nat  BY <1>0, CountIs, SeqFacts
<1>5. ThoseNext(tags, w, n - 1, Places(tags[(n - 1) + 1], At(tags, w, (n - 1) + 1)))
  BY <1>0, <1>1, CountIs
<1>6. ThoseNext(tags, w, n - 1, Places(tags[n], At(tags, w, n)))  BY <1>1, <1>5
<1>7. Count(tags, w, n) = Count(tags, w, n - 1) + Len(Places(tags[n], At(tags, w, n)))
  BY <1>1, <1>6 DEF ThoseNext
<1>. QED BY <1>0, <1>1, <1>2, <1>3, <1>4, <1>6, <1>7, CountIs

\* What the first two bytes of a video tag say of it.
LEMMA VideoRead ==
  ASSUME NEW tags, NEW w, Holds(tags, w), NEW n, InFront(tags, w, n), Lists(tags, n),
         Regular(tags[n]), tag'.type = 9, Inside(BodyAt, tag'.size)
  PROVE  \/ tags[n].kind = "nalus" /\ FrameType = 1 /\ CodecID = 7 /\ AVCPacketType = 1
         \/ tags[n].kind = "config" /\ FrameType = 1 /\ CodecID = 7 /\ AVCPacketType = 0
         \/ tags[n].kind \notin {"nalus", "config"} /\ FrameType = 5
<1>. DEFINE d == DataSize(tags[n])
            b == Body(tags[n])
<1>0. /\ n \in 1..Len(tags) /\ bufferRead = At(tags, w, n) /\ bufferRead \in Nat
      /\ bufferRead + 11 <= length /\ d \in Nat /\ tags[n] \in Tags /\ length \in Nat
      /\ Type(tags[n]) = 9 /\ bufferRead + 11 + d <= length
  BY UnitsNext DEF InFront, Lists, Holds, Inside, BodyAt
<1>1. \A j \in 1..d : bufferRead + 11 + j <= length => buffer[bufferRead + 11 + j] = b[j]
  BY <1>0, TagRead, SMTT(60)
<1>2. d >= 2 => Byte(BodyAt) = b[1] /\ Byte(BodyAt + 1) = b[2]
  <2>1. SUFFICES ASSUME d >= 2 PROVE Byte(BodyAt) = b[1] /\ Byte(BodyAt + 1) = b[2]
    OBVIOUS
  <2>. HIDE DEF d, b
  <2>2. /\ 1 \in 1..d /\ 2 \in 1..d /\ bufferRead + 11 + 1 <= length
        /\ bufferRead + 11 + 2 <= length /\ (bufferRead + 11 + 1) + 1 = bufferRead + 11 + 2
    BY <1>0, <2>1
  <2>. QED BY <1>1, <2>2 DEF Byte, BodyAt
<1>3. 23 \div 16 = 1 /\ 23 % 16 = 7 /\ 87 \div 16 = 5  OBVIOUS
<1>4. CASE tags[n].kind = "nalus"
  <2>. DEFINE u == tags[n].units
  <2>1. b[1] = 23 /\ b[2] = 1 /\ Lot(u, 0) <= d
    <3>1. u \in Seq(Nat)  BY <1>0, TagsAre
    <3>2. 0 \in 0..Len(u)  BY <3>1, LenProperties
    <3>. QED BY <1>0, <1>4, <3>2, NalusLie
  <2>2. Lot(u, 0) = 5  BY <1>0, TagsAre, LotGrows
  <2>. HIDE DEF u, d, b
  <2>3. d >= 2  BY <1>0, <2>1, <2>2
  <2>4. FrameType = 1 /\ CodecID = 7 /\ AVCPacketType = 1
    BY <1>2, <1>3, <2>1, <2>3 DEF FrameType, CodecID, AVCPacketType
  <2>. QED BY <1>4, <2>4
<1>5. CASE tags[n].kind = "config"
  <2>. PICK m1, m2 : m1 = tags[n].units[1] /\ m2 = tags[n].units[2]  OBVIOUS
  <2>1. b[1] = 23 /\ b[2] = 0 /\ m1 \in Nat /\ m2 \in Nat /\ d = 16 + m1 + m2
    <3>1. tags[n] \in Tags  BY <1>0
    <3>. QED BY <1>5, <3>1, ConfigLies DEF SetsLie
  <2>. HIDE DEF d, b
  <2>3. d >= 2  BY <2>1
  <2>4. FrameType = 1 /\ CodecID = 7 /\ AVCPacketType = 0
    BY <1>2, <1>3, <2>1, <2>3 DEF FrameType, CodecID, AVCPacketType
  <2>. QED BY <1>5, <2>4
<1>6. CASE tags[n].kind \notin {"nalus", "config"}
  <2>1. b[1] = 87 /\ d = 6
    <3>1. Type(tags[n]) \notin {8, 18}  BY <1>0
    <3>. QED BY <1>0, <1>6, <3>1, OthersLie
  <2>. HIDE DEF d, b
  <2>2. FrameType = 5  BY <1>2, <1>3, <2>1 DEF FrameType
  <2>. QED BY <1>6, <2>2
<1>. QED BY <1>4, <1>5, <1>6

\* The parameter sets of a whole tag.
LEMMA SetsRead ==
  ASSUME NEW tags, NEW w, Holds(tags, w), NEW n, InFront(tags, w, n), Lists(tags, n),
         tags[n].kind = "config", Inside(BodyAt, tag'.size),
         NEW s, s = tags[n].units[1], NEW p, p = tags[n].units[2]
  PROVE  /\ s \in Nat /\ p \in Nat
         /\ Big((BodyAt + 13) - 2, 2) = s /\ Big((BodyAt + 13 + s + 3) - 2, 2) = p
         /\ Inside((BodyAt + 13) - 2, 2) /\ Inside(BodyAt + 13, s + 3)
         /\ Inside(BodyAt + 13 + s + 3, p)
         /\ Places(tags[n], At(tags, w, n))
              = <<Unit(BodyAt + 13, s), Unit(BodyAt + 13 + s + 3, p)>>
<1>. DEFINE d == DataSize(tags[n])
            b == Body(tags[n])
            a == BodyAt
<1>0. /\ n \in 1..Len(tags) /\ bufferRead = At(tags, w, n) /\ bufferRead \in Nat
      /\ bufferRead + 11 <= length /\ tags[n] \in Tags /\ length \in Nat
      /\ a = bufferRead + 11 /\ a + d <= length /\ IsSeq(buffer)
  BY UnitsNext DEF InFront, Lists, Holds, Inside, BodyAt
<1>1. /\ s \in Nat /\ p \in Nat /\ d = 16 + s + p
      /\ b[12] = s \div 256 /\ b[13] = s % 256 /\ b[15 + s] = p \div 256 /\ b[16 + s] = p % 256
  <2>1. tags[n] \in Tags  BY <1>0
  <2>. QED BY <2>1, ConfigLies DEF SetsLie
<1>2. \A j \in 1..d : bufferRead + 11 + j <= length => buffer[bufferRead + 11 + j] = b[j]
  BY <1>0, TagRead
<1>3. Places(tags[n], At(tags, w, n))
        = <<Unit(bufferRead + 24, s), Unit(bufferRead + 27 + s, p)>>
  BY <1>0, PlacedUnits
<1>. HIDE DEF a, b, d
<1>4. a \in Nat /\ \A j \in 1..d : a + j <= length /\ buffer[a + j] = b[j]
  <2>1. a \in Nat  BY <1>0
  <2>2. \A j \in 1..d : a + j <= length /\ a + j = bufferRead + 11 + j  BY <1>0, <1>1, <2>1, SMTT(60)
  <2>. QED BY <1>2, <2>1, <2>2
<1>5. /\ 12 \in 1..d /\ 13 \in 1..d /\ 15 + s \in 1..d /\ 16 + s \in 1..d
  BY <1>1
<1>6. /\ (a + 13) - 2 = a + 11 /\ (a + 13 + s + 3) - 2 = a + 14 + s
      /\ a + 11 \in Nat /\ a + 14 + s \in Nat
      /\ (a + 11) + 1 = a + 12 /\ (a + 11) + 2 = a + 13
      /\ (a + 14 + s) + 1 = a + (15 + s) /\ (a + 14 + s) + 2 = a + (16 + s)
      /\ bufferRead + 24 = a + 13 /\ bufferRead + 27 + s = a + 13 + s + 3
  <2>1. a \in Nat /\ s \in Nat /\ bufferRead \in Nat /\ a = bufferRead + 11  BY <1>0, <1>1, <1>4
  <2>. QED BY <2>1
<1>7. Big(a + 11, 2) = s
  <2>1. (a + 11) + 2 <= length  BY <1>4, <1>5, <1>6
  <2>2. buffer[(a + 11) + 1] = s \div 256 /\ buffer[(a + 11) + 2] = s % 256
    BY <1>1, <1>4, <1>5, <1>6
  <2>. QED BY <1>0, <1>1, <1>6, <2>1, <2>2, TwoBack, BigIs, ZenonT(60) DEF length
<1>8. Big(a + 14 + s, 2) = p
  <2>1. (a + 14 + s) + 2 <= length  BY <1>4, <1>5, <1>6
  <2>2. buffer[(a + 14 + s) + 1] = p \div 256 /\ buffer[(a + 14 + s) + 2] = p % 256
    BY <1>1, <1>4, <1>5, <1>6
  <2>. QED BY <1>0, <1>1, <1>6, <2>1, <2>2, TwoBack, BigIs, ZenonT(60) DEF length
<1>9. Inside((a + 13) - 2, 2) /\ Inside(a + 13, s + 3) /\ Inside(a + 13 + s + 3, p)
  <2>1. a + 11 + 2 <= length /\ a + 13 + (s + 3) <= length /\ a + 13 + s + 3 + p <= length
    <3>1. /\ a \in Nat /\ s \in Nat /\ p \in Nat /\ length \in Nat
          /\ a + (16 + s + p) <= length
      BY <1>0, <1>1, <1>4
    <3>. QED BY <3>1
  <2>. QED BY <1>6, <2>1 DEF Inside
<1>. QED BY <1>1, <1>3, <1>6, <1>7, <1>8, <1>9 DEF a

\* What is read and written of unit k + 1.
NextUnit(tags, w, n, u, k) ==
  /\ Big(pointer, 4) = u[k + 1] /\ k + 1 \in 0..Len(u)
  /\ Places(tags[n], At(tags, w, n))[k + 1] = Unit(pointer + 4, u[k + 1])
  /\ Lot(u, k + 1) = countsize + u[k + 1] + 4
  /\ bufferRead + Lot(u, k + 1) = pointer + 4 + u[k + 1]

\* The next unit of a tag, or its end.
LEMMA UnitRead ==
  ASSUME NEW tags, NEW w, Holds(tags, w), Where(tags, w), phase = "nalu",
         NEW n, n = Len(vFlvTag), tags[n].kind = "nalus",
         NEW u, u = tags[n].units, NEW k \in 0..Len(u),
         countsize = Lot(u, k), pointer = bufferRead + countsize
  PROVE  /\ n \in 1..Len(tags)
         /\ Len(Places(tags[n], At(tags, w, n))) = Len(u)
         /\ countsize < tag.size <=> k < Len(u)
         /\ k < Len(u) => NaluInside /\ NextUnit(tags, w, n, u, k)
<1>. DEFINE d == DataSize(tags[n])
            b == Body(tags[n])
            q == At(tags, w, n)
<1>0. /\ n \in 1..Len(tags) /\ d = tag.size /\ bufferRead = q + 11 /\ bufferRead + d <= length
      /\ length \in Nat /\ IsSeq(buffer)
  <2>1. n >= 1 /\ n <= Len(tags) /\ Len(tags) \in Nat /\ n \in Nat
    BY SeqFacts DEF Where, Holds
  <2>2. n \in 1..Len(tags)  BY <2>1
  <2>. QED BY <2>2 DEF Where, Holds
<1>1. tags[n] \in Tags /\ q \in Nat /\ d \in Nat
  <2>1. tags[n] \in Tags  BY <1>0, UnitsNext
  <2>. QED BY <1>0, <2>1, UnitsNext, BodyIs
<1>2. u \in Seq(Nat) /\ Len(u) \in Nat /\ \A i \in 1..Len(u) : u[i] \in Nat
  <2>1. u \in Seq(Nat)  BY <1>1, TagsAre
  <2>. QED BY <2>1, LenProperties, ElementOfSeq
<1>3. /\ Lot(u, Len(u)) = d /\ \A i \in 0..Len(u) : Lot(u, i) <= d
      /\ \A i \in 0..(Len(u) - 1) : \A j \in 1..4 : b[Lot(u, i) + j] = U32(u[i + 1])[j]
  BY <1>1, NalusLie
<1>4. /\ \A i \in 0..Len(u) : Lot(u, i) \in Nat
      /\ \A i \in 0..(Len(u) - 1) : Lot(u, i + 1) = Lot(u, i) + 4 + u[i + 1]
  BY <1>2, LotGrows
<1>5. q + 11 <= length  BY <1>0, <1>1
<1>6. \A j \in 1..d : q + 11 + j <= length => buffer[q + 11 + j] = b[j]
  BY <1>0, <1>5, TagRead, SMTT(60)
<1>7. /\ Len(Places(tags[n], q)) = Len(u)
      /\ \A i \in 0..(Len(u) - 1) : Places(tags[n], q)[i + 1] = Unit(q + 11 + Lot(u, i) + 4, u[i + 1])
  BY <1>1, PlacedUnits, ZenonT(60)
<1>. HIDE DEF d, b, q
<1>8. ASSUME k < Len(u)
      PROVE  /\ k \in 0..(Len(u) - 1) /\ k + 1 \in 0..Len(u) /\ u[k + 1] \in Nat
             /\ Lot(u, k + 1) = countsize + u[k + 1] + 4 /\ countsize \in Nat
             /\ Lot(u, k + 1) <= d /\ countsize < d
  <2>1. k \in 0..(Len(u) - 1) /\ k + 1 \in 0..Len(u) /\ k + 1 \in 1..Len(u)  BY <1>2, <1>8
  <2>2. u[k + 1] \in Nat /\ Lot(u, k) \in Nat /\ Lot(u, k + 1) <= d  BY <1>2, <1>3, <1>4, <2>1
  <2>3. Lot(u, k + 1) = Lot(u, k) + 4 + u[k + 1]  BY <1>4, <2>1
  <2>4. Lot(u, k + 1) = Lot(u, k) + u[k + 1] + 4  BY <2>2, <2>3
  <2>5. Lot(u, k) < d  BY <1>1, <2>2, <2>4, SMTT(60)
  <2>. QED BY <2>1, <2>2, <2>4, <2>5
<1>9. countsize < tag.size <=> k < Len(u)
  <2>1. CASE k < Len(u)  BY <1>0, <1>8, <2>1
  <2>2. CASE ~(k < Len(u))
    <3>1. k = Len(u)  BY <1>2, <2>2
    <3>2. countsize = tag.size  BY <1>0, <1>3, <3>1
    <3>. QED BY <1>0, <1>1, <2>2, <3>2
  <2>. QED BY <2>1, <2>2
<1>10. ASSUME k < Len(u)
       PROVE  /\ NaluInside /\ Big(pointer, 4) = u[k + 1]
              /\ Places(tags[n], q)[k + 1] = Unit(pointer + 4, u[k + 1])
              /\ bufferRead + Lot(u, k + 1) = pointer + 4 + u[k + 1]
  <2>. DEFINE c == countsize
              v == u[k + 1]
  <2>1. /\ k \in 0..(Len(u) - 1) /\ v \in Nat /\ c \in Nat
        /\ Lot(u, k + 1) = c + v + 4 /\ c + v + 4 <= d /\ c = Lot(u, k)
    BY <1>8, <1>10
  <2>2. pointer = bufferRead + c /\ u[k + 1] = v  OBVIOUS
  <2>. HIDE DEF c, v
  <2>3. /\ pointer \in Nat /\ pointer = q + 11 + c /\ pointer + 4 <= length
        /\ pointer + 4 + v <= length /\ bufferRead + (c + v + 4) = pointer + 4 + v
    <3>1. /\ q \in Nat /\ c \in Nat /\ v \in Nat /\ d \in Nat /\ length \in Nat
          /\ bufferRead = q + 11 /\ pointer = bufferRead + c
          /\ c + v + 4 <= d /\ bufferRead + d <= length
      BY <1>0, <1>1, <2>1, <2>2
    <3>2. pointer \in Nat /\ pointer = q + 11 + c /\ pointer + 4 <= length  BY <3>1
    <3>3. pointer + 4 + v <= length  BY <3>1
    <3>4. bufferRead + (c + v + 4) = pointer + 4 + v  BY <3>1
    <3>. QED BY <3>2, <3>3, <3>4
  <2>4. ASSUME NEW j \in 1..4 PROVE buffer[pointer + j] = U32(v)[j]
    <3>1. c + j \in 1..d /\ q + 11 + (c + j) <= length /\ q + 11 + (c + j) = pointer + j
      <4>1. /\ q \in Nat /\ c \in Nat /\ v \in Nat /\ d \in Nat /\ length \in Nat
            /\ pointer = q + 11 + c /\ c + v + 4 <= d /\ pointer + 4 <= length
        BY <1>0, <1>1, <2>1, <2>3
      <4>. QED BY <4>1, SMTT(60)
    <3>2. buffer[q + 11 + (c + j)] = b[c + j]  BY <1>6, <3>1
    <3>3. b[c + j] = U32(v)[j]  BY <1>3, <2>1, <2>2
    <3>. QED BY <3>1, <3>2, <3>3
  <2>5. Big(pointer, 4) = v  BY <1>0, <2>1, <2>3, <2>4, FourBack, BigIs DEF length
  <2>6. NaluInside  BY <2>3, <2>5 DEF NaluInside, Inside
  <2>7. Places(tags[n], q)[k + 1] = Unit(pointer + 4, v)
    <3>1. Places(tags[n], q)[k + 1] = Unit(q + 11 + c + 4, v)  BY <1>7, <2>1, <2>2
    <3>. QED BY <2>3, <3>1
  <2>. QED BY <2>1, <2>2, <2>3, <2>5, <2>6, <2>7
<1>11. ASSUME k < Len(u) PROVE NextUnit(tags, w, n, u, k)
  BY <1>8, <1>10, <1>11, Zenon DEF NextUnit, q
<1>. QED BY <1>0, <1>7, <1>9, <1>10, <1>11 DEF q

\* No unit lies in a tag without any.
LEMMA NoUnits ==
  ASSUME NEW tags, NEW w, Holds(tags, w), NEW n \in 1..Len(tags),
         tags[n].kind \notin {"nalus", "config"}
  PROVE  Count(tags, w, n) = Count(tags, w, n - 1)
<1>1. /\ tags[n] \in Tags /\ At(tags, w, n) \in Nat /\ Count(tags, w, n - 1) \in Nat
      /\ Count(tags, w, n) = Count(tags, w, n - 1) + Len(Places(tags[n], At(tags, w, n)))
  BY UnitsNext
<1>2. Places(tags[n], At(tags, w, n)) = <<>>  BY <1>1, PlacedUnits
<1>3. Len(<<>>) = 0  BY EmptyIs
<1>. QED BY <1>1, <1>2, <1>3

\* The tags with a body of units are video tags.
LEMMA UnitTypes ==
  ASSUME NEW tg, Type(tg) # 9
  PROVE  tg.kind \notin {"nalus", "config"}
BY DEF Type

\* A tag without units is passed over.
LEMMA RestPassed ==
  ASSUME NEW tags, NEW w, Holds(tags, w), Where(tags, w), Rest(tags, w), PushTag,
         tags[Len(vFlvTag) + 1].kind \notin {"nalus", "config"},
         phase' \in {"tag", "previous"}, h264' = h264
  PROVE  Rest(tags, w)'
<1>. DEFINE n == Len(vFlvTag) + 1
<1>1. InFront(tags, w, n) /\ Lists(tags, n)  BY TagPushed
<1>2. Len(h264) = Count(tags, w, Len(vFlvTag))  BY DEF Rest, PushTag
<1>3. n \in 1..Len(tags) /\ Len(vFlvTag') = n  BY <1>1 DEF InFront, Lists
<1>4. n - 1 = Len(vFlvTag)  BY SeqFacts DEF Where
<1>5. tags[n].kind \notin {"nalus", "config"}  OBVIOUS
<1>. HIDE DEF n
<1>6. Count(tags, w, n) = Count(tags, w, n - 1)  BY <1>3, <1>5, NoUnits
<1>7. Len(h264') = Count(tags, w, Len(vFlvTag'))  BY <1>2, <1>3, <1>4, <1>6
<1>8. phase' # "stray" /\ phase' # "nalu"  OBVIOUS
<1>9. Own(h264', FlattenSeq(Placed(tags, w)))  BY DEF Rest
<1>. QED BY <1>7, <1>8, <1>9 DEF Rest

\* Where the parser ends, it has copied no unit but the stream's own.
LEMMA RestEnds ==
  ASSUME NEW tags, NEW w, Rest(tags, w), phase' = "done", h264' = h264
  PROVE  Rest(tags, w)'
<1>1. Own(h264', FlattenSeq(Placed(tags, w)))  BY DEF Rest
<1>2. phase' # "stray" /\ phase' # "nalu" /\ phase' \notin {"head", "tag", "previous"}  OBVIOUS
<1>. QED BY <1>1, <1>2 DEF Rest

\* Between tags, nothing is copied.
LEMMA RestStays ==
  ASSUME NEW tags, NEW w, Rest(tags, w), phase \in {"head", "previous"}, phase' = "tag",
         h264' = h264, vFlvTag' = vFlvTag
  PROVE  Rest(tags, w)'
<1>1. Own(h264', FlattenSeq(Placed(tags, w))) /\ Len(h264') = Count(tags, w, Len(vFlvTag'))
  BY DEF Rest
<1>2. phase' # "stray" /\ phase' # "nalu"  OBVIOUS
<1>. QED BY <1>1, <1>2 DEF Rest

\* What a video tag of a regular stream is.
LEMMA VideoIs ==
  ASSUME NEW tags, NEW w, Holds(tags, w), Where(tags, w), Regulars(tags), VideoTag,
         NEW n, n = Len(vFlvTag) + 1
  PROVE  /\ InFront(tags, w, n) /\ Lists(tags, n) /\ n \in 1..Len(tags) /\ n - 1 = Len(vFlvTag)
         /\ PushTag /\ Inside(BodyAt, tag'.size)
         /\ \/ tags[n].kind = "nalus" /\ FrameType = 1 /\ CodecID = 7 /\ AVCPacketType = 1
            \/ tags[n].kind = "config" /\ FrameType = 1 /\ CodecID = 7 /\ AVCPacketType = 0
            \/ tags[n].kind \notin {"nalus", "config"} /\ FrameType = 5
<1>1. PushTag /\ tag'.type = 9 /\ Inside(BodyAt, tag'.size)  BY DEF VideoTag, WholeTag
<1>2. InFront(tags, w, n) /\ Lists(tags, n)  BY <1>1, TagPushed
<1>3. n \in 1..Len(tags)  BY <1>2 DEF InFront
<1>4. Regular(tags[n])  BY <1>3 DEF Regulars
<1>5. n - 1 = Len(vFlvTag)  BY SeqFacts DEF Where
<1>. QED BY <1>1, <1>2, <1>3, <1>4, <1>5, VideoRead

\* What it copies of a sequence header.
LEMMA HeaderCopies ==
  ASSUME SequenceHeader, NEW s, NEW p,
         Big((BodyAt + 13) - 2, 2) = s, Big((BodyAt + 13 + s + 3) - 2, 2) = p,
         Inside((BodyAt + 13) - 2, 2), Inside(BodyAt + 13, s + 3), Inside(BodyAt + 13 + s + 3, p)
  PROVE  /\ h264' = h264 \o <<Unit(BodyAt + 13, s), Unit(BodyAt + 13 + s + 3, p)>>
         /\ phase' = "previous"
<1>. DEFINE spsAt == BodyAt + 13
            spsSize == Big(spsAt - 2, 2)
            ppsAt == spsAt + spsSize + 3
            ppsSize == Big(ppsAt - 2, 2)
<1>1. \/ /\ h264' = h264 \o <<Unit(spsAt, spsSize), Unit(ppsAt, ppsSize)>>
         /\ LeaveTag
      \/ ~(Inside(spsAt - 2, 2) /\ Inside(spsAt, spsSize + 3) /\ Inside(ppsAt, ppsSize))
  BY Zenon DEF SequenceHeader
<1>2. spsSize = s  OBVIOUS
<1>3. ppsAt = BodyAt + 13 + s + 3  BY <1>2
<1>4. ppsSize = p  BY <1>3
<1>5. Inside(spsAt - 2, 2) /\ Inside(spsAt, spsSize + 3) /\ Inside(ppsAt, ppsSize)
  BY <1>2, <1>3, <1>4
<1>. HIDE DEF spsSize, ppsAt, ppsSize
<1>6. h264' = h264 \o <<Unit(spsAt, spsSize), Unit(ppsAt, ppsSize)>> /\ LeaveTag
  BY <1>1, <1>5, Zenon
<1>. QED BY <1>2, <1>3, <1>4, <1>6 DEF LeaveTag

\* Both parameter sets of a tag are copied, and nothing is read that is not there.
LEMMA SetsCopied ==
  ASSUME NEW tags, NEW w, Holds(tags, w), Where(tags, w), Regulars(tags), Rest(tags, w),
         SequenceHeader
  PROVE  /\ Rest(tags, w)' /\ phase' = "previous"
         /\ Len(h264') = Count(tags, w, Len(vFlvTag) + 1) /\ Len(vFlvTag') = Len(vFlvTag) + 1
<1>. DEFINE n == Len(vFlvTag) + 1
<1>0. VideoTag /\ Avc /\ AVCPacketType = 0  BY DEF SequenceHeader
<1>1. /\ InFront(tags, w, n) /\ Lists(tags, n) /\ n \in 1..Len(tags) /\ n - 1 = Len(vFlvTag)
      /\ PushTag /\ Inside(BodyAt, tag'.size)
      /\ \/ tags[n].kind = "nalus" /\ AVCPacketType = 1
         \/ tags[n].kind = "config"
         \/ FrameType = 5
  BY <1>0, VideoIs
<1>2. tags[n].kind = "config"  BY <1>0, <1>1 DEF Avc
<1>. HIDE DEF n
<1>. PICK s, p : s = tags[n].units[1] /\ p = tags[n].units[2]  OBVIOUS
<1>. DEFINE x == Unit(BodyAt + 13, s)
            y == Unit(BodyAt + 13 + s + 3, p)
            places == Places(tags[n], At(tags, w, n))
<1>3. /\ Big((BodyAt + 13) - 2, 2) = s /\ Big((BodyAt + 13 + s + 3) - 2, 2) = p
      /\ Inside((BodyAt + 13) - 2, 2) /\ Inside(BodyAt + 13, s + 3)
      /\ Inside(BodyAt + 13 + s + 3, p)
      /\ places = <<x, y>>
  BY <1>1, <1>2, SetsRead
<1>4. h264' = h264 \o <<x, y>> /\ phase' = "previous"
  BY <1>3, HeaderCopies
<1>5. /\ Own(h264, FlattenSeq(Placed(tags, w))) /\ Len(h264) = Count(tags, w, n - 1)
  BY <1>1 DEF Rest, PushTag
<1>6. Len(places) = 2 /\ places[1] = x /\ places[2] = y  BY <1>3, PairIs
<1>. HIDE DEF x, y, places
<1>7. /\ Count(tags, w, n - 1) \in Nat /\ Len(FlattenSeq(Placed(tags, w))) \in Nat
      /\ ThoseNext(tags, w, n - 1, places)
      /\ Count(tags, w, n) = Count(tags, w, n - 1) + Len(places)
  BY <1>1, UnitsNext DEF places
<1>. DEFINE g == Append(h264, x)
            h == Append(g, y)
<1>8. Own(g, FlattenSeq(Placed(tags, w))) /\ Len(g) = Count(tags, w, n - 1) + 1
  <2>1. /\ 0 \in Nat /\ Len(places) \in Nat /\ 0 < Len(places) /\ x = places[0 + 1]
        /\ Len(h264) = Count(tags, w, n - 1) + 0
    BY <1>5, <1>6, <1>7
  <2>2. /\ Own(Append(h264, x), FlattenSeq(Placed(tags, w)))
        /\ Len(Append(h264, x)) = Count(tags, w, n - 1) + (0 + 1)
    BY <1>5, <1>7, <2>1, OwnMore
  <2>. QED BY <2>2
<1>. HIDE DEF g
<1>9. Own(h, FlattenSeq(Placed(tags, w))) /\ Len(h) = Count(tags, w, n - 1) + 2
  <2>1. PICK k : k = 1  OBVIOUS
  <2>2. /\ k \in Nat /\ k < Len(places) /\ y = places[k + 1]
        /\ Len(g) = Count(tags, w, n - 1) + k
    BY <1>6, <1>8, <2>1
  <2>3. Own(h, FlattenSeq(Placed(tags, w))) /\ Len(h) = Count(tags, w, n - 1) + (k + 1)
    BY <1>7, <1>8, <2>2, OwnMore
  <2>. QED BY <2>1, <2>3
<1>10. h264 \o <<x, y>> = h
  <2>1. PICK S : h264 \in Seq(S)  BY <1>5 DEF Own, IsSeq
  <2>2. h264 \in Seq(S \cup {x, y})  BY <2>1, SeqMonotonic
  <2>3. h264 \o <<x, y>> = Append(Append(h264, x), y)  BY <2>2
  <2>. QED BY <2>3 DEF g
<1>. HIDE DEF h
<1>11. Len(h264') = Count(tags, w, n)  BY <1>4, <1>6, <1>7, <1>9, <1>10
<1>12. Len(vFlvTag') = n  BY <1>1 DEF Lists
<1>13. Own(h264', FlattenSeq(Placed(tags, w)))  BY <1>4, <1>9, <1>10
<1>14. Len(h264') = Count(tags, w, Len(vFlvTag'))  BY <1>11, <1>12
<1>15. Rest(tags, w)'  BY <1>4, <1>13, <1>14 DEF Rest
<1>. QED BY <1>4, <1>11, <1>12, <1>15 DEF n

\* At the first unit of a tag.
LEMMA UnitsBegin ==
  ASSUME NEW tags, NEW w, Holds(tags, w), Where(tags, w), Regulars(tags), Rest(tags, w), Nalus
  PROVE  Rest(tags, w)'
<1>. DEFINE n == Len(vFlvTag) + 1
<1>0. VideoTag /\ Avc /\ AVCPacketType # 0 /\ phase' = "nalu" /\ h264' = h264
      /\ bufferRead' = BodyAt /\ pointer' = BodyAt + 5 /\ countsize' = 5
  BY DEF Nalus
<1>1. /\ InFront(tags, w, n) /\ Lists(tags, n) /\ n \in 1..Len(tags) /\ n - 1 = Len(vFlvTag)
      /\ PushTag
      /\ \/ tags[n].kind = "nalus"
         \/ tags[n].kind = "config" /\ AVCPacketType = 0
         \/ FrameType = 5
  BY <1>0, VideoIs
<1>2. tags[n].kind = "nalus"  BY <1>0, <1>1 DEF Avc
<1>3. Len(vFlvTag') = n  BY <1>1 DEF Lists
<1>4. Own(h264, FlattenSeq(Placed(tags, w))) /\ Len(h264) = Count(tags, w, n - 1)
  BY <1>1 DEF Rest, PushTag
<1>. HIDE DEF n
<1>5. tags[n] \in Tags /\ Count(tags, w, n - 1) \in Nat  BY <1>1, UnitsNext
<1>6. 0 \in 0..Len(tags[n].units) /\ Lot(tags[n].units, 0) = 5
  <2>1. tags[n].units \in Seq(Nat)  BY <1>5, TagsAre
  <2>2. Len(tags[n].units) \in Nat  BY <2>1, LenProperties
  <2>. QED BY <2>1, <2>2, LotGrows
<1>7. /\ Len(h264') = Count(tags, w, n - 1) + 0 /\ countsize' = Lot(tags[n].units, 0)
      /\ pointer' = bufferRead' + countsize'
  BY <1>0, <1>4, <1>5, <1>6
<1>8. \E k \in 0..Len(tags[n].units) :
        /\ Len(h264') = Count(tags, w, n - 1) + k
        /\ countsize' = Lot(tags[n].units, k)
        /\ pointer' = bufferRead' + countsize'
  BY <1>6, <1>7
<1>9. Own(h264', FlattenSeq(Placed(tags, w)))  BY <1>0, <1>4
<1>. QED BY <1>0, <1>2, <1>3, <1>8, <1>9 DEF Rest

\* How far it is in a tag with units.
Amid(tags, w, n, k) ==
  /\ n = Len(vFlvTag) /\ tags[n].kind = "nalus" /\ k \in 0..Len(tags[n].units)
  /\ Len(h264) = Count(tags, w, n - 1) + k
  /\ countsize = Lot(tags[n].units, k) /\ pointer = bufferRead + countsize

\* While it copies units, it is somewhere amid a tag.
LEMMA AmidIs ==
  ASSUME NEW tags, NEW w, Rest(tags, w), phase = "nalu"
  PROVE  \E k : Amid(tags, w, Len(vFlvTag), k)
BY DEF Rest, Amid

\* What comes next amid a tag: a unit that is all there, or the end of the tag.
LEMMA AmidRead ==
  ASSUME NEW tags, NEW w, Holds(tags, w), Where(tags, w), phase = "nalu",
         NEW n, NEW k, Amid(tags, w, n, k)
  PROVE  /\ n \in 1..Len(tags)
         /\ Count(tags, w, n) = Count(tags, w, n - 1) + Len(tags[n].units)
         /\ Count(tags, w, n - 1) \in Nat /\ Len(tags[n].units) \in Nat
         /\ countsize < tag.size <=> k < Len(tags[n].units)
         /\ k < Len(tags[n].units) => NaluInside
<1>. PICK u : u = tags[n].units  OBVIOUS
<1>1. /\ n \in 1..Len(tags) /\ Len(Places(tags[n], At(tags, w, n))) = Len(u)
      /\ countsize < tag.size <=> k < Len(u)
      /\ k < Len(u) => NaluInside
  BY UnitRead DEF Amid
<1>2. /\ Count(tags, w, n - 1) \in Nat
      /\ Len(Places(tags[n], At(tags, w, n))) \in Nat
      /\ Count(tags, w, n) = Count(tags, w, n - 1) + Len(Places(tags[n], At(tags, w, n)))
  BY <1>1, UnitsNext
<1>. QED BY <1>1, <1>2

\* The next unit is copied.
LEMMA UnitCopied ==
  ASSUME NEW tags, NEW w, Holds(tags, w), Where(tags, w), Rest(tags, w), CopyNalu,
         NEW n, NEW k, Amid(tags, w, n, k)
  PROVE  /\ k + 1 \in 0..Len(tags[n].units) /\ k \in Nat
         /\ Amid(tags, w, n, k + 1)' /\ Rest(tags, w)'
<1>. PICK u : u = tags[n].units  OBVIOUS
<1>. DEFINE places == Places(tags[n], At(tags, w, n))
            x == Unit(pointer + 4, u[k + 1])
<1>0. /\ phase = "nalu" /\ countsize < tag.size
      /\ h264' = Append(h264, Unit(pointer + 4, Big(pointer, 4)))
      /\ pointer' = pointer + 4 + Big(pointer, 4)
      /\ countsize' = countsize + Big(pointer, 4) + 4
      /\ UNCHANGED <<bufferRead, phase, tag, vFlvTag>>
  BY DEF CopyNalu
<1>1. /\ n = Len(vFlvTag) /\ tags[n].kind = "nalus" /\ k \in 0..Len(u)
      /\ Len(h264) = Count(tags, w, n - 1) + k
      /\ countsize = Lot(u, k) /\ pointer = bufferRead + countsize
  BY DEF Amid
<1>2. n \in 1..Len(tags) /\ Len(places) = Len(u) /\ (countsize < tag.size <=> k < Len(u))
  BY <1>0, <1>1, UnitRead, SMTT(60)
<1>3. k < Len(u)  BY <1>0, <1>2
<1>40. NextUnit(tags, w, n, u, k)  BY <1>0, <1>1, <1>3, UnitRead
<1>4. /\ Big(pointer, 4) = u[k + 1] /\ k + 1 \in 0..Len(u) /\ places[k + 1] = x
      /\ Lot(u, k + 1) = countsize + u[k + 1] + 4
      /\ bufferRead + Lot(u, k + 1) = pointer + 4 + u[k + 1]
  BY <1>40, Zenon DEF NextUnit
<1>5. /\ h264' = Append(h264, x) /\ countsize' = Lot(u, k + 1)
      /\ pointer' = bufferRead' + countsize'
  BY <1>0, <1>4
<1>. HIDE DEF x, places
<1>6. /\ Count(tags, w, n - 1) \in Nat /\ Len(FlattenSeq(Placed(tags, w))) \in Nat
      /\ Len(places) \in Nat /\ ThoseNext(tags, w, n - 1, places)
  BY <1>2, UnitsNext DEF places
<1>7. k \in Nat  BY <1>1
<1>8. Own(h264, FlattenSeq(Placed(tags, w)))  BY DEF Rest
<1>9. /\ Own(Append(h264, x), FlattenSeq(Placed(tags, w)))
      /\ Len(Append(h264, x)) = Count(tags, w, n - 1) + (k + 1)
  <2>1. k < Len(places) /\ x = places[k + 1]  BY <1>2, <1>3, <1>4
  <2>. QED BY <1>1, <1>6, <1>7, <1>8, <2>1, OwnMore
<1>10. Amid(tags, w, n, k + 1)'  BY <1>0, <1>1, <1>4, <1>5, <1>9 DEF Amid
<1>11. phase' = "nalu" /\ Own(h264', FlattenSeq(Placed(tags, w)))  BY <1>0, <1>5, <1>9
<1>12. Rest(tags, w)'  BY <1>4, <1>10, <1>11 DEF Amid, Rest
<1>. QED BY <1>4, <1>7, <1>10, <1>12

\* Behind the last unit.
LEMMA UnitsEnd ==
  ASSUME NEW tags, NEW w, Holds(tags, w), Where(tags, w), Rest(tags, w), NalusCopied
  PROVE  Rest(tags, w)'
<1>1. phase = "nalu" /\ countsize >= tag.size /\ phase' = "previous" /\ h264' = h264
      /\ vFlvTag' = vFlvTag
  BY DEF NalusCopied
<1>. DEFINE n == Len(vFlvTag)
<1>2. PICK k : Amid(tags, w, n, k)  BY <1>1, AmidIs
<1>. HIDE DEF n
<1>. PICK u : u = tags[n].units  OBVIOUS
<1>3. /\ Count(tags, w, n) = Count(tags, w, n - 1) + Len(u) /\ Len(u) \in Nat
      /\ countsize < tag.size <=> k < Len(u)
  BY <1>1, <1>2, AmidRead
<1>4. k \in 0..Len(u) /\ Len(h264) = Count(tags, w, n - 1) + k /\ n = Len(vFlvTag)
      /\ countsize = Lot(u, k)
  BY <1>2 DEF Amid
<1>5. countsize \in Nat /\ tag.size \in Nat
  <2>1. n \in 1..Len(tags)  BY <1>1, <1>2, AmidRead
  <2>2. tags[n] \in Tags  BY <2>1, UnitsNext
  <2>3. tag.size \in Nat  BY <1>1, <1>4, <2>2, BodyIs DEF Where
  <2>4. countsize \in Nat  BY <1>4, <2>2, TagsAre, LotGrows
  <2>. QED BY <2>3, <2>4
<1>6. k = Len(u)  BY <1>1, <1>3, <1>4, <1>5
<1>7. Len(h264') = Count(tags, w, Len(vFlvTag'))  BY <1>1, <1>3, <1>4, <1>6
<1>8. Own(h264', FlattenSeq(Placed(tags, w)))  BY <1>1 DEF Rest
<1>. QED BY <1>1, <1>7, <1>8 DEF Rest

\* Nothing is copied but the next unit of the stream, and no read strays.
LEMMA RestKept ==
  ASSUME NEW tags, NEW w, Holds(tags, w), Where(tags, w), Regulars(tags), Rest(tags, w), Next
  PROVE  Rest(tags, w)'
<1>. DEFINE n == Len(vFlvTag) + 1
<1>1. CASE EmptyBuffer \/ EndOfTags \/ UnknownTag \/ CutBody
  <2>1. phase' = "done" /\ h264' = h264
    BY <1>1 DEF EmptyBuffer, EndOfTags, UnknownTag, CutBody, Finish
  <2>. QED BY <2>1, RestEnds
<1>2. CASE ParseHead
  <2>1. phase = "head" /\ phase' = "tag" /\ h264' = h264 /\ vFlvTag' = vFlvTag
    BY <1>2 DEF ParseHead
  <2>. QED BY <2>1, RestStays
<1>3. CASE SkipTag
  <2>1. PushTag /\ tag'.type \notin {8, 9} /\ phase' = "tag" /\ h264' = h264
    BY <1>3 DEF SkipTag, PushTag
  <2>2. Type(tags[n]) # 9  BY <2>1, TagPushed DEF Lists
  <2>3. tags[n].kind \notin {"nalus", "config"}  BY <2>2, UnitTypes
  <2>. QED BY <2>1, <2>3, RestPassed
<1>4. CASE AudioTag
  <2>1. PushTag /\ tag'.type = 8 /\ phase' = "previous" /\ h264' = h264
    BY <1>4 DEF AudioTag, WholeTag, LeaveTag
  <2>2. Type(tags[n]) # 9  BY <2>1, TagPushed DEF Lists
  <2>3. tags[n].kind \notin {"nalus", "config"}  BY <2>2, UnitTypes
  <2>. QED BY <2>1, <2>3, RestPassed
<1>5. CASE CommandFrame
  <2>1. VideoTag /\ FrameType = 5 /\ phase' \in {"previous", "done"} /\ h264' = h264
    BY <1>5 DEF CommandFrame, LeaveTag, Finish
  <2>2. /\ PushTag
        /\ \/ tags[n].kind = "nalus" /\ FrameType = 1
           \/ tags[n].kind = "config" /\ FrameType = 1
           \/ tags[n].kind \notin {"nalus", "config"}
    BY <2>1, VideoIs
  <2>3. tags[n].kind \notin {"nalus", "config"}  BY <2>1, <2>2
  <2>4. CASE phase' = "previous"  BY <2>1, <2>2, <2>3, <2>4, RestPassed
  <2>5. CASE phase' = "done"  BY <2>1, <2>5, RestEnds
  <2>. QED BY <2>1, <2>4, <2>5
<1>6. CASE OtherCodec
  <2>1. VideoTag /\ FrameType # 5 /\ CodecID # 7  BY <1>6 DEF OtherCodec
  <2>2. CodecID = 7 \/ FrameType = 5  BY <2>1, VideoIs
  <2>. QED BY <2>1, <2>2
<1>7. CASE SequenceHeader  BY <1>7, SetsCopied
<1>8. CASE Nalus  BY <1>8, UnitsBegin
<1>9. CASE CopyNalu
  <2>1. phase = "nalu"  BY <1>9 DEF CopyNalu
  <2>2. PICK k : Amid(tags, w, Len(vFlvTag), k)  BY <2>1, AmidIs
  <2>. QED BY <1>9, <2>2, UnitCopied
<1>10. CASE NaluStrays
  <2>1. phase = "nalu" /\ countsize < tag.size /\ ~NaluInside  BY <1>10 DEF NaluStrays
  <2>2. PICK k : Amid(tags, w, Len(vFlvTag), k)  BY <2>1, AmidIs
  <2>. QED BY <2>1, <2>2, AmidRead
<1>11. CASE NalusCopied  BY <1>11, UnitsEnd
<1>12. CASE CheckPrevious
  <2>1. /\ phase = "previous" /\ h264' = h264 /\ vFlvTag' = vFlvTag
        /\ phase' \in {"tag", "done"}
    BY <1>12 DEF CheckPrevious, Finish
  <2>2. CASE phase' = "tag"  BY <2>1, <2>2, RestStays
  <2>3. CASE phase' = "done"  BY <2>1, <2>3, RestEnds
  <2>. QED BY <2>1, <2>2, <2>3
<1>. QED BY <1>1, <1>2, <1>3, <1>4, <1>5, <1>6, <1>7, <1>8, <1>9, <1>10, <1>11, <1>12 DEF Next

\* Where the parser is in a piece, and what it has copied of a regular one.
Progress == \E tags, w : Cut(tags, w) /\ Where(tags, w) /\ (Regulars(tags) => Rest(tags, w))

\* At first nothing is copied.
LEMMA InitProgress == Init => Progress
<1>1. SUFFICES ASSUME Init PROVE Progress  OBVIOUS
<1>2. PICK tags, w : Cut(tags, w) /\ Where(tags, w)  BY <1>1, InitCuts
<1>3. Holds(tags, w)  BY <1>2, CutHolds
<1>4. /\ phase = "head" /\ IsSeq(h264) /\ Len(h264) = 0 /\ Len(vFlvTag) = 0
  BY <1>1, EmptyIs DEF Init
<1>5. Count(tags, w, 0) = 0 /\ IsSeq(FlattenSeq(Placed(tags, w)))  BY <1>3, CountIs DEF Holds
<1>6. Len(FlattenSeq(Placed(tags, w))) \in Nat  BY <1>5, SeqFacts
<1>7. Own(h264, FlattenSeq(Placed(tags, w)))  BY <1>4, <1>6 DEF Own
<1>8. Rest(tags, w)  BY <1>4, <1>5, <1>7 DEF Rest
<1>. QED BY <1>2, <1>8 DEF Progress

\* Nothing is regular that was not.
LEMMA StillRest ==
  ASSUME NEW tags, NEW w, Rest(tags, w), UNCHANGED vars
  PROVE  Rest(tags, w)'
BY DEF Rest, vars

\* The parser makes its way through the piece tag by tag and unit by unit.
THEOREM Progresses == Spec => []Progress
<1>1. ASSUME Progress, [Next]_vars PROVE Progress'
  <2>1. PICK tags, w : Cut(tags, w) /\ Where(tags, w) /\ (Regulars(tags) => Rest(tags, w))
    BY <1>1 DEF Progress
  <2>2. CASE Next
    <3>1. Holds(tags, w)  BY <2>1, CutHolds
    <3>2. Where(tags, w)'  BY <2>1, <2>2, <3>1, WhereKept
    <3>3. Cut(tags, w)'  BY <2>1, <2>2, PieceKept, CutKept
    <3>4. Regulars(tags) => Rest(tags, w)'  BY <2>1, <2>2, <3>1, RestKept
    <3>. QED BY <3>2, <3>3, <3>4 DEF Progress
  <2>3. CASE UNCHANGED vars
    <3>1. Cut(tags, w)'  BY <2>1, <2>3 DEF vars, Cut
    <3>2. Where(tags, w)'  BY <2>1, <2>3 DEF vars, Where, length
    <3>3. Regulars(tags) => Rest(tags, w)'  BY <2>1, <2>3, StillRest
    <3>. QED BY <3>1, <3>2, <3>3 DEF Progress
  <2>. QED BY <1>1, <2>2, <2>3
<1>. QED BY <1>1, InitProgress, PTL DEF Spec

\* A sequence whose elements are the first of another is a prefix of it.
LEMMA OwnPrefix ==
  ASSUME NEW s, NEW t, Own(s, t), IsSeq(t)
  PROVE  IsPrefix(s, t)
<1>1. IsSeq(s) /\ Len(s) \in Nat /\ Len(t) \in Nat /\ Len(s) <= Len(t)
  BY SeqFacts DEF Own
<1>2. SubSeq(s, 1, Len(s)) = s  BY <1>1, AllOfIt
<1>. DEFINE p == SubSeq(t, 1, Len(s))
<1>3. /\ IsSeq(p) /\ Len(p) = Len(s) /\ \A j \in 1..Len(s) : p[j] = t[j]
  BY <1>1, FirstOnes
<1>. HIDE DEF p
<1>4. \A j \in 1..Len(s) : s[j] = p[j]  BY <1>3 DEF Own
<1>5. s = p
  <2>1. PICK S : s \in Seq(S)  BY <1>1 DEF IsSeq
  <2>2. PICK T : p \in Seq(T)  BY <1>3 DEF IsSeq
  <2>3. s \in [1..Len(s) -> S] /\ p \in [1..Len(s) -> T]  BY <1>3, <2>1, <2>2, LenProperties
  <2>. QED BY <1>4, <2>3
<1>. QED BY <1>1, <1>2, <1>5 DEF IsPrefix, p

\* The units of the piece, as the piece lists them.
LEMMA UnitsAre ==
  ASSUME NEW tags, NEW w, LaidOut(sent, tags, w), tags \in Seq(Tags)
  PROVE  Units = FlattenSeq(Placed(tags, w))
<1>1. DOMAIN sent = 1..Len(tags) /\ DOMAIN tags = 1..Len(tags)
  BY LenProperties DEF LaidOut
<1>2. \A i \in 1..Len(tags) : sent[i].places = Places(tags[i], At(tags, w, i))  BY DEF LaidOut
<1>3. [i \in DOMAIN sent |-> sent[i].places] = Placed(tags, w)  BY <1>1, <1>2 DEF Placed
<1>. QED BY <1>3 DEF Units

\* However a regular stream is cut, ParseBodyTag does not read past the piece,
\* and what it has copied are the first units of the stream, each where it lies
\* and all of it.
THEOREM ParserReadsInside == Spec => []ReadsInside
<1>1. ASSUME Progress PROVE ReadsInside
  <2>1. PICK tags, w : Cut(tags, w) /\ Where(tags, w) /\ (Regulars(tags) => Rest(tags, w))
    BY <1>1 DEF Progress
  <2>2. Holds(tags, w)  BY <2>1, CutHolds
  <2>3. LaidOut(sent, tags, w) /\ tags \in Seq(Tags) /\ w \in BOOLEAN  BY <2>2 DEF Holds
  <2>4. SUFFICES ASSUME AllRegular PROVE phase # "stray" /\ IsPrefix(h264, Units)
    BY DEF ReadsInside
  <2>5. Rest(tags, w)  BY <2>1, <2>3, <2>4, RegularsAre
  <2>6. Units = FlattenSeq(Placed(tags, w))  BY <2>3, UnitsAre
  <2>7. IsSeq(Units)  BY <2>3, <2>6, CountIs
  <2>8. Own(h264, Units) /\ phase # "stray"  BY <2>5, <2>6 DEF Rest
  <2>. QED BY <2>7, <2>8, OwnPrefix
<1>. QED BY <1>1, Progresses, PTL

-----------------------------------------------------------------------------
(* What it shows of a demultiplexer.                                       *)

\* What stands for the variables of Demux, of a piece, the tags listed and
\* the units copied; Counts is in FlvFormatProofs.
Listed(laid, listed) == IF RegularIn(laid) THEN Len(listed) ELSE 0
Owed(laid, listed, copies) ==
  IF RegularIn(laid) THEN UnitsOfFirst(laid, Len(listed)) - Len(copies) ELSE 0

\* The tags listed, and how many of their units are still to be copied.
LEMMA OwedIs ==
  ASSUME NEW tags \in Seq(Tags), NEW w \in BOOLEAN, NEW laid, LaidOut(laid, tags, w),
         RegularIn(laid), NEW listed, Len(listed) \in 0..Len(tags), NEW copies
  PROVE  /\ Listed(laid, listed) = Len(listed)
         /\ Owed(laid, listed, copies) = Count(tags, w, Len(listed)) - Len(copies)
<1>1. UnitsOfFirst(laid, Len(listed)) = Count(tags, w, Len(listed))  BY UnitsCounted
<1>. QED BY <1>1 DEF Listed, Owed

\* The steps of Demux, in those terms.
Same == Counts(sent)' = Counts(sent)

\* A step that changes none of them is no step of Demux.
LEMMA Stutters ==
  ASSUME Same, Listed(sent, vFlvTag)' = Listed(sent, vFlvTag),
         Owed(sent, vFlvTag, h264)' = Owed(sent, vFlvTag, h264),
         phase' = "done" <=> phase = "done"
  PROVE  UNCHANGED D!vars
<1>1. (phase = "done")' = (phase = "done")  OBVIOUS
<1>. QED BY <1>1, Zenon DEF D!vars, Same, Counts, Listed, Owed, RegularIn, AllRegular

\* One that only ends is Finish,
LEMMA Finishes ==
  ASSUME Same, Listed(sent, vFlvTag)' = Listed(sent, vFlvTag),
         Owed(sent, vFlvTag, h264)' = Owed(sent, vFlvTag, h264),
         phase # "done", phase' = "done"
  PROVE  D!Finish
<1>1. (phase = "done")' = TRUE  OBVIOUS
<1>. QED BY <1>1, Zenon DEF D!Finish, Same, Counts, Listed, Owed, RegularIn, AllRegular

\* one more tag listed, and its units owed, is ListTag,
LEMMA ListsTag ==
  ASSUME Same, phase # "done", Owed(sent, vFlvTag, h264) = 0,
         Listed(sent, vFlvTag) < Len(Counts(sent)),
         Listed(sent, vFlvTag)' = Listed(sent, vFlvTag) + 1,
         Owed(sent, vFlvTag, h264)' = Counts(sent)[Listed(sent, vFlvTag) + 1]
  PROVE  D!ListTag
<1>1. (phase = "done")' \in BOOLEAN  OBVIOUS
<1>. QED BY <1>1, Zenon DEF D!ListTag, D!Ready, Same, Counts, Listed, Owed, RegularIn, AllRegular

\* one more listed and nothing owed is ListAndCopy,
LEMMA ListsAndCopies ==
  ASSUME Same, phase # "done", phase' # "done", Owed(sent, vFlvTag, h264) = 0,
         Listed(sent, vFlvTag) < Len(Counts(sent)),
         Listed(sent, vFlvTag)' = Listed(sent, vFlvTag) + 1,
         Owed(sent, vFlvTag, h264)' = 0, Counts(sent)[Listed(sent, vFlvTag) + 1] \in Nat
  PROVE  D!ListAndCopy
<1>1. (phase = "done")' = (phase = "done")  OBVIOUS
<1>2. Owed(sent, vFlvTag, h264)' \in 0..Counts(sent)[Listed(sent, vFlvTag) + 1]  OBVIOUS
<1>3. FALSE = (Owed(sent, vFlvTag, h264)' > 0)  OBVIOUS
<1>. QED BY <1>1, <1>2, <1>3, Zenon
     DEF D!ListAndCopy, D!Ready, Same, Counts, Listed, Owed, RegularIn, AllRegular

\* and one unit less owed is CopyUnit.
LEMMA CopiesUnit ==
  ASSUME Same, phase # "done", phase' # "done",
         Listed(sent, vFlvTag)' = Listed(sent, vFlvTag),
         Owed(sent, vFlvTag, h264) > 0,
         Owed(sent, vFlvTag, h264)' = Owed(sent, vFlvTag, h264) - 1
  PROVE  D!CopyUnit
<1>1. (phase = "done")' = (phase = "done")  OBVIOUS
<1>. QED BY <1>1, Zenon DEF D!CopyUnit, D!Ready, Same, Counts, Listed, Owed, RegularIn, AllRegular

\* What they are at a step of the parser through a regular piece.
Measured(tags, w) ==
  /\ Same
  /\ Len(Counts(sent)) = Len(tags)
  /\ \A n \in 1..Len(tags) : Counts(sent)[n] = Len(Places(tags[n], At(tags, w, n)))
  /\ Listed(sent, vFlvTag) = Len(vFlvTag)
  /\ Owed(sent, vFlvTag, h264) = Count(tags, w, Len(vFlvTag)) - Len(h264)
  /\ Listed(sent, vFlvTag)' = Len(vFlvTag')
  /\ Owed(sent, vFlvTag, h264)' = Count(tags, w, Len(vFlvTag')) - Len(h264')

\* That is what they are.
LEMMA MeasuredIs ==
  ASSUME NEW tags, NEW w, Holds(tags, w), Where(tags, w), Where(tags, w)', Regulars(tags),
         sent' = sent
  PROVE  Measured(tags, w)
<1>1. tags \in Seq(Tags) /\ w \in BOOLEAN /\ LaidOut(sent, tags, w)  BY DEF Holds
<1>2. RegularIn(sent)  BY <1>1, RegularsAre DEF AllRegular, RegularIn
<1>3. LaidOut(sent', tags, w) /\ RegularIn(sent')  BY <1>1, <1>2
<1>4. Len(vFlvTag) \in 0..Len(tags) /\ Len(vFlvTag') \in 0..Len(tags)
  <2>1. Len(tags) \in Nat  BY <1>1, LenProperties
  <2>2. IsSeq(vFlvTag') /\ Len(vFlvTag') <= Len(tags)  BY DEF Where
  <2>. QED BY <2>1, <2>2, SeqFacts DEF Where
<1>5. /\ Len(Counts(sent)) = Len(tags)
      /\ \A n \in 1..Len(tags) : Counts(sent)[n] = Len(Places(tags[n], At(tags, w, n)))
  BY <1>1, <1>2, CountsAre
<1>6. /\ Listed(sent, vFlvTag) = Len(vFlvTag)
      /\ Owed(sent, vFlvTag, h264) = Count(tags, w, Len(vFlvTag)) - Len(h264)
  BY <1>1, <1>2, <1>4, OwedIs
<1>7. /\ Listed(sent', vFlvTag') = Len(vFlvTag')
      /\ Owed(sent', vFlvTag', h264') = Count(tags, w, Len(vFlvTag')) - Len(h264')
  BY <1>1, <1>3, <1>4, OwedIs
<1>. QED BY <1>5, <1>6, <1>7 DEF Measured, Same

\* A tag is listed, its units not copied yet.
LEMMA TagListed ==
  ASSUME NEW tags, NEW w, Holds(tags, w), Where(tags, w), Rest(tags, w), Measured(tags, w),
         PushTag, h264' = h264
  PROVE  D!ListTag
<1>. DEFINE n == Len(vFlvTag) + 1
<1>1. InFront(tags, w, n) /\ Lists(tags, n)  BY TagPushed
<1>2. Len(h264) = Count(tags, w, Len(vFlvTag)) /\ phase # "done"  BY DEF Rest, PushTag
<1>3. n \in 1..Len(tags) /\ Len(vFlvTag') = n  BY <1>1 DEF InFront, Lists
<1>4. n - 1 = Len(vFlvTag) /\ Len(vFlvTag) < Len(tags) /\ n = Len(vFlvTag) + 1
  BY <1>3, SeqFacts DEF Where, Holds
<1>. HIDE DEF n
<1>5. /\ Count(tags, w, n) = Count(tags, w, n - 1) + Len(Places(tags[n], At(tags, w, n)))
      /\ Count(tags, w, n - 1) \in Nat /\ Len(Places(tags[n], At(tags, w, n))) \in Nat
  BY <1>3, UnitsNext
<1>6. /\ Owed(sent, vFlvTag, h264) = 0 /\ Listed(sent, vFlvTag) + 1 = n
      /\ Listed(sent, vFlvTag) < Len(Counts(sent))
      /\ Listed(sent, vFlvTag)' = Listed(sent, vFlvTag) + 1 /\ Same
  BY <1>2, <1>3, <1>4, <1>5 DEF Measured
<1>7. Counts(sent)[n] = Len(Places(tags[n], At(tags, w, n)))  BY <1>3 DEF Measured
<1>8. Owed(sent, vFlvTag, h264)' = Counts(sent)[n]
  BY <1>2, <1>3, <1>4, <1>5, <1>7 DEF Measured
<1>. QED BY <1>2, <1>6, <1>8, ListsTag

\* Every step through a regular piece is one of a demultiplexer, or none.
LEMMA RegularSteps ==
  ASSUME NEW tags, NEW w, Holds(tags, w), Where(tags, w), Regulars(tags), Rest(tags, w), Next
  PROVE  D!Next \/ UNCHANGED D!vars
<1>0. sent' = sent /\ Where(tags, w)'  BY PieceKept, WhereKept
<1>1. Measured(tags, w)  BY <1>0, MeasuredIs
<1>2. ASSUME h264' = h264, vFlvTag' = vFlvTag, phase # "done"
      PROVE  D!Next \/ UNCHANGED D!vars
  <2>1. /\ Same /\ Listed(sent, vFlvTag)' = Listed(sent, vFlvTag)
        /\ Owed(sent, vFlvTag, h264)' = Owed(sent, vFlvTag, h264)
    BY <1>1, <1>2 DEF Measured
  <2>2. CASE phase' = "done"  BY <1>2, <2>1, <2>2, Finishes DEF D!Next
  <2>3. CASE phase' # "done"  BY <1>2, <2>1, <2>3, Stutters
  <2>. QED BY <2>2, <2>3
<1>3. CASE EmptyBuffer \/ ParseHead \/ EndOfTags \/ UnknownTag \/ NaluStrays \/ NalusCopied
           \/ CheckPrevious
  <2>1. h264' = h264 /\ vFlvTag' = vFlvTag /\ phase # "done"
    BY <1>3 DEF EmptyBuffer, ParseHead, EndOfTags, UnknownTag, NaluStrays, NalusCopied,
       CheckPrevious
  <2>. QED BY <1>2, <2>1
<1>4. CASE SkipTag \/ CutBody \/ AudioTag \/ CommandFrame \/ OtherCodec \/ Nalus
  <2>1. PushTag /\ h264' = h264
    BY <1>4 DEF SkipTag, CutBody, AudioTag, CommandFrame, OtherCodec, Nalus, VideoTag, WholeTag
  <2>. QED BY <1>1, <2>1, TagListed DEF D!Next
<1>5. CASE SequenceHeader
  <2>. DEFINE n == Len(vFlvTag) + 1
  <2>1. /\ phase' = "previous" /\ Len(h264') = Count(tags, w, n) /\ Len(vFlvTag') = n
    BY <1>5, SetsCopied
  <2>2. PushTag  BY <1>5 DEF SequenceHeader, VideoTag, WholeTag
  <2>3. Len(h264) = Count(tags, w, Len(vFlvTag)) /\ phase # "done"
    BY <2>2 DEF Rest, PushTag
  <2>4. n \in 1..Len(tags)  BY <2>2, TagPushed DEF InFront
  <2>5. n - 1 = Len(vFlvTag) /\ Len(vFlvTag) < Len(tags) /\ n = Len(vFlvTag) + 1
    BY <2>4, SeqFacts DEF Where, Holds
  <2>. HIDE DEF n
  <2>6. /\ Count(tags, w, n) \in Nat /\ Count(tags, w, n - 1) \in Nat
        /\ Len(Places(tags[n], At(tags, w, n))) \in Nat
    BY <2>4, UnitsNext
  <2>7. /\ Same /\ Owed(sent, vFlvTag, h264) = 0 /\ Listed(sent, vFlvTag) + 1 = n
        /\ Listed(sent, vFlvTag) < Len(Counts(sent))
        /\ Listed(sent, vFlvTag)' = Listed(sent, vFlvTag) + 1
        /\ Owed(sent, vFlvTag, h264)' = 0
    BY <1>1, <2>1, <2>3, <2>5, <2>6 DEF Measured
  <2>8. Counts(sent)[n] \in Nat  BY <1>1, <2>4, <2>6 DEF Measured
  <2>. QED BY <2>1, <2>3, <2>7, <2>8, ListsAndCopies DEF D!Next
<1>6. CASE CopyNalu
  <2>. PICK n : n = Len(vFlvTag)  OBVIOUS
  <2>1. phase = "nalu" /\ phase' = "nalu" /\ countsize < tag.size /\ vFlvTag' = vFlvTag
    BY <1>6 DEF CopyNalu
  <2>2. PICK k : Amid(tags, w, n, k)  BY <2>1, AmidIs
  <2>3. n = Len(vFlvTag) /\ Len(h264) = Count(tags, w, n - 1) + k  BY <2>2 DEF Amid
  <2>4. k \in Nat /\ Len(h264') = Count(tags, w, n - 1) + (k + 1)
    <3>1. k \in Nat /\ Amid(tags, w, n, k + 1)'  BY <1>6, <2>2, UnitCopied
    <3>. QED BY <3>1 DEF Amid
  <2>5. /\ Count(tags, w, n) = Count(tags, w, n - 1) + Len(tags[n].units)
        /\ Count(tags, w, n - 1) \in Nat /\ Len(tags[n].units) \in Nat
        /\ k < Len(tags[n].units)
    BY <2>1, <2>2, AmidRead
  <2>6. /\ Same /\ Listed(sent, vFlvTag)' = Listed(sent, vFlvTag)
        /\ Owed(sent, vFlvTag, h264) > 0
        /\ Owed(sent, vFlvTag, h264)' = Owed(sent, vFlvTag, h264) - 1
    <3>1. /\ Same /\ Listed(sent, vFlvTag)' = Listed(sent, vFlvTag)
          /\ Owed(sent, vFlvTag, h264) = Count(tags, w, n) - Len(h264)
          /\ Owed(sent, vFlvTag, h264)' = Count(tags, w, n) - Len(h264')
      BY <1>1, <2>1 DEF Measured
    <3>2. Len(h264') = Len(h264) + 1 /\ Len(h264) \in Nat /\ Count(tags, w, n) \in Nat
          /\ Count(tags, w, n) - Len(h264) > 0
      BY <2>3, <2>4, <2>5, SMTT(60)
    <3>. QED BY <3>1, <3>2
  <2>. QED BY <2>1, <2>6, CopiesUnit DEF D!Next
<1>. QED BY <1>3, <1>4, <1>5, <1>6 DEF Next

\* An odd piece stands for an empty one, of which only the end is seen.
LEMMA OddSteps ==
  ASSUME ~AllRegular, Next
  PROVE  D!Next \/ UNCHANGED D!vars
<1>1. sent' = sent /\ ~RegularIn(sent) /\ ~RegularIn(sent')
  BY PieceKept DEF AllRegular, RegularIn
<1>2. /\ Same /\ Listed(sent, vFlvTag)' = Listed(sent, vFlvTag)
      /\ Owed(sent, vFlvTag, h264)' = Owed(sent, vFlvTag, h264)
  BY <1>1 DEF Same, Counts, Listed, Owed
<1>3. phase # "done"
  BY DEF Next, EmptyBuffer, ParseHead, EndOfTags, UnknownTag, SkipTag, CutBody, AudioTag,
     CommandFrame, OtherCodec, SequenceHeader, Nalus, CopyNalu, NaluStrays, NalusCopied,
     CheckPrevious, VideoTag, WholeTag, PushTag
<1>4. CASE phase' = "done"  BY <1>2, <1>3, <1>4, Finishes DEF D!Next
<1>5. CASE phase' # "done"  BY <1>2, <1>3, <1>5, Stutters
<1>. QED BY <1>4, <1>5

\* At first nothing is listed and nothing owed.
LEMMA DemuxBegins == Init => D!Init
<1>1. SUFFICES ASSUME Init PROVE D!Init  OBVIOUS
<1>2. phase # "done" /\ Len(vFlvTag) = 0 /\ Len(h264) = 0  BY <1>1, EmptyIs DEF Init
<1>3. PICK tags, w : Cut(tags, w)  BY <1>1, InitCuts
<1>4. tags \in Seq(Tags) /\ w \in BOOLEAN /\ LaidOut(sent, tags, w) /\ Len(tags) \in Nat
  BY <1>3, CutHolds DEF Holds
<1>5. CASE RegularIn(sent)
  <2>1. Counts(sent) \in Seq(Nat)  BY <1>4, <1>5, CountsAre
  <2>2. Count(tags, w, 0) = 0  BY <1>4, CountIs
  <2>3. 0 \in 0..Len(tags)  BY <1>4
  <2>4. Listed(sent, vFlvTag) = 0 /\ Owed(sent, vFlvTag, h264) = 0
    BY <1>2, <1>4, <1>5, <2>2, <2>3, OwedIs
  <2>5. (phase = "done") = FALSE  BY <1>2
  <2>. QED BY <2>1, <2>4, <2>5, Zenon DEF D!Init, Counts, Listed, Owed, RegularIn, AllRegular
<1>6. CASE ~RegularIn(sent)
  <2>1. Counts(sent) \in Seq(Nat) /\ Listed(sent, vFlvTag) = 0 /\ Owed(sent, vFlvTag, h264) = 0
    BY <1>6 DEF Counts, Listed, Owed
  <2>2. (phase = "done") = FALSE  BY <1>2
  <2>. QED BY <2>1, <2>2, Zenon DEF D!Init, Counts, Listed, Owed, RegularIn, AllRegular
<1>. QED BY <1>5, <1>6

\* The variant that reads a buffer is a demultiplexer that damages nothing.
THEOREM ParserDemultiplexes == Spec => Demultiplexes
<1>1. ASSUME Progress, [Next]_vars PROVE [D!Next]_(D!vars)
  <2>1. PICK tags, w : Cut(tags, w) /\ Where(tags, w) /\ (Regulars(tags) => Rest(tags, w))
    BY <1>1 DEF Progress
  <2>2. Holds(tags, w)  BY <2>1, CutHolds
  <2>3. CASE Next /\ Regulars(tags)  BY <2>1, <2>2, <2>3, RegularSteps
  <2>4. CASE Next /\ ~Regulars(tags)
    <3>1. LaidOut(sent, tags, w)  BY <2>2 DEF Holds
    <3>2. ~AllRegular  BY <2>4, <3>1, RegularsAre
    <3>. QED BY <2>4, <3>2, OddSteps
  <2>5. CASE UNCHANGED vars
    <3>1. /\ Same /\ Listed(sent, vFlvTag)' = Listed(sent, vFlvTag)
          /\ Owed(sent, vFlvTag, h264)' = Owed(sent, vFlvTag, h264)
          /\ phase' = phase
      BY <2>5 DEF vars, Same, Counts, Listed, Owed, RegularIn
    <3>. QED BY <3>1, Stutters
  <2>. QED BY <1>1, <2>3, <2>4, <2>5
<1>. QED BY <1>1, DemuxBegins, Progresses, PTL DEF Spec, Demultiplexes, D!Spec
=============================================================================
