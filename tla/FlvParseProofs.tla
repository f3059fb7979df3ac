--------------------------- MODULE FlvParseProofs ---------------------------
(***************************************************************************)
(* That the variant which reads a file reports the cuts it should, and     *)
(* takes a whole stream for complete only if it has read all of it, for    *)
(* every stream and every cut.                                             *)
(***************************************************************************)
EXTENDS FlvParse, FlvFormatProofs

-----------------------------------------------------------------------------
(* What fread does, and numbers by the parser's names.                     *)

\* Behind the end of the file nothing is read; a read that ends inside is complete; one
\* that does not ends at the end, and what follows it is behind the end, too.
LEMMA Reads ==
  ASSUME EndOfFile \in Nat, NEW p \in Nat, NEW n \in Nat
  PROVE  /\ Got(p, n) \in 0..n /\ Behind(p, n) \in Nat /\ p <= Behind(p, n)
         /\ p + n <= EndOfFile => Got(p, n) = n /\ Behind(p, n) = p + n
         /\ p + n > EndOfFile /\ n > 0 => Got(p, n) < n
         /\ p + n > EndOfFile => Behind(p, n) >= EndOfFile
         /\ p <= EndOfFile => Behind(p, n) <= EndOfFile
         /\ p < EndOfFile /\ n > 0 => Got(p, n) > 0
         /\ p <= EndOfFile /\ p + n > EndOfFile => Got(p, n) = EndOfFile - p
         /\ p >= EndOfFile => Got(p, n) = 0 /\ Behind(p, n) = p
BY DEF Got, Behind, Least, Greatest

LEMMA BigIs ==
  ASSUME NEW p, NEW n
  PROVE  Big(p, n) = Number(file, p, n)
BY DEF Big, Number, Digits

\* What a word holds after bytes have been read into it is a number.
LEMMA OverlayIs ==
  ASSUME NEW word \in Nat, NEW bytes, Len(bytes) \in 0..4,
         \A i \in 1..Len(bytes) : bytes[i] \in Nat
  PROVE  Overlay(word, bytes) \in Nat
<1>. DEFINE n == Len(bytes)
            back == Reverse(bytes)
<1>1. back = [i \in 1..n |-> bytes[(n - i) + 1]]  BY DEF Reverse
<1>2. \A i \in 1..n : (n - i) + 1 \in 1..n  OBVIOUS
<1>. HIDE DEF back, n
<1>3. n \in 0..4 /\ \A i \in 1..n : bytes[i] \in Nat  BY DEF n
<1>4. back \in [1..n -> Nat]  BY <1>1, <1>2, <1>3
<1>5. Len(back) = n /\ DOMAIN back = 1..n  BY <1>3, <1>4, CountedIs
<1>6. Digits(back) \in Nat  BY <1>3, <1>4, <1>5, DigitsAre
<1>7. 256 ^ n \in Nat \ {0}
  <2>1. 256 ^ 0 = 1 /\ 256 ^ 1 = 256 /\ 256 ^ 2 = 65536 /\ 256 ^ 3 = 16777216
        /\ 256 ^ 4 = 4294967296
    BY SMT
  <2>2. n = 0 \/ n = 1 \/ n = 2 \/ n = 3 \/ n = 4  BY <1>3
  <2>3. CASE n = 0  BY <2>1, <2>3, SMT
  <2>4. CASE n = 1  BY <2>1, <2>4, SMT
  <2>5. CASE n = 2  BY <2>1, <2>5, SMT
  <2>6. CASE n = 3  BY <2>1, <2>6, SMT
  <2>7. CASE n = 4  BY <2>1, <2>7, SMT
  <2>. QED BY <2>2, <2>3, <2>4, <2>5, <2>6, <2>7
<1>. DEFINE high == 256 ^ n
<1>8. Overlay(word, bytes) = high * (word \div high) + Digits(back)
  BY DEF Overlay, Digits, n, back
<1>. HIDE DEF high
<1>9. high \in Nat \ {0}  BY <1>7 DEF high
<1>10. word \div high \in Nat  BY <1>9, SMT
<1>11. high * (word \div high) \in Nat  BY <1>9, <1>10, SMT
<1>. QED BY <1>6, <1>8, <1>11

\* The bytes from p on that fread gets.
LEMMA GotBytes ==
  ASSUME IsSeq(file), NEW p \in Nat, NEW n \in 0..4,
         \A j \in 1..n : p + j <= EndOfFile => file[p + j] \in Nat
  PROVE  LET bytes == SubSeq(file, p + 1, p + Got(p, n)) IN
         /\ Len(bytes) = Got(p, n)
         /\ \A i \in 1..Len(bytes) : bytes[i] \in Nat
<1>. DEFINE g == Got(p, n)
            bytes == SubSeq(file, p + 1, p + g)
<1>0. EndOfFile \in Nat  BY SeqFacts DEF EndOfFile
<1>1. g \in 0..n /\ (p >= EndOfFile => g = 0) /\ (p <= EndOfFile => p + g <= EndOfFile)
  <2>1. n \in Nat  OBVIOUS
  <2>2. Behind(p, n) = p + g  BY DEF Behind
  <2>3. p <= EndOfFile => Behind(p, n) <= EndOfFile  BY <1>0, <2>1, Reads
  <2>. QED BY <1>0, <2>1, <2>2, <2>3, Reads
<1>. HIDE DEF g
<1>2. CASE p <= EndOfFile
  <2>1. p + g <= Len(file) /\ g \in Nat  BY <1>1, <1>2 DEF EndOfFile
  <2>2. Len(bytes) = g /\ \A i \in 1..g : bytes[i] = file[p + i]  BY <2>1, MiddleIs
  <2>3. \A i \in 1..g : i \in 1..n /\ p + i <= EndOfFile  BY <1>0, <1>1, <1>2
  <2>4. \A i \in 1..g : bytes[i] \in Nat  BY <2>2, <2>3
  <2>. QED BY <2>2, <2>4 DEF g
<1>3. CASE ~(p <= EndOfFile)
  <2>1. g = 0  BY <1>0, <1>1, <1>3
  <2>2. PICK S : file \in Seq(S)  BY DEF IsSeq
  <2>. DEFINE a == p + 1
              b == p + g
  <2>3. a \in Int /\ b \in Int /\ ~(a <= b)  BY <2>1
  <2>. HIDE DEF a, b
  <2>4. Len(SubSeq(file, a, b)) = 0
    <3>1. \A i \in a..b : file[i] \in S  BY <2>3
    <3>. QED BY <2>3, <3>1, SubSeqProperties
  <2>5. Len(bytes) = g  BY <2>1, <2>4 DEF a, b
  <2>6. \A i \in 1..g : bytes[i] \in Nat  BY <2>1
  <2>. QED BY <2>5, <2>6 DEF g
<1>. QED BY <1>0, <1>2, <1>3

\* A number read is the number in the file if all of it is there, and a number anyway.
LEMMA ReadIs ==
  ASSUME IsSeq(file), NEW old \in Nat, NEW p \in Nat, NEW n \in 1..4,
         \A j \in 1..n : p + j <= EndOfFile => file[p + j] \in Nat
  PROVE  /\ ReadInto(old, p, n) \in Nat
         /\ p + n <= EndOfFile => ReadInto(old, p, n) = Number(file, p, n)
<1>. DEFINE bytes == SubSeq(file, p + 1, p + Got(p, n))
<1>0. EndOfFile \in Nat  BY SeqFacts DEF EndOfFile
<1>5. n \in Nat /\ n > 0 /\ n \in 0..4  OBVIOUS
<1>1. Len(bytes) = Got(p, n) /\ \A i \in 1..Len(bytes) : bytes[i] \in Nat  BY <1>5, GotBytes
<1>2. Got(p, n) \in 0..n /\ (p + n <= EndOfFile <=> Got(p, n) = n)
  <2>1. Got(p, n) \in 0..n  BY <1>0, <1>5, Reads
  <2>2. p + n <= EndOfFile => Got(p, n) = n  BY <1>0, <1>5, Reads
  <2>3. p + n > EndOfFile => Got(p, n) < n  BY <1>0, <1>5, Reads
  <2>. QED BY <1>0, <2>1, <2>2, <2>3
<1>3. CASE Got(p, n) = n
  <2>1. ReadInto(old, p, n) = Number(file, p, n)  BY <1>3, BigIs DEF ReadInto
  <2>. DEFINE s == SubSeq(file, p + 1, p + n)
  <2>2. Len(s) = n /\ \A i \in 1..n : s[i] \in Nat  BY <1>1, <1>3
  <2>3. DOMAIN s = 1..n
    <3>1. p + n <= Len(file)  BY <1>2, <1>3 DEF EndOfFile
    <3>. QED BY <3>1, MiddleIs
  <2>. HIDE DEF s
  <2>4. Digits(s) \in Nat  BY <2>2, <2>3, DigitsAre
  <2>. QED BY <2>1, <2>4 DEF Number, s
<1>4. CASE Got(p, n) # n
  <2>1. ReadInto(old, p, n) = Overlay(old, bytes)  BY <1>4 DEF ReadInto
  <2>. HIDE DEF bytes
  <2>2. Len(bytes) \in 0..4  BY <1>1, <1>2
  <2>. QED BY <1>1, <1>2, <1>4, <2>1, <2>2, OverlayIs
<1>. QED BY <1>3, <1>4

\* So is a byte read into one.
LEMMA ReadByteIs ==
  ASSUME IsSeq(file), NEW old \in Nat, NEW p \in Nat,
         p + 1 <= EndOfFile => file[p + 1] \in Nat
  PROVE  ReadByteInto(old, p) \in Nat
<1>. DEFINE bytes == SubSeq(file, p + 1, p + Got(p, 1))
<1>0. EndOfFile \in Nat  BY SeqFacts DEF EndOfFile
<1>1. \A j \in 1..1 : p + j <= EndOfFile => file[p + j] \in Nat  OBVIOUS
<1>2. Len(bytes) = Got(p, 1) /\ \A i \in 1..Len(bytes) : bytes[i] \in Nat
  BY <1>1, 1 \in 0..4, GotBytes
<1>3. Got(p, 1) \in 0..1  BY <1>0, Reads
<1>4. ReadByteInto(old, p) = Overlay(old, bytes)  BY DEF ReadByteInto
<1>. HIDE DEF bytes
<1>5. Len(bytes) \in 0..4  BY <1>2, <1>3
<1>. QED BY <1>2, <1>4, <1>5, OverlayIs

-----------------------------------------------------------------------------
(* The recording.                                                          *)

TagAt(tags, k) == At(tags, TRUE, k)

\* The recording is cut from a stream of these tags.
Cut(tags) ==
  /\ tags \in Recordings
  /\ sent = Laid(tags, 13)
  /\ \E size \in 0..Len(Stream(tags)) : file = SubSeq(Stream(tags), 1, size)

\* The file holds the stream as far as it goes.
Holds(tags) ==
  /\ tags \in Seq(Tags) /\ Len(tags) \in Nat
  /\ IsSeq(file) /\ EndOfFile \in Nat /\ EndOfFile <= TagAt(tags, Len(tags) + 1)
  /\ \A i \in 1..EndOfFile : file[i] = Stream(tags)[i]
  /\ LaidOut(sent, tags, TRUE)

\* So much is known of a recording.
LEMMA CutHolds ==
  ASSUME NEW tags, Cut(tags)
  PROVE  Holds(tags)
<1>1. tags \in Seq(Tags) /\ TRUE \in BOOLEAN  BY FlvParseAssumption DEF Cut
<1>2. PICK size \in 0..Len(Stream(tags)) : file = SubSeq(Stream(tags), 1, size)  BY DEF Cut
<1>3. IsSeq(Stream(tags)) /\ Len(Stream(tags)) = TagAt(tags, Len(tags) + 1)
  BY <1>1, SendingIs DEF Sending, TagAt
<1>4. Len(Stream(tags)) \in Nat  BY <1>3, SeqFacts
<1>5. IsSeq(file) /\ EndOfFile = size /\ \A i \in 1..size : file[i] = Stream(tags)[i]
  BY <1>2, <1>3, FirstOnes DEF EndOfFile
<1>6. LaidOut(sent, tags, TRUE)
  <2>1. sent = Laid(tags, First(TRUE))  BY DEF Cut, First
  <2>. QED BY <1>1, <2>1, LaidIs
<1>7. Len(tags) \in Nat  BY <1>1, LenProperties
<1>8. EndOfFile \in Nat /\ EndOfFile <= TagAt(tags, Len(tags) + 1)  BY <1>3, <1>4, <1>5
<1>. QED BY <1>1, <1>5, <1>6, <1>7, <1>8 DEF Holds

\* A tag, where it starts, and what the file holds of it.
Lies(t, p) ==
  /\ t \in Tags /\ p \in Nat /\ p >= 13 /\ DataSize(t) \in Nat
  /\ U32(DataSize(t) + 11)[1] \in {0, 1}
  /\ p < EndOfFile => Next8(p) = Type(t)
  /\ p + 11 <= EndOfFile => Big(p + 1, 3) = DataSize(t)
  /\ \A j \in 1..DataSize(t) : p + 11 + j <= EndOfFile => file[p + 11 + j] = Body(t)[j]
  /\ \A j \in 1..4 : p + 11 + DataSize(t) + j <= EndOfFile =>
       file[p + 11 + DataSize(t) + j] = U32(PreviousTagSize(t))[j]

\* A tag's size fits in three bytes: the highest of the four behind it is next to nothing.
LEMMA SizeFits ==
  ASSUME NEW t \in Tags
  PROVE  U32(DataSize(t) + 11)[1] \in {0, 1}
<1>1. DataSize(t) \in Nat  BY BodyIs
<1>2. DataSize(t) < 16777216  BY SMTT(60) DEF Tags
<1>. DEFINE d == DataSize(t)
<1>. HIDE DEF d
<1>3. (d + 11) \div 16777216 \in {0, 1}
  <2>1. d \in Nat /\ d < 16777216  BY <1>1, <1>2, SMT DEF d
  <2>. QED BY <2>1, SMT
<1>. QED BY <1>3, U32Is, SMT DEF d

\* What is within a tag is far from wrapping.
LEMMA Unwrapped ==
  ASSUME NEW t \in Tags, NEW n \in Nat, n <= DataSize(t) + 1
  PROVE  n % Word = n /\ (n > 0 => n % Word # 0)
<1>1. DataSize(t) \in Nat  BY BodyIs
<1>2. DataSize(t) < 16777216  BY SMTT(60) DEF Tags
<1>3. Word \in Nat /\ Word > 2 * 16777216  BY FlvParseAssumption, SMT
<1>4. n < Word
  <2>. DEFINE d == DataSize(t)
  <2>1. d \in Nat /\ d < 16777216 /\ n <= d + 1  BY <1>1, <1>2, SMT
  <2>. HIDE DEF d
  <2>. QED BY <1>3, <2>1, SMT
<1>5. n % Word = n  BY <1>3, <1>4, SMT
<1>. QED BY <1>5, SMT

\* Each tag starts behind the one before it.
LEMMA TagsLie ==
  ASSUME NEW tags, Holds(tags)
  PROVE  /\ \A k \in 1..Len(tags) :
              /\ Lies(tags[k], TagAt(tags, k))
              /\ TagAt(tags, k + 1) = TagAt(tags, k) + 15 + DataSize(tags[k])
         /\ TagAt(tags, 1) = 13
         /\ \A k \in 1..(Len(tags) + 1) : TagAt(tags, k) \in Nat /\ TagAt(tags, k) >= 13
<1>0. /\ tags \in Seq(Tags) /\ Len(tags) \in Nat /\ IsSeq(file) /\ EndOfFile \in Nat
      /\ \A i \in 1..EndOfFile : file[i] = Stream(tags)[i]
      /\ TRUE \in BOOLEAN
  BY DEF Holds
<1>1. /\ TagAt(tags, 1) = 13
      /\ \A k \in 1..(Len(tags) + 1) : TagAt(tags, k) \in Nat
      /\ \A k \in 1..Len(tags) :
           TagAt(tags, k + 1) = TagAt(tags, k) + 15 + DataSize(tags[k])
  BY <1>0, AtIs DEF TagAt, First
<1>2. \A k \in 1..Len(tags) : /\ tags[k] \in Tags /\ DataSize(tags[k]) \in Nat
                              /\ U32(DataSize(tags[k]) + 11)[1] \in {0, 1}
  BY <1>0, LaysPieced, BodyIs, SizeFits
<1>. DEFINE S == {k \in Nat : k + 1 \in 1..(Len(tags) + 1) => TagAt(tags, k + 1) >= 13}
<1>3. 0 \in S  BY <1>1
<1>4. ASSUME NEW k \in Nat, k \in S PROVE k + 1 \in S
  <2>1. SUFFICES ASSUME (k + 1) + 1 \in 1..(Len(tags) + 1) PROVE TagAt(tags, (k + 1) + 1) >= 13
    OBVIOUS
  <2>2. k + 1 \in 1..Len(tags) /\ k + 1 \in 1..(Len(tags) + 1)  BY <1>0, <2>1
  <2>3. TagAt(tags, k + 1) >= 13 /\ TagAt(tags, k + 1) \in Nat  BY <1>1, <1>4, <2>2
  <2>4. TagAt(tags, (k + 1) + 1) = TagAt(tags, k + 1) + 15 + DataSize(tags[k + 1])
    BY <1>1, <2>2
  <2>5. DataSize(tags[k + 1]) \in Nat  BY <1>2, <2>2
  <2>. QED BY <2>3, <2>4, <2>5
<1>. HIDE DEF S
<1>5. \A k \in Nat : k \in S  BY <1>3, <1>4, SetInduction
<1>6. \A k \in 1..(Len(tags) + 1) : TagAt(tags, k) >= 13
  <2>1. SUFFICES ASSUME NEW k \in 1..(Len(tags) + 1) PROVE TagAt(tags, k) >= 13  OBVIOUS
  <2>2. k - 1 \in Nat /\ (k - 1) + 1 = k  BY <1>0
  <2>3. k - 1 \in S  BY <1>5, <2>2
  <2>. QED BY <2>2, <2>3 DEF S
<1>7. ASSUME NEW k \in 1..Len(tags) PROVE Lies(tags[k], TagAt(tags, k))
  <2>. DEFINE p == TagAt(tags, k)
              d == DataSize(tags[k])
  <2>1. k \in 1..(Len(tags) + 1)  BY <1>0
  <2>2. p \in Nat /\ p >= 13 /\ tags[k] \in Tags /\ d \in Nat
        /\ U32(d + 11)[1] \in {0, 1}
    BY <1>1, <1>2, <1>6, <2>1
  <2>3. \A j \in 1..(15 + d) : Stream(tags)[p + j] = Layout(tags[k])[j]
    BY <1>0, SendingIs DEF Sending, TagAt
  <2>4. /\ Layout(tags[k])[1] = Type(tags[k])
        /\ \A i \in 1..3 : Layout(tags[k])[1 + i] = U24(d)[i]
        /\ \A i \in 1..d : Layout(tags[k])[11 + i] = Body(tags[k])[i]
        /\ \A i \in 1..4 : Layout(tags[k])[11 + d + i] = U32(PreviousTagSize(tags[k]))[i]
    BY <2>2, LayoutIs
  <2>5. DataSize(tags[k]) = d /\ TagAt(tags, k) = p  OBVIOUS
  <2>. HIDE DEF d, p
  <2>6. ASSUME NEW j \in 1..(15 + d), p + j <= EndOfFile
        PROVE  file[p + j] = Layout(tags[k])[j]
    <3>1. p + j \in 1..EndOfFile  BY <1>0, <2>2, <2>6
    <3>. QED BY <1>0, <2>3, <3>1
  <2>7. p < EndOfFile => Next8(p) = Type(tags[k])
    <3>1. p < EndOfFile => 1 \in 1..(15 + d) /\ p + 1 <= EndOfFile  BY <1>0, <2>2
    <3>. QED BY <2>4, <2>6, <3>1 DEF Next8
  <2>8. ASSUME p + 11 <= EndOfFile PROVE Big(p + 1, 3) = d
    <3>1. p + 1 \in Nat /\ (p + 1) + 3 <= Len(file) /\ d \in Nat  BY <1>0, <2>2, <2>8 DEF EndOfFile
    <3>2. \A i \in 1..3 : (p + 1) + i = p + (1 + i) /\ 1 + i \in 1..(15 + d)
                          /\ p + (1 + i) <= EndOfFile
      BY <1>0, <2>2, <2>8
    <3>3. \A i \in 1..3 : file[(p + 1) + i] = U24(d)[i]  BY <2>4, <2>6, <3>2
    <3>. QED BY <1>0, <3>1, <3>3, ThreeBack, BigIs
  <2>9. ASSUME NEW j \in 1..d, p + 11 + j <= EndOfFile
        PROVE  file[p + 11 + j] = Body(tags[k])[j]
    <3>1. p + 11 + j = p + (11 + j) /\ 11 + j \in 1..(15 + d)  BY <2>2
    <3>. QED BY <2>4, <2>6, <2>9, <3>1
  <2>10. ASSUME NEW j \in 1..4, p + 11 + d + j <= EndOfFile
         PROVE  file[p + 11 + d + j] = U32(PreviousTagSize(tags[k]))[j]
    <3>1. p + 11 + d + j = p + (11 + d + j) /\ 11 + d + j \in 1..(15 + d)  BY <2>2
    <3>. QED BY <2>4, <2>6, <2>10, <3>1
  <2>. QED BY <2>2, <2>5, <2>7, <2>8, <2>9, <2>10 DEF Lies
<1>. QED BY <1>1, <1>6, <1>7

\* A tag does not start before one in front of it.
LEMMA TagsFollow ==
  ASSUME NEW tags, Holds(tags), NEW k \in 1..(Len(tags) + 1), NEW n \in 1..(Len(tags) + 1), k <= n
  PROVE  TagAt(tags, k) <= TagAt(tags, n) /\ (k < n => TagAt(tags, k) + 15 <= TagAt(tags, n))
<1>0. Len(tags) \in Nat  BY DEF Holds
<1>. DEFINE S == {d \in Nat : k + d <= Len(tags) + 1 =>
                    /\ TagAt(tags, k) <= TagAt(tags, k + d)
                    /\ d > 0 => TagAt(tags, k) + 15 <= TagAt(tags, k + d)}
<1>1. 0 \in S
  <2>1. k + 0 = k /\ TagAt(tags, k) \in Nat  BY TagsLie
  <2>. QED BY <2>1
<1>2. ASSUME NEW d \in Nat, d \in S PROVE d + 1 \in S
  <2>1. SUFFICES ASSUME k + (d + 1) <= Len(tags) + 1
                 PROVE  /\ TagAt(tags, k) <= TagAt(tags, k + (d + 1))
                        /\ TagAt(tags, k) + 15 <= TagAt(tags, k + (d + 1))
    OBVIOUS
  <2>. DEFINE m == k + d
  <2>2. m \in 1..Len(tags) /\ m \in 1..(Len(tags) + 1) /\ k + (d + 1) = m + 1  BY <1>0, <2>1
  <2>3. TagAt(tags, k) <= TagAt(tags, m)  BY <1>0, <1>2, <2>1
  <2>. HIDE DEF m
  <2>4. /\ TagAt(tags, m + 1) = TagAt(tags, m) + 15 + DataSize(tags[m])
        /\ DataSize(tags[m]) \in Nat
    BY <2>2, TagsLie DEF Lies
  <2>5. TagAt(tags, k) \in Nat /\ TagAt(tags, m) \in Nat  BY <2>2, TagsLie
  <2>. QED BY <2>2, <2>3, <2>4, <2>5
<1>. HIDE DEF S
<1>3. \A d \in Nat : d \in S  BY <1>1, <1>2, SetInduction
<1>4. n - k \in Nat /\ k + (n - k) = n /\ n <= Len(tags) + 1  BY <1>0
<1>5. n - k \in S  BY <1>3, <1>4
<1>. QED BY <1>4, <1>5 DEF S


-----------------------------------------------------------------------------
(* What the parser has done so far.  Nothing is claimed of an odd stream   *)
(* that was cut or that holds a misleading tag: there is no telling where  *)
(* in it the parser gets to.                                               *)

\* A tag that may mislead the parser.
Deceives(t) ==
  \/ t.kind = "h263" /\ Len(t.units) >= 4 /\ SubSeq(t.units, 1, 4) = U32(DataSize(t) + 11)
  \/ t.kind = "claiming"
Honest(tags) == \A i \in 1..Len(tags) : ~Deceives(tags[i])

Regulars(tags) == \A i \in 1..Len(tags) : Regular(tags[i])
Whole(tags) == EndOfFile = TagAt(tags, Len(tags) + 1) /\ Honest(tags)
Telling(tags) == Regulars(tags) \/ Whole(tags)

Sound(t) == Regular(t) \/ DataSize(t) = 5
There(tags, i) == TagAt(tags, i) + FixedPart(tags[i]) <= EndOfFile
Passed(tags, k) == \A i \in 1..k : There(tags, i) /\ Sound(tags[i])

\* The parser is in front of a tag,
AtTag(tags) ==
  /\ IsSeq(vFlvTag) /\ Len(vFlvTag) \in 0..Len(tags)
  /\ pos = TagAt(tags, Len(vFlvTag) + 1)
  /\ Passed(tags, Len(vFlvTag)) /\ EndOfFile >= 9 /\ iRet = "STREAM_OK"

\* or in one that it has listed.
InTag(tags) ==
  /\ IsSeq(vFlvTag) /\ Len(vFlvTag) \in 1..Len(tags)
  /\ tag.size = DataSize(tags[Len(vFlvTag)])
  /\ Passed(tags, Len(vFlvTag) - 1) /\ There(tags, Len(vFlvTag)) /\ iRet = "STREAM_OK"

\* It has run into the end of the file;
Short(t, p) == Regular(t) /\ EndOfFile < p + 11 + DataSize(t) /\ pos \in Nat /\ pos >= EndOfFile

\* it is in front of a unit of the tag at p, or behind the last;
Copying(t, p) ==
  \/ /\ t.kind \in {"nalus", "badsize"}
     /\ \E k \in 0..Len(t.units) :
          countsize = Lot(t.units, k) /\ pos = p + 11 + Lot(t.units, k) /\ pos <= EndOfFile
  \/ Short(t, p)
  \/ /\ t.kind = "overlong"
     /\ \/ countsize = 5 /\ pos = p + 16
        \/ countsize = DataSize(t) + 1 /\ pos = p + 12 + DataSize(t)

\* an odd tag has been left early, or too late;
Astray(t, p) ==
  \/ t.kind = "h263" /\ DataSize(t) > 5 /\ pos = p + 16
  \/ t.kind = "config_high" /\ pos = p + 7 + DataSize(t)
  \/ t.kind \in {"longset", "overlong"} /\ pos = p + 12 + DataSize(t)

\* the tag has been read.
Read(t, p) ==
  \/ pos = p + 11 + DataSize(t) /\ pos <= EndOfFile /\ (Sound(t) \/ t.kind = "badsize")
  \/ Short(t, p)
  \/ Astray(t, p)

\* A cut that CutsReported says is reported.
Noticed(tags) ==
  \/ EndOfFile \in 1..8
  \/ \E i \in 1..Len(tags) :
       EndOfFile \in (TagAt(tags, i) + 1)..(TagAt(tags, i) + FixedPart(tags[i]) - 1)

Ended(tags) ==
  /\ Regulars(tags) => (iRet = "STREAM_OK" <=> ~Noticed(tags))
  /\ Whole(tags) /\ iRet = "STREAM_OK" =>
       /\ Len(vFlvTag) = Len(tags)
       /\ \A i \in 1..Len(tags) :
            \/ Sound(tags[i])
            \/ i = Len(tags) /\ tags[i].kind \in {"overlong", "longset"}

Where(tags) ==
  /\ templength \in Nat
  /\ phase = "head" => vFlvTag = <<>> /\ iRet = "STREAM_OK"
  /\ phase = "tag" => AtTag(tags)
  /\ phase = "nalu" => InTag(tags) /\ Copying(tags[Len(vFlvTag)], TagAt(tags, Len(vFlvTag)))
  /\ phase = "previous" => InTag(tags) /\ Read(tags[Len(vFlvTag)], TagAt(tags, Len(vFlvTag)))
  /\ phase = "done" => Ended(tags)

ParseInv == \E tags : Cut(tags) /\ (Telling(tags) => Where(tags))

\* The fixed part of a tag ends inside it or in the size behind it.
LEMMA Fixed ==
  ASSUME NEW t \in Tags
  PROVE  /\ t.kind = "script" => FixedPart(t) = 11
         /\ t.kind = "audio" => FixedPart(t) = 12
         /\ t.kind = "command" => FixedPart(t) = 17
         /\ t.kind \notin {"script", "audio", "command"} => FixedPart(t) = 16
         /\ FixedPart(t) \in 11..17
BY SMTT(60) DEF FixedPart

\* A recording that ends in front of a tag, all tags before it there, loses nothing unnoticed.
LEMMA Unnoticed ==
  ASSUME NEW tags, Holds(tags), NEW k \in 0..Len(tags), Passed(tags, k),
         EndOfFile \notin 1..8, EndOfFile <= TagAt(tags, k + 1)
  PROVE  ~Noticed(tags)
<1>0. Len(tags) \in Nat /\ EndOfFile \in Nat  BY DEF Holds
<1>1. SUFFICES ASSUME NEW i \in 1..Len(tags),
                      EndOfFile \in (TagAt(tags, i) + 1)..(TagAt(tags, i) + FixedPart(tags[i]) - 1)
               PROVE  FALSE
  BY DEF Noticed
<1>2. i \in 1..(Len(tags) + 1) /\ k + 1 \in 1..(Len(tags) + 1)  BY <1>0
<1>3. TagAt(tags, i) \in Nat /\ TagAt(tags, k + 1) \in Nat /\ tags[i] \in Tags
  BY <1>2, TagsLie DEF Lies
<1>4. FixedPart(tags[i]) \in 11..17  BY <1>3, Fixed
<1>5. CASE i <= k
  <2>1. TagAt(tags, i) + FixedPart(tags[i]) <= EndOfFile
    <3>1. i \in 1..k  BY <1>5
    <3>. QED BY <3>1 DEF Passed, There
  <2>. QED BY <1>0, <1>1, <1>3, <1>4, <2>1
<1>6. CASE ~(i <= k)
  <2>1. k + 1 <= i  BY <1>0, <1>6
  <2>2. TagAt(tags, k + 1) <= TagAt(tags, i)  BY <1>2, <2>1, TagsFollow
  <2>. QED BY <1>0, <1>1, <1>3, <1>4, <2>2
<1>. QED BY <1>5, <1>6

\* A whole recording that ends in front of a tag ends behind the last one.
LEMMA WholeEnds ==
  ASSUME NEW tags, Holds(tags), Whole(tags), NEW k \in 0..Len(tags),
         EndOfFile <= TagAt(tags, k + 1)
  PROVE  k = Len(tags)
<1>0. Len(tags) \in Nat /\ EndOfFile = TagAt(tags, Len(tags) + 1)  BY DEF Holds, Whole
<1>1. Len(tags) + 1 \in 1..(Len(tags) + 1) /\ k + 1 \in 1..(Len(tags) + 1)  BY <1>0
<1>2. TagAt(tags, k + 1) \in Nat /\ TagAt(tags, Len(tags) + 1) \in Nat  BY <1>1, TagsLie
<1>3. k + 1 < Len(tags) + 1 => TagAt(tags, k + 1) + 15 <= TagAt(tags, Len(tags) + 1)
  BY <1>0, <1>1, TagsFollow
<1>. QED BY <1>0, <1>2, <1>3

\* A tag of the stream, ahead of the end of the file.
Ahead(tags, k, t, p) ==
  /\ k \in 1..Len(tags) /\ t = tags[k] /\ p = TagAt(tags, k) /\ Lies(t, p)
  /\ TagAt(tags, k + 1) = p + 15 + DataSize(t) /\ DataSize(t) \in Nat /\ ~Deceives(t)
  /\ (Regulars(tags) /\ Regular(t)) \/ (Whole(tags) /\ p + 15 + DataSize(t) <= EndOfFile)

\* All of a whole stream is.
LEMMA TagAhead ==
  ASSUME NEW tags, Holds(tags), Telling(tags), NEW k \in 1..Len(tags)
  PROVE  Ahead(tags, k, tags[k], TagAt(tags, k))
<1>0. Len(tags) \in Nat  BY DEF Holds
<1>1. /\ Lies(tags[k], TagAt(tags, k)) /\ DataSize(tags[k]) \in Nat
      /\ TagAt(tags, k + 1) = TagAt(tags, k) + 15 + DataSize(tags[k])
  BY TagsLie DEF Lies
<1>2. Regulars(tags) => Regular(tags[k])  BY DEF Regulars
<1>3. ASSUME Whole(tags) PROVE TagAt(tags, k) + 15 + DataSize(tags[k]) <= EndOfFile
  <2>1. k + 1 \in 1..(Len(tags) + 1) /\ Len(tags) + 1 \in 1..(Len(tags) + 1)
        /\ k + 1 <= Len(tags) + 1
    BY <1>0
  <2>2. TagAt(tags, k + 1) <= TagAt(tags, Len(tags) + 1)  BY <2>1, TagsFollow
  <2>. QED BY <1>1, <1>3, <2>2 DEF Whole
<1>4. ~Deceives(tags[k])
  <2>1. Regular(tags[k]) => ~Deceives(tags[k])  BY DEF Regular, Deceives
  <2>2. Whole(tags) => ~Deceives(tags[k])  BY DEF Whole, Honest
  <2>. QED BY <1>2, <2>1, <2>2 DEF Telling
<1>. QED BY <1>1, <1>2, <1>3, <1>4 DEF Ahead, Telling

\* So is the tag that the parser is in front of, unless the file ends there.
LEMMA NextAhead ==
  ASSUME NEW tags, Holds(tags), Telling(tags), AtTag(tags), pos < EndOfFile
  PROVE  Ahead(tags, Len(vFlvTag) + 1, tags[Len(vFlvTag) + 1], pos)
<1>. DEFINE n == Len(vFlvTag)
<1>0. Len(tags) \in Nat /\ EndOfFile \in Nat /\ EndOfFile <= TagAt(tags, Len(tags) + 1)
      /\ n \in 0..Len(tags) /\ pos = TagAt(tags, n + 1)
  BY DEF Holds, AtTag
<1>1. n # Len(tags)
  <2>1. Len(tags) + 1 \in 1..(Len(tags) + 1)  BY <1>0
  <2>2. TagAt(tags, Len(tags) + 1) \in Nat  BY <2>1, TagsLie
  <2>. QED BY <1>0, <2>2
<1>2. n + 1 \in 1..Len(tags)  BY <1>0, <1>1
<1>. QED BY <1>0, <1>2, TagAhead

-----------------------------------------------------------------------------
(* The steps, in front of a tag.                                           *)

\* Sequences of the same elements are the same.
LEMMA SameSeq ==
  ASSUME NEW s, IsSeq(s), NEW t, IsSeq(t), Len(s) = Len(t),
         \A i \in 1..Len(s) : s[i] = t[i]
  PROVE  s = t
<1>1. PICK S : s \in Seq(S)  BY DEF IsSeq
<1>2. PICK T : t \in Seq(T)  BY DEF IsSeq
<1>. DEFINE n == Len(s)
<1>3. n \in Nat /\ DOMAIN s = 1..n /\ DOMAIN t = 1..n  BY SeqFacts
<1>4. s = [i \in 1..n |-> s[i]] /\ t = [i \in 1..n |-> t[i]]
  <2>1. s \in [1..n -> S] /\ t \in [1..n -> T]  BY <1>1, <1>2, LenProperties
  <2>. QED BY <2>1
<1>. QED BY <1>4

\* Whatever holds the FLV header begins as one.
LEMMA HeaderThere ==
  ASSUME NEW tags, Holds(tags), EndOfFile >= 9
  PROVE  HeaderOK
<1>0. IsSeq(file) /\ EndOfFile \in Nat /\ EndOfFile = Len(file) /\ tags \in Seq(Tags)
      /\ TRUE \in BOOLEAN
  BY DEF Holds, EndOfFile
<1>1. /\ file[1] = 70 /\ file[2] = 76 /\ file[3] = 86
      /\ \A i \in 1..4 : file[5 + i] = U32(9)[i]
  <2>. DEFINE s == Sending(tags, TRUE)
  <2>1. /\ s[1] = 70 /\ s[2] = 76 /\ s[3] = 86
        /\ \A i \in 1..4 : s[5 + i] = U32(9)[i]
    BY <1>0, SendingIs
  <2>. HIDE DEF s
  <2>2. \A i \in 1..EndOfFile : file[i] = s[i]  BY DEF Holds, Sending, s
  <2>3. 1 \in 1..EndOfFile /\ 2 \in 1..EndOfFile /\ 3 \in 1..EndOfFile
        /\ \A i \in 1..4 : 5 + i \in 1..EndOfFile
    BY <1>0
  <2>. QED BY <2>1, <2>2, <2>3
<1>2. SubSeq(file, 1, 3) = <<70, 76, 86>>
  <2>1. 3 \in 0..Len(file)  BY <1>0
  <2>2. IsSeq(SubSeq(file, 1, 3)) /\ Len(SubSeq(file, 1, 3)) = 3
        /\ \A i \in 1..3 : SubSeq(file, 1, 3)[i] = file[i]
    BY <1>0, <2>1, FirstOnes
  <2>. DEFINE s == SubSeq(file, 1, 3)
              t == <<70, 76, 86>>
  <2>3. IsSeq(t) /\ Len(t) = 3 /\ t[1] = 70 /\ t[2] = 76 /\ t[3] = 86  BY ThreeIs
  <2>4. s[1] = 70 /\ s[2] = 76 /\ s[3] = 86
    <3>1. 1 \in 1..3 /\ 2 \in 1..3 /\ 3 \in 1..3  OBVIOUS
    <3>. QED BY <1>1, <2>2, <3>1
  <2>5. IsSeq(s) /\ Len(s) = 3  BY <2>2
  <2>. HIDE DEF s, t
  <2>6. \A i \in 1..3 : i = 1 \/ i = 2 \/ i = 3  OBVIOUS
  <2>7. \A i \in 1..Len(s) : s[i] = t[i]  BY <2>3, <2>4, <2>5, <2>6
  <2>8. s = t  BY <2>3, <2>5, <2>7, SameSeq
  <2>. QED BY <2>8 DEF s, t
<1>3. Big(5, 4) = 9
  <2>1. 5 \in Nat /\ 9 \in Nat /\ 5 + 4 <= Len(file)  BY <1>0
  <2>2. Number(file, 5, 4) = 9  BY <1>0, <1>1, <2>1, FourBack, SMTT(30)
  <2>. QED BY <2>2, BigIs, Zenon
<1>. QED BY <1>2, <1>3 DEF HeaderOK

\* What no action but the one that makes the recording changes.
Same == sent' = sent /\ file' = file

\* What is said of the stream and its cut stays true.
LEMMA SameHolds ==
  ASSUME NEW tags, Same
  PROVE  /\ EndOfFile' = EndOfFile
         /\ Holds(tags) => Holds(tags)'
         /\ \A k : Passed(tags, k)' <=> Passed(tags, k)
         /\ \A k : There(tags, k)' <=> There(tags, k)
         /\ Regulars(tags)' <=> Regulars(tags)
         /\ Whole(tags)' <=> Whole(tags)
         /\ Telling(tags)' <=> Telling(tags)
         /\ Noticed(tags)' <=> Noticed(tags)
         /\ Cut(tags) => Cut(tags)'
<1>1. EndOfFile' = EndOfFile  BY DEF EndOfFile, Same
<1>. QED BY <1>1 DEF Holds, Passed, There, Regulars, Whole, Honest, Telling, Noticed, Cut, Same

\* Where a step may lead: in front of a tag,
LEMMA ToTag ==
  ASSUME NEW tags, Same, NEW k \in 0..Len(tags), IsSeq(vFlvTag'), Len(vFlvTag') = k,
         pos' = TagAt(tags, k + 1), Passed(tags, k), EndOfFile >= 9, iRet' = "STREAM_OK",
         phase' = "tag", templength' \in Nat
  PROVE  Where(tags)'
<1>1. AtTag(tags)'
  <2>1. EndOfFile' = EndOfFile  BY SameHolds
  <2>2. Passed(tags, k)'  BY SameHolds
  <2>3. \A i \in 1..k : There(tags, i)' /\ Sound(tags[i])  BY <2>2 DEF Passed
  <2>4. (Passed(tags, Len(vFlvTag)))'  BY <2>3 DEF Passed
  <2>. QED BY <2>1, <2>4 DEF AtTag
<1>. QED BY <1>1 DEF Where

\* into a tag, between its units,
LEMMA ToUnit ==
  ASSUME NEW tags, Same, NEW k \in 1..Len(tags), IsSeq(vFlvTag'), Len(vFlvTag') = k,
         tag'.size = DataSize(tags[k]), Passed(tags, k - 1), There(tags, k),
         iRet' = "STREAM_OK", phase' = "nalu", templength' \in Nat,
         (Copying(tags[k], TagAt(tags, k)))'
  PROVE  Where(tags)'
<1>1. InTag(tags)'
  <2>1. Passed(tags, k - 1)' /\ There(tags, k)'  BY SameHolds
  <2>2. (Passed(tags, Len(vFlvTag) - 1))' /\ (There(tags, Len(vFlvTag)))'
    BY <2>1 DEF Passed, There
  <2>. QED BY <2>2 DEF InTag
<1>2. (Copying(tags[Len(vFlvTag)], TagAt(tags, Len(vFlvTag))))'  BY DEF Copying, Short
<1>. QED BY <1>1, <1>2 DEF Where

\* or behind what it reads of it,
LEMMA ToPrevious ==
  ASSUME NEW tags, Same, NEW k \in 1..Len(tags), IsSeq(vFlvTag'), Len(vFlvTag') = k,
         tag'.size = DataSize(tags[k]), Passed(tags, k - 1), There(tags, k),
         iRet' = "STREAM_OK", phase' = "previous", templength' \in Nat,
         (Read(tags[k], TagAt(tags, k)))'
  PROVE  Where(tags)'
<1>1. InTag(tags)'
  <2>1. Passed(tags, k - 1)' /\ There(tags, k)'  BY SameHolds
  <2>2. (Passed(tags, Len(vFlvTag) - 1))' /\ (There(tags, Len(vFlvTag)))'
    BY <2>1 DEF Passed, There
  <2>. QED BY <2>2 DEF InTag
<1>2. (Read(tags[Len(vFlvTag)], TagAt(tags, Len(vFlvTag))))'  BY DEF Read, Astray, Short
<1>. QED BY <1>1, <1>2 DEF Where

\* to the end, well
LEMMA ToEnd ==
  ASSUME NEW tags, Same, phase' = "done", templength' \in Nat, iRet' = "STREAM_OK",
         Regulars(tags) => ~Noticed(tags),
         Whole(tags) =>
           /\ Len(vFlvTag') = Len(tags)
           /\ \A i \in 1..Len(tags) :
                \/ Sound(tags[i])
                \/ i = Len(tags) /\ tags[i].kind \in {"overlong", "longset"}
  PROVE  Where(tags)'
<1>1. Ended(tags)'
  <2>1. /\ Regulars(tags)' <=> Regulars(tags)
        /\ Whole(tags)' <=> Whole(tags)
        /\ Noticed(tags)' <=> Noticed(tags)
    BY SameHolds
  <2>. QED BY <2>1 DEF Ended
<1>. QED BY <1>1 DEF Where

\* or with an error.
LEMMA ToError ==
  ASSUME NEW tags, Same, phase' = "done", templength' \in Nat, iRet' # "STREAM_OK",
         Regulars(tags) => Noticed(tags)
  PROVE  Where(tags)'
<1>1. Ended(tags)'
  <2>1. /\ Regulars(tags)' <=> Regulars(tags)
        /\ Noticed(tags)' <=> Noticed(tags)
    BY SameHolds
  <2>. QED BY <2>1 DEF Ended
<1>. QED BY <1>1 DEF Where

\* What there is in front of the first tag.
LEMMA HeadSteps ==
  ASSUME NEW tags, Holds(tags), Telling(tags), Where(tags), EmptyFile \/ HeaderError \/ ParseHead
  PROVE  Where(tags)'
<1>0. Same /\ templength' \in Nat /\ vFlvTag = <<>> /\ iRet = "STREAM_OK" /\ vFlvTag' = vFlvTag
  BY DEF EmptyFile, HeaderError, ParseHead, Same, Where
<1>1. Len(tags) \in Nat /\ EndOfFile \in Nat  BY DEF Holds
<1>2. TagAt(tags, 1) = 13 /\ (Whole(tags) => EndOfFile >= 13)
      /\ \A k \in 1..(Len(tags) + 1) : TagAt(tags, k) >= 13 /\ TagAt(tags, k) \in Nat
  <2>1. Len(tags) + 1 \in 1..(Len(tags) + 1)  BY <1>1
  <2>. QED BY <2>1, TagsLie DEF Whole
<1>3. CASE EmptyFile
  <2>1. EndOfFile = 0 /\ phase' = "done" /\ iRet' = "STREAM_OK"  BY <1>3 DEF EmptyFile, Finish
  <2>2. 0 \in 0..Len(tags) /\ 0 + 1 = 1  BY <1>1
  <2>3. Passed(tags, 0)  BY DEF Passed
  <2>4. EndOfFile <= TagAt(tags, 0 + 1) /\ EndOfFile \notin 1..8  BY <1>2, <2>1, <2>2
  <2>5. ~Noticed(tags)  BY <2>2, <2>3, <2>4, Unnoticed
  <2>6. ~Whole(tags)  BY <1>2, <2>1
  <2>. QED BY <1>0, <2>1, <2>5, <2>6, ToEnd
<1>4. CASE HeaderError
  <2>1. EndOfFile > 0 /\ ~HeaderOK /\ phase' = "done" /\ iRet' = "FLV_HEADER_ERROR"
    BY <1>4 DEF HeaderError, Finish
  <2>2. EndOfFile \in 1..8  BY <1>1, <2>1, HeaderThere
  <2>3. Noticed(tags)  BY <2>2 DEF Noticed
  <2>. QED BY <1>0, <2>1, <2>3, ToError
<1>5. CASE ParseHead
  <2>1. HeaderOK /\ pos' = 13 /\ phase' = "tag" /\ iRet' = "STREAM_OK"
    BY <1>0, <1>5 DEF ParseHead
  <2>2. EndOfFile >= 9  BY <2>1 DEF HeaderOK
  <2>3. Passed(tags, 0)  BY DEF Passed
  <2>4. IsSeq(vFlvTag') /\ Len(vFlvTag') = 0 /\ 0 \in 0..Len(tags) /\ 0 + 1 = 1
    BY <1>0, <1>1, EmptyIs
  <2>5. pos' = TagAt(tags, 0 + 1)  BY <1>2, <2>1, <2>4
  <2>. QED BY <1>0, <2>1, <2>2, <2>3, <2>4, <2>5, ToTag
<1>. QED BY <1>3, <1>4, <1>5

\* Which tags have which type.
LEMMA TypesTell ==
  ASSUME NEW t \in Tags
  PROVE  /\ Type(t) = 8 => t.kind = "audio"
         /\ Type(t) = 18 => t.kind = "script"
         /\ Type(t) = 9 => t.kind \in {"nalus", "badsize", "config", "config_high", "longset",
                                       "overlong", "claiming", "h263", "command"}
         /\ Type(t) \notin {8, 9, 18} => ~Regular(t)
         /\ Type(t) \in {8, 9, 15, 18, 41}
<1>1. t.kind \in Kinds  BY TagsAre
<1>. QED BY <1>1 DEF Kinds, Type, Regular

\* Nothing, or nothing it knows, or too little of it in front of the parser.
LEMMA EndSteps ==
  ASSUME NEW tags, Holds(tags), Telling(tags), Where(tags),
         EndOfTags \/ UnknownTag \/ CutTagHeader
  PROVE  Where(tags)'
<1>0. /\ Same /\ templength' \in Nat /\ vFlvTag' = vFlvTag /\ phase' = "done" /\ phase = "tag"
      /\ AtTag(tags)
  BY DEF EndOfTags, UnknownTag, CutTagHeader, Finish, Same, Where
<1>1. Len(tags) \in Nat /\ EndOfFile \in Nat  BY DEF Holds
<1>. DEFINE n == Len(vFlvTag)
            t == tags[n + 1]
<1>2. n \in 0..Len(tags) /\ n \in Nat /\ pos = TagAt(tags, n + 1) /\ Passed(tags, n)
      /\ EndOfFile >= 9 /\ iRet = "STREAM_OK"
  BY <1>0, <1>1 DEF AtTag
<1>3. pos \in Nat
  <2>1. n + 1 \in 1..(Len(tags) + 1)  BY <1>1, <1>2
  <2>. QED BY <1>2, <2>1, TagsLie
<1>4. CASE EndOfTags
  <2>1. EndOfFile <= TagAt(tags, n + 1) /\ iRet' = "STREAM_OK"
    BY <1>1, <1>2, <1>3, <1>4 DEF EndOfTags, Finish
  <2>2. EndOfFile \notin 1..8  BY <1>1, <1>2
  <2>3. ~Noticed(tags)  BY <1>2, <2>1, <2>2, Unnoticed
  <2>4. Whole(tags) => n = Len(tags)  BY <1>2, <2>1, WholeEnds
  <2>5. Whole(tags) => Len(vFlvTag') = Len(tags) /\ \A i \in 1..Len(tags) : Sound(tags[i])
    BY <1>0, <1>2, <2>4 DEF Passed
  <2>. QED BY <1>0, <2>1, <2>3, <2>5, ToEnd
<1>5. CASE UnknownTag
  <2>1. pos < EndOfFile /\ Next8(pos) \notin {8, 9, 18} /\ iRet' = "FLV_VIDEOTAG_UNKNOWN"
    BY <1>5 DEF UnknownTag, Finish, Known
  <2>2. Ahead(tags, n + 1, t, pos)  BY <1>0, <2>1, NextAhead
  <2>3. t \in Tags /\ Next8(pos) = Type(t) /\ n + 1 \in 1..Len(tags)  BY <2>1, <2>2 DEF Ahead, Lies
  <2>4. ~Regular(t)  BY <2>1, <2>3, TypesTell
  <2>5. ~Regulars(tags)  BY <2>3, <2>4 DEF Regulars
  <2>. QED BY <1>0, <2>1, <2>5, ToError
<1>6. CASE CutTagHeader
  <2>1. pos < EndOfFile /\ pos + 11 > EndOfFile /\ iRet' = "FILE_READ_ERROR"
    BY <1>6 DEF CutTagHeader, Finish
  <2>2. Ahead(tags, n + 1, t, pos)  BY <1>0, <2>1, NextAhead
  <2>3. t \in Tags /\ n + 1 \in 1..Len(tags)  BY <2>2 DEF Ahead, Lies
  <2>4. FixedPart(t) \in 11..17  BY <2>3, Fixed
  <2>5. EndOfFile \in (pos + 1)..(pos + FixedPart(t) - 1)  BY <1>1, <1>3, <2>1, <2>4
  <2>6. Noticed(tags)  BY <1>2, <2>3, <2>5 DEF Noticed
  <2>. QED BY <1>0, <2>1, <2>6, ToError
<1>. QED BY <1>4, <1>5, <1>6

-----------------------------------------------------------------------------
(* The steps that list a tag.                                              *)

\* A tag that is listed is the next one, and its header is there.
Listed(tags, k, t, p, type) ==
  /\ k = Len(vFlvTag) + 1 /\ p = pos /\ Ahead(tags, k, t, p) /\ Type(t) = type
  /\ Passed(tags, k - 1) /\ iRet = "STREAM_OK" /\ p + 11 <= EndOfFile /\ EndOfFile \in Nat
  /\ p \in Nat /\ t \in Tags /\ t = tags[k] /\ p = TagAt(tags, k) /\ k \in 1..Len(tags)
  /\ EndOfFile >= 9 /\ FixedPart(t) \in 11..17 /\ DataSize(t) \in Nat /\ ~Deceives(t)
  /\ IsSeq(vFlvTag') /\ Len(vFlvTag') = k /\ tag'.size = DataSize(t)
  /\ TagAt(tags, k + 1) = p + 15 + DataSize(t)
  /\ (Regulars(tags) /\ Regular(t)) \/ (Whole(tags) /\ p + 15 + DataSize(t) <= EndOfFile)

\* PushTag lists such a tag.
LEMMA TagListed ==
  ASSUME NEW tags, Holds(tags), Telling(tags), Where(tags), NEW type, PushTag(type)
  PROVE  \E k, t, p : Listed(tags, k, t, p, type)
<1>. DEFINE k == Len(vFlvTag) + 1
            t == tags[k]
<1>0. /\ phase = "tag" /\ pos + 11 <= EndOfFile /\ Next8(pos) = type /\ AtTag(tags)
      /\ tag'.size = Big(pos + 1, 3) /\ vFlvTag' = Append(vFlvTag, tag')
  BY DEF PushTag, Where
<1>1. Len(tags) \in Nat /\ EndOfFile \in Nat  BY DEF Holds
<1>2. /\ IsSeq(vFlvTag) /\ Len(vFlvTag) \in 0..Len(tags) /\ pos = TagAt(tags, k)
      /\ Passed(tags, Len(vFlvTag)) /\ EndOfFile >= 9 /\ iRet = "STREAM_OK"
  BY <1>0 DEF AtTag
<1>3. k \in 1..(Len(tags) + 1) /\ Len(vFlvTag) = k - 1  BY <1>1, <1>2
<1>4. pos \in Nat  BY <1>2, <1>3, TagsLie
<1>5. pos < EndOfFile  BY <1>0, <1>1, <1>4
<1>6. Ahead(tags, k, t, pos)  BY <1>0, <1>5, NextAhead
<1>7. IsSeq(vFlvTag') /\ Len(vFlvTag') = k  BY <1>0, <1>2, AppendIs
<1>8. FixedPart(t) \in 11..17  BY <1>6, Fixed DEF Ahead, Lies
<1>. HIDE DEF k, t
<1>9. /\ t \in Tags /\ Type(t) = type /\ tag'.size = DataSize(t)
  BY <1>0, <1>5, <1>6 DEF Ahead, Lies
<1>10. k = Len(vFlvTag) + 1 /\ t = tags[k]  BY DEF k, t
<1>11. /\ DataSize(t) \in Nat /\ k \in 1..Len(tags) /\ ~Deceives(t)
       /\ TagAt(tags, k + 1) = pos + 15 + DataSize(t)
       /\ (Regulars(tags) /\ Regular(t)) \/ (Whole(tags) /\ pos + 15 + DataSize(t) <= EndOfFile)
  BY <1>6 DEF Ahead
<1>12. Passed(tags, k - 1)  BY <1>2, <1>3
<1>13. Listed(tags, k, t, pos, type)
  BY <1>0, <1>1, <1>2, <1>4, <1>6, <1>7, <1>8, <1>9, <1>10, <1>11, <1>12 DEF Listed
<1>. QED BY <1>13

\* A cut in the fixed part of the tag ahead is one that is reported,
LEMMA FixedNoticed ==
  ASSUME NEW tags, NEW k, NEW t, NEW p, NEW type, Listed(tags, k, t, p, type),
         EndOfFile < p + FixedPart(t)
  PROVE  Noticed(tags)
<1>0. EndOfFile \in Nat /\ p \in Nat /\ FixedPart(t) \in 11..17 /\ p + 11 <= EndOfFile
  BY DEF Listed
<1>1. EndOfFile \in (p + 1)..(p + FixedPart(t) - 1)  BY <1>0
<1>. QED BY <1>1 DEF Noticed, Listed

\* one behind it is not.
LEMMA FixedThere ==
  ASSUME NEW tags, NEW k, NEW t, NEW p, NEW type, Listed(tags, k, t, p, type),
         p + FixedPart(t) <= EndOfFile
  PROVE  There(tags, k)
BY DEF There, Listed

\* A script tag is skipped.
LEMMA ScriptSteps ==
  ASSUME NEW tags, Holds(tags), Telling(tags), Where(tags), ScriptTag
  PROVE  Where(tags)'
<1>1. /\ PushTag(18) /\ Same /\ templength' \in Nat /\ phase' = "tag" /\ iRet' = iRet
      /\ pos' = pos + 11 + tag'.size + 4
  BY DEF ScriptTag, PushTag, Same, Where
<1>2. PICK k, t, p : Listed(tags, k, t, p, 18)  BY <1>1, TagListed
<1>3. t.kind = "script" /\ FixedPart(t) = 11
  <2>1. t \in Tags /\ Type(t) = 18  BY <1>2 DEF Listed
  <2>2. t.kind = "script"  BY <2>1, TypesTell
  <2>. QED BY <2>1, <2>2, Fixed
<1>4. There(tags, k)
  <2>1. p + FixedPart(t) <= EndOfFile  BY <1>2, <1>3 DEF Listed
  <2>. QED BY <1>2, <2>1, FixedThere
<1>5. Passed(tags, k)
  <2>1. \A i \in 1..k : i \in 1..(k - 1) \/ i = k  BY <1>2 DEF Listed
  <2>2. Passed(tags, k - 1) /\ t = tags[k]  BY <1>2 DEF Listed
  <2>3. Sound(tags[k])  BY <1>3, <2>2 DEF Sound, Regular
  <2>. QED BY <1>4, <2>1, <2>2, <2>3 DEF Passed
<1>6. pos' = TagAt(tags, k + 1) /\ k \in 0..Len(tags)  BY <1>1, <1>2 DEF Listed
<1>7. IsSeq(vFlvTag') /\ Len(vFlvTag') = k /\ EndOfFile >= 9 /\ iRet' = "STREAM_OK"
  BY <1>1, <1>2 DEF Listed
<1>. QED BY <1>1, <1>5, <1>6, <1>7, ToTag

\* To the size behind a listed tag.
LEMMA Readable ==
  ASSUME NEW tags, NEW k, NEW t, NEW p, NEW type, Listed(tags, k, t, p, type), Same,
         templength' \in Nat, p + FixedPart(t) <= EndOfFile, iRet' = iRet, phase' = "previous",
         Read(t, p)'
  PROVE  Where(tags)'
<1>1. There(tags, k)  BY FixedThere
<1>2. /\ k \in 1..Len(tags) /\ IsSeq(vFlvTag') /\ Len(vFlvTag') = k
      /\ tag'.size = DataSize(tags[k]) /\ Passed(tags, k - 1) /\ iRet' = "STREAM_OK"
      /\ t = tags[k] /\ p = TagAt(tags, k)
  BY DEF Listed
<1>3. (Read(tags[k], TagAt(tags, k)))'  BY <1>2
<1>. QED BY <1>1, <1>2, <1>3, ToPrevious

\* The parser is behind the body, or the file has ended before that.
LEMMA BodyBehind ==
  ASSUME NEW tags, NEW k, NEW t, NEW p, NEW type, Listed(tags, k, t, p, type), Same,
         Regular(t), pos' \in Nat,
         p + 11 + DataSize(t) <= EndOfFile => pos' = p + 11 + DataSize(t),
         p + 11 + DataSize(t) > EndOfFile => pos' >= EndOfFile
  PROVE  Read(t, p)'
<1>1. EndOfFile' = EndOfFile /\ EndOfFile \in Nat /\ p \in Nat /\ DataSize(t) \in Nat
  BY SameHolds DEF Listed
<1>. QED BY <1>1 DEF Read, Short, Sound

\* An audio tag is read in one piece.
LEMMA AudioSteps ==
  ASSUME NEW tags, Holds(tags), Telling(tags), Where(tags), AudioTag
  PROVE  Where(tags)'
<1>1. PushTag(8) /\ Same /\ templength' \in Nat  BY DEF AudioTag, PushTag, Same, Where
<1>2. PICK k, t, p : Listed(tags, k, t, p, 8)  BY <1>1, TagListed
<1>. DEFINE d == DataSize(t)
<1>3. t.kind = "audio" /\ FixedPart(t) = 12 /\ d = t.units[1]
  <2>1. t \in Tags /\ Type(t) = 8  BY <1>2 DEF Listed
  <2>2. t.kind = "audio"  BY <2>1, TypesTell
  <2>3. t.units[1] \in Nat  BY <2>1, <2>2, TagsAre
  <2>4. Body(t) = Bytes(t.units[1])  BY <2>2 DEF Body
  <2>. QED BY <2>1, <2>2, <2>3, <2>4, Fixed, BytesAre DEF DataSize
<1>4. d \in Nat /\ p \in Nat /\ EndOfFile \in Nat /\ p + 11 <= EndOfFile /\ tag'.size = d
      /\ p = pos
  BY <1>2 DEF Listed
<1>. HIDE DEF d
<1>5. pos' = Behind(p + 11, d)  BY <1>4 DEF AudioTag
<1>6. CASE Got(p + 11, d) = 0
  <2>1. phase' = "done" /\ iRet' = "BUFFER_READ_ERROR"  BY <1>4, <1>6 DEF AudioTag, Finish
  <2>2. ASSUME Regulars(tags) PROVE Noticed(tags)
    <3>1. Regular(t)  BY <1>2, <2>2 DEF Listed, Regulars
    <3>2. d > 0  BY <1>3, <3>1 DEF Regular
    <3>3. ~(p + 11 < EndOfFile)
      <4>1. p + 11 \in Nat  BY <1>4
      <4>. QED BY <1>4, <1>6, <3>2, <4>1, Reads
    <3>4. EndOfFile < p + FixedPart(t)  BY <1>3, <1>4, <3>3
    <3>. QED BY <1>2, <3>4, FixedNoticed
  <2>. QED BY <1>1, <2>1, <2>2, ToError
<1>7. CASE Got(p + 11, d) # 0
  <2>1. phase' = "previous" /\ iRet' = iRet  BY <1>4, <1>7 DEF AudioTag
  <2>2. p + 11 \in Nat  BY <1>4
  <2>. DEFINE a == p + 11
  <2>9. a \in Nat  BY <2>2
  <2>. HIDE DEF a
  <2>11. Got(a, d) \in 0..d  BY <1>4, <2>9, Reads
  <2>12. Behind(a, d) \in Nat  BY <1>4, <2>9, Reads
  <2>13. a + d <= EndOfFile => Behind(a, d) = a + d  BY <1>4, <2>9, Reads
  <2>14. a + d > EndOfFile => Behind(a, d) >= EndOfFile  BY <1>4, <2>9, Reads
  <2>15. a >= EndOfFile => Got(a, d) = 0  BY <1>4, <2>9, Reads
  <2>3. /\ Got(p + 11, d) \in 0..d /\ pos' \in Nat
        /\ (p + 11) + d <= EndOfFile => pos' = (p + 11) + d
        /\ (p + 11) + d > EndOfFile => pos' >= EndOfFile
        /\ p + 11 >= EndOfFile => Got(p + 11, d) = 0
    BY <1>5, <2>11, <2>12, <2>13, <2>14, <2>15 DEF a
  <2>4. d > 0 /\ p + 12 <= EndOfFile  BY <1>4, <1>7, <2>3
  <2>5. Regular(t)  BY <1>3, <2>4 DEF Regular
  <2>6. Read(t, p)'
    <3>1. /\ p + 11 + DataSize(t) <= EndOfFile => pos' = p + 11 + DataSize(t)
          /\ p + 11 + DataSize(t) > EndOfFile => pos' >= EndOfFile
      BY <1>4, <2>3 DEF d
    <3>. QED BY <1>1, <1>2, <2>3, <2>5, <3>1, BodyBehind
  <2>7. p + FixedPart(t) <= EndOfFile  BY <1>3, <2>4
  <2>. QED BY <1>1, <1>2, <2>1, <2>6, <2>7, Readable
<1>. QED BY <1>6, <1>7

-----------------------------------------------------------------------------
(* The steps into a video tag.                                             *)

UnitKinds == {"nalus", "badsize", "overlong", "claiming"}
SetKinds == {"config", "config_high", "longset"}

\* How the bodies of the video tags begin.
LEMMA VideoBody ==
  ASSUME NEW t \in Tags, Type(t) = 9
  PROVE  /\ t.kind \in UnitKinds \cup SetKinds \cup {"h263", "command"} /\ DataSize(t) >= 5
         /\ t.kind \in UnitKinds => Body(t)[1] = 23 /\ Body(t)[2] = 1
         /\ t.kind \in SetKinds => Body(t)[1] = 23 /\ Body(t)[2] = 0
         /\ t.kind = "h263" => Body(t)[1] = 34
         /\ t.kind = "command" => Body(t)[1] = 87
<1>1. t.kind \in UnitKinds \cup SetKinds \cup {"h263", "command"}
  BY TypesTell DEF UnitKinds, SetKinds
<1>2. DataSize(t) \in Nat  BY BodyIs
<1>3. CASE t.kind \in {"nalus", "badsize"}
  <2>1. Body(t)[1] = 23 /\ Body(t)[2] = 1 /\ Lot(t.units, 0) <= DataSize(t)
    <3>1. 0 \in 0..Len(t.units)  BY <1>3, TagsAre, SeqFacts
    <3>. QED BY <1>3, <3>1, NalusLie
  <2>2. Lot(t.units, 0) = 5  BY TagsAre, LotGrows
  <2>. QED BY <1>2, <1>3, <2>1, <2>2 DEF UnitKinds, SetKinds
<1>4. CASE t.kind \in SetKinds
  <2>1. t.kind \in {"config", "config_high", "longset"}  BY <1>4 DEF SetKinds
  <2>. DEFINE m == t.units[1]
              n == t.units[2]
  <2>2. m \in Nat /\ n \in Nat /\ (DataSize(t) = 16 + m + n \/ DataSize(t) = 20 + m + n)
        /\ Body(t)[1] = 23 /\ Body(t)[2] = 0
    BY <2>1, ConfigLies DEF SetsLie
  <2>. QED BY <2>1, <2>2 DEF UnitKinds, SetKinds
<1>5. CASE t.kind \in {"overlong", "command"}
  <2>. DEFINE m == t.units[1]
  <2>1. /\ m \in Nat
        /\ t.kind = "overlong" => DataSize(t) = 9 + m /\ Body(t)[1] = 23 /\ Body(t)[2] = 1
        /\ t.kind = "command" => DataSize(t) = 5 + m /\ Body(t)[1] = 87
    BY <1>5, OddOnesLie
  <2>. QED BY <1>5, <2>1 DEF UnitKinds, SetKinds
<1>6. CASE t.kind = "h263"
  <2>1. Len(t.units) \in Nat /\ DataSize(t) = 5 + Len(t.units) /\ Body(t)[1] = 34
    BY <1>6, CodecLies
  <2>. QED BY <1>6, <2>1 DEF UnitKinds, SetKinds
<1>7. CASE t.kind = "claiming"
  <2>1. DataSize(t) = 9 /\ Body(t)[1] = 23 /\ Body(t)[2] = 1  BY <1>7, ClaimLies
  <2>. QED BY <1>7, <2>1 DEF UnitKinds, SetKinds
<1>. QED BY <1>1, <1>3, <1>4, <1>5, <1>6, <1>7 DEF UnitKinds, SetKinds

\* What ParseBodyTag makes of the beginning.
LEMMA HeadSeen ==
  ASSUME NEW tags, NEW k, NEW t, NEW p, Listed(tags, k, t, p, 9), p + 16 <= EndOfFile
  PROVE  /\ DataSize(t) \in Nat /\ DataSize(t) >= 5
         /\ FrameType(p + 11) = 5 => t.kind = "command"
         /\ FrameType(p + 11) # 5 /\ CodecID(p + 11) # 7 => t.kind = "h263"
         /\ FrameType(p + 11) # 5 /\ CodecID(p + 11) = 7 /\ AVCPacketType(p + 11) = 0
              => t.kind \in SetKinds
         /\ FrameType(p + 11) # 5 /\ CodecID(p + 11) = 7 /\ AVCPacketType(p + 11) # 0
              => t.kind \in UnitKinds
<1>1. t \in Tags /\ Type(t) = 9 /\ p \in Nat /\ EndOfFile \in Nat /\ Lies(t, p)
  BY DEF Listed, Ahead
<1>2. DataSize(t) \in Nat /\ DataSize(t) >= 5  BY <1>1, VideoBody, BodyIs
<1>3. Next8(p + 11) = Body(t)[1] /\ Next8((p + 11) + 1) = Body(t)[2]
  <2>1. 1 \in 1..DataSize(t) /\ 2 \in 1..DataSize(t)  BY <1>2
  <2>2. p + 11 + 1 <= EndOfFile /\ p + 11 + 2 <= EndOfFile  BY <1>1
  <2>3. file[p + 11 + 1] = Body(t)[1] /\ file[p + 11 + 2] = Body(t)[2]
    BY <1>1, <2>1, <2>2 DEF Lies
  <2>4. p + 11 + 2 = ((p + 11) + 1) + 1  BY <1>1
  <2>. QED BY <2>3, <2>4 DEF Next8
<1>. DEFINE a == Body(t)[1]
            b == Body(t)[2]
<1>4. FrameType(p + 11) = a \div 16 /\ CodecID(p + 11) = a % 16 /\ AVCPacketType(p + 11) = b
  BY <1>3 DEF FrameType, CodecID, AVCPacketType
<1>5. /\ t.kind \in UnitKinds \cup SetKinds \cup {"h263", "command"}
      /\ t.kind \in UnitKinds => a = 23 /\ b = 1
      /\ t.kind \in SetKinds => a = 23 /\ b = 0
      /\ t.kind = "h263" => a = 34
      /\ t.kind = "command" => a = 87
  BY <1>1, VideoBody
<1>6. /\ 23 \div 16 = 1 /\ 23 % 16 = 7 /\ 34 \div 16 = 2 /\ 34 % 16 = 2
      /\ 87 \div 16 = 5 /\ 87 % 16 = 7
  OBVIOUS
<1>. HIDE DEF a, b
<1>7. CASE t.kind \in UnitKinds  BY <1>2, <1>4, <1>5, <1>6, <1>7
<1>8. CASE t.kind \in SetKinds  BY <1>2, <1>4, <1>5, <1>6, <1>8
<1>9. CASE t.kind = "h263"  BY <1>2, <1>4, <1>5, <1>6, <1>9
<1>10. CASE t.kind = "command"  BY <1>2, <1>4, <1>5, <1>6, <1>10
<1>. QED BY <1>5, <1>7, <1>8, <1>9, <1>10

\* A video tag with its head.
LEMMA VideoListed ==
  ASSUME NEW tags, Holds(tags), Telling(tags), Where(tags), VideoTag
  PROVE  \E k, t, p : Listed(tags, k, t, p, 9) /\ p + 16 <= EndOfFile
<1>1. PushTag(9) /\ Got(pos + 11, 5) = 5  BY DEF VideoTag
<1>2. PICK k, t, p : Listed(tags, k, t, p, 9)  BY <1>1, TagListed
<1>3. p = pos /\ p + 11 \in Nat /\ EndOfFile \in Nat  BY <1>2 DEF Listed
<1>4. 5 \in Nat /\ 5 > 0  OBVIOUS
<1>5. p + 11 + 5 > EndOfFile => Got(p + 11, 5) < 5  BY <1>3, <1>4, Reads
<1>6. p + 11 + 5 <= EndOfFile  BY <1>1, <1>3, <1>5
<1>7. p \in Nat  BY <1>2 DEF Listed
<1>. QED BY <1>2, <1>3, <1>6, <1>7

\* One without is noticed.
LEMMA CutVideoSteps ==
  ASSUME NEW tags, Holds(tags), Telling(tags), Where(tags), CutVideoHeader
  PROVE  Where(tags)'
<1>1. /\ PushTag(9) /\ Got(pos + 11, 5) < 5 /\ Same /\ templength' \in Nat
      /\ phase' = "done" /\ iRet' = "BUFFER_READ_ERROR"
  BY DEF CutVideoHeader, PushTag, Same, Where, Finish
<1>2. PICK k, t, p : Listed(tags, k, t, p, 9)  BY <1>1, TagListed
<1>3. p = pos /\ p \in Nat /\ p + 11 \in Nat /\ EndOfFile \in Nat /\ t \in Tags /\ Type(t) = 9
  BY <1>2 DEF Listed
<1>4. 5 \in Nat /\ 5 > 0  OBVIOUS
<1>5. (p + 11) + 5 <= EndOfFile => Got(p + 11, 5) = 5  BY <1>3, <1>4, Reads
<1>6. p + 16 > EndOfFile  BY <1>1, <1>3, <1>5
<1>7. FixedPart(t) \in {16, 17}
  <2>1. t.kind # "script" /\ t.kind # "audio"  BY <1>3, VideoBody DEF UnitKinds, SetKinds
  <2>. QED BY <1>3, <2>1, Fixed
<1>8. Noticed(tags)
  <2>1. EndOfFile < p + FixedPart(t)  BY <1>3, <1>6, <1>7
  <2>. QED BY <1>2, <2>1, FixedNoticed
<1>. QED BY <1>1, <1>8, ToError

\* A command frame has one byte of data.
LEMMA CommandSteps ==
  ASSUME NEW tags, Holds(tags), Telling(tags), Where(tags), CommandFrame
  PROVE  Where(tags)'
<1>1. VideoTag /\ Same /\ templength' \in Nat
  BY DEF CommandFrame, VideoTag, PushTag, Same, Where
<1>2. PICK k, t, p : Listed(tags, k, t, p, 9) /\ p + 16 <= EndOfFile  BY <1>1, VideoListed
<1>3. p = pos /\ p \in Nat /\ EndOfFile \in Nat /\ tag'.size = DataSize(t) /\ t \in Tags
      /\ t = tags[k] /\ k \in 1..Len(tags)
  BY <1>2 DEF Listed
<1>4. t.kind = "command" /\ DataSize(t) \in Nat /\ DataSize(t) >= 5
  BY <1>2, <1>3, HeadSeen DEF CommandFrame
<1>5. FixedPart(t) = 17 /\ (Regular(t) <=> DataSize(t) = 6)
  <2>. DEFINE m == t.units[1]
  <2>1. m \in Nat /\ DataSize(t) = 5 + m  BY <1>3, <1>4, OddOnesLie
  <2>2. Regular(t) <=> m = 1  BY <1>4 DEF Regular
  <2>. QED BY <1>3, <1>4, <2>1, <2>2, Fixed
<1>6. p + 16 \in Nat /\ 1 \in Nat /\ 1 > 0  BY <1>3
<1>. DEFINE a == p + 16
<1>7. a \in Nat  BY <1>6
<1>. HIDE DEF a
<1>8. Got(a, 1) \in 0..1  BY <1>3, <1>6, <1>7, Reads
<1>9. a + 1 <= EndOfFile => Behind(a, 1) = a + 1  BY <1>3, <1>6, <1>7, Reads
<1>10. a >= EndOfFile => Got(a, 1) = 0  BY <1>3, <1>6, <1>7, Reads
<1>11. a < EndOfFile => Got(a, 1) > 0  BY <1>3, <1>6, <1>7, Reads
<1>12. pos' = Behind(a, 1)  BY <1>3 DEF CommandFrame, a
<1>13. CASE Got(a, 1) = 0
  <2>1. phase' = "done" /\ iRet' = "BUFFER_READ_ERROR"
    BY <1>3, <1>13 DEF CommandFrame, Finish, a
  <2>2. EndOfFile < p + FixedPart(t)  BY <1>2, <1>3, <1>5, <1>7, <1>11, <1>13 DEF a
  <2>3. Noticed(tags)  BY <1>2, <2>2, FixedNoticed
  <2>. QED BY <1>1, <2>1, <2>3, ToError
<1>14. CASE Got(a, 1) = 1 /\ DataSize(t) # 6
  <2>1. phase' = "done" /\ iRet' = "FLV_VIDEOTAGSIZE_NOTMATCH"
    BY <1>3, <1>14 DEF CommandFrame, Finish, a
  <2>2. ~Regulars(tags)  BY <1>3, <1>5, <1>14 DEF Regulars
  <2>. QED BY <1>1, <2>1, <2>2, ToError
<1>15. CASE Got(a, 1) = 1 /\ DataSize(t) = 6
  <2>1. phase' = "previous" /\ iRet' = iRet
    BY <1>3, <1>15 DEF CommandFrame, a
  <2>2. a + 1 <= EndOfFile  BY <1>3, <1>7, <1>10, <1>15
  <2>3. pos' = p + 17 /\ p + 17 <= EndOfFile  BY <1>3, <1>9, <1>12, <2>2 DEF a
  <2>4. Read(t, p)'
    <3>1. EndOfFile' = EndOfFile /\ Regular(t)  BY <1>1, <1>5, <1>15, SameHolds
    <3>. QED BY <1>3, <1>15, <2>3, <3>1 DEF Read, Sound
  <2>. QED BY <1>1, <1>2, <1>5, <2>1, <2>3, <2>4, Readable
<1>. QED BY <1>8, <1>13, <1>14, <1>15

\* Of another codec only the head is read.
LEMMA OtherSteps ==
  ASSUME NEW tags, Holds(tags), Telling(tags), Where(tags), OtherCodec
  PROVE  Where(tags)'
<1>1. /\ VideoTag /\ Same /\ templength' \in Nat /\ pos' = pos + 16 /\ iRet' = iRet
      /\ phase' = "previous"
  BY DEF OtherCodec, VideoTag, PushTag, Same, Where
<1>2. PICK k, t, p : Listed(tags, k, t, p, 9) /\ p + 16 <= EndOfFile  BY <1>1, VideoListed
<1>3. p = pos /\ p \in Nat /\ EndOfFile \in Nat /\ t \in Tags  BY <1>2 DEF Listed
<1>4. t.kind = "h263" /\ DataSize(t) \in Nat /\ DataSize(t) >= 5
  BY <1>2, <1>3, HeadSeen DEF OtherCodec
<1>5. FixedPart(t) = 16  BY <1>3, <1>4, Fixed
<1>6. Read(t, p)'
  <2>1. EndOfFile' = EndOfFile  BY <1>1, SameHolds
  <2>. QED BY <1>1, <1>2, <1>3, <1>4, <2>1 DEF Read, Astray, Sound
<1>. QED BY <1>1, <1>2, <1>5, <1>6, Readable

\* Units are read from behind the head on.
LEMMA NalusSteps ==
  ASSUME NEW tags, Holds(tags), Telling(tags), Where(tags), Nalus
  PROVE  Where(tags)'
<1>1. /\ VideoTag /\ Same /\ templength' \in Nat /\ pos' = pos + 16 /\ iRet' = iRet
      /\ phase' = "nalu" /\ countsize' = 5
  BY DEF Nalus, VideoTag, PushTag, Same, Where
<1>2. PICK k, t, p : Listed(tags, k, t, p, 9) /\ p + 16 <= EndOfFile  BY <1>1, VideoListed
<1>3. p = pos /\ p \in Nat /\ EndOfFile \in Nat /\ t \in Tags  BY <1>2 DEF Listed
<1>4. t.kind \in UnitKinds /\ DataSize(t) \in Nat /\ DataSize(t) >= 5
  BY <1>2, <1>3, HeadSeen DEF Nalus
<1>0. t.kind # "claiming"  BY <1>2 DEF Listed, Deceives
<1>5. FixedPart(t) = 16  BY <1>3, <1>4, Fixed DEF UnitKinds
<1>6. Copying(t, p)'
  <2>1. EndOfFile' = EndOfFile  BY <1>1, SameHolds
  <2>2. CASE t.kind = "overlong"  BY <1>1, <1>3, <2>2 DEF Copying
  <2>3. CASE t.kind \in {"nalus", "badsize"}
    <3>1. Lot(t.units, 0) = 5 /\ 0 \in 0..Len(t.units)  BY <1>3, TagsAre, SeqFacts, LotGrows
    <3>2. countsize' = Lot(t.units, 0) /\ pos' = p + 11 + Lot(t.units, 0) /\ pos' <= EndOfFile'
      BY <1>1, <1>2, <1>3, <2>1, <3>1
    <3>. QED BY <2>3, <3>1, <3>2 DEF Copying
  <2>. QED BY <1>0, <1>4, <2>2, <2>3 DEF UnitKinds
<1>7. There(tags, k)
  <2>1. p + FixedPart(t) <= EndOfFile  BY <1>2, <1>5
  <2>. QED BY <1>2, <2>1, FixedThere
<1>8. /\ k \in 1..Len(tags) /\ IsSeq(vFlvTag') /\ Len(vFlvTag') = k
      /\ tag'.size = DataSize(tags[k]) /\ Passed(tags, k - 1) /\ iRet' = "STREAM_OK"
      /\ t = tags[k] /\ p = TagAt(tags, k)
  BY <1>1, <1>2 DEF Listed
<1>9. (Copying(tags[k], TagAt(tags, k)))'  BY <1>6, <1>8
<1>. QED BY <1>1, <1>7, <1>8, <1>9, ToUnit

\* Where the reads of a parameter record get to.
SpsSize(s) == ReadInto(0, s, 2)
SpsAt(s) == Behind(s, 2)
PpsNumAt(s) == Behind(SpsAt(s), SpsSize(s))
PpsNum(s) == ReadByteInto(SpsSize(s), PpsNumAt(s))
PpsSizeAt(s) == Behind(PpsNumAt(s), 1)
PpsSize(s) == ReadInto(PpsNum(s), PpsSizeAt(s), 2)
PpsAt(s) == Behind(PpsSizeAt(s), 2)
SetsEnd(s) == Behind(PpsAt(s), PpsSize(s))

\* Sets of lengths m and n, from the length of the first at s on.
SetsAt(s, m, n) ==
  /\ s + 1 <= EndOfFile => file[s + 1] = m \div 256
  /\ s + 2 <= EndOfFile => file[s + 2] = m % 256
  /\ s + 3 + m <= EndOfFile => file[s + 3 + m] = 1
  /\ s + 4 + m <= EndOfFile => file[s + 4 + m] = n \div 256
  /\ s + 5 + m <= EndOfFile => file[s + 5 + m] = n % 256

\* A read of n bytes that may run into the end of the file.
Reaches(p, n, q) ==
  /\ q \in Nat /\ p <= q
  /\ p + n <= EndOfFile => q = p + n
  /\ p + n > EndOfFile => (q >= EndOfFile /\ q < p + n) \/ (n = 0 /\ q = p)

\* Behind is where it gets to.
LEMMA ReachesIs ==
  ASSUME EndOfFile \in Nat, NEW p \in Nat, NEW n \in Nat
  PROVE  Reaches(p, n, Behind(p, n))
BY DEF Reaches, Got, Behind, Least, Greatest

\* The first set is read if it is there, and the file ends if it is not.
LEMMA FirstSet ==
  ASSUME IsSeq(file), EndOfFile \in Nat, NEW s \in Nat, NEW m \in Nat, NEW n \in Nat,
         SetsAt(s, m, n)
  PROVE  /\ SpsSize(s) \in Nat /\ SpsAt(s) \in Nat /\ PpsNumAt(s) \in Nat
         /\ s + 2 <= EndOfFile => SpsSize(s) = m /\ SpsAt(s) = s + 2
         /\ s + 2 > EndOfFile => /\ SpsAt(s) >= EndOfFile /\ SpsAt(s) < s + 2
                                 /\ PpsNumAt(s) >= EndOfFile
         /\ s + 2 + m <= EndOfFile => PpsNumAt(s) = s + 2 + m
         /\ s + 2 + m > EndOfFile => PpsNumAt(s) >= EndOfFile
<1>1. m \div 256 \in Nat /\ m % 256 \in Nat  BY SMT
<1>2. \A j \in 1..2 : s + j <= EndOfFile => file[s + j] \in Nat
  <2>1. \A j \in 1..2 : j = 1 \/ j = 2  OBVIOUS
  <2>. QED BY <1>1, <2>1 DEF SetsAt
<1>3. 2 \in 1..4 /\ 0 \in Nat /\ 2 \in Nat  OBVIOUS
<1>4. SpsSize(s) \in Nat /\ (s + 2 <= EndOfFile => SpsSize(s) = Number(file, s, 2))
  BY <1>2, <1>3, ReadIs DEF SpsSize
<1>5. s + 2 <= EndOfFile => SpsSize(s) = m
  <2>1. SUFFICES ASSUME s + 2 <= EndOfFile PROVE Number(file, s, 2) = m  BY <1>4
  <2>2. s + 1 <= EndOfFile /\ s + 2 <= Len(file)  BY <2>1 DEF EndOfFile
  <2>3. file[s + 1] = m \div 256 /\ file[s + 2] = m % 256  BY <2>1, <2>2 DEF SetsAt
  <2>. QED BY <2>2, <2>3, TwoBack
<1>6. Reaches(s, 2, SpsAt(s))  BY <1>3, ReachesIs DEF SpsAt
<1>7. SpsAt(s) \in Nat /\ (s + 2 <= EndOfFile => SpsAt(s) = s + 2)
      /\ (s + 2 > EndOfFile => SpsAt(s) >= EndOfFile /\ SpsAt(s) < s + 2)
  BY <1>6 DEF Reaches
<1>8. Reaches(SpsAt(s), SpsSize(s), PpsNumAt(s))  BY <1>4, <1>7, ReachesIs DEF PpsNumAt
<1>. DEFINE a == SpsAt(s)
            b == SpsSize(s)
            c == PpsNumAt(s)
<1>9. a \in Nat /\ b \in Nat /\ c \in Nat  BY <1>4, <1>7, <1>8 DEF Reaches
<1>10. /\ s + 2 <= EndOfFile => a = s + 2 /\ b = m
       /\ s + 2 > EndOfFile => a >= EndOfFile /\ a < s + 2
  BY <1>5, <1>7
<1>11. /\ a <= c
       /\ a + b <= EndOfFile => c = a + b
       /\ a + b > EndOfFile => (c >= EndOfFile /\ c < a + b) \/ (b = 0 /\ c = a)
  BY <1>8 DEF Reaches
<1>. HIDE DEF a, b, c
<1>12. /\ s + 2 > EndOfFile => c >= EndOfFile
       /\ s + 2 + m <= EndOfFile => c = s + 2 + m
       /\ s + 2 + m > EndOfFile => c >= EndOfFile
  BY <1>9, <1>10, <1>11
<1>. QED BY <1>9, <1>10, <1>12 DEF a, b, c

\* So is the second.
LEMMA SecondSet ==
  ASSUME IsSeq(file), EndOfFile \in Nat, NEW s \in Nat, NEW m \in Nat, NEW n \in Nat,
         SetsAt(s, m, n)
  PROVE  /\ PpsSize(s) \in Nat /\ PpsAt(s) \in Nat /\ SetsEnd(s) \in Nat
         /\ s + 5 + m <= EndOfFile => PpsSize(s) = n /\ PpsAt(s) = s + 5 + m
         /\ s + 5 + m > EndOfFile => PpsAt(s) >= EndOfFile
         /\ s + 5 + m + n <= EndOfFile => SetsEnd(s) = s + 5 + m + n
         /\ s + 5 + m + n > EndOfFile => SetsEnd(s) >= EndOfFile
<1>. DEFINE a == PpsNumAt(s)
            b == PpsSizeAt(s)
            c == PpsAt(s)
            v == PpsNum(s)
            w == PpsSize(s)
<1>1. /\ a \in Nat /\ SpsSize(s) \in Nat
      /\ s + 2 + m <= EndOfFile => a = s + 2 + m
      /\ s + 2 + m > EndOfFile => a >= EndOfFile
  BY FirstSet
<1>2. 1 \in Nat /\ 2 \in Nat /\ 2 \in 1..4  OBVIOUS
<1>3. Reaches(a, 1, b)  BY <1>1, <1>2, ReachesIs DEF PpsSizeAt
<1>4. v \in Nat
  <2>1. a + 1 <= EndOfFile => file[a + 1] \in Nat
    <3>1. SUFFICES ASSUME a + 1 <= EndOfFile PROVE file[a + 1] \in Nat  OBVIOUS
    <3>. HIDE DEF a
    <3>2. a = s + 2 + m  BY <1>1, <3>1
    <3>3. a + 1 = s + 3 + m  BY <3>2
    <3>4. file[s + 3 + m] = 1  BY <3>1, <3>3 DEF SetsAt
    <3>. QED BY <3>3, <3>4
  <2>. QED BY <1>1, <2>1, ReadByteIs DEF PpsNum
<1>. HIDE DEF a, v
<1>5. /\ b \in Nat
      /\ s + 3 + m <= EndOfFile => b = s + 3 + m
      /\ s + 3 + m > EndOfFile => b >= EndOfFile
  BY <1>1, <1>3 DEF Reaches
<1>6. n \div 256 \in Nat /\ n % 256 \in Nat  BY SMT
<1>7. \A j \in 1..2 : b + j <= EndOfFile => file[b + j] \in Nat
  <2>1. SUFFICES ASSUME NEW j \in 1..2, b + j <= EndOfFile PROVE file[b + j] \in Nat  OBVIOUS
  <2>. HIDE DEF b
  <2>2. b = s + 3 + m  BY <1>5, <2>1
  <2>3. j = 1 \/ j = 2  OBVIOUS
  <2>4. CASE j = 1
    <3>1. b + j = s + 4 + m  BY <2>2, <2>4
    <3>2. file[s + 4 + m] = n \div 256  BY <2>1, <3>1 DEF SetsAt
    <3>. QED BY <1>6, <3>1, <3>2
  <2>5. CASE j = 2
    <3>1. b + j = s + 5 + m  BY <2>2, <2>5
    <3>2. file[s + 5 + m] = n % 256  BY <2>1, <3>1 DEF SetsAt
    <3>. QED BY <1>6, <3>1, <3>2
  <2>. QED BY <2>3, <2>4, <2>5
<1>8. w \in Nat /\ (b + 2 <= EndOfFile => w = Number(file, b, 2))
  BY <1>2, <1>4, <1>5, <1>7, ReadIs DEF PpsSize, v
<1>9. Reaches(b, 2, c)  BY <1>2, <1>5, ReachesIs DEF PpsAt
<1>. HIDE DEF b, w
<1>10. s + 5 + m <= EndOfFile => w = n
  <2>1. SUFFICES ASSUME s + 5 + m <= EndOfFile PROVE w = n  OBVIOUS
  <2>2. b = s + 3 + m  BY <1>5, <2>1
  <2>3. b + 1 = s + 4 + m /\ b + 2 = s + 5 + m /\ b + 2 <= EndOfFile  BY <2>1, <2>2
  <2>4. s + 4 + m <= EndOfFile  BY <2>1
  <2>5. file[b + 1] = n \div 256 /\ file[b + 2] = n % 256  BY <2>1, <2>3, <2>4 DEF SetsAt
  <2>6. b + 2 <= Len(file)  BY <2>3 DEF EndOfFile
  <2>7. Number(file, b, 2) = n  BY <1>5, <2>5, <2>6, TwoBack
  <2>. QED BY <1>8, <2>3, <2>7
<1>11. /\ c \in Nat
       /\ s + 5 + m <= EndOfFile => c = s + 5 + m
       /\ s + 5 + m > EndOfFile => c >= EndOfFile
  BY <1>5, <1>9 DEF Reaches
<1>12. Reaches(c, w, SetsEnd(s))  BY <1>8, <1>11, ReachesIs DEF SetsEnd, w
<1>. HIDE DEF c
<1>13. /\ SetsEnd(s) \in Nat
       /\ s + 5 + m + n <= EndOfFile => SetsEnd(s) = s + 5 + m + n
       /\ s + 5 + m + n > EndOfFile => SetsEnd(s) >= EndOfFile
  BY <1>8, <1>10, <1>11, <1>12 DEF Reaches
<1>. QED BY <1>8, <1>10, <1>11, <1>13 DEF c, w

\* The sets of a parameter record.
SetsOf(t, m, n) ==
  /\ t.kind \in SetKinds /\ m \in Nat /\ n \in Nat
  /\ t.kind = "config" => DataSize(t) = 16 + m + n
  /\ t.kind = "config_high" => DataSize(t) = 20 + m + n
  /\ t.kind = "longset" => DataSize(t) + 1 = 16 + m + n

\* They lie where the parser looks.
LEMMA SetsThere ==
  ASSUME NEW t, NEW p, Lies(t, p), t.kind \in SetKinds
  PROVE  \E m, n : /\ SetsOf(t, m, n) /\ SetsAt(p + 22, m, n)
                   /\ t.kind = "config" => m = t.units[1] /\ n = t.units[2]
<1>. DEFINE m == t.units[1]
            l == t.units[2]
            n == IF t.kind = "longset" THEN l + 1 ELSE l
<1>1. /\ t \in Tags /\ p \in Nat /\ DataSize(t) \in Nat
      /\ \A j \in 1..DataSize(t) : p + 11 + j <= EndOfFile => file[p + 11 + j] = Body(t)[j]
  BY DEF Lies
<1>2. t.kind \in {"config", "config_high", "longset"}  BY DEF SetKinds
<1>3. /\ m \in Nat /\ l \in Nat
      /\ t.kind = "config" => SetsLie(t, m, l) /\ DataSize(t) = 16 + m + l
      /\ t.kind = "config_high" => SetsLie(t, m, l) /\ DataSize(t) = 20 + m + l
      /\ t.kind = "longset" => SetsLie(t, m, l + 1) /\ DataSize(t) = 16 + m + l
  BY <1>1, <1>2, ConfigLies
<1>10. t.kind = "config" => m = t.units[1] /\ n = t.units[2]  OBVIOUS
<1>. HIDE DEF m, l
<1>4. n \in Nat /\ SetsLie(t, m, n)  BY <1>2, <1>3
<1>5. SetsOf(t, m, n)  BY <1>2, <1>3 DEF SetsOf, SetKinds
<1>6. 16 + m <= DataSize(t)  BY <1>2, <1>3
<1>. HIDE DEF n
<1>7. /\ 12 \in 1..DataSize(t) /\ 13 \in 1..DataSize(t) /\ 14 + m \in 1..DataSize(t)
      /\ 15 + m \in 1..DataSize(t) /\ 16 + m \in 1..DataSize(t)
  BY <1>1, <1>3, <1>6
<1>8. /\ (p + 22) + 1 = p + 11 + 12 /\ (p + 22) + 2 = p + 11 + 13
      /\ (p + 22) + 3 + m = p + 11 + (14 + m) /\ (p + 22) + 4 + m = p + 11 + (15 + m)
      /\ (p + 22) + 5 + m = p + 11 + (16 + m)
  BY <1>1, <1>3
<1>9. SetsAt(p + 22, m, n)  BY <1>1, <1>4, <1>7, <1>8 DEF SetsAt, SetsLie
<1>. QED BY <1>5, <1>9, <1>10

\* A parameter record: behind its sets, wherever that is.
LEMMA SetsSteps ==
  ASSUME NEW tags, Holds(tags), Telling(tags), Where(tags), SequenceHeader
  PROVE  Where(tags)'
<1>1. /\ VideoTag /\ Same /\ templength' \in Nat /\ iRet' = iRet /\ phase' = "previous"
      /\ pos' = SetsEnd(pos + 22)
  BY DEF SequenceHeader, VideoTag, PushTag, Same, Where, SetsEnd, PpsAt, PpsSize, PpsSizeAt, PpsNum,
         PpsNumAt, SpsAt, SpsSize
<1>2. PICK k, t, p : Listed(tags, k, t, p, 9) /\ p + 16 <= EndOfFile  BY <1>1, VideoListed
<1>3. p = pos /\ p \in Nat /\ EndOfFile \in Nat /\ t \in Tags /\ Lies(t, p) /\ IsSeq(file)
      /\ ((Regulars(tags) /\ Regular(t)) \/ (Whole(tags) /\ p + 15 + DataSize(t) <= EndOfFile))
  BY <1>2 DEF Listed, Ahead, Holds
<1>4. t.kind \in SetKinds /\ DataSize(t) \in Nat
  BY <1>2, <1>3, HeadSeen DEF SequenceHeader
<1>5. FixedPart(t) = 16  BY <1>3, <1>4, Fixed DEF SetKinds
<1>6. PICK m, n : SetsOf(t, m, n) /\ SetsAt(p + 22, m, n)  BY <1>3, <1>4, SetsThere
<1>7. m \in Nat /\ n \in Nat  BY <1>6 DEF SetsOf
<1>8. /\ pos' \in Nat
      /\ p + 27 + m + n <= EndOfFile => pos' = p + 27 + m + n
      /\ p + 27 + m + n > EndOfFile => pos' >= EndOfFile
  <2>. DEFINE s == p + 22
  <2>1. s \in Nat  BY <1>3
  <2>2. SetsAt(s, m, n) /\ pos' = SetsEnd(s)  BY <1>1, <1>3, <1>6
  <2>. HIDE DEF s
  <2>3. /\ pos' \in Nat
        /\ s + 5 + m + n <= EndOfFile => pos' = s + 5 + m + n
        /\ s + 5 + m + n > EndOfFile => pos' >= EndOfFile
    BY <1>3, <1>7, <2>1, <2>2, SecondSet
  <2>4. s + 5 + m + n = p + 27 + m + n  BY <1>3, <1>7 DEF s
  <2>. QED BY <2>3, <2>4
<1>9. Read(t, p)'
  <2>1. EndOfFile' = EndOfFile  BY <1>1, SameHolds
  <2>2. CASE t.kind = "config"
    <3>1. DataSize(t) = 16 + m + n /\ Regular(t)  BY <1>6, <2>2 DEF SetsOf, Regular
    <3>2. p + 11 + DataSize(t) = p + 27 + m + n  BY <1>3, <1>7, <3>1
    <3>. QED BY <1>1, <1>2, <1>8, <3>1, <3>2, BodyBehind
  <2>3. CASE t.kind # "config"
    <3>1. p + 15 + DataSize(t) <= EndOfFile  BY <1>3, <1>4, <2>3 DEF Regular, SetKinds
    <3>2. CASE t.kind = "config_high"
      <4>1. DataSize(t) = 20 + m + n  BY <1>6, <3>2 DEF SetsOf
      <4>2. pos' = p + 7 + DataSize(t)  BY <1>3, <1>7, <1>8, <3>1, <4>1
      <4>. QED BY <3>2, <4>2 DEF Read, Astray
    <3>3. CASE t.kind = "longset"
      <4>1. DataSize(t) + 1 = 16 + m + n  BY <1>6, <3>3 DEF SetsOf
      <4>2. pos' = p + 12 + DataSize(t)  BY <1>3, <1>4, <1>7, <1>8, <3>1, <4>1
      <4>. QED BY <3>3, <4>2 DEF Read, Astray
    <3>. QED BY <1>4, <2>3, <3>2, <3>3 DEF SetKinds
  <2>. QED BY <2>2, <2>3
<1>. QED BY <1>1, <1>2, <1>5, <1>9, Readable

-----------------------------------------------------------------------------
(* The steps in a tag and behind it.                                       *)

\* The tag that the parser is in.
Within(tags, k, t, p) ==
  /\ k = Len(vFlvTag) /\ k \in 1..Len(tags) /\ t = tags[k] /\ p = TagAt(tags, k)
  /\ IsSeq(file) /\ EndOfFile \in Nat /\ p \in Nat /\ t \in Tags /\ DataSize(t) \in Nat
  /\ Lies(t, p) /\ TagAt(tags, k + 1) = p + 15 + DataSize(t) /\ ~Deceives(t)
  /\ (Regulars(tags) /\ Regular(t)) \/ (Whole(tags) /\ p + 15 + DataSize(t) <= EndOfFile)
  /\ IsSeq(vFlvTag) /\ tag.size = DataSize(t) /\ Passed(tags, k - 1) /\ There(tags, k)
  /\ iRet = "STREAM_OK" /\ EndOfFile >= 9

\* There is one behind its header.
LEMMA WithinIs ==
  ASSUME NEW tags, Holds(tags), Telling(tags), InTag(tags)
  PROVE  \E k, t, p : Within(tags, k, t, p)
<1>. DEFINE k == Len(vFlvTag)
            t == tags[k]
            p == TagAt(tags, k)
<1>1. k \in 1..Len(tags)  BY DEF InTag
<1>2. Ahead(tags, k, t, p)  BY <1>1, TagAhead
<1>3. IsSeq(file) /\ EndOfFile \in Nat  BY DEF Holds
<1>4. /\ p \in Nat /\ t \in Tags /\ DataSize(t) \in Nat /\ Lies(t, p)
      /\ TagAt(tags, k + 1) = p + 15 + DataSize(t) /\ ~Deceives(t)
      /\ (Regulars(tags) /\ Regular(t)) \/ (Whole(tags) /\ p + 15 + DataSize(t) <= EndOfFile)
  BY <1>2 DEF Ahead, Lies
<1>5. EndOfFile >= 9
  <2>1. p + FixedPart(t) <= EndOfFile /\ FixedPart(t) \in 11..17
    BY <1>4, Fixed DEF InTag, There
  <2>. QED BY <1>3, <1>4, <2>1
<1>6. Within(tags, k, t, p)  BY <1>1, <1>3, <1>4, <1>5 DEF Within, InTag
<1>. QED BY <1>6

\* The bytes of a field of four are numbers.
LEMMA U32Nat ==
  ASSUME NEW n \in Nat, NEW j \in 1..4
  PROVE  U32(n)[j] \in Nat
<1>1. \A m \in Nat : m \div 16777216 \in Nat /\ m % 16777216 \in Nat  BY SMT
<1>2. \A m \in Nat : /\ m \div 65536 \in Nat /\ (m \div 256) % 256 \in Nat /\ m % 256 \in Nat
  BY SMT
<1>3. j = 1 \/ j = 2 \/ j = 3 \/ j = 4  BY SMT
<1>4. \A m : U24(m)[1] = m \div 65536 /\ U24(m)[2] = (m \div 256) % 256 /\ U24(m)[3] = m % 256
  BY U24Is, SMT
<1>5. /\ U32(n)[1] = n \div 16777216
      /\ \A i \in 1..3 : U32(n)[1 + i] = U24(n % 16777216)[i]
  BY U32Is, SMT
<1>6. 1 \in 1..3 /\ 2 \in 1..3 /\ 3 \in 1..3 /\ 1 + 1 = 2 /\ 1 + 2 = 3 /\ 1 + 3 = 4  BY SMT
<1>7. U32(n)[1] \in Nat  BY <1>1, <1>5, SMT
<1>. DEFINE m == n % 16777216
<1>8. m \in Nat  BY <1>1, SMT
<1>9. U32(n)[2] = U24(m)[1] /\ U32(n)[3] = U24(m)[2] /\ U32(n)[4] = U24(m)[3]  BY <1>5, <1>6, SMT
<1>. HIDE DEF m
<1>10. U24(m)[1] \in Nat /\ U24(m)[2] \in Nat /\ U24(m)[3] \in Nat  BY <1>2, <1>4, <1>8
<1>. QED BY <1>3, <1>7, <1>9, <1>10

\* A length of four bytes is read if all of it is there, and some number anyway.
LEMMA LengthRead ==
  ASSUME IsSeq(file), EndOfFile \in Nat, NEW old \in Nat, NEW p \in Nat, NEW v \in Nat,
         \A j \in 1..4 : p + j <= EndOfFile => file[p + j] = U32(v)[j]
  PROVE  /\ ReadInto(old, p, 4) \in Nat
         /\ p + 4 <= EndOfFile => ReadInto(old, p, 4) = v
<1>1. \A j \in 1..4 : p + j <= EndOfFile => file[p + j] \in Nat  BY U32Nat
<1>2. 4 \in 1..4  OBVIOUS
<1>3. /\ ReadInto(old, p, 4) \in Nat
      /\ p + 4 <= EndOfFile => ReadInto(old, p, 4) = Number(file, p, 4)
  BY <1>1, <1>2, ReadIs
<1>4. ASSUME p + 4 <= EndOfFile PROVE Number(file, p, 4) = v
  <2>1. p + 4 <= Len(file)  BY <1>4 DEF EndOfFile
  <2>2. \A j \in 1..4 : p + j <= EndOfFile  BY <1>4
  <2>3. \A j \in 1..4 : file[p + j] = U32(v)[j]  BY <2>2
  <2>. QED BY <2>1, <2>3, FourBack
<1>. QED BY <1>3, <1>4

\* The parser stays in its tag.
LEMMA UnitsStay ==
  ASSUME NEW tags, NEW k, NEW t, NEW p, Within(tags, k, t, p), Same,
         vFlvTag' = vFlvTag, tag' = tag, iRet' = iRet, phase' = "nalu", templength' \in Nat,
         Copying(t, p)'
  PROVE  Where(tags)'
<1>1. /\ k \in 1..Len(tags) /\ IsSeq(vFlvTag') /\ Len(vFlvTag') = k
      /\ tag'.size = DataSize(tags[k]) /\ Passed(tags, k - 1) /\ There(tags, k)
      /\ iRet' = "STREAM_OK" /\ t = tags[k] /\ p = TagAt(tags, k)
  BY DEF Within
<1>2. (Copying(tags[k], TagAt(tags, k)))'  BY <1>1
<1>. QED BY <1>1, <1>2, ToUnit

\* From one unit to the next,
LEMMA UnitSteps ==
  ASSUME NEW tags, Holds(tags), Telling(tags), Where(tags), CopyNalu
  PROVE  Where(tags)'
<1>. DEFINE len == ReadInto(templength, pos, 4)
            at == Behind(pos, 4)
<1>1. /\ Same /\ vFlvTag' = vFlvTag /\ tag' = tag /\ iRet' = iRet /\ phase' = "nalu"
      /\ phase = "nalu" /\ countsize < tag.size
      /\ pos' = Behind(at, len) /\ templength' = len
      /\ countsize' = (countsize + len + 4) % Word
  BY DEF CopyNalu, Same
<1>2. InTag(tags) /\ Copying(tags[Len(vFlvTag)], TagAt(tags, Len(vFlvTag))) /\ templength \in Nat
  BY <1>1 DEF Where
<1>3. PICK k, t, p : Within(tags, k, t, p)  BY <1>2, WithinIs
<1>4. Copying(t, p)  BY <1>2, <1>3 DEF Within
<1>. DEFINE d == DataSize(t)
            u == t.units
<1>5. /\ IsSeq(file) /\ EndOfFile \in Nat /\ p \in Nat /\ d \in Nat /\ t \in Tags /\ Lies(t, p)
      /\ countsize < d /\ 4 \in Nat /\ 4 \in 1..4 /\ u \in Seq(Nat)
      /\ ((Regulars(tags) /\ Regular(t)) \/ (Whole(tags) /\ p + 15 + d <= EndOfFile))
  BY <1>1, <1>3, TagsAre DEF Within
<1>6. EndOfFile' = EndOfFile  BY <1>1, SameHolds
<1>. HIDE DEF len, at, d
\* what a read that runs into the end leaves behind
<1>7. ASSUME pos \in Nat, Regular(t), EndOfFile < p + 11 + d,
             \A j \in 1..4 : pos + j <= EndOfFile => file[pos + j] \in Nat,
             pos + 4 <= EndOfFile => pos + 4 + len > EndOfFile
      PROVE  Copying(t, p)' /\ templength' \in Nat
  <2>1. len \in Nat  BY <1>2, <1>5, <1>7, ReadIs DEF len
  <2>2. Reaches(pos, 4, at)  BY <1>5, <1>7, ReachesIs DEF at
  <2>3. /\ at \in Nat
        /\ pos + 4 <= EndOfFile => at = pos + 4
        /\ pos + 4 > EndOfFile => at >= EndOfFile
    BY <1>7, <2>2 DEF Reaches
  <2>4. Reaches(at, len, Behind(at, len))  BY <1>5, <2>1, <2>3, ReachesIs
  <2>5. pos' \in Nat /\ pos' >= EndOfFile
    BY <1>1, <1>5, <1>7, <2>1, <2>3, <2>4 DEF Reaches
  <2>. QED BY <1>1, <1>6, <1>7, <2>1, <2>5 DEF Copying, Short, d
<1>8. CASE /\ t.kind \in {"nalus", "badsize"}
           /\ \E i \in 0..Len(u) :
                countsize = Lot(u, i) /\ pos = p + 11 + Lot(u, i) /\ pos <= EndOfFile
  <2>1. PICK i \in 0..Len(u) :
               countsize = Lot(u, i) /\ pos = p + 11 + Lot(u, i) /\ pos <= EndOfFile
    BY <1>8
  <2>2. Len(u) \in Nat /\ \A j \in 1..Len(u) : u[j] \in Nat  BY <1>5, TagsAre, SeqFacts
  <2>3. /\ Lot(u, Len(u)) = d /\ \A j \in 0..Len(u) : Lot(u, j) <= d
        /\ \A a \in 0..(Len(u) - 1) : \A j \in 1..4 : Body(t)[Lot(u, a) + j] = U32(u[a + 1])[j]
    BY <1>5, <1>8, NalusLie DEF d
  <2>4. i \in 0..(Len(u) - 1) /\ i + 1 \in 0..Len(u) /\ i + 1 \in 1..Len(u)
    BY <1>5, <2>1, <2>2, <2>3
  <2>5. /\ Lot(u, i) \in Nat /\ Lot(u, i + 1) = Lot(u, i) + 4 + u[i + 1] /\ Lot(u, i + 1) <= d
        /\ u[i + 1] \in Nat
    BY <1>5, <2>2, <2>3, <2>4, LotGrows
  <2>. DEFINE v == u[i + 1]
              l == Lot(u, i)
  <2>6. v \in Nat /\ l \in Nat /\ l + 4 + v <= d /\ pos = p + 11 + l /\ pos \in Nat
        /\ countsize = l /\ Lot(u, i + 1) = l + 4 + v
    BY <1>5, <2>1, <2>5
  <2>7. \A j \in 1..4 : pos + j <= EndOfFile => file[pos + j] = U32(v)[j]
    <3>1. SUFFICES ASSUME NEW j \in 1..4, pos + j <= EndOfFile PROVE file[pos + j] = U32(v)[j]
      OBVIOUS
    <3>2. Body(t)[l + j] = U32(v)[j]  BY <2>3, <2>4
    <3>. HIDE DEF v, l
    <3>3. l + j \in 1..d /\ pos + j = p + 11 + (l + j)  BY <1>5, <2>6
    <3>4. file[p + 11 + (l + j)] = Body(t)[l + j]  BY <1>5, <3>1, <3>3 DEF Lies, d
    <3>. QED BY <3>2, <3>3, <3>4
  <2>. HIDE DEF v, l
  <2>8. CASE pos + 4 + v <= EndOfFile
    <3>1. pos + 4 <= EndOfFile  BY <1>5, <2>6, <2>8
    <3>3. len = v  BY <1>2, <1>5, <2>6, <2>7, <3>1, LengthRead DEF len
    <3>4. at = pos + 4
      <4>1. Reaches(pos, 4, at)  BY <1>5, <2>6, ReachesIs DEF at
      <4>. QED BY <3>1, <4>1 DEF Reaches
    <3>5. pos' = pos + 4 + v
      <4>1. at \in Nat  BY <2>6, <3>4
      <4>2. Reaches(at, len, Behind(at, len))  BY <1>5, <2>6, <3>3, <4>1, ReachesIs
      <4>3. at + len <= EndOfFile /\ at + len = pos + 4 + v  BY <2>6, <2>8, <3>3, <3>4
      <4>. QED BY <1>1, <4>2, <4>3 DEF Reaches
    <3>2. countsize' = Lot(u, i + 1)
      <4>1. countsize' = (l + v + 4) % Word  BY <1>1, <2>6, <3>3, Zenon
      <4>2. l + v + 4 = Lot(u, i + 1)  BY <2>6
      <4>3. Lot(u, i + 1) \in Nat /\ Lot(u, i + 1) <= DataSize(t) + 1
        BY <1>5, <2>5, <2>6 DEF d
      <4>4. Lot(u, i + 1) % Word = Lot(u, i + 1)  BY <1>5, <4>3, Unwrapped
      <4>. QED BY <4>1, <4>2, <4>4
    <3>6. /\ countsize' = Lot(u, i + 1) /\ pos' = p + 11 + Lot(u, i + 1) /\ pos' <= EndOfFile'
      BY <1>5, <1>6, <2>6, <2>8, <3>2, <3>5
    <3>7. Copying(t, p)'  BY <1>8, <2>4, <3>6 DEF Copying
    <3>8. templength' \in Nat  BY <1>1, <2>6, <3>3
    <3>. QED BY <3>7, <3>8, <1>1, <1>3, UnitsStay
  <2>9. CASE ~(pos + 4 + v <= EndOfFile)
    <3>1. Regular(t) /\ EndOfFile < p + 11 + d  BY <1>5, <2>6, <2>9
    <3>2. \A j \in 1..4 : pos + j <= EndOfFile => file[pos + j] \in Nat
      BY <2>6, <2>7, U32Nat
    <3>3. ASSUME pos + 4 <= EndOfFile PROVE pos + 4 + len > EndOfFile
      <4>4. len = v  BY <1>2, <1>5, <2>6, <2>7, <3>3, LengthRead DEF len
      <4>. QED BY <1>5, <2>6, <2>9, <4>4
    <3>4. Copying(t, p)' /\ templength' \in Nat  BY <1>7, <2>6, <3>1, <3>2, <3>3
    <3>. QED BY <3>4, <1>1, <1>3, UnitsStay
  <2>. QED BY <2>8, <2>9
<1>9. CASE Short(t, p)
  <2>1. Regular(t) /\ EndOfFile < p + 11 + d /\ pos \in Nat /\ pos >= EndOfFile
    BY <1>9 DEF Short, d
  <2>2. /\ \A j \in 1..4 : pos + j <= EndOfFile => file[pos + j] \in Nat
        /\ pos + 4 <= EndOfFile => pos + 4 + len > EndOfFile
    BY <1>5, <2>1
  <2>3. Copying(t, p)' /\ templength' \in Nat  BY <1>7, <2>1, <2>2
  <2>. QED BY <2>3, <1>1, <1>3, UnitsStay
<1>10. CASE /\ t.kind = "overlong"
            /\ \/ countsize = 5 /\ pos = p + 16
               \/ countsize = DataSize(t) + 1 /\ pos = p + 12 + DataSize(t)
  <2>. DEFINE m == u[1]
  <2>1. countsize = 5 /\ pos = p + 16  BY <1>5, <1>10 DEF d
  <2>2. /\ m \in Nat /\ d = 9 + m
        /\ \A j \in 1..4 : Body(t)[5 + j] = U32(m + 1)[j]
    <3>1. t \in Tags /\ t.kind = "overlong" /\ m = t.units[1]  BY <1>5, <1>10
    <3>. HIDE DEF m
    <3>2. /\ m \in Nat /\ DataSize(t) = 9 + m
          /\ \A j \in 1..4 : Body(t)[5 + j] = U32(m + 1)[j]
      BY <3>1, OddOnesLie
    <3>. QED BY <3>2 DEF d
  <2>. HIDE DEF m
  <2>3. p + 15 + d <= EndOfFile  BY <1>5, <1>10 DEF Regular
  <2>4. \A j \in 1..4 : pos + j <= EndOfFile /\ file[pos + j] = U32(m + 1)[j]
    <3>1. SUFFICES ASSUME NEW j \in 1..4
                   PROVE  pos + j <= EndOfFile /\ file[pos + j] = U32(m + 1)[j]
      OBVIOUS
    <3>2. 5 + j \in 1..d /\ pos + j = p + 11 + (5 + j) /\ pos + j <= EndOfFile
      BY <1>5, <2>1, <2>2, <2>3
    <3>3. file[p + 11 + (5 + j)] = Body(t)[5 + j]  BY <1>5, <3>2 DEF Lies, d
    <3>. QED BY <2>2, <3>2, <3>3
  <2>5. pos \in Nat /\ m + 1 \in Nat /\ pos + 4 <= EndOfFile
        /\ pos + 4 + (m + 1) <= EndOfFile
    <3>1. EndOfFile \in Nat /\ p \in Nat /\ m \in Nat /\ d = 9 + m  BY <1>5, <2>2
    <3>. QED BY <2>1, <2>3, <3>1
  <2>6. len = m + 1
    <3>1. \A j \in 1..4 : pos + j <= EndOfFile => file[pos + j] = U32(m + 1)[j]  BY <2>4
    <3>. QED BY <1>2, <1>5, <2>5, <3>1, LengthRead DEF len
  <2>7. at = pos + 4
    <3>1. Reaches(pos, 4, at)  BY <1>5, <2>5, ReachesIs DEF at
    <3>. QED BY <2>5, <3>1 DEF Reaches
  <2>8. pos' = pos + 4 + (m + 1)
    <3>1. at \in Nat  BY <2>5, <2>7
    <3>2. Reaches(at, len, Behind(at, len))  BY <1>5, <2>5, <2>6, <3>1, ReachesIs
    <3>3. at + len <= EndOfFile /\ at + len = pos + 4 + (m + 1)  BY <2>5, <2>6, <2>7
    <3>. QED BY <1>1, <3>2, <3>3 DEF Reaches
  <2>9. countsize' = d + 1 /\ pos' = p + 12 + d
    <3>1. countsize' = (5 + (m + 1) + 4) % Word  BY <1>1, <2>1, <2>6, Zenon
    <3>2. pos' = p + 16 + 4 + (m + 1)  BY <2>1, <2>8, Zenon
    <3>3. p \in Nat /\ m \in Nat /\ d = 9 + m  BY <1>5, <2>2
    <3>4. 5 + (m + 1) + 4 = d + 1 /\ p + 16 + 4 + (m + 1) = p + 12 + d  BY <3>3
    <3>5. (d + 1) % Word = d + 1
      <4>1. d + 1 \in Nat /\ d + 1 <= DataSize(t) + 1  BY <1>5 DEF d
      <4>. QED BY <1>5, <4>1, Unwrapped
    <3>. QED BY <3>1, <3>2, <3>4, <3>5, Zenon
  <2>10. Copying(t, p)'  BY <1>10, <2>9 DEF Copying, d
  <2>11. templength' \in Nat  BY <1>1, <2>5, <2>6
  <2>. QED BY <2>10, <2>11, <1>1, <1>3, UnitsStay
<1>. QED BY <1>4, <1>8, <1>9, <1>10 DEF Copying

\* and behind the last.
LEMMA CopiedSteps ==
  ASSUME NEW tags, Holds(tags), Telling(tags), Where(tags), NalusCopied
  PROVE  Where(tags)'
<1>1. /\ Same /\ vFlvTag' = vFlvTag /\ tag' = tag /\ iRet' = iRet /\ phase' = "previous"
      /\ phase = "nalu" /\ countsize >= tag.size /\ pos' = pos /\ templength' = templength
  BY DEF NalusCopied, Same
<1>2. InTag(tags) /\ Copying(tags[Len(vFlvTag)], TagAt(tags, Len(vFlvTag))) /\ templength' \in Nat
  BY <1>1 DEF Where
<1>3. PICK k, t, p : Within(tags, k, t, p)  BY <1>2, WithinIs
<1>4. Copying(t, p)  BY <1>2, <1>3 DEF Within
<1>5. /\ EndOfFile \in Nat /\ p \in Nat /\ DataSize(t) \in Nat /\ t \in Tags
      /\ countsize >= DataSize(t)
  BY <1>1, <1>3 DEF Within
<1>6. EndOfFile' = EndOfFile  BY <1>1, SameHolds
<1>7. Read(t, p)'
  <2>1. CASE /\ t.kind \in {"nalus", "badsize"}
             /\ \E i \in 0..Len(t.units) : /\ countsize = Lot(t.units, i)
                                           /\ pos = p + 11 + Lot(t.units, i) /\ pos <= EndOfFile
    <3>1. PICK i \in 0..Len(t.units) : /\ countsize = Lot(t.units, i)
                                       /\ pos = p + 11 + Lot(t.units, i) /\ pos <= EndOfFile
      BY <2>1
    <3>2. Lot(t.units, i) <= DataSize(t) /\ Lot(t.units, i) \in Nat
      BY <1>5, <2>1, NalusLie, LotGrows, TagsAre
    <3>3. pos = p + 11 + DataSize(t)  BY <1>5, <3>1, <3>2
    <3>. QED BY <1>1, <1>6, <2>1, <3>1, <3>3 DEF Read, Sound, Regular
  <2>2. CASE Short(t, p)  BY <1>1, <1>6, <2>2 DEF Read, Short
  <2>3. CASE /\ t.kind = "overlong"
             /\ \/ countsize = 5 /\ pos = p + 16
                \/ countsize = DataSize(t) + 1 /\ pos = p + 12 + DataSize(t)
    <3>1. DataSize(t) >= 9
      <4>. DEFINE m == t.units[1]
      <4>1. m \in Nat /\ DataSize(t) = 9 + m  BY <1>5, <2>3, OddOnesLie
      <4>. QED BY <4>1
    <3>2. pos = p + 12 + DataSize(t)  BY <1>5, <2>3, <3>1
    <3>. QED BY <1>1, <2>3, <3>2 DEF Read, Astray
  <2>. QED BY <1>4, <2>1, <2>2, <2>3 DEF Copying
<1>8. /\ k \in 1..Len(tags) /\ IsSeq(vFlvTag') /\ Len(vFlvTag') = k
      /\ tag'.size = DataSize(tags[k]) /\ Passed(tags, k - 1) /\ There(tags, k)
      /\ iRet' = "STREAM_OK" /\ t = tags[k] /\ p = TagAt(tags, k)
  BY <1>1, <1>3 DEF Within
<1>9. (Read(tags[k], TagAt(tags, k)))'  BY <1>7, <1>8
<1>. QED BY <1>1, <1>2, <1>8, <1>9, ToPrevious

\* A tag that was read and is sound is passed.
LEMMA OnePassed ==
  ASSUME NEW tags, NEW k, NEW t, NEW p, Within(tags, k, t, p), Sound(t)
  PROVE  Passed(tags, k)
<1>1. \A i \in 1..k : i \in 1..(k - 1) \/ i = k  BY DEF Within
<1>2. There(tags, k) /\ Passed(tags, k - 1) /\ t = tags[k]  BY DEF Within
<1>. QED BY <1>1, <1>2 DEF Passed

\* The end of the file behind a tag, or in the size behind it, is no error.
LEMMA EndBehindSteps ==
  ASSUME NEW tags, Holds(tags), Telling(tags), Where(tags), EndBeforePrevious
  PROVE  Where(tags)'
<1>1. /\ Same /\ vFlvTag' = vFlvTag /\ phase' = "done" /\ iRet' = "STREAM_OK"
      /\ phase = "previous" /\ Got(pos, 4) < 4 /\ templength' = templength
  BY DEF EndBeforePrevious, Same, Finish
<1>2. InTag(tags) /\ Read(tags[Len(vFlvTag)], TagAt(tags, Len(vFlvTag))) /\ templength' \in Nat
  BY <1>1 DEF Where
<1>3. PICK k, t, p : Within(tags, k, t, p)  BY <1>2, WithinIs
<1>4. Read(t, p)  BY <1>2, <1>3 DEF Within
<1>. DEFINE d == DataSize(t)
<1>5. /\ EndOfFile \in Nat /\ p \in Nat /\ d \in Nat /\ t \in Tags /\ k \in 1..Len(tags)
      /\ TagAt(tags, k + 1) = p + 15 + d /\ Len(vFlvTag') = k /\ EndOfFile >= 9
      /\ Passed(tags, k - 1) /\ t = tags[k] /\ Len(tags) \in Nat
      /\ ((Regulars(tags) /\ Regular(t)) \/ (Whole(tags) /\ p + 15 + d <= EndOfFile))
  BY <1>1, <1>3 DEF Within, Holds
<1>6. k \in 0..Len(tags)  BY <1>5
<1>. HIDE DEF d
<1>7. pos \in Nat => EndOfFile < pos + 4
  <2>1. 4 \in Nat  OBVIOUS
  <2>2. SUFFICES ASSUME pos \in Nat, pos + 4 <= EndOfFile PROVE FALSE  BY <1>5
  <2>3. Got(pos, 4) = 4  BY <1>5, <2>1, <2>2, Reads
  <2>. QED BY <1>1, <2>3
\* regular tags: up to here everything is there
<1>8. ASSUME EndOfFile < p + 15 + d, Regular(t) PROVE Where(tags)'
  <2>1. EndOfFile <= TagAt(tags, k + 1) /\ EndOfFile \notin 1..8  BY <1>5, <1>8
  <2>2. Passed(tags, k)  BY <1>3, <1>8, OnePassed DEF Sound
  <2>3. ~Noticed(tags)  BY <1>6, <2>1, <2>2, Unnoticed
  <2>4. ~Whole(tags)
    <3>1. SUFFICES ASSUME Whole(tags) PROVE FALSE  OBVIOUS
    <3>2. k = Len(tags)  BY <1>6, <2>1, <3>1, WholeEnds
    <3>. QED BY <1>5, <1>8, <3>1, <3>2 DEF Whole
  <2>. QED BY <1>1, <1>2, <2>3, <2>4, ToEnd
<1>9. CASE pos = p + 11 + d /\ pos <= EndOfFile /\ (Sound(t) \/ t.kind = "badsize")
  <2>1. EndOfFile < p + 15 + d  BY <1>5, <1>7, <1>9
  <2>2. Regular(t)  BY <1>5, <2>1
  <2>. QED BY <1>8, <2>1, <2>2
<1>10. CASE Short(t, p)
  <2>1. EndOfFile < p + 15 + d /\ Regular(t)  BY <1>5, <1>10 DEF Short, d
  <2>. QED BY <1>8, <2>1
<1>11. CASE Astray(t, p)
  <2>1. ~Regular(t) /\ Whole(tags) /\ p + 15 + d <= EndOfFile
    BY <1>5, <1>11 DEF Astray, Regular
  <2>2. t.kind \in {"longset", "overlong"}
    <3>1. \/ t.kind \in {"longset", "overlong"}
          \/ d > 5 /\ pos = p + 16
          \/ pos = p + 7 + d
      BY <1>11 DEF Astray, d
    <3>2. ~(d > 5 /\ pos = p + 16) /\ ~(pos = p + 7 + d)  BY <1>5, <1>7, <2>1
    <3>. QED BY <3>1, <3>2
  <2>3. EndOfFile = p + 15 + d
    <3>1. pos = p + 12 + d  BY <1>11, <2>2 DEF Astray, d
    <3>. QED BY <1>5, <1>7, <2>1, <3>1
  <2>4. k = Len(tags)
    <3>1. EndOfFile <= TagAt(tags, k + 1)  BY <1>5, <2>3
    <3>. QED BY <1>6, <2>1, <3>1, WholeEnds
  <2>5. \A i \in 1..Len(tags) : \/ Sound(tags[i])
                                \/ i = Len(tags) /\ tags[i].kind \in {"overlong", "longset"}
    <3>1. \A i \in 1..Len(tags) : i \in 1..(k - 1) \/ i = k  BY <1>5, <2>4
    <3>. QED BY <1>5, <2>2, <2>4, <3>1 DEF Passed
  <2>6. ~Regulars(tags)  BY <1>5, <2>1 DEF Regulars
  <2>7. Len(vFlvTag') = Len(tags)  BY <1>5, <2>4
  <2>. QED BY <1>1, <1>2, <2>5, <2>6, <2>7, ToEnd
<1>. QED BY <1>4, <1>9, <1>10, <1>11 DEF Read, d

\* A size that was not the tag's is never behind one that was left astray.
LEMMA AstrayCaught ==
  ASSUME NEW tags, Holds(tags), NEW k, NEW t, NEW p, Within(tags, k, t, p), Astray(t, p),
         p + 15 + DataSize(t) <= EndOfFile, pos + 4 <= EndOfFile
  PROVE  ~PreviousTagSizeIs(DataSize(t) + 11)
<1>. DEFINE d == DataSize(t)
            f == U32(d + 11)
            s == SubSeq(file, pos + 1, pos + 4)
<1>1. /\ EndOfFile \in Nat /\ p \in Nat /\ d \in Nat /\ t \in Tags /\ k \in 1..Len(tags)
      /\ TagAt(tags, k + 1) = p + 15 + d /\ IsSeq(file) /\ Len(tags) \in Nat
      /\ EndOfFile <= TagAt(tags, Len(tags) + 1)
  BY DEF Within, Holds
<1>2. /\ f[1] \in {0, 1}
      /\ \A j \in 1..d : p + 11 + j <= EndOfFile => file[p + 11 + j] = Body(t)[j]
      /\ \A j \in 1..4 : p + 11 + d + j <= EndOfFile =>
           file[p + 11 + d + j] = U32(PreviousTagSize(t))[j]
  BY DEF Within, Lies
<1>3. SUFFICES ASSUME s = f PROVE FALSE  BY DEF PreviousTagSizeIs
<1>. HIDE DEF d, f
<1>4. pos \in Nat
  <2>1. pos = p + 16 \/ pos = p + 7 + d \/ pos = p + 12 + d  BY DEF Astray, d
  <2>. QED BY <1>1, <2>1
<1>5. \A j \in 1..4 : file[pos + j] = f[j]
  <2>1. pos + 4 <= Len(file) /\ 4 \in Nat  BY DEF EndOfFile
  <2>2. \A j \in 1..4 : s[j] = file[pos + j]  BY <1>1, <1>4, <2>1, MiddleIs
  <2>. QED BY <1>3, <2>2
<1>6. file[pos + 1] \in {0, 1}
  <2>1. 1 \in 1..4  OBVIOUS
  <2>. QED BY <1>2, <1>5, <2>1
<1>7. p + 15 + d <= EndOfFile  BY DEF d
<1>8. CASE t.kind = "h263" /\ d > 5 /\ pos = p + 16
  <2>. DEFINE u == t.units
              m == Len(u)
  <2>1. IsSeq(u) /\ m \in Nat /\ d = 5 + m /\ \A i \in 1..m : Body(t)[5 + i] = u[i]
    BY <1>1, <1>8, CodecLies DEF d
  <2>2. ~(m >= 4 /\ SubSeq(u, 1, 4) = f)  BY <1>8 DEF Within, Deceives, f, d
  <2>3. PreviousTagSize(t) = d + 11
    <3>1. PreviousTagSize(t) = d + 11 + 0  BY <1>8 DEF PreviousTagSize, d
    <3>. QED BY <1>1, <3>1
  <2>. HIDE DEF u, m
  <2>4. CASE m >= 4
    <3>1. 4 \in 0..Len(u)  BY <2>1, <2>4 DEF m
    <3>2. /\ IsSeq(SubSeq(u, 1, 4)) /\ Len(SubSeq(u, 1, 4)) = 4
          /\ \A i \in 1..4 : SubSeq(u, 1, 4)[i] = u[i]
      BY <2>1, <3>1, FirstOnes
    <3>3. \A i \in 1..4 : u[i] = f[i]
      <4>1. SUFFICES ASSUME NEW i \in 1..4 PROVE u[i] = f[i]  OBVIOUS
      <4>2. i \in 1..m /\ 5 + i \in 1..d /\ p + 11 + (5 + i) = pos + i
            /\ p + 11 + (5 + i) <= EndOfFile
        BY <1>1, <1>7, <1>8, <2>1, <2>4
      <4>3. file[p + 11 + (5 + i)] = Body(t)[5 + i]  BY <1>2, <4>2
      <4>. QED BY <1>5, <2>1, <4>2, <4>3
    <3>4. IsSeq(f) /\ Len(f) = 4  BY U32Is, SMT DEF f
    <3>5. SubSeq(u, 1, 4) = f  BY <3>2, <3>3, <3>4, SameSeq
    <3>. QED BY <2>2, <2>4, <3>5
  <2>5. CASE ~(m >= 4)
    <3>1. m \in 1..3  BY <1>8, <2>1, <2>5
    <3>2. 4 - m \in 1..3 /\ 4 - m \in 1..4 /\ p + 11 + d + (4 - m) = pos + 4
          /\ p + 11 + d + (4 - m) <= EndOfFile /\ d + 11 = 16 + m
      BY <1>1, <1>7, <1>8, <2>1, <3>1
    <3>3. file[p + 11 + d + (4 - m)] = f[4 - m]  BY <1>2, <2>3, <3>2 DEF f
    <3>4. f[4 - m] = f[4]  BY <1>5, <3>2, <3>3
    <3>5. f[4 - m] = 0 /\ f[4] = 16 + m
      <4>1. /\ f[1] = (16 + m) \div 16777216
            /\ \A i \in 1..3 : f[1 + i] = U24((16 + m) % 16777216)[i]
        BY <3>2, U32Is, SMT DEF f
      <4>2. (16 + m) \div 16777216 = 0 /\ (16 + m) % 16777216 = 16 + m  BY <3>1, SMT
      <4>3. /\ U24(16 + m)[1] = (16 + m) \div 65536
            /\ U24(16 + m)[2] = ((16 + m) \div 256) % 256 /\ U24(16 + m)[3] = (16 + m) % 256
        BY U24Is
      <4>4. (16 + m) \div 65536 = 0 /\ ((16 + m) \div 256) % 256 = 0 /\ (16 + m) % 256 = 16 + m
        BY <3>1, SMT
      <4>5. 1 \in 1..3 /\ 2 \in 1..3 /\ 3 \in 1..3 /\ 1 + 1 = 2 /\ 1 + 2 = 3 /\ 1 + 3 = 4  OBVIOUS
      <4>6. f[1] = 0  BY <4>1, <4>2, SMT
      <4>7. \A i \in 1..3 : f[1 + i] = U24(16 + m)[i]  BY <4>1, <4>2, SMT
      <4>8. f[2] = 0 /\ f[3] = 0 /\ f[4] = 16 + m  BY <4>3, <4>4, <4>5, <4>7
      <4>9. 4 - m = 1 \/ 4 - m = 2 \/ 4 - m = 3  BY <3>1
      <4>. DEFINE j == 4 - m
      <4>10. j = 1 \/ j = 2 \/ j = 3  BY <4>9
      <4>. HIDE DEF j
      <4>11. f[j] = 0  BY <4>6, <4>8, <4>10
      <4>. QED BY <4>8, <4>11 DEF j
    <3>6. 16 + m = 0  BY <3>4, <3>5, Zenon
    <3>. QED BY <3>1, <3>6
  <2>. QED BY <2>4, <2>5
<1>9. CASE t.kind = "config_high" /\ pos = p + 7 + d
  <2>. DEFINE m == t.units[1]
              n == t.units[2]
  <2>1. m \in Nat /\ n \in Nat /\ d = 20 + m + n /\ Body(t)[17 + m + n] = 253
    <3>1. t \in Tags /\ t.kind \in {"config", "config_high", "longset"} /\ t.kind = "config_high"
          /\ m = t.units[1] /\ n = t.units[2]
      BY <1>1, <1>9
    <3>. HIDE DEF m, n
    <3>2. m \in Nat /\ n \in Nat /\ DataSize(t) = 20 + m + n /\ Body(t)[17 + m + n] = 253
      BY <3>1, ConfigLies
    <3>. QED BY <3>2 DEF d
  <2>. HIDE DEF m, n
  <2>2. 17 + m + n \in 1..d /\ p + 11 + (17 + m + n) <= EndOfFile
        /\ p + 11 + (17 + m + n) = pos + 1
    BY <1>1, <1>7, <1>9, <2>1
  <2>3. file[p + 11 + (17 + m + n)] = 253  BY <1>2, <2>1, <2>2
  <2>. QED BY <1>6, <2>2, <2>3
<1>10. CASE t.kind \in {"longset", "overlong"} /\ pos = p + 12 + d
  <2>1. PreviousTagSize(t) = d + 11
    <3>1. PreviousTagSize(t) = d + 11 + 0  BY <1>10 DEF PreviousTagSize, d
    <3>. QED BY <1>1, <3>1
  <2>2. \A j \in 1..4 : file[p + 11 + d + j] = f[j]
    <3>1. \A j \in 1..4 : p + 11 + d + j <= EndOfFile  BY <1>1, <1>7
    <3>. QED BY <1>2, <2>1, <3>1 DEF f
  <2>3. file[pos + 1] = f[2] /\ file[pos + 2] = f[3] /\ file[pos + 3] = f[4]
        /\ file[pos + 1] = f[1] /\ file[pos + 2] = f[2] /\ file[pos + 3] = f[3]
        /\ file[pos + 4] = f[4]
    <3>1. 1 \in 1..4 /\ 2 \in 1..4 /\ 3 \in 1..4 /\ 4 \in 1..4  OBVIOUS
    <3>2. p + 11 + d + 2 = pos + 1 /\ p + 11 + d + 3 = pos + 2 /\ p + 11 + d + 4 = pos + 3
      BY <1>1, <1>10
    <3>3. file[p + 11 + d + 2] = f[2] /\ file[p + 11 + d + 3] = f[3] /\ file[p + 11 + d + 4] = f[4]
      BY <2>2, <3>1
    <3>. QED BY <1>5, <3>1, <3>2, <3>3
  <2>4. file[pos + 4] \in {0, 1}  BY <1>2, <2>3
  <2>5. k + 1 \in 1..Len(tags)
    <3>1. k # Len(tags)  BY <1>1, <1>10
    <3>. QED BY <1>1, <3>1
  <2>6. Next8(TagAt(tags, k + 1)) = Type(tags[k + 1]) /\ tags[k + 1] \in Tags
    <3>1. Lies(tags[k + 1], TagAt(tags, k + 1))  BY <2>5, TagsLie
    <3>2. TagAt(tags, k + 1) < EndOfFile  BY <1>1, <1>10
    <3>. QED BY <3>1, <3>2 DEF Lies
  <2>7. Next8(TagAt(tags, k + 1)) = file[pos + 4]
    <3>1. TagAt(tags, k + 1) + 1 = pos + 4  BY <1>1, <1>10
    <3>. QED BY <3>1 DEF Next8
  <2>. QED BY <2>4, <2>6, <2>7, TypesTell
<1>. QED BY <1>8, <1>9, <1>10 DEF Astray, d

\* The size behind a tag is the tag's, unless that was made wrong.
LEMMA SizeBehind ==
  ASSUME NEW tags, NEW k, NEW t, NEW p, Within(tags, k, t, p), pos = p + 11 + DataSize(t),
         pos + 4 <= EndOfFile
  PROVE  PreviousTagSizeIs(DataSize(t) + 11) <=> t.kind # "badsize"
<1>. DEFINE d == DataSize(t)
            s == SubSeq(file, pos + 1, pos + 4)
            v == PreviousTagSize(t)
<1>1. EndOfFile \in Nat /\ p \in Nat /\ d \in Nat /\ IsSeq(file)  BY DEF Within
<1>2. \A j \in 1..4 : p + 11 + d + j <= EndOfFile => file[p + 11 + d + j] = U32(v)[j]
  BY DEF Within, Lies
<1>3. /\ v \in Nat /\ (t.kind # "badsize" => v = d + 11) /\ (t.kind = "badsize" => v = d + 12)
  <2>1. v = d + 11 + (IF t.kind = "badsize" THEN 1 ELSE 0)  BY DEF PreviousTagSize
  <2>. HIDE DEF v, d
  <2>. QED BY <1>1, <2>1
<1>4. pos = p + 11 + d  OBVIOUS
<1>. HIDE DEF d, v
<1>5. pos \in Nat /\ pos + 4 <= Len(file) /\ 4 \in Nat  BY <1>1, <1>4 DEF EndOfFile
<1>6. \A j \in 1..4 : file[pos + j] = U32(v)[j]
  <2>1. \A j \in 1..4 : pos + j <= EndOfFile  BY <1>1, <1>5
  <2>. QED BY <1>2, <1>4, <2>1
<1>7. Number(file, pos, 4) = v  BY <1>1, <1>3, <1>5, <1>6, FourBack
<1>8. Len(s) = 4 /\ \A j \in 1..4 : s[j] = file[pos + j]
  <2>1. IsSeq(file)  BY <1>1
  <2>2. Len(s) = 4  BY <1>5, <2>1, MiddleIs
  <2>3. \A j \in 1..4 : s[j] = file[pos + j]  BY <1>5, <2>1, MiddleIs
  <2>. QED BY <2>2, <2>3
<1>9. IsSeq(s)
  <2>1. PICK S : file \in Seq(S)  BY <1>1 DEF IsSeq
  <2>. DEFINE a == pos + 1
              b == pos + 4
  <2>2. a \in Int /\ b \in Int /\ \A i \in a..b : i \in 1..Len(file)  BY <1>5
  <2>3. \A i \in a..b : file[i] \in S  BY <2>1, <2>2, ElementOfSeq
  <2>. HIDE DEF a, b
  <2>4. SubSeq(file, a, b) \in Seq(S)  BY <2>1, <2>2, <2>3, SubSeqProperties
  <2>. QED BY <2>4 DEF IsSeq, a, b
<1>10. ASSUME t.kind # "badsize" PROVE s = U32(d + 11)
  <2>1. v = d + 11  BY <1>3, <1>10
  <2>2. IsSeq(U32(v)) /\ Len(U32(v)) = 4  BY U32Is, SMT
  <2>3. \A j \in 1..Len(s) : s[j] = U32(v)[j]  BY <1>6, <1>8
  <2>. HIDE DEF s
  <2>4. s = U32(v)  BY <1>8, <1>9, <2>2, <2>3, SameSeq
  <2>. QED BY <2>1, <2>4
<1>11. ASSUME t.kind = "badsize", s = U32(d + 11) PROVE FALSE
  <2>1. \A j \in 1..4 : file[pos + j] = U32(d + 11)[j]  BY <1>8, <1>11
  <2>2. d + 11 \in Nat  BY <1>1
  <2>3. Number(file, pos, 4) = d + 11  BY <1>1, <1>5, <2>1, <2>2, FourBack
  <2>. QED BY <1>1, <1>3, <1>7, <1>11, <2>3
<1>. QED BY <1>10, <1>11 DEF PreviousTagSizeIs, d

\* Behind a sound tag its size, and the next tag; behind any other an error.
LEMMA CheckSteps ==
  ASSUME NEW tags, Holds(tags), Telling(tags), Where(tags), CheckPrevious
  PROVE  Where(tags)'
<1>1. /\ Same /\ vFlvTag' = vFlvTag /\ phase = "previous" /\ Got(pos, 4) = 4
      /\ templength' = templength /\ pos' = pos + 4
  BY DEF CheckPrevious, Same
<1>2. InTag(tags) /\ Read(tags[Len(vFlvTag)], TagAt(tags, Len(vFlvTag))) /\ templength' \in Nat
  BY <1>1 DEF Where
<1>3. PICK k, t, p : Within(tags, k, t, p)  BY <1>2, WithinIs
<1>4. Read(t, p)  BY <1>2, <1>3 DEF Within
<1>. DEFINE d == DataSize(t)
<1>5. /\ EndOfFile \in Nat /\ p \in Nat /\ d \in Nat /\ t \in Tags /\ k \in 1..Len(tags)
      /\ TagAt(tags, k + 1) = p + 15 + d /\ IsSeq(vFlvTag') /\ Len(vFlvTag') = k
      /\ EndOfFile >= 9 /\ tag.size = d /\ t = tags[k] /\ Len(tags) \in Nat
      /\ iRet = "STREAM_OK"
      /\ ((Regulars(tags) /\ Regular(t)) \/ (Whole(tags) /\ p + 15 + d <= EndOfFile))
  BY <1>1, <1>3 DEF Within, Holds
<1>6. k \in 0..Len(tags)  BY <1>5
<1>. HIDE DEF d
<1>7. ASSUME pos \in Nat PROVE pos + 4 <= EndOfFile
  <2>1. 4 \in Nat /\ 4 > 0  OBVIOUS
  <2>2. pos + 4 > EndOfFile => Got(pos, 4) < 4  BY <1>5, <1>7, <2>1, Reads
  <2>. QED BY <1>1, <1>5, <1>7, <2>2
<1>8. ASSUME ~PreviousTagSizeIs(d + 11), ~Regulars(tags) PROVE Where(tags)'
  <2>1. phase' = "done" /\ iRet' = "FLV_TAGSIZE_NOTMATCH"
    BY <1>5, <1>8 DEF CheckPrevious, Finish
  <2>. QED BY <1>1, <1>2, <1>8, <2>1, ToError
<1>9. CASE pos = p + 11 + d /\ pos <= EndOfFile /\ (Sound(t) \/ t.kind = "badsize")
  <2>1. pos + 4 <= EndOfFile /\ pos = p + 11 + DataSize(t)  BY <1>5, <1>7, <1>9 DEF d
  <2>2. PreviousTagSizeIs(d + 11) <=> t.kind # "badsize"  BY <1>3, <2>1, SizeBehind DEF d
  <2>3. CASE t.kind = "badsize"
    <3>1. ~Regulars(tags)  BY <1>5, <2>3 DEF Regulars, Regular
    <3>. QED BY <1>8, <2>2, <2>3, <3>1
  <2>4. CASE t.kind # "badsize"
    <3>1. phase' = "tag" /\ iRet' = "STREAM_OK"  BY <1>5, <2>2, <2>4 DEF CheckPrevious
    <3>2. pos' = TagAt(tags, k + 1)  BY <1>1, <1>5, <1>9
    <3>3. Passed(tags, k)  BY <1>3, <1>9, <2>4, OnePassed
    <3>. QED BY <1>1, <1>2, <1>5, <1>6, <3>1, <3>2, <3>3, ToTag
  <2>. QED BY <2>3, <2>4
<1>10. CASE Short(t, p)
  <2>1. pos \in Nat /\ pos >= EndOfFile  BY <1>10 DEF Short
  <2>. QED BY <1>5, <1>7, <2>1
<1>11. CASE Astray(t, p)
  <2>1. ~Regular(t) /\ p + 15 + d <= EndOfFile  BY <1>5, <1>11 DEF Astray, Regular
  <2>2. ~Regulars(tags)  BY <1>5, <2>1 DEF Regulars
  <2>3. pos \in Nat
    <3>1. pos = p + 16 \/ pos = p + 7 + d \/ pos = p + 12 + d  BY <1>11 DEF Astray, d
    <3>. QED BY <1>5, <3>1
  <2>4. ~PreviousTagSizeIs(d + 11)  BY <1>3, <1>7, <1>11, <2>1, <2>3, AstrayCaught DEF d
  <2>. QED BY <1>8, <2>2, <2>4
<1>. QED BY <1>4, <1>9, <1>10, <1>11 DEF Read, d

-----------------------------------------------------------------------------
(* What the results say of the recording.                                  *)

\* A recording is some stream, cut, with nothing read of it.
LEMMA ParseBegins == Init => ParseInv
<1>1. SUFFICES ASSUME Init PROVE ParseInv  OBVIOUS
<1>2. PICK tags \in Recordings :
         /\ sent = Laid(tags, 13)
         /\ \E size \in 0..Len(Stream(tags)) : file = SubSeq(Stream(tags), 1, size)
  BY <1>1 DEF Init
<1>3. Cut(tags)  BY <1>2 DEF Cut
<1>4. Where(tags)  BY <1>1 DEF Init, Where
<1>. QED BY <1>3, <1>4 DEF ParseInv

\* No action makes another recording.
LEMMA RecordingStays == Next => Same
BY DEF Next, Same, EmptyFile, HeaderError, ParseHead, EndOfTags, UnknownTag, CutTagHeader,
       ScriptTag, AudioTag, CutVideoHeader, CommandFrame, OtherCodec, SequenceHeader, Nalus,
       CopyNalu, NaluStrays, NalusCopied, EndBeforePrevious, CheckPrevious

\* Every step leaves the parser where Where has it,
LEMMA WhereKept ==
  ASSUME NEW tags, Holds(tags), Telling(tags), Where(tags), [Next]_vars
  PROVE  Where(tags)'
<1>1. CASE EmptyFile \/ HeaderError \/ ParseHead  BY <1>1, HeadSteps
<1>2. CASE EndOfTags \/ UnknownTag \/ CutTagHeader  BY <1>2, EndSteps
<1>3. CASE ScriptTag  BY <1>3, ScriptSteps
<1>4. CASE AudioTag  BY <1>4, AudioSteps
<1>5. CASE CutVideoHeader  BY <1>5, CutVideoSteps
<1>6. CASE CommandFrame  BY <1>6, CommandSteps
<1>7. CASE OtherCodec  BY <1>7, OtherSteps
<1>8. CASE SequenceHeader  BY <1>8, SetsSteps
<1>9. CASE Nalus  BY <1>9, NalusSteps
<1>10. CASE CopyNalu  BY <1>10, UnitSteps
<1>11. CASE NalusCopied  BY <1>11, CopiedSteps
<1>12. CASE EndBeforePrevious  BY <1>12, EndBehindSteps
<1>13. CASE CheckPrevious  BY <1>13, CheckSteps
<1>15. CASE NaluStrays  BY <1>15 DEF NaluStrays, Where
<1>14. CASE UNCHANGED vars
  <2>1. Passed(tags, Len(vFlvTag))' <=> Passed(tags, Len(vFlvTag))
    BY <1>14 DEF vars, Passed, There, EndOfFile
  <2>. QED BY <1>14
    DEF vars, Where, AtTag, InTag, Passed, There, EndOfFile, Copying, Short, Read, Astray, Ended,
        Regulars, Whole, Honest, Noticed
<1>. QED BY <1>1, <1>2, <1>3, <1>4, <1>5, <1>6, <1>7, <1>8, <1>9, <1>10, <1>11, <1>12, <1>13,
            <1>14, <1>15 DEF Next

\* and ParseInv.
LEMMA ParseGoesOn ==
  ASSUME ParseInv, [Next]_vars
  PROVE  ParseInv'
<1>1. PICK tags : Cut(tags) /\ (Telling(tags) => Where(tags))  BY DEF ParseInv
<1>2. Holds(tags)  BY <1>1, CutHolds
<1>3. Same  BY RecordingStays DEF vars, Same
<1>4. Cut(tags)' /\ (Telling(tags)' => Telling(tags))  BY <1>1, <1>3, SameHolds
<1>5. Telling(tags) => Where(tags)'  BY <1>1, <1>2, WhereKept
<1>. QED BY <1>4, <1>5 DEF ParseInv

\* So the parser is always where the stream says it is.
THEOREM ParseKnows == Spec => []ParseInv
<1>1. Init => ParseInv  BY ParseBegins
<1>2. ParseInv /\ [Next]_vars => ParseInv'  BY ParseGoesOn
<1>. QED BY <1>1, <1>2, PTL DEF Spec

\* sent says of a tag what the tag does.
LEMMA SentIs ==
  ASSUME NEW tags, Holds(tags)
  PROVE  /\ DOMAIN sent = 1..Len(tags) /\ Len(sent) = Len(tags)
         /\ \A i \in 1..Len(tags) :
              /\ Start(i) = TagAt(tags, i) /\ FixedPart(sent[i]) = FixedPart(tags[i])
              /\ sent[i].kind = tags[i].kind /\ sent[i].size = DataSize(tags[i])
              /\ Regular(sent[i]) <=> Regular(tags[i])
              /\ Misleads(sent[i]) <=> Deceives(tags[i])
BY DEF Holds, LaidOut, Start, TagAt, FixedPart, Regular, Misleads, Deceives

\* A cut regular stream is reported exactly when the cut is in the FLV header or in the fixed
\* part of a tag: ParseFlvFile says STREAM_OK of nearly every recording that was cut.
THEOREM CutsAreReported == Spec => []CutsReported
<1>1. ParseInv => CutsReported
  <2>1. SUFFICES ASSUME ParseInv, phase = "done", AllRegular
                 PROVE  iRet = "STREAM_OK" <=>
                          /\ EndOfFile \notin 1..8
                          /\ \A i \in DOMAIN sent :
                                EndOfFile \notin
                                  (Start(i) + 1)..(Start(i) + FixedPart(sent[i]) - 1)
    BY DEF CutsReported
  <2>2. PICK tags : Cut(tags) /\ (Telling(tags) => Where(tags))  BY <2>1 DEF ParseInv
  <2>3. Holds(tags)  BY <2>2, CutHolds
  <2>4. Regulars(tags)  BY <2>1, <2>3, SentIs DEF AllRegular, Regulars
  <2>5. Ended(tags)  BY <2>1, <2>2, <2>4 DEF Telling, Where
  <2>6. iRet = "STREAM_OK" <=> ~Noticed(tags)  BY <2>4, <2>5 DEF Ended
  <2>7. DOMAIN sent = 1..Len(tags)
        /\ \A i \in 1..Len(tags) :
             Start(i) = TagAt(tags, i) /\ FixedPart(sent[i]) = FixedPart(tags[i])
    BY <2>3, SentIs
  <2>. QED BY <2>6, <2>7 DEF Noticed
<1>. QED BY <1>1, ParseKnows, PTL

\* Streams of the same tags are the same.
LEMMA SameStream ==
  ASSUME NEW tags, Holds(tags), file = Stream(sent)
  PROVE  EndOfFile = TagAt(tags, Len(tags) + 1)
<1>1. /\ tags \in Seq(Tags) /\ IsSeq(sent) /\ Len(sent) = Len(tags) /\ DOMAIN sent = 1..Len(tags)
      /\ \A i \in 1..Len(tags) : sent[i].kind = tags[i].kind /\ sent[i].units = tags[i].units
      /\ TRUE \in BOOLEAN
  BY DEF Holds, LaidOut
<1>2. DOMAIN tags = 1..Len(tags)  BY <1>1, LenProperties
<1>3. \A i \in 1..Len(tags) : Layout(sent[i]) = Layout(tags[i])
  <2>1. SUFFICES ASSUME NEW i \in 1..Len(tags) PROVE Layout(sent[i]) = Layout(tags[i])  OBVIOUS
  <2>2. sent[i].kind = tags[i].kind /\ sent[i].units = tags[i].units  BY <1>1
  <2>3. Body(sent[i]) = Body(tags[i])  BY <2>2 DEF Body
  <2>4. Type(sent[i]) = Type(tags[i])  BY <2>2 DEF Type
  <2>5. DataSize(sent[i]) = DataSize(tags[i])  BY <2>3 DEF DataSize
  <2>6. PreviousTagSize(sent[i]) = PreviousTagSize(tags[i])  BY <2>2, <2>5 DEF PreviousTagSize
  <2>. QED BY <2>3, <2>4, <2>5, <2>6 DEF Layout
<1>4. [i \in DOMAIN sent |-> Layout(sent[i])] = [i \in DOMAIN tags |-> Layout(tags[i])]
  BY <1>1, <1>2, <1>3
<1>5. Stream(sent) = Stream(tags)  BY <1>4 DEF Stream
<1>6. Len(Stream(tags)) = TagAt(tags, Len(tags) + 1)  BY <1>1, SendingIs DEF Sending, TagAt
<1>. QED BY <1>5, <1>6 DEF EndOfFile

\* A stream received whole whose result is STREAM_OK was read tag by tag to its end, unless it
\* holds a tag that misleads: the check of PreviousTagSize catches every other tag that
\* ParseBodyTag leaves early, whatever its payload, and every tag whose sizes disagree, but for a
\* unit that overruns the last tag of all.
THEOREM NothingIsSkipped == Spec => []NothingSkipped
<1>1. ParseInv => NothingSkipped
  <2>1. SUFFICES ASSUME ParseInv, phase = "done", iRet = "STREAM_OK", file = Stream(sent),
                        ~\E i \in DOMAIN sent : Misleads(sent[i])
                 PROVE  /\ Len(vFlvTag) = Len(sent)
                        /\ \A i \in DOMAIN sent :
                             \/ Regular(sent[i]) \/ sent[i].size = 5
                             \/ i = Len(sent) /\ sent[i].kind \in {"overlong", "longset"}
    BY DEF NothingSkipped
  <2>2. PICK tags : Cut(tags) /\ (Telling(tags) => Where(tags))  BY <2>1 DEF ParseInv
  <2>3. Holds(tags)  BY <2>2, CutHolds
  <2>0. DOMAIN sent = 1..Len(tags) /\ \A i \in 1..Len(tags) : Misleads(sent[i]) <=> Deceives(tags[i])
    BY <2>3, SentIs
  <2>4. Whole(tags)  BY <2>0, <2>1, <2>3, SameStream DEF Whole, Honest
  <2>5. Ended(tags)  BY <2>1, <2>2, <2>4 DEF Telling, Where
  <2>6. /\ Len(vFlvTag) = Len(tags)
        /\ \A i \in 1..Len(tags) :
             \/ Sound(tags[i])
             \/ i = Len(tags) /\ tags[i].kind \in {"overlong", "longset"}
    BY <2>1, <2>4, <2>5 DEF Ended
  <2>7. /\ DOMAIN sent = 1..Len(tags) /\ Len(sent) = Len(tags)
        /\ \A i \in 1..Len(tags) :
             /\ sent[i].kind = tags[i].kind /\ sent[i].size = DataSize(tags[i])
             /\ Regular(sent[i]) <=> Regular(tags[i])
    BY <2>3, SentIs
  <2>. QED BY <2>6, <2>7 DEF Sound
<1>. QED BY <1>1, ParseKnows, PTL
-----------------------------------------------------------------------------
(* The units it copies.                                                    *)

\* A unit as it is, where it lies and all of it.
Good(copy, place) == copy = [from |-> place.from, len |-> place.len, got |-> place.len]

\* Of the copies the first m, and no more, are the units as they are.
Agree(copies, units, m) ==
  /\ IsSeq(copies) /\ m \in 0..Len(copies) /\ m <= Len(units)
  /\ \A j \in 1..m : Good(copies[j], units[j])
  /\ m < Len(copies) => ~(m + 1 <= Len(units) /\ Good(copies[m + 1], units[m + 1]))

All(tags) == FlattenSeq(Placed(tags, TRUE))

\* Of that which is written so far one may go on: a unit as it is,
LEMMA OneMore ==
  ASSUME NEW copies, NEW units, Len(units) \in Nat, Agree(copies, units, Len(copies)),
         Len(copies) + 1 <= Len(units), NEW x, Good(x, units[Len(copies) + 1])
  PROVE  /\ Len(Append(copies, x)) = Len(copies) + 1
         /\ Agree(Append(copies, x), units, Len(copies) + 1)
<1>. DEFINE s == Append(copies, x)
            n == Len(copies)
<1>1. IsSeq(copies) /\ n \in Nat /\ \A j \in 1..n : Good(copies[j], units[j])
  BY SeqFacts DEF Agree
<1>2. IsSeq(s) /\ Len(s) = n + 1 /\ (\A j \in 1..n : s[j] = copies[j]) /\ s[n + 1] = x
  BY <1>1, AppendIs
<1>. HIDE DEF s, n
<1>3. \A j \in 1..(n + 1) : j \in 1..n \/ j = n + 1  BY <1>1
<1>4. Good(s[n + 1], units[n + 1])  BY <1>2 DEF n
<1>5. \A j \in 1..(n + 1) : Good(s[j], units[j])  BY <1>1, <1>2, <1>3, <1>4
<1>6. n + 1 \in 0..Len(s) /\ ~(n + 1 < Len(s)) /\ n + 1 <= Len(units)  BY <1>1, <1>2 DEF n
<1>7. Agree(s, units, n + 1)  BY <1>2, <1>5, <1>6 DEF Agree
<1>. QED BY <1>2, <1>7 DEF s, n

\* one that is not,
LEMMA OneDamaged ==
  ASSUME NEW copies, NEW units, Agree(copies, units, Len(copies)),
         NEW x, ~Good(x, units[Len(copies) + 1])
  PROVE  /\ Len(Append(copies, x)) = Len(copies) + 1
         /\ Agree(Append(copies, x), units, Len(copies))
<1>. DEFINE s == Append(copies, x)
            n == Len(copies)
<1>1. IsSeq(copies) /\ n \in Nat /\ (\A j \in 1..n : Good(copies[j], units[j])) /\ n <= Len(units)
  BY SeqFacts DEF Agree
<1>2. IsSeq(s) /\ Len(s) = n + 1 /\ (\A j \in 1..n : s[j] = copies[j]) /\ s[n + 1] = x
  BY <1>1, AppendIs
<1>. HIDE DEF s
<1>3. ~Good(s[n + 1], units[n + 1])  BY <1>2
<1>. HIDE DEF n
<1>4. n \in 0..Len(s)  BY <1>1, <1>2
<1>5. Agree(s, units, n)  BY <1>1, <1>2, <1>3, <1>4 DEF Agree
<1>. QED BY <1>2, <1>5 DEF s, n

\* or anything behind one that is not.
LEMMA MoreDamaged ==
  ASSUME NEW copies, NEW units, NEW m, Agree(copies, units, m), m < Len(copies), NEW x
  PROVE  Agree(Append(copies, x), units, m) /\ m < Len(Append(copies, x))
<1>. DEFINE s == Append(copies, x)
            n == Len(copies)
<1>1. /\ IsSeq(copies) /\ n \in Nat /\ (\A j \in 1..m : Good(copies[j], units[j]))
      /\ m <= Len(units) /\ m \in 0..n /\ m < n
      /\ ~(m + 1 <= Len(units) /\ Good(copies[m + 1], units[m + 1]))
  BY SeqFacts DEF Agree
<1>2. IsSeq(s) /\ Len(s) = n + 1 /\ (\A j \in 1..n : s[j] = copies[j])
  BY <1>1, AppendIs
<1>. HIDE DEF s, n
<1>3. /\ \A j \in 1..m : s[j] = copies[j]
      /\ s[m + 1] = copies[m + 1] /\ m \in 0..Len(s) /\ m < Len(s)
  <2>1. \A j \in 1..m : j \in 1..n  BY <1>1
  <2>2. m + 1 \in 1..n  BY <1>1
  <2>. QED BY <1>1, <1>2, <2>1, <2>2
<1>4. Agree(s, units, m)  BY <1>1, <1>2, <1>3 DEF Agree
<1>. QED BY <1>3, <1>4 DEF s

\* Two more are one more, twice.
LEMMA TwoAppended ==
  ASSUME NEW s, IsSeq(s), NEW a, NEW b
  PROVE  s \o <<a, b>> = Append(Append(s, a), b)
<1>. DEFINE t == <<a, b>>
            l == s \o t
            r == Append(Append(s, a), b)
            n == Len(s)
<1>1. n \in Nat /\ IsSeq(t) /\ Len(t) = 2 /\ t[1] = a /\ t[2] = b  BY PairIs, SeqFacts
<1>2. IsSeq(l) /\ Len(l) = n + 2
      /\ \A i \in 1..(n + 2) : l[i] = IF i <= n THEN s[i] ELSE t[i - n]
  <2>. HIDE DEF t
  <2>1. IsSeq(s \o t) /\ Len(s \o t) = Len(s) + Len(t)
        /\ \A i \in 1..(Len(s) + Len(t)) :
              (s \o t)[i] = IF i <= Len(s) THEN s[i] ELSE t[i - Len(s)]
    BY <1>1, ConcatIs
  <2>. QED BY <1>1, <2>1
<1>. DEFINE c == Append(s, a)
<1>3. IsSeq(c) /\ Len(c) = n + 1 /\ (\A j \in 1..n : c[j] = s[j]) /\ c[n + 1] = a  BY AppendIs
<1>. HIDE DEF c
<1>4. IsSeq(Append(c, b)) /\ Len(Append(c, b)) = Len(c) + 1
      /\ (\A j \in 1..Len(c) : Append(c, b)[j] = c[j]) /\ Append(c, b)[Len(c) + 1] = b
  BY <1>3, AppendIs
<1>5. r = Append(c, b)  BY DEF c
<1>. HIDE DEF l, r, t, n
<1>6. IsSeq(r) /\ Len(r) = n + 2 /\ (\A j \in 1..n : r[j] = s[j]) /\ r[n + 1] = a /\ r[n + 2] = b
  <2>1. /\ n + 1 \in 1..Len(c) /\ Len(c) + 1 = n + 2
        /\ \A j \in 1..n : j \in 1..Len(c)
    BY <1>1, <1>3
  <2>. QED BY <1>3, <1>4, <1>5, <2>1
<1>7. ASSUME NEW i \in 1..(n + 2) PROVE l[i] = r[i]
  <2>1. CASE i <= n  BY <1>1, <1>2, <1>6, <2>1
  <2>2. CASE i = n + 1
    <3>1. ~(i <= n) /\ i - n = 1  BY <1>1, <2>2
    <3>. QED BY <1>1, <1>2, <1>6, <2>2, <3>1
  <2>3. CASE i = n + 2
    <3>1. ~(i <= n) /\ i - n = 2  BY <1>1, <2>3
    <3>. QED BY <1>1, <1>2, <1>6, <2>3, <3>1
  <2>. QED BY <1>1, <2>1, <2>2, <2>3
<1>8. l = r  BY <1>2, <1>6, <1>7, SameSeq
<1>. QED BY <1>8 DEF l, r, t

\* What Intact counts.
UnitsOf(laid) == FlattenSeq([i \in DOMAIN laid |-> laid[i].places])
IntactOf(laid, copies) ==
  LET units == UnitsOf(laid)
      good(k) == k \in DOMAIN units /\
          copies[k] = [from |-> units[k].from, len |-> units[k].len, got |-> units[k].len]
  IN CHOOSE n \in 0..Len(copies) :
        (\A k \in 1..n : good(k)) /\ (n < Len(copies) => ~good(n + 1))

\* There is one such number.
LEMMA IntactIs ==
  ASSUME NEW laid, NEW copies, NEW m, IsSeq(UnitsOf(laid)), Agree(copies, UnitsOf(laid), m)
  PROVE  IntactOf(laid, copies) = m
<1>. DEFINE units == UnitsOf(laid)
            good(k) == k \in DOMAIN units /\
                copies[k] = [from |-> units[k].from, len |-> units[k].len, got |-> units[k].len]
            P(n) == (\A k \in 1..n : good(k)) /\ (n < Len(copies) => ~good(n + 1))
<1>1. IntactOf(laid, copies) = CHOOSE n \in 0..Len(copies) : P(n)  BY DEF IntactOf
<1>2. DOMAIN units = 1..Len(units) /\ Len(units) \in Nat /\ Len(copies) \in Nat
  BY SeqFacts DEF Agree
<1>3. \A k : good(k) <=> k \in 1..Len(units) /\ Good(copies[k], units[k])
  BY <1>2 DEF Good
<1>. HIDE DEF good, units
<1>4. m \in 0..Len(copies) /\ P(m)
  <2>1. /\ m \in 0..Len(copies) /\ m <= Len(units)
        /\ \A j \in 1..m : Good(copies[j], units[j])
        /\ m < Len(copies) => ~(m + 1 <= Len(units) /\ Good(copies[m + 1], units[m + 1]))
    BY DEF Agree, units
  <2>2. \A j \in 1..m : j \in 1..Len(units)  BY <1>2, <2>1
  <2>3. m + 1 \in 1..Len(units) => m + 1 <= Len(units)  BY <1>2
  <2>. QED BY <1>3, <2>1, <2>2, <2>3
<1>5. ASSUME NEW n \in 0..Len(copies), P(n) PROVE n = m
  <2>1. ~(n < m)
    <3>1. ASSUME n < m PROVE FALSE
      <4>1. n + 1 \in 1..m /\ n < Len(copies)  BY <1>2, <1>4, <3>1
      <4>. QED BY <1>4, <1>5, <4>1
    <3>. QED BY <3>1
  <2>2. ~(m < n)
    <3>1. ASSUME m < n PROVE FALSE
      <4>1. m + 1 \in 1..n /\ m < Len(copies)  BY <1>2, <1>4, <3>1
      <4>. QED BY <1>4, <1>5, <4>1
    <3>. QED BY <3>1
  <2>. QED BY <1>2, <1>4, <2>1, <2>2
<1>. HIDE DEF P
<1>. QED BY <1>1, <1>4, <1>5

\* What stands for the other variables of Demux.
ListedOf(laid, listed) == IF RegularIn(laid) THEN Len(listed) ELSE 0
OwedOf(laid, listed, copies) ==
  IF RegularIn(laid) THEN UnitsOfFirst(laid, Len(listed)) - IntactOf(laid, copies) ELSE 0
DamagedOf(laid, copies) == RegularIn(laid) /\ Len(copies) > IntactOf(laid, copies)

\* How many units the first k tags carry.
UnitsUpto(tags, k) == Count(tags, TRUE, k)

\* What they are.
LEMMA ValuesAre ==
  ASSUME NEW tags \in Seq(Tags), NEW laid, LaidOut(laid, tags, TRUE), RegularIn(laid),
         NEW listed, Len(listed) \in 0..Len(tags), NEW copies, NEW m, Agree(copies, All(tags), m)
  PROVE  /\ ListedOf(laid, listed) = Len(listed)
         /\ OwedOf(laid, listed, copies) = UnitsUpto(tags, Len(listed)) - m
         /\ DamagedOf(laid, copies) <=> Len(copies) > m
<1>0. TRUE \in BOOLEAN  OBVIOUS
<1>1. UnitsOf(laid) = All(tags)
  <2>1. DOMAIN laid = 1..Len(tags) /\ DOMAIN tags = 1..Len(tags)
    BY LenProperties DEF LaidOut
  <2>2. \A i \in 1..Len(tags) : laid[i].places = Places(tags[i], At(tags, TRUE, i))
    BY DEF LaidOut
  <2>3. [i \in DOMAIN laid |-> laid[i].places] = Placed(tags, TRUE)
    BY <2>1, <2>2 DEF Placed
  <2>. QED BY <2>3 DEF UnitsOf, All
<1>2. IsSeq(UnitsOf(laid))  BY <1>0, <1>1, CountIs DEF All
<1>3. IntactOf(laid, copies) = m  BY <1>1, <1>2, IntactIs
<1>4. UnitsOfFirst(laid, Len(listed)) = UnitsUpto(tags, Len(listed))
  BY <1>0, UnitsCounted DEF UnitsUpto
<1>5. DamagedOf(laid, copies) <=> Len(copies) > m  BY <1>3 DEF DamagedOf
<1>. QED BY <1>3, <1>4, <1>5 DEF ListedOf, OwedOf

\* The steps of Demux, in those terms.
CountsStay == Counts(sent)' = Counts(sent)

\* Intact is the number they stand for.
LEMMA IntactDefined == Intact = IntactOf(sent, h264) /\ Intact' = IntactOf(sent', h264')
BY DEF Intact, IntactOf, Units, UnitsOf

\* A step that changes none of them is no step of Demux.
LEMMA DemuxStutters ==
  ASSUME CountsStay, ListedOf(sent, vFlvTag)' = ListedOf(sent, vFlvTag),
         OwedOf(sent, vFlvTag, h264)' = OwedOf(sent, vFlvTag, h264),
         DamagedOf(sent, h264)' = DamagedOf(sent, h264),
         phase' = "done" <=> phase = "done"
  PROVE  UNCHANGED D!vars
<1>1. (phase = "done")' = (phase = "done")  OBVIOUS
<1>. QED BY <1>1, IntactDefined, Zenon
     DEF D!vars, CountsStay, Counts, ListedOf, OwedOf, DamagedOf, RegularIn, AllRegular

\* One that only ends is Finish,
LEMMA DemuxFinishes ==
  ASSUME CountsStay, ListedOf(sent, vFlvTag)' = ListedOf(sent, vFlvTag),
         OwedOf(sent, vFlvTag, h264)' = OwedOf(sent, vFlvTag, h264),
         DamagedOf(sent, h264)' = DamagedOf(sent, h264),
         phase # "done", phase' = "done"
  PROVE  D!Finish
<1>1. (phase = "done")' = TRUE  OBVIOUS
<1>. QED BY <1>1, IntactDefined, Zenon
     DEF D!Finish, CountsStay, Counts, ListedOf, OwedOf, DamagedOf, RegularIn, AllRegular

\* one more tag listed, and its units owed, is ListTag,
LEMMA DemuxLists ==
  ASSUME CountsStay, phase # "done", OwedOf(sent, vFlvTag, h264) = 0, ~DamagedOf(sent, h264),
         DamagedOf(sent, h264)' = DamagedOf(sent, h264),
         ListedOf(sent, vFlvTag) < Len(Counts(sent)),
         ListedOf(sent, vFlvTag)' = ListedOf(sent, vFlvTag) + 1,
         OwedOf(sent, vFlvTag, h264)' = Counts(sent)[ListedOf(sent, vFlvTag) + 1]
  PROVE  D!ListTag
<1>1. (phase = "done")' \in BOOLEAN  OBVIOUS
<1>. QED BY <1>1, IntactDefined, Zenon
     DEF D!ListTag, D!Ready, CountsStay, Counts, ListedOf, OwedOf, DamagedOf, RegularIn, AllRegular

\* one more listed, of whose units some may be damaged, is ListAndCopy,
LEMMA DemuxListsAndCopies ==
  ASSUME CountsStay, phase # "done", phase' # "done",
         OwedOf(sent, vFlvTag, h264) = 0, ~DamagedOf(sent, h264),
         ListedOf(sent, vFlvTag) < Len(Counts(sent)),
         ListedOf(sent, vFlvTag)' = ListedOf(sent, vFlvTag) + 1,
         OwedOf(sent, vFlvTag, h264)' \in 0..Counts(sent)[ListedOf(sent, vFlvTag) + 1],
         DamagedOf(sent, h264)' = (OwedOf(sent, vFlvTag, h264)' > 0)
  PROVE  D!ListAndCopy
<1>1. (phase = "done")' = (phase = "done")  OBVIOUS
<1>. QED BY <1>1, IntactDefined, Zenon
     DEF D!ListAndCopy, D!Ready, CountsStay, Counts, ListedOf, OwedOf, DamagedOf, RegularIn, AllRegular

\* one unit less owed is CopyUnit,
LEMMA DemuxCopies ==
  ASSUME CountsStay, phase # "done", phase' # "done",
         ListedOf(sent, vFlvTag)' = ListedOf(sent, vFlvTag),
         OwedOf(sent, vFlvTag, h264) > 0, ~DamagedOf(sent, h264),
         DamagedOf(sent, h264)' = DamagedOf(sent, h264),
         OwedOf(sent, vFlvTag, h264)' = OwedOf(sent, vFlvTag, h264) - 1
  PROVE  D!CopyUnit
<1>1. (phase = "done")' = (phase = "done")  OBVIOUS
<1>. QED BY <1>1, IntactDefined, Zenon
     DEF D!CopyUnit, D!Ready, CountsStay, Counts, ListedOf, OwedOf, DamagedOf, RegularIn, AllRegular

\* and none less, but one damaged, is Damage.
LEMMA DemuxDamages ==
  ASSUME CountsStay, phase # "done", phase' # "done",
         ListedOf(sent, vFlvTag)' = ListedOf(sent, vFlvTag),
         OwedOf(sent, vFlvTag, h264) > 0, ~DamagedOf(sent, h264),
         DamagedOf(sent, h264)' = TRUE,
         OwedOf(sent, vFlvTag, h264)' = OwedOf(sent, vFlvTag, h264)
  PROVE  D!Damage
<1>1. (phase = "done")' = (phase = "done")  OBVIOUS
<1>. QED BY <1>1, IntactDefined, Zenon
     DEF D!Damage, D!Ready, CountsStay, Counts, ListedOf, OwedOf, DamagedOf, RegularIn, AllRegular

\* What they are at a step through a regular recording, of whose copies m are intact before
\* it and n behind it.
Measured(tags, m, n) ==
  /\ CountsStay
  /\ Len(Counts(sent)) = Len(tags)
  /\ \A i \in 1..Len(tags) : Counts(sent)[i] = Len(Places(tags[i], TagAt(tags, i)))
  /\ ListedOf(sent, vFlvTag) = Len(vFlvTag)
  /\ OwedOf(sent, vFlvTag, h264) = UnitsUpto(tags, Len(vFlvTag)) - m
  /\ DamagedOf(sent, h264) <=> Len(h264) > m
  /\ ListedOf(sent, vFlvTag)' = Len(vFlvTag')
  /\ OwedOf(sent, vFlvTag, h264)' = UnitsUpto(tags, Len(vFlvTag')) - n
  /\ DamagedOf(sent, h264)' <=> Len(h264') > n

\* That is what they are.
LEMMA MeasuredIs ==
  ASSUME NEW tags, Holds(tags), Regulars(tags), sent' = sent,
         Len(vFlvTag) \in 0..Len(tags), Len(vFlvTag') \in 0..Len(tags),
         NEW m, Agree(h264, All(tags), m), NEW n, Agree(h264', All(tags), n)
  PROVE  Measured(tags, m, n)
<1>1. tags \in Seq(Tags) /\ TRUE \in BOOLEAN /\ LaidOut(sent, tags, TRUE)  BY DEF Holds
<1>2. RegularIn(sent)  BY SentIs DEF RegularIn, Regulars
<1>4. /\ Len(Counts(sent)) = Len(tags)
      /\ \A i \in 1..Len(tags) : Counts(sent)[i] = Len(Places(tags[i], TagAt(tags, i)))
  BY <1>1, <1>2, CountsAre DEF TagAt
<1>5. /\ ListedOf(sent, vFlvTag) = Len(vFlvTag)
      /\ OwedOf(sent, vFlvTag, h264) = UnitsUpto(tags, Len(vFlvTag)) - m
      /\ DamagedOf(sent, h264) <=> Len(h264) > m
  BY <1>1, <1>2, ValuesAre
<1>6. /\ ListedOf(sent, vFlvTag') = Len(vFlvTag')
      /\ OwedOf(sent, vFlvTag', h264') = UnitsUpto(tags, Len(vFlvTag')) - n
      /\ DamagedOf(sent, h264') <=> Len(h264') > n
  BY <1>1, <1>2, ValuesAre
<1>. QED BY <1>4, <1>5, <1>6 DEF Measured, CountsStay

\* Of a regular recording every copy is a unit as it is, and the parser is where those end,
InUnits(tags, k) ==
  /\ tags[Len(vFlvTag)].kind = "nalus" /\ k \in 0..Len(tags[Len(vFlvTag)].units)
  /\ Len(h264) = UnitsUpto(tags, Len(vFlvTag) - 1) + k
  /\ countsize = Lot(tags[Len(vFlvTag)].units, k)
  /\ pos = TagAt(tags, Len(vFlvTag)) + 11 + Lot(tags[Len(vFlvTag)].units, k)

Clean(tags) ==
  /\ Agree(h264, All(tags), Len(h264))
  /\ phase \in {"head", "tag", "previous"} => Len(h264) = UnitsUpto(tags, Len(vFlvTag))
  /\ phase = "nalu" => \E k : InUnits(tags, k)

\* or one is not, and then nothing of the file is left.
Broken(tags) ==
  /\ \E m : m < Len(h264) /\ Agree(h264, All(tags), m)
  /\ phase \in {"nalu", "previous", "done", "stray"}
  /\ phase # "done" => pos \in Nat /\ pos >= EndOfFile

Copies(tags) == Clean(tags) \/ Broken(tags)

\* What a step has to show.
Demuxed == D!Next \/ UNCHANGED D!vars

\* The units of a tag among all.
LEMMA UnitsNext ==
  ASSUME NEW tags, Holds(tags), NEW n \in 1..Len(tags),
         NEW t, t = tags[n], NEW p, p = TagAt(tags, n)
  PROVE  /\ UnitsUpto(tags, n - 1) \in Nat /\ UnitsUpto(tags, n) \in Nat
         /\ Len(All(tags)) \in Nat /\ IsSeq(All(tags)) /\ Len(Places(t, p)) \in Nat
         /\ UnitsUpto(tags, n) = UnitsUpto(tags, n - 1) + Len(Places(t, p))
         /\ UnitsUpto(tags, n) <= Len(All(tags))
         /\ \A j \in 1..Len(Places(t, p)) :
              All(tags)[UnitsUpto(tags, n - 1) + j] = Places(t, p)[j]
<1>0. tags \in Seq(Tags) /\ TRUE \in BOOLEAN /\ Len(tags) \in Nat  BY DEF Holds
<1>1. n - 1 \in 0..(Len(tags) - 1) /\ n - 1 \in 0..Len(tags) /\ n \in 0..Len(tags) /\ (n - 1) + 1 = n
  BY <1>0
<1>2. tags[n] \in Tags /\ At(tags, TRUE, n) \in Nat  BY <1>0, PlacedPieced
<1>3. Len(Places(tags[n], At(tags, TRUE, n))) \in Nat  BY <1>2, PlacesAre
<1>4. Len(All(tags)) \in Nat /\ IsSeq(All(tags))  BY <1>0, CountIs, SeqFacts DEF All
<1>5. ThoseNext(tags, TRUE, n - 1, Places(tags[(n - 1) + 1], At(tags, TRUE, (n - 1) + 1)))
  BY <1>0, <1>1, CountIs
<1>6. ThoseNext(tags, TRUE, n - 1, Places(tags[n], At(tags, TRUE, n)))  BY <1>1, <1>5
<1>7. p = At(tags, TRUE, n)  BY DEF TagAt
<1>8. UnitsUpto(tags, n - 1) \in Nat /\ UnitsUpto(tags, n) \in Nat  BY <1>0, <1>1, CountIs DEF UnitsUpto
<1>. QED BY <1>1, <1>3, <1>4, <1>6, <1>7, <1>8 DEF ThoseNext, All, UnitsUpto

\* How many tags are listed.
LEMMA ListedNumber ==
  ASSUME NEW tags, Holds(tags), Where(tags), phase \in {"head", "tag", "nalu", "previous"}
  PROVE  Len(vFlvTag) \in 0..Len(tags) /\ Len(tags) \in Nat
<1>1. Len(tags) \in Nat  BY DEF Holds
<1>2. CASE phase = "head"  BY <1>1, <1>2, EmptyIs DEF Where
<1>3. CASE phase = "tag"  BY <1>1, <1>3 DEF Where, AtTag
<1>4. CASE phase \in {"nalu", "previous"}
  <2>1. Len(vFlvTag) \in 1..Len(tags)  BY <1>4 DEF Where, InTag
  <2>. QED BY <1>1, <2>1
<1>. QED BY <1>2, <1>3, <1>4

\* A step that lists and copies nothing is no step of Demux, or the last.
LEMMA QuietSteps ==
  ASSUME NEW tags, Holds(tags), Regulars(tags), Where(tags), Copies(tags), Same,
         phase \in {"head", "tag", "nalu", "previous"}, h264' = h264, vFlvTag' = vFlvTag
  PROVE  Demuxed
<1>1. Len(vFlvTag) \in 0..Len(tags) /\ Len(vFlvTag') \in 0..Len(tags)  BY ListedNumber
<1>2. PICK m : Agree(h264, All(tags), m)  BY DEF Copies, Clean, Broken
<1>3. Agree(h264', All(tags), m) /\ sent' = sent  BY <1>2 DEF Same
<1>4. Measured(tags, m, m)  BY <1>1, <1>2, <1>3, MeasuredIs
<1>5. /\ CountsStay /\ ListedOf(sent, vFlvTag)' = ListedOf(sent, vFlvTag)
      /\ OwedOf(sent, vFlvTag, h264)' = OwedOf(sent, vFlvTag, h264)
  BY <1>4 DEF Measured
<1>6. DamagedOf(sent, h264)' <=> DamagedOf(sent, h264)  BY <1>4 DEF Measured
<1>7. DamagedOf(sent, h264)' = DamagedOf(sent, h264)  BY <1>6 DEF DamagedOf
<1>8. CASE phase' = "done"  BY <1>5, <1>7, <1>8, DemuxFinishes DEF Demuxed, D!Next
<1>9. CASE phase' # "done"  BY <1>5, <1>7, <1>9, DemuxStutters DEF Demuxed
<1>. QED BY <1>8, <1>9

\* Where a step that copies nothing may lead.
LEMMA ToDone ==
  ASSUME NEW tags, Copies(tags), h264' = h264, phase' = "done"
  PROVE  Copies(tags)'
<1>1. CASE Clean(tags)  BY <1>1 DEF Clean, Copies
<1>2. CASE Broken(tags)  BY <1>2 DEF Broken, Copies
<1>. QED BY <1>1, <1>2 DEF Copies

\* No step in front of a tag follows damage.
LEMMA FrontClean ==
  ASSUME NEW tags, Copies(tags), phase \in {"head", "tag"}
  PROVE  Clean(tags) /\ Len(h264) = UnitsUpto(tags, Len(vFlvTag))
BY DEF Copies, Clean, Broken

\* The parser in front of a tag that it lists.
LEMMA InFront ==
  ASSUME NEW tags, Holds(tags), NEW k, NEW t, NEW p, NEW type, Listed(tags, k, t, p, type),
         Where(tags), phase = "tag", Clean(tags), Regulars(tags)
  PROVE  /\ k \in 1..Len(tags) /\ Len(tags) \in Nat /\ Len(vFlvTag) = k - 1 /\ Len(vFlvTag') = k
         /\ Len(vFlvTag) \in 0..Len(tags) /\ k \in 0..Len(tags) /\ Len(vFlvTag) + 1 = k
         /\ t = tags[k] /\ p = TagAt(tags, k) /\ p \in Nat /\ t \in Tags /\ Regular(t)
         /\ Len(h264) = UnitsUpto(tags, k - 1)
         /\ Agree(h264, All(tags), Len(h264)) /\ Len(h264) \in Nat
         /\ UnitsUpto(tags, k - 1) \in Nat /\ Len(Places(t, p)) \in Nat
         /\ UnitsUpto(tags, k) = UnitsUpto(tags, k - 1) + Len(Places(t, p))
<1>1. /\ k \in 1..Len(tags) /\ Len(vFlvTag') = k /\ t = tags[k]
      /\ p = TagAt(tags, k) /\ p \in Nat /\ t \in Tags /\ k = Len(vFlvTag) + 1
  BY DEF Listed
<1>2. Len(tags) \in Nat  BY DEF Holds
<1>3. Regular(t)  BY <1>1 DEF Regulars
<1>4. /\ Agree(h264, All(tags), Len(h264)) /\ Len(h264) = UnitsUpto(tags, Len(vFlvTag))
      /\ Len(h264) \in Nat
  <2>1. Agree(h264, All(tags), Len(h264)) /\ Len(h264) = UnitsUpto(tags, Len(vFlvTag))
    BY DEF Clean
  <2>2. IsSeq(h264)  BY <2>1 DEF Agree
  <2>. QED BY <2>1, <2>2, SeqFacts
<1>5. /\ UnitsUpto(tags, k - 1) \in Nat /\ Len(Places(t, p)) \in Nat
      /\ UnitsUpto(tags, k) = UnitsUpto(tags, k - 1) + Len(Places(t, p))
  <2>1. k \in 1..Len(tags) /\ p = TagAt(tags, k) /\ t = tags[k]  BY <1>1
  <2>. QED BY <2>1, UnitsNext
<1>6. Len(vFlvTag) \in 0..Len(tags) /\ Len(vFlvTag) = k - 1 /\ Len(vFlvTag) + 1 = k
      /\ k \in 0..Len(tags)
  <2>1. Len(vFlvTag) \in 0..Len(tags)  BY ListedNumber
  <2>. QED BY <1>1, <1>2, <2>1
<1>7. Len(h264) = UnitsUpto(tags, k - 1)  BY <1>4, <1>6
<1>8. /\ k \in 1..Len(tags) /\ Len(vFlvTag') = k /\ t = tags[k] /\ p = TagAt(tags, k)
      /\ p \in Nat /\ t \in Tags
  BY <1>1
<1>. QED BY <1>2, <1>3, <1>4, <1>5, <1>6, <1>7, <1>8, Zenon

\* A tag is listed, and nothing copied.
LEMMA ListSteps ==
  ASSUME NEW tags, Holds(tags), Regulars(tags), Where(tags), Copies(tags), Same,
         NEW type, PushTag(type), h264' = h264
  PROVE  D!ListTag
<1>1. Telling(tags)  BY DEF Telling
<1>2. PICK k, t, p : Listed(tags, k, t, p, type)  BY <1>1, TagListed
<1>3. phase = "tag"  BY DEF PushTag
<1>4. Clean(tags) /\ Len(h264) = UnitsUpto(tags, Len(vFlvTag))  BY <1>3, FrontClean
<1>5. /\ k \in 1..Len(tags) /\ Len(tags) \in Nat /\ Len(vFlvTag) = k - 1 /\ Len(vFlvTag') = k
      /\ Len(vFlvTag) \in 0..Len(tags) /\ k \in 0..Len(tags) /\ Len(vFlvTag) + 1 = k
      /\ t = tags[k] /\ p = TagAt(tags, k)
      /\ Len(h264) = UnitsUpto(tags, k - 1)
      /\ Agree(h264, All(tags), Len(h264)) /\ Len(h264) \in Nat
      /\ UnitsUpto(tags, k - 1) \in Nat /\ Len(Places(t, p)) \in Nat
      /\ UnitsUpto(tags, k) = UnitsUpto(tags, k - 1) + Len(Places(t, p))
  BY <1>2, <1>3, <1>4, InFront
<1>. DEFINE m == Len(h264)
<1>6. Measured(tags, m, m)
  <2>1. Agree(h264', All(tags), m) /\ sent' = sent  BY <1>5 DEF Same
  <2>2. Agree(h264, All(tags), m) /\ Len(vFlvTag') \in 0..Len(tags)  BY <1>5
  <2>3. Len(vFlvTag) \in 0..Len(tags)  BY <1>5
  <2>. HIDE DEF m
  <2>. QED BY <2>1, <2>2, <2>3, MeasuredIs
<1>7. ~DamagedOf(sent, h264) /\ ~DamagedOf(sent, h264)'
  <2>1. /\ DamagedOf(sent, h264) <=> Len(h264) > m
        /\ DamagedOf(sent, h264)' <=> Len(h264') > m
    BY <1>6 DEF Measured
  <2>2. m \in Nat /\ Len(h264') = m /\ Len(h264) = m  BY <1>5
  <2>. HIDE DEF m
  <2>3. ~(m > m)  BY <2>2
  <2>. QED BY <2>1, <2>2, <2>3
<1>8. DamagedOf(sent, h264)' = DamagedOf(sent, h264)  BY <1>7 DEF DamagedOf
<1>9. /\ CountsStay /\ OwedOf(sent, vFlvTag, h264) = 0
      /\ ListedOf(sent, vFlvTag) < Len(Counts(sent)) /\ ListedOf(sent, vFlvTag) + 1 = k
      /\ ListedOf(sent, vFlvTag)' = ListedOf(sent, vFlvTag) + 1
  <2>1. /\ CountsStay /\ Len(Counts(sent)) = Len(tags)
        /\ ListedOf(sent, vFlvTag) = Len(vFlvTag) /\ ListedOf(sent, vFlvTag)' = Len(vFlvTag')
        /\ OwedOf(sent, vFlvTag, h264) = UnitsUpto(tags, Len(vFlvTag)) - m
    BY <1>6 DEF Measured
  <2>2. UnitsUpto(tags, Len(vFlvTag)) = m /\ m \in Nat  BY <1>4, <1>5
  <2>. HIDE DEF m
  <2>3. OwedOf(sent, vFlvTag, h264) = 0  BY <2>1, <2>2
  <2>. DEFINE l == Len(vFlvTag)
              n == Len(tags)
  <2>4. k \in 1..n /\ n \in Nat /\ l + 1 = k /\ Len(vFlvTag') = k /\ l \in 0..n
    BY <1>5
  <2>. HIDE DEF l, n
  <2>5. l < n  BY <2>4
  <2>. QED BY <2>1, <2>3, <2>4, <2>5 DEF l, n
<1>10. OwedOf(sent, vFlvTag, h264)' = Counts(sent)[k]
  <2>1. Counts(sent)[k] = Len(Places(t, p))  BY <1>5, <1>6 DEF Measured
  <2>2. OwedOf(sent, vFlvTag, h264)' = UnitsUpto(tags, k) - m  BY <1>5, <1>6 DEF Measured
  <2>. DEFINE c == UnitsUpto(tags, k - 1)
              l == Len(Places(t, p))
  <2>3. c = m /\ c \in Nat /\ l \in Nat /\ UnitsUpto(tags, k) = c + l  BY <1>5
  <2>. HIDE DEF c, l, m
  <2>4. UnitsUpto(tags, k) - m = l  BY <2>3
  <2>. QED BY <2>1, <2>2, <2>4 DEF l
<1>. QED BY <1>3, <1>7, <1>8, <1>9, <1>10, DemuxLists

\* One that carries no units leaves nothing to copy.
LEMMA UnitlessSteps ==
  ASSUME NEW tags, Holds(tags), Regulars(tags), Where(tags), Copies(tags), Same,
         NEW k, NEW t, NEW p, NEW type, Listed(tags, k, t, p, type), PushTag(type), h264' = h264,
         t.kind \notin {"nalus", "config"}, phase' \in {"tag", "previous", "done"}
  PROVE  Copies(tags)'
<1>1. phase = "tag"  BY DEF PushTag
<1>2. Clean(tags) /\ Len(h264) = UnitsUpto(tags, Len(vFlvTag))  BY <1>1, FrontClean
<1>3. /\ Len(vFlvTag') = k /\ t \in Tags /\ p \in Nat
      /\ Len(h264) = UnitsUpto(tags, k - 1) /\ Agree(h264, All(tags), Len(h264))
      /\ UnitsUpto(tags, k - 1) \in Nat
      /\ UnitsUpto(tags, k) = UnitsUpto(tags, k - 1) + Len(Places(t, p))
  BY <1>1, <1>2, InFront
<1>4. Places(t, p) = <<>>  BY <1>3, PlacesAre
<1>5. Len(h264') = UnitsUpto(tags, Len(vFlvTag'))
  <2>. DEFINE c == UnitsUpto(tags, k - 1)
              l == Len(Places(t, p))
  <2>1. Len(h264') = c /\ c \in Nat /\ UnitsUpto(tags, k) = c + l  BY <1>3
  <2>2. l = 0  BY <1>4, EmptyIs
  <2>. HIDE DEF c, l
  <2>3. UnitsUpto(tags, k) = c  BY <2>1, <2>2
  <2>. QED BY <1>3, <2>1, <2>3
<1>6. Clean(tags)'  BY <1>3, <1>5 DEF Clean
<1>. QED BY <1>6 DEF Copies

\* Tags that carry none.
LEMMA OtherTags ==
  ASSUME NEW tags, Holds(tags), Regulars(tags), Where(tags), Copies(tags),
         ScriptTag \/ AudioTag \/ CutVideoHeader \/ CommandFrame \/ OtherCodec
  PROVE  Copies(tags)' /\ Demuxed
<1>0. Same /\ h264' = h264 /\ Telling(tags)
  BY DEF ScriptTag, AudioTag, CutVideoHeader, CommandFrame, OtherCodec, VideoTag, PushTag, Same,
     Telling
<1>1. ASSUME NEW type, PushTag(type) PROVE Demuxed
  <2>1. D!ListTag  BY <1>0, <1>1, ListSteps
  <2>. QED BY <2>1 DEF Demuxed, D!Next
<1>2. CASE ScriptTag
  <2>1. PushTag(18) /\ phase' = "tag"  BY <1>2 DEF ScriptTag, PushTag
  <2>2. PICK k, t, p : Listed(tags, k, t, p, 18)  BY <1>0, <2>1, TagListed
  <2>3. t.kind = "script"  BY <2>2, TypesTell DEF Listed
  <2>. QED BY <1>0, <1>1, <2>1, <2>2, <2>3, UnitlessSteps
<1>3. CASE AudioTag
  <2>1. PushTag(8) /\ phase' \in {"previous", "done"}  BY <1>3 DEF AudioTag, Finish
  <2>2. PICK k, t, p : Listed(tags, k, t, p, 8)  BY <1>0, <2>1, TagListed
  <2>3. t.kind = "audio"  BY <2>2, TypesTell DEF Listed
  <2>. QED BY <1>0, <1>1, <2>1, <2>2, <2>3, UnitlessSteps
<1>4. CASE CutVideoHeader
  <2>1. PushTag(9) /\ phase' = "done"  BY <1>4 DEF CutVideoHeader, Finish
  <2>. QED BY <1>0, <1>1, <2>1, ToDone
<1>5. CASE CommandFrame
  <2>1. VideoTag /\ PushTag(9) /\ phase' \in {"previous", "done"}
    BY <1>5 DEF CommandFrame, VideoTag, Finish
  <2>2. PICK k, t, p : Listed(tags, k, t, p, 9) /\ p + 16 <= EndOfFile
    BY <1>0, <2>1, VideoListed
  <2>3. p = pos  BY <2>2 DEF Listed
  <2>4. t.kind = "command"  BY <1>5, <2>2, <2>3, HeadSeen DEF CommandFrame
  <2>. QED BY <1>0, <1>1, <2>1, <2>2, <2>4, UnitlessSteps
<1>6. CASE OtherCodec
  <2>1. VideoTag /\ PushTag(9) /\ phase' = "previous"  BY <1>6 DEF OtherCodec, VideoTag
  <2>2. PICK k, t, p : Listed(tags, k, t, p, 9) /\ p + 16 <= EndOfFile
    BY <1>0, <2>1, VideoListed
  <2>3. p = pos  BY <2>2 DEF Listed
  <2>4. t.kind = "h263"  BY <1>6, <2>2, <2>3, HeadSeen DEF OtherCodec
  <2>. QED BY <1>0, <1>1, <2>1, <2>2, <2>4, UnitlessSteps
<1>. QED BY <1>2, <1>3, <1>4, <1>5, <1>6

\* Units, of which none is copied yet.
LEMMA UnitsBegin ==
  ASSUME NEW tags, Holds(tags), Regulars(tags), Where(tags), Copies(tags), Nalus
  PROVE  Copies(tags)' /\ Demuxed
<1>1. /\ Same /\ h264' = h264 /\ Telling(tags) /\ VideoTag /\ PushTag(9) /\ phase = "tag"
      /\ phase' = "nalu" /\ pos' = pos + 16 /\ countsize' = 5
  BY DEF Nalus, VideoTag, PushTag, Same, Telling
<1>2. PICK k, t, p : Listed(tags, k, t, p, 9) /\ p + 16 <= EndOfFile  BY <1>1, VideoListed
<1>3. p = pos  BY <1>2 DEF Listed
<1>4. t.kind \in UnitKinds  BY <1>2, <1>3, HeadSeen DEF Nalus
<1>5. Clean(tags) /\ Len(h264) = UnitsUpto(tags, Len(vFlvTag))  BY <1>1, FrontClean
<1>6. /\ Len(vFlvTag') = k /\ t \in Tags /\ t = tags[k] /\ Regular(t) /\ p \in Nat
      /\ p = TagAt(tags, k)
      /\ Len(h264) = UnitsUpto(tags, k - 1) /\ Agree(h264, All(tags), Len(h264))
      /\ UnitsUpto(tags, k - 1) \in Nat
  BY <1>1, <1>2, <1>5, InFront
<1>7. t.kind = "nalus"  BY <1>4, <1>6 DEF UnitKinds, Regular
<1>8. t.units \in Seq(Nat) /\ Len(t.units) \in Nat  BY <1>6, TagsAre, LenProperties
<1>9. Lot(t.units, 0) = 5  BY <1>8, LotGrows
<1>10. InUnits(tags, 0)'
  <2>1. 0 \in 0..Len(t.units) /\ Len(h264') = UnitsUpto(tags, k - 1) + 0
        /\ pos' = p + 11 + Lot(t.units, 0)
    <3>. DEFINE c == UnitsUpto(tags, k - 1)
    <3>1. Len(h264') = c /\ c \in Nat  BY <1>1, <1>6
    <3>. HIDE DEF c
    <3>2. Len(h264') = c + 0  BY <3>1
    <3>3. pos' = p + 11 + Lot(t.units, 0)  BY <1>1, <1>3, <1>6, <1>9
    <3>4. 0 \in 0..Len(t.units)  BY <1>8
    <3>. QED BY <3>2, <3>3, <3>4 DEF c
  <2>. QED BY <1>1, <1>6, <1>7, <1>9, <2>1 DEF InUnits
<1>11. Clean(tags)'  BY <1>1, <1>6, <1>10 DEF Clean
<1>12. D!ListTag  BY <1>1, ListSteps
<1>. QED BY <1>11, <1>12 DEF Copies, Demuxed, D!Next

\* Two more copies: both as they are, or damaged from the first or the second on.
LEMMA TwoMore ==
  ASSUME NEW copies, NEW units, NEW c, c \in Nat, c = Len(copies), Agree(copies, units, c),
         Len(units) \in Nat, c + 2 <= Len(units), NEW a, NEW b
  PROVE  /\ Len(copies \o <<a, b>>) = c + 2
         /\ \/ /\ Good(a, units[c + 1]) /\ Good(b, units[c + 2])
               /\ Agree(copies \o <<a, b>>, units, c + 2)
            \/ /\ ~(Good(a, units[c + 1]) /\ Good(b, units[c + 2]))
               /\ \E n \in c..(c + 1) : Agree(copies \o <<a, b>>, units, n)
<1>. DEFINE s == Append(copies, a)
            r == Append(s, b)
<1>1. IsSeq(copies) /\ Agree(copies, units, Len(copies))  BY DEF Agree
<1>2. copies \o <<a, b>> = r  BY <1>1, TwoAppended
<1>3. IsSeq(s) /\ Len(s) = c + 1 /\ IsSeq(r) /\ Len(r) = Len(s) + 1  BY <1>1, AppendIs
<1>. HIDE DEF s, r
<1>4. CASE Good(a, units[c + 1])
  <2>1. Agree(s, units, c + 1)
    <3>1. Len(copies) + 1 <= Len(units) /\ Good(a, units[Len(copies) + 1])  BY <1>4
    <3>. QED BY <1>1, <3>1, OneMore DEF s
  <2>2. CASE Good(b, units[c + 2])
    <3>1. Agree(s, units, Len(s))  BY <1>3, <2>1
    <3>2. Len(s) + 1 = c + 2  BY <1>3
    <3>3. Len(s) + 1 <= Len(units) /\ Good(b, units[Len(s) + 1])  BY <2>2, <3>2
    <3>4. Agree(r, units, Len(s) + 1)  BY <3>1, <3>3, OneMore DEF r
    <3>. QED BY <1>2, <1>3, <1>4, <2>2, <3>2, <3>4
  <2>3. CASE ~Good(b, units[c + 2])
    <3>1. Agree(s, units, Len(s))  BY <1>3, <2>1
    <3>2. Len(s) + 1 = c + 2  BY <1>3
    <3>3. ~Good(b, units[Len(s) + 1])  BY <2>3, <3>2
    <3>4. Agree(r, units, Len(s))  BY <3>1, <3>3, OneDamaged DEF r
    <3>5. Len(s) \in c..(c + 1)  BY <1>3
    <3>. QED BY <1>2, <1>3, <2>3, <3>2, <3>4, <3>5
  <2>. QED BY <2>2, <2>3
<1>5. CASE ~Good(a, units[c + 1])
  <2>1. Agree(s, units, c)  BY <1>1, <1>5, OneDamaged DEF s
  <2>2. c < Len(s)  BY <1>3
  <2>3. Agree(r, units, c)  BY <2>1, <2>2, MoreDamaged DEF r
  <2>4. c \in c..(c + 1) /\ Len(r) = c + 2  BY <1>3
  <2>. QED BY <1>2, <1>5, <2>3, <2>4
<1>. QED BY <1>4, <1>5

\* Sets that are there are copied as they are.
LEMMA SetsGood ==
  ASSUME IsSeq(file), EndOfFile \in Nat, NEW s \in Nat, NEW m \in Nat, NEW n \in Nat,
         SetsAt(s, m, n), s + 5 + m + n <= EndOfFile
  PROVE  /\ Good(Unit(SpsAt(s), SpsSize(s)), UnitAt(s + 2, m))
         /\ Good(Unit(PpsAt(s), PpsSize(s)), UnitAt(s + 5 + m, n))
<1>1. SpsSize(s) = m /\ SpsAt(s) = s + 2
  <2>1. s + 2 <= EndOfFile  OBVIOUS
  <2>. QED BY <2>1, FirstSet
<1>2. PpsSize(s) = n /\ PpsAt(s) = s + 5 + m
  <2>1. s + 5 + m <= EndOfFile  OBVIOUS
  <2>. QED BY <2>1, SecondSet
<1>3. Got(s + 2, m) = m
  <2>1. s + 2 \in Nat /\ (s + 2) + m <= EndOfFile  OBVIOUS
  <2>. QED BY <2>1, Reads
<1>4. Got(s + 5 + m, n) = n
  <2>1. s + 5 + m \in Nat /\ (s + 5 + m) + n <= EndOfFile  OBVIOUS
  <2>. QED BY <2>1, Reads
<1>. QED BY <1>1, <1>2, <1>3, <1>4 DEF Good, Unit, UnitAt

\* A parameter record is listed and copied in one go.
LEMMA SetsCopied ==
  ASSUME NEW tags, Holds(tags), Regulars(tags), Where(tags), Copies(tags), SequenceHeader
  PROVE  Copies(tags)' /\ Demuxed
<1>. DEFINE s == pos + 22
            a == Unit(SpsAt(s), SpsSize(s))
            b == Unit(PpsAt(s), PpsSize(s))
<1>1. /\ VideoTag /\ PushTag(9) /\ Same /\ Telling(tags) /\ phase = "tag" /\ phase' = "previous"
      /\ h264' = h264 \o <<a, b>> /\ pos' = SetsEnd(s)
  BY DEF SequenceHeader, VideoTag, PushTag, Same, Telling, SetsEnd, PpsAt, PpsSize, PpsSizeAt,
         PpsNum, PpsNumAt, SpsAt, SpsSize
<1>2. PICK k, t, p : Listed(tags, k, t, p, 9) /\ p + 16 <= EndOfFile  BY <1>1, VideoListed
<1>3. p = pos /\ Lies(t, p) /\ IsSeq(file) /\ EndOfFile \in Nat
  BY <1>2 DEF Listed, Ahead, Holds
<1>4. t.kind \in SetKinds  BY <1>2, <1>3, HeadSeen DEF SequenceHeader
<1>5. Clean(tags) /\ Len(h264) = UnitsUpto(tags, Len(vFlvTag))  BY <1>1, FrontClean
<1>6. /\ k \in 1..Len(tags) /\ Len(tags) \in Nat /\ Len(vFlvTag') = k
      /\ Len(vFlvTag) \in 0..Len(tags) /\ k \in 0..Len(tags) /\ Len(vFlvTag) + 1 = k
      /\ t = tags[k] /\ p = TagAt(tags, k) /\ p \in Nat /\ t \in Tags /\ Regular(t)
      /\ Len(h264) = UnitsUpto(tags, k - 1)
      /\ Agree(h264, All(tags), Len(h264)) /\ Len(h264) \in Nat
      /\ UnitsUpto(tags, k) = UnitsUpto(tags, k - 1) + Len(Places(t, p))
  BY <1>1, <1>2, <1>5, InFront
<1>7. t.kind = "config"  BY <1>4, <1>6 DEF SetKinds, Regular
<1>8. PICK m, n : SetsOf(t, m, n) /\ SetsAt(p + 22, m, n) /\ m = t.units[1] /\ n = t.units[2]
  <2>1. PICK m, n : /\ SetsOf(t, m, n) /\ SetsAt(p + 22, m, n)
                    /\ t.kind = "config" => m = t.units[1] /\ n = t.units[2]
    <3>1. Lies(t, p) /\ t.kind \in SetKinds  BY <1>3, <1>4
    <3>. QED BY <3>1, SetsThere
  <2>. QED BY <1>7, <2>1
<1>9. m \in Nat /\ n \in Nat  BY <1>8 DEF SetsOf
<1>. DEFINE c == Len(h264)
            x == UnitAt(p + 24, m)
            y == UnitAt(p + 27 + m, n)
<1>10. /\ Len(Places(t, p)) = 2 /\ Places(t, p)[1] = x /\ Places(t, p)[2] = y
  <2>1. Places(t, p) = <<x, y>>  BY <1>6, <1>7, <1>8, PlacesAre
  <2>. HIDE DEF x, y
  <2>. QED BY <2>1, PairIs
<1>11. /\ All(tags)[c + 1] = x /\ All(tags)[c + 2] = y /\ UnitsUpto(tags, k) = c + 2
       /\ c + 2 <= Len(All(tags)) /\ Len(All(tags)) \in Nat
  <2>1. /\ UnitsUpto(tags, k) <= Len(All(tags)) /\ Len(All(tags)) \in Nat
        /\ \A j \in 1..Len(Places(t, p)) :
             All(tags)[UnitsUpto(tags, k - 1) + j] = Places(t, p)[j]
    <3>1. k \in 1..Len(tags) /\ t = tags[k] /\ p = TagAt(tags, k)  BY <1>6
    <3>. HIDE DEF c, x, y, s, a, b
    <3>. QED BY <3>1, UnitsNext
  <2>2. UnitsUpto(tags, k - 1) = c /\ UnitsUpto(tags, k) = c + 2 /\ c \in Nat  BY <1>6, <1>10
  <2>3. 1 \in 1..2 /\ 2 \in 1..2  OBVIOUS
  <2>. HIDE DEF c, x, y
  <2>. QED BY <1>10, <2>1, <2>2, <2>3
<1>12. s \in Nat /\ SetsAt(s, m, n) /\ s + 2 = p + 24 /\ s + 5 + m = p + 27 + m
  <2>1. s = p + 22 /\ p \in Nat  BY <1>3, <1>6
  <2>2. SetsAt(p + 22, m, n)  BY <1>8
  <2>. HIDE DEF s
  <2>3. SetsAt(s, m, n)  BY <2>1, <2>2
  <2>4. s \in Nat /\ s + 2 = p + 24 /\ s + 5 + m = p + 27 + m  BY <1>9, <2>1
  <2>. QED BY <2>3, <2>4
<1>13. /\ pos' \in Nat
       /\ s + 5 + m + n > EndOfFile => pos' >= EndOfFile
  <2>. HIDE DEF s
  <2>. QED BY <1>1, <1>3, <1>9, <1>12, SecondSet
<1>14. s + 5 + m + n <= EndOfFile => Good(a, x) /\ Good(b, y)
  <2>1. x = UnitAt(s + 2, m) /\ y = UnitAt(s + 5 + m, n)  BY <1>12
  <2>. HIDE DEF x, y, s
  <2>. QED BY <1>3, <1>9, <1>12, <2>1, SetsGood
<1>. HIDE DEF a, b, x, y
<1>15. /\ Len(h264') = c + 2
       /\ \/ Good(a, x) /\ Good(b, y) /\ Agree(h264', All(tags), c + 2)
          \/ /\ ~(Good(a, x) /\ Good(b, y))
             /\ \E i \in c..(c + 1) : Agree(h264', All(tags), i)
  <2>1. c \in Nat /\ c = Len(h264) /\ Agree(h264, All(tags), c)  BY <1>6
  <2>2. h264' = h264 \o <<a, b>>  BY <1>1
  <2>3. /\ All(tags)[c + 1] = x /\ All(tags)[c + 2] = y
        /\ c + 2 <= Len(All(tags)) /\ Len(All(tags)) \in Nat
    BY <1>11
  <2>. HIDE DEF c
  <2>4. /\ Len(h264 \o <<a, b>>) = c + 2
        /\ \/ /\ Good(a, All(tags)[c + 1]) /\ Good(b, All(tags)[c + 2])
              /\ Agree(h264 \o <<a, b>>, All(tags), c + 2)
           \/ /\ ~(Good(a, All(tags)[c + 1]) /\ Good(b, All(tags)[c + 2]))
              /\ \E i \in c..(c + 1) : Agree(h264 \o <<a, b>>, All(tags), i)
    BY <2>1, <2>3, TwoMore
  <2>. QED BY <2>2, <2>3, <2>4
<1>16. PICK i \in c..(c + 2) :
          /\ Agree(h264', All(tags), i)
          /\ i < c + 2 => ~(Good(a, x) /\ Good(b, y))
  <2>1. c \in Nat  BY <1>6
  <2>. HIDE DEF c
  <2>2. c + 2 \in c..(c + 2) /\ \A i \in c..(c + 1) : i \in c..(c + 2)  BY <2>1
  <2>. QED BY <1>15, <2>1, <2>2
<1>17. Copies(tags)'
  <2>1. c \in Nat  BY <1>6
  <2>2. CASE i = c + 2
    <3>1. Agree(h264', All(tags), Len(h264')) /\ Len(h264') = UnitsUpto(tags, Len(vFlvTag'))
      BY <1>6, <1>11, <1>15, <1>16, <2>2
    <3>. QED BY <1>1, <3>1 DEF Copies, Clean
  <2>3. CASE i # c + 2
    <3>. HIDE DEF c
    <3>1. i < c + 2  BY <1>16, <2>1, <2>3
    <3>2. ~(s + 5 + m + n <= EndOfFile)  BY <1>14, <1>16, <3>1
    <3>3. s + 5 + m + n > EndOfFile  BY <1>3, <1>9, <1>12, <3>2
    <3>4. pos' >= EndOfFile'
      <4>1. EndOfFile' = EndOfFile  BY <1>1, SameHolds
      <4>. QED BY <1>13, <3>3, <4>1
    <3>5. i < Len(h264') /\ Agree(h264', All(tags), i)  BY <1>15, <1>16, <3>1
    <3>. QED BY <1>1, <1>13, <3>4, <3>5 DEF Copies, Broken
  <2>. QED BY <2>2, <2>3
<1>18. Demuxed
  <2>1. Measured(tags, c, i)
    <3>1. Agree(h264, All(tags), c) /\ Agree(h264', All(tags), i) /\ sent' = sent
      BY <1>1, <1>6, <1>16 DEF Same
    <3>2. Len(vFlvTag) \in 0..Len(tags) /\ Len(vFlvTag') \in 0..Len(tags)  BY <1>6
    <3>. HIDE DEF c
    <3>. QED BY <3>1, <3>2, MeasuredIs
  <2>2. /\ CountsStay /\ Len(Counts(sent)) = Len(tags)
        /\ ListedOf(sent, vFlvTag) = Len(vFlvTag) /\ ListedOf(sent, vFlvTag)' = Len(vFlvTag')
        /\ OwedOf(sent, vFlvTag, h264) = UnitsUpto(tags, Len(vFlvTag)) - c
        /\ OwedOf(sent, vFlvTag, h264)' = UnitsUpto(tags, Len(vFlvTag')) - i
        /\ DamagedOf(sent, h264) <=> Len(h264) > c
        /\ DamagedOf(sent, h264)' <=> Len(h264') > i
    BY <2>1 DEF Measured
  <2>3. /\ UnitsUpto(tags, Len(vFlvTag)) = c /\ c \in Nat /\ Len(h264) = c /\ i \in c..(c + 2)
        /\ UnitsUpto(tags, Len(vFlvTag')) = c + 2 /\ Len(h264') = c + 2
    BY <1>5, <1>6, <1>11, <1>15, <1>16
  <2>. HIDE DEF c
  <2>4. OwedOf(sent, vFlvTag, h264) = 0 /\ ~DamagedOf(sent, h264)  BY <2>2, <2>3
  <2>5. OwedOf(sent, vFlvTag, h264)' \in 0..2  BY <2>2, <2>3
  <2>6. DamagedOf(sent, h264)' <=> OwedOf(sent, vFlvTag, h264)' > 0  BY <2>2, <2>3
  <2>7. DamagedOf(sent, h264)' = (OwedOf(sent, vFlvTag, h264)' > 0)  BY <2>6 DEF DamagedOf
  <2>8. /\ ListedOf(sent, vFlvTag) < Len(Counts(sent)) /\ ListedOf(sent, vFlvTag) + 1 = k
        /\ ListedOf(sent, vFlvTag)' = ListedOf(sent, vFlvTag) + 1
    <3>. DEFINE l == Len(vFlvTag)
                d == Len(tags)
    <3>1. k \in 1..d /\ d \in Nat /\ l + 1 = k /\ Len(vFlvTag') = k /\ l \in 0..d
      BY <1>6
    <3>. HIDE DEF l, d
    <3>2. l < d  BY <3>1
    <3>. QED BY <2>2, <3>1, <3>2 DEF l, d
  <2>9. OwedOf(sent, vFlvTag, h264)' \in 0..Counts(sent)[ListedOf(sent, vFlvTag) + 1]
    <3>1. Counts(sent)[k] = Len(Places(t, p))  BY <1>6, <2>1 DEF Measured
    <3>. QED BY <1>10, <2>5, <2>8, <3>1
  <2>. QED BY <1>1, <2>2, <2>4, <2>7, <2>8, <2>9, DemuxListsAndCopies DEF Demuxed, D!Next
<1>. QED BY <1>17, <1>18

\* A unit is copied as it is, or damaged by the end of the file.
LEMMA OneCopied ==
  ASSUME NEW v \in Nat, NEW len, len = ReadInto(templength, pos, 4),
         NEW at, at = Behind(pos, 4), IsSeq(file), EndOfFile \in Nat, pos \in Nat,
         templength \in Nat, \A j \in 1..4 : pos + j <= EndOfFile => file[pos + j] = U32(v)[j]
  PROVE  /\ Behind(at, len) \in Nat
         /\ Good(Unit(at, len), UnitAt(pos + 4, v)) =>
              at = pos + 4 /\ len = v /\ Behind(at, len) = pos + 4 + v
         /\ ~Good(Unit(at, len), UnitAt(pos + 4, v)) => Behind(at, len) >= EndOfFile
<1>1. len \in Nat /\ (pos + 4 <= EndOfFile => len = v)  BY LengthRead
<1>2. Reaches(pos, 4, at)
  <2>1. 4 \in Nat  OBVIOUS
  <2>. QED BY <2>1, ReachesIs
<1>3. /\ at \in Nat
      /\ pos + 4 <= EndOfFile => at = pos + 4
      /\ pos + 4 > EndOfFile => at >= EndOfFile
  BY <1>2 DEF Reaches
<1>4. Reaches(at, len, Behind(at, len))  BY <1>1, <1>3, ReachesIs
<1>5. /\ Behind(at, len) \in Nat /\ at <= Behind(at, len)
      /\ at + len <= EndOfFile => Behind(at, len) = at + len
      /\ at + len > EndOfFile => Behind(at, len) >= EndOfFile \/ (len = 0 /\ Behind(at, len) = at)
  BY <1>4 DEF Reaches
<1>6. Behind(at, len) = at + Got(at, len)  BY DEF Behind
<1>7. ASSUME Good(Unit(at, len), UnitAt(pos + 4, v))
      PROVE  at = pos + 4 /\ len = v /\ Behind(at, len) = pos + 4 + v
  <2>1. at = pos + 4 /\ len = v /\ Got(at, len) = v  BY <1>7 DEF Good, Unit, UnitAt
  <2>. QED BY <1>6, <2>1
<1>8. ASSUME ~Good(Unit(at, len), UnitAt(pos + 4, v)) PROVE Behind(at, len) >= EndOfFile
  <2>1. CASE pos + 4 > EndOfFile  BY <1>3, <1>5, <2>1
  <2>2. CASE pos + 4 <= EndOfFile
    <3>1. at = pos + 4 /\ len = v  BY <1>1, <1>3, <2>2
    <3>2. Got(at, len) # v  BY <1>8, <3>1 DEF Good, Unit, UnitAt
    <3>3. ~(at + len <= EndOfFile)
      <4>1. at + len <= EndOfFile => Got(at, len) = len  BY <1>1, <1>3, Reads
      <4>. QED BY <3>1, <3>2, <4>1
    <3>. QED BY <1>1, <1>3, <1>5, <2>2, <3>3
  <2>. QED BY <2>1, <2>2
<1>. QED BY <1>5, <1>7, <1>8

\* The parser among the units of a tag, k of which are copied as they are.
Among(tags, k, q, t, p) ==
  /\ q = Len(vFlvTag) /\ t = tags[q] /\ p = TagAt(tags, q)
  /\ q \in 1..Len(tags) /\ t \in Tags /\ t.kind = "nalus" /\ p \in Nat /\ Lies(t, p)
  /\ t.units \in Seq(Nat) /\ Len(t.units) \in Nat
  /\ k \in 0..Len(t.units) /\ tag.size = DataSize(t) /\ DataSize(t) \in Nat
  /\ UnitsUpto(tags, q - 1) \in Nat
  /\ UnitsUpto(tags, q) = UnitsUpto(tags, q - 1) + Len(t.units)
  /\ Len(h264) = UnitsUpto(tags, q - 1) + k
  /\ Lot(t.units, k) \in Nat /\ pos = p + 11 + Lot(t.units, k)
  /\ countsize = Lot(t.units, k) /\ Lot(t.units, Len(t.units)) = DataSize(t)

\* It is there if it is in a tag and nothing is damaged.
LEMMA AmongUnits ==
  ASSUME NEW tags, Holds(tags), Where(tags), phase = "nalu", Clean(tags)
  PROVE  \E k, q, t, p : Among(tags, k, q, t, p)
<1>0. PICK k : InUnits(tags, k)  BY DEF Clean
<1>. DEFINE q == Len(vFlvTag)
            t == tags[q]
            p == TagAt(tags, q)
<1>1. InTag(tags)  BY DEF Where
<1>2. q \in 1..Len(tags) /\ tag.size = DataSize(t)  BY <1>1 DEF InTag
<1>5. /\ t.kind = "nalus" /\ k \in 0..Len(t.units) /\ Len(h264) = UnitsUpto(tags, q - 1) + k
      /\ countsize = Lot(t.units, k) /\ pos = p + 11 + Lot(t.units, k)
  BY <1>0 DEF InUnits
<1>3. Lies(t, p)
  <2>. HIDE DEF q
  <2>. QED BY <1>2, TagsLie
<1>10. q = Len(vFlvTag) /\ t = tags[q] /\ p = TagAt(tags, q)  OBVIOUS
<1>9. UnitsUpto(tags, q - 1) \in Nat /\ UnitsUpto(tags, q) = UnitsUpto(tags, q - 1) + Len(Places(t, p))
  <2>. HIDE DEF q
  <2>. QED BY <1>2, UnitsNext
<1>. HIDE DEF t, p, q
<1>4. t \in Tags /\ p \in Nat /\ DataSize(t) \in Nat  BY <1>3 DEF Lies
<1>6. t.units \in Seq(Nat) /\ Len(t.units) \in Nat  BY <1>4, TagsAre, LenProperties
<1>7. Lot(t.units, k) \in Nat  BY <1>5, <1>6, LotGrows
<1>8. Lot(t.units, Len(t.units)) = DataSize(t)  BY <1>4, <1>5, NalusLie
<1>11. Len(Places(t, p)) = Len(t.units)  BY <1>4, <1>5, PlacesAre
<1>12. UnitsUpto(tags, q) = UnitsUpto(tags, q - 1) + Len(t.units)  BY <1>9, <1>11, Zenon
<1>13. Among(tags, k, q, t, p)
  BY <1>2, <1>3, <1>4, <1>5, <1>6, <1>7, <1>8, <1>9, <1>10, <1>12, Zenon DEF Among
<1>. QED BY <1>13

\* The unit in front of it.
LEMMA UnitAhead ==
  ASSUME NEW tags, Holds(tags), NEW k, NEW q, NEW t, NEW p, Among(tags, k, q, t, p),
         countsize < tag.size
  PROVE  /\ k + 1 \in 1..Len(t.units) /\ k \in Nat /\ t.units[k + 1] \in Nat
         /\ Lot(t.units, k + 1) = Lot(t.units, k) + 4 + t.units[k + 1]
         /\ All(tags)[Len(h264) + 1] = UnitAt(pos + 4, t.units[k + 1])
         /\ Len(h264) + 1 <= UnitsUpto(tags, q) /\ UnitsUpto(tags, q) <= Len(All(tags))
         /\ \A j \in 1..4 : pos + j <= EndOfFile => file[pos + j] = U32(t.units[k + 1])[j]
<1>. DEFINE u == t.units
            c == UnitsUpto(tags, q - 1)
            e == UnitsUpto(tags, q)
            d == DataSize(t)
            l == Len(u)
            n == Len(h264)
            o == Lot(u, k)
<1>1. t \in Tags /\ t.kind = "nalus" /\ p \in Nat /\ Lies(t, p) /\ u \in Seq(Nat)  BY DEF Among
<1>2. l \in Nat /\ k \in 0..l /\ d \in Nat /\ Lot(u, l) = d /\ tag.size = d /\ countsize = o
  BY DEF Among
<1>3. c \in Nat /\ e = c + l /\ n = c + k  BY DEF Among
<1>4. o \in Nat /\ pos = p + 11 + o  BY DEF Among
<1>5. q \in 1..Len(tags) /\ t = tags[q] /\ p = TagAt(tags, q)  BY DEF Among
<1>6. k + 1 \in 1..l /\ k \in 0..(l - 1) /\ k \in Nat
  <2>1. k # l
    <3>1. k = l => countsize = tag.size  BY <1>2
    <3>. HIDE DEF l, d, o, u
    <3>. QED BY <1>2, <1>4, <3>1
  <2>. HIDE DEF l, u, d, o
  <2>. QED BY <1>2, <2>1
<1>7. u[k + 1] \in Nat  BY <1>1, <1>6, TagsAre
<1>8. Lot(u, k + 1) = Lot(u, k) + 4 + u[k + 1]  BY <1>1, <1>6, LotGrows
<1>9. Places(t, p)[k + 1] = UnitAt(p + 11 + Lot(u, k) + 4, u[k + 1]) /\ Len(Places(t, p)) = l
  BY <1>1, <1>6, PlacesAre
<1>10. /\ \A j \in 1..Len(Places(t, p)) : All(tags)[c + j] = Places(t, p)[j]
       /\ e <= Len(All(tags))
  BY <1>5, UnitsNext
<1>11. n + 1 = c + (k + 1) /\ n + 1 <= e
  <2>1. l \in Nat /\ k \in Nat /\ k + 1 \in 1..l  BY <1>2, <1>6
  <2>. HIDE DEF c, e, l, n
  <2>. QED BY <1>3, <2>1
<1>12. All(tags)[n + 1] = UnitAt(pos + 4, u[k + 1])
  <2>1. All(tags)[c + (k + 1)] = Places(t, p)[k + 1]  BY <1>6, <1>9, <1>10
  <2>2. p + 11 + Lot(u, k) + 4 = pos + 4  BY <1>4
  <2>. QED BY <1>9, <1>11, <2>1, <2>2
<1>13. /\ \A a \in 0..(l - 1) : \A j \in 1..4 : Body(t)[Lot(u, a) + j] = U32(u[a + 1])[j]
       /\ \A a \in 0..l : Lot(u, a) <= d
  BY <1>1, NalusLie
<1>14. ASSUME NEW j \in 1..4, pos + j <= EndOfFile PROVE file[pos + j] = U32(u[k + 1])[j]
  <2>1. Body(t)[o + j] = U32(u[k + 1])[j]  BY <1>6, <1>13
  <2>2. Lot(u, k + 1) <= d
    <3>1. k + 1 \in 0..l
      <4>. HIDE DEF l
      <4>. QED BY <1>6
    <3>. QED BY <1>13, <3>1
  <2>3. o + 4 + u[k + 1] <= d  BY <1>8, <2>2
  <2>. DEFINE v == u[k + 1]
  <2>4. v \in Nat /\ o + 4 + v <= d  BY <1>7, <2>3
  <2>. HIDE DEF v, o, d
  <2>5. o + j \in 1..d /\ pos + j = p + 11 + (o + j)  BY <1>1, <1>2, <1>4, <2>4
  <2>6. file[p + 11 + (o + j)] = Body(t)[o + j]  BY <1>1, <1>14, <2>5 DEF Lies, d
  <2>. QED BY <2>1, <2>5, <2>6
<1>. QED BY <1>6, <1>7, <1>8, <1>10, <1>11, <1>12, <1>14

\* The turn that copies a unit is not the last one over again, so the unit is recorded.
LEMMA UnitRecorded ==
  ASSUME NEW tags, Holds(tags), Agree(h264, All(tags), Len(h264)), pos \in Nat, templength \in Nat,
         NEW v \in Nat, (v + 4) % Word # 0,
         \A j \in 1..4 : pos + j <= EndOfFile => file[pos + j] = U32(v)[j],
         NEW len, len = ReadInto(templength, pos, 4), NEW at, at = Behind(pos, 4)
  PROVE  Recorded(Unit(at, len)) = Append(h264, Unit(at, len))
<1>1. SUFFICES ASSUME ~Progress(len), h264 # <<>>, Last(h264) = Unit(at, len) PROVE FALSE
  BY DEF Recorded, Unit
<1>2. IsSeq(file) /\ EndOfFile \in Nat  BY DEF Holds
<1>3. len \in Nat /\ (pos + 4 <= EndOfFile => len = v)  BY <1>2, LengthRead
<1>4. ~(pos + 4 <= EndOfFile)
  <2>1. len # v  BY <1>1 DEF Progress
  <2>. QED BY <1>3, <2>1
<1>5. Got(at, len) = 0
  <2>1. Reaches(pos, 4, at)
    <3>1. 4 \in Nat  OBVIOUS
    <3>. QED BY <1>2, <3>1, ReachesIs
  <2>2. at \in Nat /\ at >= EndOfFile  BY <1>2, <1>4, <2>1 DEF Reaches
  <2>. QED BY <1>2, <1>3, <2>2, Reads
<1>6. Got(at, len) = len
  <2>. DEFINE c == Len(h264)
  <2>1. IsSeq(h264) /\ c \in Nat /\ \A j \in 1..c : Good(h264[j], All(tags)[j])
    BY SeqFacts DEF Agree
  <2>2. c # 0
    <3>1. PICK S : h264 \in Seq(S)  BY <2>1 DEF IsSeq
    <3>. QED BY <1>1, <3>1
  <2>3. Last(h264) = h264[c]  BY DEF Last
  <2>. HIDE DEF c
  <2>4. c \in 1..c  BY <2>1, <2>2
  <2>5. Good(Unit(at, len), All(tags)[c])  BY <1>1, <2>1, <2>3, <2>4
  <2>. QED BY <2>5 DEF Good, Unit
<1>7. len + 4 = 4  BY <1>3, <1>5, <1>6
<1>8. 4 % Word # 0
  <2>1. Word \in Nat /\ Word > 2 * 16777216  BY FlvParseAssumption, SMT
  <2>2. Word > 4  BY <2>1, SMT
  <2>. QED BY <2>1, <2>2, SMT
<1>. QED BY <1>1, <1>7, <1>8 DEF Progress

\* A unit is copied.
LEMMA UnitCopied ==
  ASSUME NEW tags, Holds(tags), Regulars(tags), Where(tags), Copies(tags), CopyNalu
  PROVE  Copies(tags)' /\ Demuxed
<1>. DEFINE len == ReadInto(templength, pos, 4)
            at == Behind(pos, 4)
            x == Unit(at, len)
<1>1. /\ Same /\ vFlvTag' = vFlvTag /\ phase = "nalu" /\ phase' = "nalu" /\ countsize < tag.size
      /\ h264' = Recorded(x) /\ pos' = Behind(at, len)
      /\ countsize' = (countsize + len + 4) % Word
  BY DEF CopyNalu, Same
<1>2. IsSeq(file) /\ EndOfFile \in Nat /\ EndOfFile' = EndOfFile
  BY <1>1, SameHolds DEF Holds
<1>3. templength \in Nat  BY DEF Where
<1>4. Len(vFlvTag) \in 0..Len(tags) /\ Len(vFlvTag') \in 0..Len(tags)
  BY <1>1, ListedNumber
<1>5. ASSUME Clean(tags) PROVE Copies(tags)' /\ Demuxed
  <2>1. PICK k, q, t, p : Among(tags, k, q, t, p)  BY <1>1, <1>5, AmongUnits
  <2>. DEFINE v == t.units[k + 1]
              c == Len(h264)
              e == UnitsUpto(tags, q)
              o == Lot(t.units, k)
  <2>2. /\ k + 1 \in 1..Len(t.units) /\ k \in Nat /\ v \in Nat
        /\ Lot(t.units, k + 1) = o + 4 + v
        /\ All(tags)[c + 1] = UnitAt(pos + 4, v)
        /\ c + 1 <= e /\ e <= Len(All(tags))
        /\ \A j \in 1..4 : pos + j <= EndOfFile => file[pos + j] = U32(v)[j]
    BY <1>1, <2>1, UnitAhead
  <2>3. /\ q \in 1..Len(tags) /\ t = tags[q] /\ p = TagAt(tags, q) /\ q = Len(vFlvTag)
        /\ t.kind = "nalus" /\ Len(t.units) \in Nat
    BY <2>1 DEF Among
  <2>4. /\ p \in Nat /\ o \in Nat /\ pos = p + 11 + o /\ countsize = o
        /\ UnitsUpto(tags, q - 1) \in Nat /\ c = UnitsUpto(tags, q - 1) + k
        /\ e = UnitsUpto(tags, q - 1) + Len(t.units)
    BY <2>1 DEF Among
  <2>5. c \in Nat /\ e \in Nat /\ Len(All(tags)) \in Nat /\ pos \in Nat
    <3>1. Len(All(tags)) \in Nat  BY <2>3, UnitsNext
    <3>2. c \in Nat /\ e \in Nat /\ pos \in Nat
      <4>. DEFINE l == Len(t.units)
      <4>1. l \in Nat /\ e = UnitsUpto(tags, q - 1) + l /\ c = UnitsUpto(tags, q - 1) + k /\ k \in Nat
        BY <2>2, <2>3, <2>4
      <4>. HIDE DEF l, c, e, o
      <4>. QED BY <2>4, <4>1
    <3>. QED BY <3>1, <3>2
  <2>6. Agree(h264, All(tags), c)  BY <1>5 DEF Clean
  <2>7. c + 1 <= Len(All(tags))
    <3>. DEFINE a == Len(All(tags))
    <3>1. a \in Nat /\ c \in Nat /\ e \in Nat /\ c + 1 <= e /\ e <= a
      BY <2>2, <2>5, Zenon
    <3>2. c + 1 <= a
      <4>. HIDE DEF a, c, e
      <4>. QED BY <3>1
    <3>. QED BY <3>2
  <2>. HIDE DEF v
  <2>8. /\ pos' \in Nat
        /\ Good(x, UnitAt(pos + 4, v)) => len = v /\ pos' = pos + 4 + v
        /\ ~Good(x, UnitAt(pos + 4, v)) => pos' >= EndOfFile
    BY <1>1, <1>2, <1>3, <2>2, <2>5, OneCopied
  <2>13. t \in Tags /\ DataSize(t) \in Nat /\ Lot(t.units, k + 1) <= DataSize(t)
    <3>1. k + 1 \in 0..Len(t.units)  BY <2>2, <2>3
    <3>2. t \in Tags /\ t.kind = "nalus" /\ DataSize(t) \in Nat  BY <2>1 DEF Among
    <3>. QED BY <3>1, <3>2, NalusLie
  <2>14. (o + v + 4) % Word = o + 4 + v /\ (v + 4) % Word # 0
    <3>. DEFINE d == DataSize(t)
    <3>1. d \in Nat /\ o + 4 + v <= d  BY <2>2, <2>13
    <3>. HIDE DEF d, o
    <3>2. /\ o + v + 4 = o + 4 + v /\ o + v + 4 \in Nat /\ o + v + 4 <= d + 1
          /\ v + 4 \in Nat /\ v + 4 > 0 /\ v + 4 <= d + 1
      BY <2>2, <2>4, <3>1
    <3>3. t \in Tags /\ o + v + 4 <= DataSize(t) + 1 /\ v + 4 <= DataSize(t) + 1  BY <2>13, <3>2 DEF d
    <3>. QED BY <3>2, <3>3, Unwrapped
  <2>15. h264' = Append(h264, x)
    <3>1. Recorded(x) = Append(h264, x)  BY <1>3, <2>2, <2>5, <2>6, <2>14, UnitRecorded
    <3>. QED BY <1>1, <3>1
  <2>. HIDE DEF x, len, at
  <2>9. /\ IsSeq(h264) /\ Len(h264) \in Nat  BY <2>5, <2>6 DEF Agree
  <2>10. Len(h264') = c + 1  BY <2>9, <2>15, AppendIs
  <2>11. CASE Good(x, UnitAt(pos + 4, v))
    <3>1. Agree(h264', All(tags), c + 1)
      <4>1. Good(x, All(tags)[c + 1])  BY <2>2, <2>11
      <4>. QED BY <2>5, <2>6, <2>7, <2>15, <4>1, OneMore
    <3>2. InUnits(tags, k + 1)'
      <4>1. k + 1 \in 0..Len(t.units)  BY <2>2, <2>3
      <4>2. c + 1 = UnitsUpto(tags, q - 1) + (k + 1)
        <5>. HIDE DEF c
        <5>. QED BY <2>2, <2>4
      <4>3. countsize' = Lot(t.units, k + 1) /\ pos' = p + 11 + Lot(t.units, k + 1)
        <5>1. len = v /\ pos' = pos + 4 + v  BY <2>8, <2>11
        <5>. HIDE DEF o
        <5>2. countsize' = o + 4 + v /\ pos' = p + 11 + (o + 4 + v)
          <6>1. countsize' = (o + v + 4) % Word  BY <1>1, <2>4, <5>1, Zenon
          <6>2. pos' = p + 11 + (o + 4 + v)  BY <2>2, <2>4, <5>1
          <6>. QED BY <2>14, <6>1, <6>2, Zenon
        <5>. QED BY <2>2, <5>2
      <4>4. Len(h264') = UnitsUpto(tags, q - 1) + (k + 1)  BY <2>10, <4>2
      <4>5. vFlvTag' = vFlvTag  BY <1>1
      <4>. QED BY <2>3, <4>1, <4>3, <4>4, <4>5 DEF InUnits
    <3>3. Agree(h264', All(tags), Len(h264'))  BY <2>10, <3>1
    <3>4. Clean(tags)'  BY <1>1, <3>2, <3>3 DEF Clean
    <3>5. Measured(tags, c, c + 1)
      <4>1. sent' = sent  BY <1>1 DEF Same
      <4>. HIDE DEF c
      <4>. QED BY <1>4, <2>6, <3>1, <4>1, MeasuredIs
    <3>6. /\ CountsStay /\ ListedOf(sent, vFlvTag)' = ListedOf(sent, vFlvTag)
          /\ OwedOf(sent, vFlvTag, h264) = e - c /\ OwedOf(sent, vFlvTag, h264)' = e - (c + 1)
          /\ DamagedOf(sent, h264) <=> c > c
          /\ DamagedOf(sent, h264)' <=> c + 1 > c + 1
      BY <1>1, <2>3, <2>10, <3>5 DEF Measured
    <3>7. ~DamagedOf(sent, h264) /\ ~DamagedOf(sent, h264)'
          /\ OwedOf(sent, vFlvTag, h264) > 0
          /\ OwedOf(sent, vFlvTag, h264)' = OwedOf(sent, vFlvTag, h264) - 1
      <4>1. c \in Nat /\ e \in Nat /\ c + 1 <= e  BY <2>2, <2>5, Zenon
      <4>. HIDE DEF c, e
      <4>2. e - c > 0 /\ e - (c + 1) = (e - c) - 1 /\ ~(c > c) /\ ~(c + 1 > c + 1)  BY <4>1
      <4>. QED BY <3>6, <4>2, Zenon
    <3>8. DamagedOf(sent, h264)' = DamagedOf(sent, h264)  BY <3>7 DEF DamagedOf
    <3>9. D!CopyUnit  BY <1>1, <3>6, <3>7, <3>8, DemuxCopies
    <3>. QED BY <3>4, <3>9 DEF Copies, Demuxed, D!Next
  <2>12. CASE ~Good(x, UnitAt(pos + 4, v))
    <3>1. Agree(h264', All(tags), c)
      <4>1. ~Good(x, All(tags)[c + 1])  BY <2>2, <2>12
      <4>. QED BY <2>6, <2>15, <4>1, OneDamaged
    <3>2. c < Len(h264')
      <4>. HIDE DEF c
      <4>. QED BY <2>5, <2>10
    <3>3. Broken(tags)'  BY <1>1, <1>2, <2>8, <2>12, <3>1, <3>2 DEF Broken
    <3>5. Measured(tags, c, c)
      <4>1. sent' = sent  BY <1>1 DEF Same
      <4>. HIDE DEF c
      <4>. QED BY <1>4, <2>6, <3>1, <4>1, MeasuredIs
    <3>6. /\ CountsStay /\ ListedOf(sent, vFlvTag)' = ListedOf(sent, vFlvTag)
          /\ OwedOf(sent, vFlvTag, h264) = e - c /\ OwedOf(sent, vFlvTag, h264)' = e - c
          /\ DamagedOf(sent, h264) <=> c > c
          /\ DamagedOf(sent, h264)' <=> c + 1 > c
      BY <1>1, <2>3, <2>10, <3>5 DEF Measured
    <3>7. ~DamagedOf(sent, h264) /\ DamagedOf(sent, h264)'
          /\ OwedOf(sent, vFlvTag, h264) > 0
          /\ OwedOf(sent, vFlvTag, h264)' = OwedOf(sent, vFlvTag, h264)
      <4>1. c \in Nat /\ e \in Nat /\ c + 1 <= e  BY <2>2, <2>5, Zenon
      <4>. HIDE DEF c, e
      <4>2. e - c > 0 /\ ~(c > c) /\ c + 1 > c  BY <4>1
      <4>. QED BY <3>6, <4>2, Zenon
    <3>8. DamagedOf(sent, h264)' = TRUE  BY <3>7 DEF DamagedOf
    <3>9. D!Damage  BY <1>1, <3>6, <3>7, <3>8, DemuxDamages
    <3>. QED BY <3>3, <3>9 DEF Copies, Demuxed, D!Next
  <2>. QED BY <2>11, <2>12
<1>6. ASSUME Broken(tags) PROVE Copies(tags)' /\ Demuxed
  <2>1. PICK m : m < Len(h264) /\ Agree(h264, All(tags), m)  BY <1>6 DEF Broken
  <2>2. pos \in Nat /\ pos >= EndOfFile  BY <1>1, <1>6 DEF Broken
  <2>3. Agree(h264', All(tags), m) /\ m < Len(h264')
    <3>. HIDE DEF x
    <3>1. h264' = h264 \/ h264' = Append(h264, x)  BY <1>1 DEF Recorded
    <3>2. CASE h264' = h264  BY <2>1, <3>2
    <3>3. CASE h264' = Append(h264, x)  BY <2>1, <3>3, MoreDamaged
    <3>. QED BY <3>1, <3>2, <3>3
  <2>4. len \in Nat
    <3>1. \A j \in 1..4 : ~(pos + j <= EndOfFile)  BY <1>2, <2>2
    <3>2. 4 \in 1..4  OBVIOUS
    <3>. QED BY <1>2, <1>3, <2>2, <3>1, <3>2, ReadIs
  <2>. HIDE DEF len
  <2>5. at \in Nat /\ at >= pos
    <3>1. 4 \in Nat  OBVIOUS
    <3>. QED BY <1>2, <2>2, <3>1, Reads
  <2>. HIDE DEF at
  <2>6. Behind(at, len) \in Nat /\ at <= Behind(at, len)  BY <1>2, <2>4, <2>5, Reads
  <2>7. pos' \in Nat /\ pos' >= EndOfFile'  BY <1>1, <1>2, <2>2, <2>5, <2>6
  <2>8. Broken(tags)'  BY <1>1, <2>3, <2>7 DEF Broken
  <2>9. Measured(tags, m, m)
    <3>1. sent' = sent  BY <1>1 DEF Same
    <3>. QED BY <1>4, <2>1, <2>3, <3>1, MeasuredIs
  <2>10. /\ CountsStay /\ ListedOf(sent, vFlvTag)' = ListedOf(sent, vFlvTag)
         /\ OwedOf(sent, vFlvTag, h264)' = OwedOf(sent, vFlvTag, h264)
         /\ DamagedOf(sent, h264) /\ DamagedOf(sent, h264)'
    BY <1>1, <2>1, <2>3, <2>9 DEF Measured
  <2>11. DamagedOf(sent, h264)' = DamagedOf(sent, h264)  BY <2>10 DEF DamagedOf
  <2>12. UNCHANGED D!vars  BY <1>1, <2>10, <2>11, DemuxStutters
  <2>. QED BY <2>8, <2>12 DEF Copies, Demuxed
<1>. QED BY <1>5, <1>6 DEF Copies

\* The units of a tag are copied once what is counted of it is what it says.
LEMMA UnitsEnd ==
  ASSUME NEW tags, Holds(tags), Where(tags), phase = "nalu", Clean(tags), countsize >= tag.size
  PROVE  Len(h264) = UnitsUpto(tags, Len(vFlvTag))
<1>1. PICK k, q, t, p : Among(tags, k, q, t, p)  BY AmongUnits
<1>. DEFINE l == Len(t.units)
            c == UnitsUpto(tags, q - 1)
            e == UnitsUpto(tags, q)
            d == DataSize(t)
            o == Lot(t.units, k)
<1>2. /\ t \in Tags /\ t.kind = "nalus" /\ t.units \in Seq(Nat) /\ l \in Nat /\ k \in 0..l
      /\ d \in Nat /\ o \in Nat /\ tag.size = d /\ countsize = o
  BY <1>1 DEF Among
<1>3. /\ c \in Nat /\ e = c + l /\ Len(h264) = c + k /\ q = Len(vFlvTag)  BY <1>1 DEF Among
<1>4. k = l
  <2>1. ASSUME k # l PROVE FALSE
    <3>1. k \in 0..(l - 1) /\ k + 1 \in 1..l /\ k + 1 \in 0..l
      <4>. HIDE DEF l
      <4>. QED BY <1>2, <2>1
    <3>2. t.units[k + 1] \in Nat  BY <1>2, <3>1, TagsAre
    <3>3. Lot(t.units, k + 1) = o + 4 + t.units[k + 1]  BY <1>2, <3>1, LotGrows
    <3>4. Lot(t.units, k + 1) <= d  BY <1>2, <3>1, NalusLie
    <3>5. o >= d  BY <1>2
    <3>. DEFINE v == t.units[k + 1]
    <3>6. v \in Nat /\ o + 4 + v <= d  BY <3>2, <3>3, <3>4
    <3>. HIDE DEF v, o, d
    <3>. QED BY <1>2, <3>5, <3>6
  <2>. QED BY <2>1
<1>5. Len(h264) = e  BY <1>3, <1>4
<1>. QED BY <1>3, <1>5

\* Steps that copy nothing and list nothing.
LEMMA PlainSteps ==
  ASSUME NEW tags, Holds(tags), Regulars(tags), Where(tags), Copies(tags),
         \/ EmptyFile \/ HeaderError \/ ParseHead \/ EndOfTags \/ UnknownTag \/ CutTagHeader
         \/ NaluStrays \/ NalusCopied \/ EndBeforePrevious \/ CheckPrevious
  PROVE  Copies(tags)' /\ Demuxed
<1>1. /\ Same /\ h264' = h264 /\ vFlvTag' = vFlvTag
      /\ phase \in {"head", "tag", "nalu", "previous"}
  BY DEF EmptyFile, HeaderError, ParseHead, EndOfTags, UnknownTag, CutTagHeader, NaluStrays,
         NalusCopied, EndBeforePrevious, CheckPrevious, Same
<1>2. Demuxed  BY <1>1, QuietSteps
<1>3. CASE phase' = "done"  BY <1>1, <1>2, <1>3, ToDone
<1>4. CASE ParseHead
  <2>1. phase = "head" /\ phase' = "tag"  BY <1>4 DEF ParseHead
  <2>2. Clean(tags) /\ Len(h264) = UnitsUpto(tags, Len(vFlvTag))  BY <2>1, FrontClean
  <2>3. Clean(tags)'  BY <1>1, <2>1, <2>2 DEF Clean
  <2>. QED BY <1>2, <2>3 DEF Copies
<1>5. CASE NalusCopied
  <2>1. /\ phase = "nalu" /\ phase' = "previous" /\ countsize >= tag.size /\ pos' = pos
    BY <1>5 DEF NalusCopied
  <2>2. CASE Clean(tags)
    <3>1. Len(h264) = UnitsUpto(tags, Len(vFlvTag))  BY <2>1, <2>2, UnitsEnd
    <3>2. Clean(tags)'  BY <1>1, <2>1, <2>2, <3>1 DEF Clean
    <3>. QED BY <1>2, <3>2 DEF Copies
  <2>3. CASE Broken(tags)
    <3>1. EndOfFile' = EndOfFile  BY <1>1, SameHolds
    <3>2. pos \in Nat /\ pos >= EndOfFile  BY <2>1, <2>3 DEF Broken
    <3>3. Broken(tags)'  BY <1>1, <2>1, <2>3, <3>1, <3>2 DEF Broken
    <3>. QED BY <1>2, <3>3 DEF Copies
  <2>. QED BY <2>2, <2>3 DEF Copies
<1>6. CASE CheckPrevious /\ phase' # "done"
  <2>1. phase = "previous" /\ Got(pos, 4) = 4 /\ phase' = "tag"
    BY <1>6 DEF CheckPrevious, Finish
  <2>2. Clean(tags)
    <3>1. ASSUME Broken(tags) PROVE FALSE
      <4>1. pos \in Nat /\ pos >= EndOfFile  BY <2>1, <3>1 DEF Broken
      <4>2. EndOfFile \in Nat /\ 4 \in Nat  BY DEF Holds
      <4>3. Got(pos, 4) = 0  BY <4>1, <4>2, Reads
      <4>. QED BY <2>1, <4>3
    <3>. QED BY <3>1 DEF Copies
  <2>3. Len(h264) = UnitsUpto(tags, Len(vFlvTag))  BY <2>1, <2>2 DEF Clean
  <2>4. Clean(tags)'  BY <1>1, <2>1, <2>2, <2>3 DEF Clean
  <2>. QED BY <1>2, <2>4 DEF Copies
<1>7. CASE NaluStrays
  <2>1. phase = "nalu" /\ phase' = "stray" /\ pos' = pos  BY <1>7 DEF NaluStrays
  <2>2. CASE Clean(tags)
    <3>1. Clean(tags)'  BY <1>1, <2>1, <2>2 DEF Clean
    <3>. QED BY <1>2, <3>1 DEF Copies
  <2>3. CASE Broken(tags)
    <3>1. EndOfFile' = EndOfFile  BY <1>1, SameHolds
    <3>2. Broken(tags)'  BY <1>1, <2>1, <2>3, <3>1 DEF Broken
    <3>. QED BY <1>2, <3>2 DEF Copies
  <2>. QED BY <2>2, <2>3 DEF Copies
<1>8. \/ phase' = "done" \/ ParseHead \/ NalusCopied \/ NaluStrays
      \/ CheckPrevious /\ phase' # "done"
  BY DEF EmptyFile, HeaderError, EndOfTags, UnknownTag, CutTagHeader, EndBeforePrevious, Finish
<1>. QED BY <1>3, <1>4, <1>5, <1>6, <1>7, <1>8

\* Every step through a regular recording is one of a demultiplexer, or none.
LEMMA RegularSteps ==
  ASSUME NEW tags, Holds(tags), Regulars(tags), Where(tags), Copies(tags), Next
  PROVE  Copies(tags)' /\ Demuxed
<1>1. CASE \/ EmptyFile \/ HeaderError \/ ParseHead \/ EndOfTags \/ UnknownTag \/ CutTagHeader
           \/ NaluStrays \/ NalusCopied \/ EndBeforePrevious \/ CheckPrevious
  BY <1>1, PlainSteps
<1>2. CASE ScriptTag \/ AudioTag \/ CutVideoHeader \/ CommandFrame \/ OtherCodec
  BY <1>2, OtherTags
<1>3. CASE SequenceHeader  BY <1>3, SetsCopied
<1>4. CASE Nalus  BY <1>4, UnitsBegin
<1>5. CASE CopyNalu  BY <1>5, UnitCopied
<1>. QED BY <1>1, <1>2, <1>3, <1>4, <1>5 DEF Next

\* The parser that stands still has copied what it had.
LEMMA CopiesStay ==
  ASSUME NEW tags, Copies(tags), UNCHANGED vars
  PROVE  Copies(tags)'
<1>1. /\ h264' = h264 /\ phase' = phase /\ vFlvTag' = vFlvTag /\ countsize' = countsize
      /\ pos' = pos /\ EndOfFile' = EndOfFile
  BY DEF vars, EndOfFile
<1>2. CASE Clean(tags)
  <2>1. \A k : InUnits(tags, k) => InUnits(tags, k)'  BY <1>1 DEF InUnits
  <2>2. Clean(tags)'  BY <1>1, <1>2, <2>1 DEF Clean
  <2>. QED BY <2>2 DEF Copies
<1>3. CASE Broken(tags)
  <2>1. Broken(tags)'  BY <1>1, <1>3 DEF Broken
  <2>. QED BY <2>1 DEF Copies
<1>. QED BY <1>2, <1>3 DEF Copies

\* An odd recording stands for an empty one, of which only the end is seen.
LEMMA OddSteps ==
  ASSUME ~AllRegular, Next
  PROVE  Demuxed
<1>1. sent' = sent /\ ~RegularIn(sent) /\ ~RegularIn(sent')
  BY RecordingStays DEF AllRegular, RegularIn, Same
<1>2. /\ CountsStay /\ ListedOf(sent, vFlvTag)' = ListedOf(sent, vFlvTag)
      /\ OwedOf(sent, vFlvTag, h264)' = OwedOf(sent, vFlvTag, h264)
  BY <1>1 DEF CountsStay, Counts, ListedOf, OwedOf
<1>3. DamagedOf(sent, h264)' = DamagedOf(sent, h264)  BY <1>1 DEF DamagedOf
<1>4. phase # "done"
  BY DEF Next, EmptyFile, HeaderError, ParseHead, EndOfTags, UnknownTag, CutTagHeader, ScriptTag,
     AudioTag, CutVideoHeader, CommandFrame, OtherCodec, SequenceHeader, Nalus, CopyNalu,
     NaluStrays, NalusCopied, EndBeforePrevious, CheckPrevious, VideoTag, PushTag
<1>5. CASE phase' = "done"  BY <1>2, <1>3, <1>4, <1>5, DemuxFinishes DEF Demuxed, D!Next
<1>6. CASE phase' # "done"  BY <1>2, <1>3, <1>4, <1>6, DemuxStutters DEF Demuxed
<1>. QED BY <1>5, <1>6

\* What is written of the units of a stream, in which the parser is.
DemuxInv ==
  \E tags : /\ Cut(tags) /\ (Telling(tags) => Where(tags))
            /\ Regulars(tags) => Copies(tags)

\* Nothing at first, nothing listed and nothing owed.
LEMMA DemuxBegins == Init => DemuxInv /\ D!Init
<1>1. SUFFICES ASSUME Init PROVE DemuxInv /\ D!Init  OBVIOUS
<1>2. PICK tags \in Recordings :
         /\ sent = Laid(tags, 13)
         /\ \E size \in 0..Len(Stream(tags)) : file = SubSeq(Stream(tags), 1, size)
  BY <1>1 DEF Init
<1>3. Cut(tags)  BY <1>2 DEF Cut
<1>4. Where(tags)  BY <1>1 DEF Init, Where
<1>5. /\ tags \in Seq(Tags) /\ LaidOut(sent, tags, TRUE) /\ Len(tags) \in Nat /\ TRUE \in BOOLEAN
  BY <1>3, CutHolds DEF Holds
<1>6. /\ phase = "head" /\ Len(vFlvTag) = 0 /\ Len(h264) = 0 /\ IsSeq(h264)
  BY <1>1, EmptyIs DEF Init
<1>7. UnitsUpto(tags, 0) = 0  BY <1>5, CountIs DEF UnitsUpto
<1>8. Agree(h264, All(tags), 0)
  <2>1. Len(All(tags)) \in Nat
    <3>1. IsSeq(All(tags))  BY <1>5, CountIs DEF All
    <3>. QED BY <3>1, SeqFacts
  <2>2. 0 <= Len(All(tags)) /\ 0 \in 0..0 /\ ~(0 < 0)  BY <2>1
  <2>3. \A j \in 1..0 : Good(h264[j], All(tags)[j])  OBVIOUS
  <2>. QED BY <1>6, <2>2, <2>3 DEF Agree
<1>9. Copies(tags)  BY <1>6, <1>7, <1>8 DEF Copies, Clean
<1>10. DemuxInv  BY <1>3, <1>4, <1>9 DEF DemuxInv
<1>11. (phase = "done") = FALSE  BY <1>6
<1>12. /\ Counts(sent) \in Seq(Nat) /\ ListedOf(sent, vFlvTag) = 0
       /\ OwedOf(sent, vFlvTag, h264) = 0 /\ DamagedOf(sent, h264) = FALSE
  <2>1. CASE RegularIn(sent)
    <3>1. Counts(sent) \in Seq(Nat)  BY <1>5, <2>1, CountsAre
    <3>2. Len(vFlvTag) \in 0..Len(tags)  BY <1>5, <1>6
    <3>3. /\ ListedOf(sent, vFlvTag) = Len(vFlvTag)
          /\ OwedOf(sent, vFlvTag, h264) = UnitsUpto(tags, Len(vFlvTag)) - 0
          /\ DamagedOf(sent, h264) <=> Len(h264) > 0
      BY <1>5, <1>8, <2>1, <3>2, ValuesAre
    <3>4. OwedOf(sent, vFlvTag, h264) = 0  BY <1>6, <1>7, <3>3
    <3>5. ~DamagedOf(sent, h264)  BY <1>6, <3>3
    <3>6. DamagedOf(sent, h264) = FALSE  BY <3>5 DEF DamagedOf
    <3>. QED BY <1>6, <3>1, <3>3, <3>4, <3>6
  <2>2. CASE ~RegularIn(sent)  BY <2>2 DEF Counts, ListedOf, OwedOf, DamagedOf
  <2>. QED BY <2>1, <2>2
<1>13. D!Init
  BY <1>11, <1>12, IntactDefined, Zenon
  DEF D!Init, Counts, ListedOf, OwedOf, DamagedOf, RegularIn, AllRegular
<1>. QED BY <1>10, <1>13

\* Each step keeps that, and is one of a demultiplexer, or none.
LEMMA DemuxGoesOn ==
  ASSUME DemuxInv, [Next]_vars
  PROVE  DemuxInv' /\ [D!Next]_(D!vars)
<1>1. PICK tags : /\ Cut(tags) /\ (Telling(tags) => Where(tags))
                  /\ Regulars(tags) => Copies(tags)
  BY DEF DemuxInv
<1>2. Holds(tags)  BY <1>1, CutHolds
<1>3. Same  BY RecordingStays DEF vars, Same
<1>4. Cut(tags)' /\ (Telling(tags)' => Telling(tags)) /\ (Regulars(tags)' => Regulars(tags))
  BY <1>1, <1>3, SameHolds
<1>5. Telling(tags) => Where(tags)'  BY <1>1, <1>2, WhereKept
<1>6. SUFFICES (Regulars(tags) => Copies(tags)') /\ Demuxed
  BY <1>4, <1>5 DEF DemuxInv, Demuxed
<1>7. CASE Next /\ Regulars(tags)
  <2>1. Where(tags) /\ Copies(tags)  BY <1>1, <1>7 DEF Telling
  <2>. QED BY <1>2, <1>7, <2>1, RegularSteps
<1>8. CASE Next /\ ~Regulars(tags)
  <2>1. ~AllRegular  BY <1>2, <1>8, SentIs DEF AllRegular, Regulars
  <2>. QED BY <1>8, <2>1, OddSteps
<1>9. CASE UNCHANGED vars
  <2>1. Regulars(tags) => Copies(tags)'  BY <1>1, <1>9, CopiesStay
  <2>2. /\ CountsStay /\ ListedOf(sent, vFlvTag)' = ListedOf(sent, vFlvTag)
        /\ OwedOf(sent, vFlvTag, h264)' = OwedOf(sent, vFlvTag, h264)
        /\ DamagedOf(sent, h264)' = DamagedOf(sent, h264) /\ phase' = phase
    BY <1>9 DEF vars, CountsStay
  <2>. QED BY <2>1, <2>2, DemuxStutters DEF Demuxed
<1>. QED BY <1>7, <1>8, <1>9

\* On regular streams, however cut, ParseBody copies each unit of a tag once and in order before
\* it lists the next tag, and once it has damaged a unit it does nothing but finish.
THEOREM FileParserDemultiplexes == Spec => Demultiplexes
<1>1. DemuxInv /\ [Next]_vars => DemuxInv' /\ [D!Next]_(D!vars)  BY DemuxGoesOn
<1>. QED BY <1>1, DemuxBegins, PTL DEF Spec, Demultiplexes, D!Spec
=============================================================================
