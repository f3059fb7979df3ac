---------------------------- MODULE NalScanProofs ----------------------------
(***************************************************************************)
(* That the scanner goes forward and finds every unit, for every file and  *)
(* every decoder.  The reason is what the buffer holds: it is the file     *)
(* from the offset on (SoFar), so a start code at its end is a start code  *)
(* in the file at the place the scanner goes back to.  Inv says this; on   *)
(* top of it FileInv says that the units listed are the file cut at its    *)
(* start codes up to the offset, which is such a cut itself.               *)
(***************************************************************************)
EXTENDS NalScan, SequenceTheorems, FiniteSetTheorems, TLAPS

\* The buffer is the file from `start' on, and 255 for what is behind it.
SoFar(start) ==
  \A i \in 1..pos : buffer[i] = IF start + i <= Size THEN file.bytes[start + i] ELSE 255

\* Where the file stands when the buffer began at `start'.
At(start) == IF eof THEN fp = Size /\ start + pos = Size + 1
                    ELSE fp = start + pos /\ fp <= Size

TypeInv ==
  /\ file.bytes \in Seq(0..255) /\ buffer \in Seq(0..255)
  /\ fp \in Nat /\ offset \in Int
  /\ "startcodeLen" \in DOMAIN n

FindInv == pc = "find" => SoFar(0) /\ At(0)

\* Where a unit is expected there is a start code, or nothing at all.
ProbeInv == pc = "probe" /\ ~eof => fp = offset /\ (StartcodeAtFp # 0 \/ fp > Size)

\* The buffer begins with the unit's own start code.  That its third byte is 1
\* when the code is short keeps the next long code from overlapping it.
ScanInv ==
  pc = "scan" =>
    /\ offset \in Nat /\ SoFar(offset) /\ At(offset)
    /\ n.startcodeLen \in {3, 4} /\ pos >= n.startcodeLen
    /\ n.startcodeLen = 3 => buffer[3] = 1
    /\ eof => pos > n.startcodeLen

Inv == TypeInv /\ FindInv /\ ProbeInv /\ ScanInv

-----------------------------------------------------------------------------
(* Start codes                                                              *)

\* What CodeBehind finds at the end of bytes long enough for it.
LEMMA CodeAtEnd ==
  ASSUME NEW b \in Seq(0..255)
  PROVE  /\ CodeBehind(b) \in {0, 3, 4}
         /\ CodeBehind(b) = 4 /\ Len(b) >= 4 =>
              /\ b[Len(b) - 3] = 0 /\ b[Len(b) - 2] = 0 /\ b[Len(b) - 1] = 0 /\ b[Len(b)] = 1
         /\ CodeBehind(b) = 3 /\ Len(b) >= 3 =>
              b[Len(b) - 2] = 0 /\ b[Len(b) - 1] = 0 /\ b[Len(b)] = 1
<1>1. Len(b) \in Nat  OBVIOUS
<1>2. CodeBehind(b) \in {0, 3, 4}  BY DEF CodeBehind
<1>3. ASSUME CodeBehind(b) = 4, Len(b) >= 4
      PROVE  b[Len(b) - 3] = 0 /\ b[Len(b) - 2] = 0 /\ b[Len(b) - 1] = 0 /\ b[Len(b)] = 1
  BY <1>1, <1>3 DEF CodeBehind, findStartcode4, findStartcode3, ByteAt
<1>4. ASSUME CodeBehind(b) = 3, Len(b) >= 3
      PROVE  b[Len(b) - 2] = 0 /\ b[Len(b) - 1] = 0 /\ b[Len(b)] = 1
  BY <1>1, <1>4 DEF CodeBehind, findStartcode4, findStartcode3, ByteAt
<1>. QED BY <1>2, <1>3, <1>4

\* What StartcodeAtFp sees of the file.
LEMMA NextBytes ==
  ASSUME TypeInv, NEW k \in 1..4
  PROVE  /\ fp + k <= Size => Len(Next3or4(k)) = k
         /\ fp + k > Size => Len(Next3or4(k)) < k
         /\ Len(Next3or4(k)) \in Nat
         /\ \A i \in 1..k : fp + i <= Size => Next3or4(k)[i] = file.bytes[fp + i]
<1>1. file.bytes \in Seq(0..255) /\ fp \in Nat /\ Size \in Nat  BY DEF TypeInv, Size
<1>2. CASE fp + k <= Size
  <2>1. Next3or4(k) = SubSeq(file.bytes, fp + 1, fp + k)
    BY <1>1, <1>2 DEF Next3or4
  <2>. QED BY <1>1, <1>2, <2>1 DEF Size
<1>3. CASE fp + k > Size
  <2>1. Next3or4(k) = SubSeq(file.bytes, fp + 1, Size)
    BY <1>1, <1>3 DEF Next3or4
  <2>. QED BY <1>1, <1>3, <2>1 DEF Size
<1>. QED BY <1>1, <1>2, <1>3

LEMMA CodeAtFp ==
  ASSUME TypeInv
  PROVE  /\ StartcodeAtFp \in {0, 3, 4}
         /\ StartcodeAtFp # 0 => fp + StartcodeAtFp <= Size
         /\ StartcodeAtFp = 3 => file.bytes[fp + 3] = 1
         /\ fp + 3 <= Size /\ file.bytes[fp + 1] = 0 /\ file.bytes[fp + 2] = 0
              /\ file.bytes[fp + 3] = 1 => StartcodeAtFp # 0
         /\ fp + 4 <= Size /\ file.bytes[fp + 1] = 0 /\ file.bytes[fp + 2] = 0
              /\ file.bytes[fp + 3] = 0 /\ file.bytes[fp + 4] = 1 => StartcodeAtFp # 0
<1>. DEFINE four == Next3or4(4)
            three == Len(four) >= 3 /\ four[1] = 0 /\ four[2] = 0 /\ four[3] = 1
            all == Len(four) = 4 /\ four[1] = 0 /\ four[2] = 0 /\ four[3] = 0 /\ four[4] = 1
<1>1. fp \in Nat /\ Size \in Nat  BY DEF TypeInv, Size
<1>2. /\ Len(four) \in Nat
      /\ fp + 4 <= Size <=> Len(four) = 4
      /\ \A i \in 1..4 : fp + i <= Size => four[i] = file.bytes[fp + i]
  <2>1. /\ fp + 4 <= Size => Len(Next3or4(4)) = 4
        /\ fp + 4 > Size => Len(Next3or4(4)) < 4
        /\ Len(Next3or4(4)) \in Nat
        /\ \A i \in 1..4 : fp + i <= Size => Next3or4(4)[i] = file.bytes[fp + i]
    BY NextBytes, 4 \in 1..4
  <2>2. fp + 4 <= Size \/ fp + 4 > Size  BY <1>1
  <2>3. ~(Len(four) = 4 /\ Len(four) < 4)  BY <2>1
  <2>. QED BY <2>1, <2>2, <2>3
<1>3. fp + 3 <= Size <=> Len(four) >= 3
  <2>1. four = SubSeq(file.bytes, fp + 1, IF fp + 4 < Size THEN fp + 4 ELSE Size)
    BY DEF Next3or4
  <2>. QED BY <1>1, <2>1 DEF TypeInv, Size
<1>4. StartcodeAtFp = (CASE three -> 3 [] all -> 4 [] OTHER -> 0)
  <2>1. findStartcode3(four, 0) <=> four[1] = 0 /\ four[2] = 0 /\ four[3] = 1
    BY DEF findStartcode3, ByteAt
  <2>2. findStartcode4(four, 0) <=> four[1] = 0 /\ four[2] = 0 /\ four[3] = 0 /\ four[4] = 1
    BY DEF findStartcode4, findStartcode3, ByteAt
  <2>. QED BY <2>1, <2>2 DEF StartcodeAtFp
<1>5. ~(three /\ all)  OBVIOUS
<1>. HIDE DEF four
<1>. QED BY <1>1, <1>2, <1>3, <1>4, <1>5, SMTT(60)

-----------------------------------------------------------------------------
(* Reading                                                                  *)

LEMMA ElementOf ==
  ASSUME NEW S, NEW s \in Seq(S), NEW i \in 1..Len(s)
  PROVE  s[i] \in S
OBVIOUS

\* One more byte in the buffer, wherever it began.
LEMMA OneMore ==
  ASSUME NEW start \in Nat, TypeInv, file' = file, fgetc, ~eof, SoFar(start), At(start)
  PROVE  /\ buffer' \in Seq(0..255) /\ fp' \in Nat
         /\ Len(buffer') = pos + 1 /\ \A i \in 1..pos : buffer'[i] = buffer[i]
         /\ SoFar(start)' /\ At(start)'
<1>1. /\ file.bytes \in Seq(0..255) /\ buffer \in Seq(0..255)
      /\ fp \in Nat /\ Size \in Nat /\ pos \in Nat
      /\ fp = start + pos /\ fp <= Size /\ Size' = Size
  BY DEF TypeInv, At, Size, pos
<1>. DEFINE byte == IF fp < Size THEN file.bytes[fp + 1] ELSE 255
<1>2. byte \in 0..255
  <2>1. CASE fp < Size
    <3>1. fp + 1 \in 1..Len(file.bytes)  BY <1>1, <2>1 DEF Size
    <3>2. file.bytes[fp + 1] \in 0..255  BY <1>1, <3>1, ElementOf
    <3>. QED BY <2>1, <3>2
  <2>2. CASE ~(fp < Size)  BY <2>2
  <2>. QED BY <2>1, <2>2
<1>3. buffer' = Append(buffer, byte)  BY DEF fgetc
<1>. HIDE DEF byte
<1>4. /\ buffer' \in Seq(0..255) /\ Len(buffer') = pos + 1 /\ buffer'[pos + 1] = byte
      /\ \A i \in 1..pos : buffer'[i] = buffer[i]
  BY <1>1, <1>2, <1>3 DEF pos
<1>5. fp' \in Nat /\ At(start)'
  <2>1. fp' = IF fp < Size THEN fp + 1 ELSE fp  BY DEF fgetc
  <2>2. eof' <=> (fp >= Size)  BY Zenon DEF fgetc
  <2>3. pos' = pos + 1  BY <1>4 DEF pos
  <2>. QED BY <1>1, <2>1, <2>2, <2>3 DEF At
<1>6. SoFar(start)'
  <2>1. ASSUME NEW i \in 1..pos'
        PROVE  buffer'[i] = IF start + i <= Size THEN file.bytes[start + i] ELSE 255
    <3>1. CASE i = pos + 1
      BY <1>1, <1>4, <3>1 DEF byte
    <3>2. CASE i \in 1..pos
      BY <1>1, <1>4, <3>2 DEF SoFar
    <3>. QED BY <1>1, <1>4, <2>1, <3>1, <3>2 DEF pos
  <2>. QED BY <1>1, <2>1 DEF SoFar
<1>. QED BY <1>4, <1>5, <1>6

-----------------------------------------------------------------------------
(* The invariant                                                            *)

\* A start code in the file is seen by a scanner that stands in front of it.
CodeIsSeen ==
  /\ fp + 3 <= Size /\ file.bytes[fp + 1] = 0 /\ file.bytes[fp + 2] = 0
       /\ file.bytes[fp + 3] = 1 => StartcodeAtFp # 0
  /\ fp + 4 <= Size /\ file.bytes[fp + 1] = 0 /\ file.bytes[fp + 2] = 0
       /\ file.bytes[fp + 3] = 0 /\ file.bytes[fp + 4] = 1 => StartcodeAtFp # 0

LEMMA SeenNow == TypeInv => CodeIsSeen
BY CodeAtFp DEF CodeIsSeen

LEMMA SeenNext == TypeInv' => CodeIsSeen'
BY SeenNow, PTL

\* One lemma for each action or group of actions.
LEMMA Initially == Init => Inv
<1>. SUFFICES ASSUME Init PROVE Inv  OBVIOUS
<1>1. TypeInv  BY DEF Init, TypeInv, NoBytes, NoUnit
<1>. QED BY <1>1 DEF Init, Inv, FindInv, ProbeInv, ScanInv

LEMMA Starts ==
  ASSUME Inv, CheckBitStream \/ NoFile
  PROVE  Inv'
<1>1. CASE CheckBitStream
  <2>1. TypeInv'
    BY <1>1, NalScanAssumption DEF CheckBitStream, TypeInv, NoUnit
  <2>2. FindInv'
    BY <1>1, <2>1 DEF CheckBitStream, FindInv, TypeInv, SoFar, At, Size, pos
  <2>. QED BY <1>1, <2>1, <2>2 DEF CheckBitStream, Inv, ProbeInv, ScanInv
<1>2. CASE NoFile
  BY <1>2 DEF NoFile, reading, Inv, TypeInv, FindInv, ProbeInv, ScanInv, NoBytes
<1>. QED BY <1>1, <1>2

LEMMA FindsByte ==
  ASSUME Inv, FindByte
  PROVE  Inv'
<1>1. /\ pc = "find" /\ ~eof /\ file' = file /\ fgetc
      /\ UNCHANGED <<pc, offset, n>>
  BY DEF FindByte
<1>2. buffer' \in Seq(0..255) /\ fp' \in Nat /\ SoFar(0)' /\ At(0)'
  BY <1>1, OneMore, 0 \in Nat DEF Inv, FindInv
<1>3. TypeInv'  BY <1>1, <1>2 DEF Inv, TypeInv
<1>. QED BY <1>1, <1>2, <1>3 DEF Inv, FindInv, ProbeInv, ScanInv

LEMMA FindsFirst ==
  ASSUME Inv, FoundFirst
  PROVE  Inv'
<1>. DEFINE code == CodeBehind(buffer)
<1>1. /\ pc = "find" /\ pc' = "probe" /\ pos - code >= 0
      /\ offset' = pos - code /\ fp' = pos - code /\ buffer' = <<>> /\ file' = file
  BY DEF FoundFirst, FirstOffset
<1>10. code = 0 => eof  BY DEF FoundFirst
<1>2. TypeInv /\ SoFar(0) /\ At(0)
  BY <1>1 DEF Inv, FindInv
<1>3. /\ file.bytes \in Seq(0..255) /\ buffer \in Seq(0..255) /\ fp \in Nat
      /\ pos \in Nat /\ pos = Len(buffer) /\ Size \in Nat
  BY <1>2 DEF TypeInv, pos, Size
<1>4. Size' = Size  BY <1>1 DEF Size
<1>5. /\ code \in {0, 3, 4}
      /\ code = 4 /\ pos >= 4 => buffer[pos - 3] = 0 /\ buffer[pos - 2] = 0
                                   /\ buffer[pos - 1] = 0 /\ buffer[pos] = 1
      /\ code = 3 /\ pos >= 3 => buffer[pos - 2] = 0 /\ buffer[pos - 1] = 0 /\ buffer[pos] = 1
  BY <1>3, CodeAtEnd
<1>. HIDE DEF code
<1>6. fp' \in Nat /\ offset' \in Nat  BY <1>1, <1>3, <1>5
<1>7. "startcodeLen" \in DOMAIN n'  BY DEF FoundFirst, NoUnit
<1>8. TypeInv'
  BY <1>1, <1>3, <1>6, <1>7 DEF TypeInv
<1>9. StartcodeAtFp' # 0 \/ fp' > Size'
  <2>1. CASE code = 0
    BY <1>1, <1>2, <1>3, <1>4, <1>10, <2>1 DEF At
  <2>2. CASE code # 0
    <3>1. pos >= code /\ code \in {3, 4} /\ buffer[pos] = 1
      BY <1>1, <1>3, <1>5, <2>2
    <3>2. pos <= Size
      BY <1>2, <1>3, <3>1 DEF SoFar, At
    <3>3. \A i \in 1..code : file'.bytes[fp' + i] = buffer[pos - code + i]
      BY <1>1, <1>2, <1>3, <3>1, <3>2 DEF SoFar
    <3>4. CodeIsSeen'  BY <1>8, SeenNext
    <3>5. CASE code = 3
      <4>1. /\ fp' + 3 <= Size' /\ file'.bytes[fp' + 1] = 0 /\ file'.bytes[fp' + 2] = 0
            /\ file'.bytes[fp' + 3] = 1
        BY <1>1, <1>3, <1>4, <1>5, <3>1, <3>2, <3>3, <3>5
      <4>. QED BY <3>4, <4>1 DEF CodeIsSeen
    <3>6. CASE code = 4
      <4>1. /\ fp' + 4 <= Size' /\ file'.bytes[fp' + 1] = 0 /\ file'.bytes[fp' + 2] = 0
            /\ file'.bytes[fp' + 3] = 0 /\ file'.bytes[fp' + 4] = 1
        BY <1>1, <1>3, <1>4, <1>5, <3>1, <3>2, <3>3, <3>6, SMTT(60)
      <4>. QED BY <3>4, <4>1 DEF CodeIsSeen
    <3>. QED BY <3>1, <3>5, <3>6
  <2>. QED BY <2>1, <2>2
<1>. QED BY <1>1, <1>8, <1>9 DEF Inv, FindInv, ProbeInv, ScanInv

LEMMA ReadsStartcode ==
  ASSUME Inv, ReadStartcode
  PROVE  Inv'
<1>. DEFINE code == StartcodeAtFp
<1>1. /\ pc = "probe" /\ ~eof /\ code # 0 /\ pc' = "scan" /\ fp' = fp + code
      /\ buffer' = SubSeq(file.bytes, fp + 1, fp + code)
      /\ UNCHANGED <<file, eof, offset>>
  BY Zenon DEF ReadStartcode
<1>2. /\ code \in {3, 4} /\ fp + code <= Size
      /\ code = 3 => file.bytes[fp + 3] = 1
  BY <1>1, CodeAtFp DEF Inv
<1>. HIDE DEF code
<1>3. /\ file.bytes \in Seq(0..255) /\ fp \in Nat /\ offset = fp
      /\ Size = Len(file.bytes) /\ Size' = Size /\ "startcodeLen" \in DOMAIN n
  BY <1>1, <1>2 DEF Inv, TypeInv, ProbeInv, Size
<1>4. /\ buffer' \in Seq(0..255) /\ Len(buffer') = code
      /\ \A i \in 1..code : buffer'[i] = file.bytes[fp + i]
  <2>1. /\ fp + 1 \in 1..Len(file.bytes) /\ fp + code \in 1..Len(file.bytes)
        /\ fp + code \in Nat /\ fp + 1 \in Nat
    BY <1>2, <1>3
  <2>. DEFINE bytes == file.bytes
              from == fp + 1
              to == fp + code
  <2>2. bytes \in Seq(0..255) /\ from \in 1..Len(bytes) /\ to \in 1..Len(bytes)
    BY <1>3, <2>1
  <2>3. buffer' = SubSeq(bytes, from, to)  BY <1>1
  <2>4. to - from + 1 = code /\ from <= to /\ \A i \in 1..code : from + i - 1 = fp + i
    BY <1>2, <1>3
  <2>. HIDE DEF bytes, from, to
  <2>5. from \in Int /\ to \in Int /\ \A i \in from..to : bytes[i] \in 0..255
    <3>1. from \in Int /\ to \in Int  BY <2>2
    <3>2. ASSUME NEW i \in from..to PROVE bytes[i] \in 0..255
      <4>1. i \in 1..Len(bytes)  BY <2>2, <3>2
      <4>. QED BY <2>2, <4>1, ElementOf
    <3>. QED BY <3>1, <3>2
  <2>6. /\ buffer' \in Seq(0..255) /\ Len(buffer') = IF from <= to THEN to - from + 1 ELSE 0
        /\ \A i \in 1..(to - from + 1) : buffer'[i] = bytes[from + i - 1]
    BY <2>3, <2>5, SubSeqProperties
  <2>. QED BY <2>4, <2>6 DEF bytes
<1>5. n'.startcodeLen = code /\ "startcodeLen" \in DOMAIN n'
  <2>1. n' = [n EXCEPT !.startcodeLen = code]  BY Zenon DEF ReadStartcode, code
  <2>. QED BY <1>3, <2>1
<1>6. TypeInv'
  BY <1>1, <1>2, <1>3, <1>4, <1>5 DEF TypeInv
<1>7. ScanInv'
  BY <1>1, <1>2, <1>3, <1>4, <1>5 DEF ScanInv, SoFar, At, pos
<1>. QED BY <1>1, <1>6, <1>7 DEF Inv, FindInv, ProbeInv

LEMMA ListsAgain ==
  ASSUME Inv, NoStartcode
  PROVE  Inv'
<1>. DEFINE four == Len(Next3or4(4)) = 4
<1>1. /\ pc = "probe" /\ ~eof /\ StartcodeAtFp = 0 /\ pc' = "probe" /\ file' = file
      /\ n' = n /\ offset' = offset + (IF four THEN -1 ELSE 0) /\ buffer' = <<>>
      /\ fp' = (IF fp < Size THEN IF four THEN fp + 4 ELSE Size ELSE fp)
  BY DEF NoStartcode, ListUnit
<1>2. eof' <=> ~four  BY Zenon DEF NoStartcode
<1>3. TypeInv /\ fp \in Nat /\ Size \in Nat /\ offset \in Int
  BY DEF Inv, TypeInv, Size
<1>4. fp > Size  BY <1>1 DEF Inv, ProbeInv
<1>5. ~four
  <2>1. fp + 4 > Size  BY <1>3, <1>4
  <2>2. Len(Next3or4(4)) < 4 /\ Len(Next3or4(4)) \in Nat
    BY <1>3, <2>1, NextBytes, 4 \in 1..4
  <2>. QED BY <2>2
<1>6. TypeInv'
  <2>1. offset' \in Int /\ fp' \in Nat  BY <1>1, <1>3, <1>4, <1>5
  <2>. QED BY <1>1, <1>3, <2>1 DEF TypeInv
<1>7. ProbeInv'  BY <1>2, <1>5 DEF ProbeInv
<1>. QED BY <1>1, <1>6, <1>7 DEF Inv, FindInv, ScanInv

LEMMA ScansByte ==
  ASSUME Inv, ScanByte
  PROVE  Inv'
<1>1. /\ pc = "scan" /\ ~eof /\ file' = file /\ fgetc
      /\ pc' = pc /\ offset' = offset /\ n' = n
  BY DEF ScanByte
<1>2. /\ TypeInv /\ offset \in Nat /\ SoFar(offset) /\ At(offset) /\ pos \in Nat
      /\ n.startcodeLen \in {3, 4} /\ pos >= n.startcodeLen
      /\ n.startcodeLen = 3 => buffer[3] = 1
  BY <1>1 DEF Inv, TypeInv, ScanInv, pos
<1>3. PICK start \in Nat : start = offset  BY <1>2
<1>4. /\ buffer' \in Seq(0..255) /\ fp' \in Nat
      /\ Len(buffer') = pos + 1 /\ \A i \in 1..pos : buffer'[i] = buffer[i]
      /\ SoFar(start)' /\ At(start)'
  BY <1>1, <1>2, <1>3, OneMore
<1>5. TypeInv'  BY <1>1, <1>2, <1>4 DEF TypeInv
<1>6. ScanInv'
  <2>1. SoFar(offset)' /\ At(offset)'
    BY <1>1, <1>3, <1>4 DEF SoFar, At
  <2>2. pos' > n'.startcodeLen /\ pos' >= n'.startcodeLen /\ n'.startcodeLen \in {3, 4}
    BY <1>1, <1>2, <1>4 DEF pos
  <2>3. n'.startcodeLen = 3 => buffer'[3] = 1
    BY <1>1, <1>2, <1>4
  <2>. QED BY <1>1, <1>2, <2>1, <2>2, <2>3 DEF ScanInv
<1>. QED BY <1>1, <1>5, <1>6 DEF Inv, FindInv, ProbeInv

\* What a unit that has been read tells of the positions.
LEMMA UnitRead ==
  ASSUME Inv, GotNal
  PROVE  /\ offset' \in Nat /\ fp' \in Nat
         /\ offset' > offset /\ fp' = offset'
         /\ ~eof => StartcodeAtFp' # 0
         /\ TypeInv'
<1>. DEFINE code == CodeBehind(buffer)
            len == pos - Rewind(code)
<1>1. /\ pc = "scan" /\ file' = file /\ offset' = offset + len /\ buffer' = <<>>
      /\ fp' = IF eof THEN fp ELSE fp - code
  BY DEF GotNal, ListUnit
<1>2. ~eof => pos > n.startcodeLen /\ code # 0
  BY DEF GotNal, AtNextCode
<1>3. /\ TypeInv /\ offset \in Nat /\ SoFar(offset) /\ At(offset)
      /\ n.startcodeLen \in {3, 4} /\ pos >= n.startcodeLen
      /\ n.startcodeLen = 3 => buffer[3] = 1
      /\ eof => pos > n.startcodeLen
  BY <1>1 DEF Inv, ScanInv
<1>4. /\ file.bytes \in Seq(0..255) /\ buffer \in Seq(0..255) /\ fp \in Nat
      /\ pos \in Nat /\ pos = Len(buffer) /\ Size \in Nat
  BY <1>3 DEF TypeInv, pos, Size
<1>5. Size' = Size  BY <1>1 DEF Size
<1>6. /\ code \in {0, 3, 4}
      /\ code = 4 /\ pos >= 4 => buffer[pos - 3] = 0 /\ buffer[pos - 2] = 0
                                   /\ buffer[pos - 1] = 0 /\ buffer[pos] = 1
      /\ code = 3 /\ pos >= 3 => buffer[pos - 2] = 0 /\ buffer[pos - 1] = 0 /\ buffer[pos] = 1
  BY <1>4, CodeAtEnd
<1>7. "startcodeLen" \in DOMAIN n'
  <2>1. "startcodeLen" \in DOMAIN n  BY <1>3 DEF TypeInv
  <2>. QED BY <2>1 DEF GotNal, ListUnit
<1>. HIDE DEF code
<1>8. pos >= 4 /\ pos > n.startcodeLen  BY <1>2, <1>3, <1>4
<1>9. CASE eof
  <2>1. len = pos - 1 /\ fp = Size /\ offset + pos = Size + 1
    BY <1>3, <1>9 DEF Rewind, At
  <2>2. offset' \in Nat /\ offset' > offset /\ fp' = offset'
    BY <1>1, <1>3, <1>4, <1>8, <1>9, <2>1
  <2>3. TypeInv'  BY <1>1, <1>4, <1>7, <2>2 DEF TypeInv
  <2>. QED BY <1>9, <2>2, <2>3
<1>10. CASE ~eof
  <2>1. len = pos - code /\ fp = offset + pos /\ fp <= Size /\ code \in {3, 4}
    BY <1>2, <1>3, <1>6, <1>10 DEF Rewind, At
  <2>2. ~(pos = 4 /\ code = 4)
    <3>1. SUFFICES ASSUME pos = 4, code = 4 PROVE FALSE  OBVIOUS
    <3>2. n.startcodeLen = 3  BY <1>3, <1>8, <3>1
    <3>3. buffer[3] = 1 /\ buffer[3] = 0  BY <1>3, <1>6, <3>1, <3>2
    <3>. QED BY <3>3
  <2>3. offset' \in Nat /\ offset' > offset /\ fp' = offset'
    BY <1>1, <1>3, <1>4, <1>8, <1>10, <2>1, <2>2
  <2>4. TypeInv'  BY <1>1, <1>4, <1>7, <2>3 DEF TypeInv
  <2>5. \A i \in 1..code : file'.bytes[fp' + i] = buffer[pos - code + i]
    <3>1. ASSUME NEW i \in 1..code
          PROVE  file'.bytes[fp' + i] = buffer[pos - code + i]
      <4>1. pos - code + i \in 1..pos /\ offset + (pos - code + i) <= Size
        BY <1>3, <1>4, <1>8, <2>1, <3>1
      <4>2. buffer[pos - code + i] = file.bytes[offset + (pos - code + i)]
        BY <1>3, <4>1 DEF SoFar
      <4>3. fp' + i = offset + (pos - code + i)
        BY <1>1, <1>3, <1>4, <1>10, <2>1, <3>1
      <4>. QED BY <1>1, <4>2, <4>3
    <3>. QED BY <3>1
  <2>6. fp' + code <= Size'  BY <1>1, <1>4, <1>5, <1>10, <2>1
  <2>7. CodeIsSeen'  BY <2>4, SeenNext
  <2>8. CASE code = 3
    <3>1. /\ fp' + 3 <= Size' /\ file'.bytes[fp' + 1] = 0 /\ file'.bytes[fp' + 2] = 0
          /\ file'.bytes[fp' + 3] = 1
      BY <1>4, <1>6, <1>8, <2>5, <2>6, <2>8
    <3>. QED BY <2>3, <2>4, <2>7, <3>1 DEF CodeIsSeen
  <2>9. CASE code = 4
    <3>1. /\ fp' + 4 <= Size' /\ file'.bytes[fp' + 1] = 0 /\ file'.bytes[fp' + 2] = 0
          /\ file'.bytes[fp' + 3] = 0 /\ file'.bytes[fp' + 4] = 1
      BY <1>4, <1>6, <1>8, <2>5, <2>6, <2>9
    <3>. QED BY <2>3, <2>4, <2>7, <3>1 DEF CodeIsSeen
  <2>. QED BY <2>1, <2>8, <2>9
<1>. QED BY <1>9, <1>10

LEMMA GetsNal ==
  ASSUME Inv, GotNal
  PROVE  Inv'
<1>1. pc' = "probe" /\ (eof' <=> eof)  BY Zenon DEF GotNal
<1>2. fp' = offset' /\ (~eof => StartcodeAtFp' # 0) /\ TypeInv'  BY UnitRead
<1>3. ProbeInv'  BY <1>1, <1>2 DEF ProbeInv
<1>. QED BY <1>1, <1>2, <1>3 DEF Inv, FindInv, ScanInv

LEMMA Stops ==
  ASSUME Inv, Refuse \/ Overrun \/ Report
  PROVE  Inv'
<1>1. pc' \in {"done", "outside"} /\ UNCHANGED <<file, fp, buffer, offset, n>>
  BY DEF Refuse, Overrun, Report, reading
<1>2. TypeInv'  BY <1>1 DEF Inv, TypeInv
<1>. QED BY <1>1, <1>2 DEF Inv, FindInv, ProbeInv, ScanInv

LEMMA Stutters ==
  ASSUME Inv, UNCHANGED vars
  PROVE  Inv'
<1>1. UNCHANGED <<pc, file, ahead, fp, eof, buffer, offset, n>>  BY DEF vars, reading
<1>2. TypeInv'  BY <1>1 DEF Inv, TypeInv
<1>3. FindInv'  BY <1>1 DEF Inv, FindInv, SoFar, At, Size, pos
<1>4. ScanInv'  BY <1>1 DEF Inv, ScanInv, SoFar, At, Size, pos
<1>5. ProbeInv'
  <2>1. Next3or4(4)' = Next3or4(4)  BY <1>1 DEF Next3or4, Size
  <2>2. StartcodeAtFp' = StartcodeAtFp
    BY <1>1, <2>1 DEF StartcodeAtFp, findStartcode3, findStartcode4, ByteAt
  <2>. QED BY <1>1, <2>2 DEF Inv, ProbeInv, Size
<1>. QED BY <1>2, <1>3, <1>4, <1>5 DEF Inv

LEMMA Invariance == Spec => []Inv
<1>1. Inv /\ [Next]_vars => Inv'
  BY Starts, FindsByte, FindsFirst, ReadsStartcode, ListsAgain, ScansByte, GetsNal, Stops,
     Stutters DEF Next
<1>. QED BY Initially, <1>1, PTL DEF Spec

-----------------------------------------------------------------------------
(* Where the file is cut                                                    *)

\* Codes and Begins by the bytes of the file, which are counted from 1.
LEMMA CodesAre ==
  ASSUME TypeInv, NEW i
  PROVE  i \in Codes <=> /\ i \in 0..(Size - 3)
                         /\ file.bytes[i + 1] = 0 /\ file.bytes[i + 2] = 0
                         /\ file.bytes[i + 3] = 1
<1>1. Size \in Nat  BY DEF TypeInv, Size
<1>2. ASSUME i \in 0..(Size - 3)
      PROVE  findStartcode3(file.bytes, i) <=> /\ file.bytes[i + 1] = 0 /\ file.bytes[i + 2] = 0
                                               /\ file.bytes[i + 3] = 1
  <2>1. i \in Int /\ i >= 0 /\ (i + 1) + 1 = i + 2 /\ (i + 2) + 1 = i + 3  BY <1>1, <1>2
  <2>. QED BY <2>1 DEF findStartcode3, ByteAt
<1>. QED BY <1>2 DEF Codes

LEMMA BeginsAre ==
  ASSUME TypeInv, NEW b
  PROVE  b \in Begins <=> \/ b \in Codes /\ (b = 0 \/ file.bytes[b] # 0)
                          \/ b \in Nat /\ b + 1 \in Codes /\ file.bytes[b + 1] = 0
<1>1. ASSUME NEW i \in Codes
      PROVE  /\ i \in Nat
             /\ i > 0 /\ ByteAt(file.bytes, i - 1) = 0 <=> i > 0 /\ file.bytes[i] = 0
  <2>1. i \in Nat  BY CodesAre
  <2>2. i > 0 => ByteAt(file.bytes, i - 1) = file.bytes[i]
    BY <2>1 DEF ByteAt
  <2>. QED BY <2>1, <2>2
<1>2. ASSUME b \in Begins
      PROVE  \/ b \in Codes /\ (b = 0 \/ file.bytes[b] # 0)
             \/ b \in Nat /\ b + 1 \in Codes /\ file.bytes[b + 1] = 0
  <2>1. PICK i \in Codes : b = IF i > 0 /\ ByteAt(file.bytes, i - 1) = 0 THEN i - 1 ELSE i
    BY <1>2 DEF Begins
  <2>2. CASE i > 0 /\ file.bytes[i] = 0
    <3>1. b = i - 1 /\ b \in Nat /\ b + 1 = i  BY <1>1, <2>1, <2>2
    <3>. QED BY <2>2, <3>1
  <2>3. CASE ~(i > 0 /\ file.bytes[i] = 0)
    <3>1. b = i /\ (i > 0 \/ i = 0)  BY <1>1, <2>1, <2>3
    <3>. QED BY <2>3, <3>1
  <2>. QED BY <2>2, <2>3
<1>3. ASSUME b \in Codes, b = 0 \/ file.bytes[b] # 0
      PROVE  b \in Begins
  <2>1. ~(b > 0 /\ ByteAt(file.bytes, b - 1) = 0)  BY <1>1, <1>3
  <2>. QED BY <1>3, <2>1 DEF Begins
<1>4. ASSUME b \in Nat, b + 1 \in Codes, file.bytes[b + 1] = 0
      PROVE  b \in Begins
  <2>1. b + 1 > 0 /\ ByteAt(file.bytes, (b + 1) - 1) = 0  BY <1>1, <1>4
  <2>2. b = (b + 1) - 1  BY <1>4
  <2>. QED BY <1>4, <2>1, <2>2 DEF Begins
<1>. QED BY <1>2, <1>3, <1>4

LEMMA SameCodes ==
  ASSUME file' = file, ahead' = ahead
  PROVE  Codes' = Codes /\ Begins' = Begins /\ Size' = Size
BY DEF Codes, Begins, Size, findStartcode3, ByteAt

\* A cut lies inside the file and a byte 0 is there.
LEMMA CutInFile ==
  ASSUME TypeInv, NEW b \in Begins
  PROVE  b \in Nat /\ b + 3 <= Size /\ file.bytes[b + 1] = 0
<1>1. Size \in Nat  BY DEF TypeInv, Size
<1>2. CASE b \in Codes  BY <1>1, <1>2, CodesAre
<1>3. CASE b \in Nat /\ b + 1 \in Codes /\ file.bytes[b + 1] = 0  BY <1>1, <1>3, CodesAre
<1>. QED BY <1>2, <1>3, BeginsAre

\* What the end of the buffer says of the file: a start code there is found, and
\* where one is found the file is to be cut.
LEMMA CodeInFile ==
  ASSUME TypeInv, NEW start \in Nat, SoFar(start)
  PROVE  /\ \A i \in Codes : i >= start /\ i + 3 = start + pos => CodeBehind(buffer) # 0
         /\ CodeBehind(buffer) = 4 /\ pos >= 4 =>
              start + pos <= Size /\ start + pos - 4 \in Begins
         /\ CodeBehind(buffer) = 3 /\ pos >= 3 /\ (pos >= 4 \/ start = 0) =>
              /\ start + pos <= Size /\ start + pos - 3 \in Begins
              /\ pos >= 4 => file.bytes[start + pos - 3] # 0
<1>. DEFINE code == CodeBehind(buffer)
<1>1. /\ file.bytes \in Seq(0..255) /\ buffer \in Seq(0..255) /\ pos \in Nat
      /\ pos = Len(buffer) /\ Size \in Nat
  BY DEF TypeInv, pos, Size
<1>2. ASSUME NEW j \in 1..pos
      PROVE  buffer[j] = IF start + j <= Size THEN file.bytes[start + j] ELSE 255
  BY <1>2 DEF SoFar
<1>3. /\ code \in {0, 3, 4}
      /\ code = 4 /\ pos >= 4 => buffer[pos - 3] = 0 /\ buffer[pos - 2] = 0
                                   /\ buffer[pos - 1] = 0 /\ buffer[pos] = 1
      /\ code = 3 /\ pos >= 3 => buffer[pos - 2] = 0 /\ buffer[pos - 1] = 0 /\ buffer[pos] = 1
  BY <1>1, CodeAtEnd
<1>4. ASSUME NEW i \in Codes, i >= start, i + 3 = start + pos
      PROVE  code # 0
  <2>1. /\ i \in 0..(Size - 3) /\ file.bytes[i + 1] = 0 /\ file.bytes[i + 2] = 0
        /\ file.bytes[i + 3] = 1
    BY CodesAre
  <2>2. pos >= 3 /\ start + pos <= Size /\ i = start + pos - 3  BY <1>1, <1>4, <2>1
  <2>3. buffer[pos - 2] = 0 /\ buffer[pos - 1] = 0 /\ buffer[pos] = 1
    <3>1. /\ pos - 2 \in 1..pos /\ pos - 1 \in 1..pos /\ pos \in 1..pos
          /\ start + (pos - 2) = i + 1 /\ start + (pos - 1) = i + 2 /\ start + pos = i + 3
          /\ start + (pos - 2) <= Size /\ start + (pos - 1) <= Size
      BY <1>1, <2>2
    <3>. QED BY <1>2, <2>1, <2>2, <3>1
  <2>4. findStartcode3(buffer, pos - 3)
    BY <1>1, <2>2, <2>3 DEF findStartcode3, ByteAt
  <2>. QED BY <1>1, <2>4 DEF CodeBehind
<1>5. ASSUME code = 4, pos >= 4
      PROVE  start + pos <= Size /\ start + pos - 4 \in Begins
  <2>1. start + pos <= Size  BY <1>1, <1>2, <1>3, <1>5
  <2>. DEFINE b == start + pos - 4
  <2>2. /\ file.bytes[b + 1] = 0 /\ file.bytes[b + 2] = 0 /\ file.bytes[b + 3] = 0
        /\ file.bytes[b + 4] = 1
    <3>1. /\ pos - 3 \in 1..pos /\ pos - 2 \in 1..pos /\ pos - 1 \in 1..pos /\ pos \in 1..pos
          /\ start + (pos - 3) = b + 1 /\ start + (pos - 2) = b + 2 /\ start + (pos - 1) = b + 3
          /\ start + pos = b + 4 /\ b + 1 <= Size /\ b + 2 <= Size /\ b + 3 <= Size
      BY <1>1, <1>5, <2>1
    <3>. QED BY <1>2, <1>3, <1>5, <2>1, <3>1
  <2>3. b \in Nat /\ b + 1 \in 0..(Size - 3) /\ (b + 1) + 1 = b + 2 /\ (b + 1) + 2 = b + 3
        /\ (b + 1) + 3 = b + 4
    BY <1>1, <1>5, <2>1
  <2>. HIDE DEF b
  <2>4. b + 1 \in Codes  BY <2>2, <2>3, CodesAre
  <2>5. b \in Begins  BY <2>2, <2>3, <2>4, BeginsAre
  <2>. QED BY <2>1, <2>5 DEF b
<1>6. ASSUME code = 3, pos >= 3, pos >= 4 \/ start = 0
      PROVE  /\ start + pos <= Size /\ start + pos - 3 \in Begins
             /\ pos >= 4 => file.bytes[start + pos - 3] # 0
  <2>1. start + pos <= Size  BY <1>1, <1>2, <1>3, <1>6
  <2>. DEFINE b == start + pos - 3
  <2>2. file.bytes[b + 1] = 0 /\ file.bytes[b + 2] = 0 /\ file.bytes[b + 3] = 1
    <3>1. /\ pos - 2 \in 1..pos /\ pos - 1 \in 1..pos /\ pos \in 1..pos
          /\ start + (pos - 2) = b + 1 /\ start + (pos - 1) = b + 2
          /\ start + pos = b + 3 /\ b + 1 <= Size /\ b + 2 <= Size
      BY <1>1, <1>6, <2>1
    <3>. QED BY <1>2, <1>3, <1>6, <2>1, <3>1
  <2>3. pos >= 4 => file.bytes[b] # 0
    <3>1. SUFFICES ASSUME pos >= 4, file.bytes[b] = 0 PROVE FALSE  OBVIOUS
    <3>2. /\ pos - 3 \in 1..pos /\ start + (pos - 3) = b /\ b <= Size
      BY <1>1, <2>1, <3>1
    <3>3. buffer[pos - 3] = 0  BY <1>2, <3>1, <3>2
    <3>4. /\ buffer[pos - 2] = 0 /\ buffer[pos - 1] = 0 /\ buffer[pos] = 1  BY <1>3, <1>6
    <3>5. findStartcode4(buffer, pos - 4)
      BY <1>1, <3>1, <3>3, <3>4 DEF findStartcode4, findStartcode3, ByteAt
    <3>6. CodeBehind(buffer) = 4  BY <1>1, <3>5 DEF CodeBehind
    <3>. QED BY <1>6, <3>6
  <2>4. b \in 0..(Size - 3) /\ (pos >= 4 \/ b = 0)
    BY <1>1, <1>6, <2>1
  <2>. HIDE DEF b
  <2>5. b \in Codes  BY <2>2, <2>4, CodesAre
  <2>6. b \in Begins  BY <2>3, <2>4, <2>5, BeginsAre
  <2>. QED BY <2>1, <2>3, <2>6 DEF b
<1>. HIDE DEF code
<1>. QED BY <1>4, <1>5, <1>6 DEF code

-----------------------------------------------------------------------------
(* The units found so far                                                   *)

\* Until the first start code no other one has been passed.
FirstInv ==
  pc = "find" => /\ vNal = <<>> /\ pos <= MAX_NAL_SIZE
                 /\ \A i \in Codes : i + 3 >= pos

\* Inside a unit no start code has been passed but its own.
PassInv ==
  pc = "scan" => \A i \in Codes :
    i + 3 > offset + n.startcodeLen => i + 3 >= offset + pos

\* The units listed are the file cut at Begins, up to the offset.
CutInv ==
  /\ \A k \in 1..Len(vNal) :
       /\ vNal[k].offset \in Begins /\ vNal[k].offset < offset
       /\ vNal[k].offset + vNal[k].len = IF k = Len(vNal) THEN offset ELSE vNal[k + 1].offset
  /\ \A j, k \in 1..Len(vNal) : j < k => vNal[j].offset < vNal[k].offset
  /\ \A b \in Begins : b < offset => \E k \in 1..Len(vNal) : vNal[k].offset = b

\* The next one begins at the offset, or the file has ended there.
HereInv == IF pc = "probe" /\ eof THEN offset = Size ELSE offset \in Begins

ListType == "offset" \in DOMAIN n /\ "len" \in DOMAIN n /\ \E S : vNal \in Seq(S)

ListInv == pc \in {"probe", "scan"} /\ Codes # {} => CutInv /\ HereInv

FileInv ==
  ListType /\ FirstInv /\ PassInv /\ ListInv /\ UnitsFound /\ RefusedOnlyInFront

LEMMA InitiallyCut == Init => FileInv
<1>. SUFFICES ASSUME Init PROVE FileInv  OBVIOUS
<1>1. ListType
  <2>1. vNal \in Seq({})  BY DEF Init
  <2>. QED BY <2>1 DEF Init, ListType, NoUnit
<1>. QED BY <1>1 DEF Init, FileInv, FirstInv, PassInv, ListInv, UnitsFound, Scanned, RefusedOnlyInFront

LEMMA CutStarts ==
  ASSUME Inv, FileInv, Inv', CheckBitStream \/ NoFile
  PROVE  FileInv'
<1>1. pc' \in {"find", "done"} /\ vNal' = <<>> /\ result' \in {"none", "FILE_NOT_EXSIT"}
  BY DEF CheckBitStream, NoFile
<1>2. ListType'
  <2>1. "offset" \in DOMAIN n' /\ "len" \in DOMAIN n'
    BY DEF CheckBitStream, NoFile, NoUnit, FileInv, ListType
  <2>2. vNal' \in Seq({})  BY <1>1
  <2>. QED BY <2>1, <2>2 DEF ListType
<1>3. FirstInv'
  <2>1. SUFFICES ASSUME pc' = "find" PROVE FirstInv'  BY DEF FirstInv
  <2>2. buffer' = <<>>  BY <2>1 DEF CheckBitStream, NoFile
  <2>3. \A i \in Codes' : i + 3 >= 0
    BY DEF Codes
  <2>. QED BY <1>1, <2>2, <2>3, NalScanAssumption DEF FirstInv, pos
<1>. QED BY <1>1, <1>2, <1>3 DEF FileInv, PassInv, ListInv, UnitsFound, Scanned, RefusedOnlyInFront

\* Where a scan goes on, what is said of a finished one stays.
LEMMA GoesOn ==
  ASSUME UnitsFound, RefusedOnlyInFront, file' = file, ahead' = ahead, result' = result,
         pc' # "done"
  PROVE  UnitsFound' /\ RefusedOnlyInFront'
<1>1. Codes' = Codes /\ Size' = Size  BY SameCodes
<1>. QED BY <1>1 DEF UnitsFound, Scanned, RefusedOnlyInFront

LEMMA CutFindsByte ==
  ASSUME Inv, FileInv, FindByte
  PROVE  FileInv'
<1>1. /\ pc = "find" /\ ~eof /\ CodeBehind(buffer) = 0 /\ pos < MAX_NAL_SIZE /\ fgetc
      /\ UNCHANGED <<pc, file, ahead, n, vNal, result>>
  BY DEF FindByte, report
<1>2. TypeInv /\ SoFar(0) /\ At(0)  BY <1>1 DEF Inv, FindInv
<1>3. Len(buffer') = pos + 1  BY <1>1, <1>2, OneMore, 0 \in Nat
<1>4. Codes' = Codes  BY <1>1, SameCodes
<1>5. pos \in Nat /\ MAX_NAL_SIZE \in Nat  BY <1>2, NalScanAssumption DEF TypeInv, pos
<1>6. ASSUME NEW i \in Codes PROVE i + 3 >= pos + 1
  <2>1. i \in Nat /\ i + 3 >= pos  BY <1>1, <1>2, CodesAre DEF FileInv, FirstInv
  <2>2. i + 3 # pos
    <3>1. i + 3 = 0 + pos => CodeBehind(buffer) # 0
      BY <1>2, <2>1, CodeInFile, 0 \in Nat
    <3>. QED BY <1>1, <1>5, <3>1
  <2>. QED BY <1>5, <2>1, <2>2
<1>7. FirstInv'
  BY <1>1, <1>3, <1>4, <1>5, <1>6 DEF FileInv, FirstInv, pos
<1>8. ListType'  BY <1>1 DEF FileInv, ListType
<1>9. UnitsFound' /\ RefusedOnlyInFront'  BY <1>1, GoesOn DEF FileInv
<1>. QED BY <1>1, <1>7, <1>8, <1>9 DEF FileInv, PassInv, ListInv

LEMMA CutFindsFirst ==
  ASSUME Inv, FileInv, FoundFirst
  PROVE  FileInv'
<1>. DEFINE code == CodeBehind(buffer)
<1>1. /\ pc = "find" /\ pc' = "probe" /\ pos - code >= 0 /\ offset' = pos - code
      /\ UNCHANGED <<file, ahead, vNal, result>>
  BY DEF FoundFirst, FirstOffset, report
<1>2. (code = 0 => eof) /\ ~eof'  BY Zenon DEF FoundFirst
<1>3. TypeInv /\ SoFar(0) /\ At(0) /\ vNal = <<>> /\ \A i \in Codes : i + 3 >= pos
  BY <1>1 DEF Inv, FindInv, FileInv, FirstInv
<1>4. Codes' = Codes /\ Begins' = Begins  BY <1>1, SameCodes
<1>5. pos \in Nat /\ Size \in Nat /\ code \in {0, 3, 4}
  BY <1>3, CodeAtEnd DEF TypeInv, pos, Size
<1>6. ListType'
  <2>1. "offset" \in DOMAIN n' /\ "len" \in DOMAIN n'  BY DEF FoundFirst, NoUnit
  <2>. QED BY <1>1, <2>1 DEF FileInv, ListType
<1>7. ASSUME Codes # {} PROVE CutInv' /\ HereInv'
  <2>1. code # 0
    <3>1. SUFFICES ASSUME code = 0 PROVE FALSE  OBVIOUS
    <3>2. pos = Size + 1  BY <1>2, <1>3, <1>5, <3>1 DEF At
    <3>3. PICK i \in Codes : i + 3 >= pos  BY <1>3, <1>7
    <3>4. i \in 0..(Size - 3)  BY <1>3, CodesAre
    <3>. QED BY <1>5, <3>2, <3>3, <3>4
  <2>2. pos >= code /\ code \in {3, 4}  BY <1>1, <1>5, <2>1
  <2>3. /\ code = 4 /\ pos >= 4 => 0 + pos - 4 \in Begins
        /\ code = 3 /\ pos >= 3 => /\ 0 + pos - 3 \in Begins
                                   /\ pos >= 4 => file.bytes[0 + pos - 3] # 0
    <3>. HIDE DEF code
    <3>. QED BY <1>3, CodeInFile, 0 \in Nat DEF code
  <2>. HIDE DEF code
  <2>4. offset' \in Begins  BY <1>1, <1>5, <2>2, <2>3
  <2>5. ASSUME NEW b \in Begins, b < offset' PROVE FALSE
    <3>1. b \in Nat  BY <1>3, CutInFile
    <3>2. CASE b \in Codes
      BY <1>1, <1>3, <1>5, <2>2, <2>5, <3>1, <3>2
    <3>3. CASE b + 1 \in Codes /\ file.bytes[b + 1] = 0
      <4>1. b + 1 + 3 >= pos  BY <1>3, <3>1, <3>3
      <4>2. code = 3 /\ pos >= 4 /\ b + 1 = 0 + pos - 3
        BY <1>1, <1>5, <2>2, <2>5, <3>1, <4>1
      <4>. QED BY <1>5, <2>3, <3>3, <4>2
    <3>4. TypeInv  BY <1>3
    <3>5. b \in Codes \/ (b + 1 \in Codes /\ file.bytes[b + 1] = 0)  BY <3>4, BeginsAre
    <3>. QED BY <3>2, <3>3, <3>5
  <2>6. CutInv'
    BY <1>1, <1>3, <1>4, <2>5 DEF CutInv
  <2>7. HereInv'  BY <1>2, <1>4, <2>4 DEF HereInv
  <2>. QED BY <2>6, <2>7
<1>8. UnitsFound' /\ RefusedOnlyInFront'  BY <1>1, GoesOn DEF FileInv
<1>. QED BY <1>1, <1>4, <1>6, <1>7, <1>8 DEF FileInv, FirstInv, PassInv, ListInv

LEMMA CutReadsStartcode ==
  ASSUME Inv, FileInv, Inv', ReadStartcode
  PROVE  FileInv'
<1>1. /\ pc = "probe" /\ ~eof /\ pc' = "scan"
      /\ UNCHANGED <<file, ahead, eof, offset, vNal, result>>
  BY Zenon DEF ReadStartcode, report
<1>2. n' = [n EXCEPT !.startcodeLen = StartcodeAtFp]
  BY Zenon DEF ReadStartcode
<1>3. buffer' = SubSeq(file.bytes, fp + 1, fp + StartcodeAtFp) /\ StartcodeAtFp # 0
  BY DEF ReadStartcode
<1>4. Codes' = Codes /\ Begins' = Begins  BY <1>1, SameCodes
<1>5. n'.startcodeLen = StartcodeAtFp /\ "offset" \in DOMAIN n' /\ "len" \in DOMAIN n'
  BY <1>2 DEF Inv, TypeInv, FileInv, ListType
<1>6. pos' = StartcodeAtFp
  <2>1. StartcodeAtFp \in {3, 4} /\ fp + StartcodeAtFp <= Size
    BY <1>3, CodeAtFp DEF Inv
  <2>. DEFINE bytes == file.bytes   from == fp + 1   to == fp + StartcodeAtFp
  <2>2. /\ bytes \in Seq(0..255) /\ from \in 1..Len(bytes) /\ to \in 1..Len(bytes)
        /\ to - from + 1 = StartcodeAtFp /\ from <= to
    BY <2>1 DEF Inv, TypeInv, Size
  <2>3. buffer' = SubSeq(bytes, from, to)  BY <1>3
  <2>. HIDE DEF bytes, from, to
  <2>4. Len(buffer') = to - from + 1  BY <2>2, <2>3
  <2>. QED BY <2>2, <2>4 DEF pos
<1>7. offset \in Nat /\ \A i \in Codes : i \in Nat
  <2>1. offset \in Nat  BY <1>1 DEF Inv, ScanInv
  <2>. QED BY <2>1, CodesAre DEF Inv
<1>8. StartcodeAtFp \in Nat  BY CodeAtFp DEF Inv
<1>9. PassInv'
  BY <1>1, <1>4, <1>5, <1>6, <1>7, <1>8 DEF PassInv
<1>10. ListInv'
  <2>1. CutInv => CutInv'  BY <1>1, <1>4 DEF CutInv
  <2>2. HereInv => HereInv'  BY <1>1, <1>4 DEF HereInv
  <2>. QED BY <1>1, <1>4, <2>1, <2>2 DEF FileInv, ListInv
<1>11. ListType'  BY <1>1, <1>5 DEF FileInv, ListType
<1>12. UnitsFound' /\ RefusedOnlyInFront'  BY <1>1, GoesOn DEF FileInv
<1>. QED BY <1>1, <1>9, <1>10, <1>11, <1>12 DEF FileInv, FirstInv

\* The list of a unit goes on being a sequence.
LEMMA ListGrows ==
  ASSUME ListType, NEW unit, vNal' = Append(vNal, unit)
  PROVE  /\ \E S : vNal' \in Seq(S)
         /\ Len(vNal) \in Nat /\ Len(vNal') = Len(vNal) + 1
         /\ \A k \in 1..Len(vNal) : vNal'[k] = vNal[k]
         /\ vNal'[Len(vNal) + 1] = unit
<1>1. PICK S : vNal \in Seq(S)  BY DEF ListType
<1>. DEFINE T == S \cup {unit}
<1>2. vNal \in Seq(T) /\ unit \in T  BY <1>1
<1>. HIDE DEF T
<1>3. vNal' \in Seq(T)  BY <1>2
<1>. QED BY <1>2, <1>3

LEMMA CutListsAgain ==
  ASSUME Inv, FileInv, NoStartcode
  PROVE  FileInv'
<1>1. /\ pc = "probe" /\ StartcodeAtFp = 0 /\ pc' = "probe" /\ n' = n
      /\ vNal' = Append(vNal, [n EXCEPT !.offset = offset])
      /\ UNCHANGED <<file, ahead, result>>
  BY DEF NoStartcode, ListUnit, report
<1>2. ~eof  BY Zenon DEF NoStartcode
<1>3. Codes' = Codes /\ Begins' = Begins  BY <1>1, SameCodes
<1>4. Codes = {}
  <2>1. SUFFICES ASSUME Codes # {} PROVE FALSE  OBVIOUS
  <2>2. offset \in Begins  BY <1>1, <1>2, <2>1 DEF FileInv, ListInv, HereInv
  <2>3. offset \in Nat /\ offset + 3 <= Size /\ Size \in Nat
    BY <2>2, CutInFile DEF Inv, TypeInv, Size
  <2>4. fp = offset /\ fp > Size  BY <1>1, <1>2 DEF Inv, ProbeInv
  <2>. QED BY <2>3, <2>4
<1>5. ListType'
  <2>1. \E S : vNal' \in Seq(S)  BY <1>1, ListGrows DEF FileInv
  <2>. QED BY <1>1, <2>1 DEF FileInv, ListType
<1>6. UnitsFound' /\ RefusedOnlyInFront'  BY <1>1, GoesOn DEF FileInv
<1>. QED BY <1>1, <1>3, <1>4, <1>5, <1>6 DEF FileInv, FirstInv, PassInv, ListInv

LEMMA CutScansByte ==
  ASSUME Inv, FileInv, Inv', ScanByte
  PROVE  FileInv'
<1>1. /\ pc = "scan" /\ ~eof /\ ~AtNextCode /\ fgetc
      /\ UNCHANGED <<pc, file, ahead, offset, n, vNal, result>>
  BY DEF ScanByte, report
<1>2. /\ TypeInv /\ offset \in Nat /\ SoFar(offset) /\ At(offset)
      /\ n.startcodeLen \in {3, 4} /\ pos >= n.startcodeLen /\ pos \in Nat
  BY <1>1 DEF Inv, TypeInv, ScanInv, pos
<1>3. PICK start \in Nat : start = offset  BY <1>2
<1>4. SoFar(start) /\ At(start)  BY <1>2, <1>3
<1>5. Len(buffer') = pos + 1  BY <1>1, <1>2, <1>4, OneMore
<1>6. Codes' = Codes /\ Begins' = Begins  BY <1>1, SameCodes
<1>7. ASSUME NEW i \in Codes, i + 3 > offset + n.startcodeLen
      PROVE  i + 3 >= offset + (pos + 1)
  <2>1. i \in Nat /\ i + 3 >= offset + pos
    BY <1>1, <1>2, <1>7, CodesAre DEF FileInv, PassInv
  <2>2. i + 3 # offset + pos
    <3>1. SUFFICES ASSUME i + 3 = offset + pos PROVE FALSE  OBVIOUS
    <3>2. i >= start /\ i + 3 = start + pos /\ pos > n.startcodeLen
      BY <1>2, <1>3, <1>7, <2>1, <3>1
    <3>3. CodeBehind(buffer) # 0
      BY <1>2, <1>4, <3>2, CodeInFile
    <3>. QED BY <1>1, <3>2, <3>3 DEF AtNextCode
  <2>. QED BY <1>2, <2>1, <2>2
<1>8. PassInv'  BY <1>1, <1>5, <1>6, <1>7 DEF PassInv, pos
<1>9. ListInv'
  <2>1. CutInv => CutInv'  BY <1>1, <1>6 DEF CutInv
  <2>2. HereInv => HereInv'  BY <1>1, <1>6 DEF HereInv
  <2>. QED BY <1>1, <1>6, <2>1, <2>2 DEF FileInv, ListInv
<1>10. ListType'  BY <1>1 DEF FileInv, ListType
<1>11. UnitsFound' /\ RefusedOnlyInFront'  BY <1>1, GoesOn DEF FileInv
<1>. QED BY <1>1, <1>8, <1>9, <1>10, <1>11 DEF FileInv, FirstInv

\* A unit that has been read reaches from one cut of the file to the next.
LEMMA NoCutInside ==
  ASSUME Inv, FileInv, GotNal, Codes # {}
  PROVE  /\ offset \in Begins
         /\ \A b \in Begins : b < offset' => b <= offset
         /\ IF eof THEN offset' = Size ELSE offset' \in Begins
<1>. DEFINE code == CodeBehind(buffer)
            len == pos - Rewind(code)
<1>1. pc = "scan" /\ offset' = offset + len /\ (~eof => pos > n.startcodeLen /\ code # 0)
  BY DEF GotNal, ListUnit, AtNextCode
<1>2. /\ TypeInv /\ offset \in Nat /\ SoFar(offset) /\ At(offset)
      /\ n.startcodeLen \in {3, 4} /\ pos >= n.startcodeLen
      /\ eof => pos > n.startcodeLen
      /\ pos \in Nat /\ Size \in Nat
  BY <1>1 DEF Inv, TypeInv, ScanInv, pos, Size
<1>3. pos >= 4  BY <1>1, <1>2
<1>4. offset \in Begins /\ file.bytes[offset + 1] = 0
  <2>1. offset \in Begins  BY <1>1 DEF FileInv, ListInv, HereInv
  <2>. QED BY <1>2, <2>1, CutInFile
<1>5. PICK start \in Nat : start = offset  BY <1>2
<1>6. /\ code \in {0, 3, 4}
      /\ code = 4 => offset + pos - 4 \in Begins
      /\ code = 3 => offset + pos - 3 \in Begins /\ file.bytes[offset + pos - 3] # 0
  <2>1. code \in {0, 3, 4}  BY <1>2, CodeAtEnd DEF TypeInv
  <2>2. SoFar(start)  BY <1>2, <1>5
  <2>3. /\ code = 4 => start + pos - 4 \in Begins
        /\ code = 3 => start + pos - 3 \in Begins /\ file.bytes[start + pos - 3] # 0
    <3>. HIDE DEF code
    <3>. QED BY <1>2, <1>3, <2>2, CodeInFile DEF code
  <2>. QED BY <1>5, <2>1, <2>3
<1>. HIDE DEF code
\* Behind the unit's own start code the next one is that at the end of the buffer.
<1>7. ASSUME NEW i \in Codes, i > offset + 1 \/ (i = offset + 1 /\ n.startcodeLen = 3)
      PROVE  i \in Nat /\ i + 3 >= offset + pos
  <2>1. i \in Nat  BY <1>2, CodesAre
  <2>2. i + 3 > offset + n.startcodeLen  BY <1>2, <1>7, <2>1
  <2>. QED BY <1>1, <1>7, <2>1, <2>2 DEF FileInv, PassInv
<1>8. ASSUME NEW b \in Begins, b > offset
      PROVE  /\ b \in Nat
             /\ \/ b + 3 >= offset + pos
                \/ b + 4 = offset + pos /\ b + 4 <= Size /\ file.bytes[b + 1] = 0
  <2>1. b \in Nat  BY <1>2, CutInFile
  <2>2. CASE b \in Codes /\ (b = 0 \/ file.bytes[b] # 0)
    <3>1. b # offset + 1
      BY <1>2, <1>4, <2>1, <2>2
    <3>2. b > offset + 1  BY <1>2, <1>8, <2>1, <3>1
    <3>. QED BY <1>7, <2>1, <2>2, <3>2
  <2>3. CASE b + 1 \in Codes /\ file.bytes[b + 1] = 0
    <3>1. b + 1 > offset + 1  BY <1>2, <1>8, <2>1
    <3>2. b + 1 + 3 >= offset + pos  BY <1>7, <2>3, <3>1
    <3>3. b + 1 \in 0..(Size - 3)  BY <1>2, <2>3, CodesAre
    <3>. QED BY <1>2, <2>1, <2>3, <3>2, <3>3
  <2>4. TypeInv  BY <1>2
  <2>5. \/ b \in Codes /\ (b = 0 \/ file.bytes[b] # 0)
        \/ b + 1 \in Codes /\ file.bytes[b + 1] = 0
    BY <2>4, BeginsAre
  <2>. QED BY <2>2, <2>3, <2>5
<1>9. CASE eof
  <2>1. len = pos - 1 /\ offset + pos = Size + 1  BY <1>2, <1>9 DEF Rewind, At
  <2>2. offset' = Size  BY <1>1, <1>2, <2>1
  <2>3. ASSUME NEW b \in Begins, b > offset PROVE FALSE
    <3>1. b \in Nat /\ b + 3 <= Size  BY <1>2, CutInFile
    <3>2. b + 3 >= offset + pos \/ (b + 4 = offset + pos /\ b + 4 <= Size)  BY <1>8, <2>3
    <3>. QED BY <1>2, <2>1, <3>1, <3>2
  <2>4. \A b \in Begins : b \in Nat  BY <1>2, CutInFile
  <2>. QED BY <1>2, <1>4, <1>9, <2>2, <2>3, <2>4
<1>10. CASE ~eof
  <2>1. len = pos - code /\ code \in {3, 4}  BY <1>1, <1>6, <1>10 DEF Rewind
  <2>2. offset' = offset + pos - code  BY <1>1, <1>2, <2>1
  <2>3. offset' \in Begins  BY <1>6, <2>1, <2>2
  <2>4. ASSUME NEW b \in Begins, b > offset, b < offset' PROVE FALSE
    <3>1. b \in Nat /\ (b + 3 >= offset + pos \/ (b + 4 = offset + pos /\ file.bytes[b + 1] = 0))
      BY <1>8, <2>4
    <3>2. code = 3 /\ b + 4 = offset + pos /\ file.bytes[b + 1] = 0 /\ b + 1 = offset + pos - 3
      BY <1>2, <2>1, <2>2, <2>4, <3>1
    <3>. QED BY <1>6, <3>2
  <2>5. \A b \in Begins : b \in Nat  BY <1>2, CutInFile
  <2>. QED BY <1>2, <1>4, <1>10, <2>3, <2>4, <2>5
<1>. QED BY <1>9, <1>10

LEMMA CutGetsNal ==
  ASSUME Inv, FileInv, GotNal
  PROVE  FileInv'
<1>. DEFINE len == pos - Rewind(CodeBehind(buffer))
            unit == [n EXCEPT !.len = len, !.nalType = NalTypeOf(h'), !.sliceType = SliceTypeOf(h')]
            last == [unit EXCEPT !.offset = offset]
            size == Len(vNal)
<1>1. /\ pc = "scan" /\ pc' = "probe" /\ n' = unit /\ vNal' = Append(vNal, last)
      /\ offset' = offset + len /\ UNCHANGED <<file, ahead, result>>
  BY DEF GotNal, ListUnit, report
<1>2. eof' <=> eof  BY Zenon DEF GotNal
<1>3. Codes' = Codes /\ Begins' = Begins /\ Size' = Size  BY <1>1, SameCodes
<1>4. "offset" \in DOMAIN n /\ "len" \in DOMAIN n  BY DEF FileInv, ListType
<1>5. /\ last.offset = offset /\ last.len = len
      /\ "offset" \in DOMAIN n' /\ "len" \in DOMAIN n'
  BY <1>1, <1>4
<1>. HIDE DEF unit, last, len
<1>6. /\ \E S : vNal' \in Seq(S)
      /\ size \in Nat /\ Len(vNal') = size + 1
      /\ \A k \in 1..size : vNal'[k] = vNal[k]
      /\ vNal'[size + 1] = last
  BY <1>1, ListGrows DEF FileInv
<1>7. ListType'  BY <1>5, <1>6 DEF ListType
<1>8. ASSUME Codes # {} PROVE CutInv' /\ HereInv'
  <2>1. CutInv  BY <1>1, <1>8 DEF FileInv, ListInv
  <2>2. /\ offset \in Begins /\ \A b \in Begins : b < offset' => b <= offset
        /\ IF eof THEN offset' = Size ELSE offset' \in Begins
    BY <1>8, NoCutInside
  <2>3. offset \in Nat /\ offset' \in Nat /\ offset' > offset
    BY <1>1, UnitRead DEF Inv, ScanInv
  <2>4. \A b \in Begins : b \in Nat  BY CutInFile DEF Inv
  <2>5. HereInv'  BY <1>1, <1>2, <1>3, <2>2 DEF HereInv
  <2>. HIDE DEF size
  <2>6. ASSUME NEW k \in 1..(size + 1)
        PROVE  /\ vNal'[k].offset \in Begins /\ vNal'[k].offset < offset'
               /\ vNal'[k].offset + vNal'[k].len =
                    IF k = size + 1 THEN offset' ELSE vNal'[k + 1].offset
    <3>1. CASE k = size + 1
      <4>1. vNal'[k] = last  BY <1>6, <3>1
      <4>. QED BY <1>1, <1>5, <2>2, <2>3, <3>1, <4>1
    <3>2. CASE k # size + 1
      <4>1. k \in 1..size /\ vNal'[k] = vNal[k]  BY <1>6, <3>2
      <4>2. vNal[k].offset \in Begins /\ vNal[k].offset < offset
        BY <2>1, <4>1 DEF CutInv, size
      <4>3. vNal[k].offset < offset'  BY <2>3, <2>4, <4>2
      <4>4. vNal'[k + 1].offset = IF k = size THEN offset ELSE vNal[k + 1].offset
        <5>1. CASE k = size  BY <1>5, <1>6, <5>1
        <5>2. CASE k # size
          <6>1. k + 1 \in 1..size  BY <1>6, <4>1, <5>2
          <6>. QED BY <1>6, <5>2, <6>1
        <5>. QED BY <5>1, <5>2
      <4>5. vNal[k].offset + vNal[k].len = IF k = size THEN offset ELSE vNal[k + 1].offset
        BY <2>1, <4>1 DEF CutInv, size
      <4>. QED BY <3>2, <4>1, <4>2, <4>3, <4>4, <4>5
    <3>. QED BY <3>1, <3>2
  <2>7. ASSUME NEW j \in 1..(size + 1), NEW k \in 1..(size + 1), j < k
        PROVE  vNal'[j].offset < vNal'[k].offset
    <3>1. j \in 1..size /\ vNal'[j] = vNal[j]  BY <1>6, <2>7
    <3>2. CASE k = size + 1
      BY <1>5, <1>6, <2>1, <3>1, <3>2 DEF CutInv, size
    <3>3. CASE k # size + 1
      <4>1. k \in 1..size /\ vNal'[k] = vNal[k]  BY <1>6, <3>3
      <4>. QED BY <2>1, <2>7, <3>1, <4>1 DEF CutInv, size
    <3>. QED BY <3>2, <3>3
  <2>8. ASSUME NEW b \in Begins, b < offset'
        PROVE  \E k \in 1..(size + 1) : vNal'[k].offset = b
    <3>1. b <= offset /\ b \in Nat  BY <2>2, <2>4, <2>8
    <3>2. CASE b = offset
      <4>1. size + 1 \in 1..(size + 1)  BY <1>6
      <4>. QED BY <1>5, <1>6, <3>2, <4>1
    <3>3. CASE b < offset
      <4>1. PICK k \in 1..size : vNal[k].offset = b
        BY <2>1, <3>3 DEF CutInv, size
      <4>2. k \in 1..(size + 1) /\ vNal'[k] = vNal[k]  BY <1>6, <4>1
      <4>. QED BY <4>1, <4>2
    <3>. QED BY <2>3, <3>1, <3>2, <3>3
  <2>9. CutInv'
    BY <1>3, <1>6, <2>6, <2>7, <2>8 DEF CutInv
  <2>. QED BY <2>5, <2>9
<1>9. UnitsFound' /\ RefusedOnlyInFront'  BY <1>1, GoesOn DEF FileInv
<1>. QED BY <1>1, <1>3, <1>7, <1>8, <1>9 DEF FileInv, FirstInv, PassInv, ListInv

\* A file is refused for what its first bytes are, or for having no start code in
\* as many bytes as a buffer has.
LEMMA RefusedFor ==
  ASSUME Inv, FileInv, Refuse
  PROVE  RefusedOnlyInFront'
<1>. DEFINE code == CodeBehind(buffer)
<1>1. /\ pc = "find" /\ UNCHANGED <<file, ahead>>
      /\ pos = MAX_NAL_SIZE \/ pos - code < 0
  BY DEF Refuse, FirstOffset
<1>2. TypeInv /\ SoFar(0) /\ \A i \in Codes : i + 3 >= pos
  BY <1>1 DEF Inv, FindInv, FileInv, FirstInv
<1>3. Codes' = Codes /\ Size' = Size  BY <1>1, SameCodes
<1>4. /\ file.bytes \in Seq(0..255) /\ buffer \in Seq(0..255) /\ pos \in Nat
      /\ pos = Len(buffer) /\ Size \in Nat
  BY <1>2 DEF TypeInv, pos, Size
<1>5. CASE pos = MAX_NAL_SIZE
  BY <1>2, <1>3, <1>5 DEF RefusedOnlyInFront
<1>6. CASE pos - code < 0
  <2>1. code \in {0, 3, 4}  BY <1>4, CodeAtEnd
  <2>2. code # 0 /\ pos <= 3  BY <1>4, <1>6, <2>1
  <2>3. CASE code = 3
    <3>1. findStartcode3(buffer, pos - 3)  BY <1>4, <2>3 DEF CodeBehind
    <3>2. pos \in 0..2  BY <1>4, <1>6, <2>3
    <3>3. pos # 0 /\ ahead = 0 /\ buffer[pos] = 1 /\ (pos = 2 => buffer[1] = 0)
      <4>1. CASE pos = 0  BY <3>1, <4>1 DEF findStartcode3, ByteAt
      <4>2. CASE pos = 1  BY <3>1, <4>2 DEF findStartcode3, ByteAt
      <4>3. CASE pos = 2  BY <3>1, <4>3 DEF findStartcode3, ByteAt
      <4>. QED BY <3>2, <4>1, <4>2, <4>3
    <3>. QED BY <1>1, <1>3, <1>4, <3>2, <3>3, <1>2 DEF RefusedOnlyInFront, SoFar
  <2>4. CASE code = 4
    <3>1. findStartcode4(buffer, pos - 4)  BY <1>4, <2>4 DEF CodeBehind
    <3>2. pos \in 0..3  BY <1>4, <1>6, <2>4
    <3>3. /\ pos # 0 /\ ahead = 0 /\ buffer[pos] = 1
          /\ pos \in {2, 3} => buffer[1] = 0
          /\ pos = 3 => buffer[2] = 0
      <4>1. CASE pos = 0  BY <3>1, <4>1 DEF findStartcode4, findStartcode3, ByteAt
      <4>2. CASE pos = 1  BY <3>1, <4>2 DEF findStartcode4, findStartcode3, ByteAt
      <4>3. CASE pos = 2  BY <3>1, <4>3 DEF findStartcode4, findStartcode3, ByteAt
      <4>4. CASE pos = 3  BY <3>1, <4>4 DEF findStartcode4, findStartcode3, ByteAt
      <4>. QED BY <3>2, <4>1, <4>2, <4>3, <4>4
    <3>4. \A i \in 1..pos : buffer[i] = IF i <= Size THEN file.bytes[i] ELSE 255
      BY <1>2, <1>4 DEF SoFar
    <3>5. pos \in 1..3 /\ pos <= Size  BY <1>4, <3>2, <3>3, <3>4
    <3>6. file.bytes[pos] = 1  BY <3>3, <3>4, <3>5
    <3>7. ASSUME NEW i \in 1..(pos - 1) PROVE file.bytes[i] = 0
      <4>1. i \in 1..pos /\ i <= Size /\ (i = 1 \/ (i = 2 /\ pos = 3))  BY <1>4, <3>5
      <4>2. buffer[i] = 0  BY <3>3, <3>5, <4>1
      <4>. QED BY <3>4, <4>1, <4>2
    <3>. QED BY <1>1, <1>3, <3>3, <3>5, <3>6, <3>7 DEF RefusedOnlyInFront
  <2>. QED BY <2>1, <2>2, <2>3, <2>4
<1>. QED BY <1>1, <1>5, <1>6

\* At the end of the file the whole of it has been cut.
LEMMA AllFound ==
  ASSUME Inv, FileInv, Report
  PROVE  UnitsFound'
<1>1. pc = "probe" /\ eof /\ UNCHANGED <<file, ahead, vNal>>
  BY Zenon DEF Report
<1>2. Codes' = Codes /\ Begins' = Begins /\ Size' = Size  BY <1>1, SameCodes
<1>3. SUFFICES ASSUME Codes # {}
               PROVE  /\ Len(vNal) = Cardinality(Begins)
                      /\ \A k \in DOMAIN vNal :
                           /\ vNal[k].offset \in Begins
                           /\ vNal[k].offset + vNal[k].len =
                                  IF k = Len(vNal) THEN Size ELSE vNal[k + 1].offset
  BY <1>1, <1>2 DEF UnitsFound
<1>4. CutInv /\ offset = Size
  BY <1>1, <1>3 DEF FileInv, ListInv, HereInv
<1>5. Len(vNal) \in Nat /\ DOMAIN vNal = 1..Len(vNal)
  <2>1. PICK S : vNal \in Seq(S)  BY DEF FileInv, ListType
  <2>. QED BY <2>1
<1>. DEFINE f == [k \in 1..Len(vNal) |-> vNal[k].offset]
<1>6. f \in [1..Len(vNal) -> Begins]  BY <1>4 DEF CutInv
<1>7. ASSUME NEW j \in 1..Len(vNal), NEW k \in 1..Len(vNal), f[j] = f[k]
      PROVE  j = k
  <2>1. f[j] = vNal[j].offset /\ f[k] = vNal[k].offset  BY <1>7
  <2>2. vNal[j].offset \in Nat
    <3>1. vNal[j].offset \in Begins  BY <1>4 DEF CutInv
    <3>. QED BY <3>1, CutInFile DEF Inv
  <2>3. ~(j < k)
    <3>1. j < k => vNal[j].offset < vNal[k].offset  BY <1>4 DEF CutInv
    <3>. QED BY <1>7, <2>1, <2>2, <3>1
  <2>4. ~(k < j)
    <3>1. k < j => vNal[k].offset < vNal[j].offset  BY <1>4 DEF CutInv
    <3>. QED BY <1>7, <2>1, <2>2, <3>1
  <2>. QED BY <1>5, <2>3, <2>4
<1>8. ASSUME NEW b \in Begins
      PROVE  \E k \in 1..Len(vNal) : f[k] = b
  <2>1. b < offset
    <3>1. b \in Nat /\ b + 3 <= Size /\ Size \in Nat  BY CutInFile DEF Inv, TypeInv, Size
    <3>. QED BY <1>4, <3>1
  <2>2. PICK k \in 1..Len(vNal) : vNal[k].offset = b  BY <1>4, <2>1 DEF CutInv
  <2>. QED BY <2>2
<1>9. f \in Bijection(1..Len(vNal), Begins)
  <2>. HIDE DEF f
  <2>1. f \in Injection(1..Len(vNal), Begins)  BY <1>6, <1>7 DEF Injection, IsInjective
  <2>2. f \in Surjection(1..Len(vNal), Begins)  BY <1>6, <1>8 DEF Surjection
  <2>. QED BY <2>1, <2>2 DEF Bijection
<1>10. Len(vNal) = Cardinality(Begins)
  <2>1. ExistsBijection(1..Len(vNal), Begins)  BY <1>9 DEF ExistsBijection
  <2>. QED BY <1>5, <2>1, FS_CountingElements
<1>. QED BY <1>4, <1>5, <1>10 DEF CutInv

LEMMA CutStops ==
  ASSUME Inv, FileInv, Refuse \/ Overrun \/ Report
  PROVE  FileInv'
<1>1. pc' \in {"done", "outside"} /\ UNCHANGED <<n, vNal>>
  BY DEF Refuse, Overrun, Report
<1>2. ListType'  BY <1>1 DEF FileInv, ListType
<1>3. FirstInv' /\ PassInv' /\ ListInv'  BY <1>1 DEF FirstInv, PassInv, ListInv
<1>4. UnitsFound' /\ RefusedOnlyInFront'
  <2>1. CASE Refuse
    BY <2>1, RefusedFor DEF Refuse, UnitsFound, Scanned
  <2>2. CASE Overrun
    BY <2>2, GoesOn DEF Overrun, report, FileInv
  <2>3. CASE Report
    BY <2>3, AllFound DEF Report, RefusedOnlyInFront
  <2>. QED BY <2>1, <2>2, <2>3
<1>. QED BY <1>2, <1>3, <1>4 DEF FileInv

LEMMA CutStutters ==
  ASSUME Inv, FileInv, UNCHANGED vars
  PROVE  FileInv'
<1>1. UNCHANGED <<pc, file, ahead, eof, buffer, offset, n, vNal, result>>
  BY DEF vars, reading, report
<1>2. Codes' = Codes /\ Begins' = Begins /\ Size' = Size  BY <1>1, SameCodes
<1>3. ListType' /\ FirstInv' /\ PassInv'
  BY <1>1, <1>2 DEF FileInv, ListType, FirstInv, PassInv, pos
<1>4. ListInv'  BY <1>1, <1>2 DEF FileInv, ListInv, CutInv, HereInv
<1>5. UnitsFound' /\ RefusedOnlyInFront'
  BY <1>1, <1>2 DEF FileInv, UnitsFound, Scanned, RefusedOnlyInFront
<1>. QED BY <1>3, <1>4, <1>5 DEF FileInv

LEMMA CutInvariance == Spec => []FileInv
<1>1. Inv /\ Inv' /\ FileInv /\ [Next]_vars => FileInv'
  BY CutStarts, CutFindsByte, CutFindsFirst, CutReadsStartcode, CutListsAgain, CutScansByte,
     CutGetsNal, CutStops, CutStutters DEF Next
<1>. QED BY InitiallyCut, Invariance, <1>1, PTL DEF Spec

-----------------------------------------------------------------------------
(* The theorems                                                             *)

\* In every scan of every file, whatever h264bitstream makes of the units, each
\* unit takes the scanner forward and leaves the file where the offset says the
\* next one begins (probeNALU, getAnnexbNALU): the scan does not go round.
THEOREM UnitsAdvance == Spec => Advances
<1>1. ASSUME Inv, Next, pc = "scan", pc' = "probe"
      PROVE  offset' > offset /\ fp' = offset'
  <2>1. GotNal
    BY <1>1 DEF Next, CheckBitStream, NoFile, FindByte, Refuse, FoundFirst, ReadStartcode,
                NoStartcode, ScanByte, Overrun, Report
  <2>. QED BY <1>1, <2>1, UnitRead
<1>2. Inv /\ [Next]_vars => [pc = "scan" /\ pc' = "probe" => offset' > offset /\ fp' = offset']_vars
  BY <1>1
<1>. QED BY Invariance, <1>2, PTL DEF Spec, Advances

\* The units listed at the end of a scan are the file from its first start code to
\* its end, cut in front of every start code of three bytes or four, each once and
\* whole (probeNALU, getAnnexbNALU): for files of any bytes and length, buffers of
\* any size, any decoder, and whatever was scanned before.
THEOREM EveryUnitFound == Spec => []UnitsFound
BY CutInvariance, PTL DEF FileInv

\* findFirstNALU refuses a file only for what is in its first bytes, never one that
\* has a start code in reach.
THEOREM RefusalJustified == Spec => []RefusedOnlyInFront
BY CutInvariance, PTL DEF FileInv
=============================================================================
