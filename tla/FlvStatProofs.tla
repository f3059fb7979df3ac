---------------------------- MODULE FlvStatProofs ----------------------------
(***************************************************************************)
(* Proofs about FlvStat, for every modulus, every set of timestamps and    *)
(* every recording.                                                        *)
(***************************************************************************)
EXTENDS FlvStat, TLAPS

LEMMA ModInRange ==
    ASSUME NEW a \in Int
    PROVE  a % Modulus \in 0..(Modulus - 1)
  BY FlvStatAssumption

LEMMA SubInt ==
    ASSUME NEW a \in Int, NEW b \in Int
    PROVE  Sub(a, b) \in Int
  BY ModInRange, FlvStatAssumption DEF Sub

LEMMA BumpNat ==
    ASSUME NEW f \in [Kinds -> Nat], NEW k \in Kinds, NEW b \in BOOLEAN
    PROVE  Bump(f, k, b) \in [Kinds -> Nat]
  BY DEF Bump

LEMMA SpanInt ==
    ASSUME TypeOK, NEW k \in Kinds
    PROVE  Span(k) \in Int
  BY FlvStatAssumption DEF TypeOK, Span

\* Type correctness, and segments that begin no earlier than their script tag.
SInv == TypeOK /\ SegmentsFollowScript

LEMMA InitSInv == Init => SInv
<1> SUFFICES ASSUME Init PROVE SInv
  OBVIOUS
<1>1. 0 \in 0..(Modulus - 1) /\ 0 \in 0..MaxTags
  BY FlvStatAssumption
<1>2. /\ Zero \in [Kinds -> Nat] /\ Zero \in [Kinds -> Int]
      /\ Zero \in [Kinds -> 0..(Modulus - 1)]
  BY <1>1 DEF Zero
<1>3. TypeOK
  BY <1>1, <1>2 DEF Init, TypeOK
<1>4. SegmentsFollowScript
  BY DEF Init, SegmentsFollowScript
<1>. QED
  BY <1>3, <1>4 DEF SInv

LEMMA TagTypes ==
    ASSUME TypeOK, NEW k \in Kinds, NEW time \in Times,
           NEW small \in BOOLEAN, NEW action \in BOOLEAN,
           MediaTag(k, time, small, action)
    PROVE  TypeOK'
<1> DEFINE isFirst == first[k] \/ action
           d == Sub(time, last[k])
<1>1. time \in 0..(Modulus - 1) /\ last[k] \in 0..(Modulus - 1)
  BY FlvStatAssumption DEF TypeOK
<1>2. d \in Int
  <2>1. time \in Int /\ last[k] \in Int
    BY <1>1, FlvStatAssumption
  <2>. QED
    BY <2>1, SubInt
<1>3. seen' \in 0..MaxTags
  BY FlvStatAssumption DEF MediaTag, ReadTag, TypeOK
<1>4. num' \in [Kinds -> Nat] /\ last' \in [Kinds -> 0..(Modulus - 1)]
  BY <1>1 DEF MediaTag, TypeOK
<1>5. first' \in [Kinds -> BOOLEAN]
  BY DEF MediaTag, TypeOK
<1>6. length' \in [Kinds -> 0..(Modulus - 1)]
  <2>1. Add(length[k], d) \in 0..(Modulus - 1)
    <3>1. length[k] + d \in Int
      <4> HIDE DEF d
      <4>. QED
        BY <1>2, FlvStatAssumption DEF TypeOK
    <3>. QED
      BY <3>1, ModInRange DEF Add
  <2>. QED
    BY <2>1 DEF MediaTag, TypeOK
<1>7. abnormal' \in [Kinds -> Nat] /\ transmit' \in [Kinds -> Nat]
  BY BumpNat DEF MediaTag, TypeOK
<1>8. lags' \in [Kinds -> Nat] /\ invalid' \in [Kinds -> Nat]
  BY BumpNat DEF MediaTag, TypeOK
<1>9. anchor' \in [Kinds -> 0..(Modulus - 1)]
  BY <1>1 DEF MediaTag, TypeOK
<1>10. closed' \in [Kinds -> Int]
  BY SpanInt DEF MediaTag, TypeOK
<1>. QED
  BY <1>3, <1>4, <1>5, <1>6, <1>7, <1>8, <1>9, <1>10 DEF MediaTag, TypeOK

LEMMA NextSInv == SInv /\ [Next]_vars => SInv'
<1> SUFFICES ASSUME SInv, [Next]_vars PROVE SInv'
  OBVIOUS
<1> USE DEF SInv
<1>1. ASSUME NEW k \in Kinds, NEW time \in Times, NEW small \in BOOLEAN,
             NEW action \in BOOLEAN, MediaTag(k, time, small, action)
      PROVE  SInv'
  <2>1. TypeOK'
    BY <1>1, TagTypes
  <2>2. ASSUME NEW j \in Kinds, ~first'[j] PROVE anchor'[j] >= scriptLast'
    <3>1. CASE j = k /\ (first[k] \/ action)
      BY <1>1, <2>2, <3>1 DEF MediaTag, TypeOK
    <3>2. CASE ~(j = k /\ (first[k] \/ action))
      BY <1>1, <2>2, <3>2 DEF MediaTag, TypeOK, SegmentsFollowScript
    <3>. QED
      BY <3>1, <3>2
  <2>. QED
    BY <2>1, <2>2 DEF SegmentsFollowScript
<1>2. ASSUME NEW time \in Times, ScriptTag(time) PROVE SInv'
  <2>1. closed' \in [Kinds -> Int]
    BY <1>2, SpanInt DEF ScriptTag, TypeOK
  <2>. QED
    BY <1>2, <2>1, FlvStatAssumption DEF ScriptTag, ReadTag, Reset, TypeOK,
       SegmentsFollowScript, counters
<1>3. ASSUME NEW action \in BOOLEAN, UnknownTag(action) PROVE SInv'
  <2>1. closed' \in [Kinds -> Int] /\ first' \in [Kinds -> BOOLEAN]
    BY <1>3, SpanInt DEF UnknownTag, Reset, TypeOK
  <2>2. \A j \in Kinds : ~first'[j] => ~first[j]
    BY <1>3 DEF UnknownTag, Reset, TypeOK
  <2>. QED
    BY <1>3, <2>1, <2>2, FlvStatAssumption DEF UnknownTag, ReadTag, TypeOK,
       SegmentsFollowScript, counters
<1>4. CASE Check
  <2>1. Played \in 0..(Modulus - 1)
    BY DEF Played, TypeOK, Kinds
  <2>2. num["video"] * Second \in Nat
    BY FlvStatAssumption DEF TypeOK, Kinds
  <2>3. Fps(num["video"]) \in Nat
    <3>1. CASE Played = 0
      BY <3>1 DEF Fps
    <3>2. CASE Played # 0
      <4>1. Played \in Nat \ {0}
        BY <2>1, <3>2
      <4>2. (num["video"] * Second) \div Played \in Nat
        BY <2>2, <4>1
      <4>. QED
        BY <3>2, <4>2 DEF Fps
    <3>. QED
      BY <3>1, <3>2
  <2>4. length' \in [Kinds -> 0..(Modulus - 1)]
    BY <1>4, <2>1 DEF Check, TypeOK
  <2>. QED
    BY <1>4, <2>3, <2>4 DEF Check, Verdict, TypeOK, SegmentsFollowScript
<1>5. CASE Format2Json
  BY <1>5 DEF Format2Json, TypeOK, SegmentsFollowScript, counters
<1>6. CASE UNCHANGED vars
  BY <1>6 DEF vars, TypeOK, SegmentsFollowScript, counters
<1>. QED
  BY <1>1, <1>2, <1>3, <1>4, <1>5, <1>6 DEF Next

LEMMA SInvariance == Spec => []SInv
  BY InitSInv, NextSInv, PTL DEF Spec

\* Type correctness.
THEOREM StatTypeCorrect == Spec => []TypeOK
  BY SInvariance, PTL DEF SInv

\* No segment reaches back before the script tag that opened it.
THEOREM ScriptOrder == Spec => []SegmentsFollowScript
  BY SInvariance, PTL DEF SInv

-----------------------------------------------------------------------------
(* SmoothBound, from the fact that nothing is counted before the first tag *)
(* of a kind.                                                              *)

Untouched == status = "tags" => \A k \in Kinds :
    num[k] = 0 => length[k] = 0 /\ first[k]

LEMMA ModSmaller ==
    ASSUME NEW a \in Nat
    PROVE  a % Modulus <= a
  BY FlvStatAssumption

LEMMA OneMore ==
    ASSUME NEW s \in Nat, NEW n \in Nat
    PROVE  s * n + s = s * (n + 1)
  OBVIOUS

LEMMA SubSmall ==
    ASSUME TypeOK, NEW k \in Kinds, NEW time \in Times,
           ~IsStutter(k, Sub(time, last[k])), ~(Sub(time, last[k]) < 0)
    PROVE  Sub(time, last[k]) \in 0..(Stutter[k] - 1)
<1>1. time \in Int /\ last[k] \in Int /\ Stutter[k] \in Int
  BY FlvStatAssumption DEF TypeOK
<1>2. Sub(time, last[k]) \in Int
  BY <1>1, SubInt
<1>. QED
  BY <1>1, <1>2 DEF IsStutter

LEMMA SmoothTag ==
    ASSUME TypeOK, Untouched, SmoothBound, NEW k \in Kinds, NEW time \in Times,
           NEW small \in BOOLEAN, NEW action \in BOOLEAN,
           MediaTag(k, time, small, action)
    PROVE  Untouched' /\ SmoothBound'
<1> DEFINE isFirst == first[k] \/ action
           d == Sub(time, last[k])
           s == Stutter[k] - 1
<1>1. status = "tags" /\ status' = "tags"
  BY DEF MediaTag, ReadTag
<1>2. s \in Nat /\ num[k] \in Nat /\ num'[k] = num[k] + 1
  <2>1. Stutter[k] \in Nat \ {0}
    BY FlvStatAssumption
  <2>2. num[k] \in Nat /\ num'[k] = num[k] + 1
    BY DEF TypeOK, MediaTag
  <2>. QED
    BY <2>1, <2>2
<1>3. ASSUME NEW j \in Kinds, j # k
      PROVE  /\ num'[j] = num[j] /\ length'[j] = length[j]
             /\ abnormal'[j] = abnormal[j] /\ transmit'[j] = transmit[j]
             /\ first[j] => first'[j]
  <2>1. num'[j] = num[j] /\ length'[j] = length[j]
    BY <1>3 DEF MediaTag, TypeOK
  <2>2. abnormal'[j] = abnormal[j] /\ transmit'[j] = transmit[j]
    BY <1>3 DEF MediaTag, TypeOK, Bump
  <2>3. first[j] => first'[j]
    BY <1>3 DEF MediaTag, TypeOK
  <2>. QED
    BY <2>1, <2>2, <2>3
<1>4. Untouched'
  BY <1>1, <1>2, <1>3 DEF Untouched
<1>5. ASSUME abnormal'[k] = 0, transmit'[k] = 0
      PROVE  length'[k] <= s * (num'[k] - 1)
  <2>1. abnormal[k] = 0 /\ transmit[k] = 0
    BY <1>5 DEF MediaTag, TypeOK, Bump
  <2>2. length[k] \in Nat /\ length[k] <= Modulus - 1
    BY FlvStatAssumption DEF TypeOK
  <2>3. CASE isFirst
    <3>1. length'[k] = length[k]
      BY <2>3 DEF MediaTag
    <3>2. CASE num[k] = 0
      <4>1. length[k] = 0 /\ s * 0 = 0
        BY <1>1, <1>2, <3>2 DEF Untouched
      <4>. QED
        BY <1>2, <3>1, <3>2, <4>1
    <3>3. CASE num[k] # 0
      <4>1. num[k] - 1 \in Nat
        BY <1>2, <3>3
      <4>2. length[k] <= s * (num[k] - 1)
        BY <1>1, <1>2, <2>1, <3>3 DEF SmoothBound
      <4>3. s * (num[k] - 1) + s = s * ((num[k] - 1) + 1)
        BY <1>2, <4>1, OneMore
      <4>4. (num[k] - 1) + 1 = num[k] /\ s * (num[k] - 1) \in Nat
        BY <1>2, <4>1
      <4>. QED
        <5> HIDE DEF s
        <5>. QED
          BY <1>2, <2>2, <3>1, <4>2, <4>3, <4>4
    <3>. QED
      BY <3>2, <3>3
  <2>4. CASE ~isFirst
    <3>1. num[k] # 0 /\ num[k] - 1 \in Nat
      BY <1>1, <1>2, <2>4 DEF Untouched
    <3>2. ~IsStutter(k, d) /\ ~(d < 0)
      BY <1>5, <2>1, <2>4 DEF MediaTag, Bump, TypeOK
    <3>3. d \in 0..s
      BY <3>2, SubSmall
    <3>4. length'[k] = (length[k] + d) % Modulus
      BY <2>4 DEF MediaTag, Add, TypeOK
    <3>5. length'[k] <= length[k] + d
      <4> HIDE DEF d, s
      <4>1. length[k] + d \in Nat
        BY <1>2, <2>2, <3>3
      <4>. QED
        BY <3>4, <4>1, ModSmaller
    <3>6. length[k] <= s * (num[k] - 1)
      BY <1>1, <1>2, <2>1, <3>1 DEF SmoothBound
    <3>7. s * (num[k] - 1) + s = s * ((num[k] - 1) + 1)
      BY <1>2, <3>1, OneMore
    <3>8. (num[k] - 1) + 1 = num'[k] - 1 /\ s * (num[k] - 1) \in Nat
      BY <1>2, <3>1
    <3>9. length'[k] \in Nat
      BY TagTypes, FlvStatAssumption DEF TypeOK
    <3>. QED
      <4> HIDE DEF d, s
      <4>. QED
        BY <1>2, <2>2, <3>3, <3>5, <3>6, <3>7, <3>8, <3>9
  <2>. QED
    BY <2>3, <2>4
<1>6. SmoothBound'
  BY <1>1, <1>3, <1>5 DEF SmoothBound
<1>. QED
  BY <1>4, <1>6

\* A recording of n tags of a kind that reports neither a stutter nor a
\* disorder of that kind is at most (n - 1) * (Stutter - 1) long, whatever the
\* timestamps are and wherever the segments begin.
THEOREM Smooth == Spec => []SmoothBound
<1>1. Init => Untouched /\ SmoothBound
  BY DEF Init, Untouched, SmoothBound, Zero
<1>2. TypeOK /\ Untouched /\ SmoothBound /\ [Next]_vars =>
        (Untouched /\ SmoothBound)'
  <2> SUFFICES ASSUME TypeOK, Untouched, SmoothBound, [Next]_vars
               PROVE  Untouched' /\ SmoothBound'
    OBVIOUS
  <2>1. ASSUME NEW k \in Kinds, NEW time \in Times, NEW small \in BOOLEAN,
               NEW action \in BOOLEAN, MediaTag(k, time, small, action)
        PROVE  Untouched' /\ SmoothBound'
    BY <2>1, SmoothTag
  <2>2. ASSUME NEW time \in Times, ScriptTag(time)
        PROVE  Untouched' /\ SmoothBound'
    BY <2>2 DEF ScriptTag, ReadTag, Reset, counters, Untouched, SmoothBound
  <2>3. ASSUME NEW action \in BOOLEAN, UnknownTag(action)
        PROVE  Untouched' /\ SmoothBound'
    BY <2>3 DEF UnknownTag, ReadTag, Reset, counters, Untouched, SmoothBound
  <2>4. CASE Check \/ Format2Json
    BY <2>4 DEF Check, Format2Json, Untouched, SmoothBound
  <2>5. CASE UNCHANGED vars
    BY <2>5 DEF vars, counters, Untouched, SmoothBound
  <2>. QED
    BY <2>1, <2>2, <2>3, <2>4, <2>5 DEF Next
<1>. QED
  BY <1>1, <1>2, StatTypeCorrect, PTL DEF Spec

-----------------------------------------------------------------------------
(* LengthTelescopes, by arithmetic modulo a number that is not a numeral.  *)

LEMMA ModSplit ==
    ASSUME NEW a \in Int
    PROVE  /\ a \div Modulus \in Int /\ a % Modulus \in 0..(Modulus - 1)
           /\ a = Modulus * (a \div Modulus) + (a % Modulus)
  BY FlvStatAssumption

LEMMA MultipleSmall ==
    ASSUME NEW i \in Int, Modulus * i < Modulus, -Modulus < Modulus * i
    PROVE  i = 0
<1>1. ASSUME i >= 1 PROVE FALSE
  <2>1. Modulus * i >= Modulus
    BY <1>1, FlvStatAssumption
  <2>. QED
    BY <2>1, FlvStatAssumption
<1>2. ASSUME i <= -1 PROVE FALSE
  <2>1. Modulus * i <= -Modulus
    BY <1>2, FlvStatAssumption
  <2>. QED
    BY <2>1, FlvStatAssumption
<1>. QED
  BY <1>1, <1>2

\* A remainder is the only one.
LEMMA ModUnique ==
    ASSUME NEW i \in Int, NEW j \in Int, NEW r \in 0..(Modulus - 1),
           NEW s \in 0..(Modulus - 1), Modulus * i + r = Modulus * j + s
    PROVE  r = s
<1>1. Modulus * (i - j) = s - r
  <2>1. Modulus * (i - j) = Modulus * i - Modulus * j
    BY FlvStatAssumption
  <2>2. Modulus * i \in Int /\ Modulus * j \in Int
    BY FlvStatAssumption
  <2>. QED
    BY <2>1, <2>2, FlvStatAssumption
<1>2. s - r < Modulus /\ -Modulus < s - r
  BY FlvStatAssumption
<1>3. i - j = 0
  BY <1>1, <1>2, MultipleSmall
<1>4. Modulus * (i - j) = 0
  BY <1>3, FlvStatAssumption
<1>. QED
  BY <1>1, <1>4, FlvStatAssumption

LEMMA ModCongruent ==
    ASSUME NEW a \in Int, NEW b \in Int, NEW i \in Int, a = b + Modulus * i
    PROVE  a % Modulus = b % Modulus
<1> DEFINE q == a \div Modulus   p == b \div Modulus
<1>1. /\ q \in Int /\ a % Modulus \in 0..(Modulus - 1)
      /\ a = Modulus * q + (a % Modulus)
      /\ p \in Int /\ b % Modulus \in 0..(Modulus - 1)
      /\ b = Modulus * p + (b % Modulus)
  BY ModSplit
<1> HIDE DEF q, p
<1>2. /\ Modulus * (p + i) = Modulus * p + Modulus * i /\ p + i \in Int
      /\ Modulus * p \in Int /\ Modulus * i \in Int
  BY <1>1, FlvStatAssumption
<1>3. Modulus * q + (a % Modulus) = Modulus * (p + i) + (b % Modulus)
  BY <1>1, <1>2
<1>. QED
  BY <1>1, <1>2, <1>3, ModUnique

\* A wrapped difference added to a wrapped sum is the difference, wrapped once.
LEMMA AddSub ==
    ASSUME NEW x \in Int, NEW a \in Int, NEW b \in Int
    PROVE  Add(x % Modulus, Sub(a, b)) = (x + (a - b)) % Modulus
<1>1. PICK i \in Int : x = Modulus * i + (x % Modulus)
  BY ModSplit
<1>2. PICK j \in Int : Sub(a, b) = (a - b) + Modulus * j
  <2>1. PICK k \in Int : a - b = Modulus * k + ((a - b) % Modulus)
    BY ModSplit
  <2>2. /\ Modulus * (-k) = -(Modulus * k) /\ Modulus * k \in Int
        /\ Modulus * (-k - 1) = -(Modulus * k) - Modulus
        /\ -k \in Int /\ -k - 1 \in Int
    BY FlvStatAssumption
  <2>3. (a - b) % Modulus \in Int
    BY ModSplit
  <2>4. CASE Sub(a, b) = (a - b) % Modulus
    <3>1. Sub(a, b) = (a - b) + Modulus * (-k)
      BY <2>1, <2>2, <2>3, <2>4
    <3>. QED
      BY <2>2, <3>1
  <2>5. CASE Sub(a, b) = ((a - b) % Modulus) - Modulus
    <3>1. Sub(a, b) = (a - b) + Modulus * (-k - 1)
      BY <2>1, <2>2, <2>3, <2>5, FlvStatAssumption
    <3>. QED
      BY <2>2, <3>1
  <2>. QED
    BY <2>4, <2>5 DEF Sub
<1>3. x % Modulus \in Int
  BY ModSplit
<1>4. /\ Modulus * (j - i) = Modulus * j - Modulus * i /\ j - i \in Int
      /\ Modulus * j \in Int /\ Modulus * i \in Int
  BY FlvStatAssumption
<1>5. (x % Modulus) + Sub(a, b) = (x + (a - b)) + Modulus * (j - i)
  BY <1>1, <1>2, <1>3, <1>4
<1>6. (x % Modulus) + Sub(a, b) \in Int /\ x + (a - b) \in Int
  BY <1>3, SubInt
<1>. QED
  BY <1>4, <1>5, <1>6, ModCongruent DEF Add

LEMMA TelescopesTag ==
    ASSUME TypeOK, LengthTelescopes, NEW k \in Kinds, NEW time \in Times,
           NEW small \in BOOLEAN, NEW action \in BOOLEAN,
           MediaTag(k, time, small, action)
    PROVE  LengthTelescopes'
<1> DEFINE isFirst == first[k] \/ action
           begins == isFirst /\ ~small /\ time >= scriptLast
<1>1. status = "tags" /\ status' = "tags"
  BY DEF MediaTag, ReadTag
<1>2. time \in Int /\ last[k] \in Int /\ anchor[k] \in Int /\ closed[k] \in Int
  BY FlvStatAssumption DEF TypeOK
<1>3. closed' = IF action THEN [j \in Kinds |-> closed[j] + Span(j)] ELSE closed
  BY DEF MediaTag
<1>4. first' = [j \in Kinds |-> (first[j] \/ action) /\ ~(j = k /\ begins)]
  BY DEF MediaTag
<1>5. /\ last' = IF begins \/ ~isFirst THEN [last EXCEPT ![k] = time] ELSE last
      /\ anchor' = IF begins THEN [anchor EXCEPT ![k] = time] ELSE anchor
  BY DEF MediaTag
<1>6. ASSUME NEW j \in Kinds
      PROVE  closed[j] \in Int /\ Span(j) \in Int
  BY <1>6, SpanInt DEF TypeOK
<1>7. ASSUME NEW j \in Kinds, j # k \/ isFirst
      PROVE  length'[j] = (closed'[j] + Span(j)') % Modulus
  <2>1. length'[j] = (closed[j] + Span(j)) % Modulus
    BY <1>1, <1>7 DEF MediaTag, TypeOK, LengthTelescopes
  <2>2. closed'[j] + Span(j)' = closed[j] + Span(j)
    <3>1. CASE action \/ first[j]
      <4>1. Span(j)' = 0
        <5>1. CASE j = k /\ begins
          BY <1>2, <1>5, <5>1 DEF Span, TypeOK
        <5>2. CASE ~(j = k /\ begins)
          <6>1. first'[j]
            BY <1>4, <3>1, <5>2
          <6>. QED
            BY <6>1 DEF Span
        <5>. QED
          BY <5>1, <5>2
      <4>2. closed'[j] = closed[j] + Span(j)
        BY <1>3, <1>6, <3>1 DEF Span
      <4>. QED
        BY <1>6, <4>1, <4>2
    <3>2. CASE ~action /\ ~first[j]
      <4>1. j # k /\ closed'[j] = closed[j] /\ ~first'[j]
        BY <1>3, <1>4, <1>7, <3>2
      <4>2. last'[j] = last[j] /\ anchor'[j] = anchor[j]
        BY <1>5, <4>1 DEF TypeOK
      <4>. QED
        BY <3>2, <4>1, <4>2 DEF Span
    <3>. QED
      BY <3>1, <3>2
  <2>. QED
    BY <2>1, <2>2
<1>8. ASSUME ~isFirst
      PROVE  length'[k] = (closed'[k] + Span(k)') % Modulus
  <2>1. length'[k] = Add(length[k], Sub(time, last[k]))
    BY <1>8 DEF MediaTag, TypeOK
  <2>2. length[k] = (closed[k] + Span(k)) % Modulus
    BY <1>1 DEF LengthTelescopes
  <2>3. length'[k] = ((closed[k] + Span(k)) + (time - last[k])) % Modulus
    <3>1. closed[k] + Span(k) \in Int
      BY <1>6
    <3>2. PICK x \in Int : x = closed[k] + Span(k)
      BY <3>1
    <3>3. Add(x % Modulus, Sub(time, last[k])) = (x + (time - last[k])) % Modulus
      BY <1>2, AddSub
    <3>. QED
      BY <2>1, <2>2, <3>2, <3>3
  <2>4. Span(k) = last[k] - anchor[k] /\ closed'[k] = closed[k]
    BY <1>3, <1>8 DEF Span
  <2>5. Span(k)' = time - anchor[k]
    <3>1. ~first'[k] /\ last'[k] = time /\ anchor'[k] = anchor[k]
      BY <1>4, <1>5, <1>8 DEF TypeOK
    <3>. QED
      BY <3>1 DEF Span
  <2>6. (closed[k] + Span(k)) + (time - last[k]) = closed'[k] + Span(k)'
    BY <1>2, <2>4, <2>5
  <2>. QED
    BY <2>3, <2>6
<1>. QED
  BY <1>7, <1>8 DEF LengthTelescopes

\* A reset closes every segment and changes no length.
LEMMA TelescopesReset ==
    ASSUME TypeOK, LengthTelescopes, status = "tags", length' = length,
           first' = Reset, closed' = [k \in Kinds |-> closed[k] + Span(k)]
    PROVE  LengthTelescopes'
<1>1. ASSUME NEW k \in Kinds
      PROVE  length'[k] = (closed'[k] + Span(k)') % Modulus
  <2>1. Span(k)' = 0
    BY DEF Span, Reset
  <2>2. closed'[k] + Span(k)' = closed[k] + Span(k)
    <3>1. closed[k] \in Int /\ Span(k) \in Int
      BY SpanInt DEF TypeOK
    <3>. QED
      BY <2>1, <3>1
  <2>. QED
    BY <2>2 DEF LengthTelescopes
<1>. QED
  BY <1>1 DEF LengthTelescopes

\* The lengths that CheckFlvData sums up with wrapped differences are, modulo the
\* width of the sum, the spans of the segments of the recording, whatever the
\* timestamps do: jumps and wraps inside a segment cancel out, and nothing is
\* counted across a script tag or an action.
THEOREM Telescopes == Spec => []LengthTelescopes
<1>1. Init => LengthTelescopes
  <2> SUFFICES ASSUME Init PROVE LengthTelescopes
    OBVIOUS
  <2>1. 0 % Modulus = 0
    <3>1. 0 = 0 + Modulus * 0 /\ Modulus * 0 = 0
      BY FlvStatAssumption
    <3>2. 0 % Modulus \in 0..(Modulus - 1)
      BY ModSplit
    <3>3. PICK q \in Int : 0 = Modulus * q + (0 % Modulus)
      BY ModSplit
    <3>4. Modulus * 0 + 0 = Modulus * q + (0 % Modulus)
      BY <3>1, <3>3
    <3>. QED
      BY <3>2, <3>4, ModUnique, FlvStatAssumption
  <2>2. ASSUME NEW k \in Kinds
        PROVE  length[k] = 0 /\ closed[k] = 0 /\ Span(k) = 0
    BY DEF Init, Zero, Span
  <2>. QED
    BY <2>1, <2>2 DEF LengthTelescopes
<1>2. TypeOK /\ LengthTelescopes /\ [Next]_vars => LengthTelescopes'
  <2> SUFFICES ASSUME TypeOK, LengthTelescopes, [Next]_vars
               PROVE  LengthTelescopes'
    OBVIOUS
  <2>1. ASSUME NEW k \in Kinds, NEW time \in Times, NEW small \in BOOLEAN,
               NEW action \in BOOLEAN, MediaTag(k, time, small, action)
        PROVE  LengthTelescopes'
    BY <2>1, TelescopesTag
  <2>2. ASSUME NEW time \in Times, ScriptTag(time)
        PROVE  LengthTelescopes'
    BY <2>2, TelescopesReset DEF ScriptTag, ReadTag, counters
  <2>3. ASSUME NEW action \in BOOLEAN, UnknownTag(action)
        PROVE  LengthTelescopes'
    <3>1. CASE action
      BY <2>3, <3>1, TelescopesReset DEF UnknownTag, ReadTag, counters
    <3>2. CASE ~action
      BY <2>3, <3>2 DEF UnknownTag, ReadTag, counters, LengthTelescopes, Span
    <3>. QED
      BY <3>1, <3>2
  <2>4. CASE Check \/ Format2Json
    BY <2>4 DEF Check, Format2Json, LengthTelescopes
  <2>5. CASE UNCHANGED vars
    BY <2>5 DEF vars, counters, LengthTelescopes, Span
  <2>. QED
    BY <2>1, <2>2, <2>3, <2>4, <2>5 DEF Next
<1>. QED
  BY <1>1, <1>2, StatTypeCorrect, PTL DEF Spec

-----------------------------------------------------------------------------
\* Where the guard holds, the unsigned subtraction is the subtraction.
LEMMA GuardedSub ==
    ASSUME NEW a \in 0..(Modulus - 1), NEW b \in Nat, a > b
    PROVE  USub(a, b) = a - b
<1>1. a - b \in 0..(Modulus - 1) /\ a - b \in Int
  BY FlvStatAssumption
<1>2. /\ (a - b) \div Modulus \in Int /\ (a - b) % Modulus \in 0..(Modulus - 1)
      /\ a - b = Modulus * ((a - b) \div Modulus) + ((a - b) % Modulus)
  BY <1>1, ModSplit
<1>3. PICK q \in Int, r \in 0..(Modulus - 1), c \in 0..(Modulus - 1) :
          c = a - b /\ r = (a - b) % Modulus /\ c = Modulus * q + r
  BY <1>1, <1>2
<1>4. Modulus * 0 + c = Modulus * q + r
  BY <1>3, FlvStatAssumption
<1>5. c = r
  BY <1>4, ModUnique
<1>. QED
  BY <1>3, <1>5 DEF USub

\* A tag is counted as out of sync only when it really is StutterTime behind the
\* other kind's last one, for every width of the clock: the guard in front of
\* the unsigned subtraction keeps it from wrapping.
THEOREM RealLags == Spec => LagsAreReal
<1>1. ASSUME TypeOK, Next, NEW j \in Kinds, lags'[j] > lags[j]
      PROVE  last'[j] + StutterTime <= last[Other(j)]
  <2>1. PICK k \in Kinds, time \in Times, small \in BOOLEAN, action \in BOOLEAN :
            MediaTag(k, time, small, action)
    BY <1>1 DEF Next, ScriptTag, UnknownTag, Check, Format2Json, counters, TypeOK
  <2>2. lags' = Bump(lags, k, ~(first[k] \/ action) /\ Behind(k, time))
    BY <2>1 DEF MediaTag
  <2>3. j = k /\ ~(first[k] \/ action) /\ Behind(k, time)
    BY <1>1, <2>2 DEF Bump, TypeOK
  <2>4. last'[j] = time
    BY <1>1, <2>1, <2>3 DEF MediaTag, TypeOK
  <2>5. Other(j) \in Kinds
    BY DEF Other, Kinds
  <2>6. last[Other(j)] \in 0..(Modulus - 1) /\ StutterTime \in Nat /\ time \in Int
    BY <1>1, <2>5, FlvStatAssumption DEF TypeOK
  <2>7. /\ last[Other(j)] > StutterTime
        /\ time <= USub(last[Other(j)], StutterTime)
    BY <2>3 DEF Behind
  <2>8. USub(last[Other(j)], StutterTime) = last[Other(j)] - StutterTime
    BY <2>6, <2>7, GuardedSub
  <2>9. last[Other(j)] \in Int
    BY <2>6, FlvStatAssumption
  <2>. QED
    BY <2>4, <2>6, <2>7, <2>8, <2>9
<1>2. TypeOK /\ [Next]_vars => [\A k \in Kinds :
          lags'[k] > lags[k] => last'[k] + StutterTime <= last[Other(k)]]_vars
  BY <1>1
<1>. QED
  BY <1>2, StatTypeCorrect, PTL DEF Spec, LagsAreReal
=============================================================================
