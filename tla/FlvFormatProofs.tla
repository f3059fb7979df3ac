-------------------------- MODULE FlvFormatProofs --------------------------
(***************************************************************************)
(* Where everything lies in a stream of tags, for the proofs about the two *)
(* parsers.  A tag starts where the layouts of those before it end (AtIs), *)
(* what is there is its type, its size, its body and the size behind it    *)
(* (LayoutIs), a number written in bytes is read back (TwoBack, ThreeBack, *)
(* FourBack), and units lie behind the lengths that add up to their place  *)
(* (NalusLie, PlacesAre).  The first half is about sequences whose         *)
(* elements are of no particular set.                                      *)
(***************************************************************************)
EXTENDS FlvFormat, SequenceTheorems, WellFoundedInduction, TLAPS

IsSeq(s) == \E S : s \in Seq(S)

\* A sequence has a length, is defined up to it, and is empty if that is zero.
LEMMA SeqFacts ==
  ASSUME NEW s, IsSeq(s)
  PROVE  Len(s) \in Nat /\ DOMAIN s = 1..Len(s) /\ (s = <<>> <=> Len(s) = 0)
<1>1. PICK S : s \in Seq(S)  BY DEF IsSeq
<1>. QED BY <1>1, LenProperties, EmptySeq

\* The empty sequence is one.
LEMMA EmptyIs == IsSeq(<<>>) /\ Len(<<>>) = 0
BY EmptySeq DEF IsSeq

\* So is one of a single element,
LEMMA SingleIs ==
  ASSUME NEW m
  PROVE  IsSeq(<<m>>) /\ Len(<<m>>) = 1 /\ <<m>>[1] = m
<1>1. <<m>> \in Seq({m})  OBVIOUS
<1>. QED BY <1>1 DEF IsSeq

\* and one of two.
LEMMA PairIs ==
  ASSUME NEW m, NEW n
  PROVE  IsSeq(<<m, n>>) /\ Len(<<m, n>>) = 2 /\ <<m, n>>[1] = m /\ <<m, n>>[2] = n
<1>1. <<m, n>> \in Seq({m, n})  OBVIOUS
<1>. QED BY <1>1 DEF IsSeq

\* Append adds one at the end and moves nothing.
LEMMA AppendIs ==
  ASSUME NEW s, IsSeq(s), NEW m
  PROVE  /\ IsSeq(Append(s, m)) /\ Len(Append(s, m)) = Len(s) + 1
         /\ \A i \in 1..Len(s) : Append(s, m)[i] = s[i]
         /\ Append(s, m)[Len(s) + 1] = m
<1>1. PICK S : s \in Seq(S)  BY DEF IsSeq
<1>2. s \in Seq(S \cup {m})  BY <1>1, SeqMonotonic
<1>3. Append(s, m) \in Seq(S \cup {m})  BY <1>2
<1>. QED BY <1>2, <1>3 DEF IsSeq

\* Tail drops the first.
LEMMA TailIs ==
  ASSUME NEW s, IsSeq(s), s # <<>>
  PROVE  /\ IsSeq(Tail(s)) /\ Len(s) >= 1 /\ Len(Tail(s)) = Len(s) - 1
         /\ \A i \in 1..Len(Tail(s)) : Tail(s)[i] = s[i + 1]
         /\ Head(s) = s[1]
<1>1. PICK S : s \in Seq(S)  BY DEF IsSeq
<1>. QED BY <1>1, HeadTailProperties, EmptySeq DEF IsSeq

\* Concatenation puts one behind the other.
LEMMA ConcatIs ==
  ASSUME NEW s, IsSeq(s), NEW t, IsSeq(t)
  PROVE  /\ IsSeq(s \o t) /\ Len(s \o t) = Len(s) + Len(t)
         /\ \A i \in 1..(Len(s) + Len(t)) :
              (s \o t)[i] = IF i <= Len(s) THEN s[i] ELSE t[i - Len(s)]
<1>1. PICK S : s \in Seq(S)  BY DEF IsSeq
<1>2. PICK T : t \in Seq(T)  BY DEF IsSeq
<1>3. s \in Seq(S \cup T) /\ t \in Seq(S \cup T)  BY <1>1, <1>2, SeqMonotonic
<1>. QED BY <1>3, ConcatProperties DEF IsSeq

\* RemoveAt drops the one at i, and those behind it move up.
LEMMA RemoveAtIs ==
  ASSUME NEW s, IsSeq(s), NEW i \in 1..Len(s)
  PROVE  /\ IsSeq(RemoveAt(s, i)) /\ Len(RemoveAt(s, i)) = Len(s) - 1
         /\ \A k \in 1..(Len(s) - 1) : RemoveAt(s, i)[k] = IF k < i THEN s[k] ELSE s[k + 1]
<1>. DEFINE front == SubSeq(s, 1, i - 1)
            back == SubSeq(s, i + 1, Len(s))
<1>1. PICK S : s \in Seq(S)  BY DEF IsSeq
<1>2. Len(s) \in Nat /\ \A k \in 1..Len(s) : s[k] \in S  BY <1>1, LenProperties, ElementOfSeq
<1>3. /\ front \in Seq(S) /\ Len(front) = i - 1
      /\ \A k \in 1..(i - 1) : front[k] = s[k]
  <2>1. \A k \in 1..(i - 1) : s[k] \in S  BY <1>2
  <2>2. /\ SubSeq(s, 1, i - 1) \in Seq(S)
        /\ Len(SubSeq(s, 1, i - 1)) = IF 1 <= i - 1 THEN (i - 1) - 1 + 1 ELSE 0
        /\ \A k \in 1..((i - 1) - 1 + 1) : SubSeq(s, 1, i - 1)[k] = s[1 + k - 1]
    BY <2>1, <1>2, SubSeqProperties
  <2>. QED BY <2>2, <1>2
<1>4. /\ back \in Seq(S) /\ Len(back) = Len(s) - i
      /\ \A k \in 1..(Len(s) - i) : back[k] = s[k + i]
  <2>1. \A k \in (i + 1)..Len(s) : s[k] \in S  BY <1>2
  <2>2. /\ SubSeq(s, i + 1, Len(s)) \in Seq(S)
        /\ Len(SubSeq(s, i + 1, Len(s))) = IF i + 1 <= Len(s) THEN Len(s) - (i + 1) + 1 ELSE 0
        /\ \A k \in 1..(Len(s) - (i + 1) + 1) : SubSeq(s, i + 1, Len(s))[k] = s[(i + 1) + k - 1]
    BY <2>1, <1>2, SubSeqProperties
  <2>. QED BY <2>2, <1>2
<1>5. RemoveAt(s, i) = front \o back  BY DEF RemoveAt
<1>6. IsSeq(front) /\ IsSeq(back)  BY <1>3, <1>4 DEF IsSeq
<1>. HIDE DEF front, back
<1>7. /\ IsSeq(front \o back) /\ Len(front \o back) = Len(s) - 1
      /\ \A k \in 1..(Len(s) - 1) :
           (front \o back)[k] = IF k <= i - 1 THEN front[k] ELSE back[k - (i - 1)]
  <2>1. Len(front) + Len(back) = Len(s) - 1  BY <1>2, <1>3, <1>4
  <2>2. /\ IsSeq(front \o back) /\ Len(front \o back) = Len(front) + Len(back)
        /\ \A k \in 1..(Len(front) + Len(back)) :
             (front \o back)[k] = IF k <= Len(front) THEN front[k] ELSE back[k - Len(front)]
    BY <1>6, ConcatIs
  <2>. QED BY <2>1, <2>2, <1>3
<1>8. ASSUME NEW k \in 1..(Len(s) - 1)
      PROVE  (front \o back)[k] = IF k < i THEN s[k] ELSE s[k + 1]
  <2>1. CASE k < i  BY <2>1, <1>2, <1>3, <1>7
  <2>2. CASE ~(k < i)
    <3>1. k - (i - 1) \in 1..(Len(s) - i)  BY <2>2, <1>2
    <3>2. back[k - (i - 1)] = s[k - (i - 1) + i]  BY <3>1, <1>4
    <3>3. k - (i - 1) + i = k + 1  BY <1>2
    <3>. QED BY <2>2, <3>2, <3>3, <1>2, <1>7
  <2>. QED BY <2>1, <2>2
<1>. QED BY <1>5, <1>7, <1>8

\* A nonempty set of numbers has a least one, which Min is.
LEMMA MinIs ==
  ASSUME NEW T, T \subseteq Nat, T # {}
  PROVE  Min(T) \in T /\ \A n \in T : Min(T) <= n
<1>1. PICK x \in T : \A y \in T : ~ (<<y, x>> \in OpToRel(<, Nat))
  BY NatLessThanWellFounded, WFMin
<1>2. \A y \in T : ~(y < x)
  BY <1>1 DEF OpToRel
<1>3. \A y \in T : x <= y
  BY <1>2
<1>. QED BY <1>3 DEF Min

\* Induction over the numbers, for a set of them.
LEMMA SetInduction ==
  ASSUME NEW S, 0 \in S, \A n \in Nat : n \in S => n + 1 \in S
  PROVE  \A n \in Nat : n \in S
<1>. DEFINE T == Nat \ S
<1>1. SUFFICES ASSUME T # {} PROVE FALSE  OBVIOUS
<1>2. Min(T) \in T /\ \A y \in T : Min(T) <= y  BY <1>1, MinIs
<1>3. Min(T) # 0  BY <1>2
<1>4. Min(T) - 1 \in Nat /\ Min(T) - 1 \notin T  BY <1>2, <1>3
<1>. QED BY <1>2, <1>4

-----------------------------------------------------------------------------
(* FlattenSeq.                                                             *)

\* What FlattenSeq computes on its way.
Flattens(f, seqs, n) ==
  f = [i \in 1..n |-> IF i = 1 THEN seqs[i] ELSE f[i - 1] \o seqs[i]]

\* There is such a function.
LEMMA FlattensExist ==
  ASSUME NEW seqs
  PROVE  \A n \in Nat : \E f : Flattens(f, seqs, n)
<1>. DEFINE S == {n \in Nat : \E f : Flattens(f, seqs, n)}
<1>1. 0 \in S
  <2>1. 1..0 = {}  OBVIOUS
  <2>2. Flattens([i \in 1..0 |-> seqs], seqs, 0)  BY <2>1 DEF Flattens
  <2>. QED BY <2>2
<1>2. ASSUME NEW n \in Nat, n \in S PROVE n + 1 \in S
  <2>1. PICK f : Flattens(f, seqs, n)  BY <1>2
  <2>. DEFINE g == [i \in 1..(n + 1) |-> IF i = 1 THEN seqs[i] ELSE f[i - 1] \o seqs[i]]
  <2>2. \A i \in 1..n : g[i] = f[i]
    <3>1. \A i \in 1..n : f[i] = IF i = 1 THEN seqs[i] ELSE f[i - 1] \o seqs[i]
      BY <2>1, Zenon DEF Flattens
    <3>2. \A i \in 1..n : i \in 1..(n + 1)  OBVIOUS
    <3>. QED BY <3>1, <3>2, Zenon
  <2>3. \A i \in 1..(n + 1) : i # 1 => i - 1 \in 1..n  OBVIOUS
  <2>4. \A i \in 1..(n + 1) : i # 1 => g[i] = g[i - 1] \o seqs[i]  BY <2>2, <2>3
  <2>5. g = [i \in 1..(n + 1) |-> IF i = 1 THEN seqs[i] ELSE g[i - 1] \o seqs[i]]
    <3>. DEFINE h == [i \in 1..(n + 1) |-> IF i = 1 THEN seqs[i] ELSE g[i - 1] \o seqs[i]]
    <3>1. \A i \in 1..(n + 1) : h[i] = g[i]  BY <2>4
    <3>. QED BY <3>1
  <2>6. Flattens(g, seqs, n + 1)  BY <2>5 DEF Flattens
  <2>. QED BY <2>6
<1>. HIDE DEF S
<1>3. \A n \in Nat : n \in S  BY <1>1, <1>2, SetInduction
<1>. QED BY <1>3 DEF S

\* and FlattenSeq's result is its last value.
LEMMA FlattenSeqIs ==
  ASSUME NEW seqs, Len(seqs) \in Nat \ {0}
  PROVE  \E f : Flattens(f, seqs, Len(seqs)) /\ FlattenSeq(seqs) = f[Len(seqs)]
<1>. DEFINE f == CHOOSE f : Flattens(f, seqs, Len(seqs))
<1>1. Flattens(f, seqs, Len(seqs))  BY FlattensExist
<1>2. FlattenSeq(seqs) = f[Len(seqs)]  BY DEF FlattenSeq, Flattens
<1>. QED BY <1>1, <1>2

\* One more sequence goes behind what the others make.
LEMMA FlattenAdds ==
  ASSUME NEW s, NEW t, Len(s) \in Nat, Len(t) = Len(s) + 1, Len(s) = 0 => s = <<>>,
         \A i \in 1..Len(s) : t[i] = s[i], IsSeq(t[Len(t)])
  PROVE  FlattenSeq(t) = FlattenSeq(s) \o t[Len(t)]
<1>1. PICK g : Flattens(g, t, Len(t)) /\ FlattenSeq(t) = g[Len(t)]  BY FlattenSeqIs
<1>2. CASE Len(s) = 0
  <2>1. FlattenSeq(s) = <<>>  BY <1>2 DEF FlattenSeq
  <2>2. g[Len(t)] = t[Len(t)]  BY <1>1, <1>2 DEF Flattens
  <2>3. <<>> \o t[Len(t)] = t[Len(t)]
    <3>1. PICK S : t[Len(t)] \in Seq(S)  BY DEF IsSeq
    <3>. QED BY <3>1, ConcatEmptySeq
  <2>. QED BY <1>1, <2>1, <2>2, <2>3
<1>3. CASE Len(s) # 0
  <2>1. PICK f : Flattens(f, s, Len(s)) /\ FlattenSeq(s) = f[Len(s)]  BY <1>3, FlattenSeqIs
  <2>. DEFINE S == {i \in Nat : i + 1 \in 1..Len(s) => f[i + 1] = g[i + 1]}
  <2>2. 0 \in S
    <3>1. f[1] = s[1] /\ g[1] = t[1]  BY <1>1, <1>3, <2>1 DEF Flattens
    <3>. QED BY <3>1, <1>3
  <2>3. ASSUME NEW i \in Nat, i \in S PROVE i + 1 \in S
    <3>1. SUFFICES ASSUME i + 2 \in 1..Len(s) PROVE f[i + 2] = g[i + 2]
      BY (i + 1) + 1 = i + 2
    <3>2. f[i + 1] = g[i + 1]  BY <2>3, <3>1
    <3>3. i + 2 \in 1..Len(t) /\ i + 2 # 1 /\ (i + 2) - 1 = i + 1  BY <3>1
    <3>4. f[i + 2] = f[i + 1] \o s[i + 2]  BY <2>1, <3>1, <3>3 DEF Flattens
    <3>5. g[i + 2] = g[i + 1] \o t[i + 2]  BY <1>1, <3>3 DEF Flattens
    <3>. QED BY <3>1, <3>2, <3>4, <3>5
  <2>. HIDE DEF S
  <2>4. \A i \in Nat : i \in S  BY <2>2, <2>3, SetInduction
  <2>5. f[Len(s)] = g[Len(s)]
    <3>1. Len(s) - 1 \in Nat /\ (Len(s) - 1) + 1 = Len(s)  BY <1>3
    <3>2. Len(s) - 1 \in S  BY <2>4, <3>1
    <3>. QED BY <3>1, <3>2, <1>3 DEF S
  <2>6. Len(t) \in 1..Len(t) /\ Len(t) # 1 /\ Len(t) - 1 = Len(s)  BY <1>3
  <2>7. g[Len(t)] = g[Len(s)] \o t[Len(t)]  BY <1>1, <2>6 DEF Flattens
  <2>. QED BY <1>1, <2>1, <2>5, <2>7
<1>. QED BY <1>2, <1>3

-----------------------------------------------------------------------------
(* Folds from the left: a sum, and the number that digits make.            *)

\* A nonempty set of numbers below a bound has a greatest one, which Max is.
LEMMA MaxIs ==
  ASSUME NEW n \in Nat, NEW T, T \subseteq 1..n, T # {}
  PROVE  Max(T) \in T /\ \A x \in T : x <= Max(T)
<1>. DEFINE U == {k \in Nat : n - k \in T}
<1>1. U # {}
  <2>1. PICK x : x \in T  OBVIOUS
  <2>2. n - x \in Nat /\ n - (n - x) = x  BY <2>1
  <2>. QED BY <2>1, <2>2
<1>2. Min(U) \in U /\ \A k \in U : Min(U) <= k  BY <1>1, MinIs
<1>. HIDE DEF U
<1>3. ASSUME NEW x \in T PROVE n - Min(U) >= x
  <2>1. n - x \in Nat /\ n - (n - x) = x  OBVIOUS
  <2>2. n - x \in U  BY <2>1 DEF U
  <2>3. Min(U) \in Nat  BY <1>2 DEF U
  <2>. QED BY <1>2, <2>1, <2>2, <2>3
<1>4. n - Min(U) \in T  BY <1>2 DEF U
<1>5. \E x \in T : \A y \in T : x >= y  BY <1>3, <1>4
<1>6. Max(T) \in T /\ \A y \in T : Max(T) >= y  BY <1>5 DEF Max
<1>. QED BY <1>6

Added(seq) == FoldLeft(LAMBDA a, b: a + b, 0, seq)
Digits(seq) == FoldLeft(LAMBDA value, byte: 256 * value + byte, 0, seq)

\* What Added computes on its way, by the sets of positions it goes through.
AddedWay(f, seq, n) ==
  f = [s \in SUBSET (1..n) |-> IF s = {} THEN 0 ELSE f[s \ {Max(s)}] + seq[Max(s)]]

\* There is such a function,
LEMMA AddedWayExists ==
  ASSUME NEW seq
  PROVE  \A n \in Nat : \E f : AddedWay(f, seq, n)
<1>. DEFINE S == {n \in Nat : \E f : AddedWay(f, seq, n)}
<1>1. 0 \in S
  <2>1. \A s \in SUBSET (1..0) : s = {}  OBVIOUS
  <2>2. AddedWay([s \in SUBSET (1..0) |-> 0], seq, 0)  BY <2>1 DEF AddedWay
  <2>. QED BY <2>2
<1>2. ASSUME NEW n \in Nat, n \in S PROVE n + 1 \in S
  <2>1. PICK f : AddedWay(f, seq, n)  BY <1>2
  <2>. DEFINE g == [s \in SUBSET (1..(n + 1)) |->
                      IF s = {} THEN 0 ELSE f[s \ {Max(s)}] + seq[Max(s)]]
  <2>2. \A s \in SUBSET (1..n) : g[s] = f[s]
    <3>1. \A s \in SUBSET (1..n) :
            f[s] = IF s = {} THEN 0 ELSE f[s \ {Max(s)}] + seq[Max(s)]
      BY <2>1, Zenon DEF AddedWay
    <3>2. \A s \in SUBSET (1..n) : s \in SUBSET (1..(n + 1))  OBVIOUS
    <3>. QED BY <3>1, <3>2, Zenon
  <2>3. \A s \in SUBSET (1..(n + 1)) : s # {} => s \ {Max(s)} \in SUBSET (1..n)
    <3>1. SUFFICES ASSUME NEW s \in SUBSET (1..(n + 1)), s # {}
                   PROVE  s \ {Max(s)} \in SUBSET (1..n)
      OBVIOUS
    <3>2. Max(s) \in s /\ \A x \in s : x <= Max(s)  BY <3>1, MaxIs, n + 1 \in Nat
    <3>. HIDE DEF g
    <3>3. ASSUME NEW x \in s, x # Max(s) PROVE x \in 1..n
      <4>1. x \in 1..(n + 1) /\ Max(s) \in 1..(n + 1) /\ x <= Max(s)  BY <3>2
      <4>. QED BY <3>3, <4>1
    <3>. QED BY <3>3
  <2>4. \A s \in SUBSET (1..(n + 1)) : s # {} =>
          g[s] = g[s \ {Max(s)}] + seq[Max(s)]
    BY <2>2, <2>3
  <2>5. g = [s \in SUBSET (1..(n + 1)) |->
               IF s = {} THEN 0 ELSE g[s \ {Max(s)}] + seq[Max(s)]]
    <3>. DEFINE h == [s \in SUBSET (1..(n + 1)) |->
                        IF s = {} THEN 0 ELSE g[s \ {Max(s)}] + seq[Max(s)]]
    <3>1. \A s \in SUBSET (1..(n + 1)) : h[s] = g[s]  BY <2>4
    <3>. QED BY <3>1
  <2>6. AddedWay(g, seq, n + 1)  BY <2>5 DEF AddedWay
  <2>. QED BY <2>6
<1>. HIDE DEF S
<1>3. \A n \in Nat : n \in S  BY <1>1, <1>2, SetInduction
<1>. QED BY <1>3 DEF S

\* On that way the numbers go up one by one.
LEMMA AddedWayGoes ==
  ASSUME NEW seq, NEW n \in Nat, NEW f, AddedWay(f, seq, n)
  PROVE  f[{}] = 0 /\ \A i \in 1..n : f[1..i] = f[1..(i - 1)] + seq[i]
<1>1. \A s \in SUBSET (1..n) :
        f[s] = IF s = {} THEN 0 ELSE f[s \ {Max(s)}] + seq[Max(s)]
  BY Zenon DEF AddedWay
<1>2. ASSUME NEW i \in 1..n PROVE f[1..i] = f[1..(i - 1)] + seq[i]
  <2>1. 1..i \in SUBSET (1..n) /\ 1..i # {}  OBVIOUS
  <2>2. Max(1..i) \in 1..i /\ \A x \in 1..i : x <= Max(1..i)  BY <2>1, MaxIs
  <2>3. Max(1..i) = i  BY <2>2
  <2>4. (1..i) \ {i} = 1..(i - 1)  OBVIOUS
  <2>5. f[1..i] = f[(1..i) \ {Max(1..i)}] + seq[Max(1..i)]  BY <1>1, <2>1
  <2>. QED BY <2>3, <2>4, <2>5
<1>. QED BY <1>1, <1>2

\* and Added's result is its last value.
LEMMA AddedIs ==
  ASSUME NEW seq, Len(seq) \in Nat, DOMAIN seq = 1..Len(seq)
  PROVE  \E f : AddedWay(f, seq, Len(seq)) /\ Added(seq) = f[1..Len(seq)]
<1>. DEFINE f == CHOOSE f : AddedWay(f, seq, Len(seq))
<1>1. AddedWay(f, seq, Len(seq))  BY AddedWayExists
<1>2. Added(seq) = f[1..Len(seq)]  BY DEF Added, FoldLeft, MapThenFoldSet, AddedWay
<1>. QED BY <1>1, <1>2

\* One more number is added to the sum of the others.
LEMMA AddedAdds ==
  ASSUME NEW s, NEW t, Len(s) \in Nat, Len(t) = Len(s) + 1,
         DOMAIN s = 1..Len(s), DOMAIN t = 1..Len(t), \A i \in 1..Len(s) : t[i] = s[i]
  PROVE  Added(t) = Added(s) + t[Len(t)]
<1>1. PICK f : AddedWay(f, s, Len(s)) /\ Added(s) = f[1..Len(s)]  BY AddedIs
<1>2. PICK g : AddedWay(g, t, Len(t)) /\ Added(t) = g[1..Len(t)]  BY AddedIs
<1>3. f[{}] = 0 /\ \A i \in 1..Len(s) : f[1..i] = f[1..(i - 1)] + s[i]  BY <1>1, AddedWayGoes
<1>4. g[{}] = 0 /\ \A i \in 1..Len(t) : g[1..i] = g[1..(i - 1)] + t[i]  BY <1>2, AddedWayGoes
<1>. DEFINE S == {i \in Nat : i <= Len(s) => f[1..i] = g[1..i]}
<1>5. 0 \in S
  <2>1. 1..0 = {}  OBVIOUS
  <2>. QED BY <2>1, <1>3, <1>4
<1>6. ASSUME NEW i \in Nat, i \in S PROVE i + 1 \in S
  <2>1. SUFFICES ASSUME i + 1 <= Len(s) PROVE f[1..(i + 1)] = g[1..(i + 1)]  OBVIOUS
  <2>2. i + 1 \in 1..Len(s) /\ i + 1 \in 1..Len(t) /\ (i + 1) - 1 = i  BY <2>1
  <2>3. f[1..i] = g[1..i]  BY <1>6, <2>1
  <2>. QED BY <1>3, <1>4, <2>2, <2>3
<1>. HIDE DEF S
<1>7. \A i \in Nat : i \in S  BY <1>5, <1>6, SetInduction
<1>8. f[1..Len(s)] = g[1..Len(s)]  BY <1>7 DEF S
<1>9. Len(t) \in 1..Len(t) /\ Len(t) - 1 = Len(s)  OBVIOUS
<1>. QED BY <1>1, <1>2, <1>4, <1>8, <1>9

\* No numbers add up to 0.
LEMMA AddedNone == Added(<<>>) = 0
<1>1. Len(<<>>) = 0 /\ DOMAIN <<>> = 1..0 /\ 1..0 = {}
  BY EmptyIs, SeqFacts
<1>2. PICK f : AddedWay(f, <<>>, 0) /\ Added(<<>>) = f[1..0]  BY <1>1, AddedIs
<1>. QED BY <1>1, <1>2, AddedWayGoes

\* What Digits computes on its way, by the sets of positions it goes through.
DigitsWay(f, seq, n) ==
  f = [s \in SUBSET (1..n) |-> IF s = {} THEN 0 ELSE 256 * f[s \ {Max(s)}] + seq[Max(s)]]

\* There is such a function,
LEMMA DigitsWayExists ==
  ASSUME NEW seq
  PROVE  \A n \in Nat : \E f : DigitsWay(f, seq, n)
<1>. DEFINE S == {n \in Nat : \E f : DigitsWay(f, seq, n)}
<1>1. 0 \in S
  <2>1. \A s \in SUBSET (1..0) : s = {}  OBVIOUS
  <2>2. DigitsWay([s \in SUBSET (1..0) |-> 0], seq, 0)  BY <2>1 DEF DigitsWay
  <2>. QED BY <2>2
<1>2. ASSUME NEW n \in Nat, n \in S PROVE n + 1 \in S
  <2>1. PICK f : DigitsWay(f, seq, n)  BY <1>2
  <2>. DEFINE g == [s \in SUBSET (1..(n + 1)) |->
                      IF s = {} THEN 0 ELSE 256 * f[s \ {Max(s)}] + seq[Max(s)]]
  <2>2. \A s \in SUBSET (1..n) : g[s] = f[s]
    <3>1. \A s \in SUBSET (1..n) :
            f[s] = IF s = {} THEN 0 ELSE 256 * f[s \ {Max(s)}] + seq[Max(s)]
      BY <2>1, Zenon DEF DigitsWay
    <3>2. \A s \in SUBSET (1..n) : s \in SUBSET (1..(n + 1))  OBVIOUS
    <3>. QED BY <3>1, <3>2, Zenon
  <2>3. \A s \in SUBSET (1..(n + 1)) : s # {} => s \ {Max(s)} \in SUBSET (1..n)
    <3>1. SUFFICES ASSUME NEW s \in SUBSET (1..(n + 1)), s # {}
                   PROVE  s \ {Max(s)} \in SUBSET (1..n)
      OBVIOUS
    <3>2. Max(s) \in s /\ \A x \in s : x <= Max(s)  BY <3>1, MaxIs, n + 1 \in Nat
    <3>. HIDE DEF g
    <3>3. ASSUME NEW x \in s, x # Max(s) PROVE x \in 1..n
      <4>1. x \in 1..(n + 1) /\ Max(s) \in 1..(n + 1) /\ x <= Max(s)  BY <3>2
      <4>. QED BY <3>3, <4>1
    <3>. QED BY <3>3
  <2>4. \A s \in SUBSET (1..(n + 1)) : s # {} =>
          g[s] = 256 * g[s \ {Max(s)}] + seq[Max(s)]
    BY <2>2, <2>3, ZenonT(60)
  <2>5. g = [s \in SUBSET (1..(n + 1)) |->
               IF s = {} THEN 0 ELSE 256 * g[s \ {Max(s)}] + seq[Max(s)]]
    <3>. DEFINE h == [s \in SUBSET (1..(n + 1)) |->
                        IF s = {} THEN 0 ELSE 256 * g[s \ {Max(s)}] + seq[Max(s)]]
    <3>1. \A s \in SUBSET (1..(n + 1)) : h[s] = g[s]  BY <2>4, ZenonT(60)
    <3>. QED BY <3>1, ZenonT(60)
  <2>6. DigitsWay(g, seq, n + 1)  BY <2>5 DEF DigitsWay
  <2>. QED BY <2>6
<1>. HIDE DEF S
<1>3. \A n \in Nat : n \in S  BY <1>1, <1>2, SetInduction
<1>. QED BY <1>3 DEF S

\* On that way the numbers go up one by one.
LEMMA DigitsWayGoes ==
  ASSUME NEW seq, NEW n \in Nat, NEW f, DigitsWay(f, seq, n)
  PROVE  f[{}] = 0 /\ \A i \in 1..n : f[1..i] = 256 * f[1..(i - 1)] + seq[i]
<1>1. \A s \in SUBSET (1..n) :
        f[s] = IF s = {} THEN 0 ELSE 256 * f[s \ {Max(s)}] + seq[Max(s)]
  BY Zenon DEF DigitsWay
<1>2. ASSUME NEW i \in 1..n PROVE f[1..i] = 256 * f[1..(i - 1)] + seq[i]
  <2>1. 1..i \in SUBSET (1..n) /\ 1..i # {}  OBVIOUS
  <2>2. Max(1..i) \in 1..i /\ \A x \in 1..i : x <= Max(1..i)  BY <2>1, MaxIs
  <2>3. Max(1..i) = i  BY <2>2
  <2>4. (1..i) \ {i} = 1..(i - 1)  OBVIOUS
  <2>5. f[1..i] = 256 * f[(1..i) \ {Max(1..i)}] + seq[Max(1..i)]  BY <1>1, <2>1
  <2>. QED BY <2>3, <2>4, <2>5
<1>. QED BY <1>1, <1>2

\* and Digits' result is its last value.
LEMMA DigitsIs ==
  ASSUME NEW seq, Len(seq) \in Nat, DOMAIN seq = 1..Len(seq)
  PROVE  \E f : DigitsWay(f, seq, Len(seq)) /\ Digits(seq) = f[1..Len(seq)]
<1>. DEFINE f == CHOOSE f : DigitsWay(f, seq, Len(seq))
<1>1. DigitsWay(f, seq, Len(seq))  BY DigitsWayExists
<1>2. Digits(seq) = f[1..Len(seq)]  BY DEF Digits, FoldLeft, MapThenFoldSet, DigitsWay
<1>. QED BY <1>1, <1>2

\* One more digit is the lowest.
LEMMA DigitsAdds ==
  ASSUME NEW s, NEW t, Len(s) \in Nat, Len(t) = Len(s) + 1,
         DOMAIN s = 1..Len(s), DOMAIN t = 1..Len(t), \A i \in 1..Len(s) : t[i] = s[i]
  PROVE  Digits(t) = 256 * Digits(s) + t[Len(t)]
<1>1. PICK f : DigitsWay(f, s, Len(s)) /\ Digits(s) = f[1..Len(s)]  BY DigitsIs
<1>2. PICK g : DigitsWay(g, t, Len(t)) /\ Digits(t) = g[1..Len(t)]  BY DigitsIs
<1>3. f[{}] = 0 /\ \A i \in 1..Len(s) : f[1..i] = 256 * f[1..(i - 1)] + s[i]  BY <1>1, DigitsWayGoes
<1>4. g[{}] = 0 /\ \A i \in 1..Len(t) : g[1..i] = 256 * g[1..(i - 1)] + t[i]  BY <1>2, DigitsWayGoes
<1>. DEFINE S == {i \in Nat : i <= Len(s) => f[1..i] = g[1..i]}
<1>5. 0 \in S
  <2>1. 1..0 = {}  OBVIOUS
  <2>. QED BY <2>1, <1>3, <1>4
<1>6. ASSUME NEW i \in Nat, i \in S PROVE i + 1 \in S
  <2>1. SUFFICES ASSUME i + 1 <= Len(s) PROVE f[1..(i + 1)] = g[1..(i + 1)]  OBVIOUS
  <2>2. i + 1 \in 1..Len(s) /\ i + 1 \in 1..Len(t) /\ (i + 1) - 1 = i  BY <2>1
  <2>3. f[1..i] = g[1..i]  BY <1>6, <2>1
  <2>. QED BY <1>3, <1>4, <2>2, <2>3
<1>. HIDE DEF S
<1>7. \A i \in Nat : i \in S  BY <1>5, <1>6, SetInduction
<1>8. f[1..Len(s)] = g[1..Len(s)]  BY <1>7 DEF S
<1>9. Len(t) \in 1..Len(t) /\ Len(t) - 1 = Len(s)  OBVIOUS
<1>. QED BY <1>1, <1>2, <1>4, <1>8, <1>9

\* No digits are 0.
LEMMA DigitsNone == Digits(<<>>) = 0
<1>1. Len(<<>>) = 0 /\ DOMAIN <<>> = 1..0 /\ 1..0 = {}
  BY EmptyIs, SeqFacts
<1>2. PICK f : DigitsWay(f, <<>>, 0) /\ Digits(<<>>) = f[1..0]  BY <1>1, DigitsIs
<1>. QED BY <1>1, <1>2, DigitsWayGoes

\* Digits that are numbers make a number.
LEMMA DigitsAre ==
  ASSUME NEW seq, Len(seq) \in Nat, DOMAIN seq = 1..Len(seq), \A i \in 1..Len(seq) : seq[i] \in Nat
  PROVE  Digits(seq) \in Nat
<1>1. PICK f : DigitsWay(f, seq, Len(seq)) /\ Digits(seq) = f[1..Len(seq)]  BY DigitsIs
<1>2. f[{}] = 0 /\ \A i \in 1..Len(seq) : f[1..i] = 256 * f[1..(i - 1)] + seq[i]
  BY <1>1, DigitsWayGoes
<1>. DEFINE S == {i \in Nat : i <= Len(seq) => f[1..i] \in Nat}
<1>3. 0 \in S
  <2>1. 1..0 = {}  OBVIOUS
  <2>. QED BY <2>1, <1>2
<1>4. ASSUME NEW i \in Nat, i \in S PROVE i + 1 \in S
  <2>1. SUFFICES ASSUME i + 1 <= Len(seq) PROVE f[1..(i + 1)] \in Nat  OBVIOUS
  <2>2. i + 1 \in 1..Len(seq) /\ (i + 1) - 1 = i  BY <2>1
  <2>3. f[1..i] \in Nat  BY <1>4, <2>1
  <2>4. f[1..(i + 1)] = 256 * f[1..i] + seq[i + 1] /\ seq[i + 1] \in Nat  BY <1>2, <2>2
  <2>. QED BY <2>3, <2>4
<1>. HIDE DEF S
<1>5. \A i \in Nat : i \in S  BY <1>3, <1>4, SetInduction
<1>. QED BY <1>1, <1>5 DEF S

-----------------------------------------------------------------------------
(* Where the pieces of a flattened sequence lie.                           *)

Pieced(seqs) == IsSeq(seqs) /\ \A i \in 1..Len(seqs) : IsSeq(seqs[i])
Upto(seqs, k) == FlattenSeq(SubSeq(seqs, 1, k))

\* The first k elements.
LEMMA FirstOnes ==
  ASSUME NEW s, IsSeq(s), NEW k \in 0..Len(s)
  PROVE  /\ IsSeq(SubSeq(s, 1, k)) /\ Len(SubSeq(s, 1, k)) = k
         /\ DOMAIN SubSeq(s, 1, k) = 1..k
         /\ \A i \in 1..k : SubSeq(s, 1, k)[i] = s[i]
<1>1. PICK S : s \in Seq(S)  BY DEF IsSeq
<1>2. Len(s) \in Nat /\ \A i \in 1..Len(s) : s[i] \in S  BY <1>1, LenProperties, ElementOfSeq
<1>3. /\ SubSeq(s, 1, k) \in Seq(S) /\ Len(SubSeq(s, 1, k)) = IF 1 <= k THEN k - 1 + 1 ELSE 0
      /\ \A i \in 1..(k - 1 + 1) : SubSeq(s, 1, k)[i] = s[1 + i - 1]
  <2>1. \A i \in 1..k : s[i] \in S  BY <1>2
  <2>. QED BY <2>1, <1>2, SubSeqProperties
<1>4. IsSeq(SubSeq(s, 1, k)) /\ Len(SubSeq(s, 1, k)) = k  BY <1>2, <1>3 DEF IsSeq
<1>5. \A i \in 1..k : SubSeq(s, 1, k)[i] = s[i]
  <2>1. \A i \in 1..k : i \in 1..(k - 1 + 1) /\ 1 + i - 1 = i  BY <1>2
  <2>. QED BY <2>1, <1>3
<1>. QED BY <1>4, <1>5, SeqFacts

\* All elements are the sequence itself.
LEMMA AllOfIt ==
  ASSUME NEW s, IsSeq(s)
  PROVE  SubSeq(s, 1, Len(s)) = s
BY SubSeqFull DEF IsSeq

\* Flattened piece by piece: each adds its own elements behind those before.
LEMMA UptoGrows ==
  ASSUME NEW seqs, Pieced(seqs)
  PROVE  /\ Upto(seqs, 0) = <<>>
         /\ Upto(seqs, Len(seqs)) = FlattenSeq(seqs)
         /\ \A k \in 0..(Len(seqs) - 1) : Upto(seqs, k + 1) = Upto(seqs, k) \o seqs[k + 1]
<1>0. IsSeq(seqs) /\ Len(seqs) \in Nat  BY SeqFacts DEF Pieced
<1>1. Upto(seqs, 0) = <<>>
  <2>1. IsSeq(SubSeq(seqs, 1, 0)) /\ Len(SubSeq(seqs, 1, 0)) = 0  BY <1>0, FirstOnes
  <2>2. SubSeq(seqs, 1, 0) = <<>>  BY <2>1, SeqFacts
  <2>. QED BY <2>1, <2>2 DEF Upto, FlattenSeq
<1>2. Upto(seqs, Len(seqs)) = FlattenSeq(seqs)  BY <1>0, AllOfIt DEF Upto
<1>3. ASSUME NEW k \in 0..(Len(seqs) - 1)
      PROVE  Upto(seqs, k + 1) = Upto(seqs, k) \o seqs[k + 1]
  <2>1. k \in 0..Len(seqs) /\ k + 1 \in 0..Len(seqs) /\ k + 1 \in 1..(k + 1)  BY <1>0
  <2>. DEFINE s == SubSeq(seqs, 1, k)
              t == SubSeq(seqs, 1, k + 1)
  <2>2. IsSeq(s) /\ Len(s) = k /\ \A i \in 1..k : s[i] = seqs[i]  BY <1>0, <2>1, FirstOnes
  <2>3. IsSeq(t) /\ Len(t) = k + 1 /\ \A i \in 1..(k + 1) : t[i] = seqs[i]  BY <1>0, <2>1, FirstOnes
  <2>4. Len(s) = 0 => s = <<>>  BY <2>2, SeqFacts
  <2>5. t[k + 1] = seqs[k + 1] /\ IsSeq(seqs[k + 1])
    <3>1. k + 1 \in 1..Len(seqs)  BY <1>0
    <3>. QED BY <3>1, <2>1, <2>3 DEF Pieced
  <2>6. \A i \in 1..k : t[i] = s[i]  BY <2>2, <2>3
  <2>. HIDE DEF s, t
  <2>7. FlattenSeq(t) = FlattenSeq(s) \o t[k + 1]  
    <3>1. /\ Len(s) \in Nat /\ Len(t) = Len(s) + 1 /\ IsSeq(t[Len(t)])
          /\ \A i \in 1..Len(s) : t[i] = s[i]
      BY <2>1, <2>2, <2>3, <2>5, <2>6
    <3>2. FlattenSeq(t) = FlattenSeq(s) \o t[Len(t)]  BY <3>1, <2>4, FlattenAdds
    <3>. QED BY <3>2, <2>3
  <2>. QED BY <2>5, <2>7 DEF Upto, s, t
<1>. QED BY <1>1, <1>2, <1>3

\* Flattening sequences makes a sequence, as long as they are together.
LEMMA UptoIs ==
  ASSUME NEW seqs, Pieced(seqs)
  PROVE  /\ IsSeq(FlattenSeq(seqs))
         /\ \A k \in 0..Len(seqs) : IsSeq(Upto(seqs, k)) /\ Len(Upto(seqs, k)) \in Nat
         /\ Len(Upto(seqs, 0)) = 0
         /\ \A k \in 0..(Len(seqs) - 1) :
              Len(Upto(seqs, k + 1)) = Len(Upto(seqs, k)) + Len(seqs[k + 1])
<1>0. Len(seqs) \in Nat  BY SeqFacts DEF Pieced
<1>. DEFINE S == {k \in Nat : k <= Len(seqs) => IsSeq(Upto(seqs, k))}
<1>1. 0 \in S  BY UptoGrows, EmptyIs
<1>2. ASSUME NEW k \in Nat, k \in S PROVE k + 1 \in S
  <2>1. SUFFICES ASSUME k + 1 <= Len(seqs) PROVE IsSeq(Upto(seqs, k + 1))  OBVIOUS
  <2>2. k \in 0..(Len(seqs) - 1) /\ k + 1 \in 1..Len(seqs)  BY <1>0, <2>1
  <2>3. IsSeq(Upto(seqs, k)) /\ IsSeq(seqs[k + 1])  BY <1>2, <2>2 DEF Pieced
  <2>4. Upto(seqs, k + 1) = Upto(seqs, k) \o seqs[k + 1]  BY <2>2, UptoGrows
  <2>. QED BY <2>3, <2>4, ConcatIs
<1>. HIDE DEF S
<1>3. \A k \in Nat : k \in S  BY <1>1, <1>2, SetInduction
<1>4. \A k \in 0..Len(seqs) : IsSeq(Upto(seqs, k))  BY <1>0, <1>3 DEF S
<1>5. ASSUME NEW k \in 0..(Len(seqs) - 1)
      PROVE  Len(Upto(seqs, k + 1)) = Len(Upto(seqs, k)) + Len(seqs[k + 1])
  <2>1. k \in 0..Len(seqs) /\ k + 1 \in 1..Len(seqs)  BY <1>0
  <2>2. IsSeq(Upto(seqs, k)) /\ IsSeq(seqs[k + 1])  BY <1>4, <2>1 DEF Pieced
  <2>. QED BY <2>2, UptoGrows, ConcatIs
<1>6. \A k \in 0..Len(seqs) : Len(Upto(seqs, k)) \in Nat  BY <1>4, SeqFacts
<1>7. IsSeq(FlattenSeq(seqs))
  <2>1. Len(seqs) \in 0..Len(seqs)  BY <1>0
  <2>. QED BY <1>4, <2>1, UptoGrows
<1>. QED BY <1>4, <1>5, <1>6, <1>7, UptoGrows, EmptyIs

\* What is flattened first stays where it is.
LEMMA UptoStays ==
  ASSUME NEW seqs, Pieced(seqs), NEW k \in 0..Len(seqs)
  PROVE  /\ Len(Upto(seqs, k)) <= Len(FlattenSeq(seqs))
         /\ \A i \in 1..Len(Upto(seqs, k)) : FlattenSeq(seqs)[i] = Upto(seqs, k)[i]
<1>0. Len(seqs) \in Nat  BY SeqFacts DEF Pieced
<1>. DEFINE Keeps(m) == /\ Len(Upto(seqs, k)) <= Len(Upto(seqs, m))
                        /\ \A i \in 1..Len(Upto(seqs, k)) : Upto(seqs, m)[i] = Upto(seqs, k)[i]
            S == {d \in Nat : k + d <= Len(seqs) => Keeps(k + d)}
<1>1. 0 \in S
  <2>1. k + 0 = k  OBVIOUS
  <2>2. Len(Upto(seqs, k)) \in Nat  BY UptoIs
  <2>. QED BY <2>1, <2>2
<1>2. ASSUME NEW d \in Nat, d \in S PROVE d + 1 \in S
  <2>1. SUFFICES ASSUME k + (d + 1) <= Len(seqs) PROVE Keeps(k + (d + 1))  OBVIOUS
  <2>. DEFINE m == k + d
  <2>2. k + (d + 1) = m + 1 /\ m \in 0..(Len(seqs) - 1) /\ m \in 0..Len(seqs) /\ m + 1 \in 1..Len(seqs)
    BY <1>0, <2>1
  <2>3. Keeps(m)  BY <1>2, <1>0, <2>1
  <2>. HIDE DEF m
  <2>4. /\ IsSeq(Upto(seqs, m)) /\ Len(Upto(seqs, m)) \in Nat
        /\ IsSeq(seqs[m + 1]) /\ Len(seqs[m + 1]) \in Nat
        /\ Len(Upto(seqs, k)) \in Nat
    BY <2>2, UptoIs, SeqFacts DEF Pieced
  <2>5. Upto(seqs, m + 1) = Upto(seqs, m) \o seqs[m + 1]  BY <2>2, UptoGrows
  <2>6. /\ Len(Upto(seqs, m + 1)) = Len(Upto(seqs, m)) + Len(seqs[m + 1])
        /\ \A i \in 1..Len(Upto(seqs, m)) : Upto(seqs, m + 1)[i] = Upto(seqs, m)[i]
    <3>1. \A i \in 1..Len(Upto(seqs, m)) : i \in 1..(Len(Upto(seqs, m)) + Len(seqs[m + 1])) /\ i <= Len(Upto(seqs, m))
      BY <2>4
    <3>. QED BY <2>4, <2>5, <3>1, ConcatIs
  <2>7. Keeps(m + 1)
    <3>1. \A i \in 1..Len(Upto(seqs, k)) : i \in 1..Len(Upto(seqs, m))  BY <2>3, <2>4
    <3>. QED BY <2>3, <2>4, <2>6, <3>1
  <2>. QED BY <2>2, <2>7
<1>. HIDE DEF S, Keeps
<1>3. \A d \in Nat : d \in S  BY <1>1, <1>2, SetInduction
<1>4. Keeps(Len(seqs))
  <2>1. Len(seqs) - k \in Nat /\ k + (Len(seqs) - k) = Len(seqs)  BY <1>0
  <2>2. Len(seqs) - k \in S  BY <1>3, <2>1
  <2>. QED BY <1>0, <2>1, <2>2 DEF S
<1>. QED BY <1>4, UptoGrows DEF Keeps

\* Each piece lies behind those before it, as it was.
LEMMA PieceLies ==
  ASSUME NEW seqs, Pieced(seqs), NEW k \in 1..Len(seqs)
  PROVE  /\ Len(Upto(seqs, k)) = Len(Upto(seqs, k - 1)) + Len(seqs[k])
         /\ Len(Upto(seqs, k)) <= Len(FlattenSeq(seqs))
         /\ \A j \in 1..Len(seqs[k]) : FlattenSeq(seqs)[Len(Upto(seqs, k - 1)) + j] = seqs[k][j]
<1>0. Len(seqs) \in Nat  BY SeqFacts DEF Pieced
<1>. DEFINE m == k - 1
<1>1. m \in 0..(Len(seqs) - 1) /\ m \in 0..Len(seqs) /\ k \in 0..Len(seqs) /\ m + 1 = k  BY <1>0
<1>. HIDE DEF m
<1>2. /\ IsSeq(Upto(seqs, m)) /\ Len(Upto(seqs, m)) \in Nat
      /\ IsSeq(seqs[k]) /\ Len(seqs[k]) \in Nat
  BY <1>1, UptoIs, SeqFacts DEF Pieced
<1>3. Upto(seqs, k) = Upto(seqs, m) \o seqs[k]  BY <1>1, UptoGrows
<1>4. Len(Upto(seqs, k)) = Len(Upto(seqs, m)) + Len(seqs[k])  BY <1>2, <1>3, ConcatIs
<1>5. ASSUME NEW j \in 1..Len(seqs[k])
      PROVE  FlattenSeq(seqs)[Len(Upto(seqs, m)) + j] = seqs[k][j]
  <2>. DEFINE i == Len(Upto(seqs, m)) + j
  <2>1. /\ i \in 1..(Len(Upto(seqs, m)) + Len(seqs[k])) /\ ~(i <= Len(Upto(seqs, m)))
        /\ i - Len(Upto(seqs, m)) = j
    BY <1>2
  <2>. HIDE DEF i
  <2>2. Upto(seqs, k)[i] = seqs[k][j]  BY <1>2, <1>3, <2>1, ConcatIs
  <2>3. FlattenSeq(seqs)[i] = Upto(seqs, k)[i]  BY <1>1, <1>4, <2>1, UptoStays
  <2>. QED BY <2>2, <2>3 DEF i
<1>. QED BY <1>1, <1>4, <1>5, UptoStays DEF m
-----------------------------------------------------------------------------
(* The layout of a tag.                                                    *)

\* One sequence behind another, their lengths known.
Follows(r, s, m, t, n) ==
  /\ IsSeq(r) /\ Len(r) = m + n
  /\ \A i \in 1..m : r[i] = s[i]
  /\ \A i \in 1..n : r[m + i] = t[i]

\* The first elements of a concatenation are those of its left side, the
\* others those of its right.
LEMMA Joined ==
  ASSUME NEW s, IsSeq(s), NEW t, IsSeq(t), NEW m, Len(s) = m, NEW n, Len(t) = n
  PROVE  Follows(s \o t, s, m, t, n)
<1>1. m \in Nat /\ n \in Nat  BY SeqFacts
<1>2. /\ IsSeq(s \o t) /\ Len(s \o t) = Len(s) + Len(t)
      /\ \A i \in 1..(Len(s) + Len(t)) :
           (s \o t)[i] = IF i <= Len(s) THEN s[i] ELSE t[i - Len(s)]
  BY ConcatIs
<1>. DEFINE r == s \o t
<1>. HIDE DEF r
<1>3. ASSUME NEW i \in 1..m PROVE r[i] = s[i]
  <2>1. i \in 1..(Len(s) + Len(t)) /\ i <= Len(s)  BY <1>1
  <2>. QED BY <1>2, <2>1 DEF r
<1>4. ASSUME NEW i \in 1..n PROVE r[m + i] = t[i]
  <2>1. m + i \in 1..(Len(s) + Len(t)) /\ ~(m + i <= Len(s)) /\ (m + i) - Len(s) = i  BY <1>1
  <2>2. r[m + i] = t[(m + i) - Len(s)]  BY <1>2, <2>1 DEF r
  <2>. QED BY <2>1, <2>2
<1>5. IsSeq(r) /\ Len(r) = m + n  BY <1>2 DEF r
<1>. QED BY <1>3, <1>4, <1>5 DEF Follows, r

\* What is defined from 1 to n is a sequence of that length.
LEMMA CountedIs ==
  ASSUME NEW n \in Nat, NEW S, NEW f \in [1..n -> S]
  PROVE  IsSeq(f) /\ Len(f) = n
<1>1. f \in Seq(S)  OBVIOUS
<1>2. Len(f) \in Nat /\ 1..Len(f) = 1..n  BY <1>1, LenProperties
<1>. QED BY <1>1, <1>2 DEF IsSeq

\* Fields and payload are sequences of a known length.
LEMMA BytesAre ==
  ASSUME NEW n \in Nat
  PROVE  IsSeq(Bytes(n)) /\ Len(Bytes(n)) = n
<1>1. Bytes(n) \in [1..n -> {Filler}]  BY DEF Bytes
<1>. QED BY <1>1, CountedIs

\* A field of one byte,
LEMMA U8Is ==
  ASSUME NEW n
  PROVE  IsSeq(U8(n)) /\ Len(U8(n)) = 1 /\ U8(n)[1] = n
BY SingleIs DEF U8

\* of two, the high one first,
LEMMA U16Is ==
  ASSUME NEW n
  PROVE  IsSeq(U16(n)) /\ Len(U16(n)) = 2 /\ U16(n)[1] = n \div 256 /\ U16(n)[2] = n % 256
BY PairIs DEF U16

\* Three elements are a sequence.
LEMMA ThreeIs ==
  ASSUME NEW a, NEW b, NEW c
  PROVE  /\ IsSeq(<<a, b, c>>) /\ Len(<<a, b, c>>) = 3
         /\ <<a, b, c>>[1] = a /\ <<a, b, c>>[2] = b /\ <<a, b, c>>[3] = c
<1>1. <<a, b, c>> \in Seq({a, b, c})  OBVIOUS
<1>. QED BY <1>1 DEF IsSeq

\* So are five.
LEMMA FiveIs ==
  ASSUME NEW a, NEW b, NEW c, NEW d, NEW e
  PROVE  /\ IsSeq(<<a, b, c, d, e>>) /\ Len(<<a, b, c, d, e>>) = 5
         /\ <<a, b, c, d, e>>[1] = a /\ <<a, b, c, d, e>>[2] = b
         /\ <<a, b, c, d, e>>[3] = c
<1>1. <<a, b, c, d, e>> \in Seq({a, b, c, d, e})  OBVIOUS
<1>. QED BY <1>1 DEF IsSeq

\* A field of three bytes,
LEMMA U24Is ==
  ASSUME NEW n
  PROVE  /\ IsSeq(U24(n)) /\ Len(U24(n)) = 3
         /\ U24(n)[1] = n \div 65536 /\ U24(n)[2] = (n \div 256) % 256 /\ U24(n)[3] = n % 256
BY ThreeIs, SMT DEF U24

\* and of four, its last three those of a field of three.
LEMMA U32Is ==
  ASSUME NEW n
  PROVE  /\ IsSeq(U32(n)) /\ Len(U32(n)) = 4
         /\ U32(n)[1] = n \div 16777216
         /\ \A i \in 1..3 : U32(n)[1 + i] = U24(n % 16777216)[i]
<1>. DEFINE high == <<n \div 16777216>>
            low == U24(n % 16777216)
<1>1. U32(n) = high \o low  BY SMT DEF U32
<1>2. high[1] = n \div 16777216  BY SingleIs, SMT
<1>3. IsSeq(high) /\ Len(high) = 1  BY SingleIs, SMT
<1>4. IsSeq(low) /\ Len(low) = 3  BY U24Is, SMT
<1>. HIDE DEF high, low
<1>5. Follows(high \o low, high, 1, low, 3)  BY <1>3, <1>4, Joined
<1>6. 1 \in 1..1 /\ 1 + 3 = 4  OBVIOUS
<1>. QED BY <1>1, <1>2, <1>5, <1>6, SMT DEF Follows, low

\* The tags' lengths.
LEMMA TagsAre ==
  ASSUME NEW tg \in Tags
  PROVE  /\ tg.kind \in Kinds /\ tg.units \in Seq(Nat) /\ IsSeq(tg.units)
         /\ \A i \in 1..Len(tg.units) : tg.units[i] \in Nat
         /\ tg.kind \notin {"nalus", "badsize", "h263"} => tg.units[1] \in Nat
         /\ tg.kind \in {"config", "config_high", "longset"} => tg.units[2] \in Nat
<1>1. /\ tg.kind \in Kinds /\ tg.units \in Seq(Nat)
      /\ tg.kind \notin {"nalus", "badsize", "h263"} => Len(tg.units) >= 1
      /\ tg.kind \in {"config", "config_high", "longset"} => Len(tg.units) >= 2
  BY SMTT(60) DEF Tags
<1>2. Len(tg.units) \in Nat /\ \A i \in 1..Len(tg.units) : tg.units[i] \in Nat
  BY <1>1, ElementOfSeq, LenProperties
<1>3. /\ Len(tg.units) >= 1 => 1 \in 1..Len(tg.units)
      /\ Len(tg.units) >= 2 => 2 \in 1..Len(tg.units)
  BY <1>2
<1>. QED BY <1>1, <1>2, <1>3 DEF IsSeq

\* A unit behind its length is a sequence.
LEMMA NaluIs ==
  ASSUME NEW n \in Nat
  PROVE  IsSeq(Nalu(n)) /\ Len(Nalu(n)) = 4 + n /\ \A i \in 1..4 : Nalu(n)[i] = U32(n)[i]
<1>1. IsSeq(U32(n)) /\ Len(U32(n)) = 4 /\ IsSeq(Bytes(n)) /\ Len(Bytes(n)) = n
  BY U32Is, BytesAre, SMT
<1>2. Follows(U32(n) \o Bytes(n), U32(n), 4, Bytes(n), n)  BY <1>1, Joined
<1>. QED BY <1>2 DEF Follows, Nalu

\* The parameter sets lie behind six bytes, each behind its length.
Sets(c, m, n) ==
  /\ IsSeq(c) /\ Len(c) = 11 + m + n
  /\ c[7] = m \div 256 /\ c[8] = m % 256 /\ c[9 + m] = 1
  /\ c[10 + m] = n \div 256 /\ c[11 + m] = n % 256

\* A configuration record has them where the parser looks.
LEMMA ConfigIs ==
  ASSUME NEW m \in Nat, NEW n \in Nat
  PROVE  Sets(Config(m, n), m, n)
<1>. DEFINE s1 == <<1, 66, 0, 30, 255, 225>>
            s2 == s1 \o U16(m)
            s3 == s2 \o Bytes(m)
            s4 == s3 \o U8(1)
            s5 == s4 \o U16(n)
            s6 == s5 \o Bytes(n)
<1>1. Config(m, n) = s6  BY DEF Config
<1>2. IsSeq(s1) /\ Len(s1) = 6
  <2>1. s1 \in Seq({1, 66, 0, 30, 255, 225})  OBVIOUS
  <2>. QED BY <2>1 DEF IsSeq
<1>. HIDE DEF s1
<1>3. Follows(s2, s1, 6, U16(m), 2)  BY <1>2, U16Is, Joined, ZenonT(60)
<1>. HIDE DEF s2
<1>4. IsSeq(s2) /\ Len(s2) = 8  BY <1>3 DEF Follows
<1>5. Follows(s3, s2, 8, Bytes(m), m)  BY <1>4, BytesAre, Joined
<1>. HIDE DEF s3
<1>6. IsSeq(s3) /\ Len(s3) = 8 + m  BY <1>5 DEF Follows
<1>7. Follows(s4, s3, 8 + m, U8(1), 1)  BY <1>6, U8Is, Joined
<1>. HIDE DEF s4
<1>8. IsSeq(s4) /\ Len(s4) = 9 + m  BY <1>7 DEF Follows
<1>9. Follows(s5, s4, 9 + m, U16(n), 2)  BY <1>8, U16Is, Joined, ZenonT(60)
<1>. HIDE DEF s5
<1>10. IsSeq(s5) /\ Len(s5) = 11 + m  BY <1>9 DEF Follows
<1>11. Follows(s6, s5, 11 + m, Bytes(n), n)  BY <1>10, BytesAre, Joined
<1>. HIDE DEF s6
<1>12. \A i \in {7, 8} :
         /\ i \in 1..8 /\ i \in 1..(8 + m) /\ i \in 1..(9 + m) /\ i \in 1..(11 + m)
  OBVIOUS
<1>13. \A i \in {7, 8} : s6[i] = s2[i]
  BY <1>5, <1>7, <1>9, <1>11, <1>12 DEF Follows
<1>14. s2[7] = m \div 256 /\ s2[8] = m % 256
  <2>1. 1 \in 1..2 /\ 2 \in 1..2 /\ 6 + 1 = 7 /\ 6 + 2 = 8  OBVIOUS
  <2>2. s2[7] = U16(m)[1] /\ s2[8] = U16(m)[2]  BY <1>3, <2>1 DEF Follows
  <2>. QED BY <2>2, U16Is
<1>15. s6[10 + m] = n \div 256 /\ s6[11 + m] = n % 256
  <2>1. /\ 1 \in 1..2 /\ 2 \in 1..2 /\ (9 + m) + 1 = 10 + m /\ (9 + m) + 2 = 11 + m
        /\ 10 + m \in 1..(11 + m) /\ 11 + m \in 1..(11 + m)
    OBVIOUS
  <2>2. s5[10 + m] = U16(n)[1] /\ s5[11 + m] = U16(n)[2]
    <3>1. s5[(9 + m) + 1] = U16(n)[1] /\ s5[(9 + m) + 2] = U16(n)[2]  BY <1>9, <2>1 DEF Follows
    <3>. QED BY <3>1, <2>1
  <2>3. s6[10 + m] = s5[10 + m] /\ s6[11 + m] = s5[11 + m]  BY <1>11, <2>1 DEF Follows
  <2>. QED BY <2>2, <2>3, U16Is
<1>16. IsSeq(s6) /\ Len(s6) = 11 + m + n  BY <1>11 DEF Follows
<1>17. s6[9 + m] = 1
  <2>1. 1 \in 1..1 /\ (8 + m) + 1 = 9 + m /\ 9 + m \in 1..(9 + m) /\ 9 + m \in 1..(11 + m)
    OBVIOUS
  <2>2. s4[(8 + m) + 1] = U8(1)[1]  BY <1>7, <2>1 DEF Follows
  <2>3. s5[9 + m] = s4[9 + m] /\ s6[9 + m] = s5[9 + m]  BY <1>9, <1>11, <2>1 DEF Follows
  <2>. QED BY <2>1, <2>2, <2>3, U8Is
<1>. QED BY <1>1, <1>13, <1>14, <1>15, <1>16, <1>17 DEF Sets

\* A video tag begins with five bytes.
HeadOf(r, a, b, s) ==
  /\ IsSeq(r) /\ Len(r) = 5 + Len(s) /\ r[1] = a /\ r[2] = b
  /\ \A i \in 1..Len(s) : r[5 + i] = s[i]

\* VideoHead makes such a head.
LEMMA Headed ==
  ASSUME NEW a, NEW b, NEW s, IsSeq(s)
  PROVE  HeadOf(VideoHead(a, b) \o s, a, b, s)
<1>. DEFINE h == VideoHead(a, b)
<1>1. IsSeq(h) /\ Len(h) = 5 /\ h[1] = a /\ h[2] = b  BY FiveIs DEF VideoHead
<1>. HIDE DEF h
<1>2. Follows(h \o s, h, 5, s, Len(s))  BY <1>1, Joined
<1>3. 1 \in 1..5 /\ 2 \in 1..5  OBVIOUS
<1>4. HeadOf(h \o s, a, b, s)  BY <1>1, <1>2, <1>3 DEF Follows, HeadOf
<1>. QED BY <1>4 DEF h

\* The units of a tag, each behind its length.
Packed(u) == [i \in DOMAIN u |-> Nalu(u[i])]

\* There is a sequence for each unit.
LEMMA PackedPieced ==
  ASSUME NEW u \in Seq(Nat)
  PROVE  /\ Pieced(Packed(u)) /\ Len(Packed(u)) = Len(u)
         /\ \A i \in 1..Len(u) : Packed(u)[i] = Nalu(u[i])
<1>1. Len(u) \in Nat /\ DOMAIN u = 1..Len(u) /\ \A i \in 1..Len(u) : u[i] \in Nat
  BY LenProperties, ElementOfSeq
<1>2. /\ \A i \in 1..Len(u) : Packed(u)[i] = Nalu(u[i])
      /\ Packed(u) \in [1..Len(u) -> {Nalu(u[i]) : i \in 1..Len(u)}]
  BY <1>1 DEF Packed
<1>3. IsSeq(Packed(u)) /\ Len(Packed(u)) = Len(u)
  BY <1>1, <1>2, CountedIs
<1>. QED BY <1>1, <1>2, <1>3, NaluIs DEF Pieced

\* Whatever a tag holds, its body is a sequence.
LEMMA BodyIs ==
  ASSUME NEW tg \in Tags
  PROVE  IsSeq(Body(tg)) /\ DataSize(tg) \in Nat
<1>. DEFINE u == tg.units
<1>0. /\ tg.kind \in Kinds /\ u \in Seq(Nat)
      /\ tg.kind \notin {"nalus", "badsize", "h263"} => u[1] \in Nat
      /\ tg.kind \in {"config", "config_high", "longset"} => u[2] \in Nat
  BY TagsAre
<1>1. CASE tg.kind \in {"audio", "script", "other", "filtered"}
  <2>1. Body(tg) = Bytes(u[1])  BY <1>1 DEF Body
  <2>. QED BY <1>0, <1>1, <2>1, BytesAre, SeqFacts DEF DataSize
<1>2. CASE tg.kind \in {"nalus", "badsize"}
  <2>1. Body(tg) = VideoHead(23, 1) \o FlattenSeq(Packed(u))  BY <1>2 DEF Body, Packed
  <2>2. IsSeq(FlattenSeq(Packed(u)))  BY <1>0, PackedPieced, UptoIs
  <2>. QED BY <2>1, <2>2, Headed, SeqFacts DEF DataSize, HeadOf
<1>3. CASE tg.kind = "config"
  <2>1. Body(tg) = VideoHead(23, 0) \o Config(u[1], u[2])  BY <1>3 DEF Body
  <2>2. IsSeq(Config(u[1], u[2]))  BY <1>0, <1>3, ConfigIs, ZenonT(60) DEF Sets
  <2>. QED BY <2>1, <2>2, Headed, SeqFacts DEF DataSize, HeadOf
<1>4. CASE tg.kind = "config_high"
  <2>. DEFINE s == VideoHead(23, 0) \o Config(u[1], u[2])
  <2>1. Body(tg) = s \o <<253, 248, 248, 0>>  BY <1>4, SMTT(60) DEF Body
  <2>2. IsSeq(Config(u[1], u[2]))  BY <1>0, <1>4, ConfigIs, ZenonT(60) DEF Sets
  <2>3. IsSeq(s)  BY <2>2, Headed DEF HeadOf
  <2>4. IsSeq(<<253, 248, 248, 0>>)
    <3>1. <<253, 248, 248, 0>> \in Seq({253, 248, 0})  OBVIOUS
    <3>. QED BY <3>1 DEF IsSeq
  <2>. HIDE DEF s
  <2>. QED BY <2>1, <2>3, <2>4, ConcatIs, SeqFacts DEF DataSize
<1>5. CASE tg.kind = "longset"
  <2>. DEFINE s == VideoHead(23, 0) \o Config(u[1], u[2] + 1)
  <2>1. Body(tg) = SubSeq(s, 1, Len(s) - 1)  BY <1>5 DEF Body, Front
  <2>2. IsSeq(Config(u[1], u[2] + 1)) /\ Len(Config(u[1], u[2] + 1)) \in Nat
    <3>1. u[1] \in Nat /\ u[2] + 1 \in Nat  BY <1>0, <1>5
    <3>. QED BY <3>1, ConfigIs, SeqFacts, ZenonT(60) DEF Sets
  <2>3. IsSeq(s) /\ Len(s) = 5 + Len(Config(u[1], u[2] + 1))  BY <2>2, Headed DEF HeadOf
  <2>. HIDE DEF s
  <2>4. Len(s) - 1 \in 0..Len(s)  BY <2>2, <2>3
  <2>. QED BY <2>1, <2>3, <2>4, FirstOnes, SeqFacts DEF DataSize
<1>6. CASE tg.kind = "overlong"
  <2>. DEFINE s == VideoHead(23, 1) \o U32(u[1] + 1)
  <2>1. Body(tg) = s \o Bytes(u[1])  BY <1>6 DEF Body
  <2>2. IsSeq(s)  BY U32Is, Headed, SMT DEF HeadOf
  <2>3. IsSeq(Bytes(u[1]))  BY <1>0, <1>6, BytesAre
  <2>. HIDE DEF s
  <2>. QED BY <2>1, <2>2, <2>3, ConcatIs, SeqFacts DEF DataSize
<1>7. CASE tg.kind = "h263"
  <2>1. Body(tg) = VideoHead(34, 0) \o u  BY <1>7 DEF Body
  <2>2. IsSeq(u)  BY TagsAre
  <2>. QED BY <2>1, <2>2, Headed, SeqFacts DEF DataSize, HeadOf
<1>8. CASE tg.kind = "command"
  <2>1. Body(tg) = VideoHead(87, 0) \o Bytes(u[1])  BY <1>8 DEF Body
  <2>2. IsSeq(Bytes(u[1]))  BY <1>0, <1>8, BytesAre
  <2>. QED BY <2>1, <2>2, Headed, SeqFacts DEF DataSize, HeadOf
<1>9. CASE tg.kind = "claiming"
  <2>1. Body(tg) = VideoHead(23, 1) \o U32(u[1])  BY <1>9 DEF Body
  <2>2. IsSeq(U32(u[1]))  BY U32Is, SMT
  <2>. HIDE DEF u
  <2>. QED BY <2>1, <2>2, Headed, SeqFacts DEF DataSize, HeadOf
<1>. QED BY <1>0, <1>1, <1>2, <1>3, <1>4, <1>5, <1>6, <1>7, <1>8, <1>9 DEF Kinds

\* A tag's type, the three bytes of its size, its body from the twelfth byte on,
\* and behind it its PreviousTagSize.
LEMMA LayoutIs ==
  ASSUME NEW tg \in Tags
  PROVE  /\ IsSeq(Layout(tg)) /\ Len(Layout(tg)) = 15 + DataSize(tg)
         /\ Layout(tg)[1] = Type(tg)
         /\ \A i \in 1..3 : Layout(tg)[1 + i] = U24(DataSize(tg))[i]
         /\ \A i \in 1..DataSize(tg) : Layout(tg)[11 + i] = Body(tg)[i]
         /\ \A i \in 1..4 : Layout(tg)[11 + DataSize(tg) + i] = U32(PreviousTagSize(tg))[i]
<1>. DEFINE d == DataSize(tg)
            zeros == <<0, 0, 0, 0, 0, 0, 0>>
            s1 == U8(Type(tg))
            s2 == s1 \o U24(d)
            s3 == s2 \o zeros
            s4 == s3 \o Body(tg)
            s5 == s4 \o U32(PreviousTagSize(tg))
<1>0. IsSeq(Body(tg)) /\ Len(Body(tg)) = d /\ d \in Nat  BY BodyIs DEF DataSize
<1>1. Layout(tg) = s5  BY DEF Layout
<1>2. IsSeq(zeros) /\ Len(zeros) = 7
  <2>1. zeros \in Seq({0})  OBVIOUS
  <2>. QED BY <2>1 DEF IsSeq
<1>3. IsSeq(s1) /\ Len(s1) = 1 /\ s1[1] = Type(tg)  BY U8Is
<1>4. DataSize(tg) = d  OBVIOUS
<1>. HIDE DEF zeros, s1, d
<1>5. Follows(s2, s1, 1, U24(d), 3)  
  <2>1. IsSeq(U24(d)) /\ Len(U24(d)) = 3  BY U24Is, SMT
  <2>. QED BY <1>3, <2>1, Joined
<1>. HIDE DEF s2
<1>6. IsSeq(s2) /\ Len(s2) = 4  BY <1>5 DEF Follows
<1>7. Follows(s3, s2, 4, zeros, 7)  BY <1>2, <1>6, Joined
<1>. HIDE DEF s3
<1>8. IsSeq(s3) /\ Len(s3) = 11  BY <1>7 DEF Follows
<1>9. Follows(s4, s3, 11, Body(tg), d)  BY <1>0, <1>8, Joined
<1>. HIDE DEF s4
<1>10. IsSeq(s4) /\ Len(s4) = 11 + d  BY <1>9 DEF Follows
<1>11. Follows(s5, s4, 11 + d, U32(PreviousTagSize(tg)), 4)  
  <2>1. IsSeq(U32(PreviousTagSize(tg))) /\ Len(U32(PreviousTagSize(tg))) = 4  BY U32Is, SMT
  <2>. QED BY <1>10, <2>1, Joined
<1>. HIDE DEF s5
<1>12. /\ 1 \in 1..1 /\ \A i \in 1..4 : i \in 1..11 /\ i \in 1..(11 + d)
       /\ 1 \in 1..4 /\ \A i \in 1..3 : 1 + i \in 1..4
       /\ \A i \in 1..d : 11 + i \in 1..(11 + d)
  BY <1>0
<1>13. \A i \in 1..4 : s5[i] = s2[i]  BY <1>7, <1>9, <1>11, <1>12 DEF Follows
<1>14. s2[1] = Type(tg) /\ \A i \in 1..3 : s2[1 + i] = U24(d)[i]
  BY <1>3, <1>5, <1>12 DEF Follows
<1>15. \A i \in 1..d : s5[11 + i] = Body(tg)[i]  BY <1>9, <1>11, <1>12 DEF Follows
<1>17. \A i \in 1..4 : s5[11 + d + i] = U32(PreviousTagSize(tg))[i]  BY <1>11 DEF Follows
<1>16. IsSeq(s5) /\ Len(s5) = 15 + d
  <2>1. (11 + d) + 4 = 15 + d  BY <1>0
  <2>. QED BY <2>1, <1>11 DEF Follows
<1>. QED BY <1>1, <1>4, <1>12, <1>13, <1>14, <1>15, <1>16, <1>17

-----------------------------------------------------------------------------
(* The layout of a stream.                                                 *)

Lays(tags) == [i \in DOMAIN tags |-> Layout(tags[i])]

\* There is a layout for each tag.
LEMMA LaysPieced ==
  ASSUME NEW tags \in Seq(Tags)
  PROVE  /\ Pieced(Lays(tags)) /\ Len(Lays(tags)) = Len(tags) /\ Len(tags) \in Nat
         /\ \A i \in 1..Len(tags) : tags[i] \in Tags /\ Lays(tags)[i] = Layout(tags[i])
<1>1. Len(tags) \in Nat /\ DOMAIN tags = 1..Len(tags) /\ \A i \in 1..Len(tags) : tags[i] \in Tags
  BY LenProperties, ElementOfSeq
<1>2. /\ \A i \in 1..Len(tags) : Lays(tags)[i] = Layout(tags[i])
      /\ Lays(tags) \in [1..Len(tags) -> {Layout(tags[i]) : i \in 1..Len(tags)}]
  BY <1>1 DEF Lays
<1>3. IsSeq(Lays(tags)) /\ Len(Lays(tags)) = Len(tags)
  BY <1>1, <1>2, CountedIs
<1>. QED BY <1>1, <1>2, <1>3, LayoutIs DEF Pieced

\* What the first tags are laid out as.
LEMMA LaysFirst ==
  ASSUME NEW tags \in Seq(Tags), NEW k \in 0..Len(tags)
  PROVE  Lays(SubSeq(tags, 1, k)) = SubSeq(Lays(tags), 1, k)
<1>1. Len(tags) \in Nat /\ IsSeq(tags)  BY LenProperties DEF IsSeq
<1>2. /\ DOMAIN SubSeq(tags, 1, k) = 1..k
      /\ \A i \in 1..k : SubSeq(tags, 1, k)[i] = tags[i]
  BY <1>1, FirstOnes
<1>3. /\ Pieced(Lays(tags)) /\ Len(Lays(tags)) = Len(tags)
      /\ \A i \in 1..Len(tags) : Lays(tags)[i] = Layout(tags[i])
  BY LaysPieced
<1>4. k \in 0..Len(Lays(tags)) /\ IsSeq(Lays(tags))  BY <1>3 DEF Pieced
<1>5. /\ IsSeq(SubSeq(Lays(tags), 1, k)) /\ Len(SubSeq(Lays(tags), 1, k)) = k
      /\ \A i \in 1..k : SubSeq(Lays(tags), 1, k)[i] = Lays(tags)[i]
  BY <1>4, FirstOnes
<1>. DEFINE s == SubSeq(Lays(tags), 1, k)
            t == Lays(SubSeq(tags, 1, k))
<1>6. t = [i \in 1..k |-> Layout(tags[i])]
  BY <1>2 DEF Lays
<1>7. DOMAIN s = 1..k /\ s = [i \in DOMAIN s |-> s[i]]
  <2>1. PICK S : s \in Seq(S)  BY <1>5 DEF IsSeq
  <2>2. s \in [1..Len(s) -> S] /\ DOMAIN s = 1..Len(s)  BY <2>1, LenProperties
  <2>. QED BY <1>5, <2>2
<1>8. \A i \in 1..k : s[i] = Layout(tags[i])
  <2>1. \A i \in 1..k : i \in 1..Len(tags)  BY <1>1
  <2>. QED BY <1>3, <1>5, <2>1
<1>. HIDE DEF s, t
<1>9. s = t  BY <1>6, <1>7, <1>8
<1>. QED BY <1>9 DEF s, t

\* A piece with the header of a file, or without; where its first tag lies, where any does.
Sending(tags, w) == IF w THEN Stream(tags) ELSE Headerless(tags)
First(w) == IF w THEN 13 ELSE 4
At(tags, w, k) == First(w) + Offset(tags, k)

\* A tag starts where the layouts of those before it end.
LEMMA OffsetIs ==
  ASSUME NEW tags \in Seq(Tags), NEW k \in 0..Len(tags)
  PROVE  Offset(tags, k + 1) = Len(Upto(Lays(tags), k))
<1>. DEFINE s == FlattenSeq(Lays(SubSeq(tags, 1, k)))
<1>1. s = Upto(Lays(tags), k)  BY LaysFirst DEF Upto
<1>2. Pieced(Lays(tags)) /\ k \in 0..Len(Lays(tags))  BY LaysPieced
<1>3. IsSeq(s) /\ Len(s) \in Nat  BY <1>1, <1>2, UptoIs
<1>4. Len(tags) \in Nat  BY LaysPieced
<1>5. (k + 1) - 1 = k  BY <1>4
<1>6. Headerless(SubSeq(tags, 1, k)) = U32(0) \o s  BY DEF Headerless, Lays
<1>. HIDE DEF s
<1>7. Len(U32(0) \o s) = 4 + Len(s)
  <2>1. IsSeq(U32(0)) /\ Len(U32(0)) = 4  BY U32Is, SMT
  <2>2. Follows(U32(0) \o s, U32(0), 4, s, Len(s))  BY <1>3, <2>1, Joined
  <2>. QED BY <2>2 DEF Follows
<1>8. (4 + Len(s)) - 4 = Len(s)  BY <1>3
<1>. QED BY <1>1, <1>5, <1>6, <1>7, <1>8 DEF Offset

\* The tags lie one behind the other.
LEMMA AtIs ==
  ASSUME NEW tags \in Seq(Tags), NEW w \in BOOLEAN
  PROVE  /\ At(tags, w, 1) = First(w) /\ First(w) \in {4, 13}
         /\ \A k \in 1..(Len(tags) + 1) : At(tags, w, k) \in Nat
         /\ \A k \in 1..Len(tags) :
              At(tags, w, k + 1) = At(tags, w, k) + 15 + DataSize(tags[k])
<1>0. /\ Pieced(Lays(tags)) /\ Len(Lays(tags)) = Len(tags) /\ Len(tags) \in Nat
      /\ \A i \in 1..Len(tags) : tags[i] \in Tags /\ Lays(tags)[i] = Layout(tags[i])
  BY LaysPieced
<1>1. First(w) \in {4, 13}  BY DEF First
<1>2. Offset(tags, 1) = 0
  <2>1. 0 \in 0..Len(tags) /\ 0 + 1 = 1  BY <1>0
  <2>. QED BY <1>0, <2>1, OffsetIs, UptoIs
<1>3. ASSUME NEW k \in 1..(Len(tags) + 1) PROVE Offset(tags, k) \in Nat
  <2>1. k - 1 \in 0..Len(tags) /\ (k - 1) + 1 = k  BY <1>0
  <2>2. Offset(tags, k) = Len(Upto(Lays(tags), k - 1))  BY <2>1, OffsetIs
  <2>. QED BY <1>0, <2>1, <2>2, UptoIs
<1>4. ASSUME NEW k \in 1..Len(tags)
      PROVE  Offset(tags, k + 1) = Offset(tags, k) + 15 + DataSize(tags[k])
  <2>1. k - 1 \in 0..Len(tags) /\ (k - 1) + 1 = k /\ k \in 0..Len(tags)  BY <1>0
  <2>2. Offset(tags, k) = Len(Upto(Lays(tags), k - 1))  BY <2>1, OffsetIs
  <2>3. Offset(tags, k + 1) = Len(Upto(Lays(tags), k))  BY <2>1, OffsetIs
  <2>4. Len(Upto(Lays(tags), k)) = Len(Upto(Lays(tags), k - 1)) + Len(Lays(tags)[k])
    BY <1>0, PieceLies
  <2>5. Len(Lays(tags)[k]) = 15 + DataSize(tags[k]) /\ DataSize(tags[k]) \in Nat
    BY <1>0, LayoutIs, BodyIs
  <2>6. Offset(tags, k) \in Nat
    <3>1. k \in 1..(Len(tags) + 1)  BY <1>0
    <3>. QED BY <3>1, <1>3
  <2>. QED BY <2>2, <2>3, <2>4, <2>5, <2>6
<1>5. First(w) + 0 = First(w)  BY <1>1
<1>6. \A k \in 1..(Len(tags) + 1) : First(w) + Offset(tags, k) \in Nat  BY <1>1, <1>3
<1>7. ASSUME NEW k \in 1..Len(tags)
      PROVE  First(w) + Offset(tags, k + 1) = First(w) + Offset(tags, k) + 15 + DataSize(tags[k])
  <2>1. DataSize(tags[k]) \in Nat  BY <1>0, BodyIs
  <2>2. k \in 1..(Len(tags) + 1)  BY <1>0
  <2>3. Offset(tags, k) \in Nat  BY <1>3, <2>2
  <2>. HIDE DEF First
  <2>. QED BY <1>1, <1>4, <2>1, <2>3
<1>. QED BY <1>1, <1>2, <1>5, <1>6, <1>7 DEF At

\* A stream's tags behind n bytes.
Fronts(s, h, n, tags) ==
  /\ IsSeq(s) /\ Len(s) = n + Offset(tags, Len(tags) + 1)
  /\ \A i \in 1..n : s[i] = h[i]
  /\ \A k \in 1..Len(tags) : \A j \in 1..(15 + DataSize(tags[k])) :
       s[n + Offset(tags, k) + j] = Layout(tags[k])[j]

\* A stream is its front with the layouts of its tags behind it.
LEMMA Fronted ==
  ASSUME NEW h, IsSeq(h), NEW tags \in Seq(Tags), NEW n \in Nat, Len(h) = n
  PROVE  Fronts(h \o FlattenSeq(Lays(tags)), h, n, tags)
<1>. DEFINE f == FlattenSeq(Lays(tags))
            s == h \o f
<1>0. /\ Pieced(Lays(tags)) /\ Len(Lays(tags)) = Len(tags) /\ Len(tags) \in Nat
      /\ \A i \in 1..Len(tags) : tags[i] \in Tags /\ Lays(tags)[i] = Layout(tags[i])
  BY LaysPieced
<1>1. IsSeq(f) /\ Len(f) \in Nat  BY <1>0, UptoIs, SeqFacts
<1>2. Len(f) = Offset(tags, Len(tags) + 1)
  <2>1. Len(tags) \in 0..Len(tags)  BY <1>0
  <2>2. Upto(Lays(tags), Len(tags)) = f  BY <1>0, UptoGrows
  <2>. QED BY <2>1, <2>2, OffsetIs
<1>3. ASSUME NEW k \in 1..Len(tags), NEW j \in 1..(15 + DataSize(tags[k]))
      PROVE  /\ f[Offset(tags, k) + j] = Layout(tags[k])[j]
             /\ Offset(tags, k) \in Nat /\ Offset(tags, k) + j \in 1..Len(f)
  <2>1. k - 1 \in 0..Len(tags) /\ (k - 1) + 1 = k /\ k \in 1..Len(Lays(tags))  BY <1>0
  <2>2. Offset(tags, k) = Len(Upto(Lays(tags), k - 1))  BY <2>1, OffsetIs
  <2>3. Len(Lays(tags)[k]) = 15 + DataSize(tags[k]) /\ DataSize(tags[k]) \in Nat
    BY <1>0, LayoutIs, BodyIs
  <2>4. /\ Len(Upto(Lays(tags), k)) = Len(Upto(Lays(tags), k - 1)) + Len(Lays(tags)[k])
        /\ Len(Upto(Lays(tags), k)) <= Len(f)
        /\ \A i \in 1..Len(Lays(tags)[k]) :
             f[Len(Upto(Lays(tags), k - 1)) + i] = Lays(tags)[k][i]
    BY <1>0, <2>1, PieceLies
  <2>5. Len(Upto(Lays(tags), k - 1)) \in Nat  BY <1>0, <2>1, UptoIs
  <2>6. j \in 1..Len(Lays(tags)[k])  BY <2>3
  <2>7. Lays(tags)[k] = Layout(tags[k])  BY <1>0
  <2>. HIDE DEF f
  <2>8. f[Offset(tags, k) + j] = Layout(tags[k])[j]  BY <2>2, <2>4, <2>6, <2>7
  <2>9. Offset(tags, k) + j \in 1..Len(f)  BY <1>1, <2>2, <2>3, <2>4, <2>5, <2>6, SMTT(60)
  <2>. QED BY <2>2, <2>5, <2>8, <2>9
<1>. HIDE DEF f
<1>4. Follows(s, h, n, f, Len(f))  BY <1>1, Joined
<1>. HIDE DEF s
<1>6. \A i \in 1..n : s[i] = h[i]  BY <1>4 DEF Follows
<1>7. ASSUME NEW k \in 1..Len(tags), NEW j \in 1..(15 + DataSize(tags[k]))
      PROVE  s[n + Offset(tags, k) + j] = Layout(tags[k])[j]
  <2>. DEFINE o == Offset(tags, k)
  <2>1. o \in Nat /\ o + j \in 1..Len(f) /\ f[o + j] = Layout(tags[k])[j]  BY <1>3
  <2>2. DataSize(tags[k]) \in Nat  BY <1>0, BodyIs
  <2>3. j \in Nat  BY <2>2
  <2>. HIDE DEF o
  <2>4. s[n + (o + j)] = f[o + j]  BY <1>4, <2>1 DEF Follows
  <2>5. n + (o + j) = n + o + j  BY <2>1, <2>3
  <2>. QED BY <2>1, <2>4, <2>5 DEF o
<1>8. IsSeq(s) /\ Len(s) = n + Offset(tags, Len(tags) + 1)  BY <1>2, <1>4 DEF Follows
<1>. QED BY <1>6, <1>7, <1>8 DEF Fronts, s, f

\* With a header or without, it is such a stream.
LEMMA SendingIs ==
  ASSUME NEW tags \in Seq(Tags), NEW w \in BOOLEAN
  PROVE  /\ IsSeq(Sending(tags, w)) /\ Len(Sending(tags, w)) = At(tags, w, Len(tags) + 1)
         /\ \A k \in 1..Len(tags) : \A j \in 1..(15 + DataSize(tags[k])) :
              Sending(tags, w)[At(tags, w, k) + j] = Layout(tags[k])[j]
         /\ w => /\ Sending(tags, w)[1] = 70 /\ Sending(tags, w)[2] = 76
                 /\ Sending(tags, w)[3] = 86 /\ Sending(tags, w)[9] = 9
                 /\ Sending(tags, w)[10] = 0 /\ Sending(tags, w)[11] = 0
                 /\ Sending(tags, w)[12] = 0
                 /\ \A i \in 1..4 : Sending(tags, w)[5 + i] = U32(9)[i]
         /\ ~w => Sending(tags, w)[1] = 0
<1>0. 0 \div 16777216 = 0 /\ 0 % 16777216 = 0 /\ 0 \div 65536 = 0 /\ 0 \div 256 = 0 /\ 0 % 256 = 0
      /\ 9 \div 16777216 = 0 /\ 9 % 16777216 = 9 /\ 9 % 256 = 9
  BY SMT
<1>1. U32(0)[1] = 0 /\ U32(0)[2] = 0 /\ U32(0)[3] = 0 /\ U32(0)[4] = 0
      /\ IsSeq(U32(0)) /\ Len(U32(0)) = 4
  <2>1. U24(0)[1] = 0 /\ U24(0)[2] = 0 /\ U24(0)[3] = 0  BY <1>0, U24Is, SMT
  <2>2. 1 \in 1..3 /\ 2 \in 1..3 /\ 3 \in 1..3 /\ 1 + 1 = 2 /\ 1 + 2 = 3 /\ 1 + 3 = 4  OBVIOUS
  <2>. QED BY <1>0, <2>1, <2>2, U32Is, SMT
<1>2. CASE w
  <2>. DEFINE fix == <<70, 76, 86, 1, 5>>
              h == fix \o U32(9)
              g == h \o U32(0)
  <2>1. IsSeq(fix) /\ Len(fix) = 5 /\ fix[1] = 70 /\ fix[2] = 76 /\ fix[3] = 86  BY FiveIs
  <2>2. IsSeq(U32(9)) /\ Len(U32(9)) = 4 /\ U32(9)[4] = 9
    <3>1. U24(9)[3] = 9  BY <1>0, U24Is, SMT
    <3>2. 3 \in 1..3 /\ 1 + 3 = 4  OBVIOUS
    <3>. QED BY <1>0, <3>1, <3>2, U32Is, SMT
  <2>3. Sending(tags, w) = g \o FlattenSeq(Lays(tags))  BY <1>2 DEF Sending, Stream, Header, Lays
  <2>. HIDE DEF fix
  <2>4. IsSeq(h) /\ Len(h) = 9 /\ h[1] = 70 /\ h[2] = 76 /\ h[3] = 86 /\ h[9] = 9
        /\ \A i \in 1..4 : h[5 + i] = U32(9)[i]
    <3>1. Follows(h, fix, 5, U32(9), 4)  BY <2>1, <2>2, Joined, ZenonT(60)
    <3>2. 1 \in 1..5 /\ 2 \in 1..5 /\ 3 \in 1..5 /\ 4 \in 1..4 /\ 5 + 4 = 9  OBVIOUS
    <3>. HIDE DEF h
    <3>3. h[1] = fix[1] /\ h[2] = fix[2] /\ h[3] = fix[3]  BY <3>1, <3>2 DEF Follows
    <3>4. h[5 + 4] = U32(9)[4] /\ \A i \in 1..4 : h[5 + i] = U32(9)[i]
      BY <3>1, <3>2 DEF Follows
    <3>5. IsSeq(h) /\ Len(h) = 5 + 4  BY <3>1 DEF Follows
    <3>. QED BY <2>1, <2>2, <3>2, <3>3, <3>4, <3>5
  <2>. HIDE DEF h
  <2>5. /\ IsSeq(g) /\ Len(g) = 13 /\ g[1] = 70 /\ g[2] = 76 /\ g[3] = 86 /\ g[9] = 9
        /\ g[10] = 0 /\ g[11] = 0 /\ g[12] = 0
        /\ \A i \in 1..4 : g[5 + i] = U32(9)[i]
    <3>1. Follows(g, h, 9, U32(0), 4)  BY <2>4, <1>1, Joined, ZenonT(60)
    <3>2. /\ 1 \in 1..9 /\ 2 \in 1..9 /\ 3 \in 1..9 /\ 9 \in 1..9
          /\ 1 \in 1..4 /\ 2 \in 1..4 /\ 3 \in 1..4
          /\ 9 + 1 = 10 /\ 9 + 2 = 11 /\ 9 + 3 = 12 /\ 9 + 4 = 13
      OBVIOUS
    <3>3. g[10] = U32(0)[1] /\ g[11] = U32(0)[2] /\ g[12] = U32(0)[3]  BY <3>1, <3>2 DEF Follows
    <3>4. g[1] = h[1] /\ g[2] = h[2] /\ g[3] = h[3] /\ g[9] = h[9]  BY <3>1, <3>2 DEF Follows
    <3>5. IsSeq(g) /\ Len(g) = 13  BY <3>1, <3>2 DEF Follows
    <3>6. \A i \in 1..4 : 5 + i \in 1..9  OBVIOUS
    <3>7. \A i \in 1..4 : g[5 + i] = h[5 + i]  BY <3>1, <3>6 DEF Follows
    <3>. QED BY <1>1, <2>4, <3>3, <3>4, <3>5, <3>7, ZenonT(60)
  <2>. HIDE DEF g
  <2>6. Fronts(Sending(tags, w), g, 13, tags)
    <3>1. Fronts(g \o FlattenSeq(Lays(tags)), g, 13, tags)  BY <2>5, Fronted, 13 \in Nat, ZenonT(60)
    <3>. QED BY <2>3, <3>1
  <2>7. 1 \in 1..13 /\ 2 \in 1..13 /\ 3 \in 1..13 /\ 9 \in 1..13
        /\ 10 \in 1..13 /\ 11 \in 1..13 /\ 12 \in 1..13
        /\ \A i \in 1..4 : 5 + i \in 1..13
    OBVIOUS
  <2>8. First(w) = 13  BY <1>2 DEF First
  <2>9. Fronts(Sending(tags, w), g, First(w), tags)  BY <2>6, <2>8
  <2>10. \A i \in 1..13 : Sending(tags, w)[i] = g[i]  BY <2>6 DEF Fronts
  <2>11. /\ Sending(tags, w)[1] = 70 /\ Sending(tags, w)[2] = 76
         /\ Sending(tags, w)[3] = 86 /\ Sending(tags, w)[9] = 9
         /\ Sending(tags, w)[10] = 0 /\ Sending(tags, w)[11] = 0
         /\ Sending(tags, w)[12] = 0
         /\ \A i \in 1..4 : Sending(tags, w)[5 + i] = U32(9)[i]
    BY <2>5, <2>7, <2>10
  <2>. QED BY <1>2, <2>9, <2>11 DEF At, Fronts
<1>3. CASE ~w
  <2>1. Sending(tags, w) = U32(0) \o FlattenSeq(Lays(tags))  BY <1>3 DEF Sending, Headerless, Lays
  <2>2. Fronts(Sending(tags, w), U32(0), 4, tags)  BY <2>1, <1>1, Fronted
  <2>3. 1 \in 1..4  OBVIOUS
  <2>4. First(w) = 4  BY <1>3 DEF First
  <2>5. Fronts(Sending(tags, w), U32(0), First(w), tags)  BY <2>2, <2>4
  <2>6. Sending(tags, w)[1] = 0  BY <1>1, <2>2, <2>3 DEF Fronts
  <2>. QED BY <1>3, <2>5, <2>6 DEF At, Fronts
<1>. QED BY <1>2, <1>3

-----------------------------------------------------------------------------
(* Numbers among bytes.                                                    *)

\* n elements behind the first p.
LEMMA MiddleIs ==
  ASSUME NEW s, IsSeq(s), NEW p \in Nat, NEW n \in Nat, p + n <= Len(s)
  PROVE  /\ Len(SubSeq(s, p + 1, p + n)) = n /\ DOMAIN SubSeq(s, p + 1, p + n) = 1..n
         /\ \A i \in 1..n : SubSeq(s, p + 1, p + n)[i] = s[p + i]
<1>1. PICK S : s \in Seq(S)  BY DEF IsSeq
<1>2. Len(s) \in Nat /\ \A i \in 1..Len(s) : s[i] \in S  BY <1>1, LenProperties, ElementOfSeq
<1>. DEFINE a == p + 1
            b == p + n
<1>3. a \in Int /\ b \in Int /\ \A i \in a..b : s[i] \in S
  <2>1. \A i \in (p + 1)..(p + n) : i \in 1..Len(s)  BY <1>2
  <2>. QED BY <1>2, <2>1
<1>4. (IF a <= b THEN b - a + 1 ELSE 0) = n /\ b - a + 1 = n  OBVIOUS
<1>5. \A i \in 1..n : a + i - 1 = p + i  OBVIOUS
<1>. HIDE DEF a, b
<1>6. /\ SubSeq(s, a, b) \in Seq(S)
      /\ Len(SubSeq(s, a, b)) = IF a <= b THEN b - a + 1 ELSE 0
      /\ \A i \in 1..(b - a + 1) : SubSeq(s, a, b)[i] = s[a + i - 1]
  BY <1>3, SubSeqProperties
<1>7. Len(SubSeq(s, a, b)) = n /\ \A i \in 1..n : SubSeq(s, a, b)[i] = s[p + i]
  BY <1>4, <1>5, <1>6
<1>8. DOMAIN SubSeq(s, a, b) = 1..n  BY <1>6, <1>7, LenProperties
<1>. QED BY <1>7, <1>8 DEF a, b

\* The number that n bytes behind the first p make, the high one first.
Number(bytes, p, n) == Digits(SubSeq(bytes, p + 1, p + n))

\* A number of n + 1 bytes, the last of them its lowest.
LEMMA NumberGrows ==
  ASSUME NEW bytes, IsSeq(bytes), NEW p \in Nat, NEW n \in Nat, p + (n + 1) <= Len(bytes)
  PROVE  Number(bytes, p, n + 1) = 256 * Number(bytes, p, n) + bytes[p + (n + 1)]
<1>. DEFINE s == SubSeq(bytes, p + 1, p + n)
            t == SubSeq(bytes, p + 1, p + (n + 1))
<1>1. Len(bytes) \in Nat /\ p + n <= Len(bytes) /\ n + 1 \in Nat  BY SeqFacts
<1>2. Len(s) = n /\ DOMAIN s = 1..n /\ \A i \in 1..n : s[i] = bytes[p + i]
  BY <1>1, MiddleIs
<1>3. Len(t) = n + 1 /\ DOMAIN t = 1..(n + 1) /\ \A i \in 1..(n + 1) : t[i] = bytes[p + i]
  BY <1>1, MiddleIs
<1>4. Number(bytes, p, n) = Digits(s) /\ Number(bytes, p, n + 1) = Digits(t)  BY DEF Number
<1>. HIDE DEF s, t
<1>5. \A i \in 1..n : t[i] = s[i]
  <2>1. SUFFICES ASSUME NEW i \in 1..n PROVE t[i] = s[i]
    OBVIOUS
  <2>2. i \in 1..(n + 1)  OBVIOUS
  <2>. QED BY <1>2, <1>3, <2>2, Zenon
<1>6. Digits(t) = 256 * Digits(s) + t[Len(t)]
  <2>1. /\ Len(s) \in Nat /\ Len(t) = Len(s) + 1 /\ DOMAIN s = 1..Len(s) /\ DOMAIN t = 1..Len(t)
        /\ \A i \in 1..Len(s) : t[i] = s[i]
    BY <1>2, <1>3, <1>5
  <2>. QED BY <2>1, DigitsAdds
<1>7. t[Len(t)] = bytes[p + (n + 1)]
  <2>1. n + 1 \in 1..(n + 1)  OBVIOUS
  <2>. QED BY <1>3, <2>1
<1>. QED BY <1>4, <1>6, <1>7

\* A number of no bytes.
LEMMA NumberNone ==
  ASSUME NEW bytes, IsSeq(bytes), NEW p \in Nat, p <= Len(bytes)
  PROVE  Number(bytes, p, 0) = 0
<1>. DEFINE s == SubSeq(bytes, p + 1, p + 0)
<1>1. Len(s) = 0
  <2>1. p + 0 <= Len(bytes) /\ 0 \in Nat  OBVIOUS
  <2>. QED BY <2>1, MiddleIs
<1>2. s = <<>>
  <2>1. PICK S : bytes \in Seq(S)  BY DEF IsSeq
  <2>2. Len(bytes) \in Nat /\ \A i \in 1..Len(bytes) : bytes[i] \in S
    BY <2>1, LenProperties, ElementOfSeq
  <2>3. p + 1 \in Int /\ p + 0 \in Int /\ \A i \in (p + 1)..(p + 0) : bytes[i] \in S  OBVIOUS
  <2>. DEFINE a == p + 1
              b == p + 0
  <2>4. a \in Int /\ b \in Int /\ \A i \in a..b : bytes[i] \in S  BY <2>3
  <2>. HIDE DEF a, b
  <2>5. SubSeq(bytes, a, b) \in Seq(S)  BY <2>4, SubSeqProperties
  <2>6. IsSeq(s)  BY <2>5 DEF IsSeq, a, b
  <2>. QED BY <1>1, <2>6, SeqFacts
<1>3. Number(bytes, p, 0) = Digits(s)  BY DEF Number
<1>. HIDE DEF s
<1>. QED BY <1>2, <1>3, DigitsNone

\* The lengths a stream is made of, as the parser puts them together again.
LEMMA NumberIs ==
  ASSUME NEW bytes, IsSeq(bytes), NEW p \in Nat
  PROVE  /\ p + 1 <= Len(bytes) /\ bytes[p + 1] \in Int => Number(bytes, p, 1) = bytes[p + 1]
         /\ p + 2 <= Len(bytes) /\ bytes[p + 1] \in Int
              => Number(bytes, p, 2) = 256 * bytes[p + 1] + bytes[p + 2]
         /\ p + 3 <= Len(bytes) /\ bytes[p + 1] \in Int
              => Number(bytes, p, 3) = 256 * (256 * bytes[p + 1] + bytes[p + 2]) + bytes[p + 3]
         /\ p + 4 <= Len(bytes) /\ bytes[p + 1] \in Int
              => Number(bytes, p, 4) = 256 * (256 * (256 * bytes[p + 1] + bytes[p + 2]) + bytes[p + 3])
                               + bytes[p + 4]
<1>0. Len(bytes) \in Nat  BY SeqFacts
<1>1. p + 1 <= Len(bytes) /\ bytes[p + 1] \in Int => Number(bytes, p, 1) = bytes[p + 1]
  <2>1. SUFFICES ASSUME p + 1 <= Len(bytes), bytes[p + 1] \in Int PROVE Number(bytes, p, 1) = bytes[p + 1]
    OBVIOUS
  <2>2. 0 \in Nat /\ p + (0 + 1) <= Len(bytes) /\ p <= Len(bytes) /\ 0 + 1 = 1  BY <1>0, <2>1
  <2>3. Number(bytes, p, 0 + 1) = 256 * Number(bytes, p, 0) + bytes[p + (0 + 1)]  BY <2>2, NumberGrows
  <2>4. Number(bytes, p, 0) = 0  BY <2>2, NumberNone
  <2>. HIDE DEF Number
  <2>5. Number(bytes, p, 1) = 256 * 0 + bytes[p + 1]  BY <2>2, <2>3, <2>4
  <2>. QED BY <2>1, <2>5
<1>2. p + 2 <= Len(bytes) => Number(bytes, p, 2) = 256 * Number(bytes, p, 1) + bytes[p + 2]
  <2>1. 1 + 1 = 2 /\ 1 \in Nat  OBVIOUS
  <2>. QED BY <2>1, NumberGrows
<1>3. p + 3 <= Len(bytes) => Number(bytes, p, 3) = 256 * Number(bytes, p, 2) + bytes[p + 3]
  <2>1. 2 + 1 = 3 /\ 2 \in Nat  OBVIOUS
  <2>. QED BY <2>1, NumberGrows
<1>4. p + 4 <= Len(bytes) => Number(bytes, p, 4) = 256 * Number(bytes, p, 3) + bytes[p + 4]
  <2>1. 3 + 1 = 4 /\ 3 \in Nat  OBVIOUS
  <2>. QED BY <2>1, NumberGrows
<1>. HIDE DEF Number
<1>5. /\ p + 2 <= Len(bytes) => p + 1 <= Len(bytes)
      /\ p + 3 <= Len(bytes) => p + 2 <= Len(bytes)
      /\ p + 4 <= Len(bytes) => p + 3 <= Len(bytes)
  BY <1>0
<1>. QED BY <1>1, <1>2, <1>3, <1>4, <1>5

\* A field of two bytes is read back as it was written,
LEMMA TwoBack ==
  ASSUME NEW bytes, IsSeq(bytes), NEW p \in Nat, NEW n \in Nat, p + 2 <= Len(bytes),
         bytes[p + 1] = n \div 256, bytes[p + 2] = n % 256
  PROVE  Number(bytes, p, 2) = n
<1>. DEFINE a == n \div 256
            b == n % 256
<1>1. a \in Int /\ 256 * a + b = n  BY SMT
<1>2. bytes[p + 1] = a /\ bytes[p + 2] = b  OBVIOUS
<1>. HIDE DEF a, b
<1>. QED BY <1>1, <1>2, NumberIs

\* one of three,
LEMMA ThreeBack ==
  ASSUME NEW bytes, IsSeq(bytes), NEW p \in Nat, NEW n \in Nat, p + 3 <= Len(bytes),
         \A i \in 1..3 : bytes[p + i] = U24(n)[i]
  PROVE  Number(bytes, p, 3) = n
<1>. DEFINE a == n \div 65536
            b == (n \div 256) % 256
            c == n % 256
<1>1. a \in Int /\ 256 * (256 * a + b) + c = n  BY SMT
<1>2. bytes[p + 1] = a /\ bytes[p + 2] = b /\ bytes[p + 3] = c
  <2>1. 1 \in 1..3 /\ 2 \in 1..3 /\ 3 \in 1..3  OBVIOUS
  <2>. QED BY <2>1, U24Is, SMT
<1>. HIDE DEF a, b, c
<1>. QED BY <1>1, <1>2, NumberIs

\* and one of four.
LEMMA FourBack ==
  ASSUME NEW bytes, IsSeq(bytes), NEW p \in Nat, NEW n \in Nat, p + 4 <= Len(bytes),
         \A i \in 1..4 : bytes[p + i] = U32(n)[i]
  PROVE  Number(bytes, p, 4) = n
<1>. DEFINE a == n \div 16777216
            m == n % 16777216
            b == m \div 65536
            c == (m \div 256) % 256
            d == m % 256
<1>1. a \in Int /\ m \in Nat /\ 16777216 * a + m = n  BY SMT
<1>2. b \in Int /\ 256 * (256 * b + c) + d = m
  <2>1. m \in Nat  BY <1>1, SMT
  <2>. HIDE DEF m
  <2>. QED BY <2>1, SMT
<1>3. U32(n)[1] = a /\ U32(n)[2] = b /\ U32(n)[3] = c /\ U32(n)[4] = d
  <2>1. U24(m)[1] = b /\ U24(m)[2] = c /\ U24(m)[3] = d  BY U24Is, SMT
  <2>2. 1 \in 1..3 /\ 2 \in 1..3 /\ 3 \in 1..3 /\ 1 + 1 = 2 /\ 1 + 2 = 3 /\ 1 + 3 = 4  OBVIOUS
  <2>. QED BY <2>1, <2>2, U32Is, SMT
<1>. HIDE DEF a, m, b, c, d
<1>4. bytes[p + 1] = a /\ bytes[p + 2] = b /\ bytes[p + 3] = c /\ bytes[p + 4] = d
  <2>1. 1 \in 1..4 /\ 2 \in 1..4 /\ 3 \in 1..4 /\ 4 \in 1..4  OBVIOUS
  <2>. QED BY <1>3, <2>1
<1>5. a \in Int  BY <1>1, SMT
<1>6. Number(bytes, p, 4) = 256 * (256 * (256 * a + b) + c) + d
  BY <1>4, <1>5, NumberIs, SMTT(60)
<1>7. c \in Int /\ d \in Int
  <2>1. (m \div 256) % 256 \in Int /\ m % 256 \in Int  BY <1>1, SMT
  <2>. QED BY <2>1 DEF c, d
<1>8. 256 * (256 * (256 * a + b) + c) + d = 16777216 * a + m  BY <1>1, <1>2, <1>7, SMT
<1>. QED BY <1>1, <1>6, <1>8, SMT

-----------------------------------------------------------------------------
(* Where the units lie.                                                    *)

\* How much of a body the head and the first k units take.
Lot(u, k) == 5 + 4 * k + Added(SubSeq(u, 1, k))

\* Each unit takes four bytes more than its length.
LEMMA LotGrows ==
  ASSUME NEW u \in Seq(Nat)
  PROVE  /\ Lot(u, 0) = 5
         /\ \A k \in 0..Len(u) : /\ Added(SubSeq(u, 1, k)) \in Nat /\ Lot(u, k) \in Nat
                                /\ Lot(u, k) = 5 + Len(Upto(Packed(u), k))
         /\ \A k \in 0..(Len(u) - 1) : Lot(u, k + 1) = Lot(u, k) + 4 + u[k + 1]
<1>0. /\ Len(u) \in Nat /\ IsSeq(u) /\ \A i \in 1..Len(u) : u[i] \in Nat
      /\ Pieced(Packed(u)) /\ Len(Packed(u)) = Len(u)
      /\ \A i \in 1..Len(u) : Packed(u)[i] = Nalu(u[i])
  BY LenProperties, ElementOfSeq, PackedPieced DEF IsSeq
<1>. DEFINE A(k) == Added(SubSeq(u, 1, k))
            L(k) == Len(Upto(Packed(u), k))
            S == {k \in Nat : k <= Len(u) => A(k) \in Nat /\ L(k) = 4 * k + A(k)}
<1>1. A(0) = 0
  <2>1. 0 \in 0..Len(u)  BY <1>0
  <2>2. IsSeq(SubSeq(u, 1, 0)) /\ Len(SubSeq(u, 1, 0)) = 0  BY <1>0, <2>1, FirstOnes
  <2>3. SubSeq(u, 1, 0) = <<>>  BY <2>2, SeqFacts
  <2>. QED BY <2>3, AddedNone
<1>2. ASSUME NEW k \in 0..(Len(u) - 1)
      PROVE  A(k + 1) = A(k) + u[k + 1] /\ L(k + 1) = L(k) + 4 + u[k + 1]
  <2>1. k \in 0..Len(u) /\ k + 1 \in 0..Len(u) /\ k + 1 \in 1..Len(u) /\ k \in Nat
        /\ k + 1 \in 1..(k + 1)
    BY <1>0
  <2>. DEFINE s == SubSeq(u, 1, k)
              t == SubSeq(u, 1, k + 1)
  <2>2. Len(s) = k /\ DOMAIN s = 1..k /\ \A i \in 1..k : s[i] = u[i]
    BY <1>0, <2>1, FirstOnes
  <2>3. Len(t) = k + 1 /\ DOMAIN t = 1..(k + 1) /\ \A i \in 1..(k + 1) : t[i] = u[i]
    BY <1>0, <2>1, FirstOnes
  <2>4. A(k) = Added(s) /\ A(k + 1) = Added(t)  OBVIOUS
  <2>. HIDE DEF s, t, A
  <2>5. /\ Len(s) \in Nat /\ Len(t) = Len(s) + 1 /\ DOMAIN s = 1..Len(s) /\ DOMAIN t = 1..Len(t)
        /\ \A i \in 1..Len(s) : t[i] = s[i]
    BY <2>1, <2>2, <2>3
  <2>6. Added(t) = Added(s) + t[Len(t)]  BY <2>5, AddedAdds
  <2>7. A(k + 1) = A(k) + u[k + 1]  BY <2>1, <2>3, <2>4, <2>6
  <2>8. L(k + 1) = L(k) + (4 + u[k + 1])
    <3>1. Len(Upto(Packed(u), k + 1)) = Len(Upto(Packed(u), k)) + Len(Packed(u)[k + 1])
      BY <1>0, <2>1, UptoIs
    <3>2. Len(Packed(u)[k + 1]) = 4 + u[k + 1]  BY <1>0, <2>1, NaluIs
    <3>. QED BY <3>1, <3>2
  <2>9. L(k) \in Nat /\ u[k + 1] \in Nat  BY <1>0, <2>1, UptoIs
  <2>. HIDE DEF L
  <2>10. L(k) + (4 + u[k + 1]) = L(k) + 4 + u[k + 1]
    <3>1. \A x, y \in Nat : x + (4 + y) = x + 4 + y  OBVIOUS
    <3>. QED BY <3>1, <2>9, Zenon
  <2>. QED BY <2>7, <2>8, <2>10
<1>3. L(0) = 0  BY <1>0, UptoIs
<1>. HIDE DEF A, L
<1>4. 0 \in S  BY <1>1, <1>3
<1>5. ASSUME NEW k \in Nat, k \in S PROVE k + 1 \in S
  <2>1. SUFFICES ASSUME k + 1 <= Len(u)
                 PROVE  A(k + 1) \in Nat /\ L(k + 1) = 4 * (k + 1) + A(k + 1)
    OBVIOUS
  <2>2. k \in 0..(Len(u) - 1) /\ k + 1 \in 1..Len(u) /\ k <= Len(u)  BY <1>0, <2>1
  <2>3. A(k) \in Nat /\ L(k) = 4 * k + A(k)  BY <1>5, <2>2
  <2>4. A(k + 1) = A(k) + u[k + 1] /\ L(k + 1) = L(k) + 4 + u[k + 1]  BY <1>2, <2>2
  <2>5. u[k + 1] \in Nat  BY <1>0, <2>2
  <2>. QED BY <2>3, <2>4, <2>5, SMTT(60)
<1>. HIDE DEF S
<1>6. \A k \in Nat : k \in S  BY <1>4, <1>5, SetInduction
<1>7. \A k \in 0..Len(u) : A(k) \in Nat /\ L(k) = 4 * k + A(k)  BY <1>0, <1>6 DEF S
<1>8. \A k \in 0..Len(u) : Lot(u, k) = 5 + 4 * k + A(k)  BY DEF Lot, A
<1>9. ASSUME NEW k \in 0..Len(u)
      PROVE  Lot(u, k) \in Nat /\ Lot(u, k) = 5 + L(k)
  BY <1>7, <1>8
<1>10. ASSUME NEW k \in 0..(Len(u) - 1) PROVE Lot(u, k + 1) = Lot(u, k) + 4 + u[k + 1]
  <2>1. k \in 0..Len(u) /\ k + 1 \in 0..Len(u) /\ k + 1 \in 1..Len(u)  BY <1>0
  <2>2. A(k) \in Nat /\ u[k + 1] \in Nat  BY <1>0, <1>7, <2>1
  <2>3. Lot(u, k) = 5 + 4 * k + A(k) /\ Lot(u, k + 1) = 5 + 4 * (k + 1) + A(k + 1)
    BY <1>8, <2>1
  <2>4. A(k + 1) = A(k) + u[k + 1]  BY <1>2
  <2>. QED BY <2>2, <2>3, <2>4
<1>11. Lot(u, 0) = 5
  <2>1. 0 \in 0..Len(u)  BY <1>0
  <2>. QED BY <1>1, <1>8, <2>1
<1>12. \A k \in 0..Len(u) : Added(SubSeq(u, 1, k)) \in Nat  BY <1>7 DEF A
<1>. QED BY <1>9, <1>10, <1>11, <1>12 DEF L

\* A body of units: the length of each unit in front of it, all of them inside.
LEMMA NalusLie ==
  ASSUME NEW tg \in Tags, tg.kind \in {"nalus", "badsize"}
  PROVE  /\ Type(tg) = 9 /\ Body(tg)[1] = 23 /\ Body(tg)[2] = 1
         /\ Lot(tg.units, Len(tg.units)) = DataSize(tg)
         /\ \A k \in 0..Len(tg.units) : Lot(tg.units, k) <= DataSize(tg)
         /\ \A k \in 0..(Len(tg.units) - 1) : \A j \in 1..4 :
              Body(tg)[Lot(tg.units, k) + j] = U32(tg.units[k + 1])[j]
<1>. DEFINE u == tg.units
            f == FlattenSeq(Packed(u))
            b == VideoHead(23, 1) \o f
<1>0. /\ u \in Seq(Nat) /\ Len(u) \in Nat /\ \A i \in 1..Len(u) : u[i] \in Nat
      /\ Pieced(Packed(u)) /\ Len(Packed(u)) = Len(u)
      /\ \A i \in 1..Len(u) : Packed(u)[i] = Nalu(u[i])
  <2>1. u \in Seq(Nat)  BY TagsAre
  <2>. HIDE DEF u
  <2>. QED BY <2>1, LenProperties, ElementOfSeq, PackedPieced
<1>1. Body(tg) = b /\ Type(tg) = 9  BY DEF Body, Type, Packed
<1>. HIDE DEF u
<1>2. IsSeq(f) /\ Len(f) \in Nat  BY <1>0, UptoIs, SeqFacts
<1>3. /\ Len(b) = 5 + Len(f) /\ b[1] = 23 /\ b[2] = 1
      /\ \A i \in 1..Len(f) : b[5 + i] = f[i]
  <2>. HIDE DEF f
  <2>1. HeadOf(b, 23, 1, f)  BY <1>2, Headed
  <2>. HIDE DEF b
  <2>. QED BY <2>1 DEF HeadOf
<1>4. DataSize(tg) = 5 + Len(f)  BY <1>1, <1>3 DEF DataSize
<1>. HIDE DEF b
<1>5. Lot(u, Len(u)) = DataSize(tg)
  <2>1. Len(u) \in 0..Len(u)  BY <1>0
  <2>2. Upto(Packed(u), Len(u)) = f  BY <1>0, UptoGrows
  <2>. QED BY <1>0, <1>4, <2>1, <2>2, LotGrows
<1>. HIDE DEF f
<1>6. ASSUME NEW k \in 0..Len(u) PROVE Lot(u, k) <= DataSize(tg)
  <2>1. Len(Upto(Packed(u), k)) <= Len(f)  BY <1>0, UptoStays DEF f
  <2>2. Len(Upto(Packed(u), k)) \in Nat  BY <1>0, UptoIs
  <2>3. Lot(u, k) = 5 + Len(Upto(Packed(u), k))  BY <1>0, LotGrows
  <2>. QED BY <1>2, <1>4, <2>1, <2>2, <2>3
<1>7. ASSUME NEW k \in 0..(Len(u) - 1), NEW j \in 1..4
      PROVE  b[Lot(u, k) + j] = U32(u[k + 1])[j]
  <2>. DEFINE m == Len(Upto(Packed(u), k))
  <2>1. k \in 0..Len(u) /\ k + 1 \in 1..Len(u) /\ (k + 1) - 1 = k  BY <1>0
  <2>2. Lot(u, k) = 5 + m /\ m \in Nat  BY <1>0, <2>1, LotGrows, UptoIs
  <2>3. /\ Packed(u)[k + 1] = Nalu(u[k + 1]) /\ u[k + 1] \in Nat
        /\ Len(Nalu(u[k + 1])) = 4 + u[k + 1]
        /\ Nalu(u[k + 1])[j] = U32(u[k + 1])[j]
    <3>1. Packed(u)[k + 1] = Nalu(u[k + 1]) /\ u[k + 1] \in Nat  BY <1>0, <2>1
    <3>. QED BY <3>1, NaluIs
  <2>4. k + 1 \in 1..Len(Packed(u))  BY <1>0, <2>1
  <2>5. /\ Len(Upto(Packed(u), k + 1)) = m + Len(Packed(u)[k + 1])
        /\ Len(Upto(Packed(u), k + 1)) <= Len(f)
        /\ \A i \in 1..Len(Packed(u)[k + 1]) : f[m + i] = Packed(u)[k + 1][i]
    <3>1. /\ Len(Upto(Packed(u), k + 1)) = Len(Upto(Packed(u), (k + 1) - 1)) + Len(Packed(u)[k + 1])
          /\ Len(Upto(Packed(u), k + 1)) <= Len(FlattenSeq(Packed(u)))
          /\ \A i \in 1..Len(Packed(u)[k + 1]) :
               FlattenSeq(Packed(u))[Len(Upto(Packed(u), (k + 1) - 1)) + i] = Packed(u)[k + 1][i]
      BY <1>0, <2>4, PieceLies
    <3>. QED BY <3>1, <2>1 DEF f
  <2>. HIDE DEF m
  <2>6. j \in 1..Len(Packed(u)[k + 1])  BY <2>3
  <2>7. f[m + j] = U32(u[k + 1])[j]  BY <2>3, <2>5, <2>6
  <2>8. m + j \in 1..Len(f) /\ (5 + m) + j = 5 + (m + j)  BY <1>2, <2>2, <2>3, <2>5, SMTT(60)
  <2>9. b[5 + (m + j)] = f[m + j]  BY <1>3, <2>8
  <2>. QED BY <2>2, <2>7, <2>8, <2>9
<1>. QED BY <1>1, <1>3, <1>5, <1>6, <1>7 DEF u

\* A body behind a video head.
LEMMA HeadLies ==
  ASSUME NEW tg, NEW a, NEW b, NEW c, IsSeq(c), HeadOf(Body(tg), a, b, c)
  PROVE  /\ IsSeq(Body(tg)) /\ DataSize(tg) = 5 + Len(c) /\ Len(c) \in Nat
         /\ Body(tg)[1] = a /\ Body(tg)[2] = b
         /\ \A i \in 1..Len(c) : Body(tg)[5 + i] = c[i]
BY SeqFacts DEF HeadOf, DataSize

\* Parameter sets of lengths m and n, as a parser reads them.
SetsLie(tg, m, n) ==
  /\ Body(tg)[1] = 23 /\ Body(tg)[2] = 0
  /\ Body(tg)[12] = m \div 256 /\ Body(tg)[13] = m % 256 /\ Body(tg)[14 + m] = 1
  /\ Body(tg)[15 + m] = n \div 256 /\ Body(tg)[16 + m] = n % 256

\* The body that holds just them.
Record(m, n) == VideoHead(23, 0) \o Config(m, n)

\* It has the head, and the record behind it,
LEMMA RecordIs ==
  ASSUME NEW m \in Nat, NEW n \in Nat
  PROVE  /\ IsSeq(Record(m, n)) /\ Len(Record(m, n)) = 16 + m + n
         /\ Sets(Config(m, n), m, n) /\ HeadOf(Record(m, n), 23, 0, Config(m, n))
<1>. DEFINE c == Config(m, n)
            r == Record(m, n)
<1>1. Sets(c, m, n)  BY ConfigIs
<1>. HIDE DEF c
<1>2. IsSeq(c) /\ Len(c) = 11 + m + n  BY <1>1 DEF Sets
<1>3. HeadOf(VideoHead(23, 0) \o c, 23, 0, c)  BY <1>2, Headed
<1>4. r = VideoHead(23, 0) \o c  BY DEF Record, c
<1>. HIDE DEF r
<1>5. HeadOf(r, 23, 0, c)  BY <1>3, <1>4
<1>6. IsSeq(r) /\ Len(r) = 5 + Len(c)  BY <1>5 DEF HeadOf
<1>7. 5 + (11 + m + n) = 16 + m + n  OBVIOUS
<1>8. Len(r) = 16 + m + n  BY <1>2, <1>6, <1>7, Zenon
<1>. QED BY <1>1, <1>5, <1>6, <1>8, Zenon DEF c, r

\* and a body that begins like it has the sets where a parser reads them.
LEMMA RecordLies ==
  ASSUME NEW m \in Nat, NEW n \in Nat, NEW d \in Nat, 16 + m <= d, NEW tg,
         \A i \in 1..d : Body(tg)[i] = Record(m, n)[i]
  PROVE  SetsLie(tg, m, n)
<1>. DEFINE c == Config(m, n)
            r == Record(m, n)
<1>1. Sets(c, m, n) /\ HeadOf(r, 23, 0, c)  BY RecordIs
<1>2. \A i \in 1..d : Body(tg)[i] = r[i]  OBVIOUS
<1>. HIDE DEF c, r
<1>3. /\ Len(c) = 11 + m + n
      /\ c[7] = m \div 256 /\ c[8] = m % 256 /\ c[9 + m] = 1
      /\ c[10 + m] = n \div 256 /\ c[11 + m] = n % 256
  BY <1>1 DEF Sets
<1>5. r[1] = 23 /\ r[2] = 0 /\ \A i \in 1..Len(c) : r[5 + i] = c[i]  BY <1>1 DEF HeadOf
<1>6. /\ 7 \in 1..Len(c) /\ 8 \in 1..Len(c) /\ 9 + m \in 1..Len(c)
      /\ 10 + m \in 1..Len(c) /\ 11 + m \in 1..Len(c)
      /\ 5 + 7 = 12 /\ 5 + 8 = 13 /\ 5 + (9 + m) = 14 + m
      /\ 5 + (10 + m) = 15 + m /\ 5 + (11 + m) = 16 + m
  BY <1>3
<1>7. /\ r[12] = m \div 256 /\ r[13] = m % 256 /\ r[14 + m] = 1
      /\ r[15 + m] = n \div 256 /\ r[16 + m] = n % 256
  <2>1. r[5 + 7] = c[7] /\ r[5 + 8] = c[8]  BY <1>5, <1>6
  <2>2. r[5 + (9 + m)] = c[9 + m]  BY <1>5, <1>6
  <2>3. r[5 + (10 + m)] = c[10 + m]  BY <1>5, <1>6
  <2>4. r[5 + (11 + m)] = c[11 + m]  BY <1>5, <1>6
  <2>. QED BY <1>3, <1>6, <2>1, <2>2, <2>3, <2>4
<1>8. /\ 1 \in 1..d /\ 2 \in 1..d /\ 12 \in 1..d /\ 13 \in 1..d /\ 14 + m \in 1..d
      /\ 15 + m \in 1..d /\ 16 + m \in 1..d
  OBVIOUS
<1>. QED BY <1>2, <1>5, <1>7, <1>8, ZenonT(60) DEF SetsLie

\* Bodies with parameter sets: one that holds just them, one with four bytes behind them,
\* and one whose second set is promised a byte that is not there.
LEMMA ConfigLies ==
  ASSUME NEW tg \in Tags, tg.kind \in {"config", "config_high", "longset"},
         NEW m, m = tg.units[1], NEW n, n = tg.units[2]
  PROVE  /\ m \in Nat /\ n \in Nat /\ Type(tg) = 9
         /\ tg.kind = "config" => SetsLie(tg, m, n) /\ DataSize(tg) = 16 + m + n
         /\ tg.kind = "config_high" => /\ SetsLie(tg, m, n) /\ DataSize(tg) = 20 + m + n
                                       /\ Body(tg)[17 + m + n] = 253
         /\ tg.kind = "longset" => SetsLie(tg, m, n + 1) /\ DataSize(tg) = 16 + m + n
<1>1. m \in Nat /\ n \in Nat /\ n + 1 \in Nat  BY TagsAre
<1>2. Type(tg) = 9  BY DEF Type
<1>3. IsSeq(Record(m, n)) /\ Len(Record(m, n)) = 16 + m + n  BY <1>1, RecordIs
<1>4. IsSeq(Record(m, n + 1)) /\ Len(Record(m, n + 1)) = 17 + m + n
  <2>. DEFINE l == n + 1
  <2>1. IsSeq(Record(m, l)) /\ Len(Record(m, l)) = 16 + m + l
    <3>1. l \in Nat  BY <1>1
    <3>. HIDE DEF l
    <3>. QED BY <1>1, <3>1, RecordIs
  <2>2. 16 + m + l = 17 + m + n  BY <1>1
  <2>. QED BY <2>1, <2>2, Zenon
<1>. DEFINE r == Record(m, n)
            long == Record(m, n + 1)
<1>5. CASE tg.kind = "config"
  <2>1. Body(tg) = r  BY <1>5 DEF Body, Record
  <2>2. DataSize(tg) = 16 + m + n  BY <1>3, <2>1, Zenon DEF DataSize
  <2>3. SetsLie(tg, m, n)
    <3>. DEFINE d == 16 + m + n
    <3>1. \A i \in 1..d : Body(tg)[i] = Record(m, n)[i]  BY <2>1
    <3>2. d \in Nat /\ 16 + m <= d  BY <1>1
    <3>. HIDE DEF d
    <3>. QED BY <1>1, <3>1, <3>2, RecordLies
  <2>. QED BY <1>1, <1>2, <1>5, <2>2, <2>3
<1>6. CASE tg.kind = "config_high"
  <2>. DEFINE more == <<253, 248, 248, 0>>
  <2>1. Body(tg) = r \o more  BY <1>6, SMTT(60) DEF Body, Record
  <2>2. IsSeq(more) /\ Len(more) = 4 /\ more[1] = 253
    <3>1. more \in Seq({253, 248, 0})  OBVIOUS
    <3>. QED BY <3>1 DEF IsSeq
  <2>. HIDE DEF r, more
  <2>3. Follows(Body(tg), r, 16 + m + n, more, 4)
    <3>. DEFINE d == 16 + m + n
    <3>1. IsSeq(r) /\ Len(r) = d  BY <1>3 DEF r
    <3>2. IsSeq(more) /\ Len(more) = 4  BY <2>2
    <3>. HIDE DEF d
    <3>3. Follows(r \o more, r, d, more, 4)  BY <3>1, <3>2, Joined
    <3>. QED BY <2>1, <3>3 DEF d
  <2>4. /\ Len(Body(tg)) = 16 + m + n + 4 /\ \A i \in 1..(16 + m + n) : Body(tg)[i] = r[i]
        /\ Body(tg)[16 + m + n + 1] = 253
    BY <2>2, <2>3, 1 \in 1..4 DEF Follows
  <2>5. 16 + m + n + 4 = 20 + m + n /\ 16 + m + n + 1 = 17 + m + n  BY <1>1
  <2>6. SetsLie(tg, m, n)
    <3>. DEFINE d == 16 + m + n
    <3>1. d \in Nat /\ 16 + m <= d  BY <1>1
    <3>2. \A i \in 1..d : Body(tg)[i] = Record(m, n)[i]
      BY <2>4 DEF r
    <3>. HIDE DEF d
    <3>. QED BY <1>1, <3>1, <3>2, RecordLies
  <2>. QED BY <1>1, <1>2, <1>6, <2>4, <2>5, <2>6 DEF DataSize
<1>7. CASE tg.kind = "longset"
  <2>1. Body(tg) = SubSeq(long, 1, Len(long) - 1)  BY <1>7 DEF Body, Front, Record
  <2>. HIDE DEF long
  <2>2. Len(long) - 1 = 16 + m + n /\ Len(long) - 1 \in 0..Len(long)
    <3>. DEFINE l == Len(long)
    <3>1. l = 17 + m + n  BY <1>4 DEF long
    <3>. HIDE DEF l
    <3>2. l - 1 = 16 + m + n /\ l - 1 \in 0..l  BY <1>1, <3>1
    <3>. QED BY <3>2 DEF l
  <2>3. Len(Body(tg)) = 16 + m + n /\ \A i \in 1..(16 + m + n) : Body(tg)[i] = long[i]
    BY <1>4, <2>1, <2>2, FirstOnes DEF long
  <2>4. SetsLie(tg, m, n + 1)
    <3>. DEFINE d == 16 + m + n
                l == n + 1
    <3>1. d \in Nat /\ 16 + m <= d /\ l \in Nat  BY <1>1
    <3>2. \A i \in 1..d : Body(tg)[i] = Record(m, l)[i]
      BY <2>3 DEF long
    <3>3. SetsLie(tg, m, l)
      <4>. HIDE DEF d, l
      <4>. QED BY <1>1, <3>1, <3>2, RecordLies
    <3>. QED BY <3>3
  <2>. QED BY <1>1, <1>2, <1>7, <2>3, <2>4 DEF DataSize
<1>. QED BY <1>5, <1>6, <1>7

\* The other video bodies: a unit promised a byte that is not there, and a command frame.
LEMMA OddOnesLie ==
  ASSUME NEW tg \in Tags, tg.kind \in {"overlong", "command"}, NEW m, m = tg.units[1]
  PROVE  /\ m \in Nat /\ Type(tg) = 9
         /\ tg.kind = "overlong" =>
              /\ DataSize(tg) = 9 + m /\ Body(tg)[1] = 23 /\ Body(tg)[2] = 1
              /\ \A i \in 1..4 : Body(tg)[5 + i] = U32(m + 1)[i]
         /\ tg.kind = "command" => DataSize(tg) = 5 + m /\ Body(tg)[1] = 87
<1>1. m \in Nat /\ IsSeq(Bytes(m)) /\ Len(Bytes(m)) = m /\ \A i \in 1..m : Bytes(m)[i] = Filler
  <2>1. m \in Nat  BY TagsAre
  <2>. QED BY <2>1, BytesAre DEF Bytes
<1>2. Type(tg) = 9  BY DEF Type
<1>3. CASE tg.kind = "overlong"
  <2>. DEFINE l == U32(m + 1)
              h == VideoHead(23, 1)
              s == h \o l
  <2>1. Body(tg) = s \o Bytes(m)  BY <1>3 DEF Body
  <2>2. IsSeq(l) /\ Len(l) = 4  BY U32Is, SMT
  <2>. HIDE DEF l
  <2>3. HeadOf(s, 23, 1, l)  BY <2>2, Headed
  <2>. HIDE DEF s
  <2>4. IsSeq(s) /\ Len(s) = 9 /\ s[1] = 23 /\ s[2] = 1 /\ \A i \in 1..4 : s[5 + i] = l[i]
    BY <2>2, <2>3 DEF HeadOf
  <2>5. Follows(Body(tg), s, 9, Bytes(m), m)
    <3>1. IsSeq(s) /\ Len(s) = 9  BY <2>4
    <3>2. IsSeq(Bytes(m)) /\ Len(Bytes(m)) = m  BY <1>1
    <3>3. Follows(s \o Bytes(m), s, 9, Bytes(m), m)  BY <3>1, <3>2, Joined
    <3>. QED BY <2>1, <3>3
  <2>6. 1 \in 1..9 /\ 2 \in 1..9 /\ \A i \in 1..4 : 5 + i \in 1..9  OBVIOUS
  <2>7. /\ Len(Body(tg)) = 9 + m /\ Body(tg)[1] = 23 /\ Body(tg)[2] = 1
        /\ \A i \in 1..4 : Body(tg)[5 + i] = l[i]
    BY <2>4, <2>5, <2>6 DEF Follows
  <2>. QED BY <1>1, <1>2, <1>3, <2>7 DEF DataSize, l
<1>5. CASE tg.kind = "command"
  <2>. DEFINE c == Bytes(m)
  <2>1. Body(tg) = VideoHead(87, 0) \o c  BY <1>5 DEF Body
  <2>. DEFINE r == VideoHead(87, 0) \o c
  <2>2. IsSeq(c) /\ Len(c) = m  BY <1>1
  <2>. HIDE DEF c
  <2>3. DataSize(tg) = 5 + Len(c) /\ Body(tg)[1] = 87
    <3>1. HeadOf(r, 87, 0, c)  BY <2>2, Headed
    <3>2. Body(tg) = r  BY <2>1
    <3>. HIDE DEF r
    <3>. QED BY <2>2, <3>1, <3>2, HeadLies
  <2>4. DataSize(tg) = 5 + m  BY <2>2, <2>3
  <2>. QED BY <1>1, <1>2, <1>5, <2>3, <2>4
<1>. QED BY <1>3, <1>5

\* Another codec, whose payload is what it is.
LEMMA CodecLies ==
  ASSUME NEW tg \in Tags, tg.kind = "h263"
  PROVE  /\ Type(tg) = 9 /\ IsSeq(tg.units) /\ Len(tg.units) \in Nat
         /\ DataSize(tg) = 5 + Len(tg.units) /\ Body(tg)[1] = 34
         /\ \A i \in 1..Len(tg.units) : Body(tg)[5 + i] = tg.units[i]
<1>. DEFINE u == tg.units
            r == VideoHead(34, 0) \o u
<1>1. Type(tg) = 9 /\ Body(tg) = r  BY DEF Type, Body
<1>2. IsSeq(u) /\ Len(u) \in Nat
  <2>1. IsSeq(u)  BY TagsAre
  <2>. QED BY <2>1, SeqFacts
<1>. HIDE DEF u
<1>3. HeadOf(r, 34, 0, u)  BY <1>2, Headed
<1>. HIDE DEF r
<1>4. DataSize(tg) = 5 + Len(u) /\ Body(tg)[1] = 34 /\ \A i \in 1..Len(u) : Body(tg)[5 + i] = u[i]
  BY <1>1, <1>2, <1>3, HeadLies
<1>. QED BY <1>1, <1>2, <1>4 DEF u

\* A length with no unit behind it.
LEMMA ClaimLies ==
  ASSUME NEW tg \in Tags, tg.kind = "claiming"
  PROVE  Type(tg) = 9 /\ DataSize(tg) = 9 /\ Body(tg)[1] = 23 /\ Body(tg)[2] = 1
<1>. DEFINE l == U32(tg.units[1])
            r == VideoHead(23, 1) \o l
<1>1. Type(tg) = 9 /\ Body(tg) = r  BY DEF Type, Body
<1>2. IsSeq(l) /\ Len(l) = 4  BY U32Is, SMT
<1>. HIDE DEF l
<1>3. HeadOf(r, 23, 1, l)  BY <1>2, Headed
<1>. HIDE DEF r
<1>4. Len(r) = 9 /\ r[1] = 23 /\ r[2] = 1  BY <1>2, <1>3 DEF HeadOf
<1>. QED BY <1>1, <1>4 DEF DataSize

\* What the other regular tags are.
LEMMA OthersLie ==
  ASSUME NEW tg \in Tags, Regular(tg), tg.kind \notin {"nalus", "config"}
  PROVE  \/ Type(tg) \in {8, 18}
         \/ Type(tg) = 9 /\ Body(tg)[1] = 87 /\ DataSize(tg) = 6
<1>1. CASE tg.kind \in {"audio", "script"}  BY <1>1 DEF Type
<1>2. CASE tg.kind = "command" /\ tg.units[1] = 1
  <2>1. Type(tg) = 9 /\ Body(tg) = VideoHead(87, 0) \o Bytes(1)  BY <1>2 DEF Type, Body
  <2>2. IsSeq(Bytes(1)) /\ Len(Bytes(1)) = 1  BY BytesAre
  <2>. DEFINE b == VideoHead(87, 0) \o Bytes(1)
  <2>3. HeadOf(b, 87, 0, Bytes(1))  BY <2>2, Headed
  <2>. HIDE DEF b
  <2>4. b[1] = 87 /\ Len(b) = 5 + 1  BY <2>2, <2>3 DEF HeadOf
  <2>5. 5 + 1 = 6  OBVIOUS
  <2>6. Body(tg)[1] = 87 /\ DataSize(tg) = 6  BY <2>1, <2>4, <2>5 DEF DataSize, b
  <2>. QED BY <2>1, <2>6
<1>. QED BY <1>1, <1>2 DEF Regular

UnitAt(p, n) == [from |-> p, len |-> n]

\* The places of a tag's units are a sequence, one for each unit.
LEMMA PlacesAre ==
  ASSUME NEW tg \in Tags, NEW start \in Nat
  PROVE  /\ IsSeq(Places(tg, start)) /\ Len(Places(tg, start)) \in Nat
         /\ tg.kind = "nalus" =>
              /\ Len(Places(tg, start)) = Len(tg.units)
              /\ \A k \in 0..(Len(tg.units) - 1) :
                   Places(tg, start)[k + 1]
                     = UnitAt(start + 11 + Lot(tg.units, k) + 4, tg.units[k + 1])
         /\ tg.kind = "config" =>
              Places(tg, start)
                = <<UnitAt(start + 24, tg.units[1]), UnitAt(start + 27 + tg.units[1], tg.units[2])>>
         /\ tg.kind \notin {"nalus", "config"} => Places(tg, start) = <<>>
<1>. DEFINE u == tg.units
            p == [k \in DOMAIN u |->
                    [from |-> start + 16 + 4 * k + Total(SubSeq(u, 1, k - 1)), len |-> u[k]]]
<1>0. /\ u \in Seq(Nat) /\ Len(u) \in Nat /\ DOMAIN u = 1..Len(u)
      /\ \A i \in 1..Len(u) : u[i] \in Nat
  <2>1. u \in Seq(Nat)  BY TagsAre
  <2>. HIDE DEF u
  <2>. QED BY <2>1, LenProperties, ElementOfSeq
<1>1. CASE tg.kind = "nalus"
  <2>1. Places(tg, start) = p  BY <1>1 DEF Places
  <2>. HIDE DEF u
  <2>2. p \in [1..Len(u) -> {p[i] : i \in 1..Len(u)}]  BY <1>0
  <2>. HIDE DEF p
  <2>3. IsSeq(p) /\ Len(p) = Len(u)  BY <1>0, <2>2, CountedIs
  <2>4. ASSUME NEW k \in 0..(Len(u) - 1)
        PROVE  p[k + 1] = UnitAt(start + 11 + Lot(u, k) + 4, u[k + 1])
    <3>1. k + 1 \in DOMAIN u /\ (k + 1) - 1 = k /\ k \in 0..Len(u)  BY <1>0
    <3>2. p[k + 1] = [from |-> start + 16 + 4 * (k + 1) + Total(SubSeq(u, 1, (k + 1) - 1)),
                      len |-> u[k + 1]]
      BY <3>1 DEF p
    <3>. DEFINE a == Added(SubSeq(u, 1, k))
    <3>3. a \in Nat  BY <1>0, <3>1, LotGrows
    <3>4. Total(SubSeq(u, 1, (k + 1) - 1)) = a  BY <3>1 DEF Total, Added
    <3>5. Lot(u, k) = 5 + 4 * k + a  BY DEF Lot
    <3>. HIDE DEF a
    <3>6. k \in Nat  BY <1>0
    <3>7. start + 16 + 4 * (k + 1) + a = start + 11 + (5 + 4 * k + a) + 4  BY <3>3, <3>6
    <3>. QED BY <3>2, <3>4, <3>5, <3>7 DEF UnitAt
  <2>. QED BY <1>0, <1>1, <2>1, <2>3, <2>4 DEF u
<1>2. CASE tg.kind = "config"
  <2>1. Places(tg, start) = <<[from |-> start + 16 + 8, len |-> u[1]],
                              [from |-> start + 16 + 8 + u[1] + 3, len |-> u[2]]>>
    BY <1>2 DEF Places
  <2>2. u[1] \in Nat  BY <1>2, TagsAre
  <2>. HIDE DEF u
  <2>3. start + 16 + 8 = start + 24 /\ start + 16 + 8 + u[1] + 3 = start + 27 + u[1]  BY <2>2
  <2>4. Places(tg, start) = <<UnitAt(start + 24, u[1]), UnitAt(start + 27 + u[1], u[2])>>
    BY <2>1, <2>3 DEF UnitAt
  <2>5. IsSeq(Places(tg, start)) /\ Len(Places(tg, start)) = 2  BY <2>4, PairIs
  <2>. QED BY <1>2, <2>4, <2>5 DEF u
<1>3. CASE tg.kind \notin {"nalus", "config"}
  <2>1. Places(tg, start) = <<>>  BY <1>3 DEF Places
  <2>. QED BY <1>3, <2>1, EmptyIs
<1>. QED BY <1>1, <1>2, <1>3

\* What is laid out.
LaidOut(laid, tags, w) ==
  /\ IsSeq(laid) /\ Len(laid) = Len(tags) /\ DOMAIN laid = 1..Len(tags)
  /\ \A i \in 1..Len(tags) :
       /\ laid[i].kind = tags[i].kind /\ laid[i].units = tags[i].units
       /\ laid[i].size = DataSize(tags[i])
       /\ laid[i].start = At(tags, w, i) /\ laid[i].places = Places(tags[i], At(tags, w, i))

\* Laid lists the tags so.
LEMMA LaidIs ==
  ASSUME NEW tags \in Seq(Tags), NEW w \in BOOLEAN
  PROVE  LaidOut(Laid(tags, First(w)), tags, w)
<1>. DEFINE L == Laid(tags, First(w))
            R(i) == [kind |-> tags[i].kind, units |-> tags[i].units,
                     start |-> At(tags, w, i), size |-> DataSize(tags[i]),
                     places |-> Places(tags[i], At(tags, w, i))]
<1>1. Len(tags) \in Nat /\ DOMAIN tags = 1..Len(tags)  BY LenProperties
<1>2. L = [i \in 1..Len(tags) |-> R(i)]  BY <1>1 DEF Laid, At
<1>. HIDE DEF L
<1>3. L \in [1..Len(tags) -> {R(i) : i \in 1..Len(tags)}] /\ DOMAIN L = 1..Len(tags)
  <2>. HIDE DEF R
  <2>. QED BY <1>2
<1>4. IsSeq(L) /\ Len(L) = Len(tags)
  <2>. HIDE DEF R
  <2>. QED BY <1>1, <1>3, CountedIs
<1>5. \A i \in 1..Len(tags) :
        /\ L[i].kind = tags[i].kind /\ L[i].units = tags[i].units
        /\ L[i].size = DataSize(tags[i])
        /\ L[i].start = At(tags, w, i) /\ L[i].places = Places(tags[i], At(tags, w, i))
  BY <1>2
<1>. QED BY <1>3, <1>4, <1>5 DEF LaidOut, L

\* The places of the units, tag by tag, and how many the first k tags have.
Placed(tags, w) == [i \in DOMAIN tags |-> Places(tags[i], At(tags, w, i))]
Count(tags, w, k) == Len(Upto(Placed(tags, w), k))

\* There are places for each tag.
LEMMA PlacedPieced ==
  ASSUME NEW tags \in Seq(Tags), NEW w \in BOOLEAN
  PROVE  /\ Pieced(Placed(tags, w)) /\ Len(Placed(tags, w)) = Len(tags) /\ Len(tags) \in Nat
         /\ \A i \in 1..Len(tags) :
              /\ tags[i] \in Tags /\ At(tags, w, i) \in Nat
              /\ Placed(tags, w)[i] = Places(tags[i], At(tags, w, i))
<1>1. Len(tags) \in Nat /\ DOMAIN tags = 1..Len(tags) /\ \A i \in 1..Len(tags) : tags[i] \in Tags
  BY LenProperties, ElementOfSeq
<1>2. \A i \in 1..Len(tags) : At(tags, w, i) \in Nat
  <2>1. \A i \in 1..Len(tags) : i \in 1..(Len(tags) + 1)  BY <1>1
  <2>. QED BY <2>1, AtIs
<1>. DEFINE p == Placed(tags, w)
<1>3. /\ \A i \in 1..Len(tags) : p[i] = Places(tags[i], At(tags, w, i))
      /\ p \in [1..Len(tags) -> {Places(tags[i], At(tags, w, i)) : i \in 1..Len(tags)}]
  BY <1>1 DEF Placed
<1>. HIDE DEF p
<1>4. IsSeq(p) /\ Len(p) = Len(tags)  BY <1>1, <1>3, CountedIs
<1>5. \A i \in 1..Len(tags) : IsSeq(p[i])  BY <1>1, <1>2, <1>3, PlacesAre
<1>6. Pieced(p)  BY <1>4, <1>5 DEF Pieced
<1>. QED BY <1>1, <1>2, <1>3, <1>4, <1>6 DEF p

\* The units at `places' are those of the tag behind the first k.
ThoseNext(tags, w, k, places) ==
  /\ Count(tags, w, k + 1) = Count(tags, w, k) + Len(places)
  /\ Count(tags, w, k + 1) <= Len(FlattenSeq(Placed(tags, w)))
  /\ \A j \in 1..Len(places) :
       FlattenSeq(Placed(tags, w))[Count(tags, w, k) + j] = places[j]

\* Units counted, and where among all of them those of a tag are.
LEMMA CountIs ==
  ASSUME NEW tags \in Seq(Tags), NEW w \in BOOLEAN
  PROVE  /\ Count(tags, w, 0) = 0
         /\ \A k \in 0..Len(tags) : Count(tags, w, k) \in Nat
         /\ \A k \in 0..(Len(tags) - 1) :
              ThoseNext(tags, w, k, Places(tags[k + 1], At(tags, w, k + 1)))
         /\ IsSeq(FlattenSeq(Placed(tags, w)))
<1>. DEFINE p == Placed(tags, w)
<1>0. /\ Pieced(p) /\ Len(p) = Len(tags) /\ Len(tags) \in Nat
      /\ \A i \in 1..Len(tags) : p[i] = Places(tags[i], At(tags, w, i))
  BY PlacedPieced
<1>. HIDE DEF p
<1>1. \A k \in 0..Len(tags) : Count(tags, w, k) = Len(Upto(p, k)) /\ Len(Upto(p, k)) \in Nat
  BY <1>0, UptoIs DEF Count, p
<1>2. Count(tags, w, 0) = 0
  <2>1. 0 \in 0..Len(tags)  BY <1>0
  <2>. QED BY <1>0, <1>1, <2>1, UptoIs
<1>3. ASSUME NEW k \in 0..(Len(tags) - 1), NEW places,
             places = Places(tags[k + 1], At(tags, w, k + 1))
      PROVE  /\ Count(tags, w, k + 1) = Count(tags, w, k) + Len(places)
             /\ Count(tags, w, k + 1) <= Len(FlattenSeq(p))
             /\ \A j \in 1..Len(places) : FlattenSeq(p)[Count(tags, w, k) + j] = places[j]
  <2>1. k + 1 \in 1..Len(p) /\ k \in 0..Len(tags) /\ k + 1 \in 0..Len(tags)
        /\ k + 1 \in 1..Len(tags) /\ (k + 1) - 1 = k
    BY <1>0
  <2>2. p[k + 1] = places  BY <1>0, <1>3, <2>1
  <2>3. /\ Len(Upto(p, k + 1)) = Len(Upto(p, (k + 1) - 1)) + Len(p[k + 1])
        /\ Len(Upto(p, k + 1)) <= Len(FlattenSeq(p))
        /\ \A j \in 1..Len(p[k + 1]) : FlattenSeq(p)[Len(Upto(p, (k + 1) - 1)) + j] = p[k + 1][j]
    BY <1>0, <2>1, PieceLies
  <2>4. Count(tags, w, k) = Len(Upto(p, k)) /\ Count(tags, w, k + 1) = Len(Upto(p, k + 1))
    BY <1>1, <2>1
  <2>. QED BY <2>1, <2>2, <2>3, <2>4
<1>4. IsSeq(FlattenSeq(p))  BY <1>0, UptoIs
<1>5. \A k \in 0..(Len(tags) - 1) : ThoseNext(tags, w, k, Places(tags[k + 1], At(tags, w, k + 1)))
  BY <1>3, Zenon DEF ThoseNext, p
<1>. QED BY <1>1, <1>2, <1>4, <1>5 DEF p

\* UnitsOfFirst counts the same.
LEMMA UnitsCounted ==
  ASSUME NEW tags \in Seq(Tags), NEW w \in BOOLEAN, NEW laid, LaidOut(laid, tags, w)
  PROVE  \A k \in 0..Len(tags) : UnitsOfFirst(laid, k) = Count(tags, w, k)
<1>. DEFINE T(k) == [i \in 1..k |-> Len(laid[i].places)]
            S == {k \in Nat : k <= Len(tags) => Added(T(k)) = Count(tags, w, k)}
<1>0. /\ Len(tags) \in Nat
      /\ \A i \in 1..Len(tags) : /\ laid[i].places = Places(tags[i], At(tags, w, i))
                                 /\ Len(laid[i].places) \in Nat
  <2>1. ASSUME NEW i \in 1..Len(tags)
        PROVE  /\ laid[i].places = Places(tags[i], At(tags, w, i))
               /\ Len(laid[i].places) \in Nat
    <3>1. laid[i].places = Places(tags[i], At(tags, w, i))  BY DEF LaidOut
    <3>2. tags[i] \in Tags /\ At(tags, w, i) \in Nat  BY PlacedPieced
    <3>. QED BY <3>1, <3>2, PlacesAre
  <2>. QED BY <2>1, PlacedPieced
<1>1. \A k \in 0..Len(tags) : /\ Len(T(k)) = k /\ DOMAIN T(k) = 1..k
                              /\ \A i \in 1..k : T(k)[i] = Len(laid[i].places)
  <2>1. SUFFICES ASSUME NEW k \in 0..Len(tags)
                 PROVE  Len(T(k)) = k /\ DOMAIN T(k) = 1..k
    OBVIOUS
  <2>2. k \in Nat /\ \A i \in 1..k : i \in 1..Len(tags)  BY <1>0
  <2>3. T(k) \in [1..k -> Nat]  BY <1>0, <2>2
  <2>. HIDE DEF T
  <2>. QED BY <2>2, <2>3, CountedIs
<1>2. 0 \in S
  <2>1. T(0) = <<>>
    <3>1. T(0) \in [1..0 -> Nat]  OBVIOUS
    <3>. HIDE DEF T
    <3>2. IsSeq(T(0)) /\ Len(T(0)) = 0  BY <3>1, CountedIs, 0 \in Nat
    <3>. QED BY <3>2, SeqFacts
  <2>. QED BY <2>1, AddedNone, CountIs
<1>. HIDE DEF T
<1>3. ASSUME NEW k \in Nat, k \in S PROVE k + 1 \in S
  <2>1. SUFFICES ASSUME k + 1 <= Len(tags) PROVE Added(T(k + 1)) = Count(tags, w, k + 1)
    OBVIOUS
  <2>2. k \in 0..Len(tags) /\ k + 1 \in 0..Len(tags) /\ k \in 0..(Len(tags) - 1)
        /\ k <= Len(tags) /\ k + 1 \in 1..Len(tags) /\ k + 1 \in 1..(k + 1)
    BY <1>0, <2>1
  <2>3. /\ Len(T(k)) \in Nat /\ Len(T(k + 1)) = Len(T(k)) + 1
        /\ DOMAIN T(k) = 1..Len(T(k)) /\ DOMAIN T(k + 1) = 1..Len(T(k + 1))
        /\ \A i \in 1..Len(T(k)) : T(k + 1)[i] = T(k)[i]
    <3>1. \A i \in 1..k : i \in 1..(k + 1)  OBVIOUS
    <3>. QED BY <1>1, <2>2, <3>1
  <2>4. Added(T(k + 1)) = Added(T(k)) + T(k + 1)[Len(T(k + 1))]  BY <2>3, AddedAdds
  <2>5. T(k + 1)[Len(T(k + 1))] = Len(Places(tags[k + 1], At(tags, w, k + 1)))
    BY <1>0, <1>1, <2>2
  <2>6. ThoseNext(tags, w, k, Places(tags[k + 1], At(tags, w, k + 1)))  BY <2>2, CountIs
  <2>7. Count(tags, w, k + 1)
          = Count(tags, w, k) + Len(Places(tags[k + 1], At(tags, w, k + 1)))
    BY <2>6 DEF ThoseNext
  <2>. QED BY <1>3, <2>2, <2>4, <2>5, <2>7
<1>. HIDE DEF S
<1>4. \A k \in Nat : k \in S  BY <1>2, <1>3, SetInduction
<1>5. \A k \in 0..Len(tags) : Added(T(k)) = Count(tags, w, k)  BY <1>0, <1>4 DEF S
<1>6. \A k \in 0..Len(tags) : UnitsOfFirst(laid, k) = Added(T(k))
  BY DEF UnitsOfFirst, Total, Added, T
<1>. QED BY <1>5, <1>6

\* How many units each tag of a regular stream carries; an odd one stands for an empty one.
RegularIn(laid) == \A i \in DOMAIN laid : Regular(laid[i])
Counts(laid) == IF RegularIn(laid) THEN [i \in DOMAIN laid |-> Len(laid[i].places)] ELSE <<>>

\* Of a regular stream: its tags' units.
LEMMA CountsAre ==
  ASSUME NEW tags \in Seq(Tags), NEW w \in BOOLEAN, NEW laid, LaidOut(laid, tags, w),
         RegularIn(laid)
  PROVE  /\ Counts(laid) \in Seq(Nat) /\ Len(Counts(laid)) = Len(tags)
         /\ \A n \in 1..Len(tags) : Counts(laid)[n] = Len(Places(tags[n], At(tags, w, n)))
<1>0. Len(tags) \in Nat /\ DOMAIN laid = 1..Len(tags)  BY LenProperties DEF LaidOut
<1>1. ASSUME NEW n \in 1..Len(tags)
      PROVE  /\ laid[n].places = Places(tags[n], At(tags, w, n))
             /\ Len(Places(tags[n], At(tags, w, n))) \in Nat
  <2>1. tags[n] \in Tags /\ At(tags, w, n) \in Nat  BY PlacedPieced
  <2>. QED BY <2>1, PlacesAre DEF LaidOut
<1>. DEFINE c == [i \in 1..Len(tags) |-> Len(laid[i].places)]
<1>2. Counts(laid) = c  BY <1>0 DEF Counts
<1>3. c \in [1..Len(tags) -> Nat]  BY <1>1
<1>4. \A n \in 1..Len(tags) : c[n] = Len(Places(tags[n], At(tags, w, n)))  BY <1>1
<1>. HIDE DEF c
<1>5. c \in Seq(Nat) /\ Len(c) = Len(tags)
  <2>1. c \in Seq(Nat)  BY <1>0, <1>3
  <2>. QED BY <1>0, <1>3, <2>1, CountedIs
<1>. QED BY <1>2, <1>4, <1>5
=============================================================================
