-------------------------- MODULE RtmpClientProofs --------------------------
(* What the messages under way between librtmp and its server always are,  *)
(* and what follows: results find their commands, commands reach a server  *)
(* that can obey them, and the two ends agree about encryption; for every  *)
(* caller, every draw of random bytes and every bound.                     *)
(*                                                                         *)
(* A handler works on q, the client's record and the messages it leaves to *)
(* the server.  The invariants are therefore operators of a client's       *)
(* fields, the two queues and the streams alive at the server: each        *)
(* operation a handler is made of is shown to keep them, then each         *)
(* handler, then each action.                                              *)
EXTENDS RtmpClient, SequenceTheorems, WellFoundedInduction, FiniteSetTheorems, TLAPS

-----------------------------------------------------------------------------
(* Sequences of messages, whatever set they are of.                        *)

IsSeq(s) == \E S : s \in Seq(S)

\* A sequence has a length, is defined up to it, and is empty if that is zero.
LEMMA SeqFacts ==
  ASSUME NEW s, IsSeq(s)
  PROVE  Len(s) \in Nat /\ DOMAIN s = 1..Len(s) /\ (s = <<>> <=> Len(s) = 0)
<1>1. PICK S : s \in Seq(S)  BY DEF IsSeq
<1>. QED BY <1>1, LenProperties, EmptySeq

\* The empty sequence is one.
LEMMA EmptyIs == IsSeq(<<>>) /\ Len(<<>>) = 0
BY EmptySeq DEF IsSeq

\* So is one of a single element,
LEMMA SingleIs ==
  ASSUME NEW m
  PROVE  IsSeq(<<m>>) /\ Len(<<m>>) = 1 /\ <<m>>[1] = m
<1>1. <<m>> \in Seq({m})  OBVIOUS
<1>. QED BY <1>1 DEF IsSeq

\* and one of two.
LEMMA PairIs ==
  ASSUME NEW m, NEW n
  PROVE  IsSeq(<<m, n>>) /\ Len(<<m, n>>) = 2 /\ <<m, n>>[1] = m /\ <<m, n>>[2] = n
<1>1. <<m, n>> \in Seq({m, n})  OBVIOUS
<1>. QED BY <1>1 DEF IsSeq

\* Append adds one at the end and moves nothing.
LEMMA AppendIs ==
  ASSUME NEW s, IsSeq(s), NEW m
  PROVE  /\ IsSeq(Append(s, m)) /\ Len(Append(s, m)) = Len(s) + 1
         /\ \A i \in 1..Len(s) : Append(s, m)[i] = s[i]
         /\ Append(s, m)[Len(s) + 1] = m
<1>1. PICK S : s \in Seq(S)  BY DEF IsSeq
<1>2. s \in Seq(S \cup {m})  BY <1>1, SeqMonotonic
<1>3. Append(s, m) \in Seq(S \cup {m})  BY <1>2
<1>. QED BY <1>2, <1>3 DEF IsSeq

\* Tail drops the first.
LEMMA TailIs ==
  ASSUME NEW s, IsSeq(s), s # <<>>
  PROVE  /\ IsSeq(Tail(s)) /\ Len(s) >= 1 /\ Len(Tail(s)) = Len(s) - 1
         /\ \A i \in 1..Len(Tail(s)) : Tail(s)[i] = s[i + 1]
         /\ Head(s) = s[1]
<1>1. PICK S : s \in Seq(S)  BY DEF IsSeq
<1>. QED BY <1>1, HeadTailProperties, EmptySeq DEF IsSeq

\* Concatenation puts one behind the other.
LEMMA ConcatIs ==
  ASSUME NEW s, IsSeq(s), NEW t, IsSeq(t)
  PROVE  /\ IsSeq(s \o t) /\ Len(s \o t) = Len(s) + Len(t)
         /\ \A i \in 1..(Len(s) + Len(t)) :
              (s \o t)[i] = IF i <= Len(s) THEN s[i] ELSE t[i - Len(s)]
<1>1. PICK S : s \in Seq(S)  BY DEF IsSeq
<1>2. PICK T : t \in Seq(T)  BY DEF IsSeq
<1>3. s \in Seq(S \cup T) /\ t \in Seq(S \cup T)  BY <1>1, <1>2, SeqMonotonic
<1>. QED BY <1>3, ConcatProperties DEF IsSeq

\* RemoveAt drops the one at i, and those behind it move up.
LEMMA RemoveAtIs ==
  ASSUME NEW s, IsSeq(s), NEW i \in 1..Len(s)
  PROVE  /\ IsSeq(RemoveAt(s, i)) /\ Len(RemoveAt(s, i)) = Len(s) - 1
         /\ \A k \in 1..(Len(s) - 1) : RemoveAt(s, i)[k] = IF k < i THEN s[k] ELSE s[k + 1]
<1>. DEFINE front == SubSeq(s, 1, i - 1)
            back == SubSeq(s, i + 1, Len(s))
<1>1. PICK S : s \in Seq(S)  BY DEF IsSeq
<1>2. Len(s) \in Nat /\ \A k \in 1..Len(s) : s[k] \in S  BY <1>1, LenProperties, ElementOfSeq
<1>3. /\ front \in Seq(S) /\ Len(front) = i - 1
      /\ \A k \in 1..(i - 1) : front[k] = s[k]
  <2>1. \A k \in 1..(i - 1) : s[k] \in S  BY <1>2
  <2>2. /\ SubSeq(s, 1, i - 1) \in Seq(S)
        /\ Len(SubSeq(s, 1, i - 1)) = IF 1 <= i - 1 THEN (i - 1) - 1 + 1 ELSE 0
        /\ \A k \in 1..((i - 1) - 1 + 1) : SubSeq(s, 1, i - 1)[k] = s[1 + k - 1]
    BY <2>1, <1>2, SubSeqProperties
  <2>. QED BY <2>2, <1>2
<1>4. /\ back \in Seq(S) /\ Len(back) = Len(s) - i
      /\ \A k \in 1..(Len(s) - i) : back[k] = s[k + i]
  <2>1. \A k \in (i + 1)..Len(s) : s[k] \in S  BY <1>2
  <2>2. /\ SubSeq(s, i + 1, Len(s)) \in Seq(S)
        /\ Len(SubSeq(s, i + 1, Len(s))) = IF i + 1 <= Len(s) THEN Len(s) - (i + 1) + 1 ELSE 0
        /\ \A k \in 1..(Len(s) - (i + 1) + 1) : SubSeq(s, i + 1, Len(s))[k] = s[(i + 1) + k - 1]
    BY <2>1, <1>2, SubSeqProperties
  <2>. QED BY <2>2, <1>2
<1>5. RemoveAt(s, i) = front \o back  BY DEF RemoveAt
<1>6. IsSeq(front) /\ IsSeq(back)  BY <1>3, <1>4 DEF IsSeq
<1>. HIDE DEF front, back
<1>7. /\ IsSeq(front \o back) /\ Len(front \o back) = Len(s) - 1
      /\ \A k \in 1..(Len(s) - 1) :
           (front \o back)[k] = IF k <= i - 1 THEN front[k] ELSE back[k - (i - 1)]
  <2>1. Len(front) + Len(back) = Len(s) - 1  BY <1>2, <1>3, <1>4
  <2>2. /\ IsSeq(front \o back) /\ Len(front \o back) = Len(front) + Len(back)
        /\ \A k \in 1..(Len(front) + Len(back)) :
             (front \o back)[k] = IF k <= Len(front) THEN front[k] ELSE back[k - Len(front)]
    BY <1>6, ConcatIs
  <2>. QED BY <2>1, <2>2, <1>3
<1>8. ASSUME NEW k \in 1..(Len(s) - 1)
      PROVE  (front \o back)[k] = IF k < i THEN s[k] ELSE s[k + 1]
  <2>1. CASE k < i  BY <2>1, <1>2, <1>3, <1>7
  <2>2. CASE ~(k < i)
    <3>1. k - (i - 1) \in 1..(Len(s) - i)  BY <2>2, <1>2
    <3>2. back[k - (i - 1)] = s[k - (i - 1) + i]  BY <3>1, <1>4
    <3>3. k - (i - 1) + i = k + 1  BY <1>2
    <3>. QED BY <2>2, <3>2, <3>3, <1>2, <1>7
  <2>. QED BY <2>1, <2>2
<1>. QED BY <1>5, <1>7, <1>8

\* A nonempty set of numbers has a least one, which Min is.
LEMMA Least ==
  ASSUME NEW T, T \subseteq Nat, T # {}
  PROVE  Min(T) \in T /\ \A n \in T : Min(T) <= n
<1>1. PICK x \in T : \A y \in T : ~ (<<y, x>> \in OpToRel(<, Nat))
  BY NatLessThanWellFounded, WFMin
<1>2. \A y \in T : ~(y < x)
  BY <1>1 DEF OpToRel
<1>3. \A y \in T : x <= y
  BY <1>2
<1>. QED BY <1>3 DEF Min

-----------------------------------------------------------------------------
(* The handshake: the layout of a signature and the agreement of two peers, *)
(* for all random bytes.                                                     *)

Disjoint(a, lengthA, b, lengthB) == a + lengthA <= b \/ b + lengthB <= a

Between(low, n, high) == n \in Int /\ low <= n /\ n <= high

LEMMA Places ==
  ASSUME NEW n \in Nat
  PROVE  /\ Between(12, Place(n, 728, 12), 739) /\ Between(776, Place(n, 728, 776), 1503)
         /\ Between(772, Place(n, 632, 772), 1403) /\ Between(8, Place(n, 632, 8), 639)
BY DEF Place, Between

LEMMA Offsets ==
  ASSUME NEW sums \in Sums
  PROVE  /\ Between(12, digoff(0, sums), 739) /\ Between(776, digoff(1, sums), 1503)
         /\ Between(772, dhoff(0, sums), 1403) /\ Between(8, dhoff(1, sums), 639)
<1>1. \A field \in SumFields : sums[field] \in Nat  BY DEF Sums
<1>2. 8 \in SumFields /\ 768 \in SumFields /\ 772 \in SumFields /\ 1532 \in SumFields
  BY DEF SumFields
<1>3. Between(12, digoff(0, sums), 739)  BY <1>1, <1>2, Places DEF digoff
<1>4. Between(776, digoff(1, sums), 1503)  BY <1>1, <1>2, Places DEF digoff
<1>5. Between(772, dhoff(0, sums), 1403)  BY <1>1, <1>2, Places DEF dhoff
<1>6. Between(8, dhoff(1, sums), 639)  BY <1>1, <1>2, Places DEF dhoff
<1>. QED BY <1>3, <1>4, <1>5, <1>6

\* What the offset functions of handshake.h may return: a digest and a key within the
\* limits they end the program at, so exit(1) is never reached; inside the signature;
\* and neither over the other nor over the bytes that say where they are, so that
\* writing them moves nothing.
THEOREM Layout ==
  ASSUME NEW sums \in Sums, NEW alg \in {0, 1}
  PROVE  /\ digoff(alg, sums) + SHA256_DIGEST_LENGTH <= DigestLimit(alg)
         /\ dhoff(alg, sums) + DHKeyLength <= DHLimit(alg)
         /\ DigestLimit(alg) < RTMP_SIG_SIZE /\ DHLimit(alg) < RTMP_SIG_SIZE
         /\ Disjoint(digoff(alg, sums), SHA256_DIGEST_LENGTH, dhoff(alg, sums), DHKeyLength)
         /\ \A field \in SumFields :
              \/ field \in (IF alg = 0 THEN {768, 772} ELSE {8, 1532})
              \/ /\ Disjoint(digoff(alg, sums), SHA256_DIGEST_LENGTH, field, SumFieldLength)
                 /\ Disjoint(dhoff(alg, sums), DHKeyLength, field, SumFieldLength)
<1>. DEFINE digest == digoff(alg, sums)   dh == dhoff(alg, sums)
<1>1. /\ alg = 0 => Between(12, digest, 739) /\ Between(772, dh, 1403)
      /\ alg = 1 => Between(776, digest, 1503) /\ Between(8, dh, 639)
  BY Offsets
<1>2. digest \in Int /\ dh \in Int  BY <1>1 DEF Between
<1>. HIDE DEF digest, dh
<1>3. digest + 32 <= DigestLimit(alg) /\ dh + 128 <= DHLimit(alg)
  BY <1>1, <1>2 DEF Between, DigestLimit, DHLimit
<1>4. DigestLimit(alg) < 1536 /\ DHLimit(alg) < 1536
  BY DEF DigestLimit, DHLimit
<1>5. Disjoint(digest, 32, dh, 128)
  BY <1>1, <1>2 DEF Between, Disjoint
<1>6. ASSUME NEW field \in SumFields, field \notin (IF alg = 0 THEN {768, 772} ELSE {8, 1532})
      PROVE  Disjoint(digest, 32, field, 4) /\ Disjoint(dh, 128, field, 4)
  <2>1. /\ alg = 0 => field \in {8, 1532}
        /\ alg = 1 => field \in {768, 772}
    BY <1>6 DEF SumFields
  <2>. QED BY <1>1, <1>2, <2>1 DEF Between, Disjoint
<1>. QED BY <1>3, <1>4, <1>5, <1>6 DEF digest, dh, RTMP_SIG_SIZE, SHA256_DIGEST_LENGTH,
     DHKeyLength, SumFieldLength

\* The places of the two algorithms differ, so a digest found at one was put there by it.
LEMMA AlgorithmsDiffer ==
  ASSUME NEW sums \in Sums
  PROVE  digoff(0, sums) # digoff(1, sums)
<1>1. digoff(0, sums) < digoff(1, sums)  BY Offsets DEF Between
<1>2. digoff(0, sums) \in Int /\ digoff(1, sums) \in Int  BY Offsets DEF Between
<1>. QED BY <1>1, <1>2

\* A signed signature is found genuine, whichever algorithm it was made with and
\* whichever the reader tries first, and its public key is found.
LEMMA FoundGenuine ==
  ASSUME NEW sums \in Sums, NEW alg \in {0, 1}, NEW tried \in {0, 1}, NEW encrypted \in BOOLEAN,
         NEW of, NEW type, NEW version, version # 0, NEW key
  PROVE  LET sig == Signature(of, type, version, alg, encrypted, sums, key) IN
         /\ sig.of = of /\ sig.type = type /\ sig.version = version
         /\ Algorithm(sig, tried, key) = alg
         /\ VerifyDigest(digoff(alg, sums), sig, key)
         /\ sig.sums = sums
         /\ encrypted => Public(sig, dhoff(alg, sums)) = of
<1>. DEFINE sig == Signature(of, type, version, alg, encrypted, sums, key)
            place == digoff(alg, sums)
            dh == IF encrypted THEN [pos |-> dhoff(alg, sums), public |-> of] ELSE NoPublic
<1>1. sig = [of |-> of, type |-> type, version |-> version, sums |-> sums,
             digest |-> [pos |-> place, key |-> key, of |-> of], dh |-> dh]
  BY DEF Signature, CalculateDigest
<1>. HIDE DEF sig
<1>2. sig.digest.pos = place /\ sig.sums = sums /\ sig.dh = dh /\ sig.of = of
      /\ sig.digest = [pos |-> place, key |-> key, of |-> of]
      /\ sig.type = type /\ sig.version = version
  BY <1>1
<1>3. VerifyDigest(place, sig, key)
  BY <1>2 DEF VerifyDigest, CalculateDigest
<1>4. ASSUME NEW p, p # place PROVE ~VerifyDigest(p, sig, key)
  <2>1. CalculateDigest(p, sig, key).pos = p  BY DEF CalculateDigest
  <2>. QED BY <1>2, <1>4, <2>1 DEF VerifyDigest
<1>5. Algorithm(sig, tried, key) = alg
  <2>1. CASE tried = alg
    BY <1>2, <1>3, <2>1 DEF Algorithm
  <2>2. CASE tried # alg
    <3>1. digoff(tried, sums) # place
      BY <2>2, AlgorithmsDiffer
    <3>2. ~VerifyDigest(digoff(tried, sums), sig, key)
      BY <1>4, <3>1
    <3>3. 1 - tried = alg  BY <2>2
    <3>. QED BY <1>2, <3>2, <3>3 DEF Algorithm
  <2>. QED BY <2>1, <2>2
<1>6. encrypted => Public(sig, dhoff(alg, sums)) = of
  BY <1>2 DEF Public
<1>. QED BY <1>2, <1>3, <1>5, <1>6 DEF sig

\* HandShake against SHandShake, whatever random bytes the two draw, with either place
\* of the server's digest: each finds the other genuine and accepts its response, and
\* an encrypted session has keys that fit crosswise.
THEOREM Agreement ==
  ASSUME NEW mine \in Sums, NEW theirs \in Sums, NEW encrypted \in BOOLEAN, NEW swf \in BOOLEAN,
         NEW alg \in {0, 1}
  PROVE  LET clientsig == ClientSignature(encrypted, swf, mine)
             serversig == ServerSignature(clientsig, alg, theirs)
             answer == ClientAnswer(encrypted, swf, serversig)
             reply == ServerAnswer(clientsig) IN
         /\ Known(clientsig) /\ answer.ok /\ reply.ok
         /\ ClientAccepts(clientsig, encrypted, swf, serversig, reply.reply)
         /\ ServerAccepts(clientsig, serversig, answer.reply)
         /\ Crosswise(answer.keys, reply.keys)
         /\ encrypted => answer.keys # NoKeys
<1>. DEFINE clientsig == ClientSignature(encrypted, swf, mine)
            serversig == ServerSignature(clientsig, alg, theirs)
            answer == ClientAnswer(encrypted, swf, serversig)
            reply == ServerAnswer(clientsig)
            ctype == IF encrypted THEN 6 ELSE 3
            version == CASE encrypted -> 128 [] ~encrypted /\ swf -> 10 [] OTHER -> 0
            stype == IF encrypted THEN 8 ELSE 3
            calg == ClientAlgorithm(encrypted)
<1>1. clientsig.type = ctype /\ clientsig.version = version
  BY DEF ClientSignature, Signature
<1>2. /\ Known(clientsig) /\ Encrypted(clientsig) = encrypted
      /\ ServerFP9(clientsig) = (encrypted \/ swf)
      /\ ServerType(clientsig) = stype
      /\ ServerAlgorithm(clientsig) = calg
  BY <1>1 DEF Known, Encrypted, ServerFP9, ServerType, ServerAlgorithm, ClientAlgorithm
<1>3. CASE encrypted \/ swf
  <2>1. version # 0 /\ version \in {10, 128}  BY <1>3
  <2>2. serversig = Signature("server", stype, 3, alg, encrypted, theirs, "FMS")
    BY <1>2, <1>3 DEF ServerSignature
  <2>3. clientsig = Signature("client", ctype, version, calg, encrypted, mine, "FP")
    BY DEF ClientSignature
  <2>4. calg \in {0, 1}  BY DEF ClientAlgorithm
  <2>. HIDE DEF clientsig, serversig, version, stype, ctype, calg
  <2>5. /\ serversig.type = stype /\ serversig.version = 3
        /\ Algorithm(serversig, calg, "FMS") = alg
        /\ VerifyDigest(digoff(alg, theirs), serversig, "FMS")
        /\ serversig.sums = theirs
        /\ encrypted => Public(serversig, dhoff(alg, theirs)) = "server"
    BY <2>2, <2>4, FoundGenuine
  <2>6. /\ Algorithm(clientsig, calg, "FP") = calg
        /\ VerifyDigest(digoff(calg, mine), clientsig, "FP")
        /\ clientsig.sums = mine
        /\ encrypted => Public(clientsig, dhoff(calg, mine)) = "client"
    BY <2>1, <2>3, <2>4, FoundGenuine
  <2>7. FP9HandShake(encrypted, swf, serversig)
    BY <1>3, <2>5 DEF FP9HandShake
  <2>8. answer = [ok |-> TRUE,
                  keys |-> IF encrypted THEN SharedKeys("client", "server") ELSE NoKeys,
                  reply |-> SignedResponse(serversig.digest, "FP", stype)]
    BY <2>5, <2>7 DEF ClientAnswer, Verified, calg
  <2>9. reply = [ok |-> TRUE,
                 keys |-> IF encrypted THEN SharedKeys("server", "client") ELSE NoKeys,
                 reply |-> SignedResponse(clientsig.digest, "FMS", stype)]
    BY <1>2, <1>3, <2>6 DEF ServerAnswer, Verified
  <2>10. Crosswise(SharedKeys("client", "server"), SharedKeys("server", "client"))
    <3>1. {"client", "server"} = {"server", "client"}  OBVIOUS
    <3>. QED BY <3>1 DEF Crosswise, SharedKeys, InitRC4Encryption
  <2>11. Crosswise(NoKeys, NoKeys) /\ SharedKeys("client", "server") # NoKeys
    BY DEF Crosswise, NoKeys, SharedKeys, InitRC4Encryption
  <2>12. answer.ok /\ reply.ok /\ Crosswise(answer.keys, reply.keys)
         /\ (encrypted => answer.keys # NoKeys)
    BY <2>8, <2>9, <2>10, <2>11
  <2>13. ClientAccepts(clientsig, encrypted, swf, serversig, reply.reply)
    BY <2>5, <2>9 DEF ClientAccepts
  <2>14. ServerAccepts(clientsig, serversig, answer.reply)
    BY <1>2, <2>8 DEF ServerAccepts
  <2>. QED BY <1>2, <2>12, <2>13, <2>14 DEF clientsig, serversig
<1>4. CASE ~encrypted /\ ~swf
  <2>1. answer = Unsigned /\ reply = Unsigned
    BY <1>2, <1>4 DEF ClientAnswer, FP9HandShake, ServerAnswer
  <2>2. answer.ok /\ reply.ok /\ Crosswise(answer.keys, reply.keys)
    <3>1. Unsigned.ok /\ Unsigned.keys = NoKeys  BY DEF Unsigned
    <3>2. Crosswise(NoKeys, NoKeys)  BY DEF Crosswise, NoKeys
    <3>. QED BY <2>1, <3>1, <3>2
  <2>3. ClientAccepts(clientsig, encrypted, swf, serversig, reply.reply)
    BY <1>4 DEF ClientAccepts, FP9HandShake
  <2>4. ServerAccepts(clientsig, serversig, answer.reply)
    BY <1>2, <1>4 DEF ServerAccepts
  <2>. QED BY <1>2, <1>4, <2>2, <2>3, <2>4
<1>. QED BY <1>3, <1>4

-----------------------------------------------------------------------------
(* Numbers: commands, the calls that wait, and results.                    *)

\* Commands that are answered by a result or an error.
Replied == {"connect", "createStream", "play", "publish", "releaseStream"}
\* Those upon whose results the client acts by more than a note.
ActedUpon == {"connect", "createStream"}
IsResult(m) == m.kind \in {"_result", "_error"}

\* The number of a command still stands for it: no call of another name has it, and
\* the calls whose results are acted upon are still there.
Meant(calls, txn, name) ==
  /\ \A k \in 1..Len(calls) : calls[k].num = txn => calls[k].name = name
  /\ name \in ActedUpon => \E k \in 1..Len(calls) : calls[k].num = txn

\* Calls have numbers of their own, but those numbered 0.
Numbered(calls, n) ==
  \A k \in 1..Len(calls) :
    /\ calls[k].num \in 0..n
    /\ \A j \in 1..Len(calls) : j # k /\ calls[j].num = calls[k].num => calls[k].num = 0

\* What is asked and what is answered, each under a number of its own.
Asked(calls, n, out) ==
  \A i \in 1..Len(out) : out[i].name \in Replied =>
    /\ out[i].txn \in 1..n /\ Meant(calls, out[i].txn, out[i].name)
    /\ \A j \in 1..Len(out) : j # i /\ out[j].name \in Replied => out[j].txn # out[i].txn
Told(calls, n, msgs) ==
  \A i \in 1..Len(msgs) : IsResult(msgs[i]) =>
    /\ msgs[i].txn \in 1..n /\ Meant(calls, msgs[i].txn, msgs[i].of)
    /\ \A j \in 1..Len(msgs) : j # i /\ IsResult(msgs[j]) => msgs[j].txn # msgs[i].txn
Apart(out, msgs) ==
  \A i \in 1..Len(out), j \in 1..Len(msgs) :
    out[i].name \in Replied /\ IsResult(msgs[j]) => out[i].txn # msgs[j].txn

Numbers(calls, n, out, msgs) ==
  Numbered(calls, n) /\ Asked(calls, n, out) /\ Told(calls, n, msgs) /\ Apart(out, msgs)

\* A message that asks for no result.
LEMMA NumbersPlain ==
  ASSUME NEW calls, NEW n \in Nat, NEW out, NEW msgs, IsSeq(out), NEW m, m.name \notin Replied,
         Numbers(calls, n, out, msgs)
  PROVE  Numbers(calls, n, Append(out, m), msgs)
<1>1. /\ Len(out) \in Nat /\ Len(Append(out, m)) = Len(out) + 1
      /\ \A i \in 1..Len(out) : Append(out, m)[i] = out[i]
      /\ Append(out, m)[Len(out) + 1] = m
  BY AppendIs, SeqFacts
<1>2. \A i \in 1..Len(Append(out, m)) : Append(out, m)[i].name \in Replied =>
        i \in 1..Len(out) /\ Append(out, m)[i] = out[i]
  BY <1>1
<1>. HIDE DEF Replied
<1>3. Asked(calls, n, Append(out, m))
  BY <1>2 DEF Numbers, Asked
<1>4. Apart(Append(out, m), msgs)
  BY <1>2 DEF Numbers, Apart
<1>. QED BY <1>3, <1>4 DEF Numbers

\* A command of the next number, which waits in the calls or not, and which the server
\* gets or not.
Asks(m, calls, n, out, calls2, n2, out2) ==
  /\ IsSeq(calls) /\ IsSeq(out) /\ n \in Nat /\ n2 = n + 1 /\ m.txn = n2
  /\ \/ calls2 = calls /\ m.name \notin ActedUpon
     \/ calls2 = Append(calls, [num |-> n2, name |-> m.name])
  /\ out2 = out \/ out2 = Append(out, m)

\* A command of the next number keeps what is under way apart.
LEMMA NumbersAsk ==
  ASSUME NEW m, NEW calls, NEW n, NEW out, NEW msgs, NEW calls2, NEW n2, NEW out2,
         Asks(m, calls, n, out, calls2, n2, out2), Numbers(calls, n, out, msgs)
  PROVE  Numbers(calls2, n2, out2, msgs)
<1>. DEFINE call == [num |-> n2, name |-> m.name]
<1>0. /\ IsSeq(calls) /\ IsSeq(out) /\ n \in Nat /\ n2 = n + 1 /\ m.txn = n + 1
      /\ \/ calls2 = calls /\ m.name \notin ActedUpon
         \/ calls2 = Append(calls, call)
      /\ out2 = out \/ out2 = Append(out, m)
  BY DEF Asks
<1>1. /\ Len(out) \in Nat /\ Len(Append(out, m)) = Len(out) + 1
      /\ \A i \in 1..Len(out) : Append(out, m)[i] = out[i]
      /\ Append(out, m)[Len(out) + 1] = m
  BY <1>0, AppendIs, SeqFacts
<1>2. /\ Len(calls) \in Nat /\ Len(Append(calls, call)) = Len(calls) + 1
      /\ \A i \in 1..Len(calls) : Append(calls, call)[i] = calls[i]
      /\ Append(calls, call)[Len(calls) + 1] = call
  BY <1>0, AppendIs, SeqFacts
<1>3. call.num = n + 1 /\ call.name = m.name  BY <1>0
<1>. HIDE DEF call
<1>4. /\ \A k \in 1..Len(calls) : k \in 1..Len(calls2) /\ calls2[k] = calls[k]
      /\ \A k \in 1..Len(calls2) :
           \/ k \in 1..Len(calls) /\ calls2[k] = calls[k]
           \/ k = Len(calls) + 1 /\ calls2[k] = call
  BY <1>0, <1>2
<1>5. \A i \in 1..Len(out2) :
        \/ i \in 1..Len(out) /\ out2[i] = out[i]
        \/ i = Len(out) + 1 /\ out2[i] = m
  BY <1>0, <1>1
<1>6. \A k \in 1..Len(calls) : calls[k].num \in 0..n  BY DEF Numbers, Numbered
<1>7. Numbered(calls2, n + 1)
  <2>1. ASSUME NEW k \in 1..Len(calls2) PROVE calls2[k].num \in 0..(n + 1)
    BY <1>0, <1>3, <1>4, <1>6
  <2>2. ASSUME NEW k \in 1..Len(calls2), NEW j \in 1..Len(calls2), j # k,
               calls2[j].num = calls2[k].num
        PROVE  calls2[k].num = 0
    <3>1. CASE k \in 1..Len(calls) /\ calls2[k] = calls[k] /\ j \in 1..Len(calls) /\ calls2[j] = calls[j]
      BY <2>2, <3>1 DEF Numbers, Numbered
    <3>2. CASE ~(k \in 1..Len(calls) /\ calls2[k] = calls[k] /\ j \in 1..Len(calls) /\ calls2[j] = calls[j])
      BY <1>0, <1>3, <1>4, <1>6, <2>2, <3>2
    <3>. QED BY <3>1, <3>2
  <2>. QED BY <2>1, <2>2 DEF Numbered
<1>8. ASSUME NEW txn \in 1..n, NEW name, Meant(calls, txn, name)
      PROVE  Meant(calls2, txn, name)
  <2>1. \A k \in 1..Len(calls2) : calls2[k].num = txn => k \in 1..Len(calls) /\ calls2[k] = calls[k]
    BY <1>0, <1>3, <1>4
  <2>. QED BY <1>4, <1>8, <2>1 DEF Meant
<1>9. m.name \in Replied => Meant(calls2, n + 1, m.name)
  <2>1. \A k \in 1..Len(calls2) : calls2[k].num = n + 1 => calls2[k].name = m.name
    BY <1>0, <1>3, <1>4, <1>6
  <2>2. m.name \in ActedUpon => \E k \in 1..Len(calls2) : calls2[k].num = n + 1
    BY <1>0, <1>2, <1>3
  <2>. QED BY <2>1, <2>2 DEF Meant
<1>10. \A i \in 1..Len(out) : out[i].name \in Replied => out[i].txn \in 1..n
  BY DEF Numbers, Asked
<1>11. \A i \in 1..Len(msgs) : IsResult(msgs[i]) => msgs[i].txn \in 1..n
  BY DEF Numbers, Told
<1>12. Asked(calls2, n + 1, out2)
  <2>1. ASSUME NEW i \in 1..Len(out2), out2[i].name \in Replied
        PROVE  out2[i].txn \in 1..(n + 1) /\ Meant(calls2, out2[i].txn, out2[i].name)
    <3>1. CASE i \in 1..Len(out) /\ out2[i] = out[i]
      BY <1>0, <2>1, <3>1, <1>8, <1>10 DEF Numbers, Asked
    <3>2. CASE out2[i] = m
      BY <1>0, <2>1, <3>2, <1>9
    <3>. QED BY <1>5, <3>1, <3>2
  <2>2. ASSUME NEW i \in 1..Len(out2), out2[i].name \in Replied,
               NEW j \in 1..Len(out2), j # i, out2[j].name \in Replied
        PROVE  out2[j].txn # out2[i].txn
    <3>1. CASE i \in 1..Len(out) /\ out2[i] = out[i] /\ j \in 1..Len(out) /\ out2[j] = out[j]
      BY <2>2, <3>1 DEF Numbers, Asked
    <3>2. CASE ~(i \in 1..Len(out) /\ out2[i] = out[i] /\ j \in 1..Len(out) /\ out2[j] = out[j])
      BY <1>0, <1>5, <1>10, <2>2, <3>2
    <3>. QED BY <3>1, <3>2
  <2>. QED BY <2>1, <2>2 DEF Asked
<1>13. Told(calls2, n + 1, msgs)
  <2>1. \A i \in 1..Len(msgs) : IsResult(msgs[i]) =>
          msgs[i].txn \in 1..(n + 1) /\ Meant(calls2, msgs[i].txn, msgs[i].of)
    BY <1>0, <1>8, <1>11 DEF Numbers, Told
  <2>. QED BY <2>1 DEF Numbers, Told
<1>14. Apart(out2, msgs)
  BY <1>0, <1>5, <1>11, SMTT(60) DEF Numbers, Apart
<1>. QED BY <1>0, <1>7, <1>12, <1>13, <1>14 DEF Numbers

\* A call of number 0.
LEMMA NumbersList ==
  ASSUME NEW calls, NEW n \in Nat, NEW out, NEW msgs, IsSeq(calls), NEW name,
         Numbers(calls, n, out, msgs)
  PROVE  Numbers(Append(calls, [num |-> 0, name |-> name]), n, out, msgs)
<1>. DEFINE call == [num |-> 0, name |-> name]
            calls2 == Append(calls, call)
<1>1. /\ Len(calls) \in Nat /\ Len(calls2) = Len(calls) + 1
      /\ \A i \in 1..Len(calls) : calls2[i] = calls[i]
      /\ calls2[Len(calls) + 1] = call
  BY AppendIs, SeqFacts
<1>2. call.num = 0  OBVIOUS
<1>. HIDE DEF call, calls2
<1>3. Numbered(calls2, n)
  BY <1>1, <1>2, SMTT(60) DEF Numbers, Numbered
<1>4. ASSUME NEW txn \in 1..n, NEW of, Meant(calls, txn, of)
      PROVE  Meant(calls2, txn, of)
  BY <1>1, <1>2, <1>4 DEF Meant
<1>5. Asked(calls2, n, out)
  BY <1>4 DEF Numbers, Asked
<1>6. Told(calls2, n, msgs)
  BY <1>4 DEF Numbers, Told
<1>. QED BY <1>3, <1>5, <1>6 DEF Numbers, calls2, call

\* A call is erased that nothing under way needs.
LEMMA NumbersErase ==
  ASSUME NEW calls, NEW n \in Nat, NEW out, NEW msgs, IsSeq(calls), NEW i \in 1..Len(calls),
         Numbers(calls, n, out, msgs),
         \/ calls[i].name \notin ActedUpon
         \/ /\ \A k \in 1..Len(out) : out[k].name \in Replied => out[k].txn # calls[i].num
            /\ \A k \in 1..Len(msgs) : IsResult(msgs[k]) => msgs[k].txn # calls[i].num
  PROVE  Numbers(RemoveAt(calls, i), n, out, msgs)
<1>. DEFINE calls2 == RemoveAt(calls, i)
            from(k) == IF k < i THEN k ELSE k + 1
<1>1. Len(calls) \in Nat /\ Len(calls2) = Len(calls) - 1  BY RemoveAtIs, SeqFacts
<1>2. \A k \in 1..Len(calls2) : calls2[k] = calls[from(k)]  BY <1>1, RemoveAtIs
<1>3. \A k \in 1..Len(calls2) : from(k) \in 1..Len(calls)
  BY <1>1
<1>4. \A k, j \in 1..Len(calls2) : k # j => from(k) # from(j)
  BY <1>1
<1>5. \A k \in 1..Len(calls) : k # i => \E j \in 1..Len(calls2) : from(j) = k
  <2>1. ASSUME NEW k \in 1..Len(calls), k # i PROVE \E j \in 1..Len(calls2) : from(j) = k
    <3>1. CASE k < i
      <4>1. k \in 1..Len(calls2) /\ from(k) = k  BY <1>1, <3>1
      <4>. QED BY <4>1
    <3>2. CASE ~(k < i)
      <4>1. k - 1 \in 1..Len(calls2) /\ from(k - 1) = k  BY <1>1, <2>1, <3>2
      <4>. QED BY <4>1
    <3>. QED BY <3>1, <3>2
  <2>. QED BY <2>1
<1>. HIDE DEF calls2, from
<1>6. Numbered(calls2, n)
  <2>1. ASSUME NEW k \in 1..Len(calls2) PROVE calls2[k].num \in 0..n
    BY <1>2, <1>3 DEF Numbers, Numbered
  <2>2. ASSUME NEW k \in 1..Len(calls2), NEW j \in 1..Len(calls2), j # k,
               calls2[j].num = calls2[k].num
        PROVE  calls2[k].num = 0
    <3>1. from(j) # from(k) /\ from(j) \in 1..Len(calls) /\ from(k) \in 1..Len(calls)
      BY <1>3, <1>4, <2>2
    <3>. QED BY <1>2, <2>2, <3>1 DEF Numbers, Numbered
  <2>. QED BY <2>1, <2>2 DEF Numbered
<1>7. ASSUME NEW txn, NEW name, Meant(calls, txn, name),
             calls[i].name \notin ActedUpon \/ txn # calls[i].num
      PROVE  Meant(calls2, txn, name)
  <2>1. \A k \in 1..Len(calls2) : calls2[k].num = txn => calls2[k].name = name
    BY <1>2, <1>3, <1>7 DEF Meant
  <2>2. ASSUME name \in ActedUpon PROVE \E k \in 1..Len(calls2) : calls2[k].num = txn
    <3>1. PICK k \in 1..Len(calls) : calls[k].num = txn  BY <1>7, <2>2 DEF Meant
    <3>2. calls[k].name = name  BY <3>1, <1>7 DEF Meant
    <3>3. k # i  BY <1>7, <2>2, <3>1, <3>2
    <3>4. PICK j \in 1..Len(calls2) : from(j) = k  BY <3>3, <1>5
    <3>. QED BY <3>1, <3>4, <1>2
  <2>. QED BY <2>1, <2>2 DEF Meant
<1>8. Asked(calls2, n, out)
  <2>1. ASSUME NEW k \in 1..Len(out), out[k].name \in Replied
        PROVE  Meant(calls2, out[k].txn, out[k].name)
    BY <1>7, <2>1 DEF Numbers, Asked
  <2>. QED BY <2>1 DEF Numbers, Asked
<1>9. Told(calls2, n, msgs)
  <2>1. ASSUME NEW k \in 1..Len(msgs), IsResult(msgs[k])
        PROVE  Meant(calls2, msgs[k].txn, msgs[k].of)
    BY <1>7, <2>1 DEF Numbers, Told
  <2>. QED BY <2>1 DEF Numbers, Told
<1>. QED BY <1>6, <1>8, <1>9 DEF Numbers, calls2

\* Nothing under way that asks or tells.
LEMMA NumbersMute ==
  ASSUME NEW calls, NEW n, NEW out, NEW msgs, Numbers(calls, n, out, msgs),
         NEW msgs2, \A i \in 1..Len(msgs2) : ~IsResult(msgs2[i])
  PROVE  Numbers(calls, n, out, msgs2)
BY DEF Numbers, Told, Apart

\* Whatever is under way to the server, if it asks for no result.
LEMMA NumbersUnasked ==
  ASSUME NEW calls, NEW n, NEW out, NEW msgs, Numbers(calls, n, out, msgs),
         NEW out2, \A i \in 1..Len(out2) : out2[i].name \notin Replied
  PROVE  Numbers(calls, n, out2, msgs)
BY DEF Numbers, Asked, Apart

\* A new connection begins with no call and nothing asked or told.
LEMMA NumbersNew ==
  ASSUME NEW out, NEW msgs, \A i \in 1..Len(out) : out[i].name \notin Replied,
         \A i \in 1..Len(msgs) : ~IsResult(msgs[i])
  PROVE  Numbers(<<>>, 0, out, msgs)
<1>1. Numbered(<<>>, 0)  BY EmptyIs DEF Numbered
<1>. QED BY <1>1 DEF Numbers, Asked, Told, Apart

\* The server takes a message; the client takes one.
LEMMA NumbersTaken ==
  ASSUME NEW calls, NEW n, NEW out, NEW msgs, Numbers(calls, n, out, msgs),
         IsSeq(out), out # <<>>
  PROVE  Numbers(calls, n, Tail(out), msgs)
<1>1. /\ Len(Tail(out)) = Len(out) - 1 /\ Len(out) \in Nat
      /\ \A i \in 1..Len(Tail(out)) : Tail(out)[i] = out[i + 1] /\ i + 1 \in 1..Len(out)
  BY TailIs, SeqFacts
<1>2. Asked(calls, n, Tail(out))
  <2>1. ASSUME NEW i \in 1..Len(Tail(out)), Tail(out)[i].name \in Replied
        PROVE  /\ Tail(out)[i].txn \in 1..n /\ Meant(calls, Tail(out)[i].txn, Tail(out)[i].name)
               /\ \A j \in 1..Len(Tail(out)) :
                    j # i /\ Tail(out)[j].name \in Replied => Tail(out)[j].txn # Tail(out)[i].txn
    <3>1. i + 1 \in 1..Len(out) /\ Tail(out)[i] = out[i + 1]  BY <1>1
    <3>2. \A j \in 1..Len(Tail(out)) : j # i =>
            j + 1 # i + 1 /\ j + 1 \in 1..Len(out) /\ Tail(out)[j] = out[j + 1]
      BY <1>1
    <3>. QED BY <2>1, <3>1, <3>2 DEF Numbers, Asked
  <2>. QED BY <2>1 DEF Asked
<1>3. Apart(Tail(out), msgs)
  BY <1>1 DEF Numbers, Apart
<1>. QED BY <1>2, <1>3 DEF Numbers

\* The client takes a message: a result is for a command nothing else is for.
LEMMA NumbersHeard ==
  ASSUME NEW calls, NEW n, NEW out, NEW msgs, Numbers(calls, n, out, msgs),
         IsSeq(msgs), msgs # <<>>
  PROVE  /\ Numbers(calls, n, out, Tail(msgs))
         /\ IsResult(Head(msgs)) =>
              /\ Head(msgs).txn \in 1..n /\ Meant(calls, Head(msgs).txn, Head(msgs).of)
              /\ \A i \in 1..Len(out) : out[i].name \in Replied => out[i].txn # Head(msgs).txn
              /\ \A i \in 1..Len(Tail(msgs)) :
                   IsResult(Tail(msgs)[i]) => Tail(msgs)[i].txn # Head(msgs).txn
<1>1. /\ Len(Tail(msgs)) = Len(msgs) - 1 /\ Len(msgs) \in Nat
      /\ \A i \in 1..Len(Tail(msgs)) :
           Tail(msgs)[i] = msgs[i + 1] /\ i + 1 \in 1..Len(msgs) /\ i + 1 # 1
      /\ Head(msgs) = msgs[1] /\ 1 \in 1..Len(msgs)
  BY TailIs, SeqFacts
<1>2. Told(calls, n, Tail(msgs))
  <2>1. ASSUME NEW i \in 1..Len(Tail(msgs)), IsResult(Tail(msgs)[i])
        PROVE  /\ Tail(msgs)[i].txn \in 1..n /\ Meant(calls, Tail(msgs)[i].txn, Tail(msgs)[i].of)
               /\ \A j \in 1..Len(Tail(msgs)) :
                    j # i /\ IsResult(Tail(msgs)[j]) => Tail(msgs)[j].txn # Tail(msgs)[i].txn
    <3>1. i + 1 \in 1..Len(msgs) /\ Tail(msgs)[i] = msgs[i + 1]  BY <1>1
    <3>2. \A j \in 1..Len(Tail(msgs)) : j # i =>
            j + 1 # i + 1 /\ j + 1 \in 1..Len(msgs) /\ Tail(msgs)[j] = msgs[j + 1]
      BY <1>1
    <3>. QED BY <2>1, <3>1, <3>2 DEF Numbers, Told
  <2>. QED BY <2>1 DEF Told
<1>3. Apart(out, Tail(msgs))
  BY <1>1 DEF Numbers, Apart
<1>4. ASSUME IsResult(Head(msgs))
      PROVE  /\ Head(msgs).txn \in 1..n /\ Meant(calls, Head(msgs).txn, Head(msgs).of)
             /\ \A i \in 1..Len(out) : out[i].name \in Replied => out[i].txn # Head(msgs).txn
             /\ \A i \in 1..Len(Tail(msgs)) :
                  IsResult(Tail(msgs)[i]) => Tail(msgs)[i].txn # Head(msgs).txn
  BY <1>1, <1>4 DEF Numbers, Told, Apart
<1>. QED BY <1>2, <1>3, <1>4 DEF Numbers

\* The server says something that is no result.
LEMMA NumbersSaid ==
  ASSUME NEW calls, NEW n, NEW out, NEW msgs, Numbers(calls, n, out, msgs),
         IsSeq(msgs), NEW m, ~IsResult(m)
  PROVE  Numbers(calls, n, out, Append(msgs, m))
<1>1. \A i \in 1..Len(Append(msgs, m)) : IsResult(Append(msgs, m)[i]) =>
        i \in 1..Len(msgs) /\ Append(msgs, m)[i] = msgs[i]
  BY AppendIs, SeqFacts
<1>. QED BY <1>1 DEF Numbers, Told, Apart

\* The server answers a command, with one result at most, that is for this command.
LEMMA NumbersServed ==
  ASSUME NEW calls, NEW n, NEW out, NEW msgs, Numbers(calls, n, out, msgs),
         IsSeq(out), out # <<>>, IsSeq(msgs), NEW replies, IsSeq(replies),
         \A i \in 1..Len(replies) : IsResult(replies[i]) =>
           /\ Head(out).name \in Replied /\ replies[i].txn = Head(out).txn
           /\ replies[i].of = Head(out).name
           /\ \A j \in 1..Len(replies) : IsResult(replies[j]) => i = j
  PROVE  Numbers(calls, n, Tail(out), msgs \o replies)
<1>. DEFINE all == msgs \o replies
<1>1. Numbers(calls, n, Tail(out), msgs)  BY NumbersTaken
<1>2. /\ Len(Tail(out)) = Len(out) - 1 /\ Len(out) \in Nat
      /\ \A i \in 1..Len(Tail(out)) :
           Tail(out)[i] = out[i + 1] /\ i + 1 \in 1..Len(out) /\ i + 1 # 1
      /\ Head(out) = out[1] /\ 1 \in 1..Len(out)
  BY TailIs, SeqFacts
<1>3. /\ Len(msgs) \in Nat /\ Len(replies) \in Nat /\ Len(all) = Len(msgs) + Len(replies)
      /\ \A i \in 1..Len(all) : all[i] = IF i <= Len(msgs) THEN msgs[i] ELSE replies[i - Len(msgs)]
  BY ConcatIs, SeqFacts
<1>. HIDE DEF all
<1>4. \A i \in 1..Len(all) :
        \/ i \in 1..Len(msgs) /\ all[i] = msgs[i]
        \/ i - Len(msgs) \in 1..Len(replies) /\ all[i] = replies[i - Len(msgs)]
  BY <1>3
<1>5. ASSUME NEW i \in 1..Len(all), IsResult(all[i])
      PROVE  \/ /\ i \in 1..Len(msgs) /\ all[i] = msgs[i]
                /\ Head(out).name \in Replied => all[i].txn # Head(out).txn
             \/ /\ i - Len(msgs) \in 1..Len(replies) /\ all[i] = replies[i - Len(msgs)]
                /\ all[i].txn = Head(out).txn /\ all[i].of = Head(out).name
                /\ Head(out).name \in Replied
  <2>1. CASE i \in 1..Len(msgs) /\ all[i] = msgs[i]
    BY <1>2, <1>5, <2>1 DEF Numbers, Apart
  <2>2. CASE i - Len(msgs) \in 1..Len(replies) /\ all[i] = replies[i - Len(msgs)]
    BY <1>5, <2>2
  <2>. QED BY <1>4, <2>1, <2>2
<1>6. ASSUME NEW i \in 1..Len(all), IsResult(all[i])
      PROVE  all[i].txn \in 1..n /\ Meant(calls, all[i].txn, all[i].of)
  <2>1. CASE i \in 1..Len(msgs) /\ all[i] = msgs[i]
    BY <1>6, <2>1 DEF Numbers, Told
  <2>2. CASE all[i].txn = Head(out).txn /\ all[i].of = Head(out).name /\ Head(out).name \in Replied
    BY <1>2, <2>2 DEF Numbers, Asked
  <2>. QED BY <1>5, <1>6, <2>1, <2>2
<1>7. ASSUME NEW i \in 1..Len(all), IsResult(all[i]), NEW j \in 1..Len(all), j # i, IsResult(all[j])
      PROVE  all[j].txn # all[i].txn
  <2>1. CASE i \in 1..Len(msgs) /\ j \in 1..Len(msgs)
    <3>1. all[i] = msgs[i] /\ all[j] = msgs[j]  BY <1>3, <2>1
    <3>. QED BY <1>7, <2>1, <3>1 DEF Numbers, Told
  <2>2. CASE i \notin 1..Len(msgs) /\ j \notin 1..Len(msgs)
    <3>1. /\ i - Len(msgs) \in 1..Len(replies) /\ all[i] = replies[i - Len(msgs)]
          /\ j - Len(msgs) \in 1..Len(replies) /\ all[j] = replies[j - Len(msgs)]
      BY <1>4, <2>2
    <3>2. i - Len(msgs) = j - Len(msgs)  BY <1>7, <3>1
    <3>. QED BY <1>3, <1>7, <3>2
  <2>3. CASE i \in 1..Len(msgs) /\ j \notin 1..Len(msgs)
    BY <1>5, <1>7, <2>3
  <2>4. CASE i \notin 1..Len(msgs) /\ j \in 1..Len(msgs)
    BY <1>5, <1>7, <2>4
  <2>. QED BY <2>1, <2>2, <2>3, <2>4
<1>8. Told(calls, n, all)  BY <1>6, <1>7 DEF Told
<1>9. Apart(Tail(out), all)
  <2>1. ASSUME NEW i \in 1..Len(Tail(out)), NEW j \in 1..Len(all),
               Tail(out)[i].name \in Replied, IsResult(all[j])
        PROVE  Tail(out)[i].txn # all[j].txn
    <3>1. CASE j \in 1..Len(msgs) /\ all[j] = msgs[j]
      BY <1>1, <2>1, <3>1 DEF Numbers, Apart
    <3>2. CASE all[j].txn = Head(out).txn /\ Head(out).name \in Replied
      BY <1>2, <2>1, <3>2 DEF Numbers, Asked
    <3>. QED BY <1>5, <2>1, <3>1, <3>2
  <2>. QED BY <2>1 DEF Apart
<1>. QED BY <1>1, <1>8, <1>9 DEF Numbers, all

-----------------------------------------------------------------------------
(* Streams: commands for a stream come while it exists at the server.      *)

Touches(m) ==
  \/ m.name \in {"play", "publish", "set_playlist", "media", "deleteStream"}
  \/ m.name = "ctrl" /\ m.txn = 3 /\ m.stream # 0
Touched(m) == IF m.name = "deleteStream" THEN m.v ELSE m.stream
Deletes(m, s) == m.name = "deleteStream" /\ m.v = s
Creates(m) == m.kind = "_result" /\ m.of = "createStream"

\* A stream that will still exist when all that is under way has arrived.
Alive(out, s, alive) == s \in alive /\ \A j \in 1..Len(out) : ~Deletes(out[j], s)

Obeyed(out, alive) ==
  \A i \in 1..Len(out) :
    /\ Touches(out[i]) => /\ Touched(out[i]) \in alive
                          /\ \A j \in 1..(i - 1) : ~Deletes(out[j], Touched(out[i]))
    /\ out[i].name = "ctrl" /\ out[i].txn = 27 => out[i].stream = 1

\* The client's stream, and those it is told of: each once.
Held(stream, out, msgs, alive) ==
  /\ stream > 0 => Alive(out, stream, alive)
  /\ \A i \in 1..Len(msgs) : Creates(msgs[i]) =>
       /\ Alive(out, msgs[i].v, alive) /\ msgs[i].v # stream
       /\ \A j \in 1..Len(msgs) : j # i /\ Creates(msgs[j]) => msgs[j].v # msgs[i].v

\* A command is sent for a stream that is alive when it arrives.
LEMMA ObeyedSent ==
  ASSUME NEW out, NEW alive, IsSeq(out), Obeyed(out, alive), NEW m,
         Touches(m) => Alive(out, Touched(m), alive),
         m.name = "ctrl" /\ m.txn = 27 => m.stream = 1
  PROVE  Obeyed(Append(out, m), alive)
<1>1. /\ Len(out) \in Nat /\ Len(Append(out, m)) = Len(out) + 1
      /\ \A i \in 1..Len(out) : Append(out, m)[i] = out[i]
      /\ Append(out, m)[Len(out) + 1] = m
  BY AppendIs, SeqFacts
<1>. DEFINE out2 == Append(out, m)
<1>. HIDE DEF out2
<1>2. ASSUME NEW i \in 1..Len(out2)
      PROVE  /\ Touches(out2[i]) => /\ Touched(out2[i]) \in alive
                                    /\ \A j \in 1..(i - 1) : ~Deletes(out2[j], Touched(out2[i]))
             /\ out2[i].name = "ctrl" /\ out2[i].txn = 27 => out2[i].stream = 1
  <2>1. \A j \in 1..(i - 1) : j \in 1..Len(out) /\ out2[j] = out[j]
    BY <1>1, <1>2 DEF out2
  <2>2. CASE i \in 1..Len(out)
    <3>1. out2[i] = out[i]  BY <1>1, <2>2 DEF out2
    <3>. QED BY <2>1, <2>2, <3>1 DEF Obeyed
  <2>3. CASE i = Len(out) + 1
    <3>1. out2[i] = m  BY <1>1, <2>3 DEF out2
    <3>. QED BY <2>1, <2>3, <3>1 DEF Alive
  <2>. QED BY <1>1, <1>2, <2>2, <2>3 DEF out2
<1>. QED BY <1>2 DEF Obeyed, out2

\* A stream stays alive over a message that does not delete it.
LEMMA AliveSent ==
  ASSUME NEW out, NEW s, NEW alive, IsSeq(out), Alive(out, s, alive), NEW m, ~Deletes(m, s)
  PROVE  Alive(Append(out, m), s, alive)
<1>1. /\ Len(out) \in Nat /\ Len(Append(out, m)) = Len(out) + 1
      /\ \A i \in 1..Len(out) : Append(out, m)[i] = out[i]
      /\ Append(out, m)[Len(out) + 1] = m
  BY AppendIs, SeqFacts
<1>. QED BY <1>1 DEF Alive

\* The streams the client has or is told of stay alive over such a message.
LEMMA HeldSent ==
  ASSUME NEW stream \in Int, NEW out, NEW msgs, NEW alive, IsSeq(out), Held(stream, out, msgs, alive),
         NEW m, m.name # "deleteStream"
  PROVE  Held(stream, Append(out, m), msgs, alive)
<1>1. \A s : Alive(out, s, alive) => Alive(Append(out, m), s, alive)
  BY AliveSent DEF Deletes
<1>. QED BY <1>1 DEF Held

\* The client deletes its stream: those it is told of are others.
LEMMA HeldDeleted ==
  ASSUME NEW stream \in Int, NEW out, NEW msgs, NEW alive, IsSeq(out), Held(stream, out, msgs, alive),
         NEW m, m.v = stream, alive \subseteq Nat \ {0}
  PROVE  Held(-1, Append(out, m), msgs, alive)
<1>1. \A s : Alive(out, s, alive) /\ s # stream => Alive(Append(out, m), s, alive)
  BY AliveSent DEF Deletes
<1>2. \A s : Alive(out, s, alive) => s # -1
  BY DEF Alive
<1>. QED BY <1>1, <1>2 DEF Held

\* The client takes a message: a stream it is told of may become its own.
LEMMA HeldHeard ==
  ASSUME NEW stream \in Int, NEW out, NEW msgs, NEW alive, Held(stream, out, msgs, alive),
         IsSeq(msgs), msgs # <<>>
  PROVE  /\ Held(stream, out, Tail(msgs), alive)
         /\ Creates(Head(msgs)) => /\ Alive(out, Head(msgs).v, alive)
                                   /\ Held(Head(msgs).v, out, Tail(msgs), alive)
<1>1. /\ Len(Tail(msgs)) = Len(msgs) - 1 /\ Len(msgs) \in Nat
      /\ \A i \in 1..Len(Tail(msgs)) :
           Tail(msgs)[i] = msgs[i + 1] /\ i + 1 \in 1..Len(msgs) /\ i + 1 # 1
      /\ Head(msgs) = msgs[1] /\ 1 \in 1..Len(msgs)
  BY TailIs, SeqFacts
<1>2. ASSUME NEW i \in 1..Len(Tail(msgs)), Creates(Tail(msgs)[i])
      PROVE  /\ Alive(out, Tail(msgs)[i].v, alive) /\ Tail(msgs)[i].v # stream
             /\ Creates(Head(msgs)) => Tail(msgs)[i].v # Head(msgs).v
             /\ \A j \in 1..Len(Tail(msgs)) :
                  j # i /\ Creates(Tail(msgs)[j]) => Tail(msgs)[j].v # Tail(msgs)[i].v
  <2>1. i + 1 \in 1..Len(msgs) /\ Tail(msgs)[i] = msgs[i + 1] /\ i + 1 # 1  BY <1>1
  <2>2. \A j \in 1..Len(Tail(msgs)) : j # i =>
          j + 1 # i + 1 /\ j + 1 \in 1..Len(msgs) /\ Tail(msgs)[j] = msgs[j + 1]
    BY <1>1
  <2>. QED BY <1>1, <1>2, <2>1, <2>2 DEF Held
<1>3. Held(stream, out, Tail(msgs), alive)
  BY <1>2 DEF Held
<1>4. ASSUME Creates(Head(msgs)) PROVE Alive(out, Head(msgs).v, alive)
  BY <1>1, <1>4 DEF Held
<1>5. ASSUME Creates(Head(msgs)) PROVE Held(Head(msgs).v, out, Tail(msgs), alive)
  BY <1>2, <1>4, <1>5 DEF Held
<1>. QED BY <1>3, <1>4, <1>5

\* The server says something that names no stream.
LEMMA HeldSaid ==
  ASSUME NEW stream \in Int, NEW out, NEW msgs, NEW alive, Held(stream, out, msgs, alive),
         IsSeq(msgs), NEW m, ~Creates(m)
  PROVE  Held(stream, out, Append(msgs, m), alive)
<1>1. \A i \in 1..Len(Append(msgs, m)) : Creates(Append(msgs, m)[i]) =>
        i \in 1..Len(msgs) /\ Append(msgs, m)[i] = msgs[i]
  BY AppendIs, SeqFacts
<1>. QED BY <1>1 DEF Held

\* Whatever is under way to the client, if it names no stream.
LEMMA HeldMute ==
  ASSUME NEW stream, NEW out, NEW msgs, NEW alive, Held(stream, out, msgs, alive),
         NEW msgs2, \A i \in 1..Len(msgs2) : ~Creates(msgs2[i])
  PROVE  Held(stream, out, msgs2, alive)
BY DEF Held

\* What is under way to the server is lost.
LEMMA HeldLost ==
  ASSUME NEW stream, NEW out, NEW msgs, NEW alive, Held(stream, out, msgs, alive)
  PROVE  Held(stream, <<>>, msgs, alive) /\ Obeyed(<<>>, alive)
BY EmptyIs DEF Held, Alive, Obeyed

\* The server obeys a command: a stream it deletes or creates apart, all stay alive.
LEMMA ObeyedServed ==
  ASSUME NEW out, NEW alive, IsSeq(out), out # <<>>, Obeyed(out, alive),
         NEW alive2, \A s \in alive : Deletes(Head(out), s) \/ s \in alive2
  PROVE  /\ Obeyed(Tail(out), alive2)
         /\ \A s : Alive(out, s, alive) => Alive(Tail(out), s, alive2)
<1>1. /\ Len(Tail(out)) = Len(out) - 1 /\ Len(out) \in Nat
      /\ \A i \in 1..Len(Tail(out)) :
           Tail(out)[i] = out[i + 1] /\ i + 1 \in 1..Len(out) /\ i + 1 # 1
      /\ Head(out) = out[1] /\ 1 \in 1..Len(out)
  BY TailIs, SeqFacts
<1>2. ASSUME NEW i \in 1..Len(Tail(out))
      PROVE  /\ Touches(Tail(out)[i]) =>
                  /\ Touched(Tail(out)[i]) \in alive2
                  /\ \A j \in 1..(i - 1) : ~Deletes(Tail(out)[j], Touched(Tail(out)[i]))
             /\ Tail(out)[i].name = "ctrl" /\ Tail(out)[i].txn = 27 => Tail(out)[i].stream = 1
  <2>1. i + 1 \in 1..Len(out) /\ Tail(out)[i] = out[i + 1] /\ 1 \in 1..((i + 1) - 1)  BY <1>1
  <2>2. \A j \in 1..(i - 1) : j + 1 \in 1..((i + 1) - 1) /\ Tail(out)[j] = out[j + 1]
    BY <1>1
  <2>. QED BY <1>1, <2>1, <2>2 DEF Obeyed
<1>3. ASSUME NEW s, Alive(out, s, alive) PROVE Alive(Tail(out), s, alive2)
  BY <1>1, <1>3 DEF Alive
<1>. QED BY <1>2, <1>3 DEF Obeyed

\* The server obeys and answers: a stream it creates is a new one.
LEMMA HeldServed ==
  ASSUME NEW stream \in Int, NEW out, NEW msgs, NEW alive, Held(stream, out, msgs, alive),
         IsSeq(out), out # <<>>, IsSeq(msgs), Obeyed(out, alive), alive \subseteq Nat \ {0},
         NEW alive2, \A s \in alive : Deletes(Head(out), s) \/ s \in alive2,
         NEW replies, IsSeq(replies),
         \A i \in 1..Len(replies) : Creates(replies[i]) =>
           /\ replies[i].v \in Nat \ {0} /\ replies[i].v \in alive2 \ alive
           /\ \A j \in 1..Len(replies) : Creates(replies[j]) => i = j
  PROVE  Held(stream, Tail(out), msgs \o replies, alive2)
<1>. DEFINE all == msgs \o replies
<1>1. /\ Len(Tail(out)) = Len(out) - 1 /\ Len(out) \in Nat
      /\ \A i \in 1..Len(Tail(out)) : Tail(out)[i] = out[i + 1] /\ i + 1 \in 1..Len(out)
  BY TailIs, SeqFacts
<1>2. /\ Len(msgs) \in Nat /\ Len(replies) \in Nat /\ Len(all) = Len(msgs) + Len(replies)
      /\ \A i \in 1..Len(all) : all[i] = IF i <= Len(msgs) THEN msgs[i] ELSE replies[i - Len(msgs)]
  BY ConcatIs, SeqFacts
<1>. HIDE DEF all
<1>3. \A i \in 1..Len(all) :
        \/ i \in 1..Len(msgs) /\ all[i] = msgs[i]
        \/ i - Len(msgs) \in 1..Len(replies) /\ all[i] = replies[i - Len(msgs)]
  BY <1>2
<1>4. \A s : Alive(out, s, alive) => s \in alive /\ Alive(Tail(out), s, alive2)
  BY ObeyedServed DEF Alive
<1>5. ASSUME NEW v \in alive2 \ alive PROVE Alive(Tail(out), v, alive2)
  <2>1. \A i \in 1..Len(out) : out[i].name = "deleteStream" => out[i].v \in alive
    BY DEF Obeyed, Touches, Touched
  <2>. QED BY <1>1, <2>1 DEF Alive, Deletes
<1>6. ASSUME NEW i \in 1..Len(all), Creates(all[i])
      PROVE  Alive(Tail(out), all[i].v, alive2) /\ all[i].v # stream
  <2>1. CASE i \in 1..Len(msgs) /\ all[i] = msgs[i]
    BY <1>4, <1>6, <2>1 DEF Held
  <2>2. CASE i - Len(msgs) \in 1..Len(replies) /\ all[i] = replies[i - Len(msgs)]
    <3>1. all[i].v \in Nat \ {0} /\ all[i].v \in alive2 \ alive  BY <1>6, <2>2
    <3>2. stream > 0 => stream \in alive  BY <1>4 DEF Held
    <3>. QED BY <1>5, <3>1, <3>2
  <2>. QED BY <1>3, <2>1, <2>2
<1>7. ASSUME NEW i \in 1..Len(all), Creates(all[i]), NEW j \in 1..Len(all), j # i, Creates(all[j])
      PROVE  all[j].v # all[i].v
  <2>1. CASE i \in 1..Len(msgs) /\ j \in 1..Len(msgs)
    <3>1. all[i] = msgs[i] /\ all[j] = msgs[j]  BY <1>2, <2>1
    <3>. QED BY <1>7, <2>1, <3>1 DEF Held
  <2>2. CASE i \notin 1..Len(msgs) /\ j \notin 1..Len(msgs)
    <3>1. /\ i - Len(msgs) \in 1..Len(replies) /\ all[i] = replies[i - Len(msgs)]
          /\ j - Len(msgs) \in 1..Len(replies) /\ all[j] = replies[j - Len(msgs)]
      BY <1>3, <2>2
    <3>2. i - Len(msgs) = j - Len(msgs)  BY <1>7, <3>1
    <3>. QED BY <1>2, <1>7, <3>2
  <2>3. ASSUME NEW k \in 1..Len(all), k \in 1..Len(msgs), Creates(all[k]) PROVE all[k].v \in alive
    <3>1. all[k] = msgs[k]  BY <1>2, <2>3
    <3>. QED BY <1>4, <2>3, <3>1 DEF Held
  <2>4. ASSUME NEW k \in 1..Len(all), k \notin 1..Len(msgs), Creates(all[k]) PROVE all[k].v \notin alive
    <3>1. k - Len(msgs) \in 1..Len(replies) /\ all[k] = replies[k - Len(msgs)]  BY <1>3, <2>4
    <3>. QED BY <2>4, <3>1
  <2>. QED BY <1>7, <2>1, <2>2, <2>3, <2>4
<1>8. stream > 0 => Alive(Tail(out), stream, alive2)  BY <1>4 DEF Held
<1>. QED BY <1>6, <1>7, <1>8 DEF Held, all

-----------------------------------------------------------------------------
(* A publisher: it plays only what it has a stream for.                    *)

Publishing == {"play", "publish"}
Begins(m) == m.kind = "onStatus" /\ m.code \in Started \cup {"NetStream.Publish.Start"}

Publisher(playing, stream, calls, out, msgs) ==
  options.write /\ ~(stream > 0) =>
    /\ ~playing
    /\ \A k \in 1..Len(calls) : calls[k].name \notin Publishing
    /\ \A i \in 1..Len(out) : out[i].name \notin Publishing
    /\ \A i \in 1..Len(msgs) : ~Begins(msgs[i])

\* A publisher plays or publishes only with a stream.
LEMMA PublisherAsks ==
  ASSUME NEW playing, NEW stream, NEW calls, NEW out, NEW msgs,
         Publisher(playing, stream, calls, out, msgs), IsSeq(calls), IsSeq(out),
         NEW m, NEW call, stream > 0 \/ (m.name \notin Publishing /\ call.name \notin Publishing),
         NEW calls2, calls2 = calls \/ calls2 = Append(calls, call),
         NEW out2, out2 = out \/ out2 = Append(out, m)
  PROVE  Publisher(playing, stream, calls2, out2, msgs)
<1>1. \A i \in 1..Len(out2) : out2[i] = m \/ (i \in 1..Len(out) /\ out2[i] = out[i])
  BY AppendIs, SeqFacts
<1>2. \A k \in 1..Len(calls2) : calls2[k] = call \/ (k \in 1..Len(calls) /\ calls2[k] = calls[k])
  BY AppendIs, SeqFacts
<1>. QED BY <1>1, <1>2 DEF Publisher

\* A call is erased.
LEMMA PublisherErases ==
  ASSUME NEW playing, NEW stream, NEW calls, NEW out, NEW msgs,
         Publisher(playing, stream, calls, out, msgs), IsSeq(calls), NEW i \in 1..Len(calls)
  PROVE  Publisher(playing, stream, RemoveAt(calls, i), out, msgs)
<1>1. Len(calls) \in Nat  BY SeqFacts
<1>2. \A k \in 1..Len(RemoveAt(calls, i)) : \E j \in 1..Len(calls) : RemoveAt(calls, i)[k] = calls[j]
  <2>1. /\ Len(RemoveAt(calls, i)) = Len(calls) - 1
        /\ \A k \in 1..(Len(calls) - 1) : RemoveAt(calls, i)[k] = IF k < i THEN calls[k] ELSE calls[k + 1]
    BY RemoveAtIs
  <2>2. \A k \in 1..(Len(calls) - 1) : k \in 1..Len(calls) /\ k + 1 \in 1..Len(calls)  BY <1>1
  <2>. QED BY <2>1, <2>2
<1>. QED BY <1>2 DEF Publisher

\* The client takes a message: a beginning comes only to one with a stream.
LEMMA PublisherHears ==
  ASSUME NEW playing, NEW stream, NEW calls, NEW out, NEW msgs,
         Publisher(playing, stream, calls, out, msgs), IsSeq(msgs), msgs # <<>>
  PROVE  /\ Publisher(playing, stream, calls, out, Tail(msgs))
         /\ options.write /\ Begins(Head(msgs)) => stream > 0
<1>1. /\ \A i \in 1..Len(Tail(msgs)) : Tail(msgs)[i] = msgs[i + 1] /\ i + 1 \in 1..Len(msgs)
      /\ Head(msgs) = msgs[1] /\ 1 \in 1..Len(msgs)
  BY TailIs, SeqFacts
<1>. QED BY <1>1 DEF Publisher

\* The server says something that begins nothing.
LEMMA PublisherSaid ==
  ASSUME NEW playing, NEW stream, NEW calls, NEW out, NEW msgs,
         Publisher(playing, stream, calls, out, msgs), IsSeq(msgs), NEW m, ~Begins(m)
  PROVE  Publisher(playing, stream, calls, out, Append(msgs, m))
<1>1. \A i \in 1..Len(Append(msgs, m)) :
        Append(msgs, m)[i] = m \/ (i \in 1..Len(msgs) /\ Append(msgs, m)[i] = msgs[i])
  BY AppendIs, SeqFacts
<1>. QED BY <1>1 DEF Publisher

\* Whatever is under way to the client, if it begins nothing.
LEMMA PublisherMute ==
  ASSUME NEW playing, NEW stream, NEW calls, NEW out, NEW msgs,
         Publisher(playing, stream, calls, out, msgs),
         NEW msgs2, \A i \in 1..Len(msgs2) : ~Begins(msgs2[i])
  PROVE  Publisher(playing, stream, calls, out, msgs2)
BY DEF Publisher

\* What is under way to the server is lost.
LEMMA PublisherLost ==
  ASSUME NEW playing, NEW stream, NEW calls, NEW out, NEW msgs,
         Publisher(playing, stream, calls, out, msgs)
  PROVE  Publisher(playing, stream, calls, <<>>, msgs)
BY EmptyIs DEF Publisher

\* The server obeys and answers: it begins only what it is asked to.
LEMMA PublisherServed ==
  ASSUME NEW playing, NEW stream, NEW calls, NEW out, NEW msgs,
         Publisher(playing, stream, calls, out, msgs), IsSeq(out), out # <<>>, IsSeq(msgs),
         NEW replies, IsSeq(replies),
         Head(out).name \notin Publishing => \A i \in 1..Len(replies) : ~Begins(replies[i])
  PROVE  Publisher(playing, stream, calls, Tail(out), msgs \o replies)
<1>1. /\ \A i \in 1..Len(Tail(out)) : Tail(out)[i] = out[i + 1] /\ i + 1 \in 1..Len(out)
      /\ Head(out) = out[1] /\ 1 \in 1..Len(out)
  BY TailIs, SeqFacts
<1>2. /\ Len(msgs) \in Nat /\ Len(replies) \in Nat /\ Len(msgs \o replies) = Len(msgs) + Len(replies)
      /\ \A i \in 1..(Len(msgs) + Len(replies)) :
           (msgs \o replies)[i] = IF i <= Len(msgs) THEN msgs[i] ELSE replies[i - Len(msgs)]
  BY ConcatIs, SeqFacts
<1>3. \A i \in 1..Len(msgs \o replies) :
        \/ i \in 1..Len(msgs) /\ (msgs \o replies)[i] = msgs[i]
        \/ i - Len(msgs) \in 1..Len(replies) /\ (msgs \o replies)[i] = replies[i - Len(msgs)]
  BY <1>2
<1>. QED BY <1>1, <1>3 DEF Publisher

-----------------------------------------------------------------------------
(* The client between two messages, and in a handler.                      *)

Fields == {"socket", "stream", "playing", "calls", "invokes", "checks", "pausing", "pauseStamp",
           "mediaStamp", "mediaChannel", "stamps", "auth", "hand", "keys", "swf"}

Typed(c) ==
  /\ DOMAIN c = Fields
  /\ c.socket \in BOOLEAN /\ c.playing \in BOOLEAN
  /\ c.invokes \in Nat /\ IsSeq(c.calls) /\ c.stream \in Int

\* What a connection leaves behind.
Shut(c) == /\ c.calls = <<>> /\ c.invokes = 0 /\ c.stream = -1
           /\ options.write => ~c.playing

Whole(c, out, msgs, alive) ==
  /\ Typed(c) /\ IsSeq(out) /\ IsSeq(msgs) /\ alive \subseteq Nat \ {0}
  /\ Obeyed(out, alive)
  /\ ~c.socket => Shut(c)
  /\ c.socket => /\ c.stream # 0
                 /\ Numbers(c.calls, c.invokes, out, msgs)
                 /\ Held(c.stream, out, msgs, alive)
                 /\ Publisher(c.playing, c.stream, c.calls, out, msgs)

\* The first messages of a connection; handlers send others, behind what is there.
Opens(m) == m.name \in {"C1", "C2"}
Extends(s, t) ==
  /\ Len(s) <= Len(t)
  /\ \A i \in 1..Len(s) : t[i] = s[i]
  /\ \A i \in 1..Len(t) : i > Len(s) => ~Opens(t[i])

\* A handler's q; g is what it begins with: the messages behind the one it handles, the
\* streams alive, the messages to the server, the keys and the SWF hash.
Handled == {"c", "out", "ret", "again"}
Good(q, g) ==
  /\ DOMAIN q = Handled
  /\ q.again \in BOOLEAN /\ (q.again => ~q.c.socket)
  /\ Whole(q.c, q.out, g.msgs, g.alive)
  /\ Extends(g.base, q.out) /\ IsSeq(g.base)
  /\ q.c.swf = g.swf /\ (q.c.socket => q.c.keys = g.keys)

\* What CloseInternal leaves of the client.
LEMMA ClosedIs ==
  ASSUME NEW c, DOMAIN c = Fields
  PROVE  /\ Typed(Closed(c)) /\ Shut(Closed(c)) /\ ~Closed(c).socket
         /\ Closed(c).swf = c.swf
<1>. DEFINE d == Closed(c)
<1>1. /\ DOMAIN d = Fields
      /\ d.socket \in BOOLEAN /\ ~d.socket /\ d.stream = -1 /\ d.calls = <<>> /\ d.invokes = 0
      /\ d.playing \in BOOLEAN /\ ~d.playing /\ d.swf = c.swf
  BY DEF Closed, Fields
<1>. HIDE DEF d
<1>2. Typed(d) /\ Shut(d) /\ ~d.socket  BY <1>1, EmptyIs DEF Typed, Shut
<1>. QED BY <1>1, <1>2 DEF d

\* One message more is sent, no first one of a connection.
LEMMA ExtendsMore ==
  ASSUME NEW s, NEW t, IsSeq(s), IsSeq(t), Extends(s, t), NEW m, ~Opens(m)
  PROVE  Extends(s, Append(t, m))
<1>1. /\ Len(s) \in Nat /\ Len(t) \in Nat /\ Len(Append(t, m)) = Len(t) + 1
      /\ \A i \in 1..Len(t) : Append(t, m)[i] = t[i]
      /\ Append(t, m)[Len(t) + 1] = m
  BY AppendIs, SeqFacts
<1>2. ASSUME NEW i \in 1..Len(Append(t, m)), i > Len(s) PROVE ~Opens(Append(t, m)[i])
  <2>1. CASE i \in 1..Len(t)  BY <1>1, <1>2, <2>1 DEF Extends
  <2>2. CASE i = Len(t) + 1  BY <1>1, <2>2
  <2>. QED BY <1>1, <1>2, <2>1, <2>2
<1>3. \A i \in 1..Len(s) : i \in 1..Len(t)  BY <1>1 DEF Extends
<1>. QED BY <1>1, <1>2, <1>3 DEF Extends

\* Nothing is sent.
LEMMA ExtendsItself == ASSUME NEW s, IsSeq(s) PROVE Extends(s, s)
BY SeqFacts DEF Extends

\* What becomes of a message: the connection is closed, or the message is sent or lost.
LEMMA Sends ==
  ASSUME NEW q, DOMAIN q = Handled, q.c.socket \in BOOLEAN, NEW m
  PROVE  /\ DOMAIN Send(q, m) = Handled /\ Send(q, m).ret = q.ret /\ Send(q, m).again = q.again
         /\ \/ Send(q, m).c = Closed(q.c) /\ Send(q, m).out = q.out
            \/ /\ q.c.socket /\ Send(q, m).c = q.c
               /\ Send(q, m).out = q.out \/ Send(q, m).out = Append(q.out, m)
<1>1. CASE ~q.c.socket \/ link = "reset"
  <2>1. Send(q, m) = [q EXCEPT !.c = Closed(@)]  BY <1>1 DEF Send
  <2>. QED BY <2>1 DEF Handled
<1>2. CASE ~(~q.c.socket \/ link = "reset") /\ link = "gone"
  <2>1. Send(q, m) = q  BY <1>2 DEF Send
  <2>. QED BY <1>2, <2>1 DEF Handled
<1>3. CASE ~(~q.c.socket \/ link = "reset") /\ link # "gone"
  <2>1. Send(q, m) = [q EXCEPT !.out = Append(@, m)]  BY <1>3 DEF Send
  <2>. QED BY <1>3, <2>1 DEF Handled
<1>. QED BY <1>1, <1>2, <1>3

\* A closed connection wants nothing of what is under way but that it can be obeyed.
LEMMA GoodClosed ==
  ASSUME NEW q, NEW g, Good(q, g), NEW r, DOMAIN r = Handled, r.again \in BOOLEAN,
         NEW d, DOMAIN d = Fields, d.swf = q.c.swf, r.c = Closed(d),
         IsSeq(r.out), Obeyed(r.out, g.alive), Extends(g.base, r.out)
  PROVE  Good(r, g)
<1>1. Typed(r.c) /\ Shut(r.c) /\ ~r.c.socket /\ r.c.swf = g.swf
  BY ClosedIs DEF Good
<1>. QED BY <1>1 DEF Good, Whole

\* Only fields change that none of this is about.
LEMMA GoodAlike ==
  ASSUME NEW q, NEW g, Good(q, g), NEW r, DOMAIN r = Handled, r.again = q.again, r.out = q.out,
         DOMAIN r.c = Fields, r.c.socket = q.c.socket, r.c.stream = q.c.stream,
         r.c.playing = q.c.playing, r.c.calls = q.c.calls, r.c.invokes = q.c.invokes,
         r.c.swf = q.c.swf, r.c.keys = q.c.keys
  PROVE  Good(r, g)
BY DEF Good, Whole, Typed, Shut

\* A message that nobody answers and that belongs to no stream, or to one that is alive.
LEMMA SendGood ==
  ASSUME NEW q, NEW g, Good(q, g), NEW m, m.name \notin Replied, ~Opens(m), m.name # "deleteStream",
         q.c.socket /\ Touches(m) => Alive(q.out, Touched(m), g.alive),
         q.c.socket /\ m.name = "ctrl" /\ m.txn = 27 => m.stream = 1
  PROVE  Good(Send(q, m), g)
<1>. DEFINE s == Send(q, m)
<1>0. /\ DOMAIN q = Handled /\ q.c.socket \in BOOLEAN /\ Typed(q.c) /\ IsSeq(q.out)
      /\ Obeyed(q.out, g.alive) /\ Extends(g.base, q.out) /\ IsSeq(g.base) /\ DOMAIN q.c = Fields
      /\ q.again \in BOOLEAN
  BY DEF Good, Whole, Typed
<1>1. /\ DOMAIN s = Handled /\ s.ret = q.ret /\ s.again = q.again
      /\ \/ s.c = Closed(q.c) /\ s.out = q.out
         \/ q.c.socket /\ s.c = q.c /\ (s.out = q.out \/ s.out = Append(q.out, m))
  BY <1>0, Sends
<1>. SUFFICES Good(s, g)  OBVIOUS
<1>. HIDE DEF s
<1>2. CASE s.c = Closed(q.c) /\ s.out = q.out
  BY <1>0, <1>1, <1>2, GoodClosed
<1>3. CASE q.c.socket /\ s.c = q.c /\ s.out = q.out
  BY <1>1, <1>3 DEF Good
<1>4. CASE q.c.socket /\ s.c = q.c /\ s.out = Append(q.out, m)
  <2>1. /\ Numbers(q.c.calls, q.c.invokes, q.out, g.msgs) /\ Held(q.c.stream, q.out, g.msgs, g.alive)
        /\ Publisher(q.c.playing, q.c.stream, q.c.calls, q.out, g.msgs)
        /\ q.c.stream # 0 /\ q.c.stream \in Int /\ q.c.invokes \in Nat /\ IsSeq(q.c.calls)
    BY <1>4 DEF Good, Whole, Typed
  <2>2. Numbers(q.c.calls, q.c.invokes, s.out, g.msgs)  BY <1>0, <1>4, <2>1, NumbersPlain
  <2>3. Held(q.c.stream, s.out, g.msgs, g.alive)  BY <1>0, <1>4, <2>1, HeldSent
  <2>4. Publisher(q.c.playing, q.c.stream, q.c.calls, s.out, g.msgs)
    <3>1. m.name \notin Publishing  BY DEF Publishing, Replied
    <3>. QED BY <1>0, <1>4, <2>1, <3>1, PublisherAsks
  <2>5. Obeyed(s.out, g.alive)  BY <1>0, <1>4, ObeyedSent
  <2>6. Extends(g.base, s.out) /\ IsSeq(s.out)  BY <1>0, <1>4, ExtendsMore, AppendIs
  <2>. QED BY <1>1, <1>4, <2>1, <2>2, <2>3, <2>4, <2>5, <2>6 DEF Good, Whole
<1>. QED BY <1>1, <1>2, <1>3, <1>4

\* The names a handler calls by number.
Ordinary(name) == name \notin {"C1", "C2", "ctrl", "media", "set_playlist", "deleteStream"}

\* A command of its own number: it may fail, and waits for its result or not.
LEMMA InvokeGood ==
  ASSUME NEW q, NEW g, Good(q, g), NEW name, Ordinary(name), NEW stream, NEW v, NEW queue \in BOOLEAN,
         name \in ActedUpon => queue,
         name \in Publishing => stream = q.c.stream /\ (q.c.socket => q.c.stream > 0)
  PROVE  Good(Invoke(q, name, stream, v, queue), g)
<1>. DEFINE n == q.c.invokes + 1
            p == [q EXCEPT !.c.invokes = n]
            m == Request(name, n, stream, v)
            call == [num |-> n, name |-> name]
            s == Send(p, m)
            r == Invoke(q, name, stream, v, queue)
<1>1. /\ DOMAIN q = Handled /\ q.c.socket \in BOOLEAN /\ Typed(q.c) /\ IsSeq(q.out)
      /\ Obeyed(q.out, g.alive) /\ Extends(g.base, q.out) /\ IsSeq(g.base) /\ DOMAIN q.c = Fields
      /\ q.again \in BOOLEAN /\ q.c.invokes \in Nat
  BY DEF Good, Whole, Typed
<1>2. /\ DOMAIN p = Handled /\ DOMAIN p.c = Fields /\ p.out = q.out /\ p.again = q.again
      /\ p.c.socket = q.c.socket /\ p.c.stream = q.c.stream /\ p.c.playing = q.c.playing
      /\ p.c.calls = q.c.calls /\ p.c.invokes = n /\ p.c.swf = q.c.swf /\ p.c.keys = q.c.keys
  BY <1>1 DEF Handled, Fields
<1>3. m.name = name /\ m.txn = n /\ m.stream = stream  BY DEF Request
<1>4. r = IF queue /\ s.c.socket THEN [s EXCEPT !.c.calls = Append(@, call)] ELSE s
  BY DEF Invoke
<1>. HIDE DEF p, m, call
<1>5. /\ DOMAIN s = Handled /\ s.ret = p.ret /\ s.again = p.again
      /\ \/ s.c = Closed(p.c) /\ s.out = p.out
         \/ p.c.socket /\ s.c = p.c /\ (s.out = p.out \/ s.out = Append(p.out, m))
  BY <1>1, <1>2, Sends
<1>. HIDE DEF s, r
<1>6. CASE s.c = Closed(p.c) /\ s.out = p.out
  <2>1. ~s.c.socket  BY <1>2, <1>6, ClosedIs
  <2>2. r = s  BY <1>4, <2>1
  <2>. QED BY <1>1, <1>2, <1>5, <1>6, <2>2, GoodClosed DEF r
<1>7. CASE p.c.socket /\ s.c = p.c /\ (s.out = p.out \/ s.out = Append(p.out, m))
  <2>1. /\ Numbers(q.c.calls, q.c.invokes, q.out, g.msgs) /\ Held(q.c.stream, q.out, g.msgs, g.alive)
        /\ Publisher(q.c.playing, q.c.stream, q.c.calls, q.out, g.msgs)
        /\ q.c.stream # 0 /\ q.c.stream \in Int /\ IsSeq(q.c.calls) /\ q.c.socket
        /\ g.alive \subseteq Nat \ {0} /\ IsSeq(g.msgs)
    BY <1>2, <1>7 DEF Good, Whole, Typed
  <2>2. /\ DOMAIN r = Handled /\ r.again = q.again /\ r.out = s.out
        /\ DOMAIN r.c = Fields /\ r.c.socket = q.c.socket /\ r.c.stream = q.c.stream
        /\ r.c.playing = q.c.playing /\ r.c.invokes = n /\ r.c.swf = q.c.swf /\ r.c.keys = q.c.keys
        /\ r.c.calls = IF queue THEN Append(q.c.calls, call) ELSE q.c.calls
    <3>1. CASE queue
      <4>1. r = [s EXCEPT !.c.calls = Append(@, call)]  BY <1>2, <1>4, <1>7, <3>1
      <4>. QED BY <1>2, <1>5, <1>7, <3>1, <4>1 DEF Handled, Fields
    <3>2. CASE ~queue
      <4>1. r = s  BY <1>4, <3>2
      <4>. QED BY <1>2, <1>5, <1>7, <3>2, <4>1
    <3>. QED BY <3>1, <3>2
  <2>3. /\ r.c.calls = q.c.calls \/ r.c.calls = Append(q.c.calls, call)
        /\ r.out = q.out \/ r.out = Append(q.out, m)
    BY <1>2, <1>7, <2>2
  <2>4. Numbers(r.c.calls, n, r.out, g.msgs)
    <3>1. call = [num |-> n, name |-> m.name] /\ n = q.c.invokes + 1  BY <1>3 DEF call
    <3>2. m.name \in ActedUpon => r.c.calls = Append(q.c.calls, call)  BY <1>3, <2>2
    <3>3. Asks(m, q.c.calls, q.c.invokes, q.out, r.c.calls, n, r.out)
      BY <1>1, <1>3, <2>1, <2>3, <3>1, <3>2 DEF Asks
    <3>. QED BY <2>1, <3>3, NumbersAsk
  <2>5. m.name \in {"play", "publish"} => Alive(q.out, stream, g.alive)
    BY <1>3, <2>1 DEF Held, Publishing
  <2>6. /\ Touches(m) => Alive(q.out, Touched(m), g.alive)
        /\ ~Opens(m) /\ m.name # "deleteStream" /\ m.name # "ctrl"
    BY <1>3, <2>5 DEF Touches, Touched, Ordinary, Opens
  <2>7. Held(q.c.stream, r.out, g.msgs, g.alive)
    BY <1>1, <2>1, <2>3, <2>6, HeldSent
  <2>8. Publisher(q.c.playing, q.c.stream, r.c.calls, r.out, g.msgs)
    <3>1. q.c.stream > 0 \/ (m.name \notin Publishing /\ call.name \notin Publishing)
      BY <1>3, <2>1 DEF call
    <3>. QED BY <1>1, <2>1, <2>3, <3>1, PublisherAsks, ZenonT(60)
  <2>9. Obeyed(r.out, g.alive)
    BY <1>1, <2>3, <2>6, ObeyedSent
  <2>10. Extends(g.base, r.out) /\ IsSeq(r.out)
    <3>1. IsSeq(q.out) /\ IsSeq(g.base) /\ Extends(g.base, q.out)  BY <1>1
    <3>2. CASE r.out = q.out  BY <3>1, <3>2
    <3>3. CASE r.out = Append(q.out, m)
      <4>1. ~Opens(m)  BY <2>6
      <4>2. Extends(g.base, Append(q.out, m))  BY <3>1, <4>1, ExtendsMore
      <4>3. IsSeq(Append(q.out, m))  BY <3>1, AppendIs
      <4>. QED BY <3>3, <4>2, <4>3
    <3>. QED BY <2>3, <3>2, <3>3
  <2>11. Typed(r.c)
    BY <1>1, <2>1, <2>2, <2>3, AppendIs DEF Typed
  <2>12. Whole(r.c, r.out, g.msgs, g.alive)
    BY <2>1, <2>2, <2>4, <2>7, <2>8, <2>9, <2>10, <2>11 DEF Whole
  <2>. QED BY <2>2, <2>10, <2>12 DEF Good, r
<1>. QED BY <1>5, <1>6, <1>7

\* What CloseInternal needs of a handler's q: no more than that its messages are in order.
Sendable(q, g) ==
  /\ DOMAIN q = Handled /\ DOMAIN q.c = Fields
  /\ q.again \in BOOLEAN /\ q.c.socket \in BOOLEAN
  /\ IsSeq(q.out) /\ IsSeq(g.base) /\ IsSeq(g.msgs) /\ g.alive \subseteq Nat \ {0}
  /\ Obeyed(q.out, g.alive) /\ Extends(g.base, q.out)
  /\ q.c.swf = g.swf

\* Any handler may send.
LEMMA GoodIsSendable == ASSUME NEW q, NEW g, Good(q, g) PROVE Sendable(q, g)
BY DEF Good, Whole, Typed, Sendable

\* A closed client needs no more than that.
LEMMA GoodShut ==
  ASSUME NEW q, NEW g, Sendable(q, g), Typed(q.c), Shut(q.c), ~q.c.socket
  PROVE  Good(q, g)
BY DEF Good, Whole, Sendable

\* r is q after a message m that is sent, lost, or too late.
Leaves(q, m, r) == r.again = q.again /\ (r.out = q.out \/ r.out = Append(q.out, m))

\* While a connection is being closed, a message is sent or lost.
LEMMA SendSendable ==
  ASSUME NEW q, NEW g, Sendable(q, g), NEW m, ~Opens(m),
         Touches(m) => Alive(q.out, Touched(m), g.alive),
         m.name = "ctrl" /\ m.txn = 27 => m.stream = 1
  PROVE  Sendable(Send(q, m), g) /\ Leaves(q, m, Send(q, m))
<1>. DEFINE s == Send(q, m)
<1>1. DOMAIN q = Handled /\ q.c.socket \in BOOLEAN /\ IsSeq(q.out) /\ IsSeq(g.base)
      /\ Obeyed(q.out, g.alive) /\ Extends(g.base, q.out) /\ DOMAIN q.c = Fields
      /\ q.again \in BOOLEAN /\ q.c.swf = g.swf /\ IsSeq(g.msgs) /\ g.alive \subseteq Nat \ {0}
  BY DEF Sendable
<1>2. /\ DOMAIN s = Handled /\ s.ret = q.ret /\ s.again = q.again
      /\ \/ s.c = Closed(q.c) /\ s.out = q.out
         \/ q.c.socket /\ s.c = q.c /\ (s.out = q.out \/ s.out = Append(q.out, m))
  BY <1>1, Sends
<1>. SUFFICES Sendable(s, g) /\ Leaves(q, m, s)  OBVIOUS
<1>. HIDE DEF s
<1>3. DOMAIN s.c = Fields /\ s.c.socket \in BOOLEAN /\ s.c.swf = g.swf
  BY <1>1, <1>2, ClosedIs DEF Typed
<1>4. IsSeq(s.out) /\ Obeyed(s.out, g.alive) /\ Extends(g.base, s.out)
  <2>1. CASE s.out = q.out  BY <1>1, <2>1
  <2>2. CASE s.out = Append(q.out, m)
    <3>1. IsSeq(Append(q.out, m))  BY <1>1, AppendIs
    <3>2. Obeyed(Append(q.out, m), g.alive)  BY <1>1, ObeyedSent
    <3>3. Extends(g.base, Append(q.out, m))  BY <1>1, ExtendsMore
    <3>. QED BY <2>2, <3>1, <3>2, <3>3
  <2>. QED BY <1>2, <2>1, <2>2
<1>. QED BY <1>1, <1>2, <1>3, <1>4 DEF Sendable, Leaves

\* The same of a command.
LEMMA InvokeSendable ==
  ASSUME NEW q, NEW g, Sendable(q, g), q.c.invokes \in Nat,
         NEW name, name \notin {"C1", "C2"}, NEW stream, NEW v,
         name = "deleteStream" => Alive(q.out, v, g.alive),
         name \notin {"play", "publish", "set_playlist", "media", "ctrl"}
  PROVE  /\ Sendable(Invoke(q, name, stream, v, FALSE), g)
         /\ Leaves(q, Request(name, q.c.invokes + 1, stream, v), Invoke(q, name, stream, v, FALSE))
<1>. DEFINE p == [q EXCEPT !.c.invokes = q.c.invokes + 1]
            m == Request(name, q.c.invokes + 1, stream, v)
<1>1. /\ Sendable(p, g) /\ p.again = q.again /\ p.out = q.out
  BY DEF Sendable, Handled, Fields
<1>2. Invoke(q, name, stream, v, FALSE) = Send(p, m)  BY DEF Invoke
<1>3. m.name = name /\ m.v = v /\ ~Opens(m)  BY DEF Request, Opens
<1>4. Touches(m) => Alive(p.out, Touched(m), g.alive)
  BY <1>1, <1>3 DEF Touches, Touched
<1>. HIDE DEF p, m
<1>5. Sendable(Send(p, m), g) /\ Leaves(p, m, Send(p, m))
  BY <1>1, <1>3, <1>4, SendSendable
<1>. QED BY <1>1, <1>2, <1>5 DEF m, Leaves

\* CloseInternal deletes the stream if there is one; what is left is closed.
LEMMA CloseGood ==
  ASSUME NEW q, NEW g, Sendable(q, g), q.c.invokes \in Nat, q.c.stream \in Int,
         q.c.socket /\ q.c.stream > 0 => Alive(q.out, q.c.stream, g.alive)
  PROVE  /\ Good(CloseInternal(q), g) /\ ~CloseInternal(q).c.socket
         /\ CloseInternal(q).again = q.again
<1>. DEFINE bare == [q EXCEPT !.c.stream = 0]
            unpublished == IF options.write THEN SendFCUnpublish(bare) ELSE bare
            deleted == IF q.c.stream > 0 THEN SendDeleteStream(unpublished, q.c.stream) ELSE q
            finished == Send(deleted, Request("FIN", 0, 0, 0))
            r == CloseInternal(q)
<1>1. r = IF q.c.socket THEN [finished EXCEPT !.c = Closed(@)] ELSE [q EXCEPT !.c = Closed(@)]
  BY DEF CloseInternal
<1>2. ASSUME NEW f, Sendable(f, g), f.again = q.again
      PROVE  LET e == [f EXCEPT !.c = Closed(@)] IN Good(e, g) /\ ~e.c.socket /\ e.again = q.again
  <2>. DEFINE e == [f EXCEPT !.c = Closed(@)]
  <2>1. DOMAIN f = Handled /\ DOMAIN f.c = Fields  BY <1>2 DEF Sendable
  <2>2. DOMAIN e = Handled /\ e.c = Closed(f.c) /\ e.out = f.out /\ e.again = f.again
    BY <2>1 DEF Handled
  <2>3. Typed(e.c) /\ Shut(e.c) /\ ~e.c.socket /\ e.c.swf = f.c.swf /\ DOMAIN e.c = Fields
        /\ e.c.socket \in BOOLEAN
    BY <2>1, <2>2, ClosedIs DEF Typed
  <2>. HIDE DEF e
  <2>4. Sendable(e, g)  BY <1>2, <2>2, <2>3 DEF Sendable
  <2>5. Good(e, g)  BY <2>3, <2>4, GoodShut
  <2>. QED BY <1>2, <2>2, <2>3, <2>5 DEF e
<1>3. CASE q.c.socket
  <2>1. /\ Sendable(bare, g) /\ bare.again = q.again /\ bare.out = q.out /\ bare.c.invokes = q.c.invokes
    BY DEF Sendable, Handled, Fields
  <2>. HIDE DEF bare
  <2>2. /\ Sendable(unpublished, g) /\ unpublished.again = q.again
        /\ q.c.stream > 0 => Alive(unpublished.out, q.c.stream, g.alive)
        /\ unpublished.c.invokes \in Nat
    <3>1. CASE ~options.write  BY <1>3, <2>1, <3>1
    <3>2. CASE options.write
      <4>. DEFINE m == Request("FCUnpublish", bare.c.invokes + 1, 0, 0)
                  u == Invoke(bare, "FCUnpublish", 0, 0, FALSE)
      <4>1. unpublished = u  BY <3>2 DEF SendFCUnpublish
      <4>2. "FCUnpublish" \notin {"C1", "C2"}  OBVIOUS
      <4>3. bare.c.invokes \in Nat  BY <2>1
      <4>4. /\ Sendable(u, g) /\ u.again = bare.again
            /\ u.out = bare.out \/ u.out = Append(bare.out, m)
        <5>1. "FCUnpublish" # "deleteStream"
              /\ "FCUnpublish" \notin {"play", "publish", "set_playlist", "media", "ctrl"}
          OBVIOUS
        <5>2. Sendable(u, g) /\ Leaves(bare, m, u)
          BY <2>1, <4>2, <4>3, <5>1, InvokeSendable
        <5>. QED BY <5>2 DEF Leaves
      <4>5. \A s : ~Deletes(m, s)  BY DEF Request, Deletes
      <4>6. u.c.invokes \in Nat
        <5>. DEFINE p == [bare EXCEPT !.c.invokes = bare.c.invokes + 1]
        <5>1. u = Send(p, m)  BY DEF Invoke
        <5>2. DOMAIN p = Handled /\ p.c.socket \in BOOLEAN /\ p.c.invokes \in Nat /\ DOMAIN p.c = Fields
          BY <2>1, <4>3 DEF Sendable, Handled, Fields
        <5>. HIDE DEF p, m
        <5>3. Send(p, m).c = Closed(p.c) \/ Send(p, m).c = p.c
          BY <5>2, Sends
        <5>4. Closed(p.c).invokes \in Nat
          BY <5>2, ClosedIs DEF Typed
        <5>. QED BY <5>1, <5>2, <5>3, <5>4
      <4>. HIDE DEF m, u
      <4>7. IsSeq(bare.out)  BY <2>1 DEF Sendable
      <4>8. q.c.stream > 0 => Alive(u.out, q.c.stream, g.alive)
        BY <1>3, <2>1, <4>4, <4>5, <4>7, AliveSent
      <4>. QED BY <2>1, <4>1, <4>4, <4>6, <4>8
    <3>. QED BY <3>1, <3>2
  <2>. HIDE DEF unpublished
  <2>3. Sendable(deleted, g) /\ deleted.again = q.again
    <3>1. CASE ~(q.c.stream > 0)  BY <3>1
    <3>2. CASE q.c.stream > 0
      <4>1. deleted = Invoke(unpublished, "deleteStream", 0, q.c.stream, FALSE)
        BY <3>2 DEF SendDeleteStream
      <4>2. "deleteStream" \notin {"C1", "C2"}  OBVIOUS
      <4>3. "deleteStream" \notin {"play", "publish", "set_playlist", "media", "ctrl"}  OBVIOUS
      <4>4. /\ Sendable(Invoke(unpublished, "deleteStream", 0, q.c.stream, FALSE), g)
            /\ Leaves(unpublished, Request("deleteStream", unpublished.c.invokes + 1, 0, q.c.stream),
                      Invoke(unpublished, "deleteStream", 0, q.c.stream, FALSE))
        BY <2>2, <3>2, <4>2, <4>3, InvokeSendable
      <4>. QED BY <2>2, <4>1, <4>4 DEF Leaves
    <3>. QED BY <3>1, <3>2
  <2>. HIDE DEF deleted
  <2>4. Sendable(finished, g) /\ finished.again = q.again
    <3>. DEFINE m == Request("FIN", 0, 0, 0)
    <3>1. m.name = "FIN"  BY DEF Request
    <3>. HIDE DEF m
    <3>2. ~Opens(m) /\ ~Touches(m)  BY <3>1 DEF Opens, Touches
    <3>3. m.name = "ctrl" /\ m.txn = 27 => m.stream = 1  BY <3>1
    <3>4. Sendable(Send(deleted, m), g) /\ Leaves(deleted, m, Send(deleted, m))
      BY <2>3, <3>2, <3>3, SendSendable
    <3>. QED BY <2>3, <3>4 DEF m, Leaves
  <2>. HIDE DEF finished
  <2>. QED BY <1>1, <1>2, <1>3, <2>4
<1>4. CASE ~q.c.socket
  BY <1>1, <1>2, <1>4
<1>. QED BY <1>3, <1>4 DEF Sendable

\* Any handler may close the connection.
LEMMA GoodCloses ==
  ASSUME NEW q, NEW g, Good(q, g)
  PROVE  /\ Good(CloseInternal(q), g) /\ ~CloseInternal(q).c.socket
         /\ CloseInternal(q).again = q.again
<1>1. Sendable(q, g)  BY GoodIsSendable
<1>2. /\ q.c.invokes \in Nat /\ q.c.stream \in Int
      /\ q.c.socket /\ q.c.stream > 0 => Alive(q.out, q.c.stream, g.alive)
  BY DEF Good, Whole, Typed, Held
<1>. QED BY <1>1, <1>2, CloseGood

-----------------------------------------------------------------------------
(* The commands a handler sends, one by one.                               *)

\* The connection is as before or closed, and so is the stream.
Steady(q, r) == r.c.socket => q.c.socket /\ r.c.stream = q.c.stream

\* A message changes the stream only by closing the connection.
LEMMA SendSteady ==
  ASSUME NEW q, NEW g, Good(q, g), NEW m
  PROVE  Steady(q, Send(q, m))
<1>1. DOMAIN q = Handled /\ q.c.socket \in BOOLEAN /\ DOMAIN q.c = Fields
  BY DEF Good, Whole, Typed
<1>2. Send(q, m).c = Closed(q.c) \/ (q.c.socket /\ Send(q, m).c = q.c)
  BY <1>1, Sends
<1>3. ~Closed(q.c).socket  BY <1>1, ClosedIs
<1>. QED BY <1>2, <1>3 DEF Steady

\* A command, too.
LEMMA InvokeSteady ==
  ASSUME NEW q, NEW g, Good(q, g), NEW name, NEW stream, NEW v, NEW queue \in BOOLEAN
  PROVE  Steady(q, Invoke(q, name, stream, v, queue))
<1>. DEFINE n == q.c.invokes + 1
            p == [q EXCEPT !.c.invokes = n]
            m == Request(name, n, stream, v)
            s == Send(p, m)
            r == Invoke(q, name, stream, v, queue)
<1>1. DOMAIN q = Handled /\ q.c.socket \in BOOLEAN /\ DOMAIN q.c = Fields
  BY DEF Good, Whole, Typed
<1>2. /\ DOMAIN p = Handled /\ DOMAIN p.c = Fields
      /\ p.c.socket = q.c.socket /\ p.c.stream = q.c.stream
  BY <1>1 DEF Handled, Fields
<1>3. r = IF queue /\ s.c.socket THEN [s EXCEPT !.c.calls = Append(@, [num |-> n, name |-> name])] ELSE s
  BY DEF Invoke
<1>. HIDE DEF p, m
<1>4. /\ DOMAIN s = Handled
      /\ s.c = Closed(p.c) \/ (p.c.socket /\ s.c = p.c)
  BY <1>1, <1>2, Sends
<1>5. ~Closed(p.c).socket /\ DOMAIN Closed(p.c) = Fields  BY <1>2, ClosedIs DEF Typed
<1>. HIDE DEF s, r
<1>6. DOMAIN s.c = Fields  BY <1>2, <1>4, <1>5
<1>7. r.c.socket = s.c.socket /\ r.c.stream = s.c.stream
  BY <1>3, <1>4, <1>6 DEF Handled, Fields
<1>8. r.c.socket => q.c.socket /\ r.c.stream = q.c.stream
  BY <1>2, <1>4, <1>5, <1>7
<1>. QED BY <1>8 DEF Steady, r

\* What none of this is about.
LEMMA Untracked ==
  ASSUME NEW q, NEW g, Good(q, g), NEW v
  PROVE  /\ Good([q EXCEPT !.c.pausing = v], g) /\ Good([q EXCEPT !.c.pauseStamp = v], g)
         /\ Good([q EXCEPT !.c.checks = v], g) /\ Good([q EXCEPT !.c.mediaChannel = v], g)
         /\ Good([q EXCEPT !.ret = v], g)
         /\ Steady(q, [q EXCEPT !.c.checks = v])
<1>1. DOMAIN q = Handled /\ DOMAIN q.c = Fields
  BY DEF Good, Whole, Typed
<1>2. Good([q EXCEPT !.c.pausing = v], g)
  <2>. DEFINE r == [q EXCEPT !.c.pausing = v]
  <2>1. /\ DOMAIN r = Handled /\ r.again = q.again /\ r.out = q.out
        /\ DOMAIN r.c = Fields /\ r.c.socket = q.c.socket /\ r.c.stream = q.c.stream
        /\ r.c.playing = q.c.playing /\ r.c.calls = q.c.calls /\ r.c.invokes = q.c.invokes
        /\ r.c.swf = q.c.swf /\ r.c.keys = q.c.keys
    BY <1>1 DEF Handled, Fields
  <2>. HIDE DEF r
  <2>2. Good(r, g)  BY <2>1, GoodAlike
  <2>. QED BY <2>2 DEF r
<1>3. Good([q EXCEPT !.c.pauseStamp = v], g)
  <2>. DEFINE r == [q EXCEPT !.c.pauseStamp = v]
  <2>1. /\ DOMAIN r = Handled /\ r.again = q.again /\ r.out = q.out
        /\ DOMAIN r.c = Fields /\ r.c.socket = q.c.socket /\ r.c.stream = q.c.stream
        /\ r.c.playing = q.c.playing /\ r.c.calls = q.c.calls /\ r.c.invokes = q.c.invokes
        /\ r.c.swf = q.c.swf /\ r.c.keys = q.c.keys
    BY <1>1 DEF Handled, Fields
  <2>. HIDE DEF r
  <2>2. Good(r, g)  BY <2>1, GoodAlike
  <2>. QED BY <2>2 DEF r
<1>4. Good([q EXCEPT !.c.checks = v], g) /\ Steady(q, [q EXCEPT !.c.checks = v])
  <2>. DEFINE r == [q EXCEPT !.c.checks = v]
  <2>1. /\ DOMAIN r = Handled /\ r.again = q.again /\ r.out = q.out
        /\ DOMAIN r.c = Fields /\ r.c.socket = q.c.socket /\ r.c.stream = q.c.stream
        /\ r.c.playing = q.c.playing /\ r.c.calls = q.c.calls /\ r.c.invokes = q.c.invokes
        /\ r.c.swf = q.c.swf /\ r.c.keys = q.c.keys
    BY <1>1 DEF Handled, Fields
  <2>. HIDE DEF r
  <2>2. Good(r, g)  BY <2>1, GoodAlike
  <2>3. Steady(q, r)  BY <2>1 DEF Steady
  <2>. QED BY <2>2, <2>3 DEF r
<1>5. Good([q EXCEPT !.c.mediaChannel = v], g)
  <2>. DEFINE r == [q EXCEPT !.c.mediaChannel = v]
  <2>1. /\ DOMAIN r = Handled /\ r.again = q.again /\ r.out = q.out
        /\ DOMAIN r.c = Fields /\ r.c.socket = q.c.socket /\ r.c.stream = q.c.stream
        /\ r.c.playing = q.c.playing /\ r.c.calls = q.c.calls /\ r.c.invokes = q.c.invokes
        /\ r.c.swf = q.c.swf /\ r.c.keys = q.c.keys
    BY <1>1 DEF Handled, Fields
  <2>. HIDE DEF r
  <2>2. Good(r, g)  BY <2>1, GoodAlike
  <2>. QED BY <2>2 DEF r
<1>6. Good([q EXCEPT !.ret = v], g)
  <2>. DEFINE r == [q EXCEPT !.ret = v]
  <2>1. DOMAIN r = Handled /\ r.again = q.again /\ r.out = q.out /\ r.c = q.c
    BY <1>1 DEF Handled
  <2>. HIDE DEF r
  <2>2. Good(r, g)  BY <1>1, <2>1, GoodAlike
  <2>. QED BY <2>2 DEF r
<1>. QED BY <1>2, <1>3, <1>4, <1>5, <1>6

\* The commands that belong to no stream.
LEMMA InvokesGood ==
  ASSUME NEW q, NEW g, Good(q, g)
  PROVE  /\ Good(SendConnectPacket(q), g)
         /\ Good(SendCreateStream(q), g) /\ Good(SendFCSubscribe(q), g) /\ Good(SendUsherToken(q), g)
         /\ Good(SendReleaseStream(q), g) /\ Good(SendFCPublish(q), g) /\ Good(SendCheckBW(q), g)
         /\ \A do \in BOOLEAN : Good(SendPause(q, do), g)
<1>1. ASSUME NEW name \in {"connect", "createStream", "FCSubscribe", "NetStream.Authenticate.UsherToken",
                           "releaseStream", "FCPublish", "_checkbw", "pause", "unpause"},
             NEW queue \in BOOLEAN, name \in ActedUpon => queue, NEW v
      PROVE  Good(Invoke(q, name, 0, v, queue), g)
  <2>1. Ordinary(name) /\ name \notin Publishing  BY DEF Ordinary, Publishing
  <2>. QED BY <1>1, <2>1, InvokeGood
<1>2. Good(SendConnectPacket(q), g)  BY <1>1 DEF SendConnectPacket
<1>3. Good(SendCreateStream(q), g)  BY <1>1 DEF SendCreateStream
<1>4. Good(SendFCSubscribe(q), g)  BY <1>1 DEF SendFCSubscribe
<1>5. Good(SendUsherToken(q), g)  BY <1>1 DEF SendUsherToken, ActedUpon
<1>6. Good(SendReleaseStream(q), g)  BY <1>1 DEF SendReleaseStream, ActedUpon
<1>7. Good(SendFCPublish(q), g)  BY <1>1 DEF SendFCPublish, ActedUpon
<1>8. Good(SendCheckBW(q), g)  BY <1>1 DEF SendCheckBW, ActedUpon
<1>9. ASSUME NEW do \in BOOLEAN PROVE Good(SendPause(q, do), g)
  <2>1. CASE do  BY <1>1, <2>1 DEF SendPause
  <2>2. CASE ~do  BY <1>1, <2>2 DEF SendPause
  <2>. QED BY <2>1, <2>2
<1>. QED BY <1>2, <1>3, <1>4, <1>5, <1>6, <1>7, <1>8, <1>9

\* The messages that belong to no stream.
LEMMA SendsGood ==
  ASSUME NEW q, NEW g, Good(q, g), NEW txn
  PROVE  /\ Good(SendServerBW(q), g) /\ Good(SendSecureTokenResponse(q), g) /\ Good(SendPong(q, txn), g)
         /\ Good(SendCheckBWResult(q, txn), g)
         /\ Good(SendCtrl(q, 3, 0), g) /\ Good(SendCtrl(q, 7, 0), g)
<1>1. ASSUME NEW p, Good(p, g), NEW v, NEW n,
             NEW name \in {"server bw", "secureTokenResponse", "pong", "_result"}
      PROVE  Good(Send(p, Request(name, n, 0, v)), g)
  <2>. DEFINE m == Request(name, n, 0, v)
  <2>1. m.name = name  BY DEF Request
  <2>. HIDE DEF m
  <2>2. m.name \notin Replied /\ ~Opens(m) /\ ~Touches(m) /\ m.name # "deleteStream" /\ m.name # "ctrl"
    BY <2>1 DEF Replied, Opens, Touches
  <2>3. Good(Send(p, m), g)  BY <1>1, <2>2, SendGood
  <2>. QED BY <2>3 DEF m
<1>3. Good(SendServerBW(q), g)  BY <1>1 DEF SendServerBW
<1>4. Good(SendSecureTokenResponse(q), g)  BY <1>1 DEF SendSecureTokenResponse
<1>5. Good(SendPong(q, txn), g)  BY <1>1 DEF SendPong
<1>6. Good(SendCheckBWResult(q, txn), g)
  <2>1. Good([q EXCEPT !.c.checks = @ + 1], g)  BY Untracked
  <2>. QED BY <1>1, <2>1 DEF SendCheckBWResult
<1>7. ASSUME NEW type \in {3, 7} PROVE Good(SendCtrl(q, type, 0), g)
  <2>. DEFINE m == Request("ctrl", type, 0, 0)
  <2>1. m.name = "ctrl" /\ m.txn = type /\ m.stream = 0  BY DEF Request
  <2>. HIDE DEF m
  <2>2. m.name \notin Replied /\ ~Opens(m) /\ ~Touches(m) /\ m.name # "deleteStream" /\ m.txn # 27
    BY <2>1 DEF Replied, Opens, Touches
  <2>3. Good(Send(q, m), g)  BY <2>2, SendGood
  <2>. QED BY <2>3 DEF SendCtrl, m
<1>. QED BY <1>3, <1>4, <1>5, <1>6, <1>7

\* A handler that does not know the stream's id does not name it.
LEMMA StreamsGood ==
  ASSUME NEW q, NEW g, Good(q, g), q.c.socket => q.c.stream > 0
  PROVE  /\ Good(SendPlay(q), g) /\ Steady(q, SendPlay(q))
         /\ Good(SendPublish(q), g)
         /\ Good(SendPlaylist(q), g) /\ Steady(q, SendPlaylist(q))
         /\ Good(SendCtrl(q, 3, q.c.stream), g)
<1>1. q.c.socket => Alive(q.out, q.c.stream, g.alive)  BY DEF Good, Whole, Held
<1>2. Good(SendPlay(q), g) /\ Steady(q, SendPlay(q))
  <2>1. Ordinary("play") /\ "play" \notin ActedUpon  BY DEF Ordinary, ActedUpon
  <2>. QED BY <2>1, InvokeGood, InvokeSteady DEF SendPlay
<1>3. Good(SendPublish(q), g)
  <2>1. Ordinary("publish") /\ "publish" \notin ActedUpon  BY DEF Ordinary, ActedUpon
  <2>. QED BY <2>1, InvokeGood DEF SendPublish
<1>4. Good(SendCtrl(q, 3, q.c.stream), g)
  <2>. DEFINE m == Request("ctrl", 3, q.c.stream, 0)
  <2>1. m.name = "ctrl" /\ m.txn = 3 /\ m.stream = q.c.stream  BY DEF Request
  <2>. HIDE DEF m
  <2>2. m.name \notin Replied /\ ~Opens(m) /\ m.name # "deleteStream" /\ Touched(m) = q.c.stream
    BY <2>1 DEF Replied, Opens, Touched
  <2>3. Good(Send(q, m), g)  BY <1>1, <2>1, <2>2, SendGood
  <2>. QED BY <2>3 DEF SendCtrl, m
<1>5. Good(SendPlaylist(q), g) /\ Steady(q, SendPlaylist(q))
  <2>. DEFINE m == Request("set_playlist", 0, q.c.stream, 0)
              call == [num |-> 0, name |-> "set_playlist"]
              s == Send(q, m)
              r == SendPlaylist(q)
  <2>1. m.name = "set_playlist" /\ m.stream = q.c.stream  BY DEF Request
  <2>2. r = IF s.c.socket THEN [s EXCEPT !.c.calls = Append(@, call)] ELSE s
    BY DEF SendPlaylist
  <2>. HIDE DEF m, s, r
  <2>3. m.name \notin Replied /\ ~Opens(m) /\ m.name # "deleteStream" /\ Touched(m) = q.c.stream
    BY <2>1 DEF Replied, Opens, Touched
  <2>4. Good(s, g)  BY <1>1, <2>1, <2>3, SendGood DEF s
  <2>5. Steady(q, s)  BY SendSteady DEF s
  <2>6. CASE s.c.socket
    <3>1. /\ DOMAIN s = Handled /\ DOMAIN s.c = Fields /\ IsSeq(s.c.calls) /\ s.c.invokes \in Nat
          /\ Whole(s.c, s.out, g.msgs, g.alive) /\ s.c.stream > 0
          /\ Numbers(s.c.calls, s.c.invokes, s.out, g.msgs)
          /\ Publisher(s.c.playing, s.c.stream, s.c.calls, s.out, g.msgs)
      BY <2>4, <2>5, <2>6 DEF Good, Whole, Typed, Steady
    <3>2. r = [s EXCEPT !.c.calls = Append(@, call)]  BY <2>2, <2>6
    <3>3. /\ DOMAIN r = Handled /\ r.again = s.again /\ r.out = s.out
          /\ DOMAIN r.c = Fields /\ r.c.socket = s.c.socket /\ r.c.stream = s.c.stream
          /\ r.c.playing = s.c.playing /\ r.c.invokes = s.c.invokes
          /\ r.c.swf = s.c.swf /\ r.c.keys = s.c.keys
          /\ r.c.calls = Append(s.c.calls, call)
      BY <3>1, <3>2 DEF Handled, Fields
    <3>4. Numbers(r.c.calls, s.c.invokes, s.out, g.msgs)
      BY <3>1, <3>3, NumbersList
    <3>5. IsSeq(r.c.calls)  BY <3>1, <3>3, AppendIs
    <3>6. Publisher(s.c.playing, s.c.stream, r.c.calls, s.out, g.msgs)
      BY <3>1 DEF Publisher
    <3>7. Whole(r.c, r.out, g.msgs, g.alive)
      BY <2>6, <3>1, <3>3, <3>4, <3>5, <3>6 DEF Whole, Typed
    <3>8. Good(r, g)  BY <2>4, <3>3, <3>7 DEF Good
    <3>9. Steady(q, r)  BY <2>5, <3>3 DEF Steady
    <3>. QED BY <3>8, <3>9 DEF r
  <2>7. CASE ~s.c.socket
    <3>1. r = s  BY <2>2, <2>7
    <3>. QED BY <2>4, <2>5, <3>1 DEF r
  <2>. QED BY <2>6, <2>7
<1>. QED BY <1>2, <1>3, <1>4, <1>5

-----------------------------------------------------------------------------
(* The handlers.                                                           *)

\* What the searches of AV_erase and HandleInvoke find: a call asked for, or none.
LEMMA FoundIs ==
  ASSUME NEW c, IsSeq(c.calls), NEW x
  PROVE  /\ \/ ByNumber(c, x) = 0 /\ \A k \in 1..Len(c.calls) : c.calls[k].num # x
            \/ ByNumber(c, x) \in 1..Len(c.calls) /\ c.calls[ByNumber(c, x)].num = x
         /\ ByName(c, x) = 0 \/ (ByName(c, x) \in 1..Len(c.calls) /\ c.calls[ByName(c, x)].name = x)
<1>. DEFINE numbers == {i \in 1..Len(c.calls) : c.calls[i].num = x}
            names == {i \in 1..Len(c.calls) : c.calls[i].name = x}
<1>1. numbers \subseteq Nat /\ names \subseteq Nat  OBVIOUS
<1>2. ByNumber(c, x) = IF numbers # {} THEN Min(numbers) ELSE 0
  BY DEF ByNumber, SelectInSeq
<1>3. ByName(c, x) = IF names # {} THEN Min(names) ELSE 0
  BY DEF ByName, SelectInSeq
<1>4. /\ numbers # {} => Min(numbers) \in numbers
      /\ names # {} => Min(names) \in names
  BY <1>1, Least
<1>. QED BY <1>2, <1>3, <1>4

\* A call is erased, and nothing else changes.
Erased(q, r) == Steady(q, r) /\ r.out = q.out /\ r.again = q.again
                /\ r.c.socket = q.c.socket /\ r.c.stream = q.c.stream

\* A call is erased that nobody acts upon, or whose result is here.
LEMMA EraseGood ==
  ASSUME NEW q, NEW g, Good(q, g), q.c.socket, NEW i \in 1..Len(q.c.calls),
         \/ q.c.calls[i].name \notin ActedUpon
         \/ /\ \A k \in 1..Len(q.out) : q.out[k].name \in Replied => q.out[k].txn # q.c.calls[i].num
            /\ \A k \in 1..Len(g.msgs) : IsResult(g.msgs[k]) => g.msgs[k].txn # q.c.calls[i].num
  PROVE  Good(AV_erase(q, i), g) /\ Erased(q, AV_erase(q, i))
<1>. DEFINE r == [q EXCEPT !.c.calls = RemoveAt(@, i)]
<1>1. /\ DOMAIN q = Handled /\ DOMAIN q.c = Fields /\ IsSeq(q.c.calls) /\ q.c.invokes \in Nat
      /\ Whole(q.c, q.out, g.msgs, g.alive)
      /\ Numbers(q.c.calls, q.c.invokes, q.out, g.msgs)
      /\ Publisher(q.c.playing, q.c.stream, q.c.calls, q.out, g.msgs)
  BY DEF Good, Whole, Typed
<1>2. AV_erase(q, i) = r
  <2>1. Len(q.c.calls) \in Nat  BY <1>1, SeqFacts
  <2>2. i # 0  BY <2>1
  <2>. QED BY <2>2 DEF AV_erase
<1>3. /\ DOMAIN r = Handled /\ r.again = q.again /\ r.out = q.out
      /\ DOMAIN r.c = Fields /\ r.c.socket = q.c.socket /\ r.c.stream = q.c.stream
      /\ r.c.playing = q.c.playing /\ r.c.invokes = q.c.invokes
      /\ r.c.swf = q.c.swf /\ r.c.keys = q.c.keys
      /\ r.c.calls = RemoveAt(q.c.calls, i)
  BY <1>1 DEF Handled, Fields
<1>. HIDE DEF r
<1>4. Numbers(r.c.calls, q.c.invokes, q.out, g.msgs)
  BY <1>1, <1>3, NumbersErase
<1>5. IsSeq(r.c.calls)  BY <1>1, <1>3, RemoveAtIs
<1>6. Publisher(q.c.playing, q.c.stream, r.c.calls, q.out, g.msgs)
  BY <1>1, <1>3, PublisherErases
<1>7. Whole(r.c, r.out, g.msgs, g.alive)
  BY <1>1, <1>3, <1>4, <1>5, <1>6 DEF Whole, Typed
<1>8. Good(r, g)  BY <1>3, <1>7 DEF Good
<1>9. Erased(q, r)  BY <1>3 DEF Erased, Steady
<1>. QED BY <1>2, <1>8, <1>9

\* Nothing is erased.
LEMMA ErasesNothing == ASSUME NEW q PROVE AV_erase(q, 0) = q /\ Erased(q, q)
BY DEF AV_erase, Erased, Steady

\* What an invoke of the server that is no result erases.
LEMMA EraseNameGood ==
  ASSUME NEW q, NEW g, Good(q, g), NEW name, name \notin ActedUpon
  PROVE  Good(EraseName(q, name), g)
<1>1. IsSeq(q.c.calls) /\ q.c.socket \in BOOLEAN /\ (~q.c.socket => q.c.calls = <<>>)
  BY DEF Good, Whole, Typed, Shut
<1>. DEFINE i == ByName(q.c, name)
<1>2. i = 0 \/ (i \in 1..Len(q.c.calls) /\ q.c.calls[i].name = name)
  BY <1>1, FoundIs
<1>3. EraseName(q, name) = AV_erase(q, i)  BY DEF EraseName
<1>. HIDE DEF i
<1>4. CASE i = 0  BY <1>3, <1>4, ErasesNothing
<1>5. CASE i \in 1..Len(q.c.calls) /\ q.c.calls[i].name = name
  <2>1. q.c.socket  BY <1>1, <1>5, EmptyIs
  <2>. QED BY <1>3, <1>5, <2>1, EraseGood
<1>. QED BY <1>2, <1>4, <1>5

\* The message that is handled fits what the handler begins with.
Fits(q, m, g) ==
  /\ IsResult(m) => /\ Meant(q.c.calls, m.txn, m.of)
                    /\ \A k \in 1..Len(q.out) : q.out[k].name \in Replied => q.out[k].txn # m.txn
                    /\ \A k \in 1..Len(g.msgs) : IsResult(g.msgs[k]) => g.msgs[k].txn # m.txn
  /\ Creates(m) => Alive(q.out, m.v, g.alive) /\ Held(m.v, q.out, g.msgs, g.alive)
  /\ options.write /\ Begins(m) => q.c.stream > 0
  /\ m.kind = "ctrl" /\ m.v = 26 /\ options.swf => g.swf = 1

\* The call of a result is erased; if there was one, it was for this result.
LEMMA EraseNumberGood ==
  ASSUME NEW q, NEW g, Good(q, g), q.c.socket, NEW m, IsResult(m), Fits(q, m, g)
  PROVE  /\ Good(EraseNumber(q, m.txn), g) /\ Erased(q, EraseNumber(q, m.txn))
         /\ Answered(q.c, m.txn) \in {"", m.of}
         /\ Answered(q.c, m.txn) # "" =>
              \E k \in 1..Len(q.c.calls) : q.c.calls[k].name = Answered(q.c, m.txn)
<1>1. IsSeq(q.c.calls)  BY DEF Good, Whole, Typed
<1>. DEFINE i == ByNumber(q.c, m.txn)
<1>2. \/ i = 0
      \/ i \in 1..Len(q.c.calls) /\ q.c.calls[i].num = m.txn
  BY <1>1, FoundIs
<1>3. EraseNumber(q, m.txn) = AV_erase(q, i)  BY DEF EraseNumber
<1>4. Answered(q.c, m.txn) = IF i = 0 THEN "" ELSE q.c.calls[i].name  BY DEF Answered
<1>. HIDE DEF i
<1>5. CASE i = 0  BY <1>3, <1>4, <1>5, ErasesNothing
<1>6. CASE i \in 1..Len(q.c.calls) /\ q.c.calls[i].num = m.txn
  <2>1. Good(AV_erase(q, i), g) /\ Erased(q, AV_erase(q, i))
    BY <1>6, EraseGood DEF Fits
  <2>2. q.c.calls[i].name = m.of  BY <1>6 DEF Fits, Meant
  <2>3. i # 0  BY <1>1, <1>6, SeqFacts
  <2>. QED BY <1>3, <1>4, <1>6, <2>1, <2>2, <2>3
<1>. QED BY <1>2, <1>5, <1>6

\* The commands that follow upon the result of connect.
LEMMA ConnectResultGood ==
  ASSUME NEW q, NEW g, Good(q, g), NEW m
  PROVE  Good(ConnectResult(q, m), g)
<1>. DEFINE token == IF options.token /\ m.v = 1 THEN SendSecureTokenResponse(q) ELSE q
            ready == IF options.write THEN SendFCPublish(SendReleaseStream(token))
                     ELSE SendCtrl(SendServerBW(token), 3, 0)
            created == SendCreateStream(ready)
            usher == IF options.usher THEN SendUsherToken(created) ELSE created
<1>1. Good(token, g)  BY SendsGood
<1>. HIDE DEF token
<1>2. Good(ready, g)
  <2>1. CASE options.write
    <3>1. Good(SendReleaseStream(token), g)  BY <1>1, InvokesGood
    <3>2. Good(SendFCPublish(SendReleaseStream(token)), g)  BY <3>1, InvokesGood
    <3>. QED BY <2>1, <3>2
  <2>2. CASE ~options.write
    <3>1. Good(SendServerBW(token), g)  BY <1>1, SendsGood
    <3>2. Good(SendCtrl(SendServerBW(token), 3, 0), g)  BY <3>1, SendsGood
    <3>. QED BY <2>2, <3>2
  <2>. QED BY <2>1, <2>2
<1>. HIDE DEF ready
<1>3. Good(created, g)  BY <1>2, InvokesGood
<1>. HIDE DEF created
<1>4. Good(usher, g)  BY <1>3, InvokesGood
<1>. HIDE DEF usher
<1>5. Good(SendFCSubscribe(usher), g)  BY <1>4, InvokesGood
<1>6. ConnectResult(q, m) = IF options.write THEN created
                            ELSE IF options.subscribe \/ options.live THEN SendFCSubscribe(usher) ELSE usher
  BY DEF ConnectResult, token, ready, created, usher
<1>. QED BY <1>3, <1>4, <1>5, <1>6

\* The commands that follow upon the result of createStream, for the stream it names.
LEMMA CreateStreamResultGood ==
  ASSUME NEW q, NEW g, Good(q, g), q.c.socket, NEW m,
         Alive(q.out, m.v, g.alive), Held(m.v, q.out, g.msgs, g.alive)
  PROVE  Good(CreateStreamResult(q, m), g)
<1>. DEFINE named == [q EXCEPT !.c.stream = m.v]
            listed == IF options.plst THEN SendPlaylist(named) ELSE named
            played == SendPlay(listed)
<1>1. /\ DOMAIN q = Handled /\ DOMAIN q.c = Fields
      /\ Whole(q.c, q.out, g.msgs, g.alive) /\ m.v \in Nat \ {0}
  BY DEF Good, Whole, Typed, Alive
<1>2. /\ DOMAIN named = Handled /\ named.again = q.again /\ named.out = q.out
      /\ DOMAIN named.c = Fields /\ named.c.socket = q.c.socket /\ named.c.stream = m.v
      /\ named.c.playing = q.c.playing /\ named.c.calls = q.c.calls /\ named.c.invokes = q.c.invokes
      /\ named.c.swf = q.c.swf /\ named.c.keys = q.c.keys
  BY <1>1 DEF Handled, Fields
<1>. HIDE DEF named
<1>3. m.v \in Int /\ m.v > 0 /\ m.v # 0  BY <1>1
<1>4. Publisher(named.c.playing, named.c.stream, named.c.calls, named.out, g.msgs)
  BY <1>2, <1>3 DEF Publisher
<1>5. Whole(named.c, named.out, g.msgs, g.alive)
  BY <1>1, <1>2, <1>3, <1>4 DEF Whole, Typed
<1>6. Good(named, g) /\ named.c.stream > 0  BY <1>2, <1>3, <1>5 DEF Good
<1>7. Good(SendPublish(named), g)  BY <1>6, StreamsGood
<1>8. Good(listed, g) /\ (listed.c.socket => listed.c.stream > 0)
  <2>1. CASE ~options.plst  BY <1>6, <2>1
  <2>2. CASE options.plst
    <3>1. Good(SendPlaylist(named), g) /\ Steady(named, SendPlaylist(named))
      BY <1>6, StreamsGood
    <3>. QED BY <1>6, <2>2, <3>1 DEF Steady
  <2>. QED BY <2>1, <2>2
<1>. HIDE DEF listed
<1>9. Good(played, g) /\ (played.c.socket => played.c.stream > 0)
  BY <1>8, StreamsGood DEF Steady
<1>. HIDE DEF played
<1>10. Good(SendCtrl(played, 3, played.c.stream), g)
  BY <1>9, StreamsGood
<1>. QED BY <1>7, <1>10 DEF CreateStreamResult, named, listed, played

\* The caller may play once there is a stream; a reader always may.
LEMMA PlayingGood ==
  ASSUME NEW q, NEW g, Good(q, g), q.c.socket, options.write => q.c.stream > 0
  PROVE  Good([q EXCEPT !.c.playing = TRUE], g)
<1>. DEFINE r == [q EXCEPT !.c.playing = TRUE]
<1>1. DOMAIN q = Handled /\ DOMAIN q.c = Fields /\ Whole(q.c, q.out, g.msgs, g.alive)
  BY DEF Good, Whole, Typed
<1>2. /\ DOMAIN r = Handled /\ r.again = q.again /\ r.out = q.out
      /\ DOMAIN r.c = Fields /\ r.c.socket = q.c.socket /\ r.c.stream = q.c.stream
      /\ r.c.playing \in BOOLEAN /\ r.c.calls = q.c.calls /\ r.c.invokes = q.c.invokes
      /\ r.c.swf = q.c.swf /\ r.c.keys = q.c.keys
  BY <1>1 DEF Handled, Fields
<1>. HIDE DEF r
<1>3. Publisher(r.c.playing, r.c.stream, r.c.calls, r.out, g.msgs)
  BY <1>2 DEF Publisher
<1>4. Whole(r.c, r.out, g.msgs, g.alive)
  BY <1>1, <1>2, <1>3 DEF Whole, Typed
<1>. QED BY <1>2, <1>4 DEF Good, r

\* A result.
LEMMA ResultGood ==
  ASSUME NEW q, NEW g, Good(q, g), q.c.socket, NEW m, m.kind = "_result", Fits(q, m, g)
  PROVE  Good(Result(q, m), g)
<1>. DEFINE name == Answered(q.c, m.txn)
            erased == EraseNumber(q, m.txn)
<1>1. IsResult(m)  BY DEF IsResult
<1>2. /\ Good(erased, g) /\ Erased(q, erased) /\ name \in {"", m.of}
      /\ name # "" => \E k \in 1..Len(q.c.calls) : q.c.calls[k].name = name
  BY <1>1, EraseNumberGood
<1>3. Result(q, m) = CASE name = "connect" -> ConnectResult(erased, m)
                       [] name = "createStream" -> CreateStreamResult(erased, m)
                       [] name \in {"play", "publish"} -> [erased EXCEPT !.c.playing = TRUE]
                       [] OTHER -> erased
  BY DEF Result
<1>. HIDE DEF name, erased
<1>4. CASE name = "connect"
  BY <1>2, <1>3, <1>4, ConnectResultGood
<1>5. CASE name = "createStream"
  <2>1. Creates(m)  BY <1>2, <1>5 DEF Creates
  <2>2. /\ Alive(erased.out, m.v, g.alive) /\ Held(m.v, erased.out, g.msgs, g.alive)
        /\ erased.c.socket
    BY <1>2, <2>1 DEF Fits, Erased
  <2>3. Good(CreateStreamResult(erased, m), g)
    BY <1>2, <2>2, CreateStreamResultGood
  <2>4. Result(q, m) = CreateStreamResult(erased, m)  BY <1>3, <1>5
  <2>. QED BY <2>3, <2>4
<1>6. CASE name \in {"play", "publish"}
  <2>1. options.write => q.c.stream > 0
    <3>1. PICK k \in 1..Len(q.c.calls) : q.c.calls[k].name = name  BY <1>2, <1>6
    <3>2. Publisher(q.c.playing, q.c.stream, q.c.calls, q.out, g.msgs)  BY DEF Good, Whole
    <3>. QED BY <1>6, <3>1, <3>2 DEF Publisher, Publishing
  <2>2. erased.c.socket /\ erased.c.stream = q.c.stream  BY <1>2 DEF Erased
  <2>3. Good([erased EXCEPT !.c.playing = TRUE], g)  BY <1>2, <2>1, <2>2, PlayingGood
  <2>4. Result(q, m) = [erased EXCEPT !.c.playing = TRUE]  BY <1>3, <1>6
  <2>. QED BY <2>3, <2>4
<1>7. CASE name \notin {"connect", "createStream", "play", "publish"}
  <2>1. Result(q, m) = erased  BY <1>3, <1>7
  <2>. QED BY <1>2, <2>1
<1>. QED BY <1>4, <1>5, <1>6, <1>7

\* An error, upon which a publisher may give up the connection for another.
LEMMA ErrorGood ==
  ASSUME NEW q, NEW g, Good(q, g), q.c.socket, NEW m, m.kind = "_error", Fits(q, m, g)
  PROVE  Good(Error(q, m), g)
<1>. DEFINE auth == PublisherAuth(q.c, m.code)
            erased == EraseNumber(q, m.txn)
            closed == CloseInternal(erased)
            again == [closed EXCEPT !.c.auth = auth, !.again = TRUE]
<1>1. IsResult(m)  BY DEF IsResult
<1>2. Good(erased, g)  BY <1>1, EraseNumberGood
<1>3. Error(q, m) \in {q, erased, again}  BY DEF Error
<1>. HIDE DEF auth, erased
<1>4. Good(closed, g) /\ ~closed.c.socket  BY <1>2, GoodCloses
<1>. HIDE DEF closed
<1>5. Good(again, g)
  <2>1. /\ DOMAIN closed = Handled /\ DOMAIN closed.c = Fields
        /\ Sendable(closed, g) /\ Typed(closed.c) /\ Shut(closed.c)
    BY <1>4, GoodIsSendable DEF Good, Whole, Typed
  <2>2. /\ DOMAIN again = Handled /\ again.again \in BOOLEAN /\ again.out = closed.out
        /\ DOMAIN again.c = Fields /\ again.c.socket = closed.c.socket
        /\ again.c.stream = closed.c.stream /\ again.c.playing = closed.c.playing
        /\ again.c.calls = closed.c.calls /\ again.c.invokes = closed.c.invokes
        /\ again.c.swf = closed.c.swf
    BY <2>1 DEF Handled, Fields
  <2>. HIDE DEF again
  <2>3. Sendable(again, g) /\ Typed(again.c) /\ Shut(again.c) /\ ~again.c.socket
    BY <1>4, <2>1, <2>2 DEF Sendable, Typed, Shut
  <2>4. Good(again, g)  BY <2>3, GoodShut
  <2>. QED BY <2>4
<1>. QED BY <1>2, <1>3, <1>5

\* A status: failures close the connection, and a stream may begin or end.
LEMMA OnStatusGood ==
  ASSUME NEW q, NEW g, Good(q, g), q.c.socket, NEW m, m.kind = "onStatus", Fits(q, m, g)
  PROVE  Good(OnStatus(q, m), g)
<1>. DEFINE bare == [q EXCEPT !.c.stream = -1]
            played == [q EXCEPT !.c.playing = TRUE]
<1>1. CASE m.code \in Failed
  <2>1. OnStatus(q, m) = CloseInternal(bare)  BY <1>1 DEF OnStatus, Failed, Started, Stopped
  <2>2. Sendable(q, g) /\ q.c.invokes \in Nat
    BY GoodIsSendable DEF Good, Whole, Typed
  <2>3. Sendable(bare, g) /\ bare.c.invokes \in Nat /\ bare.c.stream = -1
    BY <2>2 DEF Sendable, Handled, Fields
  <2>. HIDE DEF bare
  <2>4. bare.c.stream \in Int /\ ~(bare.c.stream > 0)  BY <2>3
  <2>5. Good(CloseInternal(bare), g)  BY <2>3, <2>4, CloseGood
  <2>. QED BY <2>1, <2>5
<1>2. CASE m.code \in Started \/ m.code = "NetStream.Publish.Start"
  <2>1. options.write => q.c.stream > 0  BY <1>2 DEF Fits, Begins
  <2>2. Good(played, g)  BY <2>1, PlayingGood
  <2>. HIDE DEF played
  <2>3. "play" \notin ActedUpon /\ "publish" \notin ActedUpon  BY DEF ActedUpon
  <2>4. Good(EraseName(played, "play"), g) /\ Good(EraseName(played, "publish"), g)
    BY <2>2, <2>3, EraseNameGood
  <2>5. CASE m.code \in Started
    <3>1. OnStatus(q, m) = EraseName(played, "play")
      BY <2>5 DEF OnStatus, Failed, Started, Stopped, played
    <3>. QED BY <2>4, <3>1
  <2>6. CASE m.code = "NetStream.Publish.Start"
    <3>1. OnStatus(q, m) = EraseName(played, "publish")
      BY <2>6 DEF OnStatus, Failed, Started, Stopped, played
    <3>. QED BY <2>4, <3>1
  <2>. QED BY <1>2, <2>5, <2>6
<1>3. CASE m.code \in Stopped
  <2>1. OnStatus(q, m) = [CloseInternal(q) EXCEPT !.ret = 2]
    BY <1>3 DEF OnStatus, Failed, Started, Stopped
  <2>2. Good(CloseInternal(q), g)  BY GoodCloses
  <2>3. Good([CloseInternal(q) EXCEPT !.ret = 2], g)  BY <2>2, Untracked
  <2>. QED BY <2>1, <2>3
<1>4. CASE m.code = "NetStream.Pause.Notify"
  <2>1. OnStatus(q, m) = PauseNotify(q)
    BY <1>4 DEF OnStatus, Failed, Started, Stopped
  <2>2. Good(SendPause(q, FALSE), g)  BY InvokesGood
  <2>3. Good([SendPause(q, FALSE) EXCEPT !.c.pausing = 3], g)  BY <2>2, Untracked
  <2>. QED BY <2>1, <2>3 DEF PauseNotify
<1>5. CASE ~(m.code \in Failed) /\ ~(m.code \in Started) /\ m.code # "NetStream.Publish.Start"
           /\ ~(m.code \in Stopped) /\ m.code # "NetStream.Pause.Notify"
  <2>1. OnStatus(q, m) = q  BY <1>5 DEF OnStatus
  <2>. QED BY <2>1
<1>. QED BY <1>1, <1>2, <1>3, <1>4, <1>5

\* A command of the server.
LEMMA HandleInvokeGood ==
  ASSUME NEW q, NEW g, Good(q, g), q.c.socket, NEW m, Fits(q, m, g)
  PROVE  Good(HandleInvoke(q, m), g)
<1>1. CASE m.kind = "_result"
  <2>1. HandleInvoke(q, m) = Result(q, m)  BY <1>1 DEF HandleInvoke
  <2>. QED BY <1>1, <2>1, ResultGood
<1>2. CASE m.kind = "_error"
  <2>1. HandleInvoke(q, m) = Error(q, m)  BY <1>2 DEF HandleInvoke
  <2>. QED BY <1>2, <2>1, ErrorGood
<1>3. CASE m.kind = "onStatus"
  <2>1. HandleInvoke(q, m) = OnStatus(q, m)  BY <1>3 DEF HandleInvoke
  <2>. QED BY <1>3, <2>1, OnStatusGood
<1>4. CASE m.kind = "onBWDone"
  <2>1. HandleInvoke(q, m) = SendCheckBW(q) \/ HandleInvoke(q, m) = q  BY <1>4 DEF HandleInvoke
  <2>2. Good(SendCheckBW(q), g)  BY InvokesGood
  <2>. QED BY <2>1, <2>2
<1>5. CASE m.kind = "_onbwcheck"
  <2>1. HandleInvoke(q, m) = SendCheckBWResult(q, m.txn)  BY <1>5 DEF HandleInvoke
  <2>2. Good(SendCheckBWResult(q, m.txn), g)  BY SendsGood
  <2>. QED BY <2>1, <2>2
<1>6. CASE m.kind = "_onbwdone"
  <2>1. HandleInvoke(q, m) = EraseName(q, "_checkbw")  BY <1>6 DEF HandleInvoke
  <2>2. "_checkbw" \notin ActedUpon  BY DEF ActedUpon
  <2>. QED BY <2>1, <2>2, EraseNameGood
<1>7. CASE m.kind = "ping"
  <2>1. HandleInvoke(q, m) = SendPong(q, m.txn)  BY <1>7 DEF HandleInvoke
  <2>2. Good(SendPong(q, m.txn), g)  BY SendsGood
  <2>. QED BY <2>1, <2>2
<1>8. Good(CloseInternal(q), g)  BY GoodCloses
<1>9. CASE m.kind = "onFCUnsubscribe"
  <2>1. HandleInvoke(q, m) = [CloseInternal(q) EXCEPT !.ret = 2]  BY <1>9 DEF HandleInvoke
  <2>2. Good([CloseInternal(q) EXCEPT !.ret = 2], g)  BY <1>8, Untracked
  <2>. QED BY <2>1, <2>2
<1>10. CASE m.kind = "close"
  <2>1. HandleInvoke(q, m) = CloseInternal(q)  BY <1>10 DEF HandleInvoke, CloseCommand
  <2>. QED BY <1>8, <2>1
<1>11. CASE m.kind = "playlist_ready"
  <2>1. HandleInvoke(q, m) = EraseName(q, "set_playlist")  BY <1>11 DEF HandleInvoke
  <2>2. "set_playlist" \notin ActedUpon  BY DEF ActedUpon
  <2>. QED BY <2>1, <2>2, EraseNameGood
<1>12. CASE m.kind \notin {"_result", "_error", "onStatus", "onBWDone", "_onbwcheck", "_onbwdone",
                           "ping", "onFCUnsubscribe", "close", "playlist_ready"}
  <2>1. HandleInvoke(q, m) = q  BY <1>12 DEF HandleInvoke
  <2>. QED BY <2>1
<1>. QED BY <1>1, <1>2, <1>3, <1>4, <1>5, <1>6, <1>7, <1>9, <1>10, <1>11, <1>12

\* The buffer of the server is empty: a pause, or the end of one.
LEMMA BufferEmptyGood ==
  ASSUME NEW q, NEW g, Good(q, g)
  PROVE  Good(BufferEmpty(q), g)
<1>. DEFINE stamped == [q EXCEPT !.c.pauseStamp = MediaTime(q.c)]
<1>1. Good(stamped, g)  BY Untracked
<1>2. BufferEmpty(q) \in {q, [SendPause(stamped, TRUE) EXCEPT !.c.pausing = 1],
                          [SendPause(q, FALSE) EXCEPT !.c.pausing = 3]}
  BY DEF BufferEmpty
<1>. HIDE DEF stamped
<1>3. Good(SendPause(stamped, TRUE), g)  BY <1>1, InvokesGood
<1>4. Good(SendPause(q, FALSE), g)  BY InvokesGood
<1>5. Good([SendPause(stamped, TRUE) EXCEPT !.c.pausing = 1], g)  BY <1>3, Untracked
<1>6. Good([SendPause(q, FALSE) EXCEPT !.c.pausing = 3], g)  BY <1>4, Untracked
<1>. QED BY <1>2, <1>5, <1>6

\* A SWF verification comes only over a connection whose handshake made the hash.
LEMMA HandleCtrlGood ==
  ASSUME NEW q, NEW g, Good(q, g), NEW m, m.kind = "ctrl", Fits(q, m, g)
  PROVE  Good(HandleCtrl(q, m), g)
<1>1. CASE m.v = 1
  <2>. DEFINE n == IF q.c.pausing = 1 THEN 2 ELSE q.c.pausing
  <2>1. HandleCtrl(q, m) = [q EXCEPT !.c.pausing = n]
    BY <1>1 DEF HandleCtrl
  <2>. HIDE DEF n
  <2>2. Good([q EXCEPT !.c.pausing = n], g)  BY Untracked
  <2>. QED BY <2>1, <2>2
<1>2. CASE m.v = 6
  <2>1. HandleCtrl(q, m) = SendCtrl(q, 7, 0)  BY <1>2 DEF HandleCtrl
  <2>2. Good(SendCtrl(q, 7, 0), g)  BY SendsGood
  <2>. QED BY <2>1, <2>2
<1>3. CASE m.v = 26
  <2>1. HandleCtrl(q, m) = IF options.swf THEN SendCtrl(q, 27, q.c.swf) ELSE q
    BY <1>3 DEF HandleCtrl
  <2>2. ASSUME options.swf PROVE Good(SendCtrl(q, 27, q.c.swf), g)
    <3>. DEFINE r == Request("ctrl", 27, q.c.swf, 0)
    <3>1. r.name = "ctrl" /\ r.txn = 27 /\ r.stream = q.c.swf  BY DEF Request
    <3>2. q.c.swf = 1  BY <1>3, <2>2 DEF Fits, Good
    <3>. HIDE DEF r
    <3>3. r.name \notin Replied /\ ~Opens(r) /\ ~Touches(r) /\ r.name # "deleteStream" /\ r.stream = 1
      BY <3>1, <3>2 DEF Replied, Opens, Touches
    <3>4. Good(Send(q, r), g)  BY <3>3, SendGood
    <3>. QED BY <3>4 DEF SendCtrl, r
  <2>. QED BY <2>1, <2>2
<1>4. CASE m.v = 31
  <2>1. HandleCtrl(q, m) = BufferEmpty(q)  BY <1>4 DEF HandleCtrl
  <2>. QED BY <2>1, BufferEmptyGood
<1>5. CASE m.v \notin {1, 6, 26, 31}
  <2>1. HandleCtrl(q, m) = q  BY <1>5 DEF HandleCtrl
  <2>. QED BY <2>1
<1>. QED BY <1>1, <1>2, <1>3, <1>4, <1>5

\* A media message.
LEMMA HandleMediaGood ==
  ASSUME NEW q, NEW g, Good(q, g), NEW m
  PROVE  Good(HandleMedia(q, m), g)
<1>. DEFINE r == HandleMedia(q, m)
<1>1. DOMAIN q = Handled /\ DOMAIN q.c = Fields
  BY DEF Good, Whole, Typed
<1>2. /\ DOMAIN r = Handled /\ r.again = q.again /\ r.out = q.out
      /\ DOMAIN r.c = Fields /\ r.c.socket = q.c.socket /\ r.c.stream = q.c.stream
      /\ r.c.playing = q.c.playing /\ r.c.calls = q.c.calls /\ r.c.invokes = q.c.invokes
      /\ r.c.swf = q.c.swf /\ r.c.keys = q.c.keys
  BY <1>1 DEF HandleMedia, Handled, Fields
<1>. HIDE DEF r
<1>3. Good(r, g)  BY <1>2, GoodAlike
<1>. QED BY <1>3 DEF r

\* Whatever message it is, and however many sends of the handler fail.
LEMMA PacketGood ==
  ASSUME NEW q, NEW g, Good(q, g), q.c.socket, NEW m, Fits(q, m, g)
  PROVE  Good(RTMP_ClientPacket(q, m), g)
<1>1. CASE m.kind = "media"
  <2>1. RTMP_ClientPacket(q, m) = HandleMedia(q, m)  BY <1>1 DEF RTMP_ClientPacket
  <2>. QED BY <2>1, HandleMediaGood
<1>2. CASE m.kind = "ctrl"
  <2>1. RTMP_ClientPacket(q, m) = HandleCtrl(q, m)  BY <1>2 DEF RTMP_ClientPacket
  <2>. QED BY <1>2, <2>1, HandleCtrlGood
<1>3. CASE m.kind # "media" /\ m.kind # "ctrl"
  <2>1. RTMP_ClientPacket(q, m) = HandleInvoke(q, m)  BY <1>3 DEF RTMP_ClientPacket
  <2>. QED BY <2>1, HandleInvokeGood
<1>. QED BY <1>1, <1>2, <1>3

-----------------------------------------------------------------------------
(* The handshake: what comes of a server of any kind.                      *)

Made(sums) == ClientSignature(options.enc, options.swf, sums)
Answer(sig) == ClientAnswer(options.enc, options.swf, sig)
Accepts(own, other, reply) == ClientAccepts(own, options.enc, options.swf, other, reply)

\* The client gives up the server exactly if it is not genuine; if it does not, what it
\* is left with is plain exactly if nobody encrypts.
Judged(own, other, reply, signed, genuine) ==
  /\ ~(Answer(other).ok /\ Accepts(own, other, reply)) => ~genuine
  /\ Answer(other).ok /\ Accepts(own, other, reply) =>
       genuine /\ ((Answer(other).keys = NoKeys) <=> ~(options.enc /\ signed))
  /\ signed /\ options.swf => FP9HandShake(options.enc, options.swf, other)
Keyed(own, other, reply, keys) ==
  Answer(other).ok /\ Accepts(own, other, reply) => Crosswise(Answer(other).keys, keys)

\* The fields of a signature.
LEMMA SignatureIs ==
  ASSUME NEW of, NEW type, NEW version, NEW alg, NEW encrypted \in BOOLEAN, NEW sums, NEW key
  PROVE  LET sig == Signature(of, type, version, alg, encrypted, sums, key) IN
         /\ sig.type = type /\ sig.version = version
         /\ version # 0 =>
              sig = [of |-> of, type |-> type, version |-> version, sums |-> sums,
                     digest |-> [pos |-> digoff(alg, sums), key |-> key, of |-> of],
                     dh |-> IF encrypted THEN [pos |-> dhoff(alg, sums), public |-> of] ELSE NoPublic]
BY DEF Signature, CalculateDigest

\* What the server sees in the client's signature: whether it is signed, and how.
LEMMA MadeIs ==
  ASSUME NEW sums, options.enc \in BOOLEAN, options.swf \in BOOLEAN
  PROVE  /\ ServerFP9(Made(sums)) <=> options.enc \/ options.swf
         /\ Encrypted(Made(sums)) <=> options.enc
         /\ ServerAlgorithm(Made(sums)) = ClientAlgorithm(options.enc)
         /\ ServerAlgorithm(Made(sums)) \in {0, 1}
<1>. DEFINE sig == Made(sums)
            version == CASE options.enc -> 128 [] ~options.enc /\ options.swf -> 10 [] OTHER -> 0
<1>1. /\ sig.type = IF options.enc THEN 6 ELSE 3
      /\ sig.version = version
  BY SignatureIs DEF Made, ClientSignature
<1>2. version # 0 <=> options.enc \/ options.swf  OBVIOUS
<1>. HIDE DEF sig, version
<1>3. Encrypted(sig) <=> options.enc  BY <1>1 DEF Encrypted
<1>4. ServerFP9(sig) <=> options.enc \/ options.swf  BY <1>1, <1>2, <1>3 DEF ServerFP9
<1>5. ServerAlgorithm(sig) = ClientAlgorithm(options.enc) /\ ServerAlgorithm(sig) \in {0, 1}
  BY <1>3 DEF ServerAlgorithm, ClientAlgorithm
<1>. QED BY <1>3, <1>4, <1>5 DEF sig

\* A server that is not asked for signatures, or knows nothing of them.
LEMMA UnsignedShake ==
  ASSUME NEW own, NEW other, NEW reply, ~FP9HandShake(options.enc, options.swf, other),
         NEW signed \in BOOLEAN, ~(options.enc /\ signed), ~(options.swf /\ signed)
  PROVE  Judged(own, other, reply, signed, TRUE) /\ Keyed(own, other, reply, NoKeys)
<1>1. Answer(other) = Unsigned /\ Accepts(own, other, reply)
  BY DEF Answer, ClientAnswer, Accepts, ClientAccepts
<1>2. Unsigned.ok /\ Unsigned.keys = NoKeys  BY DEF Unsigned
<1>3. Crosswise(NoKeys, NoKeys)  BY DEF Crosswise, NoKeys
<1>. QED BY <1>1, <1>2, <1>3 DEF Judged, Keyed

\* Two signed peers: whatever the random bytes and whichever algorithm the server takes,
\* the client accepts a genuine answer and turns away an echo or a false signature.
LEMMA SignedShake ==
  ASSUME NEW mine \in Sums, NEW theirs \in Sums, NEW alg \in {0, 1},
         options.enc \in BOOLEAN, options.swf \in BOOLEAN, options.enc \/ options.swf
  PROVE  LET sig == ServerSignature(Made(mine), alg, theirs)
             answer == ServerAnswer(Made(mine)) IN
         /\ FP9HandShake(options.enc, options.swf, sig)
         /\ Judged(Made(mine), sig, answer.reply, TRUE, TRUE)
         /\ Keyed(Made(mine), sig, answer.reply, answer.keys)
         /\ Judged(Made(mine), sig, Echo, TRUE, FALSE)
         /\ \A keys : Keyed(Made(mine), sig, Echo, keys)
         /\ Judged(Made(mine), [sig EXCEPT !.digest.key = ""], answer.reply, TRUE, FALSE)
         /\ \A keys : Keyed(Made(mine), [sig EXCEPT !.digest.key = ""], answer.reply, keys)
<1>. DEFINE own == Made(mine)
            type == ServerType(own)
            sig == ServerSignature(own, alg, theirs)
            reply == ServerAnswer(own).reply
            keys == ServerAnswer(own).keys
            broken == [sig EXCEPT !.digest.key = ""]
            dh == IF options.enc THEN [pos |-> dhoff(alg, theirs), public |-> "server"] ELSE NoPublic
<1>1. ServerFP9(own) /\ (Encrypted(own) <=> options.enc)  BY MadeIs
<1>2. sig = Signature("server", type, 3, alg, Encrypted(own), theirs, "FMS")
  BY <1>1 DEF ServerSignature
<1>3. Encrypted(own) = options.enc  BY <1>1 DEF Encrypted
<1>4. /\ sig.type = type /\ sig.version = 3
      /\ sig = [of |-> "server", type |-> type, version |-> 3, sums |-> theirs,
                digest |-> [pos |-> digoff(alg, theirs), key |-> "FMS", of |-> "server"], dh |-> dh]
  BY <1>2, <1>3, SignatureIs
<1>5. /\ Answer(sig).ok /\ Accepts(own, sig, reply) /\ Crosswise(Answer(sig).keys, keys)
      /\ options.enc => Answer(sig).keys # NoKeys
  BY Agreement DEF Made, Answer, Accepts
<1>. HIDE DEF own, sig, type, dh, reply, keys
<1>6. FP9HandShake(options.enc, options.swf, sig)  BY <1>4 DEF FP9HandShake
<1>7. ~options.enc => Answer(sig).keys = NoKeys
  BY <1>6 DEF Answer, ClientAnswer, Verified
<1>8. ~Accepts(own, sig, Echo)
  <2>1. Echo.key = "" /\ SignedResponse(own.digest, "FMS", sig.type).key = "FMS"
    BY DEF Echo, SignedResponse
  <2>2. Echo # SignedResponse(own.digest, "FMS", sig.type)  BY <2>1
  <2>. QED BY <1>6, <2>2 DEF Accepts, ClientAccepts
<1>9. broken.digest.key = "" /\ broken.type = sig.type /\ broken.version = sig.version
      /\ broken.sums = sig.sums
  <2>1. /\ DOMAIN sig = {"of", "type", "version", "sums", "digest", "dh"}
        /\ DOMAIN sig.digest = {"pos", "key", "of"}
    BY <1>4
  <2>. QED BY <2>1
<1>. HIDE DEF broken
<1>10. FP9HandShake(options.enc, options.swf, broken)
  BY <1>6, <1>9 DEF FP9HandShake
<1>11. ~Answer(broken).ok
  <2>1. ASSUME NEW pos PROVE ~VerifyDigest(pos, broken, "FMS")
    <3>1. CalculateDigest(pos, broken, "FMS").key = "FMS"  BY DEF CalculateDigest
    <3>. QED BY <1>9, <3>1 DEF VerifyDigest
  <2>. QED BY <1>10, <2>1 DEF Answer, ClientAnswer, Verified
<1>12. Judged(own, sig, reply, TRUE, TRUE) /\ Keyed(own, sig, reply, keys)
  BY <1>5, <1>6, <1>7 DEF Judged, Keyed
<1>13. Judged(own, sig, Echo, TRUE, FALSE) /\ \A k : Keyed(own, sig, Echo, k)
  BY <1>6, <1>8 DEF Judged, Keyed
<1>14. Judged(own, broken, reply, TRUE, FALSE) /\ \A k : Keyed(own, broken, reply, k)
  BY <1>10, <1>11 DEF Judged, Keyed
<1>. QED BY <1>6, <1>12, <1>13, <1>14 DEF own, sig, reply, keys, broken

\* Whatever server answers, the client judges it rightly, and the keys fit.
LEMMA ShakeSound ==
  ASSUME NEW mine \in Sums, NEW theirs \in Sums, NEW kind \in Kinds,
         options.enc \in BOOLEAN, options.swf \in BOOLEAN
  PROVE  LET shake == Shake(kind, Made(mine), theirs) IN
         /\ shake.signed \in BOOLEAN
         /\ Judged(Made(mine), shake.sig, shake.answer.reply, shake.signed, shake.genuine)
         /\ Keyed(Made(mine), shake.sig, shake.answer.reply, shake.answer.keys)
<1>. DEFINE own == Made(mine)
            expected == ServerAlgorithm(own)
            alg == IF kind = "other" THEN 1 - expected ELSE expected
            signed == ServerSignature(own, alg, theirs)
            plain == Signature("server", 3, 0, 0, FALSE, theirs, "")
            versed == kind \notin {"plain", "old"}
            answer == IF versed THEN ServerAnswer(own) ELSE Unsigned
            shake == Shake(kind, own, theirs)
<1>1. /\ shake.sig = CASE kind = "false" -> [signed EXCEPT !.digest.key = ""]
                       [] kind # "false" /\ versed -> signed
                       [] OTHER -> plain
      /\ shake.answer = IF kind = "echo" THEN [answer EXCEPT !.reply = Echo] ELSE answer
      /\ shake.signed = (versed /\ ServerFP9(own))
      /\ shake.genuine = (kind \notin {"false", "echo"} \/ ~ServerFP9(own))
  BY DEF Shake
<1>2. /\ ServerFP9(own) <=> options.enc \/ options.swf
      /\ expected \in {0, 1}
  BY MadeIs
<1>3. alg \in {0, 1}  BY <1>2
<1>4. plain.type = 3 /\ plain.version = 0  BY DEF Signature
<1>5. DOMAIN Unsigned = {"ok", "keys", "reply"} /\ Unsigned.keys = NoKeys  BY DEF Unsigned
<1>6. DOMAIN ServerAnswer(own) = {"ok", "keys", "reply"}
  BY <1>5 DEF ServerAnswer, Verified
<1>. HIDE DEF own, expected, alg, signed, plain, shake
<1>7. CASE ~(options.enc \/ options.swf)
  <2>1. ~shake.signed /\ shake.signed \in BOOLEAN /\ shake.genuine = TRUE  BY <1>1, <1>2, <1>7
  <2>2. ~FP9HandShake(options.enc, options.swf, shake.sig)  BY <1>7 DEF FP9HandShake
  <2>3. shake.answer.keys = NoKeys
    <3>1. ServerAnswer(own) = Unsigned  BY <1>2, <1>7 DEF ServerAnswer
    <3>2. answer = Unsigned  BY <3>1
    <3>. QED BY <1>1, <1>5, <3>2
  <2>. QED BY <2>1, <2>2, <2>3, UnsignedShake DEF own, shake
<1>8. CASE (options.enc \/ options.swf) /\ kind \in {"plain", "old"}
  <2>1. ~shake.signed /\ shake.signed \in BOOLEAN /\ shake.genuine = TRUE  BY <1>1, <1>8
  <2>2. shake.sig = plain  BY <1>1, <1>8
  <2>3. ~FP9HandShake(options.enc, options.swf, shake.sig)  BY <1>4, <2>2 DEF FP9HandShake
  <2>4. shake.answer.keys = NoKeys  BY <1>1, <1>5, <1>8
  <2>. QED BY <2>1, <2>3, <2>4, UnsignedShake DEF own, shake
<1>9. CASE (options.enc \/ options.swf) /\ kind \in {"crypto", "other"}
  <2>1. shake.sig = signed /\ shake.answer = ServerAnswer(own) /\ shake.signed = TRUE /\ shake.genuine = TRUE
    BY <1>1, <1>2, <1>9
  <2>2. /\ Judged(own, signed, ServerAnswer(own).reply, TRUE, TRUE)
        /\ Keyed(own, signed, ServerAnswer(own).reply, ServerAnswer(own).keys)
    BY <1>3, <1>9, SignedShake DEF own, signed
  <2>. QED BY <2>1, <2>2 DEF own, shake
<1>10. CASE (options.enc \/ options.swf) /\ kind = "false"
  <2>1. /\ shake.sig = [signed EXCEPT !.digest.key = ""] /\ shake.answer = ServerAnswer(own)
        /\ shake.signed = TRUE /\ shake.genuine = FALSE
    BY <1>1, <1>2, <1>10
  <2>2. /\ Judged(own, [signed EXCEPT !.digest.key = ""], ServerAnswer(own).reply, TRUE, FALSE)
        /\ \A k : Keyed(own, [signed EXCEPT !.digest.key = ""], ServerAnswer(own).reply, k)
    BY <1>3, <1>10, SignedShake DEF own, signed
  <2>. QED BY <2>1, <2>2 DEF own, shake
<1>11. CASE (options.enc \/ options.swf) /\ kind = "echo"
  <2>1. /\ shake.sig = signed /\ shake.answer.reply = Echo
        /\ shake.signed = TRUE /\ shake.genuine = FALSE
    BY <1>1, <1>2, <1>6, <1>11
  <2>2. /\ Judged(own, signed, Echo, TRUE, FALSE) /\ \A k : Keyed(own, signed, Echo, k)
    BY <1>3, <1>11, SignedShake DEF own, signed
  <2>. QED BY <2>1, <2>2 DEF own, shake
<1>. QED BY <1>7, <1>8, <1>9, <1>10, <1>11 DEF Kinds

-----------------------------------------------------------------------------
(* The server: what it answers and what a command changes there.           *)

\* One answer to a command m.
Answers(m, r) ==
  /\ IsResult(r) => m.name \in Replied /\ r.txn = m.txn /\ r.of = m.name
  /\ Creates(r) => m.name = "createStream" /\ r.v = server.next
  /\ Begins(r) => m.name \in Publishing
  /\ r.kind = "ctrl" /\ r.v = 26 => server.signed
Sequel(m, replies) ==
  \/ replies = <<>>
  \/ \E a : replies = <<a>> /\ Answers(m, a)
  \/ \E a, b : replies = <<a, b>> /\ Answers(m, a) /\ Answers(m, b) /\ ~(IsResult(a) /\ IsResult(b))

\* The answers the server has are answers to the command.
LEMMA AnswerIs ==
  ASSUME NEW m
  PROVE  /\ \A v : m.name \in Replied /\ (m.name = "createStream" => v = server.next) =>
              Answers(m, ResultOf(m, v)) /\ Answers(m, [ResultOf(m, v) EXCEPT !.stream = m.stream])
         /\ \A code : m.name \in Replied => Answers(m, ErrorOf(m, code))
         /\ \A code : m.name \in Publishing \/ code \notin Started \cup {"NetStream.Publish.Start"} =>
              /\ Answers(m, Status(code)) /\ Answers(m, [Status(code) EXCEPT !.stream = m.stream])
              /\ ~IsResult(Status(code)) /\ ~IsResult([Status(code) EXCEPT !.stream = m.stream])
         /\ \A v : v # 26 \/ server.signed => Answers(m, Control(v)) /\ ~IsResult(Control(v))
         /\ \A kind, txn : kind \notin {"_result", "_error", "onStatus", "ctrl"} =>
              Answers(m, Reply(kind, txn, 0, "", "")) /\ ~IsResult(Reply(kind, txn, 0, "", ""))
<1>1. ASSUME NEW r, r.kind = "_result", r.txn = m.txn, r.of = m.name, m.name \in Replied,
             m.name = "createStream" => r.v = server.next
      PROVE  Answers(m, r)
  BY <1>1 DEF Answers, IsResult, Creates, Begins
<1>2. ASSUME NEW r, r.kind = "_error", r.txn = m.txn, r.of = m.name, m.name \in Replied
      PROVE  Answers(m, r)
  BY <1>2 DEF Answers, IsResult, Creates, Begins
<1>3. ASSUME NEW r, r.kind = "onStatus",
             m.name \in Publishing \/ r.code \notin Started \cup {"NetStream.Publish.Start"}
      PROVE  Answers(m, r) /\ ~IsResult(r)
  BY <1>3 DEF Answers, IsResult, Creates, Begins
<1>4. ASSUME NEW r, r.kind \notin {"_result", "_error", "onStatus"},
             r.kind # "ctrl" \/ r.v # 26 \/ server.signed
      PROVE  Answers(m, r) /\ ~IsResult(r)
  BY <1>4 DEF Answers, IsResult, Creates, Begins
<1>5. ASSUME NEW v, m.name \in Replied, m.name = "createStream" => v = server.next
      PROVE  Answers(m, ResultOf(m, v)) /\ Answers(m, [ResultOf(m, v) EXCEPT !.stream = m.stream])
  <2>. DEFINE r == ResultOf(m, v)   e == [r EXCEPT !.stream = m.stream]
  <2>1. /\ r.kind = "_result" /\ r.txn = m.txn /\ r.of = m.name /\ r.v = v
        /\ e.kind = "_result" /\ e.txn = m.txn /\ e.of = m.name /\ e.v = v
    BY DEF ResultOf, Reply
  <2>. HIDE DEF r, e
  <2>2. Answers(m, r) /\ Answers(m, e)  BY <1>1, <1>5, <2>1
  <2>. QED BY <2>2 DEF r, e
<1>6. ASSUME NEW code, m.name \in Replied PROVE Answers(m, ErrorOf(m, code))
  <2>1. LET r == ErrorOf(m, code) IN r.kind = "_error" /\ r.txn = m.txn /\ r.of = m.name
    BY DEF ErrorOf, Reply
  <2>. QED BY <1>2, <1>6, <2>1
<1>7. ASSUME NEW code, m.name \in Publishing \/ code \notin Started \cup {"NetStream.Publish.Start"}
      PROVE  /\ Answers(m, Status(code)) /\ Answers(m, [Status(code) EXCEPT !.stream = m.stream])
             /\ ~IsResult(Status(code)) /\ ~IsResult([Status(code) EXCEPT !.stream = m.stream])
  <2>. DEFINE r == Status(code)   e == [r EXCEPT !.stream = m.stream]
  <2>1. r.kind = "onStatus" /\ r.code = code /\ e.kind = "onStatus" /\ e.code = code
    BY DEF Status, Reply
  <2>. HIDE DEF r, e
  <2>2. Answers(m, r) /\ Answers(m, e) /\ ~IsResult(r) /\ ~IsResult(e)  BY <1>3, <1>7, <2>1
  <2>. QED BY <2>2 DEF r, e
<1>8. ASSUME NEW v, v # 26 \/ server.signed PROVE Answers(m, Control(v)) /\ ~IsResult(Control(v))
  <2>1. Control(v).kind = "ctrl" /\ Control(v).v = v  BY DEF Control, Reply
  <2>. QED BY <1>4, <1>8, <2>1
<1>9. ASSUME NEW kind, NEW txn, kind \notin {"_result", "_error", "onStatus", "ctrl"}
      PROVE  Answers(m, Reply(kind, txn, 0, "", "")) /\ ~IsResult(Reply(kind, txn, 0, "", ""))
  <2>. DEFINE r == Reply(kind, txn, 0, "", "")
  <2>1. r.kind = kind  BY DEF Reply
  <2>. HIDE DEF r
  <2>2. Answers(m, r) /\ ~IsResult(r)  BY <1>4, <1>9, <2>1
  <2>. QED BY <2>2 DEF r
<1>. QED BY <1>5, <1>6, <1>7, <1>8, <1>9

\* One answer or two, one of which may be a result.
LEMMA SequelIs ==
  ASSUME NEW m
  PROVE  /\ Sequel(m, <<>>)
         /\ \A a : Answers(m, a) => Sequel(m, <<a>>)
         /\ \A a, b : Answers(m, a) /\ Answers(m, b) /\ ~(IsResult(a) /\ IsResult(b)) => Sequel(m, <<a, b>>)
BY DEF Sequel

\* What comes upon a connect command.
LEMMA ConnectRepliesAre ==
  ASSUME NEW m, m.name = "connect", NEW replies \in ConnectReplies(m)
  PROVE  Sequel(m, replies)
<1>1. m.name \in Replied /\ m.name # "createStream"  BY DEF Replied
<1>2. \A v : Answers(m, ResultOf(m, v))  BY <1>1, AnswerIs
<1>3. \A code : Answers(m, ErrorOf(m, code))  BY <1>1, AnswerIs
<1>4. CASE replies = <<ResultOf(m, 0)>>  BY <1>2, <1>4, SequelIs
<1>5. CASE \E code : replies = <<ErrorOf(m, code)>>  BY <1>3, <1>5, SequelIs
<1>6. CASE replies = <<ResultOf(m, 1), Reply("onBWDone", 0, 0, "", "")>>
  <2>. DEFINE r == Reply("onBWDone", 0, 0, "", "")
  <2>1. "onBWDone" \notin {"_result", "_error", "onStatus", "ctrl"}  OBVIOUS
  <2>2. Answers(m, r) /\ ~IsResult(r)  BY <2>1, AnswerIs
  <2>. HIDE DEF r
  <2>3. Sequel(m, <<ResultOf(m, 1), r>>)  BY <1>2, <2>2, SequelIs
  <2>. QED BY <1>6, <2>3 DEF r
<1>7. CASE server.signed /\ replies = <<Control(26), ResultOf(m, 0)>>
  <2>1. Answers(m, Control(26)) /\ ~IsResult(Control(26))  BY <1>7, AnswerIs
  <2>2. Sequel(m, <<Control(26), ResultOf(m, 0)>>)  BY <1>2, <2>1, SequelIs
  <2>. QED BY <1>7, <2>2
<1>8. \/ replies = <<ResultOf(m, 0)>> \/ \E code : replies = <<ErrorOf(m, code)>>
      \/ replies = <<ResultOf(m, 1), Reply("onBWDone", 0, 0, "", "")>>
      \/ server.signed /\ replies = <<Control(26), ResultOf(m, 0)>>
  BY DEF ConnectReplies
<1>. QED BY <1>4, <1>5, <1>6, <1>7, <1>8

\* A command is answered once at most, and by a result of its own number.
LEMMA RepliesAre ==
  ASSUME NEW m, NEW replies \in Replies(m)
  PROVE  Sequel(m, replies)
<1>. DEFINE play == [Status("NetStream.Play.Start") EXCEPT !.stream = m.stream]
            result == [ResultOf(m, 0) EXCEPT !.stream = m.stream]
            notify == Status("NetStream.Pause.Notify")
<1>1. CASE m.name = "connect"
  <2>1. Replies(m) = ConnectReplies(m)  BY <1>1 DEF Replies
  <2>. QED BY <1>1, <2>1, ConnectRepliesAre
<1>2. CASE m.name = "createStream"
  <2>1. replies = <<ResultOf(m, server.next)>>  BY <1>2 DEF Replies
  <2>2. m.name \in Replied  BY <1>2 DEF Replied
  <2>3. Answers(m, ResultOf(m, server.next))  BY <2>2, AnswerIs
  <2>. QED BY <2>1, <2>3, SequelIs
<1>3. CASE m.name = "play"
  <2>1. m.name \in Replied /\ m.name \in Publishing /\ m.name # "createStream"
    BY <1>3 DEF Replied, Publishing
  <2>2. Answers(m, play) /\ ~IsResult(play)  BY <2>1, AnswerIs
  <2>3. Answers(m, result)  BY <2>1, AnswerIs
  <2>4. Answers(m, Status("NetStream.Play.StreamNotFound"))  BY <2>1, AnswerIs
  <2>5. replies = <<play>> \/ replies = <<result, play>> \/ replies = <<Status("NetStream.Play.StreamNotFound")>>
    BY <1>3 DEF Replies
  <2>. HIDE DEF play, result
  <2>. QED BY <2>2, <2>3, <2>4, <2>5, SequelIs
<1>4. CASE m.name = "publish"
  <2>. DEFINE start == [Status("NetStream.Publish.Start") EXCEPT !.stream = m.stream]
  <2>1. m.name \in Replied /\ m.name \in Publishing /\ m.name # "createStream"
    BY <1>4 DEF Replied, Publishing
  <2>2. Answers(m, start)  BY <2>1, AnswerIs
  <2>3. Answers(m, result)  BY <2>1, AnswerIs
  <2>4. replies = <<start>> \/ replies = <<result>>  BY <1>4 DEF Replies
  <2>. HIDE DEF start, result
  <2>. QED BY <2>2, <2>3, <2>4, SequelIs
<1>5. CASE m.name = "pause"
  <2>1. "NetStream.Pause.Notify" \notin Started \cup {"NetStream.Publish.Start"}  BY DEF Started
  <2>2. Answers(m, notify) /\ ~IsResult(notify)  BY <2>1, AnswerIs
  <2>3. \A v : v # 26 => Answers(m, Control(v)) /\ ~IsResult(Control(v))  BY AnswerIs
  <2>4. replies \in {<<>>, <<notify>>, <<Control(1), notify>>, <<Control(1), Control(31)>>}
    BY <1>5 DEF Replies
  <2>. HIDE DEF notify
  <2>5. /\ Answers(m, Control(1)) /\ ~IsResult(Control(1))
        /\ Answers(m, Control(31)) /\ ~IsResult(Control(31))
    <3>1. 1 # 26 /\ 31 # 26  OBVIOUS
    <3>. QED BY <2>3, <3>1
  <2>6. Sequel(m, <<>>) /\ Sequel(m, <<notify>>) /\ Sequel(m, <<Control(1), notify>>)
        /\ Sequel(m, <<Control(1), Control(31)>>)
    BY <2>2, <2>5, SequelIs
  <2>. QED BY <2>4, <2>6
<1>6. CASE m.name = "releaseStream"
  <2>1. replies = <<ResultOf(m, 0)>>  BY <1>6 DEF Replies
  <2>2. m.name \in Replied /\ m.name # "createStream"  BY <1>6 DEF Replied
  <2>3. Answers(m, ResultOf(m, 0))  BY <2>2, AnswerIs
  <2>. QED BY <2>1, <2>3, SequelIs
<1>7. ASSUME NEW kind \in {"playlist_ready", "_onbwcheck", "_onbwdone"}, NEW txn
      PROVE  Sequel(m, <<Reply(kind, txn, 0, "", "")>>)
  <2>1. kind \notin {"_result", "_error", "onStatus", "ctrl"}  OBVIOUS
  <2>2. Answers(m, Reply(kind, txn, 0, "", ""))  BY <2>1, AnswerIs
  <2>. QED BY <2>2, SequelIs
<1>8. CASE m.name = "set_playlist"
  <2>1. replies = <<Reply("playlist_ready", 0, 0, "", "")>>  BY <1>8 DEF Replies
  <2>. QED BY <1>7, <2>1
<1>9. CASE m.name = "_checkbw"
  <2>1. replies = <<Reply("_onbwcheck", 9, 0, "", "")>>  BY <1>9 DEF Replies
  <2>. QED BY <1>7, <2>1
<1>10. CASE m.name = "_result"
  <2>1. replies = <<Reply("_onbwdone", 0, 0, "", "")>>  BY <1>10 DEF Replies
  <2>. QED BY <1>7, <2>1
<1>11. CASE m.name = "ctrl"
  <2>1. replies \in {<<>>, <<Control(0)>>}  BY <1>11 DEF Replies
  <2>2. Answers(m, Control(0))
    <3>1. 0 # 26  OBVIOUS
    <3>. QED BY <3>1, AnswerIs
  <2>. QED BY <2>1, <2>2, SequelIs
<1>12. CASE m.name \notin {"connect", "createStream", "play", "publish", "pause", "releaseStream",
                           "set_playlist", "_checkbw", "_result", "ctrl"}
  <2>1. replies = <<>>  BY <1>12 DEF Replies
  <2>. QED BY <2>1, SequelIs
<1>. QED BY <1>1, <1>2, <1>3, <1>4, <1>5, <1>6, <1>8, <1>9, <1>10, <1>11, <1>12

\* The same, as the queues' lemmas want it.
LEMMA SequelHas ==
  ASSUME NEW m, NEW replies, Sequel(m, replies)
  PROVE  /\ IsSeq(replies)
         /\ \A i \in 1..Len(replies) :
              /\ Answers(m, replies[i])
              /\ IsResult(replies[i]) => \A j \in 1..Len(replies) : IsResult(replies[j]) => i = j
<1>1. CASE replies = <<>>  BY <1>1, EmptyIs
<1>2. CASE \E a : replies = <<a>> /\ Answers(m, a)
  <2>1. PICK a : replies = <<a>> /\ Answers(m, a)  BY <1>2
  <2>2. IsSeq(replies) /\ Len(replies) = 1 /\ replies[1] = a  BY <2>1, SingleIs
  <2>. QED BY <2>1, <2>2
<1>3. CASE \E a, b : replies = <<a, b>> /\ Answers(m, a) /\ Answers(m, b) /\ ~(IsResult(a) /\ IsResult(b))
  <2>1. PICK a, b : replies = <<a, b>> /\ Answers(m, a) /\ Answers(m, b) /\ ~(IsResult(a) /\ IsResult(b))
    BY <1>3
  <2>2. IsSeq(replies) /\ Len(replies) = 2 /\ replies[1] = a /\ replies[2] = b  BY <2>1, PairIs
  <2>. QED BY <2>1, <2>2
<1>. QED BY <1>1, <1>2, <1>3 DEF Sequel

\* The server's end of a session.
ServerFields == {"next", "alive", "playing", "pos", "paused", "ended", "refused", "hand", "keys",
                 "signed", "genuine"}
Serving(s) ==
  /\ DOMAIN s = ServerFields /\ ~s.refused /\ s.signed \in BOOLEAN
  /\ s.next \in Nat \ {0} /\ s.alive \subseteq 1..(s.next - 1)

\* A step of the server that has nothing to do with the handshake.
SameHand(s) ==
  /\ s.signed = server.signed /\ s.genuine = server.genuine
  /\ s.hand = server.hand /\ s.keys = server.keys

\* What the server is after a command: nothing was refused, and a stream was created
\* or deleted at most if the command says so.
LEMMA ServedIs ==
  ASSUME Serving(server), IsSeq(toServer), toServer # <<>>, Obeyed(toServer, server.alive),
         NEW replies, NEW m, m = Head(toServer), NEW s, s = Served(m, replies)
  PROVE  /\ Serving(s) /\ SameHand(s)
         /\ \A id \in server.alive : Deletes(m, id) \/ id \in s.alive
         /\ m.name = "createStream" => server.next \in s.alive \ server.alive
<1>1. /\ Touches(m) => Touched(m) \in server.alive
      /\ m.name = "ctrl" /\ m.txn = 27 => m.stream = 1
  <2>1. m = toServer[1] /\ 1 \in 1..Len(toServer)  BY TailIs, SeqFacts
  <2>. QED BY <2>1 DEF Obeyed
<1>2. /\ DOMAIN server = ServerFields /\ ~server.refused /\ server.signed \in BOOLEAN
      /\ server.next \in Nat \ {0} /\ server.alive \subseteq 1..(server.next - 1)
      /\ SameHand(server)
  BY DEF Serving, SameHand
<1>3. CASE m.name = "createStream"
  <2>1. s = [server EXCEPT !.alive = @ \cup {server.next}, !.next = @ + 1]
    BY <1>3 DEF Served
  <2>2. /\ DOMAIN s = ServerFields /\ s.refused = server.refused /\ s.signed = server.signed
        /\ s.next = server.next + 1 /\ s.alive = server.alive \cup {server.next}
        /\ s.genuine = server.genuine /\ s.hand = server.hand /\ s.keys = server.keys
    BY <1>2, <2>1 DEF ServerFields
  <2>3. s.next \in Nat \ {0} /\ s.alive \subseteq 1..(s.next - 1)  BY <1>2, <2>2
  <2>4. server.next \notin server.alive  BY <1>2
  <2>. QED BY <1>2, <2>2, <2>3, <2>4 DEF Serving, SameHand
<1>4. ASSUME NEW alive, alive \subseteq server.alive,
             \A id \in server.alive : Deletes(m, id) \/ id \in alive,
             DOMAIN s = ServerFields, s.refused = server.refused, s.signed = server.signed,
             s.next = server.next, s.alive = alive, s.genuine = server.genuine,
             s.hand = server.hand, s.keys = server.keys, m.name # "createStream"
      PROVE  /\ Serving(s) /\ SameHand(s)
             /\ \A id \in server.alive : Deletes(m, id) \/ id \in s.alive
             /\ m.name = "createStream" => server.next \in s.alive \ server.alive
  BY <1>2, <1>4 DEF Serving, SameHand
<1>5. CASE m.name \in {"play", "publish"}
  <2>1. m.stream \in server.alive  BY <1>1, <1>5 DEF Touches, Touched
  <2>2. PICK p : s = [server EXCEPT !.playing = p, !.pos = 0, !.paused = FALSE, !.ended = FALSE]
    BY <1>5, <2>1 DEF Served
  <2>3. /\ DOMAIN s = ServerFields /\ s.refused = server.refused /\ s.signed = server.signed
        /\ s.next = server.next /\ s.alive = server.alive
        /\ s.genuine = server.genuine /\ s.hand = server.hand /\ s.keys = server.keys
    BY <1>2, <2>2 DEF ServerFields
  <2>4. m.name # "createStream"  BY <1>5
  <2>. QED BY <1>4, <2>3, <2>4
<1>6. CASE m.name = "deleteStream"
  <2>1. m.v \in server.alive  BY <1>1, <1>6 DEF Touches, Touched
  <2>2. s = [server EXCEPT !.alive = @ \ {m.v}, !.playing = IF @ = m.v THEN 0 ELSE @]
    BY <1>6, <2>1 DEF Served
  <2>3. /\ DOMAIN s = ServerFields /\ s.refused = server.refused /\ s.signed = server.signed
        /\ s.next = server.next /\ s.alive = server.alive \ {m.v}
        /\ s.genuine = server.genuine /\ s.hand = server.hand /\ s.keys = server.keys
    BY <1>2, <2>2 DEF ServerFields
  <2>4. \A id \in server.alive : Deletes(m, id) \/ id \in server.alive \ {m.v}
    BY <1>6 DEF Deletes
  <2>5. m.name # "createStream" /\ server.alive \ {m.v} \subseteq server.alive  BY <1>6
  <2>. QED BY <1>4, <2>3, <2>4, <2>5
<1>7. CASE m.name = "pause"
  <2>1. s = [server EXCEPT !.paused = @ \/ server.playing # 0]  BY <1>7 DEF Served
  <2>2. /\ DOMAIN s = ServerFields /\ s.refused = server.refused /\ s.signed = server.signed
        /\ s.next = server.next /\ s.alive = server.alive
        /\ s.genuine = server.genuine /\ s.hand = server.hand /\ s.keys = server.keys
    BY <1>2, <2>1 DEF ServerFields
  <2>3. m.name # "createStream"  BY <1>7
  <2>. QED BY <1>4, <2>2, <2>3
<1>8. CASE m.name = "unpause"
  <2>1. PICK p : s = [server EXCEPT !.paused = FALSE, !.pos = p]  BY <1>8 DEF Served
  <2>2. /\ DOMAIN s = ServerFields /\ s.refused = server.refused /\ s.signed = server.signed
        /\ s.next = server.next /\ s.alive = server.alive
        /\ s.genuine = server.genuine /\ s.hand = server.hand /\ s.keys = server.keys
    BY <1>2, <2>1 DEF ServerFields
  <2>3. m.name # "createStream"  BY <1>8
  <2>. QED BY <1>4, <2>2, <2>3
<1>9. CASE m.name = "FIN"
  <2>1. s = [server EXCEPT !.playing = 0]  BY <1>9 DEF Served
  <2>2. /\ DOMAIN s = ServerFields /\ s.refused = server.refused /\ s.signed = server.signed
        /\ s.next = server.next /\ s.alive = server.alive
        /\ s.genuine = server.genuine /\ s.hand = server.hand /\ s.keys = server.keys
    BY <1>2, <2>1 DEF ServerFields
  <2>3. m.name # "createStream"  BY <1>9
  <2>. QED BY <1>4, <2>2, <2>3
<1>10. CASE m.name \notin {"createStream", "play", "publish", "deleteStream", "pause", "unpause", "FIN"}
  <2>1. m.name \in {"set_playlist", "media"} => m.stream \in server.alive
    BY <1>1 DEF Touches, Touched
  <2>2. m.name = "ctrl" /\ m.txn = 3 => m.stream \in server.alive \cup {0}
    BY <1>1 DEF Touches, Touched
  <2>3. s = server  BY <1>1, <1>10, <2>1, <2>2 DEF Served
  <2>. QED BY <1>2, <1>4, <1>10, <2>3
<1>. QED BY <1>3, <1>5, <1>6, <1>7, <1>8, <1>9, <1>10

\* The server obeys a command and answers it.
LEMMA WholeServed ==
  ASSUME Whole(client, toServer, toClient, server.alive), Serving(server), toServer # <<>>,
         NEW replies \in Replies(Head(toServer)), NEW s, s = Served(Head(toServer), replies),
         NEW msgs, msgs = IF client.socket THEN toClient \o replies ELSE <<>>
  PROVE  Whole(client, Tail(toServer), msgs, s.alive)
<1>. DEFINE m == Head(toServer)
            all == toClient \o replies
<1>1. /\ Typed(client) /\ IsSeq(toServer) /\ IsSeq(toClient) /\ server.alive \subseteq Nat \ {0}
      /\ Obeyed(toServer, server.alive) /\ client.socket \in BOOLEAN
      /\ client.stream \in Int
  BY DEF Whole, Typed
<1>2. /\ Serving(s)
      /\ \A id \in server.alive : Deletes(m, id) \/ id \in s.alive
      /\ m.name = "createStream" => server.next \in s.alive \ server.alive
  BY <1>1, ServedIs
<1>3. s.alive \subseteq Nat \ {0}  BY <1>2 DEF Serving
<1>4. Obeyed(Tail(toServer), s.alive)  BY <1>1, <1>2, ObeyedServed
<1>5. IsSeq(Tail(toServer))  BY <1>1, TailIs
<1>6. Sequel(m, replies)  BY RepliesAre
<1>7. /\ IsSeq(replies)
      /\ \A i \in 1..Len(replies) :
           /\ Answers(m, replies[i])
           /\ IsResult(replies[i]) => \A j \in 1..Len(replies) : IsResult(replies[j]) => i = j
  BY <1>6, SequelHas
<1>8. server.next \in Nat \ {0}  BY DEF Serving
<1>. HIDE DEF m, all
<1>9. IsSeq(all)  BY <1>1, <1>7, ConcatIs DEF all
<1>10. CASE client.socket
  <2>1. /\ client.stream # 0
        /\ Numbers(client.calls, client.invokes, toServer, toClient)
        /\ Held(client.stream, toServer, toClient, server.alive)
        /\ Publisher(client.playing, client.stream, client.calls, toServer, toClient)
    BY <1>10 DEF Whole
  <2>2. Numbers(client.calls, client.invokes, Tail(toServer), all)
    <3>1. \A i \in 1..Len(replies) : IsResult(replies[i]) =>
            /\ Head(toServer).name \in Replied /\ replies[i].txn = Head(toServer).txn
            /\ replies[i].of = Head(toServer).name
            /\ \A j \in 1..Len(replies) : IsResult(replies[j]) => i = j
      BY <1>7 DEF Answers, m
    <3>. QED BY <1>1, <1>7, <2>1, <3>1, NumbersServed DEF all
  <2>3. Held(client.stream, Tail(toServer), all, s.alive)
    <3>1. \A i \in 1..Len(replies) : Creates(replies[i]) =>
            /\ replies[i].v \in Nat \ {0} /\ replies[i].v \in s.alive \ server.alive
            /\ \A j \in 1..Len(replies) : Creates(replies[j]) => i = j
      BY <1>2, <1>7, <1>8 DEF Answers, Creates, IsResult
    <3>2. \A id \in server.alive : Deletes(Head(toServer), id) \/ id \in s.alive
      BY <1>2 DEF m
    <3>. QED BY <1>1, <1>7, <2>1, <3>1, <3>2, HeldServed DEF all
  <2>4. Publisher(client.playing, client.stream, client.calls, Tail(toServer), all)
    <3>1. Head(toServer).name \notin Publishing => \A i \in 1..Len(replies) : ~Begins(replies[i])
      BY <1>7 DEF Answers, m
    <3>. QED BY <1>1, <1>7, <2>1, <3>1, PublisherServed DEF all
  <2>5. msgs = all  BY <1>10 DEF all
  <2>. QED BY <1>1, <1>3, <1>4, <1>5, <1>9, <1>10, <2>1, <2>2, <2>3, <2>4, <2>5 DEF Whole
<1>11. CASE ~client.socket
  <2>1. msgs = <<>> /\ Shut(client)  BY <1>11 DEF Whole
  <2>. QED BY <1>1, <1>3, <1>4, <1>5, <1>11, <2>1, EmptyIs DEF Whole
<1>. QED BY <1>1, <1>10, <1>11

-----------------------------------------------------------------------------
(* What the client's steps begin with.                                     *)

At(msgs) == [msgs |-> msgs, alive |-> server.alive, base |-> toServer,
             keys |-> client.keys, swf |-> client.swf]

\* Nothing of the connection changes in what the handler begins with.
LEMMA BeginsGood ==
  ASSUME NEW msgs, Whole(client, toServer, msgs, server.alive),
         NEW q, DOMAIN q = Handled, q.out = toServer, q.again \in BOOLEAN, ~q.again,
         DOMAIN q.c = Fields, q.c.socket = client.socket, q.c.stream = client.stream,
         q.c.playing = client.playing, q.c.calls = client.calls, q.c.invokes = client.invokes,
         q.c.swf = client.swf, q.c.keys = client.keys
  PROVE  Good(q, At(msgs))
<1>. DEFINE g == At(msgs)
<1>1. /\ g.msgs = msgs /\ g.alive = server.alive /\ g.base = toServer
      /\ g.keys = client.keys /\ g.swf = client.swf
  BY DEF At
<1>. HIDE DEF g
<1>2. IsSeq(toServer)  BY DEF Whole
<1>3. Extends(g.base, q.out)  BY <1>1, <1>2, ExtendsItself
<1>4. Whole(q.c, q.out, g.msgs, g.alive)  BY <1>1 DEF Whole, Typed, Shut
<1>. QED BY <1>1, <1>2, <1>3, <1>4 DEF Good, g

\* A handler that begins with no message.
LEMMA QuietGood ==
  ASSUME NEW msgs, Whole(client, toServer, msgs, server.alive)
  PROVE  Good(Quiet, At(msgs)) /\ Quiet.c = client /\ Quiet.out = toServer /\ ~Quiet.again
<1>1. /\ DOMAIN Quiet = Handled /\ Quiet.c = client /\ Quiet.out = toServer
      /\ Quiet.again \in BOOLEAN /\ ~Quiet.again
  BY DEF Quiet, Handled
<1>2. DOMAIN client = Fields  BY DEF Whole, Typed
<1>3. Good(Quiet, At(msgs))  BY <1>1, <1>2, BeginsGood
<1>. QED BY <1>1, <1>3

\* A message is taken from the queue.
LEMMA WholeHeard ==
  ASSUME Whole(client, toServer, toClient, server.alive), toClient # <<>>
  PROVE  Whole(client, toServer, Tail(toClient), server.alive)
<1>1. IsSeq(toClient) /\ client.stream \in Int  BY DEF Whole, Typed
<1>2. IsSeq(Tail(toClient))  BY <1>1, TailIs
<1>3. CASE client.socket
  <2>1. /\ client.stream # 0
        /\ Numbers(client.calls, client.invokes, toServer, toClient)
        /\ Held(client.stream, toServer, toClient, server.alive)
        /\ Publisher(client.playing, client.stream, client.calls, toServer, toClient)
    BY <1>3 DEF Whole
  <2>2. Numbers(client.calls, client.invokes, toServer, Tail(toClient))
    BY <1>1, <2>1, NumbersHeard
  <2>3. Held(client.stream, toServer, Tail(toClient), server.alive)
    BY <1>1, <2>1, HeldHeard
  <2>4. Publisher(client.playing, client.stream, client.calls, toServer, Tail(toClient))
    BY <1>1, <2>1, PublisherHears
  <2>. QED BY <1>2, <1>3, <2>1, <2>2, <2>3, <2>4 DEF Whole
<1>4. CASE ~client.socket  BY <1>2, <1>4 DEF Whole
<1>. QED BY <1>3, <1>4

\* A handler that begins with the message read, which fits what the client is.
LEMMA ReadGood ==
  ASSUME Whole(client, toServer, toClient, server.alive), toClient # <<>>, client.socket,
         NEW m, m = Head(toClient),
         m.kind = "ctrl" /\ m.v = 26 /\ options.swf => client.swf = 1
  PROVE  /\ Good(ReadPacket(m), At(Tail(toClient))) /\ ReadPacket(m).c.socket
         /\ ReadPacket(m).c.stream = client.stream /\ ~ReadPacket(m).again
         /\ Fits(ReadPacket(m), m, At(Tail(toClient)))
<1>. DEFINE g == At(Tail(toClient))
            p == ReadPacket(m)
<1>1. Typed(client) /\ IsSeq(toClient) /\ DOMAIN client = Fields  BY DEF Whole, Typed
<1>2. /\ DOMAIN p = Handled /\ p.out = toServer /\ p.again \in BOOLEAN /\ ~p.again
      /\ DOMAIN p.c = Fields /\ p.c.socket = client.socket /\ p.c.stream = client.stream
      /\ p.c.playing = client.playing /\ p.c.calls = client.calls /\ p.c.invokes = client.invokes
      /\ p.c.swf = client.swf /\ p.c.keys = client.keys
  BY <1>1 DEF ReadPacket, Handled, Fields
<1>. HIDE DEF p
<1>3. Whole(client, toServer, Tail(toClient), server.alive)  BY WholeHeard
<1>4. Good(p, g)  BY <1>2, <1>3, BeginsGood
<1>5. /\ g.msgs = Tail(toClient) /\ g.alive = server.alive /\ g.swf = client.swf
  BY DEF At
<1>. HIDE DEF g
<1>6. /\ Numbers(client.calls, client.invokes, toServer, toClient)
      /\ Held(client.stream, toServer, toClient, server.alive)
      /\ Publisher(client.playing, client.stream, client.calls, toServer, toClient)
      /\ client.stream \in Int
  BY DEF Whole, Typed
<1>7. IsResult(m) => /\ Meant(p.c.calls, m.txn, m.of)
                     /\ \A k \in 1..Len(p.out) : p.out[k].name \in Replied => p.out[k].txn # m.txn
                     /\ \A k \in 1..Len(g.msgs) : IsResult(g.msgs[k]) => g.msgs[k].txn # m.txn
  <2>1. IsResult(Head(toClient)) =>
          /\ Head(toClient).txn \in 1..client.invokes
          /\ Meant(client.calls, Head(toClient).txn, Head(toClient).of)
          /\ \A i \in 1..Len(toServer) :
               toServer[i].name \in Replied => toServer[i].txn # Head(toClient).txn
          /\ \A i \in 1..Len(Tail(toClient)) :
               IsResult(Tail(toClient)[i]) => Tail(toClient)[i].txn # Head(toClient).txn
    BY <1>1, <1>6, NumbersHeard
  <2>. QED BY <1>2, <1>5, <2>1
<1>8. Creates(m) => Alive(p.out, m.v, g.alive) /\ Held(m.v, p.out, g.msgs, g.alive)
  BY <1>1, <1>2, <1>5, <1>6, HeldHeard
<1>9. options.write /\ Begins(m) => p.c.stream > 0
  BY <1>1, <1>2, <1>6, PublisherHears
<1>10. Fits(p, m, g)  BY <1>5, <1>7, <1>8, <1>9 DEF Fits
<1>. QED BY <1>2, <1>4, <1>10 DEF p, g

\* RTMP_GetNextMediaPacket notes that the caller plays; only readers call it.
LEMMA TakenGood ==
  ASSUME NEW q, NEW g, Good(q, g), ~options.write, NEW pausing
  PROVE  Good([q EXCEPT !.c = [q.c EXCEPT !.pausing = pausing, !.playing = TRUE]], g)
<1>. DEFINE r == [q EXCEPT !.c = [q.c EXCEPT !.pausing = pausing, !.playing = TRUE]]
<1>1. DOMAIN q = Handled /\ DOMAIN q.c = Fields /\ Whole(q.c, q.out, g.msgs, g.alive)
  BY DEF Good, Whole, Typed
<1>2. /\ DOMAIN r = Handled /\ r.again = q.again /\ r.out = q.out
      /\ DOMAIN r.c = Fields /\ r.c.socket = q.c.socket /\ r.c.stream = q.c.stream
      /\ r.c.playing \in BOOLEAN /\ r.c.calls = q.c.calls /\ r.c.invokes = q.c.invokes
      /\ r.c.swf = q.c.swf /\ r.c.keys = q.c.keys
  BY <1>1 DEF Handled, Fields
<1>. HIDE DEF r
<1>3. Whole(r.c, r.out, g.msgs, g.alive)
  BY <1>1, <1>2 DEF Whole, Typed, Shut, Publisher
<1>. QED BY <1>2, <1>3 DEF Good, r

\* RTMP_DeleteStream deletes the stream once: afterwards the client does not know it.
LEMMA DeleteStreamGood ==
  ASSUME NEW q, NEW g, Good(q, g), q.c.socket, ~options.write
  PROVE  Good(RTMP_DeleteStream(q), g)
<1>. DEFINE p == [q EXCEPT !.c.playing = FALSE]
            n == p.c.invokes + 1
            t == [p EXCEPT !.c.invokes = n]
            m == Request("deleteStream", n, 0, q.c.stream)
            s == Send(t, m)
            r == RTMP_DeleteStream(q)
<1>1. /\ DOMAIN q = Handled /\ DOMAIN q.c = Fields /\ Whole(q.c, q.out, g.msgs, g.alive)
      /\ IsSeq(q.out) /\ IsSeq(g.base) /\ IsSeq(g.msgs) /\ IsSeq(q.c.calls) /\ q.c.invokes \in Nat
      /\ q.c.stream \in Int /\ q.c.stream # 0 /\ g.alive \subseteq Nat \ {0}
      /\ Obeyed(q.out, g.alive) /\ Extends(g.base, q.out) /\ q.again \in BOOLEAN
      /\ Numbers(q.c.calls, q.c.invokes, q.out, g.msgs) /\ Held(q.c.stream, q.out, g.msgs, g.alive)
      /\ q.c.swf = g.swf /\ q.c.keys = g.keys /\ ~q.again
  BY DEF Good, Whole, Typed
<1>2. CASE q.c.stream < 0
  <2>1. r = q  BY <1>2 DEF RTMP_DeleteStream
  <2>. QED BY <2>1
<1>3. CASE ~(q.c.stream < 0)
  <2>0. q.c.stream > 0  BY <1>1, <1>3
  <2>1. r = [s EXCEPT !.c.stream = -1]
    BY <1>3 DEF RTMP_DeleteStream, SendDeleteStream, Invoke
  <2>2. /\ DOMAIN t = Handled /\ DOMAIN t.c = Fields /\ t.out = q.out /\ t.again = q.again
        /\ t.c.socket \in BOOLEAN /\ t.c.socket = q.c.socket /\ t.c.playing \in BOOLEAN
        /\ t.c.calls = q.c.calls /\ t.c.invokes = q.c.invokes + 1
        /\ t.c.swf = q.c.swf /\ t.c.keys = q.c.keys /\ n = q.c.invokes + 1
    BY <1>1 DEF Handled, Fields
  <2>3. m.name = "deleteStream" /\ m.txn = n /\ m.v = q.c.stream  BY DEF Request
  <2>. HIDE DEF t, m, r, n
  <2>4. /\ DOMAIN s = Handled /\ s.again = t.again
        /\ \/ s.c = Closed(t.c) /\ s.out = t.out
           \/ t.c.socket /\ s.c = t.c /\ (s.out = t.out \/ s.out = Append(t.out, m))
    BY <2>2, Sends
  <2>. HIDE DEF s
  <2>5. CASE s.c = Closed(t.c) /\ s.out = t.out
    <3>1. /\ Typed(s.c) /\ Shut(s.c) /\ ~s.c.socket /\ s.c.swf = t.c.swf /\ DOMAIN s.c = Fields
      BY <2>2, <2>5, ClosedIs DEF Typed
    <3>2. /\ DOMAIN r = Handled /\ r.again = s.again /\ r.out = s.out
          /\ DOMAIN r.c = Fields /\ r.c.socket = s.c.socket /\ r.c.stream = -1
          /\ r.c.playing = s.c.playing /\ r.c.calls = s.c.calls /\ r.c.invokes = s.c.invokes
          /\ r.c.swf = s.c.swf
      BY <2>1, <2>4, <3>1 DEF Handled, Fields
    <3>3. Typed(r.c) /\ Shut(r.c) /\ ~r.c.socket  BY <3>1, <3>2 DEF Typed, Shut
    <3>4. Sendable(r, g)  BY <1>1, <2>2, <2>4, <2>5, <3>1, <3>2, <3>3 DEF Sendable, Typed
    <3>. QED BY <3>3, <3>4, GoodShut DEF r
  <2>6. CASE s.c = t.c /\ (s.out = t.out \/ s.out = Append(t.out, m))
    <3>1. /\ DOMAIN r = Handled /\ r.again = q.again /\ r.out = s.out
          /\ DOMAIN r.c = Fields /\ r.c.socket = q.c.socket /\ r.c.stream = -1
          /\ r.c.playing \in BOOLEAN /\ r.c.calls = q.c.calls /\ r.c.invokes = q.c.invokes + 1
          /\ r.c.swf = q.c.swf /\ r.c.keys = q.c.keys
          /\ r.out = q.out \/ r.out = Append(q.out, m)
      BY <2>1, <2>2, <2>4, <2>6 DEF Handled, Fields
    <3>2. Numbers(r.c.calls, n, r.out, g.msgs)
      <4>1. Asks(m, q.c.calls, q.c.invokes, q.out, r.c.calls, n, r.out)
        BY <1>1, <2>2, <2>3, <3>1 DEF Asks, ActedUpon
      <4>. QED BY <1>1, <4>1, NumbersAsk
    <3>3. Held(-1, r.out, g.msgs, g.alive)
      <4>1. CASE r.out = q.out
        <5>1. \A i \in 1..Len(g.msgs) : Creates(g.msgs[i]) => g.msgs[i].v # -1
          BY <1>1 DEF Held, Alive
        <5>2. ~(-1 > 0)  OBVIOUS
        <5>. QED BY <1>1, <4>1, <5>1, <5>2 DEF Held
      <4>2. CASE r.out = Append(q.out, m)
        BY <1>1, <2>3, <4>2, HeldDeleted
      <4>. QED BY <3>1, <4>1, <4>2
    <3>4. Obeyed(r.out, g.alive)
      <4>1. Alive(q.out, q.c.stream, g.alive)  BY <1>1, <2>0 DEF Held
      <4>2. Touched(m) = q.c.stream /\ m.name # "ctrl"  BY <2>3 DEF Touched
      <4>3. Touches(m) => Alive(q.out, Touched(m), g.alive)  BY <4>1, <4>2
      <4>4. Obeyed(Append(q.out, m), g.alive)  BY <1>1, <4>2, <4>3, ObeyedSent
      <4>. QED BY <1>1, <3>1, <4>4
    <3>5. Extends(g.base, r.out) /\ IsSeq(r.out)
      <4>1. ~Opens(m)  BY <2>3 DEF Opens
      <4>2. Extends(g.base, Append(q.out, m))  BY <1>1, <4>1, ExtendsMore
      <4>3. IsSeq(Append(q.out, m))  BY <1>1, AppendIs
      <4>. QED BY <1>1, <3>1, <4>2, <4>3
    <3>6. Whole(r.c, r.out, g.msgs, g.alive)
      <4>1. -1 \in Int /\ -1 # 0 /\ r.c.invokes = n /\ n \in Nat  BY <1>1, <2>2, <3>1
      <4>2. Publisher(r.c.playing, r.c.stream, r.c.calls, r.out, g.msgs)  BY DEF Publisher
      <4>3. Typed(r.c)  BY <1>1, <3>1, <4>1 DEF Typed
      <4>. QED BY <1>1, <3>1, <3>2, <3>3, <3>4, <3>5, <4>1, <4>2, <4>3 DEF Whole
    <3>. QED BY <1>1, <3>1, <3>5, <3>6 DEF Good, r
  <2>. QED BY <2>4, <2>5, <2>6
<1>. QED BY <1>2, <1>3

-----------------------------------------------------------------------------
(* The invariant.                                                          *)

Phases == {"start", "hello", "reply", "stream", "media", "over"}

\* The first messages of a connection come before all others.
OpenersFirst(out) == \A i \in 2..Len(out) : ~Opens(out[i])

\* A server verifies only what it signed.
Checks(msgs, signed) == \A i \in 1..Len(msgs) : msgs[i].kind = "ctrl" /\ msgs[i].v = 26 => signed

Wired ==
  /\ options \in Options
  /\ Whole(client, toServer, toClient, server.alive) /\ Serving(server)
  /\ OpenersFirst(toServer) /\ (client.socket => Checks(toClient, server.signed))

Placed ==
  /\ phase \in Phases
  /\ phase \in {"start", "over"} => ~client.socket
  /\ phase = "start" => toServer = <<>> /\ toClient = <<>> /\ server.playing = 0
  /\ options.write /\ phase = "media" /\ client.socket => client.stream > 0

\* HandShake's first half: the signature is under way, or the two answers to it.
Greeting ==
  phase = "hello" /\ client.socket =>
    /\ server.playing = 0
    /\ \/ toServer = <<>> /\ toClient = <<>>
       \/ /\ Len(toServer) = 1 /\ toServer[1].name = "C1" /\ toServer[1].sig = client.hand.sig
          /\ toClient = <<>> /\ \E mine \in Randoms : client.hand.sig = Made(mine)
       \/ /\ Len(toClient) = 2 /\ toClient[1].kind = "S1" /\ toClient[2].kind = "S2"
          /\ toServer = <<>>
          /\ Judged(client.hand.sig, toClient[1].sig, toClient[2].sig, server.signed, server.genuine)
          /\ Keyed(client.hand.sig, toClient[1].sig, toClient[2].sig, server.hand.keys)

\* Its second half.
Replying ==
  phase = "reply" /\ client.socket =>
    /\ server.playing = 0
    /\ Answer(client.hand.other).ok /\ client.hand.keys = Answer(client.hand.other).keys
    /\ toServer = <<>> \/ (Len(toServer) = 1 /\ toServer[1].name = "C2")
    /\ \/ toClient = <<>>
       \/ /\ Len(toClient) = 1 /\ toClient[1].kind = "S2"
          /\ Judged(client.hand.sig, client.hand.other, toClient[1].sig, server.signed, server.genuine)
          /\ link = "up" => Keyed(client.hand.sig, client.hand.other, toClient[1].sig,
                                  IF toServer = <<>> THEN server.keys ELSE server.hand.keys)
    /\ server.signed /\ options.swf => client.swf = 1

\* Behind it: the two ends agree, as soon as the server has read the response.
Through ==
  phase \in {"stream", "media"} /\ client.socket =>
    /\ link = "up" =>
         /\ server.genuine /\ ((client.keys = NoKeys) <=> ~(options.enc /\ server.signed))
         /\ Crosswise(client.keys, IF Shaking THEN server.hand.keys ELSE server.keys)
         /\ Shaking => Head(toServer).name = "C2"
    /\ server.signed /\ options.swf => client.swf = 1

\* A server turned away stays what it was.
Unopened(out) == \A i \in 1..Len(out) : out[i].name # "C1"
TurnedAway ==
  status = "handshake" => phase = "over" /\ ~server.genuine /\ Unopened(toServer)

Inv == Wired /\ Placed /\ Greeting /\ Replying /\ Through /\ TurnedAway

\* The options the handshake depends on.
LEMMA OptionsAre ==
  ASSUME options \in Options
  PROVE  options.write \in BOOLEAN /\ options.enc \in BOOLEAN /\ options.swf \in BOOLEAN
BY RtmpClientAssumption

\* What holds of the values a step leaves holds in its next state.
LEMMA WholeNext ==
  ASSUME Whole(client', toServer', toClient', server'.alive), options' = options
  PROVE  Whole(client, toServer, toClient, server.alive)'
BY DEF Whole, Shut, Publisher

\* A closed connection: only what is under way to the server matters.
LEMMA WholeShut ==
  ASSUME NEW c, NEW out, NEW msgs, NEW alive, Whole(c, out, msgs, alive), ~c.socket,
         NEW msgs2, IsSeq(msgs2)
  PROVE  Whole(c, out, msgs2, alive)
BY DEF Whole

\* Sending leaves the first messages of a connection where they are.
LEMMA FrontExtends ==
  ASSUME NEW s, NEW t, IsSeq(s), IsSeq(t), Extends(s, t), OpenersFirst(s)
  PROVE  /\ OpenersFirst(t) /\ (Unopened(s) => Unopened(t))
         /\ t # <<>> /\ Opens(Head(t)) <=> s # <<>> /\ Opens(Head(s))
         /\ t # <<>> /\ Opens(Head(t)) => Head(t) = Head(s)
<1>1. Len(s) \in Nat /\ Len(t) \in Nat /\ Len(s) <= Len(t)  BY SeqFacts DEF Extends
<1>2. /\ s # <<>> => Head(s) = s[1] /\ 1 \in 1..Len(s)
      /\ t # <<>> => Head(t) = t[1] /\ 1 \in 1..Len(t)
      /\ s = <<>> <=> Len(s) = 0
      /\ t = <<>> <=> Len(t) = 0
  BY <1>1, TailIs, SeqFacts
<1>3. OpenersFirst(t)
  <2>1. ASSUME NEW i \in 2..Len(t) PROVE ~Opens(t[i])
    <3>1. CASE i \in 1..Len(s)
      <4>1. i \in 2..Len(s)  BY <3>1, <1>1
      <4>. QED BY <3>1, <4>1 DEF OpenersFirst, Extends
    <3>2. CASE i \notin 1..Len(s)
      <4>1. i \in 1..Len(t) /\ i > Len(s)  BY <3>2, <1>1
      <4>. QED BY <4>1 DEF Extends
    <3>. QED BY <3>1, <3>2
  <2>. QED BY <2>1 DEF OpenersFirst
<1>4. ASSUME Unopened(s) PROVE Unopened(t)
  <2>1. ASSUME NEW i \in 1..Len(t) PROVE t[i].name # "C1"
    <3>1. CASE i \in 1..Len(s)  BY <1>4, <3>1 DEF Unopened, Extends
    <3>2. CASE i \notin 1..Len(s)
      <4>1. i > Len(s)  BY <3>2, <1>1
      <4>. QED BY <4>1 DEF Extends, Opens
    <3>. QED BY <3>1, <3>2
  <2>. QED BY <2>1 DEF Unopened
<1>5. CASE s = <<>>
  <2>1. t # <<>> => ~Opens(Head(t))  BY <1>2, <1>5 DEF Extends
  <2>. QED BY <1>3, <1>4, <1>5, <2>1
<1>6. CASE s # <<>>
  <2>1. t # <<>> /\ Head(t) = Head(s)  BY <1>1, <1>2, <1>6 DEF Extends
  <2>. QED BY <1>3, <1>4, <1>6, <2>1
<1>. QED BY <1>5, <1>6

\* A step of the client over a connection that is through with its handshake.
LEMMA Stepped ==
  ASSUME Inv, phase \in {"stream", "media"}, client.socket,
         NEW q, NEW msgs, Good(q, At(msgs)), Checks(msgs, server.signed),
         Becomes(q), options' = options, link' = link, server' = server,
         toClient' = msgs \/ (~q.c.socket /\ toClient' = <<>>),
         phase' \in {"stream", "media"} \/ (phase' = "over" /\ ~q.c.socket),
         options.write /\ phase' = "media" /\ q.c.socket => q.c.stream > 0,
         status' # "handshake"
  PROVE  Inv'
<1>. DEFINE g == At(msgs)
<1>1. /\ g.msgs = msgs /\ g.alive = server.alive /\ g.base = toServer
      /\ g.keys = client.keys /\ g.swf = client.swf
  BY DEF At
<1>2. client' = q.c /\ toServer' = q.out  BY DEF Becomes
<1>. HIDE DEF g
<1>3. /\ Whole(q.c, q.out, msgs, server.alive) /\ Extends(toServer, q.out) /\ IsSeq(toServer)
      /\ q.c.swf = client.swf /\ (q.c.socket => q.c.keys = client.keys)
      /\ IsSeq(q.out) /\ q.c.socket \in BOOLEAN
  <2>1. Good(q, g)  BY DEF g
  <2>. QED BY <1>1, <2>1 DEF Good, Whole, Typed
<1>4. Whole(q.c, q.out, toClient', server.alive)
  BY <1>3, WholeShut, EmptyIs
<1>5. Whole(client, toServer, toClient, server.alive)'
  BY <1>2, <1>4, WholeNext
<1>6. /\ OpenersFirst(q.out)
      /\ q.out # <<>> /\ Opens(Head(q.out)) <=> toServer # <<>> /\ Opens(Head(toServer))
      /\ q.out # <<>> /\ Opens(Head(q.out)) => Head(q.out) = Head(toServer)
  BY <1>3, FrontExtends DEF Inv, Wired
<1>7. Wired'
  BY <1>2, <1>5, <1>6 DEF Inv, Wired, Checks
<1>8. Placed'
  BY <1>2 DEF Placed, Phases
<1>9. Greeting' /\ Replying'
  BY DEF Greeting, Replying
<1>10. Through'
  <2>1. Shaking' <=> Shaking  BY <1>2, <1>6 DEF Shaking, Opens
  <2>2. Shaking' => Head(toServer') = Head(toServer)  BY <1>2, <1>6 DEF Shaking, Opens
  <2>3. q.c.socket => client'.keys = client.keys /\ client'.swf = client.swf  BY <1>2, <1>3
  <2>. QED BY <1>2, <2>1, <2>2, <2>3 DEF Inv, Through
<1>11. TurnedAway'
  BY DEF TurnedAway
<1>. QED BY <1>7, <1>8, <1>9, <1>10, <1>11 DEF Inv

\* A step of the client that closes the connection for good.
LEMMA Left ==
  ASSUME Inv, NEW q, NEW msgs, Good(q, At(msgs)), ~q.c.socket,
         Becomes(q), options' = options, link' = link, server' = server, IsSeq(toClient'),
         phase' = "over",
         status' = "handshake" => ~server.genuine /\ Unopened(toServer)
  PROVE  Inv'
<1>. DEFINE g == At(msgs)
<1>1. g.msgs = msgs /\ g.alive = server.alive /\ g.base = toServer
  BY DEF At
<1>2. client' = q.c /\ toServer' = q.out  BY DEF Becomes
<1>. HIDE DEF g
<1>3. /\ Whole(q.c, q.out, msgs, server.alive) /\ Extends(toServer, q.out) /\ IsSeq(toServer)
      /\ IsSeq(q.out)
  <2>1. Good(q, g)  BY DEF g
  <2>. QED BY <1>1, <2>1 DEF Good, Whole
<1>4. Whole(q.c, q.out, toClient', server.alive)
  BY <1>3, WholeShut
<1>5. Whole(client, toServer, toClient, server.alive)'
  BY <1>2, <1>4, WholeNext
<1>6. OpenersFirst(q.out) /\ (Unopened(toServer) => Unopened(q.out))
  BY <1>3, FrontExtends DEF Inv, Wired
<1>7. Wired'
  BY <1>2, <1>5, <1>6 DEF Inv, Wired
<1>8. Placed'
  BY <1>2 DEF Placed, Phases
<1>9. Greeting' /\ Replying' /\ Through'
  BY DEF Greeting, Replying, Through
<1>10. TurnedAway'
  BY <1>2, <1>6 DEF TurnedAway
<1>. QED BY <1>7, <1>8, <1>9, <1>10 DEF Inv

-----------------------------------------------------------------------------
(* Steps of the connection and of a server that speaks by itself.          *)

\* The server says something that is no answer.
LEMMA Said ==
  ASSUME Inv, client.socket, phase \in {"stream", "media"},
         NEW m, ~IsResult(m), ~Creates(m), ~Begins(m), ~(m.kind = "ctrl" /\ m.v = 26),
         toClient' = Append(toClient, m),
         UNCHANGED <<options, client, phase, status, toServer, link>>,
         Serving(server'), SameHand(server'), server'.alive = server.alive
  PROVE  Inv'
<1>1. /\ Whole(client, toServer, toClient, server.alive) /\ IsSeq(toClient) /\ client.stream \in Int
      /\ client.stream # 0
      /\ Numbers(client.calls, client.invokes, toServer, toClient)
      /\ Held(client.stream, toServer, toClient, server.alive)
      /\ Publisher(client.playing, client.stream, client.calls, toServer, toClient)
      /\ Checks(toClient, server.signed)
  BY DEF Inv, Wired, Whole, Typed
<1>. DEFINE msgs == Append(toClient, m)
<1>2. /\ IsSeq(msgs) /\ Len(msgs) = Len(toClient) + 1 /\ Len(toClient) \in Nat
      /\ \A i \in 1..Len(toClient) : msgs[i] = toClient[i]
      /\ msgs[Len(toClient) + 1] = m
  BY <1>1, AppendIs, SeqFacts
<1>3. Numbers(client.calls, client.invokes, toServer, msgs)  BY <1>1, NumbersSaid
<1>4. Held(client.stream, toServer, msgs, server.alive)  BY <1>1, HeldSaid
<1>5. Publisher(client.playing, client.stream, client.calls, toServer, msgs)
  BY <1>1, PublisherSaid
<1>6. toClient' = msgs  OBVIOUS
<1>. HIDE DEF msgs
<1>7. Whole(client, toServer, msgs, server.alive)  BY <1>1, <1>2, <1>3, <1>4, <1>5 DEF Whole
<1>8. Whole(client, toServer, toClient, server.alive)'
  <2>1. Whole(client', toServer', toClient', server'.alive)  BY <1>6, <1>7
  <2>. QED BY <2>1, WholeNext
<1>9. Checks(msgs, server.signed)  BY <1>1, <1>2 DEF Checks
<1>10. Wired'
  BY <1>6, <1>8, <1>9 DEF Inv, Wired, SameHand
<1>11. Placed'
  BY DEF Inv, Placed
<1>12. Greeting' /\ Replying'
  BY DEF Greeting, Replying
<1>13. Through'
  BY DEF Inv, Through, SameHand, Shaking
<1>14. TurnedAway'
  BY DEF Inv, TurnedAway, SameHand
<1>. QED BY <1>10, <1>11, <1>12, <1>13, <1>14 DEF Inv

\* The connection is lost, and what is under way to the server with it.
LEMMA Cut ==
  ASSUME Inv, toServer' = <<>>, link' # "up", toClient' = toClient \/ toClient' = <<>>,
         UNCHANGED <<options, client, phase, status, server>>
  PROVE  Inv'
<1>1. /\ Whole(client, toServer, toClient, server.alive) /\ IsSeq(toClient)
      /\ client.socket =>
           /\ Numbers(client.calls, client.invokes, toServer, toClient)
           /\ Held(client.stream, toServer, toClient, server.alive)
           /\ Publisher(client.playing, client.stream, client.calls, toServer, toClient)
           /\ Checks(toClient, server.signed)
      /\ IsSeq(<<>>) /\ Len(<<>>) = 0 /\ 1..0 = {}
  BY EmptyIs DEF Inv, Wired, Whole, Typed
<1>2. Obeyed(<<>>, server.alive) /\ OpenersFirst(<<>>) /\ Unopened(<<>>) /\ Checks(<<>>, server.signed)
  BY <1>1 DEF Obeyed, OpenersFirst, Unopened, Checks
<1>3. Whole(client, <<>>, toClient, server.alive)
  <2>1. ASSUME client.socket
        PROVE  /\ Numbers(client.calls, client.invokes, <<>>, toClient)
               /\ Held(client.stream, <<>>, toClient, server.alive)
               /\ Publisher(client.playing, client.stream, client.calls, <<>>, toClient)
    <3>1. \A i \in 1..Len(<<>>) : <<>>[i].name \notin Replied  BY <1>1
    <3>. QED BY <1>1, <2>1, <3>1, NumbersUnasked, HeldLost, PublisherLost
  <2>. QED BY <1>1, <1>2, <2>1 DEF Whole
<1>4. Whole(client, <<>>, <<>>, server.alive)
  <2>1. ASSUME client.socket
        PROVE  /\ Numbers(client.calls, client.invokes, <<>>, <<>>)
               /\ Held(client.stream, <<>>, <<>>, server.alive)
               /\ Publisher(client.playing, client.stream, client.calls, <<>>, <<>>)
    <3>1. /\ Numbers(client.calls, client.invokes, <<>>, toClient)
          /\ Held(client.stream, <<>>, toClient, server.alive)
          /\ Publisher(client.playing, client.stream, client.calls, <<>>, toClient)
      BY <1>3, <2>1 DEF Whole
    <3>2. \A i \in 1..Len(<<>>) : ~IsResult(<<>>[i]) /\ ~Creates(<<>>[i]) /\ ~Begins(<<>>[i])
      BY <1>1
    <3>. QED BY <3>1, <3>2, NumbersMute, HeldMute, PublisherMute
  <2>. QED BY <1>1, <1>2, <1>3, <2>1 DEF Whole
<1>5. Whole(client, toServer, toClient, server.alive)'
  <2>1. Whole(client', toServer', toClient', server'.alive)  BY <1>3, <1>4
  <2>. QED BY <2>1, WholeNext
<1>6. Wired'
  <2>1. client.socket => Checks(toClient', server.signed)  BY <1>1, <1>2
  <2>. QED BY <1>2, <1>5, <2>1 DEF Inv, Wired
<1>7. Placed'
  BY DEF Inv, Placed
<1>8. Greeting'
  BY <1>1 DEF Inv, Greeting, Judged, Keyed, Answer, Accepts
<1>9. Replying'
  BY DEF Inv, Replying, Judged, Answer, Accepts
<1>10. Through'
  BY DEF Inv, Through
<1>11. TurnedAway'
  BY <1>2 DEF Inv, TurnedAway
<1>. QED BY <1>6, <1>7, <1>8, <1>9, <1>10, <1>11 DEF Inv

\* The connection is lost, or the server asks to close.
LEMMA FaultStep == ASSUME Inv, Fault PROVE Inv'
<1>1. CASE Says(Reply("close", 0, 0, "", "")) /\ phase \in {"stream", "media"} /\ server' = server
  <2>. DEFINE m == Reply("close", 0, 0, "", "")
  <2>1. m.kind = "close"  BY DEF Reply
  <2>2. ~IsResult(m) /\ ~Creates(m) /\ ~Begins(m) /\ ~(m.kind = "ctrl" /\ m.v = 26)
    BY <2>1 DEF IsResult, Creates, Begins
  <2>3. /\ client.socket /\ toClient' = Append(toClient, m)
        /\ UNCHANGED <<options, client, phase, status, toServer, link>>
    BY <1>1 DEF Says
  <2>4. Serving(server') /\ SameHand(server') /\ server'.alive = server.alive
    BY <1>1 DEF Inv, Wired, SameHand
  <2>. HIDE DEF m
  <2>. QED BY <1>1, <2>2, <2>3, <2>4, Said
<1>2. CASE /\ toServer' = <<>> /\ link' \in {"gone", "reset"} /\ toClient' \in {toClient, <<>>}
           /\ UNCHANGED <<options, client, phase, status, server>>
  BY <1>2, Cut
<1>. QED BY <1>1, <1>2 DEF Fault

\* The server plays only for a client that is through with the handshake.
LEMMA Speaks ==
  ASSUME Inv, client.socket, server.playing # 0
  PROVE  phase \in {"stream", "media"}
BY DEF Inv, Placed, Phases, Greeting, Replying

\* The next media message, or the end of the stream.
LEMMA PlayOnStep == ASSUME Inv, PlayOn PROVE Inv'
<1>1. Serving(server) /\ DOMAIN server = ServerFields /\ server.playing # 0
  BY DEF Inv, Wired, Serving, PlayOn, Playing
<1>2. CASE /\ server' = [server EXCEPT !.pos = @ + 1]
           /\ Says(Reply("media", 0, server.pos + 1, "", ""))
  <2>. DEFINE m == Reply("media", 0, server.pos + 1, "", "")
  <2>1. m.kind = "media"  BY DEF Reply
  <2>2. ~IsResult(m) /\ ~Creates(m) /\ ~Begins(m) /\ ~(m.kind = "ctrl" /\ m.v = 26)
    BY <2>1 DEF IsResult, Creates, Begins
  <2>3. /\ client.socket /\ toClient' = Append(toClient, m)
        /\ UNCHANGED <<options, client, phase, status, toServer, link>>
    BY <1>2 DEF Says
  <2>4. Serving(server') /\ SameHand(server') /\ server'.alive = server.alive
    BY <1>1, <1>2 DEF Serving, SameHand, ServerFields
  <2>. HIDE DEF m
  <2>5. phase \in {"stream", "media"}  BY <1>1, <2>3, Speaks
  <2>. QED BY <2>2, <2>3, <2>4, <2>5, Said
<1>3. ASSUME NEW m, m \in {Status("NetStream.Play.Stop"), Reply("onFCUnsubscribe", 0, 0, "", "")},
             server' = [server EXCEPT !.ended = TRUE], Says(m)
      PROVE  Inv'
  <2>1. m.kind = "onFCUnsubscribe" \/ (m.kind = "onStatus" /\ m.code = "NetStream.Play.Stop")
    <3>1. Reply("onFCUnsubscribe", 0, 0, "", "").kind = "onFCUnsubscribe"  BY DEF Reply
    <3>2. /\ Status("NetStream.Play.Stop").kind = "onStatus"
          /\ Status("NetStream.Play.Stop").code = "NetStream.Play.Stop"
      BY DEF Reply, Status
    <3>. QED BY <1>3, <3>1, <3>2
  <2>2. ~IsResult(m) /\ ~Creates(m) /\ ~Begins(m) /\ ~(m.kind = "ctrl" /\ m.v = 26)
    BY <2>1 DEF IsResult, Creates, Begins, Started
  <2>3. /\ client.socket /\ toClient' = Append(toClient, m)
        /\ UNCHANGED <<options, client, phase, status, toServer, link>>
    BY <1>3 DEF Says
  <2>4. Serving(server') /\ SameHand(server') /\ server'.alive = server.alive
    BY <1>1, <1>3 DEF Serving, SameHand, ServerFields
  <2>5. phase \in {"stream", "media"}  BY <1>1, <2>3, Speaks
  <2>. QED BY <2>2, <2>3, <2>4, <2>5, Said
<1>. QED BY <1>2, <1>3 DEF PlayOn

\* Messages that ask for little or nothing.
LEMMA KeepsAlive == ASSUME Inv, SayBufferEmpty \/ KeepAlive PROVE Inv'
<1>1. \E m : Says(m) /\ m \in {Control(31), Control(6), Reply("ping", 9, 0, "", "")}
  <2>. DEFINE alive == IF phase = "stream" THEN Reply("ping", 9, 0, "", "") ELSE Control(6)
  <2>1. alive \in {Control(6), Reply("ping", 9, 0, "", "")}  OBVIOUS
  <2>2. Says(Control(31)) \/ Says(alive)  BY DEF SayBufferEmpty, KeepAlive
  <2>. HIDE DEF alive
  <2>. QED BY <2>1, <2>2
<1>0. PICK m : Says(m) /\ m \in {Control(31), Control(6), Reply("ping", 9, 0, "", "")}
  BY <1>1
<1>2. m.kind = "ping" \/ (m.kind = "ctrl" /\ m.v # 26)
  <2>1. Control(31).kind = "ctrl" /\ Control(31).v # 26  BY DEF Control, Reply
  <2>2. Control(6).kind = "ctrl" /\ Control(6).v # 26  BY DEF Control, Reply
  <2>3. Reply("ping", 9, 0, "", "").kind = "ping"  BY DEF Reply
  <2>. QED BY <1>0, <2>1, <2>2, <2>3
<1>3. ~IsResult(m) /\ ~Creates(m) /\ ~Begins(m) /\ ~(m.kind = "ctrl" /\ m.v = 26)
  BY <1>2 DEF IsResult, Creates, Begins
<1>4. /\ client.socket /\ toClient' = Append(toClient, m) /\ server' = server
      /\ UNCHANGED <<options, client, phase, status, toServer, link>>
  BY <1>0 DEF Says, SayBufferEmpty, KeepAlive
<1>5. Serving(server') /\ SameHand(server') /\ server'.alive = server.alive
  BY <1>4 DEF Inv, Wired, SameHand
<1>6. phase \in {"stream", "media"}
  BY <1>4, Speaks DEF SayBufferEmpty, KeepAlive, Playing
<1>. QED BY <1>3, <1>4, <1>5, <1>6, Said

-----------------------------------------------------------------------------
(* The client's steps.                                                     *)

\* A new connection, whatever has become of the one before.
LEMMA Dialled ==
  ASSUME options \in Options, options' = options, NEW sums \in Randoms,
         DOMAIN client' = Fields, client'.socket \in BOOLEAN, client'.socket,
         client'.playing \in BOOLEAN, options.write => ~client'.playing,
         client'.calls = <<>>, client'.invokes = 0, client'.stream = -1,
         client'.hand.sig = Made(sums), toServer' = <<Sig("C1", Made(sums))>>, toClient' = <<>>,
         Serving(server'), server'.playing = 0, phase' = "hello", status' # "handshake"
  PROVE  Inv'
<1>. DEFINE m == Sig("C1", Made(sums))
            out == <<m>>
<1>1. m.name = "C1" /\ m.sig = Made(sums)  BY DEF Sig
<1>. HIDE DEF m
<1>2. IsSeq(out) /\ Len(out) = 1 /\ out[1] = m  BY SingleIs
<1>3. toServer' = out  BY DEF m
<1>. HIDE DEF out
<1>4. \A i \in 1..Len(out) : out[i] = m  BY <1>2
<1>5. m.name \notin Replied /\ ~Touches(m) /\ m.name \notin {"ctrl"} \cup Publishing
  BY <1>1 DEF Replied, Touches, Publishing
<1>6. IsSeq(<<>>) /\ Len(<<>>) = 0 /\ 1..0 = {}  BY EmptyIs
<1>7. server'.alive \subseteq Nat \ {0}  BY DEF Serving
<1>8. Whole(client', out, <<>>, server'.alive)
  <2>1. Obeyed(out, server'.alive)  BY <1>4, <1>5 DEF Obeyed
  <2>2. Numbers(<<>>, 0, out, <<>>)
    <3>1. /\ \A i \in 1..Len(out) : out[i].name \notin Replied
          /\ \A i \in 1..Len(<<>>) : ~IsResult(<<>>[i])
      BY <1>4, <1>5, <1>6
    <3>. QED BY <3>1, NumbersNew
  <2>3. Held(-1, out, <<>>, server'.alive)  BY <1>6 DEF Held
  <2>4. Publisher(client'.playing, -1, <<>>, out, <<>>)
    BY <1>4, <1>5, <1>6 DEF Publisher
  <2>5. Typed(client')  BY <1>6 DEF Typed
  <2>6. -1 # 0 /\ -1 \in Int  OBVIOUS
  <2>. QED BY <1>2, <1>6, <1>7, <2>1, <2>2, <2>3, <2>4, <2>5, <2>6 DEF Whole
<1>9. Whole(client, toServer, toClient, server.alive)'
  <2>1. Whole(client', toServer', toClient', server'.alive)  BY <1>3, <1>8
  <2>. QED BY <2>1, WholeNext
<1>10. Wired'
  <2>1. OpenersFirst(out) /\ Checks(<<>>, server'.signed)  BY <1>2, <1>6 DEF OpenersFirst, Checks
  <2>. QED BY <1>3, <1>9, <2>1 DEF Wired
<1>11. Placed'
  BY DEF Placed, Phases
<1>12. Greeting'
  <2>1. \E mine \in Randoms : client'.hand.sig = Made(mine)'  BY DEF Made
  <2>. QED BY <1>1, <1>2, <1>3, <2>1 DEF Greeting
<1>13. Replying' /\ Through' /\ TurnedAway'
  BY DEF Replying, Through, TurnedAway
<1>. QED BY <1>10, <1>11, <1>12, <1>13 DEF Inv

\* What RTMP_Connect makes of a client, over a new connection.
LEMMA ConnectedIs ==
  ASSUME NEW c, Typed(c), NEW sums, NEW d,
         d = Connected(c, sums).c \/ d = [Connected(c, sums) EXCEPT !.c.mediaChannel = 0].c
  PROVE  /\ DOMAIN d = Fields /\ d.socket \in BOOLEAN /\ d.socket
         /\ d.playing = c.playing /\ d.calls = c.calls /\ d.invokes = c.invokes
         /\ d.stream = c.stream /\ d.hand.sig = Made(sums)
         /\ Connected(c, sums).out = <<Sig("C1", Made(sums))>>
         /\ [Connected(c, sums) EXCEPT !.c.mediaChannel = 0].out = <<Sig("C1", Made(sums))>>
<1>1. DOMAIN c = Fields  BY DEF Typed
<1>. DEFINE e == [c EXCEPT !.socket = TRUE, !.pausing = 0, !.keys = NoKeys, !.hand = [sig |-> Made(sums)]]
            out == <<Sig("C1", Made(sums))>>
<1>2. Connected(c, sums) = [c |-> e, out |-> out]  BY DEF Connected, Made
<1>3. /\ DOMAIN e = Fields /\ e.socket = TRUE /\ e.playing = c.playing /\ e.calls = c.calls
      /\ e.invokes = c.invokes /\ e.stream = c.stream /\ e.hand = [sig |-> Made(sums)]
  BY <1>1 DEF Fields
<1>. HIDE DEF e, out
<1>4. d = e \/ d = [e EXCEPT !.mediaChannel = 0]  BY <1>2
<1>5. /\ DOMAIN d = Fields /\ d.socket = TRUE /\ d.playing = e.playing /\ d.calls = e.calls
      /\ d.invokes = e.invokes /\ d.stream = e.stream /\ d.hand = [sig |-> Made(sums)]
  BY <1>3, <1>4 DEF Fields
<1>6. /\ Connected(c, sums).out = out
      /\ [Connected(c, sums) EXCEPT !.c.mediaChannel = 0].out = out
  BY <1>2
<1>7. d.socket \in BOOLEAN /\ d.socket  BY <1>5
<1>8. d.hand.sig = Made(sums)  BY <1>5
<1>. QED BY <1>3, <1>5, <1>6, <1>7, <1>8 DEF out

\* RTMP_Connect.
LEMMA ConnectStep == ASSUME Inv, RTMP_Connect PROVE Inv'
<1>1. PICK sums \in Randoms : Becomes(Connected(client, sums))  BY DEF RTMP_Connect
<1>2. /\ phase = "start" /\ phase' = "hello"
      /\ UNCHANGED <<options, status, toClient, server>>
  BY DEF RTMP_Connect
<1>3. Typed(client) /\ Shut(client) /\ toClient = <<>> /\ server.playing = 0 /\ Serving(server)
  BY <1>2 DEF Inv, Placed, Wired, Whole
<1>4. /\ DOMAIN client' = Fields /\ client'.socket \in BOOLEAN /\ client'.socket
      /\ client'.playing = client.playing /\ client'.calls = client.calls
      /\ client'.invokes = client.invokes /\ client'.stream = client.stream
      /\ client'.hand.sig = Made(sums) /\ toServer' = <<Sig("C1", Made(sums))>>
  BY <1>1, <1>3, ConnectedIs DEF Becomes
<1>5. /\ client'.playing \in BOOLEAN /\ (options.write => ~client'.playing)
      /\ client'.calls = <<>> /\ client'.invokes = 0 /\ client'.stream = -1
  BY <1>3, <1>4 DEF Typed, Shut
<1>6. status' # "handshake" /\ options \in Options
  BY <1>2 DEF Inv, TurnedAway, Wired
<1>. QED BY <1>2, <1>3, <1>4, <1>5, <1>6, Dialled

\* What a handler begins with, over a connection that is through.
LEMMA Hears ==
  ASSUME Inv, phase \in {"stream", "media"}, client.socket, toClient # <<>>
  PROVE  LET m == Head(toClient) IN
         /\ Good(ReadPacket(m), At(Tail(toClient))) /\ ReadPacket(m).c.socket
         /\ ~ReadPacket(m).again /\ Good(RTMP_ClientPacket(ReadPacket(m), m), At(Tail(toClient)))
         /\ Checks(Tail(toClient), server.signed) /\ status # "handshake"
<1>. DEFINE m == Head(toClient)
<1>1. /\ Whole(client, toServer, toClient, server.alive) /\ IsSeq(toClient)
      /\ Checks(toClient, server.signed)
  BY DEF Inv, Wired, Whole
<1>2. /\ Len(Tail(toClient)) = Len(toClient) - 1 /\ Len(toClient) \in Nat
      /\ \A i \in 1..Len(Tail(toClient)) :
           Tail(toClient)[i] = toClient[i + 1] /\ i + 1 \in 1..Len(toClient)
      /\ m = toClient[1] /\ 1 \in 1..Len(toClient)
  BY <1>1, TailIs, SeqFacts
<1>3. Checks(Tail(toClient), server.signed)  BY <1>1, <1>2 DEF Checks
<1>4. m.kind = "ctrl" /\ m.v = 26 /\ options.swf => client.swf = 1
  BY <1>1, <1>2 DEF Checks, Inv, Through
<1>. HIDE DEF m
<1>5. m = Head(toClient)  BY DEF m
<1>6. /\ Good(ReadPacket(m), At(Tail(toClient))) /\ ReadPacket(m).c.socket
      /\ ReadPacket(m).c.stream = client.stream /\ ~ReadPacket(m).again
      /\ Fits(ReadPacket(m), m, At(Tail(toClient)))
  BY <1>1, <1>4, <1>5, ReadGood
<1>7. Good(RTMP_ClientPacket(ReadPacket(m), m), At(Tail(toClient)))  BY <1>6, PacketGood
<1>8. status # "handshake"  BY DEF Inv, TurnedAway
<1>. QED BY <1>3, <1>6, <1>7, <1>8 DEF m

\* RTMP_ConnectStream, with the reconnection of a refused publisher.
LEMMA ConnectStreamStep == ASSUME Inv, RTMP_ConnectStream PROVE Inv'
<1>. DEFINE m == Head(toClient)
            p == ReadPacket(m)
            q == IF m.kind = "media" THEN p ELSE RTMP_ClientPacket(p, m)
            again(sums) == [Connected(q.c, sums) EXCEPT !.c.mediaChannel = 0]
            g == At(Tail(toClient))
<1>1. /\ phase = "stream" /\ client.socket /\ toClient # <<>> /\ options' = options
      /\ IF q.again THEN \E sums \in Randoms : Becomes(again(sums)) ELSE Becomes(q)
      /\ toClient' = IF q.again \/ ~q.c.socket THEN <<>> ELSE Tail(toClient)
      /\ link' = IF q.again THEN "up" ELSE link
      /\ server' = IF q.again THEN NewSession ELSE server
      /\ phase' = CASE q.again -> "hello" [] ~q.again /\ q.c.playing -> "media"
                    [] ~q.again /\ ~q.c.playing /\ q.c.socket -> "stream" [] OTHER -> "over"
      /\ status' = IF phase' = "over" THEN "connect" ELSE status
  BY DEF RTMP_ConnectStream
<1>2. /\ Good(p, g) /\ ~p.again /\ Good(RTMP_ClientPacket(p, m), g)
      /\ Checks(Tail(toClient), server.signed) /\ status # "handshake"
  BY <1>1, Hears
<1>3. Good(q, g)  BY <1>2
<1>4. g.msgs = Tail(toClient)  BY DEF At
<1>. HIDE DEF q, p, m
<1>5. /\ q.again \in BOOLEAN /\ (q.again => ~q.c.socket) /\ q.c.socket \in BOOLEAN
      /\ q.c.playing \in BOOLEAN /\ Typed(q.c) /\ (~q.c.socket => Shut(q.c))
      /\ q.c.socket /\ options.write /\ q.c.playing => q.c.stream > 0
  BY <1>3 DEF Good, Whole, Typed, Publisher
<1>6. status' # "handshake"  BY <1>1, <1>2
<1>7. CASE q.again
  <2>1. PICK sums \in Randoms : Becomes(again(sums))  BY <1>1, <1>7
  <2>2. /\ DOMAIN client' = Fields /\ client'.socket \in BOOLEAN /\ client'.socket
        /\ client'.playing = q.c.playing /\ client'.calls = q.c.calls
        /\ client'.invokes = q.c.invokes /\ client'.stream = q.c.stream
        /\ client'.hand.sig = Made(sums) /\ toServer' = <<Sig("C1", Made(sums))>>
    BY <1>5, <2>1, ConnectedIs DEF Becomes
  <2>3. /\ client'.playing \in BOOLEAN /\ (options.write => ~client'.playing)
        /\ client'.calls = <<>> /\ client'.invokes = 0 /\ client'.stream = -1
    BY <1>5, <1>7, <2>2 DEF Typed, Shut
  <2>4. /\ toClient' = <<>> /\ server' = NewSession /\ phase' = "hello"
    BY <1>1, <1>5, <1>7
  <2>5. Serving(server') /\ server'.playing = 0
    <3>1. {} \subseteq 1..(1 - 1) /\ 1 \in Nat \ {0}  OBVIOUS
    <3>. QED BY <2>4, <3>1 DEF NewSession, Serving, ServerFields
  <2>6. options \in Options  BY DEF Inv, Wired
  <2>. QED BY <1>1, <1>6, <2>2, <2>3, <2>4, <2>5, <2>6, Dialled
<1>8. CASE ~q.again
  <2>1. Becomes(q) /\ link' = link /\ server' = server  BY <1>1, <1>8
  <2>2. toClient' = Tail(toClient) \/ (~q.c.socket /\ toClient' = <<>>)
    BY <1>1, <1>8
  <2>3. \/ phase' = "media" /\ q.c.playing
        \/ phase' = "stream"
        \/ phase' = "over" /\ ~q.c.socket
    BY <1>1, <1>8
  <2>4. options.write /\ phase' = "media" /\ q.c.socket => q.c.stream > 0
    BY <1>5, <2>3
  <2>5. phase' \in {"stream", "media"} \/ (phase' = "over" /\ ~q.c.socket)  BY <2>3
  <2>. HIDE DEF g
  <2>6. Good(q, At(Tail(toClient)))  BY <1>3 DEF g
  <2>. QED BY <1>1, <1>2, <1>6, <2>1, <2>2, <2>4, <2>5, <2>6, Stepped
<1>. QED BY <1>5, <1>7, <1>8

\* RTMP_GetNextMediaPacket.
LEMMA NextMediaPacketStep == ASSUME Inv, RTMP_GetNextMediaPacket PROVE Inv'
<1>. DEFINE m == Head(toClient)
            q == RTMP_ClientPacket(ReadPacket(m), m)
            taken == q.ret > 0 /\ ~Skipped(q.c, m)
            pausing == IF q.c.pausing = 3 THEN 0 ELSE q.c.pausing
            noted1 == [q.c EXCEPT !.pausing = pausing, !.playing = TRUE]
            c == IF taken THEN noted1 ELSE q.c
            r == [q EXCEPT !.c = c]
<1>1. /\ phase = "media" /\ ~options.write /\ client.socket /\ toClient # <<>>
      /\ options' = options /\ link' = link /\ server' = server
      /\ Becomes(r) /\ toClient' = IF c.socket THEN Tail(toClient) ELSE <<>>
      /\ phase' = IF c.socket THEN "media" ELSE "over"
      /\ status' = IF c.socket THEN status ELSE IF taken /\ q.ret = 2 THEN "complete" ELSE "eof"
  BY DEF RTMP_GetNextMediaPacket
<1>2. Good(q, At(Tail(toClient))) /\ Checks(Tail(toClient), server.signed) /\ status # "handshake"
  BY <1>1, Hears
<1>. HIDE DEF q, taken, pausing
<1>3. Good([q EXCEPT !.c = noted1], At(Tail(toClient)))  BY <1>1, <1>2, TakenGood
<1>4. Good([q EXCEPT !.c = q.c], At(Tail(toClient)))
  <2>. DEFINE s == [q EXCEPT !.c = q.c]
  <2>1. DOMAIN q = Handled /\ DOMAIN q.c = Fields  BY <1>2 DEF Good, Whole, Typed
  <2>2. DOMAIN s = Handled /\ s.again = q.again /\ s.out = q.out /\ s.c = q.c
    BY <2>1 DEF Handled
  <2>. HIDE DEF s
  <2>3. Good(s, At(Tail(toClient)))  BY <1>2, <2>1, <2>2, GoodAlike
  <2>. QED BY <2>3 DEF s
<1>. HIDE DEF noted1
<1>5. Good(r, At(Tail(toClient)))  BY <1>3, <1>4
<1>6. r.c = c  BY <1>2 DEF Good, Handled
<1>. HIDE DEF r, c
<1>7. r.c.socket \in BOOLEAN  BY <1>5 DEF Good, Whole, Typed
<1>8. /\ toClient' = Tail(toClient) \/ (~r.c.socket /\ toClient' = <<>>)
      /\ phase' = "media" \/ (phase' = "over" /\ ~r.c.socket)
      /\ status' # "handshake"
  BY <1>1, <1>2, <1>6, <1>7
<1>. QED BY <1>1, <1>2, <1>5, <1>8, Stepped

\* What a step begins with that reads no message.
LEMMA Idle ==
  ASSUME Inv
  PROVE  /\ Good(Quiet, At(toClient)) /\ Quiet.c = client /\ Quiet.out = toServer /\ IsSeq(toClient)
         /\ client.socket => Checks(toClient, server.signed)
         /\ phase # "over" => status # "handshake"
<1>1. Whole(client, toServer, toClient, server.alive)  BY DEF Inv, Wired
<1>2. IsSeq(toClient)  BY <1>1 DEF Whole
<1>. QED BY <1>1, <1>2, QuietGood DEF Inv, Wired, TurnedAway

\* The client closes the connection and goes.
LEMMA Goes ==
  ASSUME Inv, NEW q, Good(q, At(toClient)), Becomes(CloseInternal(q)), phase' = "over",
         status' # "handshake", UNCHANGED <<options, toClient, link, server>>
  PROVE  Inv'
<1>1. Good(CloseInternal(q), At(toClient)) /\ ~CloseInternal(q).c.socket  BY GoodCloses
<1>2. IsSeq(toClient')  BY Idle
<1>. QED BY <1>1, <1>2, Left

\* A timeout or the end of the connection.
LEMMA NothingComesStep == ASSUME Inv, NothingComes PROVE Inv'
<1>. DEFINE n == IF client.pausing = 0 THEN MediaTime(client) ELSE Quiet.c.pauseStamp
            stamped == [Quiet EXCEPT !.c.pauseStamp = n]
            paused == [SendPause(stamped, TRUE) EXCEPT !.c.pausing = 1]
            on == IF client.pausing = 0 THEN paused ELSE stamped
            q == [SendPause(on, FALSE) EXCEPT !.c.pausing = 3]
<1>1. /\ client.socket /\ UNCHANGED <<options, toClient, link, server>>
      /\ \/ Becomes(CloseInternal(Quiet)) /\ phase' = "over" /\ status' \in {"connect", "eof"}
         \/ Becomes(CloseInternal(stamped)) /\ phase' = "over" /\ status' = "timeout"
         \/ /\ phase = "media" /\ ~options.write /\ Becomes(q) /\ UNCHANGED <<phase, status>>
  BY DEF NothingComes
<1>2. /\ Good(Quiet, At(toClient)) /\ (client.socket => Checks(toClient, server.signed))
      /\ phase # "over" => status # "handshake"
  BY Idle
<1>. HIDE DEF n
<1>3. Good(stamped, At(toClient))  BY <1>2, Untracked
<1>. HIDE DEF stamped
<1>4. Good(paused, At(toClient))
  <2>1. Good(SendPause(stamped, TRUE), At(toClient))  BY <1>3, InvokesGood
  <2>. QED BY <2>1, Untracked
<1>. HIDE DEF paused
<1>5. Good(on, At(toClient))  BY <1>3, <1>4
<1>. HIDE DEF on
<1>6. Good(q, At(toClient))
  <2>1. Good(SendPause(on, FALSE), At(toClient))  BY <1>5, InvokesGood
  <2>. QED BY <2>1, Untracked
<1>. HIDE DEF q
<1>7. CASE Becomes(CloseInternal(Quiet)) /\ phase' = "over" /\ status' \in {"connect", "eof"}
  BY <1>1, <1>2, <1>7, Goes
<1>8. CASE Becomes(CloseInternal(stamped)) /\ phase' = "over" /\ status' = "timeout"
  BY <1>1, <1>3, <1>8, Goes
<1>9. CASE phase = "media" /\ ~options.write /\ Becomes(q) /\ UNCHANGED <<phase, status>>
  BY <1>1, <1>2, <1>6, <1>9, Stepped
<1>. QED BY <1>1, <1>7, <1>8, <1>9

\* RTMP_ReconnectStream: the old stream is deleted, a new one is asked for.
LEMMA ReconnectStep == ASSUME Inv, RTMP_ReconnectStream PROVE Inv'
<1>. DEFINE q == SendCreateStream(RTMP_DeleteStream(Quiet))
            r == [q EXCEPT !.c.mediaChannel = 0]
<1>1. /\ phase = "media" /\ ~options.write /\ client.socket
      /\ Becomes(r) /\ phase' \in {"media", "stream"} /\ UNCHANGED <<options, status, toClient, link, server>>
  BY DEF RTMP_ReconnectStream
<1>2. /\ Good(Quiet, At(toClient)) /\ Quiet.c = client /\ Checks(toClient, server.signed)
      /\ status # "handshake"
  BY <1>1, Idle
<1>3. Good(RTMP_DeleteStream(Quiet), At(toClient))  BY <1>1, <1>2, DeleteStreamGood
<1>4. Good(q, At(toClient))  BY <1>3, InvokesGood
<1>. HIDE DEF q
<1>5. Good(r, At(toClient))  BY <1>4, Untracked
<1>. HIDE DEF r
<1>. QED BY <1>1, <1>2, <1>5, Stepped

\* RTMP_Write: the stream published is alive.
LEMMA WriteStep == ASSUME Inv, RTMP_Write PROVE Inv'
<1>1. /\ phase = "media" /\ options.write /\ client.socket
      /\ UNCHANGED <<options, toClient, link, server>>
  BY DEF RTMP_Write
<1>2. /\ Good(Quiet, At(toClient)) /\ Quiet.c = client /\ Quiet.out = toServer
      /\ Checks(toClient, server.signed) /\ status # "handshake"
  BY <1>1, Idle
<1>3. CASE Becomes(CloseInternal(Quiet)) /\ phase' = "over" /\ status' = "complete"
  BY <1>1, <1>2, <1>3, Goes
<1>4. ASSUME NEW v, Becomes(Send(Quiet, Request("media", 0, client.stream, v))), UNCHANGED <<phase, status>>
      PROVE  Inv'
  <2>. DEFINE m == Request("media", 0, client.stream, v)
              q == Send(Quiet, m)
  <2>1. m.name = "media" /\ m.stream = client.stream  BY DEF Request
  <2>. HIDE DEF m
  <2>2. client.stream > 0  BY <1>1 DEF Inv, Placed
  <2>3. Alive(toServer, client.stream, server.alive)
    BY <1>1, <2>2 DEF Inv, Wired, Whole, Held
  <2>4. /\ m.name \notin Replied /\ ~Opens(m) /\ m.name # "deleteStream" /\ m.name # "ctrl"
        /\ Touched(m) = client.stream
    BY <2>1 DEF Replied, Opens, Touched
  <2>5. At(toClient).alive = server.alive  BY DEF At
  <2>6. Good(q, At(toClient))  BY <1>2, <2>3, <2>4, <2>5, SendGood
  <2>7. Steady(Quiet, q)  BY <1>2, SendSteady
  <2>8. q.c.socket => q.c.stream > 0  BY <1>2, <2>2, <2>7 DEF Steady
  <2>9. Becomes(q)  BY <1>4 DEF m
  <2>. HIDE DEF q
  <2>. QED BY <1>1, <1>2, <1>4, <2>6, <2>8, <2>9, Stepped
<1>. QED BY <1>3, <1>4 DEF RTMP_Write

\* The caller has enough.
LEMMA StopStep == ASSUME Inv, Stop PROVE Inv'
<1>1. /\ Becomes(CloseInternal(Quiet)) /\ phase' = "over" /\ status' # "handshake"
      /\ UNCHANGED <<options, toClient, link, server>>
  BY DEF Stop
<1>2. Good(Quiet, At(toClient))  BY Idle
<1>. QED BY <1>1, <1>2, Goes

\* The caller notices that a send has closed the connection.
LEMMA LostStep == ASSUME Inv, Lost PROVE Inv'
<1>1. /\ ~client.socket /\ phase' = "over" /\ status' # "handshake"
      /\ UNCHANGED <<options, client, toServer, toClient, link, server>>
  BY DEF Lost
<1>2. Whole(client, toServer, toClient, server.alive)'
  <2>1. Whole(client', toServer', toClient', server'.alive)  BY <1>1 DEF Inv, Wired
  <2>. QED BY <1>1, <2>1, WholeNext
<1>3. Wired'  BY <1>1, <1>2 DEF Inv, Wired
<1>4. Placed' /\ Greeting' /\ Replying' /\ Through' /\ TurnedAway'
  BY <1>1 DEF Placed, Phases, Greeting, Replying, Through, TurnedAway
<1>. QED BY <1>3, <1>4 DEF Inv

-----------------------------------------------------------------------------
(* The handshake and the server's steps.                                   *)

\* The server takes a message that asks for nothing.
LEMMA WholeTaken ==
  ASSUME Whole(client, toServer, toClient, server.alive), toServer # <<>>
  PROVE  Whole(client, Tail(toServer), toClient, server.alive)
<1>1. /\ IsSeq(toServer) /\ Obeyed(toServer, server.alive) /\ IsSeq(Tail(toServer))
      /\ Len(Tail(toServer)) = Len(toServer) - 1 /\ Len(toServer) \in Nat
      /\ \A i \in 1..Len(Tail(toServer)) :
           Tail(toServer)[i] = toServer[i + 1] /\ i + 1 \in 1..Len(toServer)
  BY TailIs, SeqFacts DEF Whole
<1>2. /\ Obeyed(Tail(toServer), server.alive)
      /\ \A s : Alive(toServer, s, server.alive) => Alive(Tail(toServer), s, server.alive)
  BY <1>1, ObeyedServed
<1>3. ASSUME client.socket
      PROVE  /\ Numbers(client.calls, client.invokes, Tail(toServer), toClient)
             /\ Held(client.stream, Tail(toServer), toClient, server.alive)
             /\ Publisher(client.playing, client.stream, client.calls, Tail(toServer), toClient)
  <2>1. /\ Numbers(client.calls, client.invokes, toServer, toClient)
        /\ Held(client.stream, toServer, toClient, server.alive)
        /\ Publisher(client.playing, client.stream, client.calls, toServer, toClient)
    BY <1>3 DEF Whole
  <2>2. Numbers(client.calls, client.invokes, Tail(toServer), toClient)  BY <1>1, <2>1, NumbersTaken
  <2>3. Held(client.stream, Tail(toServer), toClient, server.alive)  BY <1>2, <2>1 DEF Held
  <2>4. Publisher(client.playing, client.stream, client.calls, Tail(toServer), toClient)
    BY <1>1, <2>1 DEF Publisher
  <2>. QED BY <2>2, <2>3, <2>4
<1>. QED BY <1>1, <1>2, <1>3 DEF Whole

\* What is under way to the client is replaced by messages without consequences.
LEMMA WholeMute ==
  ASSUME NEW c, NEW out, NEW msgs, NEW alive, Whole(c, out, msgs, alive),
         NEW msgs2, IsSeq(msgs2),
         \A i \in 1..Len(msgs2) : ~IsResult(msgs2[i]) /\ ~Creates(msgs2[i]) /\ ~Begins(msgs2[i])
  PROVE  Whole(c, out, msgs2, alive)
<1>1. ASSUME c.socket
      PROVE  /\ Numbers(c.calls, c.invokes, out, msgs2) /\ Held(c.stream, out, msgs2, alive)
             /\ Publisher(c.playing, c.stream, c.calls, out, msgs2)
  <2>1. /\ Numbers(c.calls, c.invokes, out, msgs) /\ Held(c.stream, out, msgs, alive)
        /\ Publisher(c.playing, c.stream, c.calls, out, msgs)
    BY <1>1 DEF Whole
  <2>. QED BY <2>1, NumbersMute, HeldMute, PublisherMute
<1>. QED BY <1>1 DEF Whole

\* The client's response in the handshake.
LEMMA WholeOpens ==
  ASSUME NEW c, NEW out, NEW msgs, NEW alive, Whole(c, out, msgs, alive),
         NEW m, m.name = "C2"
  PROVE  Whole(c, Append(out, m), msgs, alive)
<1>1. /\ IsSeq(out) /\ IsSeq(Append(out, m)) /\ Typed(c) /\ c.invokes \in Nat /\ c.stream \in Int
      /\ Obeyed(out, alive) /\ IsSeq(c.calls)
  BY AppendIs DEF Whole, Typed
<1>2. /\ ~Touches(m) /\ m.name # "ctrl" /\ m.name \notin Replied /\ m.name # "deleteStream"
      /\ m.name \notin Publishing
  BY DEF Touches, Replied, Publishing
<1>3. Obeyed(Append(out, m), alive)  BY <1>1, <1>2, ObeyedSent
<1>4. ASSUME c.socket
      PROVE  /\ Numbers(c.calls, c.invokes, Append(out, m), msgs)
             /\ Held(c.stream, Append(out, m), msgs, alive)
             /\ Publisher(c.playing, c.stream, c.calls, Append(out, m), msgs)
  <2>1. /\ Numbers(c.calls, c.invokes, out, msgs) /\ Held(c.stream, out, msgs, alive)
        /\ Publisher(c.playing, c.stream, c.calls, out, msgs)
    BY <1>4 DEF Whole
  <2>2. Numbers(c.calls, c.invokes, Append(out, m), msgs)  BY <1>1, <1>2, <2>1, NumbersPlain
  <2>3. Held(c.stream, Append(out, m), msgs, alive)  BY <1>1, <1>2, <2>1, HeldSent
  <2>4. Publisher(c.playing, c.stream, c.calls, Append(out, m), msgs)
    BY <1>1, <1>2, <2>1, PublisherAsks
  <2>. QED BY <2>2, <2>3, <2>4
<1>. QED BY <1>1, <1>3, <1>4 DEF Whole

\* A server turned away.
LEMMA TurnsAway ==
  ASSUME Inv, toClient # <<>>, NotGenuine, toClient' = Tail(toClient),
         UNCHANGED <<options, link, server>>, ~server.genuine, Unopened(toServer)
  PROVE  Inv'
<1>1. Whole(client, toServer, toClient, server.alive) /\ IsSeq(toClient)
  BY DEF Inv, Wired, Whole
<1>2. Whole(client, toServer, Tail(toClient), server.alive)  BY <1>1, WholeHeard
<1>3. Good(Quiet, At(Tail(toClient)))  BY <1>2, QuietGood
<1>4. Good(CloseInternal(Quiet), At(Tail(toClient))) /\ ~CloseInternal(Quiet).c.socket
  BY <1>3, GoodCloses
<1>5. IsSeq(toClient')  BY <1>1, TailIs
<1>6. Becomes(CloseInternal(Quiet)) /\ phase' = "over"  BY DEF NotGenuine
<1>. QED BY <1>4, <1>5, <1>6, Left

\* The server obeys a command and answers it.
LEMMA ServeStep == ASSUME Inv, Serve PROVE Inv'
<1>1. /\ link = "up" /\ toServer # <<>> /\ ~Shaking /\ toServer' = Tail(toServer)
      /\ UNCHANGED <<options, client, phase, status, link>>
  BY DEF Serve
<1>. DEFINE m == Head(toServer)
<1>2. PICK replies \in Replies(m) :
        /\ toClient' = IF client.socket THEN toClient \o replies ELSE <<>>
        /\ server' = Served(m, replies)
  BY DEF Serve
<1>3. /\ Whole(client, toServer, toClient, server.alive) /\ Serving(server) /\ IsSeq(toServer)
      /\ IsSeq(toClient) /\ Obeyed(toServer, server.alive) /\ client.socket \in BOOLEAN
  BY DEF Inv, Wired, Whole, Typed
<1>4. Whole(client, Tail(toServer), toClient', server'.alive)  BY <1>1, <1>2, <1>3, WholeServed
<1>5. Serving(server') /\ SameHand(server')  BY <1>1, <1>2, <1>3, ServedIs
<1>6. Whole(client, toServer, toClient, server.alive)'
  <2>1. Whole(client', toServer', toClient', server'.alive)  BY <1>1, <1>4
  <2>. QED BY <1>1, <2>1, WholeNext
<1>7. /\ Len(Tail(toServer)) = Len(toServer) - 1 /\ Len(toServer) \in Nat
      /\ \A i \in 1..Len(Tail(toServer)) :
           Tail(toServer)[i] = toServer[i + 1] /\ i + 1 \in 2..Len(toServer)
      /\ Head(toServer) = toServer[1] /\ 1 \in 1..Len(toServer) /\ IsSeq(Tail(toServer))
  BY <1>1, <1>3, TailIs, SeqFacts
<1>8. \A i \in 1..Len(Tail(toServer)) : ~Opens(Tail(toServer)[i])
  BY <1>7 DEF Inv, Wired, OpenersFirst
<1>9. OpenersFirst(Tail(toServer)) /\ Unopened(Tail(toServer)) /\ ~Shaking'
  <2>1. OpenersFirst(Tail(toServer))
    <3>1. Len(Tail(toServer)) \in Nat  BY <1>7
    <3>2. \A i \in 2..Len(Tail(toServer)) : i \in 1..Len(Tail(toServer))  BY <3>1
    <3>. QED BY <1>8, <3>2 DEF OpenersFirst
  <2>2. Unopened(Tail(toServer))  BY <1>8 DEF Unopened, Opens
  <2>3. Tail(toServer) # <<>> => Head(Tail(toServer)) = Tail(toServer)[1] /\ 1 \in 1..Len(Tail(toServer))
    BY <1>7, TailIs, SeqFacts
  <2>. QED BY <1>1, <1>8, <2>1, <2>2, <2>3 DEF Shaking, Opens
<1>10. client.socket => Checks(toClient', server.signed)
  <2>1. Sequel(m, replies)  BY RepliesAre
  <2>2. IsSeq(replies) /\ \A i \in 1..Len(replies) : Answers(m, replies[i])  BY <2>1, SequelHas
  <2>3. client.socket => Checks(toClient, server.signed)  BY DEF Inv, Wired
  <2>4. /\ Len(toClient) \in Nat /\ Len(replies) \in Nat
        /\ Len(toClient \o replies) = Len(toClient) + Len(replies)
        /\ \A i \in 1..Len(toClient \o replies) :
             (toClient \o replies)[i] = IF i <= Len(toClient) THEN toClient[i] ELSE replies[i - Len(toClient)]
    BY <1>3, <2>2, ConcatIs, SeqFacts
  <2>5. \A i \in 1..Len(toClient \o replies) :
          \/ i \in 1..Len(toClient) /\ (toClient \o replies)[i] = toClient[i]
          \/ i - Len(toClient) \in 1..Len(replies) /\ (toClient \o replies)[i] = replies[i - Len(toClient)]
    BY <2>4
  <2>6. client.socket => Checks(toClient \o replies, server.signed)
    BY <2>2, <2>3, <2>5 DEF Checks, Answers
  <2>. QED BY <1>2, <2>6
<1>11. Wired'
  BY <1>1, <1>5, <1>6, <1>9, <1>10 DEF Inv, Wired, SameHand
<1>12. client.socket => phase \in {"stream", "media"}
  <2>1. ASSUME client.socket, phase = "hello" PROVE FALSE
    BY <1>1, <1>7, <2>1 DEF Inv, Greeting, Shaking
  <2>2. ASSUME client.socket, phase = "reply" PROVE FALSE
    BY <1>1, <1>7, <2>2 DEF Inv, Replying, Shaking
  <2>. QED BY <2>1, <2>2 DEF Inv, Placed, Phases
<1>13. Placed'
  BY <1>1 DEF Inv, Placed
<1>14. Greeting' /\ Replying'
  BY <1>1, <1>12 DEF Greeting, Replying
<1>15. Through'
  BY <1>1, <1>5, <1>9 DEF Inv, Through, SameHand
<1>16. TurnedAway'
  BY <1>1, <1>5, <1>9 DEF Inv, TurnedAway, SameHand
<1>. QED BY <1>11, <1>13, <1>14, <1>15, <1>16 DEF Inv

\* HandShake: the server's signature is judged and answered.
LEMMA HandShakeStep == ASSUME Inv, HandShake PROVE Inv'
<1>. DEFINE sig == Head(toClient).sig
            answer == ClientAnswer(options.enc, options.swf, sig)
            fp9 == FP9HandShake(options.enc, options.swf, sig)
            swf == IF options.swf /\ fp9 THEN 1 ELSE Quiet.c.swf
            hand == [sig |-> client.hand.sig, other |-> sig, keys |-> answer.keys]
            answered == [Quiet EXCEPT !.c.hand = hand, !.c.swf = swf]
            m == Sig("C2", answer.reply)
            q == Send(answered, m)
<1>1. /\ phase = "hello" /\ client.socket /\ toClient # <<>> /\ toClient' = Tail(toClient)
      /\ UNCHANGED <<options, link, server>>
      /\ \/ answer.ok /\ Becomes(q) /\ phase' = "reply" /\ UNCHANGED status
         \/ ~answer.ok /\ NotGenuine
  BY DEF HandShake
<1>2. /\ server.playing = 0 /\ Len(toClient) = 2
      /\ toClient[1].kind = "S1" /\ toClient[2].kind = "S2" /\ toServer = <<>>
      /\ Judged(client.hand.sig, toClient[1].sig, toClient[2].sig, server.signed, server.genuine)
      /\ Keyed(client.hand.sig, toClient[1].sig, toClient[2].sig, server.hand.keys)
  BY <1>1 DEF Inv, Greeting
<1>3. /\ Whole(client, toServer, toClient, server.alive) /\ IsSeq(toClient) /\ Serving(server)
      /\ options \in Options /\ DOMAIN client = Fields
  BY DEF Inv, Wired, Whole, Typed
<1>4. /\ Head(toClient) = toClient[1] /\ Len(Tail(toClient)) = 1 /\ Tail(toClient)[1] = toClient[2]
      /\ IsSeq(Tail(toClient))
  <2>1. /\ IsSeq(Tail(toClient)) /\ Len(Tail(toClient)) = Len(toClient) - 1
        /\ \A i \in 1..Len(Tail(toClient)) : Tail(toClient)[i] = toClient[i + 1]
        /\ Head(toClient) = toClient[1]
    BY <1>1, <1>3, TailIs
  <2>2. 2 - 1 = 1 /\ 1 + 1 = 2 /\ 1 \in 1..1  OBVIOUS
  <2>3. Len(Tail(toClient)) = 1  BY <1>2, <2>1, <2>2
  <2>4. Tail(toClient)[1] = toClient[1 + 1]  BY <2>1, <2>2, <2>3
  <2>. QED BY <2>1, <2>2, <2>3, <2>4
<1>5. sig = toClient[1].sig  BY <1>4
<1>6. answer = Answer(sig)  BY DEF Answer
<1>7. CASE ~answer.ok /\ NotGenuine
  <2>1. ~server.genuine  BY <1>2, <1>5, <1>6, <1>7 DEF Judged
  <2>2. Unopened(toServer)  BY <1>2, EmptyIs DEF Unopened
  <2>. QED BY <1>1, <1>7, <2>1, <2>2, TurnsAway
<1>8. CASE answer.ok /\ Becomes(q) /\ phase' = "reply" /\ UNCHANGED status
  <2>1. server.signed /\ options.swf => swf = 1
    BY <1>2, <1>5 DEF Judged
  <2>2. hand.sig = client.hand.sig /\ hand.other = sig /\ hand.keys = answer.keys  OBVIOUS
  <2>3. m.name = "C2"  BY DEF Sig
  <2>. HIDE DEF sig, answer, swf, hand, m
  <2>4. /\ DOMAIN answered = Handled /\ answered.out = toServer
        /\ DOMAIN answered.c = Fields /\ answered.c.socket = client.socket
        /\ answered.c.stream = client.stream /\ answered.c.playing = client.playing
        /\ answered.c.calls = client.calls /\ answered.c.invokes = client.invokes
        /\ answered.c.hand = hand /\ answered.c.swf = swf
    BY <1>3 DEF Quiet, Handled, Fields
  <2>. HIDE DEF answered
  <2>5. Whole(client, toServer, Tail(toClient), server.alive)  BY <1>1, <1>3, WholeHeard
  <2>6. Whole(answered.c, toServer, Tail(toClient), server.alive)
    BY <2>4, <2>5 DEF Whole, Typed, Shut
  <2>7. Whole(answered.c, Append(toServer, m), Tail(toClient), server.alive)
    BY <2>3, <2>6, WholeOpens
  <2>8. answered.c.socket \in BOOLEAN /\ answered.c.socket  BY <1>1, <2>4, <2>6 DEF Whole, Typed
  <2>9. \/ q.c = Closed(answered.c) /\ q.out = toServer
        \/ /\ q.c = answered.c /\ (q.out = toServer \/ q.out = Append(toServer, m))
           /\ link = "up" => q.out = Append(toServer, m)
    <3>1. CASE link = "up"
      <4>1. q = [answered EXCEPT !.out = Append(@, m)]  BY <2>8, <3>1 DEF Send
      <4>2. q.c = answered.c /\ q.out = Append(toServer, m)  BY <2>4, <4>1 DEF Handled
      <4>. QED BY <4>2
    <3>2. CASE link # "up"
      <4>1. \/ q.c = Closed(answered.c) /\ q.out = answered.out
            \/ q.c = answered.c /\ (q.out = answered.out \/ q.out = Append(answered.out, m))
        BY <2>4, <2>8, Sends
      <4>. QED BY <2>4, <3>2, <4>1
    <3>. QED BY <3>1, <3>2
  <2>10. client' = q.c /\ toServer' = q.out  BY <1>8 DEF Becomes
  <2>. HIDE DEF q
  <2>11. /\ IsSeq(<<>>) /\ Len(<<>>) = 0
         /\ Append(toServer, m) = <<m>> /\ Len(<<m>>) = 1 /\ <<m>>[1] = m
    BY <1>2, EmptyIs, SingleIs
  <2>12. OpenersFirst(q.out)
    <3>1. q.out = <<>> \/ q.out = <<m>>  BY <1>2, <2>9, <2>11
    <3>. QED BY <2>11, <3>1 DEF OpenersFirst
  <2>13. status' # "handshake"  BY <1>1, <1>8 DEF Inv, TurnedAway
  <2>14. CASE q.c = Closed(answered.c) /\ q.out = toServer
    <3>1. Typed(q.c) /\ Shut(q.c) /\ ~q.c.socket  BY <2>4, <2>14, ClosedIs
    <3>2. Whole(q.c, q.out, Tail(toClient), server.alive)  BY <2>6, <2>14, <3>1 DEF Whole
    <3>3. Whole(client, toServer, toClient, server.alive)'
      <4>1. Whole(client', toServer', toClient', server'.alive)  BY <1>1, <2>10, <3>2
      <4>. QED BY <1>1, <4>1, WholeNext
    <3>4. Wired'  BY <1>1, <1>3, <2>10, <2>12, <3>1, <3>3 DEF Wired
    <3>5. Placed' /\ Greeting' /\ Replying' /\ Through' /\ TurnedAway'
      BY <1>8, <2>10, <2>13, <3>1 DEF Placed, Phases, Greeting, Replying, Through, TurnedAway
    <3>. QED BY <3>4, <3>5 DEF Inv
  <2>15. CASE /\ q.c = answered.c /\ (q.out = toServer \/ q.out = Append(toServer, m))
              /\ link = "up" => q.out = Append(toServer, m)
    <3>1. Whole(client, toServer, toClient, server.alive)'
      <4>1. Whole(client', toServer', toClient', server'.alive)
        BY <1>1, <2>6, <2>7, <2>10, <2>15
      <4>. QED BY <1>1, <4>1, WholeNext
    <3>2. Checks(Tail(toClient), server.signed)
      <4>1. \A i \in 1..Len(Tail(toClient)) : Tail(toClient)[i].kind = "S2"
        <5>1. \A i \in 1..1 : i = 1  OBVIOUS
        <5>. QED BY <1>2, <1>4, <5>1
      <4>. QED BY <4>1 DEF Checks
    <3>3. Wired'  BY <1>1, <1>3, <2>10, <2>12, <3>1, <3>2 DEF Wired
    <3>4. Placed' /\ Greeting' /\ Through' /\ TurnedAway'
      BY <1>8, <2>13 DEF Placed, Phases, Greeting, Through, TurnedAway
    <3>5. /\ client'.hand.sig = client.hand.sig /\ client'.hand.other = toClient[1].sig
          /\ client'.hand.keys = Answer(client'.hand.other).keys
          /\ Answer(client'.hand.other).ok
          /\ server.signed /\ options.swf => client'.swf = 1
      BY <1>5, <1>6, <1>8, <2>1, <2>2, <2>4, <2>10, <2>15
    <3>6. toServer' = <<>> \/ (Len(toServer') = 1 /\ toServer'[1].name = "C2")
      BY <1>2, <2>3, <2>10, <2>11, <2>15
    <3>7. link = "up" => toServer' # <<>>
      BY <2>10, <2>11, <2>15
    <3>8. Len(toClient') = 1 /\ toClient'[1] = toClient[2]  BY <1>1, <1>4
    <3>9. Replying'
      <4>1. Answer(client'.hand.other) = Answer(client.hand.other)'
        BY <1>1 DEF Answer
      <4>2. Judged(client.hand.sig, client.hand.other, toClient[1].sig, server.signed, server.genuine)'
        BY <1>1, <1>2, <3>5, <3>8 DEF Judged, Answer, Accepts
      <4>3. link' = "up" => Keyed(client.hand.sig, client.hand.other, toClient[1].sig,
                                  IF toServer = <<>> THEN server.keys ELSE server.hand.keys)'
        BY <1>1, <1>2, <3>5, <3>7, <3>8 DEF Keyed, Answer, Accepts
      <4>. QED BY <1>1, <1>2, <3>5, <3>6, <3>8, <4>1, <4>2, <4>3 DEF Replying
    <3>. QED BY <3>3, <3>4, <3>9 DEF Inv
  <2>. QED BY <2>9, <2>14, <2>15
<1>. QED BY <1>1, <1>7, <1>8

\* HandShake's end: the response is judged, the keys are set, connect is sent.
LEMMA HandShakenStep == ASSUME Inv, HandShaken PROVE Inv'
<1>. DEFINE keys == client.hand.keys
            own == client.hand.sig
            other == client.hand.other
            reply == Head(toClient).sig
            begun == [Quiet EXCEPT !.c.keys = keys, !.c.hand = NoHand]
            q == SendConnectPacket(begun)
            msgs == Tail(toClient)
            g == [At(msgs) EXCEPT !.keys = keys]
<1>1. /\ phase = "reply" /\ client.socket /\ toClient # <<>> /\ toClient' = msgs
      /\ UNCHANGED <<options, link, server>>
      /\ \/ Accepts(own, other, reply) /\ Becomes(q) /\ phase' = "stream" /\ UNCHANGED status
         \/ Becomes(CloseInternal(begun)) /\ phase' = "over" /\ status' = "connect"
         \/ ~Accepts(own, other, reply) /\ NotGenuine
  BY DEF HandShaken, Accepts
<1>2. /\ Answer(other).ok /\ keys = Answer(other).keys
      /\ toServer = <<>> \/ (Len(toServer) = 1 /\ toServer[1].name = "C2")
      /\ Len(toClient) = 1 /\ toClient[1].kind = "S2"
      /\ Judged(own, other, toClient[1].sig, server.signed, server.genuine)
      /\ link = "up" => Keyed(own, other, toClient[1].sig,
                              IF toServer = <<>> THEN server.keys ELSE server.hand.keys)
      /\ server.signed /\ options.swf => client.swf = 1
  BY <1>1 DEF Inv, Replying
<1>3. /\ Whole(client, toServer, toClient, server.alive) /\ IsSeq(toClient) /\ Serving(server)
      /\ options \in Options /\ DOMAIN client = Fields /\ IsSeq(toServer) /\ OpenersFirst(toServer)
  BY DEF Inv, Wired, Whole, Typed
<1>4. reply = toClient[1].sig /\ Len(msgs) = 0 /\ IsSeq(msgs)
  <2>1. IsSeq(msgs) /\ Len(msgs) = Len(toClient) - 1 /\ Head(toClient) = toClient[1]
    BY <1>1, <1>3, TailIs
  <2>2. 1 - 1 = 0  OBVIOUS
  <2>. QED BY <1>2, <2>1, <2>2
<1>5. CASE ~Accepts(own, other, reply) /\ NotGenuine
  <2>1. ~server.genuine  BY <1>2, <1>4, <1>5 DEF Judged
  <2>2. Unopened(toServer)
    <3>1. CASE toServer = <<>>
      <4>1. Len(toServer) = 0 /\ 1..0 = {}  BY <3>1, EmptyIs
      <4>. QED BY <4>1 DEF Unopened
    <3>2. CASE Len(toServer) = 1 /\ toServer[1].name = "C2"
      <4>1. \A i \in 1..1 : i = 1  OBVIOUS
      <4>. QED BY <3>2, <4>1 DEF Unopened
    <3>. QED BY <1>2, <3>1, <3>2
  <2>. QED BY <1>1, <1>5, <2>1, <2>2, TurnsAway
<1>6. Good(begun, g)
  <2>. HIDE DEF keys, msgs
  <2>1. /\ DOMAIN begun = Handled /\ begun.out = toServer /\ begun.again \in BOOLEAN /\ ~begun.again
        /\ DOMAIN begun.c = Fields /\ begun.c.socket = client.socket
        /\ begun.c.stream = client.stream /\ begun.c.playing = client.playing
        /\ begun.c.calls = client.calls /\ begun.c.invokes = client.invokes
        /\ begun.c.keys = keys /\ begun.c.swf = client.swf
    BY <1>3 DEF Quiet, Handled, Fields
  <2>2. /\ g.msgs = msgs /\ g.alive = server.alive /\ g.base = toServer
        /\ g.keys = keys /\ g.swf = client.swf
    BY DEF At
  <2>. HIDE DEF begun, g
  <2>3. Whole(client, toServer, msgs, server.alive)  BY <1>1, <1>3, WholeHeard DEF msgs
  <2>4. Whole(begun.c, begun.out, g.msgs, g.alive)
    BY <2>1, <2>2, <2>3 DEF Whole, Typed, Shut
  <2>5. Extends(g.base, begun.out)  BY <1>3, <2>1, <2>2, ExtendsItself
  <2>. QED BY <1>3, <2>1, <2>2, <2>4, <2>5 DEF Good
<1>7. CASE Becomes(CloseInternal(begun)) /\ phase' = "over" /\ status' = "connect"
  <2>. HIDE DEF begun, msgs, g
  <2>1. /\ Good(CloseInternal(begun), g) /\ ~CloseInternal(begun).c.socket
    BY <1>6, GoodCloses
  <2>2. /\ g.msgs = At(msgs).msgs /\ g.alive = At(msgs).alive /\ g.base = At(msgs).base
        /\ g.swf = At(msgs).swf
    BY DEF At, g
  <2>3. Good(CloseInternal(begun), At(msgs))  BY <2>1, <2>2 DEF Good
  <2>4. IsSeq(toClient')  BY <1>1, <1>4
  <2>. QED BY <1>1, <1>7, <2>1, <2>3, <2>4, Left
<1>8. CASE Accepts(own, other, reply) /\ Becomes(q) /\ phase' = "stream" /\ UNCHANGED status
  <2>1. /\ server.genuine /\ ((keys = NoKeys) <=> ~(options.enc /\ server.signed))
        /\ link = "up" => Crosswise(keys, IF toServer = <<>> THEN server.keys ELSE server.hand.keys)
    BY <1>2, <1>4, <1>8 DEF Judged, Keyed
  <2>. HIDE DEF keys, msgs
  <2>2. /\ g.msgs = msgs /\ g.alive = server.alive /\ g.base = toServer
        /\ g.keys = keys /\ g.swf = client.swf
    BY DEF At
  <2>. HIDE DEF begun, g
  <2>3. Good(q, g)  BY <1>6, InvokesGood
  <2>. HIDE DEF q
  <2>4. /\ Whole(q.c, q.out, msgs, server.alive) /\ Extends(toServer, q.out) /\ IsSeq(q.out)
        /\ q.c.swf = client.swf /\ (q.c.socket => q.c.keys = keys)
    BY <2>2, <2>3 DEF Good, Whole
  <2>5. client' = q.c /\ toServer' = q.out  BY <1>8 DEF Becomes
  <2>6. /\ OpenersFirst(q.out)
        /\ q.out # <<>> /\ Opens(Head(q.out)) <=> toServer # <<>> /\ Opens(Head(toServer))
        /\ q.out # <<>> /\ Opens(Head(q.out)) => Head(q.out) = Head(toServer)
    BY <1>3, <2>4, FrontExtends
  <2>7. Whole(client, toServer, toClient, server.alive)'
    <3>1. Whole(client', toServer', toClient', server'.alive)  BY <1>1, <2>4, <2>5
    <3>. QED BY <1>1, <3>1, WholeNext
  <2>8. Checks(msgs, server.signed)
    <3>1. 1..0 = {}  OBVIOUS
    <3>. QED BY <1>4, <3>1 DEF Checks, msgs
  <2>9. Wired'  BY <1>1, <1>3, <2>5, <2>6, <2>7, <2>8 DEF Wired
  <2>10. Placed' /\ Greeting' /\ Replying' /\ TurnedAway'
    <3>1. status' # "handshake"  BY <1>1, <1>8 DEF Inv, TurnedAway
    <3>. QED BY <1>8, <3>1 DEF Placed, Phases, Greeting, Replying, TurnedAway
  <2>11. toServer # <<>> => Head(toServer).name = "C2" /\ Opens(Head(toServer))
    <3>1. toServer # <<>> => Head(toServer) = toServer[1]  BY <1>3, TailIs
    <3>. QED BY <1>2, <3>1 DEF Opens
  <2>12. Through'
    <3>1. Shaking' <=> toServer # <<>>  BY <2>5, <2>6, <2>11 DEF Shaking, Opens
    <3>2. Shaking' => Head(toServer').name = "C2"
      BY <2>5, <2>6, <2>11, <3>1
    <3>3. q.c.socket => client'.keys = keys /\ client'.swf = client.swf  BY <2>4, <2>5
    <3>. QED BY <1>1, <1>2, <2>1, <2>5, <3>1, <3>2, <3>3 DEF Through
  <2>. QED BY <2>9, <2>10, <2>12 DEF Inv
<1>. QED BY <1>1, <1>5, <1>7, <1>8

\* The server's side of the handshake.
LEMMA SHandShakeStep == ASSUME Inv, SHandShake PROVE Inv'
<1>. DEFINE m == Head(toServer)
            shake(kind, sums) == Shake(kind, m.sig, sums)
<1>1. /\ link = "up" /\ Shaking /\ toServer # <<>> /\ m.name \in {"C1", "C2"}
      /\ UNCHANGED <<options, client, phase, status>>
  BY DEF SHandShake, Shaking
<1>2. /\ Whole(client, toServer, toClient, server.alive) /\ Serving(server) /\ IsSeq(toServer)
      /\ IsSeq(toClient) /\ OpenersFirst(toServer) /\ options \in Options
      /\ client.socket => Checks(toClient, server.signed)
  BY DEF Inv, Wired, Whole
<1>3. DOMAIN server = ServerFields /\ server.signed \in BOOLEAN  BY <1>2 DEF Serving
<1>4. /\ Len(Tail(toServer)) = Len(toServer) - 1 /\ Len(toServer) \in Nat
      /\ \A i \in 1..Len(Tail(toServer)) :
           Tail(toServer)[i] = toServer[i + 1] /\ i + 1 \in 2..Len(toServer)
      /\ m = toServer[1] /\ 1 \in 1..Len(toServer) /\ IsSeq(Tail(toServer))
  BY <1>1, <1>2, TailIs, SeqFacts
<1>5. \A i \in 1..Len(Tail(toServer)) : ~Opens(Tail(toServer)[i])
  BY <1>2, <1>4 DEF OpenersFirst
<1>6. /\ OpenersFirst(Tail(toServer)) /\ Unopened(Tail(toServer))
      /\ Tail(toServer) # <<>> => ~Opens(Head(Tail(toServer)))
  <2>1. OpenersFirst(Tail(toServer))
    <3>1. Len(Tail(toServer)) \in Nat  BY <1>4
    <3>2. \A i \in 2..Len(Tail(toServer)) : i \in 1..Len(Tail(toServer))  BY <3>1
    <3>. QED BY <1>5, <3>2 DEF OpenersFirst
  <2>2. Unopened(Tail(toServer))  BY <1>5 DEF Unopened, Opens
  <2>3. Tail(toServer) # <<>> => Head(Tail(toServer)) = Tail(toServer)[1] /\ 1 \in 1..Len(Tail(toServer))
    BY <1>4, TailIs, SeqFacts
  <2>. QED BY <1>5, <2>1, <2>2, <2>3
<1>7. Whole(client, Tail(toServer), toClient, server.alive)  BY <1>1, <1>2, WholeTaken
<1>8. CASE Hangs
  <2>1. /\ toServer' = <<>> /\ link' # "up" /\ toClient' = toClient
        /\ UNCHANGED <<options, client, phase, status, server>>
    BY <1>1, <1>8 DEF Hangs
  <2>. QED BY <2>1, Cut
<1>9. CASE /\ m.name = "C2" /\ server' = [server EXCEPT !.keys = server.hand.keys, !.hand = NoHand]
           /\ toServer' = Tail(toServer) /\ UNCHANGED <<toClient, link>>
  <2>1. /\ Serving(server') /\ server'.signed = server.signed /\ server'.genuine = server.genuine
        /\ server'.alive = server.alive /\ server'.playing = server.playing
        /\ server'.keys = server.hand.keys
    BY <1>2, <1>3, <1>9 DEF Serving, ServerFields
  <2>2. Whole(client, toServer, toClient, server.alive)'
    <3>1. Whole(client', toServer', toClient', server'.alive)  BY <1>1, <1>7, <1>9, <2>1
    <3>. QED BY <1>1, <3>1, WholeNext
  <2>3. Wired'  BY <1>1, <1>2, <1>6, <1>9, <2>1, <2>2 DEF Wired
  <2>4. Placed'  BY <1>1, <1>9 DEF Inv, Placed
  <2>5. ~Shaking'  BY <1>6, <1>9 DEF Shaking, Opens
  <2>6. TurnedAway'  BY <1>1, <1>6, <1>9, <2>1 DEF Inv, TurnedAway
  <2>7. ~(phase = "hello" /\ client.socket)
    BY <1>1, <1>4, <1>9 DEF Inv, Greeting
  <2>8. Greeting'  BY <1>1, <2>7 DEF Greeting
  <2>9. phase = "reply" /\ client.socket => toServer' = <<>>
    <3>1. ASSUME phase = "reply", client.socket PROVE toServer' = <<>>
      <4>1. Len(toServer) = 1  BY <1>1, <3>1 DEF Inv, Replying
      <4>2. Len(Tail(toServer)) = 0
        <5>1. 1 - 1 = 0  OBVIOUS
        <5>. QED BY <1>4, <4>1, <5>1
      <4>3. Tail(toServer) = <<>>  BY <1>4, <4>2, SeqFacts
      <4>. QED BY <1>9, <4>3
    <3>. QED BY <3>1
  <2>10. Replying'
    BY <1>1, <1>9, <2>1, <2>9 DEF Inv, Replying, Judged, Keyed, Answer, Accepts
  <2>11. Through'
    BY <1>1, <1>9, <2>1, <2>5 DEF Inv, Through
  <2>. QED BY <2>3, <2>4, <2>6, <2>8, <2>10, <2>11 DEF Inv
<1>10. ASSUME m.name = "C1", NEW kind \in Kinds, NEW sums \in Randoms,
              toClient' = (IF client.socket
                           THEN <<Raw("S1", shake(kind, sums).sig), Raw("S2", shake(kind, sums).answer.reply)>>
                           ELSE <<>>),
              server' = [server EXCEPT !.signed = shake(kind, sums).signed,
                           !.genuine = shake(kind, sums).genuine,
                           !.hand = [sig |-> m.sig, own |-> shake(kind, sums).sig,
                                     keys |-> shake(kind, sums).answer.keys]],
              toServer' = Tail(toServer), UNCHANGED link
       PROVE  Inv'
  <2>. DEFINE s == shake(kind, sums)
              s1 == Raw("S1", s.sig)
              s2 == Raw("S2", s.answer.reply)
              msgs == <<s1, s2>>
              hand == [sig |-> m.sig, own |-> s.sig, keys |-> s.answer.keys]
  <2>1. s.signed \in BOOLEAN
    <3>1. s.signed = (kind \notin {"plain", "old"} /\ ServerFP9(m.sig))  BY DEF Shake
    <3>. QED BY <3>1
  <2>2. hand.keys = s.answer.keys  OBVIOUS
  <2>3. s1.kind = "S1" /\ s1.sig = s.sig /\ s2.kind = "S2" /\ s2.sig = s.answer.reply  BY DEF Raw
  <2>4. /\ toClient' = IF client.socket THEN msgs ELSE <<>>
        /\ server' = [server EXCEPT !.signed = s.signed, !.genuine = s.genuine, !.hand = hand]
    BY <1>10
  <2>. HIDE DEF s1, s2, hand, s
  <2>5. IsSeq(msgs) /\ Len(msgs) = 2 /\ msgs[1] = s1 /\ msgs[2] = s2  BY PairIs
  <2>. HIDE DEF msgs
  <2>6. \A i \in 1..Len(msgs) : msgs[i].kind \in {"S1", "S2"}
    <3>1. \A i \in 1..2 : i = 1 \/ i = 2  OBVIOUS
    <3>. QED BY <2>3, <2>5, <3>1
  <2>7. /\ \A i \in 1..Len(msgs) : ~IsResult(msgs[i]) /\ ~Creates(msgs[i]) /\ ~Begins(msgs[i])
        /\ \A signed : Checks(msgs, signed)
    BY <2>6 DEF IsResult, Creates, Begins, Checks
  <2>8. /\ Serving(server') /\ server'.signed = s.signed /\ server'.genuine = s.genuine
        /\ server'.alive = server.alive /\ server'.playing = server.playing
        /\ server'.hand = hand
    BY <1>2, <1>3, <2>1, <2>4 DEF Serving, ServerFields
  <2>9. Whole(client, toServer, toClient, server.alive)'
    <3>1. Whole(client, Tail(toServer), msgs, server.alive)  BY <1>7, <2>5, <2>7, WholeMute
    <3>2. ~client.socket => Whole(client, Tail(toServer), <<>>, server.alive)
      BY <1>7, EmptyIs, WholeShut
    <3>3. Whole(client', toServer', toClient', server'.alive)
      BY <1>1, <1>10, <2>4, <2>8, <3>1, <3>2
    <3>. QED BY <1>1, <3>3, WholeNext
  <2>10. Wired'  BY <1>1, <1>2, <1>6, <1>10, <2>4, <2>7, <2>8, <2>9, SMTT(60) DEF Wired
  <2>11. client.socket => phase = "hello"
    <3>1. ~(phase = "reply" /\ client.socket)  BY <1>1, <1>4, <1>10 DEF Inv, Replying
    <3>2. ~(phase \in {"stream", "media"} /\ client.socket)  BY <1>1, <1>10 DEF Inv, Through
    <3>. QED BY <3>1, <3>2 DEF Inv, Placed, Phases
  <2>12. Placed'  BY <1>1, <2>11 DEF Inv, Placed
  <2>13. Replying' /\ Through'  BY <1>1, <2>11 DEF Replying, Through
  <2>14. TurnedAway'
    <3>1. status # "handshake"  BY <1>4, <1>10 DEF Inv, TurnedAway, Unopened
    <3>. QED BY <1>1, <3>1 DEF TurnedAway
  <2>15. Greeting'
    <3>1. SUFFICES ASSUME phase = "hello", client.socket PROVE Greeting'
      BY <1>1 DEF Greeting
    <3>2. /\ server.playing = 0 /\ Len(toServer) = 1 /\ m.sig = client.hand.sig
          /\ \E mine \in Randoms : client.hand.sig = Made(mine)
      BY <1>1, <1>4, <3>1 DEF Inv, Greeting
    <3>3. PICK mine \in Randoms : m.sig = Made(mine)  BY <3>2
    <3>4. mine \in Sums /\ sums \in Sums  BY RtmpClientAssumption
    <3>5. options.enc \in BOOLEAN /\ options.swf \in BOOLEAN  BY <1>2, OptionsAre
    <3>6. s = Shake(kind, Made(mine), sums)  BY <3>3 DEF s
    <3>7. /\ Judged(m.sig, s.sig, s.answer.reply, s.signed, s.genuine)
          /\ Keyed(m.sig, s.sig, s.answer.reply, s.answer.keys)
      BY <3>3, <3>4, <3>5, <3>6, ShakeSound
    <3>8. toServer' = <<>>
      <4>1. 1 - 1 = 0  OBVIOUS
      <4>2. Len(Tail(toServer)) = 0  BY <1>4, <3>2, <4>1
      <4>. QED BY <1>4, <1>10, <4>2, SeqFacts
    <3>9. /\ Len(toClient') = 2 /\ toClient'[1].kind = "S1" /\ toClient'[2].kind = "S2"
          /\ toClient'[1].sig = s.sig /\ toClient'[2].sig = s.answer.reply
      BY <2>3, <2>4, <2>5, <3>1
    <3>10. Judged(client.hand.sig, toClient[1].sig, toClient[2].sig, server.signed, server.genuine)'
      BY <1>1, <2>8, <3>2, <3>7, <3>9 DEF Judged, Answer, Accepts
    <3>11. Keyed(client.hand.sig, toClient[1].sig, toClient[2].sig, server.hand.keys)'
      BY <1>1, <2>2, <2>8, <3>2, <3>7, <3>9 DEF Keyed, Answer, Accepts
    <3>. QED BY <2>8, <3>2, <3>8, <3>9, <3>10, <3>11 DEF Greeting
  <2>. QED BY <2>10, <2>12, <2>13, <2>14, <2>15 DEF Inv
<1>. QED BY <1>1, <1>8, <1>9, <1>10 DEF SHandShake

-----------------------------------------------------------------------------
\* Before the first connection nothing is under way.
LEMMA Initially == Init => Inv
<1>. SUFFICES ASSUME Init PROVE Inv
  OBVIOUS
<1>1. /\ options \in Options /\ phase = "start" /\ status = "" /\ toServer = <<>> /\ toClient = <<>>
      /\ server = NewSession
  BY DEF Init
<1>2. /\ DOMAIN client = Fields /\ client.socket \in BOOLEAN /\ ~client.socket
      /\ client.playing \in BOOLEAN /\ ~client.playing /\ client.stream = -1
      /\ client.calls = <<>> /\ client.invokes = 0
  BY DEF Init, Fields
<1>3. IsSeq(<<>>) /\ Len(<<>>) = 0 /\ 1..0 = {}  BY EmptyIs
<1>4. Serving(server) /\ server.playing = 0 /\ server.alive = {}
  <2>1. {} \subseteq 1..(1 - 1) /\ 1 \in Nat \ {0}  OBVIOUS
  <2>. QED BY <1>1, <2>1 DEF NewSession, Serving, ServerFields
<1>5. Whole(client, toServer, toClient, server.alive)
  <2>1. Obeyed(<<>>, {})  BY <1>3 DEF Obeyed
  <2>2. -1 \in Int /\ 0 \in Nat /\ {} \subseteq Nat \ {0}  OBVIOUS
  <2>3. Typed(client) /\ Shut(client)  BY <1>2, <1>3, <2>2 DEF Typed, Shut
  <2>. QED BY <1>1, <1>2, <1>3, <1>4, <2>1, <2>2, <2>3 DEF Whole
<1>6. Wired
  <2>1. OpenersFirst(<<>>)  BY <1>3 DEF OpenersFirst
  <2>. QED BY <1>1, <1>2, <1>4, <1>5, <2>1 DEF Wired
<1>7. Placed /\ Greeting /\ Replying /\ Through /\ TurnedAway
  BY <1>1, <1>2, <1>4 DEF Placed, Phases, Greeting, Replying, Through, TurnedAway
<1>. QED BY <1>6, <1>7 DEF Inv

\* Nothing happens.
LEMMA Stutters == ASSUME Inv, UNCHANGED vars PROVE Inv'
<1>1. UNCHANGED <<options, client, phase, status, toServer, toClient, link, server>>
  BY DEF vars
<1>2. Whole(client, toServer, toClient, server.alive)'
  <2>1. Whole(client', toServer', toClient', server'.alive)  BY <1>1 DEF Inv, Wired
  <2>. QED BY <1>1, <2>1, WholeNext
<1>3. Wired'  BY <1>1, <1>2 DEF Inv, Wired
<1>4. Placed'  BY <1>1 DEF Inv, Placed
<1>5. Greeting'  BY <1>1 DEF Inv, Greeting, Judged, Keyed, Answer, Accepts, Made
<1>6. Replying'  BY <1>1 DEF Inv, Replying, Judged, Keyed, Answer, Accepts
<1>7. Through'  BY <1>1 DEF Inv, Through, Shaking
<1>8. TurnedAway'  BY <1>1 DEF Inv, TurnedAway
<1>. QED BY <1>3, <1>4, <1>5, <1>6, <1>7, <1>8 DEF Inv

\* What the client, its server and the two queues between them always are.
THEOREM SessionInvariant == Spec => []Inv
<1>1. Init => Inv  BY Initially
<1>2. Inv /\ [Next]_vars => Inv'
  <2>. SUFFICES ASSUME Inv, [Next]_vars PROVE Inv'
    OBVIOUS
  <2>1. CASE RTMP_Connect  BY <2>1, ConnectStep
  <2>2. CASE HandShake  BY <2>2, HandShakeStep
  <2>3. CASE HandShaken  BY <2>3, HandShakenStep
  <2>4. CASE RTMP_ConnectStream  BY <2>4, ConnectStreamStep
  <2>5. CASE RTMP_GetNextMediaPacket  BY <2>5, NextMediaPacketStep
  <2>6. CASE NothingComes  BY <2>6, NothingComesStep
  <2>7. CASE RTMP_Write  BY <2>7, WriteStep
  <2>8. CASE Lost  BY <2>8, LostStep
  <2>9. CASE SHandShake  BY <2>9, SHandShakeStep
  <2>10. CASE Serve  BY <2>10, ServeStep
  <2>11. CASE PlayOn  BY <2>11, PlayOnStep
  <2>12. CASE RTMP_ReconnectStream  BY <2>12, ReconnectStep
  <2>13. CASE Stop  BY <2>13, StopStep
  <2>14. CASE SayBufferEmpty \/ KeepAlive  BY <2>14, KeepsAlive
  <2>15. CASE Fault  BY <2>15, FaultStep
  <2>16. CASE UNCHANGED vars  BY <2>16, Stutters
  <2>. QED BY <2>1, <2>2, <2>3, <2>4, <2>5, <2>6, <2>7, <2>8, <2>9, <2>10, <2>11, <2>12, <2>13,
              <2>14, <2>15, <2>16 DEF Next, Client, Server, Caller, Over
<1>. QED BY <1>1, <1>2, PTL DEF Spec

\* Every result and every error that arrives finds the command it answers
\* (m_numInvokes, AV_queue and AV_erase): while it is under way over an open connection
\* its number stands for that command in m_methodCalls and for no other.
THEOREM ResultsFindCommands == Spec => []ResultsMatch
<1>1. Inv => ResultsMatch
  <2>. SUFFICES ASSUME Inv, NEW i \in DOMAIN toClient, IsResult(toClient[i]), client.socket
                PROVE  LET m == toClient[i] IN
                       /\ Answered(client, m.txn) \in
                            IF m.of \in {"connect", "createStream"} THEN {m.of} ELSE {"", m.of}
                       /\ Cardinality({k \in DOMAIN client.calls : client.calls[k].num = m.txn}) <= 1
    BY DEF ResultsMatch, IsResult
  <2>. DEFINE m == toClient[i]
              same == {k \in DOMAIN client.calls : client.calls[k].num = m.txn}
  <2>1. /\ IsSeq(client.calls) /\ IsSeq(toClient) /\ client.invokes \in Nat
        /\ Numbers(client.calls, client.invokes, toServer, toClient)
    BY DEF Inv, Wired, Whole, Typed
  <2>2. i \in 1..Len(toClient) /\ DOMAIN client.calls = 1..Len(client.calls)
    BY <2>1, SeqFacts
  <2>3. m.txn \in 1..client.invokes /\ Meant(client.calls, m.txn, m.of)
    BY <2>1, <2>2 DEF Numbers, Told
  <2>4. m.txn # 0  BY <2>1, <2>3
  <2>. HIDE DEF m
  <2>5. Answered(client, m.txn) \in
          IF m.of \in {"connect", "createStream"} THEN {m.of} ELSE {"", m.of}
    <3>1. \/ ByNumber(client, m.txn) = 0 /\ \A k \in 1..Len(client.calls) : client.calls[k].num # m.txn
          \/ /\ ByNumber(client, m.txn) \in 1..Len(client.calls)
             /\ client.calls[ByNumber(client, m.txn)].num = m.txn
      BY <2>1, FoundIs
    <3>2. CASE ByNumber(client, m.txn) = 0 /\ \A k \in 1..Len(client.calls) : client.calls[k].num # m.txn
      <4>1. m.of \notin ActedUpon  BY <2>3, <3>2 DEF Meant
      <4>. QED BY <3>2, <4>1 DEF Answered, ActedUpon
    <3>3. CASE /\ ByNumber(client, m.txn) \in 1..Len(client.calls)
               /\ client.calls[ByNumber(client, m.txn)].num = m.txn
      <4>1. client.calls[ByNumber(client, m.txn)].name = m.of  BY <2>3, <3>3 DEF Meant
      <4>2. ByNumber(client, m.txn) # 0  BY <2>1, <3>3, SeqFacts
      <4>. QED BY <4>1, <4>2 DEF Answered
    <3>. QED BY <3>1, <3>2, <3>3
  <2>6. Cardinality(same) <= 1
    <3>1. \A j, k \in same : j = k
      BY <2>1, <2>2, <2>4 DEF Numbers, Numbered
    <3>. HIDE DEF same
    <3>2. CASE same = {}
      <4>1. Cardinality({}) = 0 /\ 0 <= 1  BY FS_EmptySet
      <4>. QED BY <3>2, <4>1
    <3>3. CASE same # {}
      <4>1. PICK k : k \in same  BY <3>3
      <4>2. same = {k}  BY <3>1, <4>1
      <4>3. Cardinality({k}) = 1 /\ 1 <= 1  BY FS_Singleton
      <4>. QED BY <4>2, <4>3
    <3>. QED BY <3>2, <3>3
  <2>. QED BY <2>5, <2>6 DEF m
<1>. QED BY <1>1, SessionInvariant, PTL

\* The commands reach a server that can obey them, whatever the caller toggles, whenever
\* the answers come and wherever the connection is lost: a stream is played, published,
\* given a playlist or deleted only while it exists at the server, and a SWF verification
\* is answered only with a hash made in the handshake of this connection.
THEOREM CommandsInOrder == Spec => []InOrder
<1>1. Inv => InOrder
  BY DEF Inv, Wired, Serving, InOrder
<1>. QED BY <1>1, SessionInvariant, PTL

\* The two ends agree about encryption for all random bytes (HandShake, SHandShake): no
\* genuine server is given up, no other is accepted, and behind the handshake what one
\* end encrypts the other decrypts.
THEOREM EndsAgree == Spec => []Agreed
<1>1. Inv => Agreed
  <2>. SUFFICES ASSUME Inv PROVE Agreed
    OBVIOUS
  <2>1. status = "handshake" => ~server.genuine  BY DEF Inv, TurnedAway
  <2>2. options.enc \in BOOLEAN /\ server.signed \in BOOLEAN
    BY OptionsAre DEF Inv, Wired, Serving
  <2>3. ASSUME phase \in {"stream", "media"}, client.socket, link = "up", ~Shaking
        PROVE  /\ server.genuine /\ Crosswise(client.keys, server.keys)
               /\ (client.keys = NoKeys) = ~(options.enc /\ server.signed)
    BY <2>2, <2>3, Zenon DEF Inv, Through
  <2>. QED BY <2>1, <2>3 DEF Agreed
<1>. QED BY <1>1, SessionInvariant, PTL
=============================================================================
