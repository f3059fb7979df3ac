----------------------------- MODULE Handshake -----------------------------
(***************************************************************************)
(* The handshake of librtmp (handshake.h): what a peer puts into its       *)
(* signature, where the other peer looks for it, and what both compute     *)
(* from it.  The 1536 random bytes count by the sums of four of them that  *)
(* say where the digest and the Diffie-Hellman key lie; a digest, a key    *)
(* and a signed response are terms.  Module RtmpClientProofs shows that     *)
(* what is written at these places does not overlap, which is what lets    *)
(* them be parts of a record.                                              *)
(***************************************************************************)
EXTENDS Integers

RTMP_SIG_SIZE == 1536
SHA256_DIGEST_LENGTH == 32
DHKeyLength == 128

\* Where the bytes lie whose sum gives a place, per algorithm.
SumFields == {8, 768, 772, 1532}
SumFieldLength == 4
Sums == [SumFields -> 0..1020]

Place(sum, places, first) == (sum % places) + first
digoff(alg, sums) == IF alg = 0 THEN Place(sums[8], 728, 12) ELSE Place(sums[772], 728, 776)
dhoff(alg, sums) == IF alg = 0 THEN Place(sums[1532], 632, 772) ELSE Place(sums[768], 632, 8)

\* The limits the offset functions end the program at.
DigestLimit(alg) == IF alg = 0 THEN 771 ELSE 1535
DHLimit(alg) == IF alg = 0 THEN 1531 ELSE 767

NoDigest == [pos |-> 0, key |-> "", of |-> ""]
NoPublic == [pos |-> 0, public |-> ""]
NoKeys == [in |-> <<{}, "">>, out |-> <<{}, "">>]
Echo == [digest |-> NoDigest, key |-> "", xtea |-> FALSE]

CalculateDigest(pos, sig, key) == [pos |-> pos, key |-> key, of |-> sig.of]
VerifyDigest(pos, sig, key) == sig.digest = CalculateDigest(pos, sig, key)

\* The two HMACs of a response; type 8 encrypts it (rtmpe8_sig).
SignedResponse(digest, key, type) == [digest |-> digest, key |-> key, xtea |-> type = 8]

\* A signature: the type byte in front of it, its version, and, signed, the digest
\* and the public key at the places the random bytes give.
Signature(of, type, version, alg, encrypted, sums, key) ==
  LET bare == [of |-> of, type |-> type, version |-> version, sums |-> sums,
               digest |-> NoDigest, dh |-> NoPublic]
      open == [bare EXCEPT !.dh = [pos |-> dhoff(alg, sums), public |-> of]]
      keyed == IF encrypted THEN open ELSE bare IN
  IF version = 0 THEN bare
  ELSE [keyed EXCEPT !.digest = CalculateDigest(digoff(alg, sums), keyed, key)]

Public(sig, pos) == IF sig.dh.pos = pos THEN sig.dh.public ELSE "noise"

\* The key of what is sent is made of the other's public key, the key of what is
\* received of one's own.
InitRC4Encryption(secretKey, pubKeyIn, pubKeyOut) ==
  [out |-> <<secretKey, pubKeyIn>>, in |-> <<secretKey, pubKeyOut>>]

SharedKeys(own, other) == InitRC4Encryption({own, other}, other, own)

\* The algorithm a signature was made with: the expected one, otherwise the other
\* one.  The mutant form does not look a second time.
Algorithm_first(sig, alg, key) == alg

Algorithm(sig, alg, key) ==
  IF VerifyDigest(digoff(alg, sig.sums), sig, key) THEN alg ELSE 1 - alg

\* What a peer makes of the other's signature: whether it is genuine, the keys and
\* the response.
Verified(sig, own, alg, encrypted, theirs, ours, type) ==
  LET used == Algorithm(sig, alg, theirs) IN
  [ok |-> VerifyDigest(digoff(used, sig.sums), sig, theirs),
   keys |-> IF encrypted THEN SharedKeys(own, Public(sig, dhoff(used, sig.sums))) ELSE NoKeys,
   reply |-> SignedResponse(sig.digest, ours, type)]

Unsigned == [ok |-> TRUE, keys |-> NoKeys, reply |-> Echo]

-----------------------------------------------------------------------------
(* HandShake, the client.                                                  *)

ClientAlgorithm(encrypted) == IF encrypted THEN 1 ELSE 0

ClientSignature(encrypted, swf, sums) ==
  Signature("client", IF encrypted THEN 6 ELSE 3,
            CASE encrypted -> 128 [] ~encrypted /\ swf -> 10 [] OTHER -> 0,
            ClientAlgorithm(encrypted), encrypted, sums, "FP")

FP9HandShake(encrypted, swf, serversig) ==
  (encrypted \/ swf) /\ ~(serversig.type = 3 /\ serversig.version = 0)

\* With the server's signature read.
ClientAnswer(encrypted, swf, serversig) ==
  IF FP9HandShake(encrypted, swf, serversig)
  THEN Verified(serversig, "client", ClientAlgorithm(encrypted), encrypted, "FMS", "FP", serversig.type)
  ELSE Unsigned

\* With the server's response read: is it genuine?
ClientAccepts(clientsig, encrypted, swf, serversig, response) ==
  FP9HandShake(encrypted, swf, serversig) =>
    response = SignedResponse(clientsig.digest, "FMS", serversig.type)

-----------------------------------------------------------------------------
(* SHandShake, the server.                                                 *)

Encrypted(clientsig) == clientsig.type \in {6, 8}
Known(clientsig) == clientsig.type \in {3, 6, 8}
ServerFP9(clientsig) == Encrypted(clientsig) \/ clientsig.version # 0
ServerAlgorithm(clientsig) == IF Encrypted(clientsig) THEN 1 ELSE 0
ServerType(clientsig) ==
  IF Encrypted(clientsig) /\ clientsig.version = 128 THEN 8 ELSE clientsig.type

ServerSignature(clientsig, alg, sums) ==
  Signature("server", ServerType(clientsig), IF ServerFP9(clientsig) THEN 3 ELSE 0,
            alg, Encrypted(clientsig), sums, "FMS")

ServerAnswer(clientsig) ==
  IF ServerFP9(clientsig)
  THEN Verified(clientsig, "server", ServerAlgorithm(clientsig), Encrypted(clientsig), "FP", "FMS",
                ServerType(clientsig))
  ELSE Unsigned

ServerAccepts(clientsig, serversig, response) ==
  ServerFP9(clientsig) => response = SignedResponse(serversig.digest, "FP", ServerType(clientsig))

-----------------------------------------------------------------------------
\* Two ends of a connection encrypt alike: what one sends the other can read.
Crosswise(one, other) == one.out = other.in /\ one.in = other.out
=============================================================================
