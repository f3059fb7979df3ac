--------------------------- MODULE DownloadProofs ---------------------------
(***************************************************************************)
(* Proofs about Download, for every size limit, chunk size, width of the   *)
(* arithmetic and disk.  RtmpBounded is not inductive by itself: what      *)
(* makes it hold is that a read is only reached from under the limit.      *)
(***************************************************************************)
EXTENDS Download, TLAPS

USE DownloadAssumption

\* Which phases belong to which protocol, and what is still untouched.
Phases ==
    /\ phase \in {"connect", "check", "read"} => proto = "rtmp"
    /\ phase \in {"perform", "finish"} => proto = "http"
    /\ phase = "start" => size = 0 /\ received = 0 /\ lastChunk = 0

\* The loop reads only from under the limit.
UnderLimit ==
    /\ proto = "rtmp" /\ model = "size" /\ phase = "read" => size <= Limit
    /\ RtmpBounded

\* As long as an RTMP recording counts as good nothing has been lost.
NothingLostYet ==
    /\ phase \in {"start", "connect", "check", "read"} => iRet = "STREAM_OK"
    /\ proto = "rtmp" /\ iRet = "STREAM_OK" =>
          size = received /\ size <= room + StdioBuffer

DownloadInv == TypeOK /\ Phases /\ UnderLimit /\ NothingLostYet /\ HttpOverrun

\* The limit is a number, whatever the product wrapped to.
LEMMA LimitType == ASSUME TypeOK PROVE Limit \in Nat
BY DEF TypeOK, Limit

\* fwrite takes between none and all of what it is given.
LEMMA WrittenType ==
    ASSUME TypeOK, NEW n \in 1..MaxChunk, NEW w \in Written(n)
    PROVE  w \in 0..n
BY DEF TypeOK, Written, Least

\* All of it only if it fits on the disk and in stdio's buffer.
LEMMA WrittenInFull ==
    ASSUME TypeOK, NEW n \in 1..MaxChunk, n \in Written(n)
    PROVE  size + n <= room + StdioBuffer
BY DEF TypeOK, Written, Least

\* A counter that stops at MaxSize.
LEMMA CappedType ==
    ASSUME NEW a \in Nat PROVE Capped(a) \in 0..MaxSize /\ Capped(a) <= a
BY DEF Capped, Least

LEMMA InitHolds == Init => DownloadInv
<1>1. SUFFICES ASSUME Init PROVE DownloadInv
  OBVIOUS
<1>2. size = 0 /\ received = 0 /\ lastChunk = 0 /\ phase = "start" /\ iRet = "STREAM_OK"
  BY <1>1 DEF Init
<1>3. 0 \in 0..MaxSize /\ 0 \in 0..MaxChunk /\ 0 \in 0..MaxTime
  OBVIOUS
<1>4. TypeOK
  <2>1. /\ proto \in {"rtmp", "http"} /\ model \in {"size", "time", "none"}
        /\ param \in Params /\ room \in Rooms /\ clock = 0 /\ httpCode = 0 /\ res = "CURLE_OK"
    BY <1>1 DEF Init
  <2>2. iRet \in Results
    BY <1>2 DEF Results
  <2>3. size \in 0..MaxSize /\ received \in 0..MaxSize /\ lastChunk \in 0..MaxChunk
        /\ clock \in 0..MaxTime
    BY <1>2, <1>3, <2>1
  <2>4. /\ phase \in {"start", "connect", "check", "read", "perform", "finish", "done"}
        /\ res \in {"CURLE_OK", "CURLE_WRITE_ERROR", "other"}
        /\ httpCode \in {0, 200, 403, 404}
    BY <1>2, <2>1
  <2>5. QED
    BY <2>1, <2>2, <2>3, <2>4 DEF TypeOK
<1>5. Limit \in Nat /\ room \in Nat
  BY <1>4, LimitType DEF TypeOK
<1>6. Phases /\ HttpOverrun
  BY <1>2 DEF Phases, HttpOverrun
<1>7. UnderLimit
  BY <1>2, <1>5 DEF UnderLimit, RtmpBounded
<1>8. NothingLostYet
  BY <1>2, <1>5 DEF NothingLostYet
<1>9. QED
  BY <1>4, <1>6, <1>7, <1>8 DEF DownloadInv

LEMMA StepHolds == DownloadInv /\ [Next]_vars => DownloadInv'
<1> SUFFICES ASSUME DownloadInv, [Next]_vars PROVE DownloadInv'
  OBVIOUS
<1>0. TypeOK /\ Limit \in Nat
  BY LimitType DEF DownloadInv
<1>limit. param' = param => Limit' = Limit
  BY DEF Limit
<1> USE <1>0, <1>limit
<1>1. CASE Tick
  BY <1>1 DEF Tick, DownloadInv, request, TypeOK, Phases, UnderLimit, RtmpBounded,
              NothingLostYet, HttpOverrun
<1>2. CASE RtmpSetupFails
  BY <1>2 DEF RtmpSetupFails, Return, DownloadInv, request, TypeOK, Results, Phases,
              UnderLimit, RtmpBounded, NothingLostYet, HttpOverrun
<1>3. CASE RtmpConnect
  BY <1>3 DEF RtmpConnect, DownloadInv, request, TypeOK, Phases, UnderLimit, RtmpBounded,
              NothingLostYet, HttpOverrun
<1>connect. CASE RtmpConnectFails
  BY <1>connect DEF RtmpConnectFails, Return, DownloadInv, request, TypeOK, Results, Phases,
              UnderLimit, RtmpBounded, NothingLostYet, HttpOverrun
<1>playing. CASE RtmpPlaying
  BY <1>playing DEF RtmpPlaying, DownloadInv, request, TypeOK, Phases, UnderLimit,
              RtmpBounded, NothingLostYet, HttpOverrun
<1>4. CASE RtmpCheck
  BY <1>4 DEF RtmpCheck, Reached, Return, DownloadInv, request, TypeOK, Phases, UnderLimit,
              RtmpBounded, NothingLostYet, HttpOverrun
<1>5. CASE RtmpReadNothing
  BY <1>5 DEF RtmpReadNothing, Return, DownloadInv, request, TypeOK, Phases, UnderLimit,
              RtmpBounded, NothingLostYet, HttpOverrun
<1>6. ASSUME NEW n \in 1..MaxChunk, RtmpReceive(n) PROVE DownloadInv'
  <2>1. PICK w \in Written(n) :
            /\ size' = Capped(size + w)
            /\ IF w # n THEN Return("FILE_WRITE_ERROR")
                        ELSE phase' \in {"check", "done"} /\ UNCHANGED iRet
    BY <1>6 DEF RtmpReceive
  <2>2. w \in 0..n
    BY WrittenType
  <2>3. /\ phase = "read" /\ proto = "rtmp"
        /\ received' = Capped(received + n) /\ lastChunk' = n
        /\ UNCHANGED <<proto, model, param, room, clock, res, httpCode>>
        /\ phase' \in {"check", "done"} /\ iRet' \in {iRet, "FILE_WRITE_ERROR"}
        /\ phase' = "check" => iRet' = "STREAM_OK"
    BY <1>6, <2>1 DEF RtmpReceive, request, Return, DownloadInv, Phases, NothingLostYet
  <2>4. size' \in 0..MaxSize /\ size' <= size + w /\ received' \in 0..MaxSize
    BY <2>1, <2>2, <2>3, CappedType DEF TypeOK
  <2>5. TypeOK'
    BY <2>3, <2>4 DEF TypeOK, Results
  <2>6. iRet' = "STREAM_OK" => size' = received' /\ size' <= room + StdioBuffer
    <3>1. CASE w = n
      <4>1. size + n <= room + StdioBuffer
        BY <3>1, WrittenInFull
      <4>2. size = received
        BY <2>3 DEF DownloadInv, NothingLostYet
      <4>3. QED
        BY <3>1, <4>1, <4>2, <2>1, <2>2, <2>3, <2>4 DEF TypeOK
    <3>2. CASE w # n
      BY <3>2, <2>1 DEF Return
    <3>3. QED
      BY <3>1, <3>2
  <2>7. model = "size" => size' <= Limit + MaxChunk
    BY <2>2, <2>3, <2>4 DEF TypeOK, DownloadInv, UnderLimit
  <2>8. QED
    BY <2>3, <2>5, <2>6, <2>7 DEF DownloadInv, Phases, UnderLimit, RtmpBounded,
                                  NothingLostYet, HttpOverrun
<1>7. CASE HttpNoHandle
  BY <1>7 DEF HttpNoHandle, Return, DownloadInv, request, TypeOK, Results, Phases,
              UnderLimit, RtmpBounded, NothingLostYet, HttpOverrun
<1>8. CASE HttpPerform
  BY <1>8 DEF HttpPerform, DownloadInv, request, TypeOK, Phases, UnderLimit, RtmpBounded,
              NothingLostYet, HttpOverrun
<1>9. CASE HttpAnswer
  BY <1>9 DEF HttpAnswer, DownloadInv, request, TypeOK, Phases, UnderLimit, RtmpBounded,
              NothingLostYet, HttpOverrun
<1>10. ASSUME NEW n \in 1..MaxChunk, HttpReceive(n) PROVE DownloadInv'
  <2>1. PICK w \in Written(n) :
            LET taken == IF CallbackReached(size + w) THEN PauseAll ELSE w
            IN /\ size' = Capped(size + w)
               /\ IF taken = n THEN UNCHANGED <<phase, res>>
                               ELSE PerformReturns("CURLE_WRITE_ERROR")
    BY <1>10 DEF HttpReceive
  <2>2. w \in 0..n
    BY WrittenType
  <2>3. /\ phase = "perform" /\ proto = "http"
        /\ received' = Capped(received + n) /\ lastChunk' = n
        /\ UNCHANGED <<proto, model, param, room, clock, httpCode, iRet>>
        /\ phase' \in {"perform", "finish"} /\ res' \in {res, "CURLE_WRITE_ERROR"}
    BY <1>10, <2>1 DEF HttpReceive, request, PerformReturns, DownloadInv, Phases
  <2>4. size' \in 0..MaxSize /\ size' <= size + w /\ received' \in 0..MaxSize
    BY <2>1, <2>2, <2>3, CappedType DEF TypeOK
  <2>5. TypeOK'
    BY <2>3, <2>4 DEF TypeOK
  <2>6. ASSUME model = "size", phase' = "perform", size' >= Limit PROVE n = PauseAll
    <3>1. size + w >= Limit
      BY <2>2, <2>4, <2>6 DEF TypeOK
    <3>2. CallbackReached(size + w)
      BY <3>1, <2>6 DEF CallbackReached
    <3>3. QED
      BY <3>2, <2>1, <2>6 DEF PerformReturns
  <2>7. QED
    BY <2>3, <2>5, <2>6 DEF DownloadInv, Phases, UnderLimit, RtmpBounded, NothingLostYet,
                            HttpOverrun
<1>11. CASE HttpEnds
  BY <1>11 DEF HttpEnds, PerformReturns, DownloadInv, request, TypeOK, Phases, UnderLimit,
               RtmpBounded, NothingLostYet, HttpOverrun
<1>12. CASE HttpFinish
  <2>1. iRet' \in Results /\ phase' = "done"
    BY <1>12 DEF HttpFinish, Return, Results
  <2>2. phase = "finish" /\ UNCHANGED <<request, size, received, lastChunk, clock, res, httpCode>>
    BY <1>12 DEF HttpFinish
  <2>3. QED
    BY <2>1, <2>2 DEF DownloadInv, request, TypeOK, Phases, UnderLimit, RtmpBounded,
                      NothingLostYet, HttpOverrun
<1>13. CASE UNCHANGED vars
  BY <1>13 DEF vars, DownloadInv, request, TypeOK, Phases, UnderLimit, RtmpBounded,
               NothingLostYet, HttpOverrun
<1>14. QED
  BY <1>1, <1>2, <1>3, <1>connect, <1>playing, <1>4, <1>5, <1>6, <1>7, <1>8, <1>9, <1>10,
   <1>11, <1>12, <1>13
  DEF Next, RtmpNext, HttpNext

\* The invariant holds of every recording.
THEOREM Recording == Spec => []DownloadInv
BY InitHolds, StepHolds, PTL DEF Spec

\* Every reachable state of a recording is type-correct.
THEOREM DownloadTypeCorrect == Spec => []TypeOK
<1>1. DownloadInv => TypeOK
  BY DEF DownloadInv
<1>2. QED
  BY <1>1, Recording, PTL

\* An RTMP recording exceeds the limit the code computes by less than one
\* read, for every limit and every server.
THEOREM RtmpStopsInTime == Spec => []RtmpBounded
<1>1. DownloadInv => RtmpBounded
  BY DEF DownloadInv, UnderLimit
<1>2. QED
  BY <1>1, Recording, PTL

\* An HTTP recording goes on past its limit in chunks of CURLPAUSE_ALL bytes
\* only.
THEOREM HttpOverrunsByPause == Spec => []HttpOverrun
<1>1. DownloadInv => HttpOverrun
  BY DEF DownloadInv
<1>2. QED
  BY <1>1, Recording, PTL

\* An RTMP recording that counts as good lost at most what stdio held back.
THEOREM RtmpLossIsReported == Spec => []RtmpLossReported
<1>1. DownloadInv => RtmpLossReported
  BY DEF DownloadInv, NothingLostYet, RtmpLossReported
<1>2. QED
  BY <1>1, Recording, PTL
=============================================================================
