------------------------------ MODULE Download ------------------------------
(***************************************************************************)
(* Stream2File: RTMPStreamToFlv, HTTPStreamToFlv and StreamWriteCallback   *)
(* of Stream2File.cpp, which record a live stream to a file until a size   *)
(* (model 0) or a time (model 1) is reached, the stream ends, the          *)
(* connection breaks or the disk is full.                                  *)
(*                                                                         *)
(* librtmp, libcurl, the server, the clock and the disk are the            *)
(* environment.  Sizes are counted in units in which a "K" of the code is  *)
(* Kilo; unsigned products wrap at Modulus, 2^32 in the code.              *)
(***************************************************************************)
EXTENDS Integers

CONSTANTS
    Modulus,    \* uint32_t arithmetic is modulo this
    Kilo,       \* the 1024 of param * 1024
    PauseAll,   \* CURLPAUSE_ALL, 5
    MaxChunk,   \* the most a read or a callback delivers
    StdioBuffer,\* what stdio can hold back from a full disk
    Params,     \* the values of param
    Rooms,      \* how much the disk may have left
    MaxSize,    \* the counters of bytes stop here, the server need not
    MaxTime     \* bound on the clock, behind every limit

ASSUME DownloadAssumption ==
    /\ Modulus \in Nat \ {0} /\ Kilo \in Nat \ {0} /\ PauseAll \in Nat
    /\ MaxChunk \in Nat \ {0} /\ StdioBuffer \in Nat
    /\ Params \subseteq Nat /\ Rooms \subseteq Nat
    /\ MaxSize \in Nat /\ MaxTime \in Nat
    /\ \A p \in Params : p < MaxTime

VARIABLES
    proto,      \* "rtmp" or "http": whether the url contains "rtmp"
    model,      \* "size", "time" or "none": 0, 1, anything else
    param,      \* the size in K or the time in seconds
    room,       \* what the disk can take
    phase,      \* "start", RTMP: "connect", "check", "read", HTTP: "perform",
                \* "finish"; "done"
    size,       \* the file's size as the program counts it
    received,   \* bytes taken off the network
    lastChunk,  \* the size of the chunk received last
    clock,      \* seconds since recording began
    res,        \* what curl_easy_perform returned
    httpCode,   \* CURLINFO_RESPONSE_CODE, 0 before the answer
    iRet        \* the result

request == <<proto, model, param, room>>
vars == <<request, phase, size, received, lastChunk, clock, res, httpCode, iRet>>

Least(a, b) == IF a < b THEN a ELSE b

Capped(bytes) == Least(bytes, MaxSize)

Limit == (param * Kilo) % Modulus

(***************************************************************************)
(* fwrite of n bytes: all of them while there is room; on a full disk what *)
(* fits, or all of them when stdio can hold the rest back.                 *)
(***************************************************************************)
Written(n) ==
    IF size + n <= room THEN {n}
    ELSE {Least(n, IF size < room THEN room - size ELSE 0)}
            \cup {w \in {n} : size + n <= room + StdioBuffer}

Init ==
    /\ proto \in {"rtmp", "http"}
    /\ model \in {"size", "time", "none"}
    /\ param \in Params
    /\ room \in Rooms
    /\ phase = "start"
    /\ size = 0 /\ received = 0 /\ lastChunk = 0
    /\ clock = 0
    /\ res = "CURLE_OK"
    /\ httpCode = 0
    /\ iRet = "STREAM_OK"

Return(result) == phase' = "done" /\ iRet' = result

\* Time passes, above all while a library waits for the server.
Tick ==
    /\ phase \in {"check", "read", "perform"}
    /\ clock < MaxTime
    /\ clock' = clock + 1
    /\ UNCHANGED <<request, phase, size, received, lastChunk, res, httpCode, iRet>>

-----------------------------------------------------------------------------
(***************************************************************************)
(* RTMPStreamToFlv.                                                        *)
(***************************************************************************)
RtmpSetupFails ==
    /\ proto = "rtmp" /\ phase = "start"
    /\ Return("STREAM_PARSE_FAILED")
    /\ UNCHANGED <<request, size, received, lastChunk, clock, res, httpCode>>

RtmpConnect ==
    /\ proto = "rtmp" /\ phase = "start"
    /\ phase' = "connect"
    /\ UNCHANGED <<request, size, received, lastChunk, clock, res, httpCode, iRet>>

\* RTMP_Connect and RTMP_ConnectStream return, if they do: the second one goes on
\* while the server sends anything but the start of the stream.
RtmpConnectFails ==
    /\ phase = "connect"
    /\ Return("STREAM_CONNECT_ERROR")
    /\ UNCHANGED <<request, size, received, lastChunk, clock, res, httpCode>>

RtmpPlaying ==
    /\ phase = "connect"
    /\ phase' = "check"
    /\ UNCHANGED <<request, size, received, lastChunk, clock, res, httpCode, iRet>>

ReachedByTime == model = "time" /\ clock > param
ReachedBySize == model = "size" /\ size > Limit
Reached ==
    \/ model = "size" /\ size > Limit
    \/ model = "time" /\ clock > param

\* The switch at the top of the loop.
RtmpCheck ==
    /\ phase = "check"
    /\ IF Reached THEN Return(iRet) ELSE phase' = "read" /\ UNCHANGED iRet
    /\ UNCHANGED <<request, size, received, lastChunk, clock, res, httpCode>>

RtmpReceiveUnchecked(n) ==
    /\ phase = "read"
    /\ received' = Capped(received + n)
    /\ lastChunk' = n
    /\ \E w \in Written(n) : size' = Capped(size + w)
    /\ phase' \in {"check", "done"}
    /\ UNCHANGED <<request, clock, res, httpCode, iRet>>

\* RTMP_Read delivered n bytes; afterwards the connection is still good or not.
RtmpReceive(n) ==
    /\ phase = "read"
    /\ received' = Capped(received + n)
    /\ lastChunk' = n
    /\ \E w \in Written(n) :
          /\ size' = Capped(size + w)
          /\ IF w # n
             THEN Return("FILE_WRITE_ERROR")
             ELSE phase' \in {"check", "done"} /\ UNCHANGED iRet
    /\ UNCHANGED <<request, clock, res, httpCode>>

\* Nothing: the stream has ended, the connection was lost or timed out.
RtmpReadNothing ==
    /\ phase = "read"
    /\ Return(iRet)
    /\ UNCHANGED <<request, size, received, lastChunk, clock, res, httpCode>>

-----------------------------------------------------------------------------
(***************************************************************************)
(* HTTPStreamToFlv.                                                        *)
(***************************************************************************)
HttpNoHandle ==
    /\ proto = "http" /\ phase = "start"
    /\ Return("STREAM_OK")
    /\ UNCHANGED <<request, size, received, lastChunk, clock, res, httpCode>>

HttpPerform ==
    /\ proto = "http" /\ phase = "start"
    /\ phase' = "perform"
    /\ UNCHANGED <<request, size, received, lastChunk, clock, res, httpCode, iRet>>

\* Every status that is neither 403 nor 404 is treated like 200.
HttpAnswer ==
    /\ phase = "perform" /\ httpCode = 0
    /\ httpCode' \in {200, 403, 404}
    /\ UNCHANGED <<request, phase, size, received, lastChunk, clock, res, iRet>>

PerformReturns(result) == phase' = "finish" /\ res' = result

\* StreamWriteCallback and what libcurl makes of the value it returns.
CallbackPast(newSize) ==
    \/ model = "size" /\ newSize > Limit
    \/ model = "time" /\ clock > param
CallbackReached(newSize) ==
    \/ model = "size" /\ newSize >= Limit
    \/ model = "time" /\ clock > param

HttpReceive(n) ==
    /\ phase = "perform" /\ httpCode # 0
    /\ received' = Capped(received + n)
    /\ lastChunk' = n
    /\ \E w \in Written(n) :
          LET taken == IF CallbackReached(size + w) THEN PauseAll ELSE w
          IN /\ size' = Capped(size + w)
             /\ IF taken = n
                THEN UNCHANGED <<phase, res>>
                ELSE PerformReturns("CURLE_WRITE_ERROR")
    /\ UNCHANGED <<request, clock, httpCode, iRet>>

HttpEnds ==
    /\ phase = "perform"
    /\ \/ httpCode # 0 /\ PerformReturns("CURLE_OK")
       \/ PerformReturns("other")
    /\ UNCHANGED <<request, size, received, lastChunk, clock, httpCode, iRet>>

HttpFinish ==
    /\ phase = "finish"
    /\ Return(CASE httpCode = 403 -> "HTTP_403_FORBIDDEN"
                [] httpCode = 404 -> "HTTP_404_NOTFOUND"
                [] httpCode \notin {403, 404} /\ size = 0 -> "STREAM_DOWNLOAD_FAILED"
                [] httpCode \notin {403, 404} /\ size > 0 /\ res = "other" -> "STREAM_CONNECT_ERROR"
                [] OTHER -> "STREAM_OK")
    /\ UNCHANGED <<request, size, received, lastChunk, clock, res, httpCode>>

-----------------------------------------------------------------------------
RtmpNext ==
    \/ RtmpSetupFails \/ RtmpConnect \/ RtmpConnectFails \/ RtmpPlaying
    \/ RtmpCheck \/ RtmpReadNothing
    \/ \E n \in 1..MaxChunk : RtmpReceive(n)

HttpNext ==
    \/ HttpNoHandle \/ HttpPerform \/ HttpAnswer \/ HttpEnds \/ HttpFinish
    \/ \E n \in 1..MaxChunk : HttpReceive(n)

Next == RtmpNext \/ HttpNext \/ Tick

(***************************************************************************)
(* The process takes its own steps, and the clock goes on.  Nothing is     *)
(* assumed of the calls that wait for the server: RTMP_ConnectStream and   *)
(* RTMP_Read loop as long as messages without media come in (rtmp.c:1111,  *)
(* 1183), since librtmp's timeout is one of each recv; curl_easy_perform   *)
(* has no timeout but the one for connecting (Stream2File.cpp:176).        *)
(***************************************************************************)
Spec == Init /\ [][Next]_vars
FairSpec ==
    /\ Spec
    /\ WF_vars(RtmpSetupFails \/ RtmpConnect \/ RtmpCheck)
    /\ WF_vars(HttpNoHandle \/ HttpPerform \/ HttpFinish)
    /\ WF_vars(Tick)
-----------------------------------------------------------------------------
Results == {"STREAM_OK", "STREAM_PARSE_FAILED", "STREAM_CONNECT_ERROR", "FILE_WRITE_ERROR",
            "HTTP_403_FORBIDDEN", "HTTP_404_NOTFOUND", "STREAM_DOWNLOAD_FAILED"}

\* Every variable keeps its type.
TypeOK ==
    /\ proto \in {"rtmp", "http"} /\ model \in {"size", "time", "none"}
    /\ param \in Params /\ room \in Rooms
    /\ phase \in {"start", "connect", "check", "read", "perform", "finish", "done"}
    /\ size \in 0..MaxSize /\ received \in 0..MaxSize
    /\ lastChunk \in 0..MaxChunk
    /\ clock \in 0..MaxTime
    /\ res \in {"CURLE_OK", "CURLE_WRITE_ERROR", "other"}
    /\ httpCode \in {0, 200, 403, 404}
    /\ iRet \in Results

\* The RTMP recorder passes its size limit by less than one read: the loop
\* tests the limit before every read, whatever the server keeps sending.
RtmpBounded ==
    proto = "rtmp" /\ model = "size" => size <= Limit + MaxChunk

\* The HTTP recorder goes on past its size limit only while the chunks happen
\* to be as long as CURLPAUSE_ALL is big: the callback means to pause libcurl,
\* but libcurl takes what it returns for a count of bytes.
HttpOverrun ==
    proto = "http" /\ model = "size" /\ phase = "perform" /\ lastChunk > 0 /\ size >= Limit
        => lastChunk = PauseAll

\* An RTMP recording that counts as good has lost nothing to a full disk but
\* what stdio was still holding back.
RtmpLossReported ==
    proto = "rtmp" /\ phase = "done" /\ iRet = "STREAM_OK" =>
        size = received /\ size <= room + StdioBuffer

\* An RTMP recording with a limit comes to an end, also when the server never
\* stops sending media, unless one call of librtmp does not return: the limit is
\* tested between two reads, not within one (Stream2File.cpp:81-105).
RtmpEnds ==
    proto = "rtmp" /\ model # "none" =>
        \/ <>(phase = "done")
        \/ <>[](phase = "connect")
        \/ <>[](phase = "read")
=============================================================================
