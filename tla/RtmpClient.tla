----------------------------- MODULE RtmpClient -----------------------------
(***************************************************************************)
(* A session of librtmp with a server: RTMP_Connect with its handshake,    *)
(* RTMP_ConnectStream, RTMP_GetNextMediaPacket, and the handlers of        *)
(* RTMP_ClientPacket that answer commands with commands (HandleInvoke,     *)
(* HandleCtrl).  The client is one thread; what it does depends on what    *)
(* the server sends and when, on answers that come late, on a connection   *)
(* that is lost, on timeouts and on the caller, who may toggle the stream, *)
(* begin it again or stop.                                                 *)
(*                                                                         *)
(* A handler works on q, the client's record and the messages to the       *)
(* server: it may send several of them, and a send that fails closes the   *)
(* connection in the middle of the handler, which goes on.  Chunks are     *)
(* module RtmpChunk, the FLV file is module RtmpRead.                      *)
(***************************************************************************)
EXTENDS Handshake, Sequences, FiniteSets, SequencesExt

CONSTANTS
  Options,       \* what callers ask for (Link.protocol, lFlags, tokens, user, SWF)
  Randoms,       \* bound: what random bytes the peers draw, as sums
  Room,          \* tokens for which the connect command fits its buffer (about 30 in
                 \* the 4096 bytes of SendConnectPacket)
  MaxMedia,      \* bound: media messages of a stream, at times 1..MaxMedia
  MaxQueue,      \* bound: messages under way to the client
  MaxTurns       \* bound: toggles and reconnections of the caller, faults of the connection

\* What a caller may ask for, and what the sum of four random bytes may be.
ASSUME RtmpClientAssumption ==
  /\ Options \subseteq [{"write", "live", "plst", "bufx", "subscribe", "usher", "token", "user",
                         "swf", "enc"} -> BOOLEAN]
  /\ Randoms \subseteq Sums /\ Room \in Nat

VARIABLES
  options,
  client,        \* RTMP
  phase,         \* where the caller is: start, hello and reply (HandShake), stream
                 \* (RTMP_ConnectStream), media (RTMP_GetNextMediaPacket, RTMP_Write), over
  status,        \* m_read.status at the end
  toServer, toClient,
  link,          \* up; gone: the server's end is closed; reset: sends fail too
  server,        \* the server's end of the session
  delivered,     \* history: of the media messages returned to the caller (or written by
                 \* it), the highest time, and whether one was missing below a later one
  early, stale,  \* history: ConnectStream returned on a late status of the stream
                 \* before; a pause went by a time of the stream before
  noted,         \* history: the stream m_mediaStamp is a time of
  turns          \* toggles, reconnections and faults so far
vars == <<options, client, phase, status, toServer, toClient, link, server, delivered,
          early, stale, noted, turns>>

Channels == {4, 5}
Channel(stamp) == 4 + (stamp % 2)        \* audio and video take turns

-----------------------------------------------------------------------------
(* Sending.                                                                *)

Request(name, txn, stream, v) == [name |-> name, txn |-> txn, stream |-> stream, v |-> v]

NoHand == [sig |-> 0]     \* no handshake: HandShake's local variables

\* What CloseInternal resets; the pause, its timestamp and m_mediaStamp stay.
Closed(c) ==
  [c EXCEPT !.socket = FALSE, !.stream = -1, !.checks = 0, !.calls = <<>>, !.invokes = 0,
            !.playing = FALSE, !.stamps = [h \in Channels |-> 0], !.keys = NoKeys, !.hand = NoHand]

\* RTMP_SendPacket and WriteN: a send that fails closes the connection.
Send(q, m) ==
  IF ~q.c.socket \/ link = "reset" THEN [q EXCEPT !.c = Closed(@)]
  ELSE IF link = "gone" THEN q
  ELSE [q EXCEPT !.out = Append(@, m)]

\* A command with a number of its own; queued, it waits for its result in
\* m_methodCalls.  The mutant form queues the number before.
Invoke_early(q, name, stream, v, queue) ==
  LET n == q.c.invokes + 1
      s == Send([q EXCEPT !.c.invokes = n], Request(name, n, stream, v)) IN
  IF queue /\ s.c.socket THEN [s EXCEPT !.c.calls = Append(@, [num |-> n - 1, name |-> name])] ELSE s

Invoke(q, name, stream, v, queue) ==
  LET n == q.c.invokes + 1
      s == Send([q EXCEPT !.c.invokes = n], Request(name, n, stream, v)) IN
  IF queue /\ s.c.socket THEN [s EXCEPT !.c.calls = Append(@, [num |-> n, name |-> name])] ELSE s

SendConnectPacket(q) == Invoke(q, "connect", 0, q.c.auth, TRUE)
SendCreateStream(q) == Invoke(q, "createStream", 0, 0, TRUE)
SendFCSubscribe(q) == Invoke(q, "FCSubscribe", 0, 0, TRUE)
SendUsherToken(q) == Invoke(q, "NetStream.Authenticate.UsherToken", 0, 0, FALSE)
SendReleaseStream(q) == Invoke(q, "releaseStream", 0, 0, FALSE)
SendFCPublish(q) == Invoke(q, "FCPublish", 0, 0, FALSE)
SendFCUnpublish(q) == Invoke(q, "FCUnpublish", 0, 0, FALSE)
SendPublish(q) == Invoke(q, "publish", q.c.stream, 0, TRUE)
SendDeleteStream(q, id) == Invoke(q, "deleteStream", 0, id, FALSE)
SendPause(q, do) == Invoke(q, IF do THEN "pause" ELSE "unpause", 0, q.c.pauseStamp, TRUE)
SendPlay(q) == Invoke(q, "play", q.c.stream, 0, TRUE)
SendCheckBW(q) == Invoke(q, "_checkbw", 0, 0, FALSE)

\* Messages without a number of their own; set_playlist is queued with number 0.
SendServerBW(q) == Send(q, Request("server bw", 0, 0, 0))
SendCtrl(q, type, object) == Send(q, Request("ctrl", type, object, 0))
SendSecureTokenResponse(q) == Send(q, Request("secureTokenResponse", 0, 0, 0))
SendPong(q, txn) == Send(q, Request("pong", txn, 0, 0))
SendCheckBWResult(q, txn) ==
  Send([q EXCEPT !.c.checks = @ + 1], Request("_result", txn, 0, q.c.checks))
SendPlaylist(q) ==
  LET s == Send(q, Request("set_playlist", 0, q.c.stream, 0)) IN
  IF s.c.socket THEN [s EXCEPT !.c.calls = Append(@, [num |-> 0, name |-> "set_playlist"])] ELSE s

CloseInternal(q) ==
  LET bare == [q EXCEPT !.c.stream = 0]
      unpublished == IF options.write THEN SendFCUnpublish(bare) ELSE bare
      deleted == IF q.c.stream > 0 THEN SendDeleteStream(unpublished, q.c.stream) ELSE q
      finished == Send(deleted, Request("FIN", 0, 0, 0)) IN
  IF q.c.socket THEN [finished EXCEPT !.c = Closed(@)] ELSE [q EXCEPT !.c = Closed(@)]

\* The mutant form: the id stays, and RTMP_Close deletes the stream again.
RTMP_DeleteStream_kept(q) ==
  IF q.c.stream < 0 THEN q
  ELSE SendDeleteStream([q EXCEPT !.c.playing = FALSE], q.c.stream)

RTMP_DeleteStream(q) ==
  IF q.c.stream < 0 THEN q
  ELSE [SendDeleteStream([q EXCEPT !.c.playing = FALSE], q.c.stream) EXCEPT !.c.stream = -1]

-----------------------------------------------------------------------------
(* Commands of the server: HandleInvoke.                                   *)

\* AV_erase of the first call that is asked for.
AV_erase(q, i) == IF i = 0 THEN q ELSE [q EXCEPT !.c.calls = RemoveAt(@, i)]
ByNumber(c, txn) == SelectInSeq(c.calls, LAMBDA m : m.num = txn)
ByName(c, name) == SelectInSeq(c.calls, LAMBDA m : m.name = name)
Answered(c, txn) == IF ByNumber(c, txn) = 0 THEN "" ELSE c.calls[ByNumber(c, txn)].name
EraseNumber(q, txn) == AV_erase(q, ByNumber(q.c, txn))
EraseName(q, name) == AV_erase(q, ByName(q.c, name))

ConnectResult(q, m) ==
  LET token == IF options.token /\ m.v = 1 THEN SendSecureTokenResponse(q) ELSE q
      ready == IF options.write THEN SendFCPublish(SendReleaseStream(token))
               ELSE SendCtrl(SendServerBW(token), 3, 0)
      created == SendCreateStream(ready)
      usher == IF options.usher THEN SendUsherToken(created) ELSE created IN
  IF options.write THEN created
  ELSE IF options.subscribe \/ options.live THEN SendFCSubscribe(usher) ELSE usher

CreateStreamResult(q, m) ==
  LET named == [q EXCEPT !.c.stream = m.v]
      listed == IF options.plst THEN SendPlaylist(named) ELSE named
      played == SendPlay(listed) IN
  IF options.write THEN SendPublish(named) ELSE SendCtrl(played, 3, played.c.stream)

Result(q, m) ==
  LET name == Answered(q.c, m.txn)   erased == EraseNumber(q, m.txn) IN
  CASE name = "connect" -> ConnectResult(erased, m)
    [] name = "createStream" -> CreateStreamResult(erased, m)
    [] name \in {"play", "publish"} -> [erased EXCEPT !.c.playing = TRUE]
    [] OTHER -> erased

\* PublisherAuth: how many tokens the application name carries afterwards; the
\* password is asked for once, a challenge is answered whenever it comes.
PublisherAuth(c, reason) ==
  CASE reason = "need auth" /\ c.auth = 0 /\ options.user -> c.auth + 1
    [] reason = "needauth" -> c.auth + 1
    [] OTHER -> c.auth

\* The mutant form: whatever PublisherAuth says, the publisher connects again.
Error_again(q, m) ==
  LET erased == EraseNumber(q, m.txn)   auth == PublisherAuth(q.c, m.code) IN
  IF ~options.write THEN q
  ELSE IF Answered(q.c, m.txn) = "connect"
  THEN [CloseInternal(erased) EXCEPT !.c.auth = auth, !.again = TRUE]
  ELSE erased

\* A publisher whose connect is refused connects again with one token more (the
\* new connection is the action's part), a player only notes the error.
Error(q, m) ==
  LET erased == EraseNumber(q, m.txn)   auth == PublisherAuth(q.c, m.code) IN
  IF ~options.write THEN q
  ELSE IF Answered(q.c, m.txn) = "connect" /\ auth # q.c.auth
  THEN [CloseInternal(erased) EXCEPT !.c.auth = auth, !.again = TRUE]
  ELSE erased

Failed == {"NetStream.Failed", "NetStream.Play.Failed", "NetStream.Play.StreamNotFound",
           "NetConnection.Connect.InvalidApp"}
Started == {"NetStream.Play.Start", "NetStream.Play.PublishNotify"}
Stopped == {"NetStream.Play.Complete", "NetStream.Play.Stop", "NetStream.Play.UnpublishNotify"}

\* The mutant form: once the server has said Stream EOF the pause is not ended.
PauseNotify_once(q) ==
  IF q.c.pausing = 1 THEN [SendPause(q, FALSE) EXCEPT !.c.pausing = 3] ELSE q

PauseNotify(q) ==
  IF q.c.pausing \in {1, 2} THEN [SendPause(q, FALSE) EXCEPT !.c.pausing = 3] ELSE q

OnStatus(q, m) ==
  CASE m.code \in Failed -> CloseInternal([q EXCEPT !.c.stream = -1])
    [] m.code \in Started -> EraseName([q EXCEPT !.c.playing = TRUE], "play")
    [] m.code = "NetStream.Publish.Start" -> EraseName([q EXCEPT !.c.playing = TRUE], "publish")
    [] m.code \in Stopped -> [CloseInternal(q) EXCEPT !.ret = 2]
    [] m.code = "NetStream.Pause.Notify" -> PauseNotify(q)
    [] OTHER -> q

CloseCommand(q) == CloseInternal(q)

HandleInvoke(q, m) ==
  CASE m.kind = "_result" -> Result(q, m)
    [] m.kind = "_error" -> Error(q, m)
    [] m.kind = "onStatus" -> OnStatus(q, m)
    [] m.kind = "onBWDone" -> IF q.c.checks = 0 THEN SendCheckBW(q) ELSE q
    [] m.kind = "_onbwcheck" -> SendCheckBWResult(q, m.txn)
    [] m.kind = "_onbwdone" -> EraseName(q, "_checkbw")
    [] m.kind = "ping" -> SendPong(q, m.txn)
    [] m.kind = "onFCUnsubscribe" -> [CloseInternal(q) EXCEPT !.ret = 2]
    [] m.kind = "close" -> CloseCommand(q)
    [] m.kind = "playlist_ready" -> EraseName(q, "set_playlist")
    [] OTHER -> q

-----------------------------------------------------------------------------
(* The other messages: RTMP_ReadPacket's timestamp, RTMP_ClientPacket.     *)

\* The timestamp of the channel the first media message came on.
MediaTime(c) == IF c.mediaChannel = 0 THEN 0 ELSE c.stamps[c.mediaChannel]

BufferEmpty(q) ==
  IF ~options.bufx THEN q
  ELSE IF q.c.pausing = 0
  THEN [SendPause([q EXCEPT !.c.pauseStamp = MediaTime(q.c)], TRUE) EXCEPT !.c.pausing = 1]
  ELSE IF q.c.pausing = 2 THEN [SendPause(q, FALSE) EXCEPT !.c.pausing = 3] ELSE q

HandleCtrl(q, m) ==
  CASE m.v = 1 -> [q EXCEPT !.c.pausing = IF @ = 1 THEN 2 ELSE @]       \* Stream EOF
    [] m.v = 6 -> SendCtrl(q, 7, 0)                                     \* Ping
    [] m.v = 26 -> IF options.swf THEN SendCtrl(q, 27, q.c.swf) ELSE q  \* SWFVerification
    [] m.v = 31 -> BufferEmpty(q)
    [] OTHER -> q

HandleMedia(q, m) ==
  [q EXCEPT !.ret = 1,
            !.c.mediaChannel = IF @ = 0 THEN Channel(m.v) ELSE @,
            !.c.mediaStamp = IF q.c.pausing = 0 THEN m.v ELSE @]

RTMP_ClientPacket(q, m) ==
  CASE m.kind = "media" -> HandleMedia(q, m)
    [] m.kind = "ctrl" -> HandleCtrl(q, m)
    [] OTHER -> HandleInvoke(q, m)

\* RTMP_ReadPacket notes the time of a media message.
ReadPacket(m) ==
  [c |-> IF m.kind = "media" THEN [client EXCEPT !.stamps[Channel(m.v)] = m.v] ELSE client,
   out |-> toServer, ret |-> 0, again |-> FALSE]

NewSession == [next |-> 1, alive |-> {}, playing |-> 0, pos |-> 0,
               paused |-> FALSE, ended |-> FALSE, refused |-> FALSE,
               hand |-> NoHand, keys |-> NoKeys, signed |-> FALSE, genuine |-> TRUE]

Quiet == [c |-> client, out |-> toServer, ret |-> 0, again |-> FALSE]

Sig(name, sig) == [name |-> name, sig |-> sig]

\* RTMP_Connect0 and the first message of HandShake, over a new connection whatever
\* has become of the one before.
Connected(c, sums) ==
  LET sig == ClientSignature(options.enc, options.swf, sums) IN
  [c |-> [c EXCEPT !.socket = TRUE, !.pausing = 0, !.keys = NoKeys, !.hand = [sig |-> sig]],
   out |-> <<Sig("C1", sig)>>]

Nothing == [to |-> 0, gap |-> FALSE]
Delivered(v) == [to |-> IF v > delivered.to THEN v ELSE delivered.to,
                 gap |-> delivered.gap \/ v > delivered.to + 1]

\* What a step of the client leaves behind.
Becomes(q) == client' = q.c /\ toServer' = q.out
-----------------------------------------------------------------------------
(* The client's steps.                                                     *)

RTMP_Connect ==
  /\ phase = "start"
  /\ \E sums \in Randoms : Becomes(Connected(client, sums))
  /\ phase' = "hello"
  /\ UNCHANGED <<options, status, toClient, link, server, delivered, early, stale, noted, turns>>

\* A handshake that is not accepted ends the connection.
NotGenuine == Becomes(CloseInternal(Quiet)) /\ phase' = "over" /\ status' = "handshake"

\* HandShake: the server's signature is read and answered.
HandShake ==
  /\ phase = "hello" /\ client.socket /\ toClient # <<>>
  /\ toClient' = Tail(toClient)
  /\ LET sig == Head(toClient).sig
         answer == ClientAnswer(options.enc, options.swf, sig)
         fp9 == FP9HandShake(options.enc, options.swf, sig)
         answered == [Quiet EXCEPT !.c.hand = [sig |-> client.hand.sig, other |-> sig, keys |-> answer.keys],
                                 !.c.swf = IF options.swf /\ fp9 THEN 1 ELSE @] IN
     IF answer.ok
     THEN Becomes(Send(answered, Sig("C2", answer.reply))) /\ phase' = "reply" /\ UNCHANGED status
     ELSE NotGenuine
  /\ UNCHANGED <<options, link, server, delivered, early, stale, noted, turns>>

\* The server's response is read: the keys are set, the connect command is sent.
\* Every token makes the application name longer; when the command does not fit its
\* buffer any more, RTMP_Connect1 closes the connection.
HandShaken ==
  /\ phase = "reply" /\ client.socket /\ toClient # <<>>
  /\ toClient' = Tail(toClient)
  /\ LET hand == client.hand IN
     IF ClientAccepts(hand.sig, options.enc, options.swf, hand.other, Head(toClient).sig)
     THEN LET shaken == [Quiet EXCEPT !.c.keys = hand.keys, !.c.hand = NoHand] IN
          IF client.auth <= Room
          THEN Becomes(SendConnectPacket(shaken)) /\ phase' = "stream" /\ UNCHANGED status
          ELSE Becomes(CloseInternal(shaken)) /\ phase' = "over" /\ status' = "connect"
     ELSE NotGenuine
  /\ UNCHANGED <<options, link, server, delivered, early, stale, noted, turns>>

\* One message in RTMP_ConnectStream.
RTMP_ConnectStream ==
  /\ phase = "stream" /\ client.socket /\ toClient # <<>>
  /\ LET m == Head(toClient)
         p == ReadPacket(m)
         q == IF m.kind = "media" THEN p ELSE RTMP_ClientPacket(p, m)
         again(sums) == [Connected(q.c, sums) EXCEPT !.c.mediaChannel = 0] IN
     /\ IF q.again THEN \E sums \in Randoms : Becomes(again(sums)) ELSE Becomes(q)
     /\ toClient' = IF q.again \/ ~q.c.socket THEN <<>> ELSE Tail(toClient)
     /\ link' = IF q.again THEN "up" ELSE link
     /\ server' = IF q.again THEN NewSession ELSE server
     /\ phase' = CASE q.again -> "hello" [] ~q.again /\ q.c.playing -> "media"
                  [] ~q.again /\ ~q.c.playing /\ q.c.socket -> "stream" [] OTHER -> "over"
     /\ status' = IF phase' = "over" THEN "connect" ELSE status
     /\ early' = (early \/ (q.c.playing /\ m.stream # q.c.stream))
     /\ stale' = (stale \/ (q.c.playing /\ q.c.pausing # 0 /\ noted \notin {0, q.c.stream}))
  /\ UNCHANGED <<options, delivered, noted, turns>>

\* The mutant form drops the message that ends the pause, too.
Skipped_first(c, m) == c.pausing = 3 /\ (m.v <= c.mediaStamp + 1)

\* Behind a pause, what was there before it is dropped; an invoke has time 0.
Skipped(c, m) == c.pausing = 3 /\ (IF m.kind = "media" THEN m.v ELSE 0) <= c.mediaStamp

\* One message in RTMP_GetNextMediaPacket.
RTMP_GetNextMediaPacket ==
  /\ phase = "media" /\ ~options.write /\ client.socket /\ toClient # <<>>
  /\ LET m == Head(toClient)
         q == RTMP_ClientPacket(ReadPacket(m), m)
         taken == q.ret > 0 /\ ~Skipped(q.c, m)
         c == IF taken THEN [q.c EXCEPT !.pausing = IF @ = 3 THEN 0 ELSE @, !.playing = TRUE] ELSE q.c IN
     /\ Becomes([q EXCEPT !.c = c])
     /\ toClient' = IF c.socket THEN Tail(toClient) ELSE <<>>
     /\ delivered' = IF taken /\ q.ret = 1 THEN Delivered(m.v) ELSE delivered
     /\ phase' = IF c.socket THEN "media" ELSE "over"
     /\ status' = IF c.socket THEN status ELSE IF taken /\ q.ret = 2 THEN "complete" ELSE "eof"
  /\ LET m == Head(toClient) IN
     /\ stale' = (stale \/ (m.kind = "media" /\ client.pausing = 3 /\ noted \notin {0, m.stream}))
     /\ noted' = IF m.kind = "media" /\ client.pausing = 0 THEN m.stream ELSE noted
  /\ UNCHANGED <<options, link, server, early, turns>>

\* The connection is lost (EOF) or nothing comes in time; Connect and ConnectStream give up,
\* GetNextMediaPacket keeps the time for a pause.
NothingComes ==
  /\ client.socket /\ toClient = <<>>
  /\ \/ /\ phase \in {"hello", "reply", "stream"}
        /\ Becomes(CloseInternal(Quiet)) /\ phase' = "over" /\ status' = "connect"
        /\ UNCHANGED turns
     \/ /\ phase = "media" /\ ~options.write /\ link # "up"
        /\ Becomes(CloseInternal(Quiet)) /\ phase' = "over" /\ status' = "eof"
        /\ UNCHANGED turns
     \/ /\ phase = "media" /\ ~options.write /\ link = "up"
        /\ LET stamped == [Quiet EXCEPT !.c.pauseStamp = IF client.pausing = 0 THEN MediaTime(client) ELSE @] IN
           \/ /\ Becomes(CloseInternal(stamped)) /\ phase' = "over" /\ status' = "timeout"
              /\ UNCHANGED turns
           \/ /\ turns < MaxTurns
              /\ turns' = turns + 1
              /\ LET paused == [SendPause(stamped, TRUE) EXCEPT !.c.pausing = 1]
                     on == IF client.pausing = 0 THEN paused ELSE stamped
                     q == [SendPause(on, FALSE) EXCEPT !.c.pausing = 3] IN
                 Becomes(q) /\ UNCHANGED <<phase, status>>
  /\ UNCHANGED <<options, toClient, link, server, delivered, early, stale, noted>>

\* RTMP_ReconnectStream, from the beginning.
RTMP_ReconnectStream ==
  /\ phase = "media" /\ ~options.write /\ client.socket /\ turns < MaxTurns
  /\ turns' = turns + 1
  /\ LET q == SendCreateStream(RTMP_DeleteStream(Quiet)) IN
     /\ Becomes([q EXCEPT !.c.mediaChannel = 0])
     /\ phase' = IF q.c.playing THEN "media" ELSE "stream"
     /\ early' = (early \/ q.c.playing)
  /\ delivered' = Nothing
  /\ UNCHANGED <<options, status, toClient, link, server, stale, noted>>

\* RTMP_Write: a publisher sends and does not read; RTMP_Close at the end.
RTMP_Write ==
  /\ phase = "media" /\ options.write /\ client.socket
  /\ LET n == delivered.to + 1 IN
     \/ /\ n <= MaxMedia
        /\ Becomes(Send(Quiet, Request("media", 0, client.stream, n)))
        /\ delivered' = Delivered(n)
        /\ UNCHANGED <<phase, status>>
     \/ /\ n > MaxMedia
        /\ Becomes(CloseInternal(Quiet))
        /\ phase' = "over" /\ status' = "complete" /\ UNCHANGED delivered
  /\ UNCHANGED <<options, toClient, link, server, early, stale, noted, turns>>

\* A failed send has closed the connection: the loop ends.
Lost ==
  /\ phase \in {"hello", "reply", "stream", "media"} /\ ~client.socket
  /\ phase' = "over" /\ status' = IF phase = "media" THEN "eof" ELSE "connect"
  /\ UNCHANGED <<options, client, toServer, toClient, link, server, delivered, early, stale, noted, turns>>

\* The caller has enough (its limit is reached): RTMP_Close.
Stop ==
  /\ phase = "media" /\ ~options.write /\ client.socket /\ delivered # Nothing
  /\ Becomes(CloseInternal(Quiet)) /\ phase' = "over" /\ status' = "enough"
  /\ UNCHANGED <<options, toClient, link, server, delivered, early, stale, noted, turns>>

-----------------------------------------------------------------------------
(* The server, as far as the client depends on it, and the connection.     *)

Reply(kind, txn, v, code, of) ==
  [kind |-> kind, txn |-> txn, v |-> v, code |-> code, of |-> of, stream |-> server.playing]
ResultOf(m, v) == Reply("_result", m.txn, v, "", m.name)
ErrorOf(m, code) == Reply("_error", m.txn, 0, code, m.name)
Status(code) == Reply("onStatus", 0, 0, code, "")
Control(type) == Reply("ctrl", 0, type, "", "")

\* How servers shake hands: as SHandShake of this library with encryption, as the
\* one without, with the digest at the other place, as a server that knows nothing
\* of signatures and says so whatever it is asked, or with a signature or a response
\* that is not made with the key of a genuine server.
Kinds == {"crypto", "plain", "other", "old", "false", "echo"}

Shake(kind, clientsig, sums) ==
  LET expected == ServerAlgorithm(clientsig)
      signed == ServerSignature(clientsig, IF kind = "other" THEN 1 - expected ELSE expected, sums)
      plain == Signature("server", 3, 0, 0, FALSE, sums, "")
      versed == kind \notin {"plain", "old"}
      answer == IF versed THEN ServerAnswer(clientsig) ELSE Unsigned IN
  [knows |-> kind = "old" \/ (Known(clientsig) /\ (versed \/ clientsig.type = 3)),
   sig |-> CASE kind = "false" -> [signed EXCEPT !.digest.key = ""] [] kind # "false" /\ versed -> signed
             [] OTHER -> plain,
   answer |-> IF kind = "echo" THEN [answer EXCEPT !.reply = Echo] ELSE answer,
   signed |-> versed /\ ServerFP9(clientsig),
   genuine |-> kind \notin {"false", "echo"} \/ ~ServerFP9(clientsig)]

\* What the server may answer to a command: a set of sequences of replies.  It may
\* answer every token of a publisher with another challenge.
ConnectReplies(m) ==
  IF ~options.write THEN {<<ResultOf(m, 0)>>, <<ResultOf(m, 1), Reply("onBWDone", 0, 0, "", "")>>,
                          <<ErrorOf(m, "rejected")>>}
                         \cup IF server.signed /\ ~options.enc
                              THEN {<<Control(26), ResultOf(m, 0)>>} ELSE {}
  ELSE CASE m.v = 0 -> {<<ResultOf(m, 0)>>, <<ErrorOf(m, "need auth")>>}
         [] m.v = 1 -> {<<ErrorOf(m, "need auth")>>, <<ErrorOf(m, "needauth")>>}
         [] OTHER -> {<<ResultOf(m, 0)>>, <<ErrorOf(m, "needauth")>>, <<ErrorOf(m, "authfailed")>>}

Replies(m) ==
  LET play == [Status("NetStream.Play.Start") EXCEPT !.stream = m.stream]
      notify == Status("NetStream.Pause.Notify") IN
  CASE m.name = "connect" -> ConnectReplies(m)
    [] m.name = "createStream" -> {<<ResultOf(m, server.next)>>}
    [] m.name = "play" -> {<<play>>, <<[ResultOf(m, 0) EXCEPT !.stream = m.stream], play>>,
                           <<Status("NetStream.Play.StreamNotFound")>>}
    [] m.name = "publish" -> {<<[Status("NetStream.Publish.Start") EXCEPT !.stream = m.stream]>>,
                              <<[ResultOf(m, 0) EXCEPT !.stream = m.stream]>>}
    [] m.name = "pause" /\ server.playing # 0 ->
         {<<notify>>, <<Control(1), notify>>, <<Control(1), Control(31)>>}
    [] m.name = "releaseStream" -> {<<ResultOf(m, 0)>>}
    [] m.name = "set_playlist" -> {<<Reply("playlist_ready", 0, 0, "", "")>>}
    [] m.name = "_checkbw" -> {<<Reply("_onbwcheck", 9, 0, "", "")>>}
    [] m.name = "_result" -> {<<Reply("_onbwdone", 0, 0, "", "")>>}
    [] m.name = "ctrl" /\ m.txn = 3 /\ m.stream # 0 -> {<<Control(0)>>}
    [] OTHER -> {<<>>}

\* What a command changes at the server; a command for a stream that is not alive
\* there is refused.
Refused(m) == [server EXCEPT !.refused = TRUE]
Served(m, replies) ==
  LET found == \A i \in DOMAIN replies : replies[i].code # "NetStream.Play.StreamNotFound" IN
  CASE m.name = "createStream" -> [server EXCEPT !.alive = @ \cup {server.next}, !.next = @ + 1]
    [] m.name \in {"play", "publish"} ->
         IF m.stream \notin server.alive THEN Refused(m)
         ELSE [server EXCEPT !.playing = IF found THEN m.stream ELSE 0, !.pos = 0,
                             !.paused = FALSE, !.ended = FALSE]
    [] m.name \in {"set_playlist", "media"} -> IF m.stream \notin server.alive THEN Refused(m) ELSE server
    [] m.name = "ctrl" /\ m.txn = 3 /\ m.stream \notin server.alive \cup {0} -> Refused(m)
    [] m.name = "ctrl" /\ m.txn = 27 /\ m.stream # 1 -> Refused(m)
    [] m.name = "deleteStream" ->
         IF m.v \notin server.alive THEN Refused(m)
         ELSE [server EXCEPT !.alive = @ \ {m.v}, !.playing = IF @ = m.v THEN 0 ELSE @]
    [] m.name = "pause" -> [server EXCEPT !.paused = @ \/ server.playing # 0]
    [] m.name = "unpause" -> [server EXCEPT !.paused = FALSE,
                                            !.pos = IF server.paused THEN m.v ELSE @]
    [] m.name = "FIN" -> [server EXCEPT !.playing = 0]
    [] OTHER -> server

Raw(kind, sig) == [kind |-> kind, sig |-> sig]
Shaking == toServer # <<>> /\ Head(toServer).name \in {"C1", "C2"}
Hangs == link' = "gone" /\ toServer' = <<>> /\ UNCHANGED <<toClient, server>>

\* The server's side of the handshake.
SHandShake ==
  /\ link = "up" /\ Shaking
  /\ LET m == Head(toServer) IN
     IF m.name = "C1"
     THEN \E kind \in Kinds, sums \in Randoms :
            LET shake == Shake(kind, m.sig, sums) IN
            IF shake.knows /\ shake.answer.ok
            THEN /\ toClient' = IF client.socket
                                THEN <<Raw("S1", shake.sig), Raw("S2", shake.answer.reply)>> ELSE <<>>
                 /\ server' = [server EXCEPT !.signed = shake.signed, !.genuine = shake.genuine,
                                 !.hand = [sig |-> m.sig, own |-> shake.sig, keys |-> shake.answer.keys]]
                 /\ toServer' = Tail(toServer) /\ UNCHANGED link
            ELSE Hangs
     ELSE IF server.signed => ServerAccepts(server.hand.sig, server.hand.own, m.sig)
     THEN /\ server' = [server EXCEPT !.keys = server.hand.keys, !.hand = NoHand]
          /\ toServer' = Tail(toServer) /\ UNCHANGED <<toClient, link>>
     ELSE Hangs
  /\ UNCHANGED <<options, client, phase, status, delivered, early, stale, noted, turns>>

Serve ==
  /\ link = "up" /\ toServer # <<>> /\ ~Shaking
  /\ \E replies \in Replies(Head(toServer)) :
       /\ toClient' = IF client.socket THEN toClient \o replies ELSE <<>>
       /\ server' = Served(Head(toServer), replies)
  /\ toServer' = Tail(toServer)
  /\ UNCHANGED <<options, client, phase, status, link, delivered, early, stale, noted, turns>>

Says(m) ==
  /\ link = "up" /\ client.socket /\ Len(toClient) < MaxQueue
  /\ toClient' = Append(toClient, m)
  /\ UNCHANGED <<options, client, phase, status, toServer, link, delivered, early, stale, noted>>

Playing == server.playing # 0 /\ ~server.paused /\ ~server.ended /\ ~options.write

\* The next media message of the stream, or its end.
PlayOn ==
  /\ Playing /\ UNCHANGED turns
  /\ IF server.pos < MaxMedia
     THEN /\ server' = [server EXCEPT !.pos = @ + 1]
          /\ Says(Reply("media", 0, server.pos + 1, "", ""))
     ELSE /\ server' = [server EXCEPT !.ended = TRUE]
          /\ \/ Says(Status("NetStream.Play.Stop"))
             \/ options.live /\ Says(Reply("onFCUnsubscribe", 0, 0, "", ""))

\* Stream BufferEmpty; the server goes on by itself in time.
SayBufferEmpty ==
  /\ Playing /\ options.bufx /\ turns < MaxTurns
  /\ turns' = turns + 1
  /\ Says(Control(31)) /\ UNCHANGED server

\* Messages that need no answer, or only a pong.
KeepAlive ==
  /\ toServer = <<>> /\ toClient = <<>> /\ phase \in {"stream", "media"}
  /\ Says(IF phase = "stream" THEN Reply("ping", 9, 0, "", "") ELSE Control(6))
  /\ UNCHANGED <<server, turns>>

\* Faults: the server asks to close, or the connection is lost, with what is under
\* way to the client or without it.
Fault ==
  /\ turns = 0 /\ link = "up" /\ client.socket
  /\ turns' = MaxTurns
  /\ \/ ~Shaking /\ phase \in {"stream", "media"} /\ Says(Reply("close", 0, 0, "", ""))
     \/ /\ link' = "gone" /\ toServer' = <<>>
        /\ UNCHANGED <<options, client, phase, status, toClient, delivered, early, stale, noted>>
     \/ /\ link' = "reset" /\ toServer' = <<>> /\ toClient' = <<>>
        /\ UNCHANGED <<options, client, phase, status, delivered, early, stale, noted>>
  /\ UNCHANGED server

-----------------------------------------------------------------------------
Init ==
  /\ options \in Options
  /\ client = [socket |-> FALSE, stream |-> -1, playing |-> FALSE, calls |-> <<>>, invokes |-> 0,
               checks |-> 0, pausing |-> 0, pauseStamp |-> 0, mediaStamp |-> 0, mediaChannel |-> 0,
               stamps |-> [h \in Channels |-> 0], auth |-> 0, hand |-> NoHand, keys |-> NoKeys,
               swf |-> 0]
  /\ phase = "start" /\ status = "" /\ toServer = <<>> /\ toClient = <<>> /\ link = "up"
  /\ server = NewSession /\ delivered = Nothing /\ early = FALSE /\ stale = FALSE /\ noted = 0
  /\ turns = 0

Client == RTMP_Connect \/ HandShake \/ HandShaken \/ RTMP_ConnectStream \/ RTMP_GetNextMediaPacket \/ NothingComes \/ RTMP_Write \/ Lost
Server == SHandShake \/ Serve \/ PlayOn
Caller == RTMP_ReconnectStream \/ Stop
Over == phase = "over" /\ UNCHANGED vars
Next == Client \/ Server \/ Caller \/ SayBufferEmpty \/ KeepAlive \/ Fault \/ Over

Spec == Init /\ [][Next]_vars

-----------------------------------------------------------------------------
(* Properties.                                                             *)

\* The commands reach a server that can obey them: a stream is played, published,
\* given a playlist or deleted only while it exists there (deleteStream once: by
\* RTMP_DeleteStream or by CloseInternal), and a SWF verification is answered with a
\* hash made in the handshake of this connection.
InOrder == ~server.refused

\* Results find their commands: while a result or an error is under way, its number
\* stands for the command it answers and for no other (m_numInvokes, AV_queue and
\* AV_erase), over handlers that send several commands and over closed connections.
ResultsMatch ==
  \A i \in DOMAIN toClient :
    LET m == toClient[i] IN
    m.kind \in {"_result", "_error"} /\ client.socket =>
      /\ Answered(client, m.txn) \in IF m.of \in {"connect", "createStream"} THEN {m.of} ELSE {"", m.of}
      /\ Cardinality({k \in DOMAIN client.calls : client.calls[k].num = m.txn}) <= 1

\* No hole in the stream: whatever pauses, resumes, toggles and late notices there
\* are, a media message is returned only when all before it were, and a session ends
\* as complete only when the stream is.  Two cases are excepted in which the code
\* does worse: ConnectStream believed a late status of the stream before (early), or
\* a pause went by a time of the stream before (stale).
NoGap ==
  ~early /\ ~stale =>
    /\ ~delivered.gap
    /\ status = "complete" /\ ~options.write => delivered.to = MaxMedia

\* A pause is always undone: with nothing under way on a live connection the server
\* does not stay paused (BufferEmpty, Stream EOF, Pause.Notify and RTMP_ToggleStream
\* each do a part of it).
PausesEnd ==
  toServer = <<>> /\ toClient = <<>> /\ phase = "media" /\ link = "up" => ~server.paused

\* The two ends agree about encryption: the client gives up the handshake of no genuine
\* server, wherever it puts its digest and whatever random bytes are drawn, and accepts
\* no other; once both are through, what one encrypts the other decrypts; and only a
\* server that knows nothing of it makes an encrypted session a plain one.
Agreed ==
  /\ status = "handshake" => ~server.genuine
  /\ phase \in {"stream", "media"} /\ client.socket /\ link = "up" /\ ~Shaking =>
       /\ server.genuine
       /\ Crosswise(client.keys, server.keys)
       /\ (client.keys = NoKeys) = ~(options.enc /\ server.signed)

\* A session goes on for ever only if the server keeps it going with messages that ask
\* for nothing: RTMP_Read does not return while such messages come in time, and the
\* recorder's limit is not looked at (Stream2File.cpp:105).  Everything else comes to
\* an end, a publisher's reconnections included: PublisherAuth answers every challenge
\* without counting, but a connection is tried again only with one token more, and the
\* tokens fill the buffer of the connect command.
Ends == []<><<KeepAlive>>_vars \/ <>[][FALSE]_vars
=============================================================================
