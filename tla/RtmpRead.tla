------------------------------ MODULE RtmpRead ------------------------------
(***************************************************************************)
(* How librtmp turns messages into an FLV file and back: Read_1_Packet,    *)
(* RTMP_Read and RTMP_Write.  The recorder (module Download) calls         *)
(* RTMP_Read with a buffer of one size until the stream ends; the first    *)
(* call holds the messages back until it knows which types there are, a    *)
(* message larger than the buffer is handed out over several calls, an     *)
(* aggregate message (type 22) carries FLV tags of its own whose           *)
(* timestamps and sizes are corrected, and a recording may be a resumed    *)
(* one, which drops what the server repeats.  Metadata is AMF data (module  *)
(* Amf), which must be understood before it counts as a message.           *)
(***************************************************************************)
EXTENDS Amf

CONSTANTS
  Streams,       \* the sequences of media messages the server may send
  BufferSizes, HeaderSizes,      \* sizes of the caller's buffer; of HEADERBUF
  Resumes,       \* resume requests
  MAX_IGNORED_FRAMES,
  Cuts           \* sizes of the pieces the file is published in again

Flv == INSTANCE FlvFormat

\* RTMP_PACKET_TYPE_AUDIO, VIDEO, INFO, FLASH_VIDEO
AUDIO == 8   VIDEO == 9   INFO == 18   FLASH_VIDEO == 22
COMPLETE == -3   ERROR == -2   EOF == -1   IGNORE == 0     \* RTMP_READ_*
None == <<>>

VARIABLES
  request,       \* buffer sizes, resume point, whether the stream is live
  stream, took,  \* the messages to come; history: the ones Read_1_Packet has seen
  m,             \* m_read
  headed,        \* history: how many messages the first call held back
  out, last,     \* history: the bytes returned by RTMP_Read so far, and last
  pkt,           \* m_write
  left,          \* what is left of the file to publish
  published,     \* history: the packets published
  warned         \* history: how a call of RTMP_Write has ended: "all" of its
                 \* piece, "part" of it, in a "header", in a "crash"
vars == <<request, stream, took, m, headed, out, last, pkt, left, published, warned>>

Resumed == request.resume # None

-----------------------------------------------------------------------------
(* Bytes.                                                                  *)

Int24(b, i) == b[i] * 65536 + b[i + 1] * 256 + b[i + 2]
\* Timestamps of 2^31 and more are the negative numbers of the same 32 bits.
Signed(byte) == IF byte > 127 THEN byte - 256 ELSE byte
Stamp(b, i) == Int24(b, i) + Signed(b[i + 3]) * 16777216
EncodeStamp(t) == Flv!U24(t % 16777216) \o <<(t \div 16777216) % 256>>

Payload(p) == IF p.type \in {FLASH_VIDEO, INFO} THEN p.body ELSE Flv!Bytes(p.n)
TagHeader(type, n, t) == <<type>> \o Flv!U24(n) \o EncodeStamp(t) \o Flv!U24(0)

\* Names, one byte for each of the words onMetaData, duration, video and audio.
av_onMetaData == <<109>>   av_duration == <<100>>   av_video == <<118>>   av_audio == <<97>>

\* Metadata whose first property is the string onMetaData.
NoInfo == [ret |-> FALSE, duration |-> <<>>, types |-> {}]
HandleMetadata(p) ==
  LET Of(decoded, props) ==
        IF decoded.n < 0 \/ props = <<>> \/ props[1].type # AMF_STRING \/ props[1].v # av_onMetaData
        THEN NoInfo
        ELSE [ret |-> TRUE, duration |-> RTMP_FindFirstMatchingProperty(props, av_duration),
              types |-> {t \in {AUDIO, VIDEO} :
                RTMP_FindPrefixProperty(props, IF t = AUDIO THEN av_audio ELSE av_video)}]
      With(decoded) == Of(decoded, decoded.props) IN
  With(AMF_Decode(p.body, p.n, FALSE))

DataType(types) == (IF AUDIO \in types THEN 4 ELSE 0) + (IF VIDEO \in types THEN 1 ELSE 0)

-----------------------------------------------------------------------------
(* Read_1_Packet.                                                          *)

TooSmall(p) == (p.type = VIDEO /\ p.n <= 5) \/ (p.type = AUDIO /\ p.n <= 1)

\* The search for the key frame of a resumed recording in an aggregate message:
\* whether it is found (RTMP_READ_GOTFLVK) and how many bytes go with it.
RECURSIVE KeyframeSearch(_, _)
KeyframeSearch(b, pos) ==
  LET rs == request.resume
      n == Int24(b, pos + 2)
      t == Stamp(b, pos + 5)
      next == pos + 15 + n IN
  IF pos + 11 >= Len(b) THEN [found |-> FALSE, skip |-> 0]
  ELSE IF b[pos + 1] # rs.type THEN KeyframeSearch(b, next)
  ELSE IF t < 0 \/ t > rs.stamp THEN [found |-> FALSE, skip |-> 0]
  ELSE IF t < rs.stamp THEN KeyframeSearch(b, next)
  ELSE IF n # rs.n THEN [found |-> FALSE, skip |-> 0]
  ELSE [found |-> TRUE, skip |-> IF next > Len(b) THEN 0 ELSE next]

Search(p) == IF p.type = FLASH_VIDEO /\ p.stamp = 0 THEN KeyframeSearch(p.body, 0)
             ELSE [found |-> FALSE, skip |-> 0]

\* A message of a resumed recording: refused, dropped or taken (0 bytes or more
\* of it left out).
MetaDiffers(p) ==
  p.stamp = 0 /\ p.type = INFO /\ request.resume.meta \notin {None, p.body}
IsKeyframe(p) == p.stamp = 0 /\ p.type = request.resume.type /\ p.n = request.resume.n

Drop(mm) == [m |-> mm, ret |-> IGNORE, skip |-> 0]
Fail(mm) == [m |-> mm, ret |-> ERROR, skip |-> 0]
Ignored(mm, counter) ==
  LET n == mm[counter] + 1 IN
  IF n > MAX_IGNORED_FRAMES THEN Fail([mm EXCEPT ![counter] = n]) ELSE Drop([mm EXCEPT ![counter] = n])

Both(mm, p) == IF p.stamp > 0 /\ (mm.gotKF \/ mm.gotFLVK)
               THEN [mm EXCEPT !.gotKF = TRUE, !.gotFLVK = TRUE] ELSE mm

PastZero(mm, p, skip) ==
  IF mm.noIgnore \/ p.type = FLASH_VIDEO THEN [m |-> mm, ret |-> 1, skip |-> skip]
  ELSE IF p.stamp = 0 THEN Drop(mm)
  ELSE [m |-> [mm EXCEPT !.noIgnore = TRUE], ret |-> 1, skip |-> skip]

Resume(mm, p) ==
  LET s == Search(p)
      searched == Both([mm EXCEPT !.gotFLVK = @ \/ s.found], p) IN
  IF MetaDiffers(p) THEN Fail(mm)
  ELSE IF IsKeyframe(p) THEN Drop([mm EXCEPT !.gotKF = TRUE])
  ELSE IF p.type = FLASH_VIDEO /\ p.stamp = 0 /\ ~searched.gotFLVK THEN Drop(mm)
  ELSE IF p.type # FLASH_VIDEO /\ ~searched.gotKF THEN Ignored(searched, "ignored")
  ELSE IF p.type = FLASH_VIDEO /\ ~searched.gotFLVK THEN Ignored(searched, "ignoredFlv")
  ELSE PastZero(searched, p, s.skip)

\* Memory that was never written.
Unset == -1

\* The tags of an aggregate message, from `pos' on: every timestamp moved by
\* delta, every PreviousTagSize set, the last one appended where it is missing.
\* Where a part of it is there, 4 bytes are added to the size all the same.
RECURSIVE Fixed(_, _, _)
Fixed(b, delta, pos) ==
  LET n == Int24(b, pos + 2)
      end == pos + 11 + n
      head == SubSeq(b, pos + 1, pos + 4) \o EncodeStamp(Stamp(b, pos + 5) + delta)
                \o SubSeq(b, pos + 9, pos + 11) IN
  IF pos + 11 >= Len(b) THEN SubSeq(b, pos + 1, Len(b))
  \* "stream corrupted, aborting!", but the error is overwritten with the size
  ELSE IF end > Len(b) THEN head \o SubSeq(b, pos + 12, Len(b))
  ELSE head \o SubSeq(b, pos + 12, end) \o Flv!U32(n + 11)
         \o (IF end + 4 > Len(b) THEN [i \in 1..Len(b) - end |-> Unset] ELSE Fixed(b, delta, end + 4))

ResumeStamp == IF Resumed THEN request.resume.stamp ELSE 0

\* How far the timestamps of an aggregate message are moved: its own timestamp
\* is that of its first tag.  The mutant form takes them as they are.
Moved_not(b, p) == ResumeStamp
Moved(b, p) == p.stamp - Stamp(b, 5) + ResumeStamp

Rest(p, skip) == SubSeq(p.body, skip + 1, Len(p.body))

\* The bytes a message becomes, and the timestamp of the last of them.
Data(p, skip) ==
  IF p.type = FLASH_VIDEO THEN Fixed(Rest(p, skip), Moved(Rest(p, skip), p), 0)
  ELSE TagHeader(p.type, p.n, ResumeStamp + p.stamp) \o Payload(p) \o Flv!U32(11 + p.n)

TimeStamp(p, skip) ==
  IF p.type # FLASH_VIDEO THEN ResumeStamp + p.stamp
  ELSE Last(p.tags).stamp + Moved(Rest(p, skip), p)

\* What RTMP_ClientPacket notes: the types a message shows, its own, those of the
\* tags it carries, and those its metadata `info' names properties of.
Seen(mm, p, info) ==
  LET types == IF p.type = INFO THEN info.types ELSE p.announces \cup ({p.type} \cap {AUDIO, VIDEO})
      seen == [mm EXCEPT !.types = @ \cup types] IN
  IF info.duration # <<>> THEN [seen EXCEPT !.duration = Head(info.duration)] ELSE seen

\* One message: what m_read becomes, the return value and the bytes.
\* RTMP_ClientPacket returns metadata only if it has been understood.
Read_1_Packet(mm, p) ==
  LET Result(v) ==
        IF v.ret <= 0 THEN [m |-> v.m, ret |-> v.ret, data |-> None]
        ELSE [m |-> [v.m EXCEPT !.stamp = IF request.live THEN p.stamp ELSE TimeStamp(p, v.skip)],
              ret |-> 1, data |-> Data(p, v.skip)]
      Packet(seen, returned) ==
        Result(IF ~returned \/ TooSmall(p) THEN Drop(seen) ELSE IF Resumed THEN Resume(seen, p)
               ELSE [m |-> seen, ret |-> 1, skip |-> 0])
      With(info) == Packet(Seen(mm, p, info), p.type = INFO => info.ret) IN
  With(IF p.type = INFO THEN HandleMetadata(p) ELSE NoInfo)

\* The end of the stream: the connection is closed or times out (EOF), or the
\* server says Play.Stop or Play.Complete.
Ended == IF request.live THEN EOF ELSE COMPLETE

-----------------------------------------------------------------------------
(* RTMP_Read.                                                              *)

\* The first call: the FLV header and the messages up to the first timestamp
\* that is not 0, or until both types have shown, or until the buffer is full.
\* q is what the call works on: m_read, the messages left, the bytes so far.
FlvHeader == <<70, 76, 86, 1, 0, 0, 0, 0, 9, 0, 0, 0, 0>>

RECURSIVE HoldBack(_)
HoldBack(q) ==
  LET Held(r, more) ==
        IF r.ret < 0 THEN [more EXCEPT !.m.status = r.ret]
        ELSE IF \/ r.ret > 0 /\ Len(r.data) + 4 > request.header - Len(q.data)    \* full
                \/ {AUDIO, VIDEO} \subseteq r.m.types
        THEN more ELSE HoldBack(more)
      Take(r) == Held(r, [q EXCEPT !.m = r.m, !.stream = Tail(@), !.data = @ \o r.data]) IN
  IF q.m.stamp # 0 THEN q
  ELSE IF q.stream = <<>> THEN [q EXCEPT !.m.status = Ended]
  ELSE Take(Read_1_Packet(q.m, Head(q.stream)))

WithHeader(q) == [q EXCEPT !.data = [@ EXCEPT ![5] = DataType(q.m.types)]]

\* Messages until one is not ignored, into a buffer of `size' bytes: what does not
\* fit (with 4 bytes to spare) goes through a buffer of its own, m_read.buf.
RECURSIVE Next_Packet(_, _)
Next_Packet(q, size) ==
  LET Taken(r, more) ==
        IF r.ret < 0 THEN [more EXCEPT !.m.status = r.ret]
        ELSE IF r.ret = IGNORE THEN Next_Packet(more, size)
        ELSE LET k == IF Len(r.data) < size THEN Len(r.data) ELSE size IN
             [more EXCEPT !.data = @ \o SubSeq(r.data, 1, k), !.m.buf = SubSeq(r.data, k + 1, Len(r.data))]
      Take(r) == Taken(r, [q EXCEPT !.m = r.m, !.stream = Tail(@)]) IN
  IF q.stream = <<>> THEN [q EXCEPT !.m.status = Ended]
  ELSE Take(Read_1_Packet(q.m, Head(q.stream)))

\* Leftover data first; then one message if there is room.
Fill(q, buf, size) ==
  LET k == IF Len(buf) < size THEN Len(buf) ELSE size
      used == [q EXCEPT !.data = SubSeq(buf, 1, k), !.m.buf = SubSeq(buf, k + 1, Len(buf))] IN
  IF k < size THEN Next_Packet(used, size - k) ELSE used

RTMP_Read ==
  /\ m.status = 0
  /\ LET q == [m |-> m, stream |-> stream, data |-> None]
         first == IF Resumed THEN q ELSE HoldBack([q EXCEPT !.data = FlvHeader]) IN
     \E f \in {first} : \E r \in
       {IF m.header THEN Fill(q, m.buf, request.size)
        ELSE IF f.m.status # 0 THEN [f EXCEPT !.data = None]     \* what was held back is freed
        ELSE Fill([f EXCEPT !.m.header = TRUE, !.data = None],
                  IF Resumed THEN None ELSE WithHeader(f).data, request.size)} :
       /\ m' = r.m /\ stream' = r.stream
       /\ took' = took \o SubSeq(stream, 1, Len(stream) - Len(r.stream))
       /\ headed' = IF m.header THEN headed ELSE Len(stream) - Len(f.stream)
       /\ last' = r.data /\ out' = out \o r.data
       /\ left' = out'
  /\ UNCHANGED <<request, pkt, published, warned>>

-----------------------------------------------------------------------------
(* RTMP_Write: the file published again, in pieces of any size.            *)

SetDataFrame == 16      \* bytes of the string @setDataFrame in front of metadata

Begin(b) ==
  LET type == b[1]   t == Stamp(b, 5) IN
  [type |-> type, stamp |-> t,
   size |-> Int24(b, 2) + IF type = INFO THEN SetDataFrame ELSE 0,
   read |-> IF type = INFO THEN SetDataFrame ELSE 0,
   large |-> (type \in {AUDIO, VIDEO} /\ t = 0) \/ type = INFO]

Published(p) == [type |-> p.type, stamp |-> p.stamp, size |-> p.size, large |-> p.large]

\* A packet is sent, its memory freed and its count of bytes set to 0; the mutant
\* form leaves the count.
Reset_not(p) == p
Reset(p) == None

\* The loop of RTMP_Write over the rest b of a piece of `size' bytes: the packet,
\* the packets sent, what is returned, and how it ended.  A header is read without
\* asking whether the piece still holds it, and -1 to -11 bytes are copied then.
RECURSIVE Write(_, _, _, _)
Write(p, b, sentOff, size) ==
  LET new == p = None \/ p.read = 0
      skip == IF IsPrefix(SubSeq(FlvHeader, 1, 3), b) THEN 24 ELSE 11
      body == IF new THEN SubSeq(b, skip + 1, Len(b)) ELSE b
      Result(q, ret, end) == [pkt |-> q, sent |-> sentOff, ret |-> ret, end |-> end]
      Filled(q) ==
        LET n == IF q.size - q.read < Len(body) THEN q.size - q.read ELSE Len(body)
            filled == [q EXCEPT !.read = @ + n]
            more == Append(sentOff, Published(filled)) IN
        IF filled.read < filled.size
        THEN Result(filled, size, IF filled.read = 0 THEN "header" ELSE "all")
        ELSE IF Len(body) < n + 4
        THEN [Result(Reset(filled), size + Len(body) - (n + 4), "part") EXCEPT !.sent = more]
        ELSE Write(Reset(filled), SubSeq(body, n + 5, Len(body)), more, size) IN
  IF b = <<>> THEN Result(p, size, "all")
  ELSE IF new /\ size < 11 THEN Result(p, 0, "part")
  ELSE IF new /\ Len(b) < skip THEN Result(p, 0, "crash")
  ELSE Filled(IF new THEN Begin(SubSeq(b, skip - 10, Len(b))) ELSE p)

\* Aggregates that are not cut short; ones not cut inside a PreviousTagSize either.
Uncut(msgs) == \A i \in DOMAIN msgs : msgs[i].type = FLASH_VIDEO => ~msgs[i].corrupt
Sound(msgs) == Uncut(msgs) /\ \A i \in DOMAIN msgs : msgs[i].type = FLASH_VIDEO => msgs[i].ragged = 0

\* The caller goes on behind the piece; a call that takes nothing may be repeated
\* with more.  What comes after a call that has not taken all of its piece, or has
\* lost a header, is not followed.
RTMP_Write ==
  /\ m.status # 0 /\ left # <<>> /\ warned = "all"
  /\ Sound(took)
  /\ \E n \in Cuts \cup {Len(left)} :
       /\ n <= Len(left)
       /\ \E r \in {Write(pkt, SubSeq(left, 1, n), published, n)} :
            /\ pkt' = r.pkt /\ published' = r.sent
            /\ left' = IF r.end = "all" THEN SubSeq(left, n + 1, Len(left)) ELSE left
            /\ warned' = IF r.end = "part" /\ r.ret = 0 /\ UNCHANGED <<pkt, published>>
                         THEN "all" ELSE r.end
  /\ UNCHANGED <<request, stream, took, m, headed, out, last>>

-----------------------------------------------------------------------------
Init ==
  /\ stream \in Streams
  /\ request \in [size : BufferSizes, header : HeaderSizes, resume : Resumes,
                  live : BOOLEAN]
  /\ took = <<>> /\ headed = 0 /\ out = <<>> /\ last = <<>>
  /\ m = [status |-> 0, header |-> FALSE, buf |-> None, stamp |-> 0, types |-> {},
          duration |-> None, gotKF |-> FALSE, gotFLVK |-> FALSE, noIgnore |-> FALSE, ignored |-> 0, ignoredFlv |-> 0]
  /\ pkt = None /\ left = <<>> /\ published = <<>> /\ warned = "all"

Next == RTMP_Read \/ RTMP_Write

Spec == Init /\ [][Next]_vars

-----------------------------------------------------------------------------
(* What a recording is, said without the code: the messages that count,    *)
(* one tag each, an aggregate one tag for each of its own.                 *)

Tag(t, shift) ==
  TagHeader(t.type, t.n, t.stamp + shift) \o t.body \o Flv!U32(11 + t.n)

\* The tags of a message as records, at the time they are played.
TagsOf(p) ==
  IF p.type # FLASH_VIDEO THEN <<[type |-> p.type, n |-> p.n, stamp |-> p.stamp, body |-> Payload(p)]>>
  ELSE [i \in DOMAIN p.tags |-> [p.tags[i] EXCEPT !.stamp = @ - p.tags[1].stamp + p.stamp]]

Plain(msgs) == \A i \in DOMAIN msgs : msgs[i].type # FLASH_VIDEO

\* The messages a resumed recording takes: behind the first copy of the key frame
\* and from the first timestamp on that is not 0, further copies left out.
Continued(msgs) ==
  LET Past(i) == \E k \in 1..i : IsKeyframe(msgs[k]) /\ \E j \in k..i : msgs[j].stamp > 0 /\ ~TooSmall(msgs[j])
      index == SelectSeq([i \in DOMAIN msgs |-> i], LAMBDA i : Past(i) /\ ~IsKeyframe(msgs[i]))
  IN [i \in DOMAIN index |-> msgs[index[i]]]

\* p.object: what the sender of metadata means, <<>> if it is no AMF data.
Meant(p) == p.object # <<>> /\ p.object[1].v = av_onMetaData
Counting(msgs) == SelectSeq(IF Resumed THEN Continued(msgs) ELSE msgs,
                            LAMBDA p : ~TooSmall(p) /\ (p.type = INFO => Meant(p)))

FileTags == FlattenSeq([i \in DOMAIN Counting(took) |-> TagsOf(Counting(took)[i])])

\* The FLV header names the types the messages held back have shown.
Shown == UNION {took[i].announces \cup ({took[i].type} \cap {AUDIO, VIDEO}) : i \in 1..headed}

\* Behind an aggregate cut inside its last PreviousTagSize come as many bytes as
\* there were of it, which belong to no tag and were never written.
Debris(p) == IF p.type = FLASH_VIDEO THEN [i \in 1..p.ragged |-> Unset] ELSE <<>>
TagBytes(tags) == FlattenSeq([i \in DOMAIN tags |-> Tag(tags[i], ResumeStamp)])

Start == IF Resumed THEN <<>> ELSE [FlvHeader EXCEPT ![5] = DataType(Shown)]
File == Start \o FlattenSeq([i \in DOMAIN Counting(took) |->
                  TagBytes(TagsOf(Counting(took)[i])) \o Debris(Counting(took)[i])])

\* What a recording may hold is known: no corrupted aggregate, and no aggregate
\* at all in a resumed one.
Known == IF Resumed THEN Plain(took) ELSE Uncut(took)

(***************************************************************************)
(* The bytes returned by the calls of RTMP_Read so far, followed by those  *)
(* m_read.buf keeps, are the FLV file of the messages read: nothing is     *)
(* lost, repeated or split wrongly whatever the size of the caller's       *)
(* buffer, an aggregate's tags are moved to its timestamp and carry their  *)
(* PreviousTagSize, a resumed recording goes on behind its key frame.  An   *)
(* aggregate cut inside its last PreviousTagSize brings bytes of no tag.   *)
(* Once the stream has ended nothing is left behind.                       *)
(***************************************************************************)
WholeTags ==
  m.header /\ Known =>
    /\ out \o m.buf = File
    /\ m.status # 0 => m.buf = <<>>

\* The packets of the first n tags of the file, and the tags that are whole among
\* its first n bytes.
PacketsOf(n) ==
  [i \in 1..n |->
     LET t == FileTags[i] IN
     [type |-> t.type, stamp |-> t.stamp + ResumeStamp,
      size |-> t.n + IF t.type = INFO THEN SetDataFrame ELSE 0,
      large |-> t.type = INFO \/ t.stamp + ResumeStamp = 0]]
WholeIn(n) ==
  Cardinality({i \in DOMAIN FileTags : Len(Start) + Len(TagBytes(SubSeq(FileTags, 1, i))) <= n})

(***************************************************************************)
(* The file that RTMP_Read returned, given to RTMP_Write in pieces of any  *)
(* size, is published as the packets it was made of: one for each tag that *)
(* has been given whole, in order, with its time, also behind 2^24 ms,     *)
(* metadata longer by the string in front of it, and media at time 0 with  *)
(* a header of its own.  This holds up to the first call that returns less *)
(* than its piece and has taken some of it (the piece ends in a            *)
(* PreviousTagSize, or is too short for the tag it begins), that crashes   *)
(* (it ends in a tag's header), or whose piece ends right behind the       *)
(* header of an audio or video tag: that one returns the whole size, but   *)
(* the header is forgotten.                                                *)
(***************************************************************************)
Republished ==
  Known /\ warned = "all" => published = PacketsOf(WholeIn(Len(out) - Len(left)))

-----------------------------------------------------------------------------
(* What AMF data may be decoded to when not all of it is there: some of the *)
(* properties, and of the last of them, an object, some again.              *)

RECURSIVE Beginning(_, _)
Beginning(some, all) ==
  \/ IsPrefix(some, all)
  \/ /\ some # <<>> /\ Len(some) <= Len(all) /\ IsPrefix(Front(some), all)
     /\ LET p == Last(some)   q == all[Len(some)] IN
        p.name = q.name /\ p.type = q.type /\ q.type \in Objects /\ Beginning(p.v, q.v)

\* Properties the encoder knows, without an array whose count could be too high.
RECURSIVE Encodable(_)
Encodable(props) ==
  \A i \in DOMAIN props :
    \/ props[i].type \in {AMF_NUMBER, AMF_BOOLEAN, AMF_STRING}
    \/ props[i].type \in Objects /\ Encodable(props[i].v)

\* The end mark of a dynamic AMF3 object is decoded as one more property.
NamedOnly(props) == [props EXCEPT ![2].v = SelectSeq(@, LAMBDA q : q.name # <<>>)]

(***************************************************************************)
(* Metadata is decoded to what its sender means and uses all its bytes,    *)
(* and its duration is noted; cut anywhere, it is refused or the beginning *)
(* of what was meant.  (AMF3 is not cut, its decoder trusts its lengths,    *)
(* and its end mark counts as a nameless property.)  An object written     *)
(* with any room fits or is refused, and what is written reads as the      *)
(* beginning of it, all of it when there is room.                          *)
(***************************************************************************)
Understood ==
  Len(took) = 1 /\ took[1].type = INFO =>
    LET p == took[1]
        Read(k) == AMF_Decode(SubSeq(p.body, 1, k), k, FALSE)
        sent == {q \in Range(p.object) : p.plain /\ q.type \in Objects /\ Encodable(q.v)} IN
    /\ p.object = <<>> => Read(p.n) = Failed
    /\ p.object # <<>> => /\ Read(p.n).n = p.n
                          /\ IF p.plain THEN Read(p.n).props = p.object
                             ELSE NamedOnly(Read(p.n).props) = p.object
    /\ Meant(p) => m.duration = p.duration
    /\ p.plain => \A k \in 0..p.n - 1 :
         \E r \in {Read(k)} : r.n = -1 \/ (r.n <= k /\ Beginning(r.props, p.object))
    /\ \A q \in sent, room \in 0..p.n + 5 : \E w \in {AMFProp_Encode(q, room)} :
         /\ Len(w) <= room
         /\ w # <<>> => \E r \in {AMFProp_Decode(w, Len(w), FALSE)} :
              r.n = Len(w) /\ Beginning(<<r.prop>>, <<q>>)
         /\ room = p.n + 5 => AMFProp_Decode(w, Len(w), FALSE).prop = q
=============================================================================
