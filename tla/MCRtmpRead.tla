---------------------------- MODULE MCRtmpRead ----------------------------
(* Streams of up to MaxMessages messages, small enough for buffers of a few *)
(* bytes: audio and video that is too small or not, at time 0, 5 and behind *)
(* 2^24 ms, metadata, and aggregates: one with a wrong PreviousTagSize, one *)
(* without its last one, one with a part of it, one cut short.              *)
EXTENDS RtmpRead

CONSTANT MaxMessages

Late == 16777221     \* 2^24 + 5

Media(type, n, t) == [type |-> type, n |-> n, stamp |-> t, announces |-> {}]

\* Metadata: the string onMetaData and, as a rule, one object.  d: its duration.
Text(v) == Property(<<>>, AMF_STRING, v)
Info(body, object, d, announces, plain) ==
  [type |-> INFO, n |-> Len(body), stamp |-> 0, body |-> body, object |-> object, duration |-> d,
   announces |-> announces, plain |-> plain]
OnMetaData == AMF_EncodeString(av_onMetaData, 10)

Seconds == <<1, 2, 3, 4, 5, 6, 7, 64>>
Width == Property(<<119>>, AMF_NUMBER, <<0, 0, 0, 0, 0, 0, 20, 64>>)
Duration == Property(av_duration, AMF_NUMBER, Seconds)
VideoCodec == Property(av_video \o <<99>>, AMF_BOOLEAN, <<1>>)
AudioOnly == Property(av_audio, AMF_STRING, <<>>)
Title == Property(<<116, 116>>, AMF_STRING, <<65, 0>>)
Within(type, v) == Property(<<111>>, type, v)
Simple == {Width, Duration, VideoCodec, AudioOnly, Title}
Nested == {Within(t, v) : t \in Objects \cup {AMF_STRICT_ARRAY}, v \in {<<>>, <<Duration>>}}
Contents == {<<>>} \cup {<<a>> : a \in Simple \cup Nested} \cup {<<a, b>> : a \in Simple, b \in Nested \cup {Width}}

Named(v) == {i \in DOMAIN v : v[i].name = av_duration}
DurationOf(v) ==     \* in an array the elements have no names
  IF Named(v) # {} THEN Seconds
  ELSE IF \E i \in DOMAIN v : v[i].type \in Objects /\ Named(v[i].v) # {} THEN Seconds ELSE None
NoNames(v) == [i \in DOMAIN v |-> IF v[i].type # AMF_STRICT_ARRAY THEN v[i]
  ELSE [v[i] EXCEPT !.v = [k \in DOMAIN @ |-> [@[k] EXCEPT !.name = <<>>]]]]
Announced(v) == IF \E i \in DOMAIN v : v[i].name = VideoCodec.name THEN {VIDEO} ELSE {}

ObjectData(type, contents) ==
  LET v == NoNames(contents)   top == Property(<<>>, type, v) IN
  Info(OnMetaData \o AMFProp_Encode(top, 200), <<Text(av_onMetaData), top>>, DurationOf(v),
       IF type = AMF_OBJECT THEN Announced(v) ELSE {}, TRUE)

\* What the encoder does not write: a date, a long string, XML, undefined values, AMF3.
Raw(type, bytes, meant) == Info(OnMetaData \o <<type>> \o bytes, <<Text(av_onMetaData), meant>>, None, {}, type # AMF_AVMPLUS)
Amf3(bytes, props) == Raw(AMF_AVMPLUS, bytes, Property(<<>>, AMF_OBJECT, props))
RawData ==
  {Raw(AMF_DATE, Reverse(Seconds) \o <<0, 60>>, Property(<<>>, AMF_DATE, Seconds)),
   Raw(AMF_LONG_STRING, <<0, 0, 0, 2, 7, 8>>, Text(<<7, 8>>)),
   Raw(AMF_XML_DOC, <<0, 0, 0, 1, 7>>, Property(<<>>, AMF_XML_DOC, <<7>>)),
   Raw(AMF_UNDEFINED, <<>>, Property(<<>>, AMF_NULL, <<>>)),
   Raw(AMF_UNSUPPORTED, <<>>, Property(<<>>, AMF_NULL, <<>>)),
   \* type 10, class: no name, two members x and y; an integer 300 and TRUE
   Amf3(<<10, 35, 1, 3, 120, 3, 121, 4, 130, 44, 3>>,
        <<Property(<<120>>, AMF_NUMBER, <<300>>), Property(<<121>>, AMF_BOOLEAN, <<1>>)>>),
   \* dynamic: a member x and a property y; externalizable
   Amf3(<<10, 27, 1, 3, 120, 4, 5, 3, 121, 2, 1>>,
        <<Property(<<120>>, AMF_NUMBER, <<5>>), Property(<<121>>, AMF_BOOLEAN, <<0>>)>>),
   Amf3(<<10, 7, 1, 6, 3, 65>>, <<Property(DEFAULT_ATTRIBUTE, AMF_STRING, <<65>>)>>),
   \* integers of 3 and 4 bytes, a double, a string, a date, null
   Amf3(<<10, 99, 1, 3, 75, 3, 76, 3, 77, 3, 78, 3, 79, 3, 80, 4, 129, 128, 1, 4, 193, 128, 128, 5, 5>>
          \o Reverse(Seconds) \o <<6, 5, 65, 66, 8, 1>> \o Reverse(Seconds) \o <<1>>,
        <<Property(<<75>>, AMF_NUMBER, <<16385>>), Property(<<76>>, AMF_NUMBER, <<-264241147>>),
          Property(<<77>>, AMF_NUMBER, Seconds), Property(<<78>>, AMF_STRING, <<65, 66>>),
          Property(<<79>>, AMF_NUMBER, Seconds), Property(<<80>>, AMF_NULL, <<>>)>>)}
Understandable == {ObjectData(t, v) : t \in Objects, v \in Contents} \cup RawData
OnCuePoint == Info(AMF_EncodeString(<<99>>, 10), <<Text(<<99>>)>>, None, {}, TRUE)
Garbled == Info(<<AMF_STRING, 0, 9, 1>>, None, None, {}, FALSE)
\* Dynamic objects with a property y that is an array, which the decoder does not
\* read: it goes on from one byte in front of the name, and the message is refused.
Refused3(bytes) == Info(OnMetaData \o <<AMF_AVMPLUS>> \o bytes, None, None, {}, FALSE)
Amf3Arrays == {Refused3(<<10, 27, 1, 3, 120, 4, 5, 3, 121, 9, 1, 1, 1>>),
               Refused3(<<10, 11, 1, 3, 121, 9, 1, 1, 1>>)}
Meta == ObjectData(AMF_OBJECT, <<VideoCodec, Width>>)

T(type, n, t) == [type |-> type, n |-> n, stamp |-> t, body |-> Flv!Bytes(n)]
Inner(t, previous) == TagHeader(t.type, t.n, t.stamp) \o Flv!Bytes(t.n) \o previous
Aggregate(t, tags, body, corrupt, ragged) ==
  [type |-> FLASH_VIDEO, n |-> Len(body), stamp |-> t, tags |-> tags, body |-> body,
   announces |-> {tags[i].type : i \in DOMAIN tags}, corrupt |-> corrupt, ragged |-> ragged]

A3 == T(AUDIO, 2, 3)   V9 == T(VIDEO, 6, 9)
Rebased == Aggregate(5, <<A3, V9>>, Inner(A3, Flv!U32(99)) \o Inner(V9, Flv!U32(17)), FALSE, 0)
Unclosed == Aggregate(0, <<V9, A3>>, Inner(V9, Flv!U32(17)) \o Inner(A3, <<>>), FALSE, 0)
Ragged(k) == Aggregate(5, <<A3, V9>>, Inner(A3, Flv!U32(13)) \o Inner(V9, SubSeq(Flv!U32(17), 1, k)), FALSE, k)
CutShort == Aggregate(5, <<A3, V9>>, Inner(A3, Flv!U32(13)) \o Front(Inner(V9, <<>>)), TRUE, 0)

Messages ==
  {Media(AUDIO, 1, 0), Media(AUDIO, 2, 0), Media(VIDEO, 6, 0), Media(VIDEO, 6, 5), Media(VIDEO, 5, 5),
   Media(AUDIO, 3, Late), Meta, OnCuePoint, Rebased, Unclosed, Ragged(2), CutShort}

AllStreams == UNION {[1..k -> Messages] : k \in 0..MaxMessages}
  \cup {<<p>> : p \in Understandable \cup {Garbled, Ragged(1), Ragged(3)} \cup Amf3Arrays}

KeyFrame == [type |-> VIDEO, n |-> 6, stamp |-> 9, meta |-> Meta.body]
AllResumes == {None, KeyFrame}
=============================================================================
