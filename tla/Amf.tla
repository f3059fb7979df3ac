-------------------------------- MODULE Amf --------------------------------
(***************************************************************************)
(* The Action Message Format as librtmp writes and reads it (amf.c).  A    *)
(* property is a record of its name, its type and its value, a sequence:   *)
(* the bytes of a string, the properties of an object, the 8 bytes of a    *)
(* double as the machine has them.  An encoding that does not fit is <<>>  *)
(* (NULL), a decoding that fails has n = -1, otherwise n is the number of  *)
(* bytes used.                                                             *)
(***************************************************************************)
EXTENDS Integers, Sequences, SequencesExt

AMF_NUMBER == 0         AMF_BOOLEAN == 1      AMF_STRING == 2    AMF_OBJECT == 3
AMF_NULL == 5           AMF_UNDEFINED == 6    AMF_ECMA_ARRAY == 8
AMF_STRICT_ARRAY == 10  AMF_DATE == 11        AMF_LONG_STRING == 12
AMF_UNSUPPORTED == 13   AMF_XML_DOC == 15     AMF_AVMPLUS == 17
AMF_OBJECT_END == <<0, 0, 9>>

Property(name, type, v) == [name |-> name, type |-> type, v |-> v]
Objects == {AMF_OBJECT, AMF_ECMA_ARRAY}

\* What is read behind the end of the data; every size is tested before it counts.
Behind == 77
At(b, i) == IF i \in DOMAIN b THEN b[i] ELSE Behind
From(b, i) == SubSeq(b, i, Len(b))

AMF_DecodeInt16(b, i) == At(b, i) * 256 + At(b, i + 1)
AMF_DecodeInt32(b, i) == AMF_DecodeInt16(b, i) * 65536 + AMF_DecodeInt16(b, i + 2)
AMF_EncodeInt16(n) == <<n \div 256, n % 256>>
AMF_EncodeInt32(n) == AMF_EncodeInt16(n \div 65536) \o AMF_EncodeInt16(n % 65536)

\* The bytes of a double change their order on the way.
AMF_DecodeNumber(b, i) == Reverse(SubSeq(b, i, i + 7))
AMF_DecodeBoolean(b, i) == IF b[i] # 0 THEN <<1>> ELSE <<0>>

-----------------------------------------------------------------------------
(* Writing into room bytes.                                                *)

AMF_EncodeNumber(v, room) == IF room < 9 THEN <<>> ELSE <<AMF_NUMBER>> \o Reverse(v)
AMF_EncodeBoolean(v, room) == IF room < 2 THEN <<>> ELSE <<AMF_BOOLEAN>> \o v

\* Strings shorter than 2^16; the room of a long string's length is asked for.
AMF_EncodeString(v, room) ==
  IF room < 5 + Len(v) THEN <<>> ELSE <<AMF_STRING>> \o AMF_EncodeInt16(Len(v)) \o v

RECURSIVE AMFProp_Encode(_, _), EncodeProps(_, _)

\* The properties that fit, up to the first that does not.
EncodeProps(props, room) ==
  IF props = <<>> THEN <<>>
  ELSE LET bytes == AMFProp_Encode(Head(props), room) IN
       IF bytes = <<>> THEN <<>> ELSE bytes \o EncodeProps(Tail(props), room - Len(bytes))

Marked(head, props, room) ==
  LET bytes == head \o EncodeProps(props, room - Len(head)) IN
  IF room <= 4 \/ Len(bytes) + 3 >= room THEN <<>> ELSE bytes \o AMF_OBJECT_END

AMF_Encode(props, room) == Marked(<<AMF_OBJECT>>, props, room)
AMF_EncodeEcmaArray(props, room) ==
  Marked(<<AMF_ECMA_ARRAY>> \o AMF_EncodeInt32(Len(props)), props, room)
AMF_EncodeArray(props, room) ==
  LET head == <<AMF_STRICT_ARRAY>> \o AMF_EncodeInt32(Len(props)) IN
  IF room <= 4 THEN <<>> ELSE head \o EncodeProps(props, room - Len(head))

\* A null is written without its name.
AMFProp_Encode(p, room) ==
  LET head == IF p.type # AMF_NULL /\ p.name # <<>> THEN AMF_EncodeInt16(Len(p.name)) \o p.name ELSE <<>>
      rest == room - Len(head)
      value == CASE p.type = AMF_NUMBER -> AMF_EncodeNumber(p.v, rest)
                 [] p.type = AMF_BOOLEAN -> AMF_EncodeBoolean(p.v, rest)
                 [] p.type = AMF_STRING -> AMF_EncodeString(p.v, rest)
                 [] p.type = AMF_NULL -> IF rest <= 1 THEN <<>> ELSE <<AMF_NULL>>
                 [] p.type = AMF_OBJECT -> AMF_Encode(p.v, rest)
                 [] p.type = AMF_ECMA_ARRAY -> AMF_EncodeEcmaArray(p.v, rest)
                 [] p.type = AMF_STRICT_ARRAY -> AMF_EncodeArray(p.v, rest)
                 [] OTHER -> <<>> IN
  IF (p.type # AMF_NULL /\ Len(p.name) + 3 >= room) \/ value = <<>> THEN <<>> ELSE head \o value

-----------------------------------------------------------------------------
(* AMF3, inside a property of type AMF_AVMPLUS; pos bytes are used.        *)

\* 7 bits a byte, 8 of the fourth, which is a signed char.
AMF3ReadInteger(b, pos) ==
  LET Byte(i) == At(b, pos + i)
      n == CHOOSE i \in 1..4 : (i = 4 \/ Byte(i) < 128) /\ \A k \in 1..i - 1 : Byte(k) >= 128
      high[i \in 0..3] == IF i = 0 THEN 0 ELSE high[i - 1] * 128 + (Byte(i) % 128)
      four == IF Byte(4) >= 128 THEN Byte(4) - 256 ELSE high[3] * 256 + Byte(4) IN
  [n |-> n, val |-> IF n < 4 THEN high[n - 1] * 128 + Byte(n)
                    ELSE IF four > 268435455 THEN four - 536870912 ELSE four]

\* Lengths are believed: a string may reach behind the data.
AMF3ReadString(b, pos) ==
  LET Of(ref) ==
        IF ref.val % 2 = 0 THEN [n |-> ref.n, v |-> <<>>]        \* a reference: not supported
        ELSE [n |-> ref.n + ref.val \div 2,
              v |-> [i \in 1..ref.val \div 2 |-> At(b, pos + ref.n + i)]] IN
  Of(AMF3ReadInteger(b, pos))

\* What a property holds before anything is read into it.
NoProp == Property(<<>>, AMF_NULL, <<>>)

RECURSIVE AMF3_Decode(_, _, _), Dynamic(_, _, _), Members(_, _, _, _)

\* The value whose type is byte `at'; stale is what the property held before, and
\* what it still holds when the value is not read.
AMF3Value(b, at, stale) ==
  LET size == Len(b) - at
      type == At(b, at)
      Took(n, t, v) == [n |-> IF size < n THEN -1 ELSE n, type |-> t, v |-> v]
      Not == [n |-> -1, type |-> stale.type, v |-> stale.v]
      Double(n) == IF size < n + 8 THEN Not ELSE Took(n + 8, AMF_NUMBER, AMF_DecodeNumber(b, at + n + 1))
      Number(int) == Took(int.n, AMF_NUMBER, <<int.val>>)
      Date(int) == IF int.val % 2 = 0 THEN Took(int.n, stale.type, stale.v) ELSE Double(int.n)
      String(s) == Took(s.n, AMF_STRING, s.v)
      Object(o) == Took(o.n, AMF_OBJECT, o.props) IN
  CASE type \in {0, 1} -> Took(0, AMF_NULL, <<>>)
    [] type \in {2, 3} -> Took(0, AMF_BOOLEAN, <<type - 2>>)
    [] type = 4 -> Number(AMF3ReadInteger(b, at))
    [] type = 5 -> Double(0)
    [] type \in {6, 7, 11} -> String(AMF3ReadString(b, at))
    [] type = 8 -> Date(AMF3ReadInteger(b, at))
    [] type = 10 -> Object(AMF3_Decode(b, at, TRUE))
    [] OTHER -> Not

\* The property is set as far as it is read, also by a call that fails (n = -1).
AMF3Prop_Decode(b, pos, named, stale) ==
  LET Unnamed(n) == [n |-> n, prop |-> [stale EXCEPT !.name = <<>>]]
      Prop(name, value) ==
        [n |-> IF value.n = -1 THEN -1 ELSE name.n + 1 + value.n,
         prop |-> Property(name.v, value.type, value.v)]
      Of(name) ==
        IF named /\ name.v = <<>> THEN Unnamed(name.n)
        ELSE IF Len(b) <= pos + name.n THEN Unnamed(-1)
        ELSE Prop(name, AMF3Value(b, pos + name.n + 1, stale)) IN
  IF Len(b) - pos = 0 THEN Unnamed(-1)
  ELSE Of(IF named THEN AMF3ReadString(b, pos) ELSE [n |-> 0, v |-> <<>>])

\* The members a class names; a failure is noted and the pointer moves back by one.
Members(b, pos, names, stale) ==
  LET Then(p) ==
        [Members(b, pos + p.n, Tail(names), p.prop) EXCEPT
           !.props = <<[p.prop EXCEPT !.name = Head(names)]>> \o @] IN
  IF names = <<>> THEN [n |-> pos, props |-> <<>>]
  ELSE IF Len(b) - pos <= 0 THEN [n |-> Len(b), props |-> <<>>]
  ELSE Then(AMF3Prop_Decode(b, pos, FALSE, stale))

\* Properties up to an empty name, which is added as one.  One that fails keeps its
\* name: it is added, the pointer moves back by one, and reading goes on from there.
Dynamic(b, pos, stale) ==
  LET Then(p) ==
        [IF p.prop.name = <<>> THEN [n |-> pos + p.n, props |-> <<>>]
         ELSE Dynamic(b, pos + p.n, p.prop) EXCEPT !.props = <<p.prop>> \o @] IN
  IF Len(b) - pos <= 0 THEN [n |-> Len(b), props |-> <<>>]
  ELSE Then(AMF3Prop_Decode(b, pos, TRUE, stale))

\* The names of a class; n = -1 if the data end before them.
RECURSIVE MemberNames(_, _, _)
MemberNames(b, pos, count) ==
  LET Then(name) == [MemberNames(b, pos + name.n, count - 1) EXCEPT !.names = <<name.v>> \o @] IN
  IF count = 0 THEN [n |-> pos, names |-> <<>>]
  ELSE IF Len(b) - pos <= 0 THEN [n |-> -1, names |-> <<>>]
  ELSE Then(AMF3ReadString(b, pos))

DEFAULT_ATTRIBUTE == <<68>>     \* one byte for the word

\* In AMF data the type byte is skipped, the one of a nested object a second time.
\* The flags of a class: its names are listed, it is external, it is dynamic.
AMF3_Decode(b, start, data) ==
  LET pos == IF data THEN start + 1 ELSE start
      Done(end, props) == [n |-> end - start, props |-> props]
      External(at, value) ==
        Done(at + (IF value.n = -1 THEN 0 ELSE value.n),
             <<[value.prop EXCEPT !.name = DEFAULT_ATTRIBUTE]>>)
      And(fixed, more) == Done(more.n, fixed.props \o more.props)
      Fixed(flags, fixed) ==
        IF flags % 8 # 5 THEN Done(fixed.n, fixed.props)
        ELSE And(fixed, Dynamic(b, fixed.n, IF fixed.props = <<>> THEN NoProp ELSE Last(fixed.props)))
      Object(flags, names) ==
        IF names.n = -1 THEN Done(Len(b), <<>>)
        ELSE IF flags % 4 = 3 THEN External(names.n, AMF3Prop_Decode(b, names.n, FALSE, NoProp))
        ELSE Fixed(flags, Members(b, names.n, names.names, NoProp))
      Of(ref, flags) ==
        IF ref.val % 2 = 0 THEN Done(pos + ref.n, <<>>)
        ELSE Object(flags, IF flags % 2 = 0 THEN [n |-> pos + ref.n, names |-> <<>>]
               ELSE MemberNames(b, pos + ref.n + AMF3ReadString(b, pos + ref.n).n, flags \div 8))
      With(ref) == Of(ref, ref.val \div 2) IN
  With(AMF3ReadInteger(b, pos))

-----------------------------------------------------------------------------
(* Reading size bytes of b, which may be fewer than none.                  *)

Failed == [n |-> -1, props |-> <<>>]

RECURSIVE AMF_Decode(_, _, _), AMF_DecodeArray(_, _, _)

\* The mutant form uses the name's bytes and forgets those of its length.
NameSize_short(named, size) == IF named THEN size ELSE 0
NameSize(named, size) == IF named THEN 2 + size ELSE 0

AMFProp_Decode(b, all, named) ==
  LET nameSize == AMF_DecodeInt16(b, 1)
      name == IF named THEN SubSeq(b, 3, 2 + nameSize) ELSE <<>>
      at == NameSize(named, nameSize) + 1
      size == all - at
      type == At(b, at)
      string == AMF_DecodeInt16(b, at + 1)
      long == AMF_DecodeInt32(b, at + 1)
      count == IF type = AMF_ECMA_ARRAY THEN 4 ELSE 0
      Bad == [n |-> -1, prop |-> NoProp]
      Took(needed, n, t, v) ==
        IF size < needed THEN Bad ELSE [n |-> at + n, prop |-> Property(name, t, v)]
      Object(r, skipped, t) ==
        IF r.n = -1 THEN Bad ELSE [n |-> at + skipped + r.n, prop |-> Property(name, t, r.props)] IN
  IF all = 0 \/ (named /\ (all < 4 \/ nameSize > all - 2)) THEN Bad
  ELSE IF size < 0 THEN Bad
  ELSE CASE type = AMF_NUMBER -> Took(8, 8, type, AMF_DecodeNumber(b, at + 1))
         [] type = AMF_BOOLEAN -> IF size < 1 THEN Bad ELSE Took(1, 1, type, AMF_DecodeBoolean(b, at + 1))
         [] type = AMF_STRING -> Took(string + 2, string + 2, type, SubSeq(b, at + 3, at + 2 + string))
         [] type \in {AMF_NULL, AMF_UNDEFINED, AMF_UNSUPPORTED} -> Took(0, 0, AMF_NULL, <<>>)
         [] type \in Objects -> Object(AMF_Decode(From(b, at + 1 + count), size - count, TRUE), count, type)
         [] type = AMF_STRICT_ARRAY -> Object(AMF_DecodeArray(From(b, at + 5), size - 4, long), 4, type)
         [] type = AMF_DATE -> Took(10, 10, type, AMF_DecodeNumber(b, at + 1))
         [] type \in {AMF_LONG_STRING, AMF_XML_DOC} ->
              Took(long + 4, long + 4, IF type = AMF_LONG_STRING THEN AMF_STRING ELSE type,
                   SubSeq(b, at + 5, at + 4 + long))
         [] type = AMF_AVMPLUS -> Object(AMF3_Decode(From(b, at + 1), 0, TRUE), 0, AMF_OBJECT)
         [] OTHER -> Bad

Joined(p, rest) ==
  IF p.n = -1 \/ rest.n = -1 THEN Failed
  ELSE [n |-> p.n + rest.n, props |-> <<p.prop>> \o rest.props]

AMF_DecodeArray(b, size, count) ==
  LET Then(p) == Joined(p, AMF_DecodeArray(From(b, p.n + 1), size - p.n, count - 1)) IN
  IF count <= 0 THEN [n |-> 0, props |-> <<>>]
  ELSE IF size <= 0 THEN Failed
  ELSE Then(AMFProp_Decode(b, size, FALSE))

AMF_Decode(b, size, named) ==
  LET Then(p) == IF p.n > size THEN Failed
                 ELSE Joined(p, AMF_Decode(From(b, p.n + 1), size - p.n, named)) IN
  IF size <= 0 THEN [n |-> 0, props |-> <<>>]
  ELSE IF size >= 3 /\ SubSeq(b, 1, 3) = AMF_OBJECT_END THEN [n |-> 3, props |-> <<>>]
  ELSE Then(AMFProp_Decode(b, size, named))

-----------------------------------------------------------------------------
(* Metadata (rtmp.c).                                                      *)

RECURSIVE RTMP_FindFirstMatchingProperty(_, _), RTMP_FindPrefixProperty(_, _)

\* The values found, the first of them the one: arrays and objects are searched.
RTMP_FindFirstMatchingProperty(props, name) ==
  FlattenSeq([i \in DOMAIN props |->
    IF props[i].name = name THEN <<props[i].v>>
    ELSE IF props[i].type \in Objects THEN RTMP_FindFirstMatchingProperty(props[i].v, name)
    ELSE <<>>])

\* Objects only are searched.
RTMP_FindPrefixProperty(props, name) ==
  \E i \in DOMAIN props :
    \/ Len(props[i].name) > Len(name) /\ IsPrefix(name, props[i].name)
    \/ props[i].type = AMF_OBJECT /\ RTMP_FindPrefixProperty(props[i].v, name)
=============================================================================
