----------------------------- MODULE RtmpChunk ------------------------------
(***************************************************************************)
(* The chunk layer of librtmp: RTMP_SendPacket at one end, ReadN,          *)
(* RTMP_ReadPacket and the protocol control part of RTMP_ClientPacket at   *)
(* the other.  A message travels as chunks; the header of a chunk leaves   *)
(* out what the receiver can take from the message before it on the same   *)
(* channel, so sender and receiver each keep a record per channel and must *)
(* keep it alike.  Chunks of different channels interleave, the chunk size *)
(* and the bandwidth change between two chunks, the sender waits when too  *)
(* many bytes are unacknowledged, and the connection may be replaced by a  *)
(* new one (CloseInternal, then RTMP_Connect).                             *)
(*                                                                         *)
(* The wire is a sequence of bytes.  BYTE, the number of values of a byte  *)
(* in an integer field (256 in the program), is a parameter, so that the   *)
(* limits of 24 and 32 bits can be reached: EXT is 0xffffff, MOD is 2^32.  *)
(***************************************************************************)
EXTENDS Integers, Sequences, SequencesExt

CONSTANTS
  Channels,      \* chunk stream ids
  BYTE,          \* values of one byte of an integer field
  DEFAULT_CHUNKSIZE, CLIENT_BW,   \* RTMP_Init
  Media,         \* body sizes of the media messages
  Stamps,        \* timestamps
  ChunkSizes, Windows, Bandwidths,  \* what the server may announce
  MaxMessages,   \* bound: messages sent
  MaxReconnects  \* bound: connections replaced

ASSUME ChunkConstants ==
  /\ BYTE \in Nat \ {0, 1} /\ DEFAULT_CHUNKSIZE \in Nat \ {0}
  /\ CLIENT_BW \in Nat \ {0} /\ 2 \in Channels /\ Channels \subseteq 2..65599
  /\ ChunkSizes \subseteq Nat \ {0} /\ Windows \cup Bandwidths \subseteq Nat \ {0}
  /\ Media \subseteq Nat \ {0} /\ MaxMessages \in Nat /\ MaxReconnects \in Nat

EXT == BYTE ^ 3 - 1
MOD == BYTE ^ 4

LARGE == 0   MEDIUM == 1   SMALL == 2   MINIMUM == 3     \* RTMP_PACKET_SIZE_*
CHUNK_SIZE == 1   SERVERBW == 5   CLIENTBW == 6   AUDIO == 8             \* RTMP_PACKET_TYPE_*
None == <<>>

VARIABLES
  vecOut,        \* sender: by channel, the last packet (m_vecChannelsOut)
  sending,       \* sender: by channel, the packet whose chunks are being sent
  outChunkSize, window, acked, written,
  wire,          \* bytes under way
  chunks,        \* history: the lengths of the chunks in wire
  reports,       \* bytes-read reports under way
  vecIn,         \* receiver: by channel, the last packet (m_vecChannelsIn)
  stamp,         \* receiver: by channel, the absolute timestamp (m_channelTimestamp)
  packet,        \* receiver: the caller's RTMPPacket, reused by every call
  inChunkSize, clientBW, nBytesIn, nBytesInSent,
  readBW,        \* history: clientBW when the last bytes were read
  sent, got,     \* history: by channel, the messages sent and the ones that arrived
  stale,         \* history: the connection began with another chunk size than its peer's
  repeated,      \* history: a MINIMUM header followed an extended timestamp
  lost,          \* history: a chunk was not read to its end, or beyond it
  connections    \* connections replaced so far
sender == <<vecOut, sending, outChunkSize, window, written>>
receiver == <<vecIn, stamp, packet, inChunkSize, clientBW, nBytesIn, nBytesInSent, readBW>>
vars == <<sender, receiver, acked, wire, chunks, reports, sent, got, stale, repeated, lost, connections>>

-----------------------------------------------------------------------------
(* Integers on the wire (AMF_EncodeInt24, AMF_EncodeInt32, EncodeInt32LE). *)

EncodeInt(v, n) == [i \in 1..n |-> (v \div BYTE ^ (n - i)) % BYTE]
DecodeInt(s) == LET n[i \in 0..Len(s)] == IF i = 0 THEN 0 ELSE n[i - 1] * BYTE + s[i]
                IN n[Len(s)]
EncodeInt32LE(v) == Reverse(EncodeInt(v, 4))
DecodeInt32LE(s) == DecodeInt(Reverse(s))

\* The basic header: two bits of header type, then the channel in 6 bits or
\* in one or two bytes behind them.
Basic(type, c) ==
  CASE c > 319 -> <<type * 64 + 1, (c - 64) % 256, (c - 64) \div 256>>
    [] c \in 64..319 -> <<type * 64, c - 64>>
    [] OTHER -> <<type * 64 + c>>

-----------------------------------------------------------------------------
(* The sender: RTMP_SendPacket.                                            *)

Smaller(prev, p) == IF p.type = prev.type /\ p.size = prev.size THEN SMALL ELSE MEDIUM

\* "compress a bit by using the prev packet's attributes"
HeaderType(c, p) ==
  LET prev == vecOut[c] IN
  IF p.headerType = LARGE \/ prev = None THEN p.headerType
  ELSE IF Smaller(prev, p) = SMALL /\ prev.stamp = p.stamp THEN MINIMUM
  ELSE Smaller(prev, p)

\* The timestamp goes as a difference to the last one, modulo 2^32.
Delta(c, p) == (p.stamp - IF p.headerType = LARGE \/ vecOut[c] = None
                          THEN 0 ELSE vecOut[c].stamp) % MOD

Extended(t) == IF t >= EXT THEN EncodeInt(t, 4) ELSE <<>>
Header(c, type, t, p) ==
  Basic(type, c)
  \o (IF type <= SMALL THEN EncodeInt(IF t > EXT THEN EXT ELSE t, 3) ELSE <<>>)
  \o (IF type <= MEDIUM THEN EncodeInt(p.size, 3) \o <<p.type>> ELSE <<>>)
  \o (IF type = LARGE THEN EncodeInt32LE(p.stream) ELSE <<>>)
  \o Extended(t)

\* The mutant form: only the first chunk of a message carries the extended timestamp.
ContinuationHeader_short(c, t) == Basic(MINIMUM, c)

ContinuationHeader(c, t) == Basic(MINIMUM, c) \o Extended(t)


\* A message of the peer.  Its n-th message has bytes of its own in its body.
Body(n, type, v) ==
  CASE type = CHUNK_SIZE -> EncodeInt(v, 4)
    [] type = SERVERBW -> EncodeInt(v, 4)
    [] type = CLIENTBW -> EncodeInt(v, 4) \o <<2>>
    [] OTHER -> [i \in 1..v |-> 10 * n + i]

Sum(f) == FoldFunction(LAMBDA q, n : Len(q) + n, 0, f)
Number == Sum(sent) + 1

\* history: the receiver can know the timestamp.  A MINIMUM header means "the
\* same difference again", and the sender uses it for "the same timestamp".
Exact(c, type, t) ==
  CASE type = LARGE -> TRUE
    [] type = MINIMUM -> vecOut[c].exact /\ vecOut[c].delta = 0
    [] OTHER -> IF vecOut[c] = None THEN TRUE ELSE vecOut[c].exact

\* history: the stream id the receiver can know, -1 for none.  Only a LARGE header
\* carries it; a channel that begins with a smaller one has no id of its own (the
\* receiver then takes the one of the last message of any channel).
Stream(c, type, p) == IF type = LARGE THEN p.stream
                      ELSE IF vecOut[c] = None THEN -1 ELSE vecOut[c].seen

Start(c, p) ==
  LET type == HeaderType(c, p)   t == Delta(c, p) IN
  /\ sending' = [sending EXCEPT ![c] =
       [header |-> Header(c, type, t, p), delta |-> t, body |-> p.body, packet |-> p]]
  /\ vecOut' = [vecOut EXCEPT ![c] =
       [type |-> p.type, size |-> p.size, stamp |-> p.stamp,
        delta |-> IF type = MINIMUM THEN vecOut[c].delta ELSE t,
        exact |-> Exact(c, type, t), seen |-> Stream(c, type, p)]]
  /\ sent' = [sent EXCEPT ![c] = Append(@,
       [type |-> p.type, body |-> p.body, stream |-> Stream(c, type, p),
        stamp |-> IF Exact(c, type, t) THEN p.stamp ELSE -1])]
  /\ repeated' = (repeated \/ (type = MINIMUM /\ vecOut[c].delta >= EXT))

Packet(n, type, headerType, s, v) ==
  [type |-> type, headerType |-> headerType, stamp |-> s, stream |-> n,
   body |-> Body(n, type, v), size |-> Len(Body(n, type, v))]

Idle(c) == Number <= MaxMessages /\ sending[c] = None

\* A media message; librtmp's callers ask for a LARGE or a MEDIUM header, and
\* every first message of a channel is one of them.
SendMedia(c) ==
  /\ Idle(c)
  /\ \E type \in {LARGE, MEDIUM}, s \in Stamps, v \in Media :
       Start(c, Packet(Number, AUDIO, type, s, v))
  /\ UNCHANGED <<outChunkSize, window, written, receiver, acked, wire, chunks, reports, got, stale, lost>>

\* A protocol control message of the server, on channel 2: Set Chunk Size, Window
\* Acknowledgement Size, Set Peer Bandwidth.
SendControl(c) ==
  /\ Idle(c) /\ c = 2
  /\ \/ \E v \in ChunkSizes : Start(c, Packet(Number, CHUNK_SIZE, LARGE, 0, v))
     \/ \E v \in Windows : Start(c, Packet(Number, SERVERBW, LARGE, 0, v))
     \/ \E v \in Bandwidths : Start(c, Packet(Number, CLIENTBW, MEDIUM, 0, v))
  /\ UNCHANGED <<outChunkSize, window, written, receiver, acked, wire, chunks, reports, got, stale, lost>>

\* The next chunk of a message under way.  RTMP_SendPacket writes the chunks of
\* one message in one call; a server puts chunks of other channels in between,
\* and writes no more while a window of bytes is unacknowledged; either message
\* about the bandwidth tells the window.
WriteN(c) ==
  /\ sending[c] # None
  /\ written - acked < window
  /\ LET q == sending[c]
         n == IF Len(q.body) < outChunkSize THEN Len(q.body) ELSE outChunkSize
         chunk == q.header \o SubSeq(q.body, 1, n)
         value == IF q.packet.type \in {CHUNK_SIZE, SERVERBW, CLIENTBW}
                    THEN DecodeInt(SubSeq(q.packet.body, 1, 4)) ELSE 0
         done == n = Len(q.body) IN
     /\ wire' = wire \o chunk
     /\ chunks' = Append(chunks, Len(chunk))
     /\ written' = written + Len(chunk)
     /\ sending' = [sending EXCEPT ![c] = IF done THEN None ELSE
          [q EXCEPT !.header = ContinuationHeader(c, q.delta), !.body = SubSeq(@, n + 1, Len(@))]]
     /\ outChunkSize' = IF done /\ q.packet.type = CHUNK_SIZE THEN value ELSE outChunkSize
     /\ window' = IF done /\ q.packet.type \in {SERVERBW, CLIENTBW} THEN value ELSE window
  /\ UNCHANGED <<vecOut, receiver, acked, reports, sent, got, stale, repeated, lost>>

\* The server takes a bytes-read report.
TakeReport ==
  /\ reports # <<>>
  /\ acked' = Head(reports) /\ reports' = Tail(reports)
  /\ UNCHANGED <<sender, receiver, wire, chunks, sent, got, stale, repeated, lost>>

-----------------------------------------------------------------------------
(* The receiver: RTMP_ReadPacket, called by RTMP_GetNextMediaPacket with   *)
(* one RTMPPacket for all calls.                                           *)

\* RTMPPacket_Reset; a body of None is the NULL pointer.
Empty == [channel |-> 0, type |-> 0, stamp |-> 0, stream |-> 0, size |-> 0, read |-> 0,
          abs |-> FALSE, body |-> None]

\* The basic header: header type, channel, and the bytes read for them.
ReadBasic(w) ==
  LET c == w[1] % 64 IN
  [type |-> w[1] \div 64,
   channel |-> CASE c = 0 -> w[2] + 64 [] c = 1 -> w[3] * 256 + w[2] + 64 [] OTHER -> c,
   reads |-> CASE c = 0 -> <<1, 1>> [] c = 1 -> <<1, 2>> [] OTHER -> <<1>>]

HeaderSize == <<11, 7, 3, 0>>      \* packetSize, without the basic header

\* Bytes from..to of what is under way.
Bytes(from, to) == SubSeq(wire, from, IF to < Len(wire) THEN to ELSE Len(wire))

\* The mutant form: a full header does not make the timestamp absolute.
Reused_relative(b) ==
  IF b.type = LARGE THEN [packet EXCEPT !.channel = b.channel]
  ELSE IF vecIn[b.channel] # None THEN vecIn[b.channel]
  ELSE [packet EXCEPT !.channel = b.channel]

\* "using values from the last message of this channel"
Reused(b) ==
  IF b.type = LARGE THEN [packet EXCEPT !.channel = b.channel, !.abs = TRUE]
  ELSE IF vecIn[b.channel] # None THEN vecIn[b.channel]
  ELSE [packet EXCEPT !.channel = b.channel]

Field(h, p) ==
  LET n == Len(h)
      stamped == IF n >= 3 THEN [p EXCEPT !.stamp = DecodeInt(SubSeq(h, 1, 3))] ELSE p
      sized == IF n >= 6 THEN [stamped EXCEPT !.size = DecodeInt(SubSeq(h, 4, 6)), !.read = 0,
                                              !.type = h[7]] ELSE stamped
  IN IF n = 11 THEN [sized EXCEPT !.stream = DecodeInt32LE(SubSeq(h, 8, 11))] ELSE sized

\* The packet after a chunk, the record kept for the channel, and the sizes of
\* the ReadN calls.
ReadPacket ==
  LET b == ReadBasic(wire)
      at == IF b.reads = <<1>> THEN 1 ELSE 1 + b.reads[2]
      hs == HeaderSize[b.type + 1]
      p == Field(Bytes(at + 1, at + hs), Reused(b))
      extended == p.stamp = EXT
      e == at + hs + IF extended THEN 4 ELSE 0
      stamped == IF extended THEN [p EXCEPT !.stamp = DecodeInt(Bytes(at + hs + 1, e))] ELSE p
      alloc == IF p.size > 0 /\ p.body = None THEN [stamped EXCEPT !.read = 0] ELSE stamped
      n == IF alloc.size - alloc.read < inChunkSize THEN alloc.size - alloc.read ELSE inChunkSize
      q == [alloc EXCEPT !.read = @ + n, !.body = @ \o Bytes(e + 1, e + n)]
      ready == q.read = q.size
      absolute == IF q.abs THEN q.stamp ELSE (q.stamp + stamp[b.channel]) % MOD
      kept == [q EXCEPT !.stamp = IF extended THEN EXT ELSE @]
  IN [channel |-> b.channel, ready |-> ready,
      packet |-> IF ready THEN [q EXCEPT !.stamp = absolute] ELSE [q EXCEPT !.body = None],
      kept |-> IF ready THEN [kept EXCEPT !.body = None, !.read = 0, !.abs = FALSE] ELSE kept,
      stamp |-> IF ready THEN absolute ELSE stamp[b.channel],
      used |-> e + n,
      reads |-> SelectSeq(b.reads \o <<hs, IF extended THEN 4 ELSE 0, n>>, LAMBDA k : k > 0)]

\* The mutant form: the report waits for the whole bandwidth.
SendBytesReceived_late(counts, n) ==
  LET in == counts.in + n IN
  IF in > counts.acked + 2 * clientBW
  THEN [in |-> in, acked |-> in, reports |-> Append(counts.reports, in)]
  ELSE [counts EXCEPT !.in = in]

\* ReadN counts the bytes; past a tenth of the bandwidth it reports them
\* (SendBytesReceived) in the middle of the read.
SendBytesReceived(counts, n) ==
  LET in == counts.in + n IN
  IF in > counts.acked + clientBW \div 10
  THEN [in |-> in, acked |-> in, reports |-> Append(counts.reports, in)]
  ELSE [counts EXCEPT !.in = in]

ReadN(sizes) ==
  FoldLeft(SendBytesReceived, [in |-> nBytesIn, acked |-> nBytesInSent, reports |-> reports], sizes)

\* RTMP_ClientPacket: what a complete message changes in this layer.
HandleChangeChunkSize(p) ==
  inChunkSize' = IF p.type = CHUNK_SIZE /\ p.size >= 4 THEN DecodeInt(SubSeq(p.body, 1, 4))
                                                       ELSE inChunkSize
\* A Window Acknowledgement Size changes m_nServerBW alone (HandleServerBW), which
\* no report looks at.
HandleClientBW(p) ==
  clientBW' = IF p.type = CLIENTBW THEN DecodeInt(SubSeq(p.body, 1, 4)) ELSE clientBW

\* The message as RTMP_ClientPacket sees it; the history keeps of its stream id
\* and timestamp what the sender's headers let the receiver know.
Message(r) ==
  LET m == sent[r.channel][Len(got[r.channel]) + 1]
      Known(told, v) == IF told = -1 THEN -1 ELSE v IN
  [type |-> r.packet.type, body |-> r.packet.body,
   stream |-> Known(m.stream, r.packet.stream), stamp |-> Known(m.stamp, r.packet.stamp)]

Receive ==
  /\ wire # <<>> /\ ~lost
  /\ \E r \in {ReadPacket} : \E counts \in {ReadN(r.reads)} :
       /\ vecIn' = [vecIn EXCEPT ![r.channel] = r.kept]
       /\ stamp' = [stamp EXCEPT ![r.channel] = r.stamp]
       /\ packet' = [r.packet EXCEPT !.body = None]        \* RTMPPacket_Free
       /\ wire' = SubSeq(wire, r.used + 1, Len(wire))
       /\ chunks' = Tail(chunks)
       /\ lost' = (r.used # Head(chunks))
       /\ nBytesIn' = counts.in /\ nBytesInSent' = counts.acked /\ reports' = counts.reports
       /\ readBW' = clientBW
       /\ IF r.ready /\ r.used = Head(chunks)
          THEN /\ got' = [got EXCEPT ![r.channel] = Append(@, Message(r))]
               /\ HandleChangeChunkSize(r.packet) /\ HandleClientBW(r.packet)
               /\ stale' = (stale /\ r.packet.type # CHUNK_SIZE)
          ELSE UNCHANGED <<got, inChunkSize, clientBW, stale>>
  /\ UNCHANGED <<sender, acked, sent, repeated>>

-----------------------------------------------------------------------------
\* CloseInternal and a new connection.  The sizes of chunks and the bandwidth
\* are not reset; the new peer begins with the default ones.
Reset == [c \in Channels |-> None]
Fresh ==
  /\ vecOut' = Reset /\ sending' = Reset /\ outChunkSize' = DEFAULT_CHUNKSIZE
  /\ window' = CLIENT_BW /\ written' = 0 /\ acked' = 0
  /\ wire' = <<>> /\ chunks' = <<>> /\ reports' = <<>>
CloseInternal ==
  /\ vecIn' = Reset /\ stamp' = [c \in Channels |-> 0]
  /\ nBytesIn' = 0 /\ nBytesInSent' = 0
  /\ UNCHANGED <<inChunkSize, clientBW, readBW>>
  /\ packet' = Empty
Reconnect ==
  /\ connections < MaxReconnects /\ connections' = connections + 1
  /\ Fresh /\ CloseInternal
  /\ stale' = (inChunkSize # DEFAULT_CHUNKSIZE) /\ lost' = FALSE
  /\ repeated' = FALSE
  /\ sent' = got /\ UNCHANGED got

Init ==
  /\ vecOut = Reset /\ sending = Reset /\ outChunkSize = DEFAULT_CHUNKSIZE
  /\ window = CLIENT_BW /\ written = 0 /\ acked = 0
  /\ wire = <<>> /\ chunks = <<>> /\ reports = <<>>
  /\ vecIn = Reset /\ stamp = [c \in Channels |-> 0] /\ packet = Empty
  /\ inChunkSize = DEFAULT_CHUNKSIZE /\ clientBW = CLIENT_BW
  /\ nBytesIn = 0 /\ nBytesInSent = 0 /\ readBW = CLIENT_BW
  /\ sent = [c \in Channels |-> <<>>] /\ got = sent
  /\ stale = FALSE /\ repeated = FALSE /\ lost = FALSE /\ connections = 0

Next ==
  \/ (Receive \/ TakeReport \/ \E c \in Channels : SendMedia(c) \/ SendControl(c) \/ WriteN(c))
       /\ UNCHANGED connections
  \/ Reconnect

Spec == Init /\ [][Next]_vars

-----------------------------------------------------------------------------
(* Properties.                                                             *)

\* The receiver ends every chunk where the sender ended it, whatever the header
\* types, the extended timestamps and the changes of the chunk size.  It loses
\* the framing only on a connection that replaced another and kept its chunk
\* size (CloseInternal does not reset m_inChunkSize), or behind a MINIMUM header
\* that follows an extended timestamp: the sender leaves the four bytes out, the
\* receiver, whose record says 0xffffff, reads them.
Framed == lost => stale \/ repeated

\* The chunk layer implements the delivery of messages channel by channel: every
\* message arrives whole and in order, with the stream id its channel was told
\* last, and with its absolute timestamp unless a header said "the same
\* difference again" where the sender meant "the same timestamp".
Delivery == INSTANCE RtmpDelivery
Delivers == Delivery!Init /\ [][Delivery!Next]_(Delivery!vars)

\* Nothing is under way in either direction, and the server writes nothing:
\* because it has nothing left, or because its window is closed and it waits for a
\* bytes-read report.
Standing ==
  /\ wire = <<>> /\ reports = <<>>
  /\ \A c \in Channels : sending[c] = None \/ written - acked >= window

\* No standstill: when all stands, everything sent has arrived, unless the window
\* is no larger than what the client may leave unreported, a tenth of the
\* bandwidth it knew when it last read.  The code meets that exception in three
\* ways: a Window Acknowledgement Size changes the window, and the reports do not
\* look at it (HandleServerBW); a Set Peer Bandwidth cuts the bandwidth to a tenth,
\* and the report it calls for waits for the next ReadN, which waits for the server;
\* a new connection keeps the bandwidth of the old one (CloseInternal).  (Every
\* WriteN, Receive and TakeReport consumes what is under way, so messages once
\* begun arrive if these steps are taken at all.)
NoStandstill == Standing => got = sent \/ lost \/ window <= readBW \div 10
=============================================================================
