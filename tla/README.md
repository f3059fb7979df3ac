# StreamEval, specified

StreamEval is a FastCGI service that judges the quality of a live stream. A
request names a URL; the service records a piece of the stream (HTTP-FLV or
RTMP) into a file, or takes a file recorded before, parses it as FLV, extracts
the H.264 NAL units, computes statistics, and answers in JSON or text with a set
of error flags.

## Inventory

| part | source | state | operations |
|---|---|---|---|
| request loop | `main.cpp` | `mediaFile`, `resultFile`, `iRet` (declared outside the loop), a request's locals | accept, `Init`, naming, download or open, parse, report, cleanup |
| session | `StreamEval.cpp` | `s_vTagsInfo`, `s_H264File` (process-wide), the scratch file `H264_FILE_NAME` | `Init`, `UnInit`, `Stream2File`, `ParseMediaPackage`, `ParseMediaSlice`, `StreamEval`, `Format2Json`, `Format2Text` |
| recorder | `Stream2File.cpp` | bytes and time recorded, the HTTP callback's data | `RTMPStreamToFlv`, `HTTPStreamToFlv`, `StreamWriteCallback` |
| FLV parser | `FlvCheck.cpp` | read position, tag vector, scratch file | `ParseFlvFile`, `ParseHead`, `ParseBody`, `ParseBodyTag` (file and buffer variants) |
| FLV statistics | `FlvCheck.cpp` | `STATIC_INFO` | `FormatFlvTag2TagInfo`, `CheckFlvData` |
| NAL scanner | `StreamCheck.cpp` | read position, NAL buffer, static counters | `CheckBitStream`, `probeNALU`, `getAnnexbNALU`, `findFirstNALU`, `PrintNALInfo`, `PrintStreamInfo`, `CheckStreamDataInfo` |
| outlier check | `pauta.cpp` | none | `PautaCheck` |
| report | `StreamEval.cpp` | none (reads what the others left) | `StreamEval`, `Format2Json`, `Format2Text` |
| H.264 bit streams | `h264bitstream/` | the stream object: tables of parameter sets, the last unit's fields | `read_nal_unit`, `write_nal_unit`, `find_nal_unit`, `read_avcc` |
| RTMP chunks | `librtmp/rtmp.c` | per channel, the last packet in each direction; chunk sizes, byte counts | `RTMP_SendPacket`, `RTMP_ReadPacket`, `ReadN`, `CloseInternal` |
| RTMP files | `librtmp/rtmp.c`, `amf.c` | `m_read`, `m_write` | `Read_1_Packet`, `RTMP_Read`, `RTMP_Write`, AMF coding |
| RTMP session | `librtmp/rtmp.c`, `handshake.h` | commands under way, stream id, pause state, keys | `RTMP_Connect`, `RTMP_ConnectStream`, `RTMP_GetNextMediaPacket`, `HandleInvoke`, `HandleCtrl`, `RTMP_Close` |

The sources of librtmp and h264bitstream are part of the repository (a few lines
of them changed for this program) and carry most of its protocol logic, so they
are modelled like the rest. Of libcurl, libfcgi, jsoncpp and PCRE the repository
holds headers and binaries only. Left aside: an older `StreamEval.cpp` stored
under the name `'`, and `BitStreamCheck`, which the makefile builds from files
that are not in the repository; `StreamCheck.cpp` is its predecessor.

### How the parts interact

`main()` serves one request after the other in one thread; several processes
run in the same directory. Within a process the parts are plain calls:
`Stream2File` writes the media file, `ParseMediaPackage` rewinds and parses it
into `s_vTagsInfo` and the scratch file, `ParseMediaSlice` rewinds and scans the
scratch file, `StreamEval` and the formatters read what is left in memory. The
two channels that are not calls are where the difficulty lies: process-wide
variables survive from one request to the next, and files are shared by name
between processes. libcurl calls back (`StreamWriteCallback`) from inside
`curl_easy_perform`. librtmp does everything on
the caller's thread: `RTMP_Read` reads chunks, `RTMP_ClientPacket` handles what
is no media, and the handlers send commands, close the connection or open
another one from inside.

### What is hard, and what makes each part correct

| part | hard behaviour | correct when |
|---|---|---|
| session | `continue` paths that skip the cleanup; one fixed scratch name for all processes; media files named by the second; death at any point; a retry loop without a way out | nothing of an earlier request reaches a report; nothing is lost without an overlap; handles are accounted for; every request is answered |
| recorder | limits looked at only between reads or inside a callback; servers that stall, end or never stop; full disks; 32-bit products | recordings stop near their limit; what counts as good is whole |
| parser | recordings end at any byte, results of `fread` are ignored, sizes come from the data | tags and units come out whole, once, in order; a cut is reported or does no harm; the loops end |
| statistics | unsigned and signed differences of timestamps that jump, wrap and restart | lengths are those of the segments; what is reported happened |
| scanner | start codes of two lengths, reads past the end and in front of the buffer, counters and decoder state that survive a unit | every unit is found, once, with its bytes; the report is about this file |
| H.264 | elements present by other elements, sets kept from unit to unit, units cut anywhere | what a writer filled in is what a reader finds; cuts are refused; no unit holds a start code |
| RTMP chunks | headers that leave out what the receiver should know, chunk sizes that change, acknowledgement windows, new connections | every message arrives whole, in order, with its time; nobody waits for ever |
| RTMP files | buffers of any size, aggregates, resuming, metadata nested and cut | the bytes returned are the FLV file of the messages; publishing it gives the messages again |
| RTMP session | answers in any order, several senders of numbered commands, late notices of a stream before, pauses from four places, handlers that reconnect; a digest at either of two places | commands reach a server that can obey them; no hole in the stream; both ends agree on the keys; a session ends |

The hazards behind this table are listed one by one, with the line where each
bites, in `PROJECT.json`.

## Modules

| module | models |
|---|---|
| `Session`, `SessionProofs` | the request loop and session, all processes, the shared files; theorems |
| `Download`, `DownloadProofs` | the two recorders with server, clock and disk; theorems |
| `FlvFormat`, `FlvFormatProofs` | the FLV layout: what servers send (environment), where its units lie; lemmas: sequences, folds and `FlattenSeq`, the layout |
| `FlvParse`, `FlvParseProofs` | the parser that reads a `FILE*`; theorems |
| `FlvBuffer`, `FlvBufferProofs` | the parser that reads a buffer; theorems |
| `Demux` | the abstract specification both parsers implement |
| `FlvStat`, `FlvStatProofs` | the statistics over the tags' timestamps; theorems |
| `NalScan`, `NalScanProofs` | the scanner for NAL units and its report; theorems |
| `BitStream` | `bs.h`: the cursor over bits and the Exp-Golomb codes |
| `H264Syntax` | the syntax tables of `h264_stream.cpp`, each read and written by one definition |
| `H264Nal` | NAL units to RBSP and back, the stream object, `read_nal_unit` and `write_nal_unit` |
| `H264Codec` | a writer and a reader with a wire between them |
| `RtmpDelivery` | the abstract specification of a connection: messages by channel, in order |
| `RtmpChunk` | the chunk layer, which implements it |
| `Amf` | AMF0 and AMF3 |
| `RtmpRead` | `RTMP_Read` and `RTMP_Write` |
| `Handshake` | both sides of the handshake as operators |
| `RtmpClient`, `RtmpClientProofs` | a session: client, server, connection and caller; theorems, those of the handshake first |
| `MC...` | values of the constants for TLC; `MCFlvTags` holds the streams both parsers are run on |

Some definitions have a variant beside them that nothing uses, such as
`ReachedByTime` beside `Reached`: the form the definition would have if the code
had a plausible bug there. Each property named in a run fails when one such
variant takes its original's place; `PROJECT.json` pairs them.

How they fit together: `Download` takes `RTMP_Read` as one step, `RtmpRead` takes
`RTMP_GetNextMediaPacket` as "the next message", `RtmpClient` takes a message of
the chunk layer as one step, and `RtmpChunk` goes down to the bytes; each level
is checked for what the level above takes for granted. `RtmpRead` writes files in
the layout of `FlvFormat`, the one the parsers read, and `NalScan` reads its
units with `H264Nal`.

### Session

`pc[w]` is the place of process `w` in `main()`; the other variables are
`main()`'s (`media` is `mediaFile`, `stamp` the two file names, made from the
second and the retry suffix), those of `StreamEval.cpp` (`h264`, `tags`), and
the file system: `temp` is the inode the scratch name is linked to, so that a
process can write to a file another one has unlinked. Contents are sets of
requests, namely those that wrote since the last truncation. `overlap` and
`lost` are history variables; `overlap[w]` holds the requests that were active
at some time during `w`'s.

There is one action for each stretch of code between two calls that other
processes can see, and one for every early `continue`. `Exit` happens in any
state, between requests when `FCGI_Accept` fails and elsewhere by a signal;
`Restart` is external. `Fds` counts the descriptors of the media and scratch
files and, while it is open, that of `stdout`: `freopen` closes it before it
opens the result file, so a failed one, and `fclose(resultFile)` after a good one,
leave a descriptor free for other files. `OwnStep` is what `main()` does by
itself; `OpenMedia`, `OpenMediaRetry`, `Download` and `DownloadEnd` also depend on
the file system and the network.

### Download

`model` and `param` are the request's; `room` is what the disk can take. Phases
`connect` and `read` are the calls of librtmp under way: they return
(`RtmpPlaying`, `RtmpConnectFails`, `RtmpReceive`, `RtmpReadNothing`) or do not. One
read of the RTMP loop is `RtmpReceive` after `RtmpCheck`; one call of
`StreamWriteCallback` is `HttpReceive`, including libcurl's comparison of its
result with the chunk it passed. `size` is what the program counts, `received`
what came off the network. `Written` is what `fwrite` reports: on a full disk
stdio may take up to `StdioBuffer` bytes more than fit and report success (the
HTTP callback's `fflush` would notice, but its result is ignored, and so is
that of `fclose`). `Tick` is the clock, which runs while the libraries wait.

### FlvFormat, FlvParse, FlvBuffer, Demux

A stream is a sequence of tags, each a kind and the sizes of its parts;
`FlvFormat` lays it out in bytes. Tags are regular (what servers send,
and the parser is made for) or odd: another codec, a parameter record with the
extensions of the High profile, an empty audio tag, lengths that disagree. Payload
the parser reads as far as the lengths say and never looks at is the byte
`Filler`. The payload of H.263, which the file parser leaves unread and then looks
at for the size behind the tag, is given byte by byte, so it may be that size and
even be followed by a tag that is none (`Misleads`). `claiming` tags hold a NAL
unit whose length is any number of 32 bits.

`countsize` and the lengths in `FlvParse` are numbers below `Word`, 2^32 in the
program, and wrap. A length of 2^32 - 4 adds nothing to the counter (`Progress`), so
the loop writes a unit again and again, which `Recorded` keeps once; one of 2^32 - 1
allocates nothing (`Allocated`) and ends the model in phase `stray`.

`FlvParse` reads a recording cut at any byte. `Got`, `Behind` and `ReadInto` are
`fread` at the end of the file: a length read there keeps the high bytes of the
one before it. `FlvBuffer` reads a piece held in memory, cut at any byte and
with or without the FLV header. What lies behind the piece may be anything, so
a comparison with it is a free choice, and when `ParseBodyTag` would copy from
there the model stops in phase `stray`; `ReadsInside` says regular pieces never
lead there, and that what is copied are the first units of the piece, each
where it lies and all of it. `FLV_HEADER` occupies 12 bytes (its last field is aligned), which is
why `HeaderOK` looks at bytes 8 to 11.

The two variants differ in ways that matter: the file variant leaves a tag where
its contents end and relies on the PreviousTagSize behind it; the buffer variant
always moves by the tag's size, masks the filter bit out of the type only for the
test whether it is known, and refuses a tag that is not wholly there.

`Demux` is what both promise on regular streams: list a tag, copy its units
once each and in order, only then list the next; after damaging a unit, which
only the file variant does, do nothing but finish. The refinement maps the
number of listed tags and of intact units, and a stream with odd tags to an
empty one; `InStep` and `NothingSkipped` cover those.

### FlvStat

One action for an audio or video tag (the two branches of the code differ in
constants and names, listed at the head of the module), one for a script and
one for an unknown tag; `Check` is what follows the loop. `Sub` and `Add` are
the code's `int32_t` differences and `uint32_t` sums. `anchor` and `closed` are
history variables that say what the sums should be. A tag carries an action
when it is the first of a package the client parsed after one
(`FormatFlvTag2TagInfo`), at any point of the list therefore; `small` says that
a tag is below `MIN_FLV_TAGSIZE`.

### NalScan

`fp` and `eof` are the position of the file and stdio's indicator: `fgetc` at the
end yields 255 and only then sets the indicator, `fseek` clears it. `ahead` is
the byte in front of a buffer, which `findFirstNALU` reads for its first three
bytes. One action is one pass through a loop or the stretch between two reads
that can end differently. A scan ends with `Report`, which counts (`Count` is one
unit's `switch`) and copies the picture. A unit longer than the buffer ends the
model in `outside`. Reading a unit is `H264Nal`'s, given by the MC module as
constants, so that the scanner can be read without it.

### BitStream, H264Syntax, H264Nal, H264Codec

A cursor is a sequence of bits and a position that goes on behind the end, where
bits read as 0. A syntax structure is a table of parts; an element is its name,
its kind, its width and the flag that makes it present, and `read_parts` and
`write_parts` go through tables instead of the code's hundreds of assignments.
Where reader and writer of the code differ (the slice header's lists under
`#if 0`, the VUI and HRD writers) each has its table. `sps_t` declares one `int`
for each scaling list and the readers use it as an array: `ScalingLists` models
the cells as they lie over each other.

`H264Codec` lets one stream object fill and write units and another read them,
whole or with bytes lost at the end. `rbsp_to_nal` clears the header byte and
nothing sets it again, so whoever sends the unit must; `OnWire` does. What
`Init`, `Send...` and the like say is the environment.

### RtmpDelivery, RtmpChunk

The wire is bytes. `WriteN` sends one chunk of any channel with a packet under
way, so chunks interleave in every way; `Receive` is `RTMP_ReadPacket` to the end
of one chunk, with the `RTMP_ClientPacket` part for control messages. `BYTE`, the
number of values of a byte in an integer field, is a parameter: with 3 the
extended timestamp begins at 26 and times wrap at 81. The library sends and
receives only one way at a time in this program; here one end sends with
`RTMP_SendPacket` and the other receives with `RTMP_ReadPacket`, both as the code
has them. `Reconnect` is `CloseInternal` and a new connection. `Delivers` is the
refinement: channel by channel the messages arrive as they were sent, with their
stream id and absolute time. The two known departures are named in the history
variables: `repeated` (a MINIMUM header behind an extended timestamp leaves out
four bytes that the receiver reads) and `stale` (a connection begins with the
chunk size of the one before). The server's window follows Window Acknowledgement
Size and Set Peer Bandwidth; the client's reports follow the second only.
`readBW` is the bandwidth they went by when the client last read, and
`NoStandstill` says that the ends wait for each other only behind a window of at
most a tenth of it.

### Amf, RtmpRead

`Amf` decodes and encodes properties as the code does, with remaining sizes at
every level. In `RtmpRead` a call of `RTMP_Read` is one action, the messages of
the stream being the environment; `m` is `m_read`. `HoldBack` is the loop that
keeps messages until the types are known, `Read_1_Packet` the rest with its long
path through resumed recordings (`Resume`, `Search`, `Drop`), aggregates (`Fixed`)
and timestamps. `Unset` is a byte that nobody has written, as `RTMP_Read` returns
them behind an aggregate that ends inside its last PreviousTagSize; the property
`WholeTags` says how many and where (`Debris`).
`RTMP_Write` takes what `RTMP_Read` returned, in pieces that end anywhere, and
`warned` is how its last call ended: all of the piece taken, part of it, a header
forgotten, or a copy of a negative number of bytes. `File` says without the code
what bytes a recording consists of, and `Republished` what comes out of it again
up to the first call that ended badly. What such a call leads to is not followed.

### Handshake, RtmpClient

`Handshake` is algebraic: a digest is a record of who made it over what and where
it lies, a public key a record of its owner. The positions are computed as
`GetDigestOffset1` and the other three do, from the sums of random bytes.

In `RtmpClient` the client's state is that of `RTMP`; a handler is a function on
`q`, the client together with what it has sent, so that a handler that sends
several commands, closes and connects again is one step. The server answers each
command in every way a server may (success, refusal, in its own order), plays,
says `BufferEmpty`, or pings; the link may be `up`, `gone` (closed by the peer,
what was under way still arrives) or `reset`. `phase` is the place of the caller
in `RTMPStreamToFlv` or, for a publisher, in a program that uses `RTMP_Write`.
`early` and `stale` record the two situations in which the code does worse than
`NoGap` says, a status of the stream before taken for the new one's, and a pause
that goes by a time of the stream before. The server may answer every token of a
publisher with another challenge; `Room` is the number of tokens for which the
connect command fits into the 4096 bytes of `SendConnectPacket`, behind which
`RTMP_Connect1` closes.

## Runs

| run | question | bounds |
|---|---|---|
| `session_pair` | does anything stale reach a report when processes share names and die? | two processes, three requests, one second, three descriptors each |
| `session_alone` | does one process ever lose handles unaccounted for, run out of descriptors too soon, or stop answering? | three requests, three descriptors, a retry suffix up to 1 |
| `download` | are limits kept and losses reported? | `Modulus` 16 for 2^32, a K of 2, chunks up to 4, `CURLPAUSE_ALL` 3, params 0, 1, 3 and 9 (which wraps), rooms 0, 5, 20 |
| `flv_parse` | what becomes of every recording, however cut? is the file parser a demultiplexer? | pairs of 26 tags, seven of them misleading, triples of regular ones, cut at every byte; 2^30 for 2^32 |
| `flv_buffer` | what becomes of every piece, however cut? is the buffer parser a demultiplexer? | as `flv_parse`, starting at the FLV header or at a PreviousTagSize |
| `flv_stat` | do the statistics say what the timestamps say? | five tags, a clock of 16 ticks with five timestamps that jump, repeat and wrap |
| `stat_trap` | see findings | four tags |
| `h264_codec` | is what a writer fills in what a reader finds? | four units out of baseline, main and high parameter sets, slices, SEI, delimiters; 0, 1 or 6 bytes lost |
| `nal_scan` | are the units of a file found, and is the report about this file? | two scans; files of up to three units, all files of up to five bytes 0 or 1, files longer than the buffer |
| `rtmp_chunk` | does every message arrive, whole, in order and in time? | three messages on channels 2 and 320, bodies of 1 and 5 bytes in chunks of 4 and 7, times 3 and 70, bandwidths of 18, 200 and 1, a window of 1, one reconnection |
| `rtmp_read` | are the bytes returned the file of the messages, and the file published the messages? | streams of up to three messages, caller's buffers of 10, 37 and 200 bytes, `HEADERBUF` of 40 and 1000, pieces of 1, 14, 24 and 30 bytes and of all that is left |
| `rtmp_client` | does a session keep its promises, whatever the server answers? | three callers, three media messages, three messages under way, two turns of pausing or one fault, three tokens |

Why these are enough. In `Session` two processes are all an interference needs,
and the third request is the one that meets what two others left behind; one
second makes every name collide; with three descriptors a process can lose one
reply and still open what the next request needs, and starves behind the second. In
`Download` every limit has chunks that hit it and chunks that pass it, one
chunk as long as `CURLPAUSE_ALL` is big, one param wraps, and the cap `MaxSize`
lies behind every limit, so that a counter that has stopped is past what is
asked of it. In the parser all that connects a tag to the next is the position
and the last length read; two tags show every such connection, and the third
one shows that it stops there. 2^30, instead of 2^32, fits TLC's integers and lies as
far above every length and size of the streams. In `FlvStat` a segment, its reset and the segment
behind it take four tags of one kind; the fifth is the other kind's. In
`NalScan` a unit meets the one before it and the end of the file; three units
with an I frame at both ends close a group of pictures, and the second scan meets
what the first one left. In `H264Codec` a slice needs two parameter sets, and the
fourth unit is one that replaces a set in use. In `RtmpChunk` a header depends on
the message before it on its channel, and a MINIMUM header on the one before that:
three messages; channel 320 takes three bytes. The window of a new connection and those
announced lie on both sides of a tenth of the bandwidths. In `RtmpRead` the first message may
be held back, the second decides, the third comes after; the buffers end within a
tag header, within a tag, and behind everything; the pieces end within the FLV
header, within a tag's header and right behind it, within a body, before a
PreviousTagSize and behind it. In `RtmpClient` a pause has to
begin, be noticed and be undone within the messages, and what follows it must not
repeat: three messages; two turns let a second pause begin before the first is
over.

`CHECK_DEADLOCK FALSE` is set where the model may stop: `MaxReq` is served, a
recording is over, a file is parsed, the messages are used up. `rtmp_client`
checks for deadlock: a session that is over says so (`Over`).

### Fairness

- `Session`: the process keeps running (`OwnStep`). Nothing is assumed of
  arrivals, deaths and restarts, nor that a transfer ends (`DownloadEnd`) or that
  `fopen` of the media file ever succeeds (`OpenMedia`): libcurl and librtmp give
  no bound for the one, the loop of `main.cpp:113` asks no reason for the other.
  `Answered` names both as the ways a request may stay unanswered.
- `Download`: the process takes its own steps, and time passes. Nothing is assumed
  of the calls that wait for a server: librtmp's timeout of 30 s is one of each
  `recv`, and `RTMP_ConnectStream` and `RTMP_Read` go on as long as messages
  without media come (`rtmp.c:1111`, `:1183`); libcurl gets
  `CURLOPT_CONNECTTIMEOUT` only. `RtmpEnds` names a call that does not return as
  the exception.
- `FlvParse`: the process takes steps. Of the buffer parser only safety is checked: a
  turn of its loop takes at least four bytes of the piece or ends.
- `RtmpClient`: none. `Ends` says that no behaviour goes on for ever unless the
  server keeps it going; together with the absence of deadlock short of `Over`
  this is termination for every scheduler.

## Findings

`stat_trap`: the bit rate of a recording shorter than a second divides by zero,
behind a guard that looks at another value (`StreamEval.cpp:244`).

What the passing runs show is not always flattering either. A reply given up at
`freopen` costs a descriptor for good (`HandlesKept`), and when those are used up
the `fopen` loop never ends (the exception in `DescriptorsLast` and `Answered`);
nearly every cut recording counts as whole
(`CutsReported` of the file parser); SEI units are read and then always refused
(`CutsRefused`), for the reader looks for another message behind the last one;
a MINIMUM header repeats a difference where the sender means a timestamp
(`Delivers` makes the exception); `RTMP_Read` comes back to its caller, who holds
the limit, only when media comes (`RtmpEnds`, `Ends`); the loop over NAL units never
ends for one length (`Parsed`); H.263 payload that begins with the right four bytes
passes for the end of its tag (`Misleads` in `NothingSkipped`); client and server wait
for each other behind a window narrower than a tenth of the bandwidth
(`NoStandstill`), which a Window Acknowledgement Size, a Set Peer Bandwidth whose
report waits for the next read, or the bandwidth a new connection inherits can bring
about; a publisher's reconnections are ended by the length of the connect command
only (`Room`).

Other places where the code does not do what a comment or a name says, met while
modelling and visible in the modules:

- `FlvCheck.cpp:27` means to parse a recording without FLV header from its first
  byte; `ParseHead` has refused it before (`:76`). `FlvParse`'s `HeaderError`.
- `Stream2File.cpp:84`: `param * 1024` in 32 bits, for a `param` that
  `StreamEval.h:10` calls the size of the file; 2^22 wraps. `Download`'s `Limit`.
- `Stream2File.cpp:192`: a reached limit and a full disk are the same
  `CURLE_WRITE_ERROR`, and count as good. `PerformReturns`.
- `Stream2File.cpp:248`: the time limit of an HTTP recording is looked at in the
  callback only, so a server that falls silent is waited for without end.
- `FlvCheck.cpp:579`: "reset the status" leaves the last timestamps as they were,
  and sync is judged across the reset. `FlvStat`'s `Reset`.
- `StreamCheck.cpp:330`: `validPFrame` and `validBFrame` are not cleared between
  scans; only commented-out code reads them.
- `h264_stream.cpp:213` clears the first byte of a written unit, which is its
  header. `H264Nal`'s `Escaping`.
- `h264_avcc.cpp:52` allocates the table of picture parameter sets with the number
  of sequence parameter sets. `H264Nal`'s `read_avcc`, field `overrun`.
- `rtmp.c:4152`: `CloseInternal` leaves `m_inChunkSize` and `m_nClientBW` as they
  were. `RtmpChunk`'s `CloseInternal`.
- `rtmp.c:5101`, `:5166`: `RTMP_Write` asks for 11 bytes of the call, not of what
  is left of it, and a piece that ends in a tag's header makes the number of bytes to
  copy negative. One that ends right behind a header of audio or video forgets the
  header; one that ends in a PreviousTagSize returns less than it has taken.
  `RtmpRead`'s `Write`, whose fields `ret` and `end` say so.
- `rtmp.c:4900`: "we have to append a last tagSize!" (`:4896`) counts four bytes more
  also where one to three bytes of an aggregate's last PreviousTagSize are there, so
  as many bytes that nobody has written end up in the file, and every parser is out
  of step behind them. `Fixed` and `Debris`.
- `rtmp.c:4891`: the error for a corrupted aggregate is overwritten at `:4947`.
  `RtmpRead`'s `Fixed`; `Known` leaves such recordings out of the promise.
- `rtmp.c:3236`: `RTMP_FindPrefixProperty` looks into objects but not into ECMA
  arrays, although it is "like above" (`:3219`) and the function above looks into
  both; metadata is usually an ECMA array.
- `amf.c:371`, `:598` and `:1145`: AMF_NULL loses its name; of a nested AMF3 object
  the marker is skipped twice, so its first byte is lost; a member that fails to
  decode moves the pointer back by one.

## Proofs

All theorems hold for every value of the constants that satisfies the named
assumption of the module (`SessionAssumption`, `DownloadAssumption`,
`FlvStatAssumption`, `FlvBufferAssumption`, `FlvParseAssumption`, `NalScanAssumption`,
`RtmpClientAssumption`), which only give the constants their types, and of
`Download` that the clock's bound lies behind every time limit, of `Session` that a
process has descriptors for standard output and two files, and of `FlvParse` that a
word is wide enough for two sizes of three bytes (`Word > 2 * 2^24`). Those of the parsers
say that pieces are cut from sequences of any tags that can be laid out: any
number, every kind, bodies of any length that fits into the three bytes of a tag's
size, which is what lets a tag have a size at all. A parameter set may still be
longer than its two bytes can say; `U16` puts what does not fit into the first byte.

`SessionProofs`. The freshness properties are not inductive: that a scratch file
holds data of overlapping requests only depends on who may have it open. `IInv`
adds `Known` (any two requests being served are in each other's `overlap`),
`Handles` (which control states hold which handles and names), `ScratchFresh`
and `ResultFresh` (the same claim for the open files as for what was read from
them) and `Kept` (slices written are still there if nobody overlaps). A step
writes only its own request into a file (`OnlyOwnWrites`) and leaves the
locals of the others alone (`OthersStay`). From `IInv` follow `TypeCorrect`,
`NothingStale`, `NothingLostAlone`, `HandlesAccounted`; `GivenUpFirst` counts
descriptors with `LeakAccounting`, a conjunct of `HandlesKept`, and with `StdoutFreed`,
by which standard output is closed once a reply has been given up; `OneProcess` assumes a single worker.

`DownloadProofs`. `RtmpBounded` is not inductive by itself: `UnderLimit` adds
that a read is only reached from under the limit. `NothingLostYet` says that
an RTMP recording still counts as good only while what is counted is what came.
The theorems are `DownloadTypeCorrect`, `RtmpStopsInTime`, `HttpOverrunsByPause`
and `RtmpLossIsReported`.

`FlvStatProofs`. `SInv` gives types and `SegmentsFollowScript`. `RealLags`
shows that the guard in `Behind` keeps the unsigned difference `USub`, a
remainder, from wrapping (`GuardedSub`).
`Smooth` needs `Untouched` (no length before the first tag of a kind) and that
a difference that is neither a stutter nor a disorder lies below the stutter
limit (`SubSmall`), so that the sum cannot have wrapped. `Telescopes` is about sums
that do wrap: a wrapped difference added to a wrapped sum is the difference of the
timestamps, modulo the width (`AddSub`), which rests on a remainder being the
only number in its range that differs from the sum by a multiple (`ModUnique`). By
it the reported length of a recording is the sum of the spans of its segments.

The handshake, in `RtmpClientProofs`. There is no state; the theorems are about the operators that
`RtmpClient` steps with. `Layout`: whatever random bytes a signature holds, digest
and key lie inside it by either algorithm, apart from each other and from the
bytes their places are computed from, so that writing them moves nothing.
`Agreement`: client and server, with or without encryption and SWF verification
and wherever the server puts its digest, accept each other and end with keys
that fit crosswise. `EndsAgree`, below, is the same for a session that may fail
anywhere.

`NalScanProofs`. `UnitsAdvance` is `Advances` for files of any bytes and length,
buffers of any size and any decoder. The offsets are a sum of lengths and the
position in the file is moved by `fseek`, apart from each other. `Inv` ties both
to the buffer, which is the file from the offset on (`SoFar`), and says that
the scanner always stands in front of a start code or behind the end
(`ProbeInv`), so that the branch of `NoStartcode` that steps back by one is
never taken. That the rest of a unit is never empty needs that the third
byte of a short start code is 1: a long one cannot overlap it. `EveryUnitFound` and
`RefusalJustified` compare what was listed with the file as a whole. `FileInv` says
how far the comparison has come: up to the offset the units listed are the file
cut in front of every start code, and no start code lies in the buffer of
the unit being read but its own (`NoCutInside`), whatever bytes the file has.

`FlvBufferProofs`. The parser knows positions only, the properties speak of tags, and
between them is the layout: where `FlattenSeq` puts the tags (`AtIs`, from
`UptoGrows`), what the fields written with `U16`, `U24` and `U32` give when
`Big`, a fold, reads them again (`TwoBack`, `ThreeBack`, `FourBack`), where the
lengths and the units of a body lie (`NalusLie`, `ConfigLies`, `PlacesAre`). There is no
induction over data in the provers' reach, but induction over a set of numbers
is (`SetInduction` in `FlvFormatProofs`), and with it the steps of a fold can be gone
through one by one. `InStep` is not inductive, for in phases `nalu` and
`previous` nothing in it ties the position to the tags listed. `Where` does; its one
exception is a piece of less than twelve bytes, whose header is read from
behind it, and which is too short for a tag. It needs nothing of the tags'
contents. On regular tags `Rest` adds what has been copied: between tags the units
of all tags listed, amid a tag `k` more, with the counter and the pointer behind the
`k`th. The loop's condition, `countsize` below the tag's size, then means that
there is a unit left, and the check of the tag against the end of the piece
covers the unit (`UnitRead`). `Progress` is `Where` and `Rest`. From it follow
`ParserInStep` (`InStep`), `ParserReadsInside` (`ReadsInside`) and `ParserDemultiplexes`, the
refinement of `Demux`: the tag's units are owed from the step that lists it, or
copied in that step, and every other step pays one or changes nothing.

`FlvParseProofs`. This parser keeps its place only as long as what it reads agrees with
itself, and at the end of the file a length keeps bytes of the one before it. The
invariant `ParseInv` is therefore stated where the position can be known (`Telling`):
for a regular stream cut at any byte, and for any stream that is whole. `Where` says,
phase by phase, which tag is being read, how far into it the position is, that what
was listed are the tags in front of it, and that every tag before the last was read
to its end. Amid a tag's units position and `countsize` are tied together; at the end
of the file the tie is replaced by one to what is missing. A tag the
parser leaves early, at a place where another tag's end would be, has to be caught by the
four bytes it takes for the size of the tag: they are payload, the rest of a
parameter record, or a PreviousTagSize one byte off. The lemmas under `AstrayCaught` show
that the last two can never be that size, whatever the lengths, `U24` being below
2^24, and that H.263 payload is only if it says so, which is `Misleads`. From such a
tag on nothing is known of the position, and the theorem's exception takes over. From `ParseKnows` follow
`CutsAreReported` (`CutsReported`) and `NothingIsSkipped` (`NothingSkipped`).

`FileParserDemultiplexes` is the refinement of `Demux` by this parser. Unlike the other it
writes units it has only part of, so `Intact` counts how many of the copies, from the first,
are units as they are (`Agree` says it of a number, `IntactIs` that there is no
other). `DemuxInv` adds to `ParseInv`, for regular recordings, that the copies are in one of
two states. `Clean`: all are as they are, between tags those of all tags listed,
amid a tag `k` more, with `countsize` and the position behind the `k`th.
`Broken`: one is not, and the position is at the end of the file or behind it. A unit is
damaged only by a read that ends there (`OneCopied`, `SetsGood`); from then on every read is
empty, `CheckPrevious` cannot succeed, and no tag is listed again, whatever
stale lengths the loop still goes through (`MoreDamaged`). `UnitAhead` and `UnitsEnd`
show that a turn of the loop has a unit of the tag in front of it and that
the loop ends with the last. A parameter record is listed with both sets copied, or with
one or two of them owed and damaged (`TwoMore`). An odd recording
stands for an empty one (`OddSteps`), as the property has it.

`RtmpClientProofs`. The properties speak of what is under way, and that changes in
handlers that send several commands, close and connect again. So the invariant
`Inv` is made of operators of a client's fields, the two queues and the streams
alive at the server. Each operation a handler consists of (send, erase a call, close)
is shown to keep them, then each handler from any `q` that is `Good`, then each
action. The parts of `Inv`:

- `Numbers`: what is asked and what is answered carry a number each, no two the
  same, and the number of a command that waits still stands for it. It needs
  that calls are erased only with their answer, and that the call of a
  `play` may go early because no more than a note hangs on its result.
- `Obeyed` and `Held`: what is on its way to the server concerns streams that will
  still be there when it arrives. It is stated for the state behind everything
  under way, since a `deleteStream` may be on its way in front of a late `createStream`
  result: streams the client holds or is being told of are not among the deleted.
- `Publisher`: a publisher has asked nothing of a stream it does not hold, so that
  a notice cannot start a replay without one.
- `Greeting`, `Replying`, `Through`: the handshake, by what is in the two queues. Each
  message under way is one the `Handshake` operators made from the client's own, so
  that `Agreement` applies when it is read; afterwards the keys fit as
  soon as the server has read the response.
- `TurnedAway`: a session ended by the handshake had a server that was not genuine.

`SessionInvariant` is `Inv`. From it follow `ResultsFindCommands` (`ResultsMatch`),
`CommandsInOrder` (`InOrder`) and `EndsAgree` (`Agreed`), for every caller, every
draw of random bytes and every bound.

Model-checked only: liveness (`Answered`, `RtmpEnds`, `Parsed`, `Ends`), which is
out of the prover's reach; `ReportMatches` of the scanner, which counts over the
whole list of units; `NoGap` and `PausesEnd` of the session, which need the media
under way as well; the bit streams and the RTMP files, whose
modules have recursive operators; and the chunk layer.

## Not modelled

- The contents of reports, logging, error texts, JSON layout.
- Read errors other than the end of the file, and `malloc` returning NULL: both
  have one `return` each in the code.
- The dynamic model of `CheckFlvData` (model 1), which `main()` does not ask for.
- `PautaCheck` and `CheckStreamDataInfo`: the vectors of frame sizes they look at
  are cleared and never filled, so they have no behaviour in this program.
- Payload that the parsers do not look at: it is uniform in `FlvFormat`. Start
  codes and escapes in payload are `H264Codec`'s and `NalScan`'s.
- `h264_analyze.cpp`, `write_avcc` and the `debug_` printers of h264bitstream.
- Of librtmp: type 9 signatures with Blowfish and XTEA, RTMPT's polling and its
  sequence numbers, proxies, `parseurl.c`, `hashswf.c`, `RTMP_SendSeek`, the server
  side beyond the handshake. Hashes and ciphers are ideal.
- libcurl, FastCGI, jsoncpp and PCRE: no source in the repository.

## Plan

Done, in the order of importance: `Session`, `FlvStat` and `Download` with their
proofs, the two parsers with `Demux`, the scanner with h264bitstream below it,
librtmp from the chunk layer to the session with the handshake's theorems, the
scanner's units, the session's numbers, streams and keys, the buffer parser's place
in its piece and its refinement of `Demux`, what the file parser's verdict
means and its refinement of `Demux`. Next:

1. Proofs: `PausesEnd` and `NoGap` on top of
   `RtmpClientProofs`; invariants of `RtmpDelivery` (never more arrived than sent).
2. `Pipeline`: a recording from `RtmpRead` through `Download` and `FlvParse` to
   `FlvStat`, so that an end forced by a limit becomes a cut and a cut a verdict.
3. `parseurl.c` and `hashswf.c` as operators over small strings.
4. `FlvStat`: model 1. RTMPT's polling in `RtmpChunk`.
