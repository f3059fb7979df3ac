---- MODULE MCRtmpChunk ----
EXTENDS RtmpChunk
\* A channel of one byte and one of three; a byte of four values, so that the
\* extended timestamp begins at 63 and timestamps wrap at 256.
TwoChannels == {2, 320}
Sizes == {1, 5}
Times == {3, 70}
Chunk == {7}
\* Of the larger bandwidth the client may leave 20 bytes unreported, more than the
\* window of a new connection (18); of that one it may leave 1, which is as much as
\* the smaller bandwidth and the window told apart from it.
Band == {200, 1}
Window == {1}
====
