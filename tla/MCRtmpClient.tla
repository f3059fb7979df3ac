---------------------------- MODULE MCRtmpClient ----------------------------
(* Three callers: one of a live stream as the recorder of this program, with *)
(* every option of a live stream and SWF verification, one of a recorded    *)
(* stream with the BufferEmpty hack, and a publisher over RTMPE.            *)
EXTENDS RtmpClient

Plain == [write |-> FALSE, live |-> FALSE, plst |-> FALSE, bufx |-> FALSE, subscribe |-> FALSE,
          usher |-> FALSE, token |-> FALSE, user |-> FALSE, swf |-> FALSE, enc |-> FALSE]
Callers == {[Plain EXCEPT !.live = TRUE, !.usher = TRUE, !.token = TRUE, !.plst = TRUE,
                          !.swf = TRUE],
            [Plain EXCEPT !.bufx = TRUE],
            [Plain EXCEPT !.write = TRUE, !.user = TRUE, !.enc = TRUE]}

\* Two draws of random bytes, which put digests and keys at different places.
Draws == {[field \in SumFields |-> 700], [field \in SumFields |-> 1020]}
=============================================================================
