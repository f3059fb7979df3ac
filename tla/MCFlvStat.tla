------------------------------ MODULE MCFlvStat ------------------------------
(* Instances of FlvStat for TLC: a byte-sized clock scaled down to 16. *)
EXTENDS FlvStat

MCTimes == {0, 1, 3, 9, 14}
MCStutter == [k \in Kinds |-> IF k = "audio" THEN 2 ELSE 3]
=============================================================================
