----------------------------- MODULE MCFlvBuffer -----------------------------
(* Instances of FlvBuffer for TLC.                                         *)
EXTENDS FlvBuffer, MCFlvTags
=============================================================================
