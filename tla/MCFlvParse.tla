----------------------------- MODULE MCFlvParse -----------------------------
(* Instances of FlvParse for TLC.                                          *)
EXTENDS FlvParse, MCFlvTags
=============================================================================
