----------------------------- MODULE MCDownload -----------------------------
(* Instances of Download for TLC: limits of 0, 2 and 6 units, and a param   *)
(* whose size wraps to a limit of 2.                                        *)
EXTENDS Download

MCParams == {0, 1, 3, 9}
MCRooms == {0, 5, 20}
=============================================================================
