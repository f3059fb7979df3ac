-------------------------------- MODULE Demux --------------------------------
(***************************************************************************)
(* What a demultiplexer of FLV promises, whichever way it reads: it lists  *)
(* the tags of the stream and copies their NAL units, tag by tag, each     *)
(* unit once and in order, and copies all units of a tag before it lists   *)
(* the next.  At the end of what it was given it may damage units, but     *)
(* then it lists and copies nothing more.                                  *)
(***************************************************************************)
EXTENDS Integers, Sequences

VARIABLES
    counts,     \* how many units each tag of the stream carries
    listed,     \* how many tags have been listed
    owed,       \* how many units of those are still to be copied
    damaged,    \* whether a unit has been damaged
    finished

vars == <<counts, listed, owed, damaged, finished>>

Init ==
    /\ counts \in Seq(Nat)
    /\ listed = 0 /\ owed = 0
    /\ damaged = FALSE /\ finished = FALSE

Ready == ~finished /\ ~damaged

\* The next tag; the parser may stop with it.
ListTag ==
    /\ Ready /\ owed = 0
    /\ listed < Len(counts)
    /\ listed' = listed + 1
    /\ owed' = counts[listed + 1]
    /\ finished' \in BOOLEAN
    /\ UNCHANGED <<counts, damaged>>

\* A tag whose units are all copied, or damaged, in the same go.
ListAndCopy ==
    /\ Ready /\ owed = 0
    /\ listed < Len(counts)
    /\ listed' = listed + 1
    /\ owed' \in 0..counts[listed + 1]
    /\ damaged' = (owed' > 0)
    /\ UNCHANGED <<counts, finished>>

CopyUnit ==
    /\ Ready /\ owed > 0
    /\ owed' = owed - 1
    /\ UNCHANGED <<counts, listed, damaged, finished>>

Damage ==
    /\ Ready /\ owed > 0
    /\ damaged' = TRUE
    /\ UNCHANGED <<counts, listed, owed, finished>>

Finish ==
    /\ ~finished
    /\ finished' = TRUE
    /\ UNCHANGED <<counts, listed, owed, damaged>>

Next == ListTag \/ ListAndCopy \/ CopyUnit \/ Damage \/ Finish

Spec == Init /\ [][Next]_vars
=============================================================================
