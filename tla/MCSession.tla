------------------------------ MODULE MCSession ------------------------------
(* Instances of Session for TLC. *)
EXTENDS Session, TLC

\* Scratch inodes are interchangeable; workers are too when no property names
\* one of them.
Symmetry == Permutations(Inodes) \cup Permutations(Workers)
=============================================================================
