--------------------------- MODULE MCMessageCenter ---------------------------
(* Instances of MessageCenter for TLC. *)
EXTENDS MessageCenter, TLC

Symmetry == Permutations(Sessions) \cup Permutations(Names)
=============================================================================
