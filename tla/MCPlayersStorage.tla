-------------------------- MODULE MCPlayersStorage --------------------------
(* Instances of PlayersStorage for TLC. *)
EXTENDS PlayersStorage, TLC

Symmetry == Permutations(Sessions) \cup Permutations(Names)
=============================================================================
