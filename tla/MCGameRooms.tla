----------------------------- MODULE MCGameRooms -----------------------------
(* Model-checking instance of GameRooms: sessions and rooms are            *)
(* interchangeable, so both are symmetry sets in the safety runs.          *)
EXTENDS GameRooms, TLC

ASSUME PlacesAreRooms == Promise!PlacesDiffer

Symmetry == Permutations(Sessions) \cup Permutations(Rooms)

=============================================================================
