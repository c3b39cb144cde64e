------------------------------ MODULE MCWorld ------------------------------
(* A corridor of five tiles: a priest, the town beside it, and three more. *)
EXTENDS World

ThePriest == {<<0, 0>>}
TheTown == {<<0, 1>>}
Rightwards == {<<0, 1>>}
=============================================================================
