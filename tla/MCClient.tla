----------------------------- MODULE MCClient -----------------------------
(* An inventory of two slots, a shop of one, and the smallest of lobbies. *)
EXTENDS Client, TLC

Cell(i, e) == [item |-> i, equipped |-> e]
Sword == Pictures!ItemTexture(11)
Shop(open, type) == [open |-> open, type |-> type, item |-> IF open THEN Sword ELSE None]
\* An open shop is a bank; a market differs in the commands only.
SomeUIs ==
  {[inventory |-> 0 :> Cell(Sword, FALSE) @@ 1 :> Cell(Sword, TRUE), shop |-> Shop(FALSE, "bank")],
   [inventory |-> 0 :> Cell(None, FALSE) @@ 1 :> Cell(Sword, FALSE), shop |-> Shop(TRUE, "bank")]}
\* Keys that the server may refuse to process, and that it may not.
SomeKeys == {Command("attack", <<>>), Command("move", <<"left">>)}
SomeLines ==
  {<<>>, <<Command("message", <<"name", "text">>)>>, <<Command("bank item", <<11>>), List>>}

\* No two items share a name or a picture.
ASSUME ItemsAreTold ==
  \A i \in Pictures!ItemIds : ItemNamed(Names[i]) = i /\ ItemOf(Pictures!ItemTexture(i)) = i
=============================================================================
