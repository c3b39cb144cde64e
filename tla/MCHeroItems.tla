----------------------------- MODULE MCHeroItems -----------------------------
(* Model-checking instance of HeroItems: the kinds of the items by name.    *)
EXTENDS HeroItems

CONSTANTS sword, staff, hood, potion, h1

KindOf == [i \in Items |-> CASE i = sword -> "weapon"
                             [] i = staff -> "staff"
                             [] i = hood -> "helmet"
                             [] OTHER -> "consumable"]
PriceOf == [i \in Items |-> 1]

\* Several items with the gold of a new hero, or the gold of several monsters
\* and null items with at most one item.
Explored ==
  \/ issued <= InitialGold /\ \A c \in Cells : missing[c] = 0
  \/ Cardinality(allocated) <= 1

=============================================================================
