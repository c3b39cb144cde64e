------------------------------ MODULE MCHeroLife ------------------------------
EXTENDS HeroLife

Limits == [l \in Levels |-> 3 * l]
SomeStaffs == [id \in Sticks |-> [cost |-> 2, hp |-> 1]]
SomePotions == [id \in Consumables |-> IF id = 9 THEN [hp |-> 2, mana |-> 0]
                                                   ELSE [hp |-> 0, mana |-> 2]]
APriest == [hp |-> 3, mana |-> 3]
SomeFoes == {[level |-> 1, max_hp |-> 1], [level |-> 3, max_hp |-> 1]}
Prices == [id \in ItemIds |-> 8]
SafeGold == [l \in Levels |-> 8]

\* The two halves of the state only meet in death, meditation, potions and the
\* staff.  All of a hero's life, at full life or dead from its third level on, with its
\* kit or nothing, the staff in hand or not, with a potion or without; all that it may
\* carry and bank at its first level, at full life or dead.
Kit == NewThings("mage", NewGold)

Staffed == Exchanged(Kit, 16)

WholeOrDead == points \in {<<0, MaxMana(level)>>, <<MaxHp(level), MaxMana(level)>>}

Explored ==
  \/ level = 1 /\ experience = 0 /\ WholeOrDead /\ things.banked <= 16
  \/ /\ level <= 2 \/ WholeOrDead
     /\ \E t \in {Kit, Staffed, AddItem(Staffed, 10)}, items \in {things.items, Reverse(things.items)} :
          [things EXCEPT !.items = items] \in {t, [t EXCEPT !.items = <<>>]}
=============================================================================
