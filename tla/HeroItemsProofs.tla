--------------------------- MODULE HeroItemsProofs ---------------------------
(***************************************************************************)
(* Theorems about HeroItems for every set of heroes, cells and items, all  *)
(* capacities, prices and levels: where each item is, what a hero may      *)
(* carry and wear, what a ghost may not do, and that no coin is made or    *)
(* lost.                                                                   *)
(***************************************************************************)
EXTENDS HeroItems, FiniteSetTheorems, WellFoundedInduction, NaturalsInduction, TLAPS

-----------------------------------------------------------------------------
(* Places *)

\* No two names of places are the same place, and only a hero's own places
\* are its places.
LEMMA PlaceFacts ==
  /\ \A h \in Heroes : /\ {Inventory(h), Bank(h)} \subseteq Places \cap Purses
                       /\ PlacesOf(h) \subseteq Places
                       /\ {Inventory(h), Bank(h)} \subseteq PlacesOf(h)
                       /\ Inventory(h) # Bank(h)
  /\ \A h \in Heroes, s \in Slots : /\ Slot(h, s) \in PlacesOf(h)
                                    /\ Slot(h, s) # Inventory(h)
                                    /\ Slot(h, s) # Bank(h)
  /\ \A h \in Heroes, s, t \in Slots : Slot(h, s) = Slot(h, t) => s = t
  /\ \A c \in Cells : Floor(c) \in Places \cap Purses
  /\ \A c \in Cells, h \in Heroes : Floor(c) \notin PlacesOf(h)
  /\ \A g, h \in Heroes : g # h => PlacesOf(g) \cap PlacesOf(h) = {}
<1> USE DEF Inventory, Bank, Slot, Floor, PlacesOf
<1>1. ASSUME NEW h \in Heroes
      PROVE  /\ {Inventory(h), Bank(h)} \subseteq Places \cap Purses
             /\ PlacesOf(h) \subseteq Places
             /\ {Inventory(h), Bank(h)} \subseteq PlacesOf(h)
             /\ Inventory(h) # Bank(h)
  <2>1. PlacesOf(h) \subseteq Places /\ {Inventory(h), Bank(h)} \subseteq PlacesOf(h)
    BY DEF Places
  <2>2. Inventory(h)[1] = "inventory" /\ Bank(h)[1] = "bank"
    OBVIOUS
  <2> HIDE DEF Inventory, Bank, PlacesOf
  <2>3. QED
    BY <2>1, <2>2 DEF Purses
<1>2. ASSUME NEW h \in Heroes, NEW s \in Slots
      PROVE  /\ Slot(h, s) \in PlacesOf(h)
             /\ Slot(h, s) # Inventory(h)
             /\ Slot(h, s) # Bank(h)
  BY DEF Slots
<1>3. ASSUME NEW h \in Heroes, NEW s \in Slots, NEW t \in Slots,
             Slot(h, s) = Slot(h, t)
      PROVE  s = t
  BY <1>3
<1>4. ASSUME NEW c \in Cells
      PROVE  Floor(c) \in Places \cap Purses
  <2> HIDE DEF Floor, PlacesOf
  <2>1. Floor(c) \in {Floor(d) : d \in Cells}
    OBVIOUS
  <2>2. Floor(c)[1] = "floor"
    BY DEF Floor
  <2>3. Floor(c) \in Places
    BY <2>1, Zenon DEF Places
  <2>4. QED
    BY <2>2, <2>3 DEF Purses
<1>5. ASSUME NEW c \in Cells, NEW h \in Heroes
      PROVE  Floor(c) \notin PlacesOf(h)
  BY DEF Slots
<1>6. ASSUME NEW g \in Heroes, NEW h \in Heroes, g # h
      PROVE  PlacesOf(g) \cap PlacesOf(h) = {}
  BY <1>6
<1>7. QED
  BY <1>1, <1>2, <1>3, <1>4, <1>5, <1>6

-----------------------------------------------------------------------------
(* Moving sets of items between places *)

\* ItemHasOneOwner as an operator on what the places hold.
Owned(its, alloc) ==
  /\ \A p \in Places : its[p] \subseteq alloc
  /\ \A i \in alloc :
       \E p \in Places : /\ i \in its[p]
                         /\ \A q \in Places \ {p} : i \notin its[q]

Holdings == [Places -> SUBSET Items]

\* Two places have no item in common.
LEMMA PlacesDisjoint ==
  ASSUME NEW its \in Holdings, NEW alloc, Owned(its, alloc),
         NEW p \in Places, NEW q \in Places, p # q, NEW i \in its[p]
  PROVE  i \notin its[q]
BY DEF Owned

\* Items that go from one place to another keep one owner.
LEMMA TransferOwned ==
  ASSUME NEW its \in Holdings, NEW alloc, Owned(its, alloc),
         NEW p \in Places, NEW q \in Places, p # q,
         NEW X \in SUBSET its[p]
  PROVE  Owned([its EXCEPT ![p] = @ \ X, ![q] = @ \cup X], alloc)
<1> DEFINE new == [its EXCEPT ![p] = @ \ X, ![q] = @ \cup X]
<1>1. /\ new[p] = its[p] \ X
      /\ new[q] = its[q] \cup X
      /\ \A r \in Places \ {p, q} : new[r] = its[r]
  BY DEF Holdings
<1> HIDE DEF new
<1>2. \A r \in Places : new[r] \subseteq alloc
  <2>1. \A r \in Places : its[r] \subseteq alloc
    BY DEF Owned
  <2>2. QED
    BY <1>1, <2>1
<1>3. ASSUME NEW i \in alloc
      PROVE  \E r \in Places : /\ i \in new[r]
                               /\ \A t \in Places \ {r} : i \notin new[t]
  <2>1. PICK r \in Places : i \in its[r] /\ \A t \in Places \ {r} : i \notin its[t]
    BY DEF Owned
  <2>2. CASE i \in X
    <3>1. r = p
      BY <2>1, <2>2
    <3>2. i \in new[q] /\ \A t \in Places \ {q} : i \notin new[t]
      BY <1>1, <2>1, <2>2, <3>1
    <3>3. QED
      BY <3>2
  <2>3. CASE i \notin X
    <3>1. \A t \in Places : i \in new[t] <=> i \in its[t]
      BY <1>1, <2>3
    <3>2. QED
      BY <2>1, <3>1
  <2>4. QED
    BY <2>2, <2>3
<1>4. QED
  BY <1>2, <1>3 DEF Owned, new

\* New items have the owner they are given to.
LEMMA CreateOwned ==
  ASSUME NEW its \in Holdings, NEW alloc, Owned(its, alloc),
         NEW p \in Places, NEW X \in SUBSET Items, X \cap alloc = {}
  PROVE  Owned([its EXCEPT ![p] = @ \cup X], alloc \cup X)
<1> DEFINE new == [its EXCEPT ![p] = @ \cup X]
<1>1. new[p] = its[p] \cup X /\ \A r \in Places \ {p} : new[r] = its[r]
  BY DEF Holdings
<1>2. \A r \in Places : its[r] \subseteq alloc
  BY DEF Owned
<1> HIDE DEF new
<1>3. \A r \in Places : new[r] \subseteq alloc \cup X
  BY <1>1, <1>2
<1>4. ASSUME NEW i \in alloc \cup X
      PROVE  \E r \in Places : /\ i \in new[r]
                               /\ \A t \in Places \ {r} : i \notin new[t]
  <2>1. CASE i \in X
    <3>1. i \in new[p] /\ \A t \in Places \ {p} : i \notin new[t]
      BY <1>1, <1>2, <2>1
    <3>2. QED
      BY <3>1
  <2>2. CASE i \in alloc
    <3>1. PICK r \in Places : i \in its[r] /\ \A t \in Places \ {r} : i \notin its[t]
      BY <2>2 DEF Owned
    <3>2. i \notin X
      BY <2>2
    <3>3. \A t \in Places : i \in new[t] <=> i \in its[t]
      BY <1>1, <3>2
    <3>4. QED
      BY <3>1, <3>3
  <2>3. QED
    BY <2>1, <2>2
<1>5. QED
  BY <1>3, <1>4 DEF Owned, new

\* Items deleted where they are leave nothing behind.
LEMMA DeleteOwned ==
  ASSUME NEW its \in Holdings, NEW alloc, Owned(its, alloc),
         NEW p \in Places, NEW X \in SUBSET its[p]
  PROVE  Owned([its EXCEPT ![p] = @ \ X], alloc \ X)
<1> DEFINE new == [its EXCEPT ![p] = @ \ X]
<1>1. new[p] = its[p] \ X /\ \A r \in Places \ {p} : new[r] = its[r]
  BY DEF Holdings
<1> HIDE DEF new
<1>2. \A r \in Places : new[r] \subseteq alloc \ X
  <2>1. \A r \in Places : its[r] \subseteq alloc
    BY DEF Owned
  <2>2. \A r \in Places \ {p} : \A i \in X : i \notin its[r]
    BY PlacesDisjoint
  <2>3. QED
    BY <1>1, <2>1, <2>2
<1>3. ASSUME NEW i \in alloc \ X
      PROVE  \E r \in Places : /\ i \in new[r]
                               /\ \A t \in Places \ {r} : i \notin new[t]
  <2>1. PICK r \in Places : i \in its[r] /\ \A t \in Places \ {r} : i \notin its[t]
    BY DEF Owned
  <2>2. \A t \in Places : i \in new[t] <=> i \in its[t]
    BY <1>1
  <2>3. QED
    BY <2>1, <2>2
<1>4. QED
  BY <1>2, <1>3 DEF Owned, new

\* An item put on where another was: what was there returns to the inventory.
LEMMA SwapOwned ==
  ASSUME NEW its \in Holdings, NEW alloc, Owned(its, alloc),
         NEW inv \in Places, NEW slot \in Places, NEW other \in Places,
         slot # inv, other # inv, other # slot => its[slot] = {},
         NEW i \in its[inv]
  PROVE  Owned([its EXCEPT ![other] = {}, ![slot] = {i},
                           ![inv] = (@ \ {i}) \cup its[other]], alloc)
<1> DEFINE back == [its EXCEPT ![other] = @ \ its[other],
                               ![inv] = @ \cup its[other]]
           worn == [back EXCEPT ![inv] = @ \ {i}, ![slot] = @ \cup {i}]
           new  == [its EXCEPT ![other] = {}, ![slot] = {i},
                               ![inv] = (@ \ {i}) \cup its[other]]
<1>1. Owned(back, alloc)
  BY TransferOwned
<1>2. back \in Holdings /\ i \in back[inv]
  BY DEF Holdings
<1>3. Owned(worn, alloc)
  <2> HIDE DEF back
  <2>1. {i} \in SUBSET back[inv]
    BY <1>2
  <2>2. QED
    BY <1>1, <1>2, <2>1, TransferOwned
<1>4. i \notin its[other]
  BY PlacesDisjoint
<1>5. \A p \in Places : worn[p] = new[p]
  BY <1>4 DEF Holdings
<1>6. worn \in Holdings /\ new \in Holdings
  BY DEF Holdings
<1> HIDE DEF worn, new
<1>7. worn = new
  BY <1>5, <1>6 DEF Holdings
<1>8. QED
  BY <1>3, <1>7 DEF new

-----------------------------------------------------------------------------
(* Numbers *)

\* What a hero may carry is a number, and grows with its level.
LEMMA LimitFacts ==
  ASSUME NEW a \in Nat, NEW b \in Nat, a <= b
  PROVE  /\ SafeGold * a \in Nat
         /\ SafeGold * a + (SafeGold * a) \div 2 \in Nat
         /\ SafeGold * a <= SafeGold * b
         /\ SafeGold * a + (SafeGold * a) \div 2
              <= SafeGold * b + (SafeGold * b) \div 2
<1>1. SafeGold \in Nat
  BY ItemsAssumption
<1>2. SafeGold * a \in Nat /\ SafeGold * b \in Nat /\ SafeGold * a <= SafeGold * b
  BY <1>1
<1>3. ASSUME NEW m \in Nat, NEW n \in Nat, m <= n
      PROVE  m \div 2 \in Nat /\ m + m \div 2 <= n + n \div 2
  BY <1>3
<1>4. QED
  BY <1>2, <1>3

\* One item more where there was room for it.
LEMMA OneMoreFits ==
  ASSUME NEW S, IsFiniteSet(S), NEW x, NEW n \in Nat,
         Cardinality(S) <= n, Cardinality(S) # n
  PROVE  Cardinality(S \cup {x}) <= n
<1>1. Cardinality(S) \in Nat
  BY FS_CardinalityType
<1>2. Cardinality(S \cup {x}) =
        IF x \in S THEN Cardinality(S) ELSE Cardinality(S) + 1
  BY FS_AddElement, Zenon
<1>3. QED
  BY <1>1, <1>2

\* A place loses items.
LEMMA FewerFit ==
  ASSUME NEW S, IsFiniteSet(S), NEW T \in SUBSET S, NEW n \in Nat,
         Cardinality(S) <= n
  PROVE  Cardinality(T) <= n
<1>1. Cardinality(S) \in Nat /\ Cardinality(T) \in Nat
  BY FS_CardinalityType, FS_Subset
<1>2. QED
  BY <1>1, FS_Subset

\* One item of a place is exchanged for at most one other.
LEMMA SwapFits ==
  ASSUME NEW S, IsFiniteSet(S), NEW i \in S, NEW T, NEW n \in Nat,
         \A x, y \in T : x = y, Cardinality(S) <= n
  PROVE  Cardinality((S \ {i}) \cup T) <= n
<1>1. /\ IsFiniteSet(S \ {i})
      /\ Cardinality(S \ {i}) = Cardinality(S) - 1
      /\ Cardinality(S) \in Nat
  BY FS_RemoveElement, FS_CardinalityType
<1>2. CASE T = {}
  <2>1. (S \ {i}) \cup T = S \ {i}
    BY <1>2
  <2>2. QED
    BY <1>1, <2>1
<1>3. CASE T # {}
  <2>1. PICK x : x \in T
    BY <1>3
  <2>2. T = {x}
    BY <2>1
  <2>3. Cardinality((S \ {i}) \cup {x}) =
          IF x \in S \ {i} THEN Cardinality(S \ {i})
                           ELSE Cardinality(S \ {i}) + 1
    BY <1>1, FS_AddElement, Zenon
  <2>4. QED
    BY <1>1, <2>2, <2>3
<1>4. QED
  BY <1>2, <1>3

-----------------------------------------------------------------------------
(* The steps that move items, gold, and heroes *)

\* The steps of a hero that move items.
ItemStepOf(h) ==
  \/ \E i \in Items : \/ UseItem(h, i)    \/ DropItem(h, i)
                      \/ PickUpItem(h, i) \/ BuyItem(h, i)
                      \/ SellItem(h, i)   \/ BankItem(h, i)
                      \/ UnbankItem(h, i)
  \/ \E s \in Slots : Unequip(h, s)
  \/ \E c \in Cells, kit \in Kits : EnterGame(h, c, kit)
  \/ AddHeroDrop(h) \/ RemoveDeathHero(h)

ItemSteps ==
  \/ \E h \in Heroes : ItemStepOf(h)
  \/ \E c \in Cells, i \in Items, n \in 0..MonsterGold : AddMonsterDrop(c, i, n)

\* A step that is none of these leaves every item where it is.
LEMMA OtherSteps ==
  ASSUME [Next]_vars, ~ItemSteps
  PROVE  UNCHANGED <<items, allocated>>
<1> USE DEF belongings
<1>1. CASE UNCHANGED vars
  BY <1>1 DEF vars
<1>2. ASSUME NEW h \in Heroes, Commands(h)
      PROVE  UNCHANGED <<items, allocated>>
  <2>1. \/ \E n \in 1..MaxGold : BankGold(h, n) \/ UnbankGold(h, n)
        \/ DropNothing(h) \/ PickUpNothing(h) \/ PickUpGold(h)
        \/ Revive(h) \/ WaitToRevive(h) \/ Quit(h)
    BY <1>2 DEF Commands, ItemSteps, ItemStepOf
  <2>2. QED
    BY <2>1 DEF BankGold, UnbankGold, DropNothing, PickUpNothing, PickUpGold,
                Revive, WaitToRevive, Quit
<1>3. ASSUME NEW h \in Heroes, Travels(h) \/ Happens(h)
      PROVE  UNCHANGED <<items, allocated>>
  <2>1. \/ LeaveRoom(h) \/ LevelUp(h) \/ Die(h)
        \/ \E c \in Cells : \/ AddExistingHero(h, c) \/ TryToUnblock(h, c)
                            \/ AutoMove(h, c)
    BY <1>3 DEF Travels, Happens, ItemSteps, ItemStepOf
  <2>2. QED
    BY <2>1 DEF LeaveRoom, LevelUp, Die, AddExistingHero, TryToUnblock, AutoMove
<1>4. CASE GoOn \/ SendGameStatus \/ EndDrops \/ EndRemoval
  BY <1>4 DEF GoOn, SendGameStatus, EndDrops, EndRemoval
<1>5. QED
  BY <1>1, <1>2, <1>3, <1>4 DEF Next, ItemSteps
-----------------------------------------------------------------------------
(* Types *)

\* An acting hero is in the room, and its places are places.
LEMMA ActingFacts ==
  ASSUME TypeOK, NEW h \in InRoom
  PROVE  /\ position[h] \in Cells
         /\ Floor(position[h]) \in Places \cap Purses
         /\ Floor(position[h]) \notin PlacesOf(h)
BY PlaceFacts DEF InRoom

\* A move between two places keeps their types.
LEMMA MoveType ==
  ASSUME TypeOK, NEW i \in Items, NEW p \in Places, NEW q \in Places
  PROVE  Move(i, p, q) \in [Places -> SUBSET Items]
BY DEF TypeOK, Move

\* Gold that is there can be paid.
LEMMA PayType ==
  ASSUME TypeOK, NEW p \in Purses, NEW q \in Purses, p # q,
         NEW n \in Nat, n <= gold[p]
  PROVE  /\ Pay(n, p, q) \in [Purses -> Nat]
         /\ Pay(n, p, q)[p] = gold[p] - n
         /\ Pay(n, p, q)[q] = gold[q] + n
         /\ \A r \in Purses \ {p, q} : Pay(n, p, q)[r] = gold[r]
<1>1. gold[p] - n \in Nat /\ gold[q] + n \in Nat
  BY DEF TypeOK
<1>2. QED
  BY <1>1 DEF TypeOK, Pay

\* The quantities that bound what a hero carries.
LEMMA GoldTypes ==
  ASSUME TypeOK, NEW h \in Heroes
  PROVE  /\ MaxSafe(h) \in Nat
         /\ GoldLimit(h) \in Nat
         /\ MaxSafe(h) <= GoldLimit(h)
         /\ gold[Inventory(h)] \in Nat
         /\ gold[Bank(h)] \in Nat
         /\ GoldSpace(h) \in Nat
         /\ Excess(h) \in Nat
         /\ Excess(h) <= gold[Inventory(h)]
<1>1. level[h] \in Nat /\ level[h] <= level[h]
  BY DEF TypeOK
<1>2. MaxSafe(h) \in Nat /\ GoldLimit(h) \in Nat
  BY <1>1, LimitFacts DEF MaxSafe, GoldLimit
<1>3. MaxSafe(h) <= GoldLimit(h)
  BY <1>2 DEF GoldLimit
<1>4. gold[Inventory(h)] \in Nat /\ gold[Bank(h)] \in Nat
  BY PlaceFacts DEF TypeOK
<1>5. GoldSpace(h) \in Nat
  BY <1>2, <1>4, ItemsAssumption DEF GoldSpace
<1>6. Excess(h) \in Nat /\ Excess(h) <= gold[Inventory(h)]
  BY <1>2, <1>4 DEF Excess
<1>7. QED
  BY <1>2, <1>3, <1>4, <1>5, <1>6

LEMMA TypesKept ==
  ASSUME TypeOK, [Next]_vars
  PROVE  TypeOK'
<1> USE ItemsAssumption DEF belongings, heroState
<1>1. CASE UNCHANGED vars
  BY <1>1 DEF vars, TypeOK
<1>2. ASSUME NEW h \in Heroes, NEW i \in Items, UseItem(h, i)
      PROVE  TypeOK'
  <2>1. Kind[i] \in Slots => Slot(h, Kind[i]) \in Places
    BY PlaceFacts
  <2>2. /\ \A s \in Slots : Slot(h, s) \in Places
        /\ Inventory(h) \in Places
    BY PlaceFacts
  <2>3. items' \in [Places -> SUBSET Items]
    <3>1. CASE Kind[i] \in Hands /\ items' = InHand(h, i)
      <4>1. "staff" \in Slots /\ "weapon" \in Slots
        BY DEF Slots
      <4>2. QED
        BY <2>2, <3>1, <4>1 DEF TypeOK, InHand
    <3>2. CASE Kind[i] \in Slots \ Hands /\ items' = Worn(h, i)
      BY <2>2, <3>2 DEF TypeOK, Worn
    <3>3. CASE items' = [items EXCEPT ![Inventory(h)] = @ \ {i}]
      BY <2>2, <3>3 DEF TypeOK
    <3>4. QED
      BY <1>2, <3>1, <3>2, <3>3 DEF UseItem
  <2>4. allocated' \in SUBSET Items
    BY <1>2 DEF UseItem, TypeOK
  <2>5. QED
    BY <1>2, <2>3, <2>4 DEF UseItem, TypeOK
<1>3. ASSUME NEW h \in Heroes, NEW s \in Slots, Unequip(h, s)
      PROVE  TypeOK'
  <2>1. PICK i \in items[Slot(h, s)] : items' = Move(i, Slot(h, s), Inventory(h))
    BY <1>3 DEF Unequip
  <2>2. Slot(h, s) \in Places /\ Inventory(h) \in Places
    BY PlaceFacts
  <2>3. i \in Items
    BY <2>1, <2>2 DEF TypeOK
  <2>4. items' \in [Places -> SUBSET Items]
    BY <2>1, <2>2, <2>3, MoveType
  <2>5. QED
    BY <1>3, <2>4 DEF Unequip, TypeOK
<1>4. ASSUME NEW h \in Heroes, NEW i \in Items,
             \/ DropItem(h, i) \/ PickUpItem(h, i)
             \/ BankItem(h, i) \/ UnbankItem(h, i)
      PROVE  TypeOK'
  <2>1. h \in InRoom
    BY <1>4 DEF DropItem, PickUpItem, BankItem, UnbankItem, AtBank, Acting
  <2>2. {Inventory(h), Bank(h), Floor(position[h])} \subseteq Places
    BY <2>1, ActingFacts, PlaceFacts
  <2>3. items' \in [Places -> SUBSET Items]
    BY <1>4, <2>2, MoveType DEF DropItem, PickUpItem, BankItem, UnbankItem
  <2>4. QED
    BY <1>4, <2>3 DEF DropItem, PickUpItem, BankItem, UnbankItem, TypeOK
<1>5. ASSUME NEW h \in Heroes, DropNothing(h) \/ PickUpNothing(h)
      PROVE  TypeOK'
  <2>1. position[h] \in Cells
    BY <1>5 DEF DropNothing, PickUpNothing, Acting, InRoom
  <2>2. missing' \in [Cells -> 0..MaxMissing]
    <3>1. CASE DropNothing(h)
      <4>1. missing[position[h]] + 1 \in 0..MaxMissing
        BY <2>1, <3>1 DEF DropNothing, TypeOK
      <4>2. QED
        BY <3>1, <4>1 DEF DropNothing, TypeOK
    <3>2. CASE PickUpNothing(h)
      <4>1. missing[position[h]] - 1 \in 0..MaxMissing
        BY <2>1, <3>2 DEF PickUpNothing, TypeOK
      <4>2. QED
        BY <3>2, <4>1 DEF PickUpNothing, TypeOK
    <3>3. QED
      BY <1>5, <3>1, <3>2
  <2>3. QED
    BY <1>5, <2>2 DEF DropNothing, PickUpNothing, TypeOK
<1>6. ASSUME NEW h \in Heroes, PickUpGold(h)
      PROVE  TypeOK'
  <2> DEFINE floor == Floor(position[h])
             taken == IF gold[floor] < GoldSpace(h) THEN gold[floor]
                                                    ELSE GoldSpace(h)
  <2>1. /\ floor \in Purses /\ Inventory(h) \in Purses
        /\ floor # Inventory(h)
    BY <1>6, ActingFacts, PlaceFacts DEF PickUpGold, Acting
  <2>2. taken \in Nat /\ taken <= gold[floor]
    BY <2>1, GoldTypes DEF TypeOK
  <2>3. gold' = Pay(taken, floor, Inventory(h))
    BY <1>6 DEF PickUpGold
  <2> HIDE DEF floor, taken
  <2>4. gold' \in [Purses -> Nat]
    BY <2>1, <2>2, <2>3, PayType
  <2>5. QED
    BY <1>6, <2>4 DEF PickUpGold, TypeOK
<1>7. ASSUME NEW h \in Heroes, NEW n \in 1..MaxGold,
             BankGold(h, n) \/ UnbankGold(h, n)
      PROVE  TypeOK'
  <2>1. /\ Bank(h) \in Purses /\ Inventory(h) \in Purses
        /\ Bank(h) # Inventory(h) /\ n \in Nat
    BY PlaceFacts
  <2>2. gold[Inventory(h)] \in Nat /\ gold[Bank(h)] \in Nat
    BY GoldTypes
  <2>3. gold' \in [Purses -> Nat]
    <3>1. CASE BankGold(h, n)
      BY <2>1, <2>2, <3>1, PayType DEF BankGold
    <3>2. CASE UnbankGold(h, n)
      BY <2>1, <2>2, <3>2, PayType DEF UnbankGold
    <3>3. QED
      BY <1>7, <3>1, <3>2
  <2>4. QED
    BY <1>7, <2>3 DEF BankGold, UnbankGold, TypeOK
<1>8. ASSUME NEW h \in Heroes, NEW i \in Items, BuyItem(h, i) \/ SellItem(h, i)
      PROVE  TypeOK'
  <2>1. Inventory(h) \in Places \cap Purses
    BY PlaceFacts
  <2>2. /\ gold[Inventory(h)] \in Nat /\ Price[i] \in Nat /\ issued \in Int
    BY GoldTypes DEF TypeOK
  <2>3. CASE BuyItem(h, i)
    <3>1. gold[Inventory(h)] - Price[i] \in Nat /\ issued - Price[i] \in Int
      BY <2>2, <2>3 DEF BuyItem, HasGold
    <3>2. gold' \in [Purses -> Nat] /\ issued' \in Int
      BY <2>1, <2>3, <3>1 DEF BuyItem, TypeOK
    <3>3. items' \in [Places -> SUBSET Items] /\ allocated' \in SUBSET Items
      BY <2>1, <2>3 DEF BuyItem, TypeOK
    <3>4. QED
      BY <2>3, <3>2, <3>3 DEF BuyItem, TypeOK
  <2>4. CASE SellItem(h, i)
    <3>1. gold[Inventory(h)] + Price[i] \in Nat /\ issued + Price[i] \in Int
      BY <2>2
    <3>2. gold' \in [Purses -> Nat] /\ issued' \in Int
      BY <2>1, <2>4, <3>1 DEF SellItem, TypeOK
    <3>3. items' \in [Places -> SUBSET Items] /\ allocated' \in SUBSET Items
      BY <2>1, <2>4 DEF SellItem, TypeOK
    <3>4. QED
      BY <2>4, <3>2, <3>3 DEF SellItem, TypeOK
  <2>5. QED
    BY <1>8, <2>3, <2>4
<1>9. ASSUME NEW h \in Heroes, Revive(h) \/ WaitToRevive(h) \/ Quit(h) \/ Die(h)
      PROVE  TypeOK'
  BY <1>9 DEF Revive, WaitToRevive, Quit, Die, TypeOK
<1>10. ASSUME NEW h \in Heroes, LevelUp(h)
       PROVE  TypeOK'
  <2>1. level[h] + 1 \in Nat
    BY DEF TypeOK
  <2>2. QED
    BY <1>10, <2>1 DEF LevelUp, TypeOK
<1>11. ASSUME NEW h \in Heroes, NEW c \in Cells,
              TryToUnblock(h, c) \/ AutoMove(h, c) \/ AddExistingHero(h, c)
       PROVE  TypeOK'
  BY <1>11 DEF TryToUnblock, AutoMove, AddExistingHero, TypeOK
<1>12. ASSUME NEW h \in Heroes, LeaveRoom(h)
       PROVE  TypeOK'
  BY <1>12 DEF LeaveRoom, TypeOK
<1>13. ASSUME NEW h \in Heroes, NEW c \in Cells, NEW kit \in Kits,
              EnterGame(h, c, kit)
       PROVE  TypeOK'
  <2>1. Inventory(h) \in Places \cap Purses /\ kit \in SUBSET Items
    BY PlaceFacts DEF Kits
  <2>2. items' \in [Places -> SUBSET Items] /\ allocated' \in SUBSET Items
    BY <1>13, <2>1 DEF EnterGame, TypeOK
  <2>3. gold' \in [Purses -> Nat] /\ issued' \in Int
    BY <1>13, <2>1 DEF EnterGame, TypeOK
  <2>4. QED
    BY <1>13, <2>2, <2>3 DEF EnterGame, TypeOK
<1>14. ASSUME NEW c \in Cells, NEW i \in Items, NEW n \in 0..MonsterGold,
              AddMonsterDrop(c, i, n)
       PROVE  TypeOK'
  <2>1. Floor(c) \in Places \cap Purses
    BY PlaceFacts
  <2>2. items' \in [Places -> SUBSET Items] /\ allocated' \in SUBSET Items
    BY <1>14, <2>1 DEF AddMonsterDrop, TypeOK
  <2>3. gold[Floor(c)] + n \in Nat /\ issued + n \in Int
    BY <2>1 DEF TypeOK
  <2>4. gold' \in [Purses -> Nat] /\ issued' \in Int
    BY <1>14, <2>1, <2>3 DEF AddMonsterDrop, TypeOK
  <2>5. QED
    BY <1>14, <2>2, <2>4 DEF AddMonsterDrop, TypeOK
<1>15. ASSUME NEW h \in Heroes, AddHeroDrop(h)
       PROVE  TypeOK'
  <2>1. h \in InRoom
    BY <1>15 DEF AddHeroDrop, Fallen
  <2>2. /\ {Inventory(h), Floor(position[h])} \subseteq Places \cap Purses
        /\ Inventory(h) # Floor(position[h])
    BY <2>1, ActingFacts, PlaceFacts
  <2>3. items' \in [Places -> SUBSET Items]
    BY <1>15, <2>2 DEF AddHeroDrop, TypeOK
  <2>4. gold' \in [Purses -> Nat]
    BY <1>15, <2>2, GoldTypes, PayType DEF AddHeroDrop, ExcessDropped
  <2>5. QED
    BY <1>15, <2>3, <2>4 DEF AddHeroDrop, TypeOK
<1>16. ASSUME NEW h \in Heroes, RemoveDeathHero(h)
       PROVE  TypeOK'
  <2>1. items' \in [Places -> SUBSET Items] /\ allocated' \in SUBSET Items
    BY <1>16 DEF RemoveDeathHero, TypeOK
  <2>2. gold' \in [Purses -> Nat]
    BY <1>16, PlaceFacts DEF RemoveDeathHero, TypeOK
  <2>3. issued - gold[Inventory(h)] - gold[Bank(h)] \in Int
    BY GoldTypes DEF TypeOK
  <2>4. level' \in [Heroes -> Nat]
    BY <1>16 DEF RemoveDeathHero, TypeOK
  <2>5. position' \in [Heroes -> Cells \cup {Road, Outside}]
    BY <1>16 DEF RemoveDeathHero, TypeOK
  <2>6. QED
    BY <1>16, <2>1, <2>2, <2>3, <2>4, <2>5 DEF RemoveDeathHero, TypeOK
<1>17. CASE GoOn
  BY <1>17 DEF GoOn, NextPhase, TypeOK, Phases
<1>18. CASE SendGameStatus \/ EndDrops \/ EndRemoval
  BY <1>18 DEF SendGameStatus, EndDrops, EndRemoval, TypeOK, Phases
<1>19. QED
  BY <1>1, <1>2, <1>3, <1>4, <1>5, <1>6, <1>7, <1>8, <1>9, <1>10, <1>11, <1>12,
     <1>13, <1>14, <1>15, <1>16, <1>17, <1>18
     DEF Next, Commands, Travels, Happens
-----------------------------------------------------------------------------
(* Every item has one owner *)

\* What the slots of a hero's hands hold when it takes another weapon or staff.
LEMMA HandFacts ==
  ASSUME TypeOK, EquipmentIsLegal, NEW h \in Heroes, NEW i \in Items,
         Kind[i] \in Hands
  PROVE  \E t \in Hands :
           /\ InHand(h, i) =
                [items EXCEPT ![Slot(h, t)] = {}, ![Slot(h, Kind[i])] = {i},
                              ![Inventory(h)] = (@ \ {i}) \cup items[Slot(h, t)]]
           /\ Slot(h, t) # Slot(h, Kind[i]) => items[Slot(h, Kind[i])] = {}
           /\ \A u \in Hands : u = Kind[i] \/ u = t \/ items[Slot(h, u)] = {}
<1>1. \E s \in Hands : items[Slot(h, s)] = {}
  BY DEF EquipmentIsLegal
<1>2. Kind[i] = "weapon" \/ Kind[i] = "staff"
  BY DEF Hands
<1>3. CASE items[Slot(h, "staff")] # {}
  <2>1. items[Slot(h, "weapon")] = {}
    BY <1>1, <1>3 DEF Hands
  <2>2. "staff" \in Hands
    BY DEF Hands
  <2>3. Slot(h, "staff") # Slot(h, Kind[i]) => items[Slot(h, Kind[i])] = {}
    BY <1>2, <2>1
  <2>4. \A u \in Hands : u = Kind[i] \/ u = "staff" \/ items[Slot(h, u)] = {}
    BY <2>1 DEF Hands
  <2>5. QED
    BY <1>3, <2>2, <2>3, <2>4 DEF InHand
<1>4. CASE items[Slot(h, "staff")] = {}
  <2>1. "weapon" \in Hands
    BY DEF Hands
  <2>2. Slot(h, "weapon") # Slot(h, Kind[i]) => items[Slot(h, Kind[i])] = {}
    BY <1>2, <1>4
  <2>3. \A u \in Hands : u = Kind[i] \/ u = "weapon" \/ items[Slot(h, u)] = {}
    BY <1>4 DEF Hands
  <2>4. QED
    BY <1>4, <2>1, <2>2, <2>3 DEF InHand
<1>5. QED
  BY <1>3, <1>4

LEMMA OwnersKept ==
  ASSUME ItemsInv, [Next]_vars
  PROVE  ItemHasOneOwner'
<1> USE ItemsAssumption
<1>1. TypeOK /\ Owned(items, allocated) /\ items \in Holdings
  BY DEF ItemsInv, ItemHasOneOwner, Owned, TypeOK, Holdings
<1>2. SUFFICES Owned(items', allocated')
  BY DEF ItemHasOneOwner, Owned
<1>3. ASSUME NEW i \in Items, NEW p \in Places, NEW q \in Places, p # q,
             i \in items[p], items' = Move(i, p, q), allocated' = allocated
      PROVE  Owned(items', allocated')
  <2>1. {i} \in SUBSET items[p]
    BY <1>3
  <2>2. Owned([items EXCEPT ![p] = @ \ {i}, ![q] = @ \cup {i}], allocated)
    BY <1>1, <1>3, <2>1, TransferOwned
  <2>3. QED
    BY <1>3, <2>2 DEF Move
<1>4. ASSUME NEW h \in Heroes, NEW i \in Items, UseItem(h, i)
      PROVE  Owned(items', allocated')
  <2>1. /\ Inventory(h) \in Places /\ i \in items[Inventory(h)]
        /\ \A s \in Slots : Slot(h, s) \in Places /\ Slot(h, s) # Inventory(h)
    BY <1>4, PlaceFacts DEF UseItem
  <2>2. CASE Kind[i] \in Hands /\ items' = InHand(h, i) /\ UNCHANGED allocated
    <3>1. PICK t \in Hands :
             /\ InHand(h, i) =
                  [items EXCEPT ![Slot(h, t)] = {}, ![Slot(h, Kind[i])] = {i},
                                ![Inventory(h)] = (@ \ {i}) \cup items[Slot(h, t)]]
             /\ Slot(h, t) # Slot(h, Kind[i]) => items[Slot(h, Kind[i])] = {}
      BY <1>1, <2>2, HandFacts DEF ItemsInv
    <3>2. t \in Slots /\ Kind[i] \in Slots
      BY <2>2 DEF Hands, Slots
    <3>3. Owned(InHand(h, i), allocated)
      <4> DEFINE slot == Slot(h, Kind[i])
                 other == Slot(h, t)
      <4>1. /\ slot \in Places /\ slot # Inventory(h)
            /\ other \in Places /\ other # Inventory(h)
            /\ other # slot => items[slot] = {}
        BY <2>1, <3>1, <3>2
      <4>2. InHand(h, i) = [items EXCEPT ![other] = {}, ![slot] = {i},
                              ![Inventory(h)] = (@ \ {i}) \cup items[other]]
        BY <3>1
      <4> HIDE DEF slot, other
      <4>3. Owned([items EXCEPT ![other] = {}, ![slot] = {i},
                                ![Inventory(h)] = (@ \ {i}) \cup items[other]],
                  allocated)
        BY <1>1, <2>1, <4>1, SwapOwned
      <4>4. QED
        BY <4>2, <4>3
    <3>4. QED
      BY <2>2, <3>3
  <2>3. CASE /\ Kind[i] \in Slots \ Hands /\ items' = Worn(h, i)
             /\ UNCHANGED allocated
    <3> DEFINE slot == Slot(h, Kind[i])
    <3>1. slot \in Places /\ slot # Inventory(h)
      BY <2>1, <2>3
    <3>2. Owned([items EXCEPT ![slot] = {}, ![slot] = {i},
                              ![Inventory(h)] = (@ \ {i}) \cup items[slot]],
                allocated)
      <4> HIDE DEF slot
      <4>1. QED
        BY <1>1, <2>1, <3>1, SwapOwned
    <3>3. Worn(h, i) = [items EXCEPT ![slot] = {}, ![slot] = {i},
                              ![Inventory(h)] = (@ \ {i}) \cup items[slot]]
      BY <1>1, <2>1, <3>1 DEF Worn, Holdings
    <3>4. QED
      BY <2>3, <3>2, <3>3
  <2>4. CASE /\ items' = [items EXCEPT ![Inventory(h)] = @ \ {i}]
             /\ allocated' = allocated \ {i}
    <3>1. {i} \in SUBSET items[Inventory(h)]
      BY <2>1
    <3>2. QED
      BY <1>1, <2>1, <2>4, <3>1, DeleteOwned
  <2>5. QED
    BY <1>4, <2>2, <2>3, <2>4 DEF UseItem
<1>5. ASSUME NEW h \in Heroes, NEW s \in Slots, Unequip(h, s)
      PROVE  Owned(items', allocated')
  <2>1. PICK i \in items[Slot(h, s)] : items' = Move(i, Slot(h, s), Inventory(h))
    BY <1>5 DEF Unequip
  <2>2. /\ Slot(h, s) \in Places /\ Inventory(h) \in Places
        /\ Slot(h, s) # Inventory(h)
    BY PlaceFacts
  <2>3. i \in Items
    BY <1>1, <2>1, <2>2 DEF Holdings
  <2>4. allocated' = allocated
    BY <1>5 DEF Unequip
  <2>5. QED
    BY <1>3, <2>1, <2>2, <2>3, <2>4
<1>6. ASSUME NEW h \in Heroes, NEW i \in Items,
             \/ DropItem(h, i) \/ PickUpItem(h, i)
             \/ BankItem(h, i) \/ UnbankItem(h, i)
      PROVE  Owned(items', allocated')
  <2>1. h \in InRoom
    BY <1>6 DEF DropItem, PickUpItem, BankItem, UnbankItem, AtBank, Acting
  <2>2. /\ {Inventory(h), Bank(h), Floor(position[h])} \subseteq Places
        /\ Inventory(h) # Bank(h)
        /\ Inventory(h) # Floor(position[h])
    BY <1>1, <2>1, ActingFacts, PlaceFacts
  <2>3. QED
    BY <1>3, <1>6, <2>2 DEF DropItem, PickUpItem, BankItem, UnbankItem
<1>7. ASSUME NEW h \in Heroes, NEW i \in Items, BuyItem(h, i)
      PROVE  Owned(items', allocated')
  <2>1. Inventory(h) \in Places /\ {i} \in SUBSET Items /\ {i} \cap allocated = {}
    BY <1>7, PlaceFacts DEF BuyItem
  <2>2. QED
    BY <1>1, <1>7, <2>1, CreateOwned DEF BuyItem
<1>8. ASSUME NEW h \in Heroes, NEW i \in Items, SellItem(h, i)
      PROVE  Owned(items', allocated')
  <2>1. Inventory(h) \in Places /\ {i} \in SUBSET items[Inventory(h)]
    BY <1>8, PlaceFacts DEF SellItem
  <2>2. QED
    BY <1>1, <1>8, <2>1, DeleteOwned DEF SellItem
<1>9. ASSUME NEW h \in Heroes, NEW c \in Cells, NEW kit \in Kits,
             EnterGame(h, c, kit)
      PROVE  Owned(items', allocated')
  <2>1. /\ Inventory(h) \in Places /\ kit \in SUBSET Items
        /\ kit \cap allocated = {}
    BY <1>9, PlaceFacts DEF EnterGame, Kits
  <2>2. items[Inventory(h)] = {}
    BY <1>9, PlaceFacts DEF EnterGame, ItemsInv, NothingOutside
  <2>3. items' = [items EXCEPT ![Inventory(h)] = @ \cup kit]
    BY <1>9, <2>2 DEF EnterGame
  <2>4. allocated' = allocated \cup kit
    BY <1>9 DEF EnterGame
  <2>5. QED
    BY <1>1, <2>1, <2>3, <2>4, CreateOwned
<1>10. ASSUME NEW c \in Cells, NEW i \in Items, NEW n \in 0..MonsterGold,
              AddMonsterDrop(c, i, n)
       PROVE  Owned(items', allocated')
  <2>1. Floor(c) \in Places /\ {i} \in SUBSET Items /\ {i} \cap allocated = {}
    BY <1>10, PlaceFacts DEF AddMonsterDrop
  <2>2. QED
    BY <1>1, <1>10, <2>1, CreateOwned DEF AddMonsterDrop
<1>11. ASSUME NEW h \in Heroes, AddHeroDrop(h)
       PROVE  Owned(items', allocated')
  <2> DEFINE inv == Inventory(h)
             floor == Floor(position[h])
  <2>1. h \in InRoom
    BY <1>11 DEF AddHeroDrop, Fallen
  <2>2. inv \in Places /\ floor \in Places /\ inv # floor
    BY <1>1, <2>1, ActingFacts, PlaceFacts
  <2>3. items' = [items EXCEPT ![inv] = {}, ![floor] = @ \cup items[inv]]
    BY <1>11 DEF AddHeroDrop
  <2> HIDE DEF inv, floor
  <2>4. items' = [items EXCEPT ![inv] = @ \ items[inv],
                               ![floor] = @ \cup items[inv]]
    BY <1>1, <2>2, <2>3 DEF Holdings
  <2>5. items[inv] \in SUBSET items[inv]
    OBVIOUS
  <2>6. Owned(items', allocated)
    BY <1>1, <2>2, <2>4, <2>5, TransferOwned
  <2>7. QED
    BY <1>11, <2>6 DEF AddHeroDrop
<1>12. ASSUME NEW h \in Heroes, RemoveDeathHero(h)
       PROVE  Owned(items', allocated')
  <2> DEFINE gone == UNION {items[p] : p \in PlacesOf(h)}
  <2>1. /\ \A p \in PlacesOf(h) : p \in Places /\ items'[p] = {}
        /\ \A p \in Places \ PlacesOf(h) : items'[p] = items[p]
        /\ allocated' = allocated \ gone
    BY <1>12, PlaceFacts DEF RemoveDeathHero
  <2>2. \A i : i \in gone <=> \E p \in PlacesOf(h) : i \in items[p]
    OBVIOUS
  <2> HIDE DEF gone
  <2>3. ASSUME NEW p \in Places
        PROVE  items'[p] \subseteq allocated'
    <3>1. CASE p \in PlacesOf(h)
      BY <2>1, <3>1
    <3>2. CASE p \notin PlacesOf(h)
      <4>1. items'[p] = items[p] /\ items[p] \subseteq allocated
        BY <1>1, <2>1, <3>2 DEF Owned
      <4>2. \A i \in items[p] : i \notin gone
        BY <1>1, <2>1, <2>2, <3>2, PlacesDisjoint
      <4>3. QED
        BY <2>1, <4>1, <4>2
    <3>3. QED
      BY <3>1, <3>2
  <2>4. ASSUME NEW i \in allocated'
        PROVE  \E p \in Places : /\ i \in items'[p]
                                 /\ \A q \in Places \ {p} : i \notin items'[q]
    <3>1. i \in allocated /\ i \notin gone
      BY <2>1
    <3>2. PICK p \in Places : /\ i \in items[p]
                             /\ \A q \in Places \ {p} : i \notin items[q]
      BY <1>1, <3>1 DEF Owned
    <3>3. p \notin PlacesOf(h)
      BY <2>2, <3>1, <3>2
    <3>4. i \in items'[p] /\ \A q \in Places \ {p} : i \notin items'[q]
      BY <2>1, <3>2, <3>3
    <3>5. QED
      BY <3>4
  <2>5. QED
    BY <2>3, <2>4 DEF Owned
<1>13. CASE ~ItemSteps
  BY <1>1, <1>13, OtherSteps
<1>14. QED
  BY <1>4, <1>5, <1>6, <1>7, <1>8, <1>9, <1>10, <1>11, <1>12, <1>13
     DEF ItemSteps, ItemStepOf
-----------------------------------------------------------------------------
(* Capacities *)

\* A hero's step moves no item of another hero.
LEMMA OthersKeepItems ==
  ASSUME TypeOK, NEW h \in Heroes, ItemStepOf(h),
         NEW g \in Heroes, g # h, NEW p \in PlacesOf(g)
  PROVE  items'[p] = items[p]
<1>1. /\ p \in Places /\ p \notin PlacesOf(h)
      /\ \A c \in Cells : p # Floor(c)
      /\ {Inventory(h), Bank(h)} \subseteq PlacesOf(h)
      /\ \A s \in Slots : Slot(h, s) \in PlacesOf(h)
  BY PlaceFacts
<1>2. items \in [Places -> SUBSET Items]
  BY DEF TypeOK
<1>3. ASSUME NEW i \in Items, UseItem(h, i)
      PROVE  items'[p] = items[p]
  <2>1. "staff" \in Slots /\ "weapon" \in Slots
    BY DEF Slots
  <2>2. CASE Kind[i] \in Hands /\ items' = InHand(h, i)
    BY <1>1, <1>2, <2>1, <2>2 DEF InHand, Hands
  <2>3. CASE Kind[i] \in Slots \ Hands /\ items' = Worn(h, i)
    BY <1>1, <1>2, <2>3 DEF Worn
  <2>4. CASE items' = [items EXCEPT ![Inventory(h)] = @ \ {i}]
    BY <1>1, <1>2, <2>4
  <2>5. QED
    BY <1>3, <2>2, <2>3, <2>4 DEF UseItem
<1>4. ASSUME NEW i \in Items, BuyItem(h, i) \/ SellItem(h, i)
      PROVE  items'[p] = items[p]
  BY <1>1, <1>2, <1>4 DEF BuyItem, SellItem
<1>5. ASSUME NEW i \in Items,
             \/ DropItem(h, i) \/ PickUpItem(h, i)
             \/ BankItem(h, i) \/ UnbankItem(h, i)
      PROVE  items'[p] = items[p]
  <2>1. position[h] \in Cells
    BY <1>5 DEF DropItem, PickUpItem, BankItem, UnbankItem, AtBank, Acting, InRoom
  <2>2. QED
    BY <1>1, <1>2, <1>5, <2>1 DEF DropItem, PickUpItem, BankItem, UnbankItem, Move
<1>6. ASSUME NEW s \in Slots, Unequip(h, s)
      PROVE  items'[p] = items[p]
  BY <1>1, <1>2, <1>6 DEF Unequip, Move
<1>7. ASSUME NEW c \in Cells, NEW kit \in Kits, EnterGame(h, c, kit)
      PROVE  items'[p] = items[p]
  BY <1>1, <1>2, <1>7 DEF EnterGame
<1>8. CASE AddHeroDrop(h)
  <2>1. position[h] \in Cells
    BY <1>8 DEF AddHeroDrop, Fallen, InRoom
  <2>2. QED
    BY <1>1, <1>2, <1>8, <2>1 DEF AddHeroDrop
<1>9. CASE RemoveDeathHero(h)
  BY <1>1, <1>9 DEF RemoveDeathHero
<1>10. QED
  BY <1>3, <1>4, <1>5, <1>6, <1>7, <1>8, <1>9 DEF ItemStepOf

LEMMA FiniteHoldings ==
  ASSUME TypeOK, NEW p \in Places
  PROVE  IsFiniteSet(items[p])
<1>1. items[p] \in SUBSET Items
  BY DEF TypeOK
<1>2. QED
  BY <1>1, ItemsAssumption, FS_Subset

\* The inventory and the bank of one hero.
Fits(h) == /\ Cardinality(items[Inventory(h)]) <= InventorySize
           /\ Cardinality(items[Bank(h)]) <= BankSize

LEMMA CapacityKept ==
  ASSUME ItemsInv, [Next]_vars
  PROVE  WithinCapacity'
<1> USE ItemsAssumption
<1>1. TypeOK /\ EquipmentIsLegal /\ \A h \in Heroes : Fits(h)
  BY DEF ItemsInv, WithinCapacity, Fits
<1>2. ASSUME NEW h \in Heroes,
             items'[Inventory(h)] \subseteq items[Inventory(h)],
             items'[Bank(h)] \subseteq items[Bank(h)]
      PROVE  Fits(h)'
  <2>1. IsFiniteSet(items[Inventory(h)]) /\ IsFiniteSet(items[Bank(h)])
    BY <1>1, PlaceFacts, FiniteHoldings
  <2>2. InventorySize \in Nat /\ BankSize \in Nat
    BY ItemsAssumption
  <2>3. Cardinality(items'[Inventory(h)]) <= InventorySize
    BY <1>1, <1>2, <2>1, <2>2, FewerFit DEF Fits
  <2>4. Cardinality(items'[Bank(h)]) <= BankSize
    BY <1>1, <1>2, <2>1, <2>2, FewerFit DEF Fits
  <2>5. QED
    BY <2>3, <2>4 DEF Fits
<1>3. ASSUME NEW h \in Heroes, ItemStepOf(h)
      PROVE  Fits(h)'
  <2>1. /\ {Inventory(h), Bank(h)} \subseteq Places
        /\ Inventory(h) # Bank(h)
        /\ \A s \in Slots : /\ Slot(h, s) \in Places
                            /\ Slot(h, s) # Inventory(h)
                            /\ Slot(h, s) # Bank(h)
        /\ \A c \in Cells : Floor(c) # Inventory(h) /\ Floor(c) # Bank(h)
        /\ items \in [Places -> SUBSET Items]
    BY <1>1, PlaceFacts DEF TypeOK
  <2>2. /\ IsFiniteSet(items[Inventory(h)]) /\ IsFiniteSet(items[Bank(h)])
        /\ InventorySize \in Nat /\ BankSize \in Nat
    BY <1>1, <2>1, FiniteHoldings
  <2>3. ASSUME NEW i \in Items, NEW s \in Slots, i \in items[Inventory(h)],
               items'[Inventory(h)] =
                 (items[Inventory(h)] \ {i}) \cup items[Slot(h, s)],
               items'[Bank(h)] = items[Bank(h)]
        PROVE  Fits(h)'
    <3>1. \A x, y \in items[Slot(h, s)] : x = y
      BY <1>1 DEF EquipmentIsLegal
    <3>2. Cardinality(items'[Inventory(h)]) <= InventorySize
      <4>1. Cardinality(items[Inventory(h)]) <= InventorySize
        BY <1>1 DEF Fits
      <4>2. Cardinality((items[Inventory(h)] \ {i}) \cup items[Slot(h, s)])
              <= InventorySize
        <5> DEFINE inv == items[Inventory(h)]
                   old == items[Slot(h, s)]
        <5>1. /\ IsFiniteSet(inv) /\ i \in inv /\ \A x, y \in old : x = y
              /\ Cardinality(inv) <= InventorySize /\ InventorySize \in Nat
          BY <2>2, <2>3, <3>1, <4>1
        <5> HIDE DEF inv, old
        <5>2. Cardinality((inv \ {i}) \cup old) <= InventorySize
          BY <5>1, SwapFits
        <5>3. QED
          BY <5>2 DEF inv, old
      <4>3. QED
        BY <2>3, <4>2
    <3>3. QED
      BY <1>1, <2>3, <3>2 DEF Fits
  <2>4. ASSUME NEW i \in Items, ~IsFull(h),
               items'[Inventory(h)] = items[Inventory(h)] \cup {i},
               items'[Bank(h)] \subseteq items[Bank(h)]
        PROVE  Fits(h)'
    <3>1. Cardinality(items'[Inventory(h)]) <= InventorySize
      <4>1. /\ Cardinality(items[Inventory(h)]) <= InventorySize
            /\ Cardinality(items[Inventory(h)]) # InventorySize
        BY <1>1, <2>4 DEF Fits, IsFull
      <4>2. Cardinality(items[Inventory(h)] \cup {i}) <= InventorySize
        BY <2>2, <4>1, OneMoreFits
      <4>3. QED
        BY <2>4, <4>2
    <3>2. Cardinality(items'[Bank(h)]) <= BankSize
      BY <1>1, <2>2, <2>4, FewerFit DEF Fits
    <3>3. QED
      BY <3>1, <3>2 DEF Fits
  <2>5. ASSUME NEW i \in Items, UseItem(h, i)
        PROVE  Fits(h)'
    <3>1. i \in items[Inventory(h)]
      BY <2>5 DEF UseItem
    <3>2. CASE Kind[i] \in Hands /\ items' = InHand(h, i)
      <4>1. PICK t \in Hands : InHand(h, i) =
              [items EXCEPT ![Slot(h, t)] = {}, ![Slot(h, Kind[i])] = {i},
                            ![Inventory(h)] = (@ \ {i}) \cup items[Slot(h, t)]]
        BY <1>1, <3>2, HandFacts
      <4>2. t \in Slots /\ Kind[i] \in Slots
        BY <3>2 DEF Hands, Slots
      <4>3. /\ items'[Inventory(h)] =
                 (items[Inventory(h)] \ {i}) \cup items[Slot(h, t)]
            /\ items'[Bank(h)] = items[Bank(h)]
        BY <2>1, <3>2, <4>1, <4>2
      <4>4. QED
        BY <2>3, <3>1, <4>2, <4>3
    <3>3. CASE Kind[i] \in Slots \ Hands /\ items' = Worn(h, i)
      <4>1. /\ items'[Inventory(h)] =
                 (items[Inventory(h)] \ {i}) \cup items[Slot(h, Kind[i])]
            /\ items'[Bank(h)] = items[Bank(h)]
        BY <2>1, <3>3 DEF Worn
      <4>2. QED
        BY <2>3, <3>1, <3>3, <4>1
    <3>4. CASE items' = [items EXCEPT ![Inventory(h)] = @ \ {i}]
      BY <1>2, <2>1, <3>4
    <3>5. QED
      BY <2>5, <3>2, <3>3, <3>4 DEF UseItem
  <2>6. ASSUME NEW s \in Slots, Unequip(h, s)
        PROVE  Fits(h)'
    <3>1. PICK i \in items[Slot(h, s)] : items' = Move(i, Slot(h, s), Inventory(h))
      BY <2>6 DEF Unequip
    <3>2. i \in Items
      BY <2>1, <3>1
    <3>3. /\ items'[Inventory(h)] = items[Inventory(h)] \cup {i}
          /\ items'[Bank(h)] = items[Bank(h)]
      BY <2>1, <3>1 DEF Move
    <3>4. QED
      BY <2>4, <2>6, <3>2, <3>3 DEF Unequip
  <2>7. ASSUME NEW i \in Items, DropItem(h, i) \/ SellItem(h, i)
        PROVE  Fits(h)'
    <3>1. position[h] \in Cells
      BY <2>7 DEF DropItem, SellItem, Acting, InRoom
    <3>2. QED
      BY <1>2, <2>1, <2>7, <3>1 DEF DropItem, SellItem, Move
  <2>8. ASSUME NEW i \in Items, PickUpItem(h, i) \/ BuyItem(h, i) \/ UnbankItem(h, i)
        PROVE  Fits(h)'
    <3>1. position[h] \in Cells
      BY <2>8 DEF PickUpItem, BuyItem, UnbankItem, AtBank, Acting, InRoom
    <3>2. /\ ~IsFull(h)
          /\ items'[Inventory(h)] = items[Inventory(h)] \cup {i}
          /\ items'[Bank(h)] \subseteq items[Bank(h)]
      BY <2>1, <2>8, <3>1 DEF PickUpItem, BuyItem, UnbankItem, Move
    <3>3. QED
      BY <2>4, <3>2
  <2>9. ASSUME NEW i \in Items, BankItem(h, i)
        PROVE  Fits(h)'
    <3>1. /\ items'[Inventory(h)] \subseteq items[Inventory(h)]
          /\ items'[Bank(h)] = items[Bank(h)] \cup {i}
      BY <2>1, <2>9 DEF BankItem, Move
    <3>2. Cardinality(items'[Bank(h)]) <= BankSize
      BY <1>1, <2>2, <2>9, <3>1, OneMoreFits DEF Fits, BankItem, BankIsFull
    <3>3. Cardinality(items'[Inventory(h)]) <= InventorySize
      BY <1>1, <2>2, <3>1, FewerFit DEF Fits
    <3>4. QED
      BY <3>2, <3>3 DEF Fits
  <2>10. ASSUME NEW c \in Cells, NEW kit \in Kits, EnterGame(h, c, kit)
         PROVE  Fits(h)'
    <3>1. items'[Inventory(h)] = kit /\ items'[Bank(h)] = items[Bank(h)]
      BY <2>1, <2>10 DEF EnterGame
    <3>2. IsFiniteSet(kit) /\ Cardinality(kit) <= KitSize
      BY FS_Subset DEF Kits
    <3>3. Cardinality(kit) \in Nat /\ KitSize \in Nat /\ KitSize <= InventorySize
      BY <3>2, FS_CardinalityType
    <3>4. Cardinality(kit) <= InventorySize
      BY <2>2, <3>2, <3>3
    <3>5. QED
      BY <1>1, <3>1, <3>4 DEF Fits
  <2>11. CASE AddHeroDrop(h)
    <3>1. position[h] \in Cells
      BY <2>11 DEF AddHeroDrop, Fallen, InRoom
    <3>2. QED
      BY <1>2, <2>1, <2>11, <3>1 DEF AddHeroDrop
  <2>12. CASE RemoveDeathHero(h)
    BY <1>2, <2>12, PlaceFacts DEF RemoveDeathHero
  <2>13. QED
    BY <1>3, <2>5, <2>6, <2>7, <2>8, <2>9, <2>10, <2>11, <2>12 DEF ItemStepOf
<1>4. ASSUME NEW g \in Heroes
      PROVE  Fits(g)'
  <2>1. {Inventory(g), Bank(g)} \subseteq PlacesOf(g)
    BY PlaceFacts
  <2>2. ASSUME NEW h \in Heroes, ItemStepOf(h)
        PROVE  Fits(g)'
    <3>1. CASE g = h
      BY <1>3, <2>2, <3>1
    <3>2. CASE g # h
      BY <1>1, <1>2, <2>1, <2>2, <3>2, OthersKeepItems
    <3>3. QED
      BY <3>1, <3>2
  <2>3. ASSUME NEW c \in Cells, NEW i \in Items, NEW n \in 0..MonsterGold,
               AddMonsterDrop(c, i, n)
        PROVE  Fits(g)'
    <3>1. /\ items'[Inventory(g)] = items[Inventory(g)]
          /\ items'[Bank(g)] = items[Bank(g)]
      BY <1>1, <2>1, <2>3, PlaceFacts DEF AddMonsterDrop, TypeOK
    <3>2. QED
      BY <1>2, <3>1
  <2>4. CASE ~ItemSteps
    BY <1>2, <2>4, OtherSteps
  <2>5. QED
    BY <2>2, <2>3, <2>4 DEF ItemSteps
<1>5. QED
  BY <1>4 DEF WithinCapacity, Fits
-----------------------------------------------------------------------------
(* Equipment *)

\* What one hero wears.
WearsLegally(h) ==
  /\ \A s \in Slots : \A i, j \in items[Slot(h, s)] : i = j /\ Kind[i] = s
  /\ \E s \in Hands : items[Slot(h, s)] = {}

LEMMA EquipmentKept ==
  ASSUME ItemsInv, [Next]_vars
  PROVE  EquipmentIsLegal'
<1> USE ItemsAssumption
<1>1. TypeOK /\ EquipmentIsLegal /\ \A h \in Heroes : WearsLegally(h)
  BY DEF ItemsInv, EquipmentIsLegal, WearsLegally
<1>2. ASSUME NEW h \in Heroes,
             \A s \in Slots : items'[Slot(h, s)] \subseteq items[Slot(h, s)]
      PROVE  WearsLegally(h)'
  <2>1. \A s \in Slots : \A i, j \in items'[Slot(h, s)] : i = j /\ Kind[i] = s
    BY <1>1, <1>2 DEF WearsLegally
  <2>2. PICK s \in Hands : items[Slot(h, s)] = {}
    BY <1>1 DEF WearsLegally
  <2>3. s \in Slots
    BY DEF Hands, Slots
  <2>4. items'[Slot(h, s)] = {}
    BY <1>2, <2>2, <2>3
  <2>5. QED
    BY <2>1, <2>4 DEF WearsLegally
<1>3. ASSUME NEW h \in Heroes, ItemStepOf(h)
      PROVE  WearsLegally(h)'
  <2>1. /\ {Inventory(h), Bank(h)} \subseteq Places
        /\ \A s \in Slots : /\ Slot(h, s) \in Places
                            /\ Slot(h, s) # Inventory(h)
                            /\ Slot(h, s) # Bank(h)
        /\ \A s, u \in Slots : Slot(h, s) = Slot(h, u) => s = u
        /\ \A c \in Cells, s \in Slots : Floor(c) # Slot(h, s)
        /\ items \in [Places -> SUBSET Items]
    BY <1>1, PlaceFacts DEF TypeOK
  <2>2. ASSUME NEW i \in Items, UseItem(h, i)
        PROVE  WearsLegally(h)'
    <3>1. CASE Kind[i] \in Hands /\ items' = InHand(h, i)
      <4>1. PICK t \in Hands :
              /\ InHand(h, i) =
                   [items EXCEPT ![Slot(h, t)] = {}, ![Slot(h, Kind[i])] = {i},
                                 ![Inventory(h)] = (@ \ {i}) \cup items[Slot(h, t)]]
              /\ \A u \in Hands : u = Kind[i] \/ u = t \/ items[Slot(h, u)] = {}
        BY <1>1, <3>1, HandFacts
      <4>2. t \in Slots /\ Kind[i] \in Slots /\ Hands \subseteq Slots
        BY <3>1 DEF Hands, Slots
      <4>3. /\ items'[Slot(h, Kind[i])] = {i}
            /\ t # Kind[i] => items'[Slot(h, t)] = {}
            /\ \A s \in Slots \ {t, Kind[i]} : items'[Slot(h, s)] = items[Slot(h, s)]
        BY <2>1, <3>1, <4>1, <4>2
      <4>4. ASSUME NEW s \in Slots, NEW j \in items'[Slot(h, s)],
                   NEW k \in items'[Slot(h, s)]
            PROVE  j = k /\ Kind[j] = s
        <5>1. CASE s = Kind[i]
          BY <4>3, <4>4, <5>1
        <5>2. CASE s # Kind[i]
          BY <1>1, <4>3, <4>4, <5>2 DEF WearsLegally
        <5>3. QED
          BY <5>1, <5>2
      <4>5. \E s \in Hands : items'[Slot(h, s)] = {}
        <5>1. PICK s \in Hands : s # Kind[i]
          BY DEF Hands
        <5>2. items'[Slot(h, s)] = {}
          BY <4>1, <4>2, <4>3, <5>1
        <5>3. QED
          BY <5>2
      <4>6. QED
        BY <4>4, <4>5 DEF WearsLegally
    <3>2. CASE Kind[i] \in Slots \ Hands /\ items' = Worn(h, i)
      <4>1. /\ items'[Slot(h, Kind[i])] = {i}
            /\ \A s \in Slots \ {Kind[i]} : items'[Slot(h, s)] = items[Slot(h, s)]
        BY <2>1, <3>2 DEF Worn
      <4>2. ASSUME NEW s \in Slots, NEW j \in items'[Slot(h, s)],
                   NEW k \in items'[Slot(h, s)]
            PROVE  j = k /\ Kind[j] = s
        <5>1. CASE s = Kind[i]
          BY <4>1, <4>2, <5>1
        <5>2. CASE s # Kind[i]
          BY <1>1, <4>1, <4>2, <5>2 DEF WearsLegally
        <5>3. QED
          BY <5>1, <5>2
      <4>3. PICK s \in Hands : items[Slot(h, s)] = {}
        BY <1>1 DEF WearsLegally
      <4>4. s \in Slots \ {Kind[i]}
        BY <3>2, <4>3 DEF Hands, Slots
      <4>5. items'[Slot(h, s)] = {}
        BY <4>1, <4>3, <4>4
      <4>6. QED
        BY <4>2, <4>5 DEF WearsLegally
    <3>3. CASE items' = [items EXCEPT ![Inventory(h)] = @ \ {i}]
      BY <1>2, <2>1, <3>3
    <3>4. QED
      BY <2>2, <3>1, <3>2, <3>3 DEF UseItem
  <2>3. ASSUME NEW s \in Slots, Unequip(h, s)
        PROVE  WearsLegally(h)'
    <3>1. PICK i \in items[Slot(h, s)] : items' = Move(i, Slot(h, s), Inventory(h))
      BY <2>3 DEF Unequip
    <3>2. \A u \in Slots : items'[Slot(h, u)] \subseteq items[Slot(h, u)]
      BY <2>1, <3>1 DEF Move
    <3>3. QED
      BY <1>2, <3>2
  <2>4. ASSUME NEW i \in Items,
               \/ DropItem(h, i) \/ PickUpItem(h, i) \/ BankItem(h, i)
               \/ UnbankItem(h, i) \/ BuyItem(h, i) \/ SellItem(h, i)
        PROVE  WearsLegally(h)'
    <3>1. position[h] \in Cells
      BY <2>4 DEF DropItem, PickUpItem, BankItem, UnbankItem, BuyItem, SellItem,
                  AtBank, Acting, InRoom
    <3>2. \A u \in Slots : items'[Slot(h, u)] = items[Slot(h, u)]
      BY <2>1, <2>4, <3>1 DEF DropItem, PickUpItem, BankItem, UnbankItem, BuyItem,
                              SellItem, Move
    <3>3. QED
      BY <1>2, <3>2
  <2>5. ASSUME NEW c \in Cells, NEW kit \in Kits, EnterGame(h, c, kit)
        PROVE  WearsLegally(h)'
    BY <1>2, <2>1, <2>5 DEF EnterGame
  <2>6. CASE AddHeroDrop(h)
    <3>1. position[h] \in Cells
      BY <2>6 DEF AddHeroDrop, Fallen, InRoom
    <3>2. QED
      BY <1>2, <2>1, <2>6, <3>1 DEF AddHeroDrop
  <2>7. CASE RemoveDeathHero(h)
    BY <1>2, <2>1, <2>7, PlaceFacts DEF RemoveDeathHero
  <2>8. QED
    BY <1>3, <2>2, <2>3, <2>4, <2>5, <2>6, <2>7 DEF ItemStepOf
<1>4. ASSUME NEW g \in Heroes
      PROVE  WearsLegally(g)'
  <2>1. \A s \in Slots : Slot(g, s) \in PlacesOf(g) /\ Slot(g, s) \in Places
    BY PlaceFacts
  <2>2. ASSUME NEW h \in Heroes, ItemStepOf(h)
        PROVE  WearsLegally(g)'
    <3>1. CASE g = h
      BY <1>3, <2>2, <3>1
    <3>2. CASE g # h
      BY <1>1, <1>2, <2>1, <2>2, <3>2, OthersKeepItems
    <3>3. QED
      BY <3>1, <3>2
  <2>3. ASSUME NEW c \in Cells, NEW i \in Items, NEW n \in 0..MonsterGold,
               AddMonsterDrop(c, i, n)
        PROVE  WearsLegally(g)'
    <3>1. \A s \in Slots : items'[Slot(g, s)] = items[Slot(g, s)]
      BY <1>1, <2>1, <2>3, PlaceFacts DEF AddMonsterDrop, TypeOK
    <3>2. QED
      BY <1>2, <3>1
  <2>4. CASE ~ItemSteps
    BY <1>2, <2>4, OtherSteps
  <2>5. QED
    BY <2>2, <2>3, <2>4 DEF ItemSteps
<1>5. QED
  BY <1>4 DEF EquipmentIsLegal, WearsLegally

-----------------------------------------------------------------------------
(* Gold *)

\* The steps of a hero that change its gold or its level.
GoldStepOf(h) ==
  \/ \E i \in Items : BuyItem(h, i) \/ SellItem(h, i)
  \/ \E n \in 1..MaxGold : BankGold(h, n) \/ UnbankGold(h, n)
  \/ \E c \in Cells, kit \in Kits : EnterGame(h, c, kit)
  \/ PickUpGold(h) \/ LevelUp(h) \/ AddHeroDrop(h) \/ RemoveDeathHero(h)

GoldSteps ==
  \/ \E h \in Heroes : GoldStepOf(h)
  \/ \E c \in Cells, i \in Items, n \in 0..MonsterGold : AddMonsterDrop(c, i, n)

\* A step that is none of these leaves all gold and every level as it is, and
\* none enters or leaves the game.
LEMMA OtherGoldSteps ==
  ASSUME [Next]_vars, ~GoldSteps
  PROVE  UNCHANGED <<gold, issued, level>>
<1> USE DEF belongings, heroState
<1>1. CASE UNCHANGED vars
  BY <1>1 DEF vars
<1>2. ASSUME NEW h \in Heroes, Commands(h)
      PROVE  UNCHANGED <<gold, issued, level>>
  <2>1. \/ \E i \in Items : \/ UseItem(h, i) \/ DropItem(h, i) \/ PickUpItem(h, i)
                           \/ BankItem(h, i) \/ UnbankItem(h, i)
        \/ \E s \in Slots : Unequip(h, s)
        \/ DropNothing(h) \/ PickUpNothing(h)
        \/ Revive(h) \/ WaitToRevive(h) \/ Quit(h)
    BY <1>2 DEF Commands, GoldSteps, GoldStepOf
  <2>2. QED
    BY <2>1 DEF UseItem, DropItem, PickUpItem, BankItem, UnbankItem, Unequip,
                DropNothing, PickUpNothing, Revive, WaitToRevive, Quit
<1>3. ASSUME NEW h \in Heroes, Travels(h) \/ Happens(h)
      PROVE  UNCHANGED <<gold, issued, level>>
  <2>1. \/ LeaveRoom(h) \/ Die(h)
        \/ \E c \in Cells : \/ AddExistingHero(h, c) \/ TryToUnblock(h, c)
                            \/ AutoMove(h, c)
    BY <1>3 DEF Travels, Happens, GoldSteps, GoldStepOf
  <2>2. QED
    BY <2>1 DEF LeaveRoom, Die, AddExistingHero, TryToUnblock, AutoMove
<1>4. CASE GoOn \/ SendGameStatus \/ EndDrops \/ EndRemoval
  BY <1>4 DEF GoOn, SendGameStatus, EndDrops, EndRemoval
<1>5. QED
  BY <1>1, <1>2, <1>3, <1>4 DEF Next, GoldSteps
\* A hero's step changes neither the gold nor the level of another hero.
LEMMA OthersKeepGold ==
  ASSUME TypeOK, NEW h \in Heroes, GoldStepOf(h),
         NEW g \in Heroes, g # h
  PROVE  gold'[Inventory(g)] = gold[Inventory(g)] /\ level'[g] = level[g]
<1> USE DEF belongings, heroState
<1>1. /\ Inventory(g) \in Purses
      /\ Inventory(g) # Inventory(h) /\ Inventory(g) # Bank(h)
      /\ \A c \in Cells : Inventory(g) # Floor(c)
  BY PlaceFacts
<1>2. gold \in [Purses -> Nat] /\ level \in [Heroes -> Nat]
  BY DEF TypeOK
<1>3. ASSUME NEW i \in Items, BuyItem(h, i) \/ SellItem(h, i)
      PROVE  gold'[Inventory(g)] = gold[Inventory(g)] /\ level'[g] = level[g]
  BY <1>1, <1>2, <1>3 DEF BuyItem, SellItem
<1>4. ASSUME NEW n \in 1..MaxGold, BankGold(h, n) \/ UnbankGold(h, n)
      PROVE  gold'[Inventory(g)] = gold[Inventory(g)] /\ level'[g] = level[g]
  BY <1>1, <1>2, <1>4 DEF BankGold, UnbankGold, Pay
<1>5. ASSUME NEW c \in Cells, NEW kit \in Kits, EnterGame(h, c, kit)
      PROVE  gold'[Inventory(g)] = gold[Inventory(g)] /\ level'[g] = level[g]
  BY <1>1, <1>2, <1>5 DEF EnterGame
<1>6. CASE PickUpGold(h)
  <2>1. position[h] \in Cells
    BY <1>6 DEF PickUpGold, Acting, InRoom
  <2>2. PICK n : gold' = Pay(n, Floor(position[h]), Inventory(h))
    BY <1>6 DEF PickUpGold
  <2>3. QED
    BY <1>1, <1>2, <1>6, <2>1, <2>2 DEF PickUpGold, Pay
<1>7. CASE LevelUp(h)
  BY <1>2, <1>7 DEF LevelUp
<1>8. CASE AddHeroDrop(h)
  <2>1. position[h] \in Cells
    BY <1>8 DEF AddHeroDrop, Fallen, InRoom
  <2>2. QED
    BY <1>1, <1>2, <1>8, <2>1 DEF AddHeroDrop, ExcessDropped, Pay
<1>9. CASE RemoveDeathHero(h)
  BY <1>1, <1>2, <1>9 DEF RemoveDeathHero
<1>10. QED
  BY <1>3, <1>4, <1>5, <1>6, <1>7, <1>8, <1>9 DEF GoldStepOf

\* A hero that has not left never falls in level, so its limits only grow.
LEMMA LimitsGrow ==
  ASSUME TypeOK, TypeOK', NEW h \in Heroes, level[h] <= level'[h]
  PROVE  /\ MaxSafe(h) <= MaxSafe(h)'
         /\ GoldLimit(h) <= GoldLimit(h)'
<1>1. level[h] \in Nat /\ level'[h] \in Nat
  BY DEF TypeOK
<1>2. QED
  BY <1>1, LimitFacts DEF MaxSafe, GoldLimit

LEMMA GoldLimitKept ==
  ASSUME ItemsInv, TypeOK', [Next]_vars
  PROVE  GoldWithinLimit'
<1> USE ItemsAssumption
<1>1. TypeOK /\ \A h \in Heroes : gold[Inventory(h)] <= GoldLimit(h)
  BY DEF ItemsInv, GoldWithinLimit
<1>2. ASSUME NEW h \in Heroes, gold'[Inventory(h)] \in Nat,
             gold'[Inventory(h)] <= GoldLimit(h), level'[h] = level[h]
      PROVE  gold'[Inventory(h)] <= GoldLimit(h)'
  BY <1>2 DEF GoldLimit, MaxSafe
<1>3. ASSUME NEW h \in Heroes, GoldStepOf(h)
      PROVE  gold'[Inventory(h)] <= GoldLimit(h)'
  <2>1. /\ {Inventory(h), Bank(h)} \subseteq Purses /\ Inventory(h) # Bank(h)
        /\ gold \in [Purses -> Nat] /\ level \in [Heroes -> Nat]
        /\ gold'[Inventory(h)] \in Nat
    BY <1>1, PlaceFacts DEF TypeOK
  <2>2. /\ gold[Inventory(h)] \in Nat /\ GoldLimit(h) \in Nat
        /\ MaxSafe(h) \in Nat /\ MaxSafe(h) <= GoldLimit(h)
        /\ gold[Inventory(h)] <= GoldLimit(h)
        /\ GoldSpace(h) = GoldLimit(h) - gold[Inventory(h)]
    BY <1>1, GoldTypes DEF GoldSpace
  <2>3. ASSUME NEW i \in Items, BuyItem(h, i)
        PROVE  gold'[Inventory(h)] <= GoldLimit(h)'
    <3>1. gold'[Inventory(h)] = gold[Inventory(h)] - Price[i] /\ Price[i] \in Nat
      BY <2>1, <2>3 DEF BuyItem
    <3>2. level'[h] = level[h]
      BY <2>3 DEF BuyItem, heroState
    <3>3. QED
      BY <1>2, <2>1, <2>2, <3>1, <3>2
  <2>4. ASSUME NEW i \in Items, SellItem(h, i)
        PROVE  gold'[Inventory(h)] <= GoldLimit(h)'
    <3>1. gold'[Inventory(h)] = gold[Inventory(h)] + Price[i] /\ Price[i] \in Nat
      BY <2>1, <2>4 DEF SellItem
    <3>2. level'[h] = level[h] /\ GoldSpace(h) >= Price[i]
      BY <2>4 DEF SellItem, heroState
    <3>3. QED
      BY <1>2, <2>1, <2>2, <3>1, <3>2
  <2>5. ASSUME NEW n \in 1..MaxGold, BankGold(h, n)
        PROVE  gold'[Inventory(h)] <= GoldLimit(h)'
    <3>1. gold'[Inventory(h)] = gold[Inventory(h)] - n /\ n \in Nat
      BY <2>1, <2>5 DEF BankGold, Pay
    <3>2. level'[h] = level[h]
      BY <2>5 DEF BankGold, heroState
    <3>3. QED
      BY <1>2, <2>1, <2>2, <3>1, <3>2
  <2>6. ASSUME NEW n \in 1..MaxGold, UnbankGold(h, n)
        PROVE  gold'[Inventory(h)] <= GoldLimit(h)'
    <3>1. gold'[Inventory(h)] = gold[Inventory(h)] + n /\ n \in Nat
      BY <2>1, <2>6 DEF UnbankGold, Pay
    <3>2. level'[h] = level[h] /\ GoldSpace(h) >= n
      BY <2>6 DEF UnbankGold, heroState
    <3>3. QED
      BY <1>2, <2>1, <2>2, <3>1, <3>2
  <2>7. ASSUME NEW c \in Cells, NEW kit \in Kits, EnterGame(h, c, kit)
        PROVE  gold'[Inventory(h)] <= GoldLimit(h)'
    <3>1. gold'[Inventory(h)] = InitialGold /\ level'[h] = 1
      BY <2>1, <2>7 DEF EnterGame
    <3>2. SafeGold * 1 \in Nat /\ SafeGold * 1 = SafeGold
      OBVIOUS
    <3>3. GoldLimit(h)' = SafeGold + SafeGold \div 2
      BY <3>1, <3>2 DEF GoldLimit, MaxSafe
    <3>4. QED
      BY <3>1, <3>3
  <2>8. CASE PickUpGold(h)
    <3> DEFINE floor == Floor(position[h])
               taken == IF gold[floor] < GoldSpace(h) THEN gold[floor]
                                                      ELSE GoldSpace(h)
    <3>1. floor \in Purses /\ floor # Inventory(h)
      BY <1>1, <2>8, ActingFacts, PlaceFacts DEF PickUpGold, Acting
    <3>2. taken \in Nat /\ taken <= GoldSpace(h) /\ taken <= gold[floor]
      BY <2>1, <2>2, <3>1
    <3>3. gold' = Pay(taken, floor, Inventory(h)) /\ level'[h] = level[h]
      BY <2>8 DEF PickUpGold, heroState
    <3> HIDE DEF floor, taken
    <3>4. gold'[Inventory(h)] = gold[Inventory(h)] + taken
      BY <1>1, <2>1, <3>1, <3>2, <3>3, PayType
    <3>5. QED
      BY <1>2, <2>1, <2>2, <3>2, <3>3, <3>4
  <2>9. CASE LevelUp(h)
    <3>1. level'[h] = level[h] + 1 /\ gold' = gold
      BY <2>1, <2>9 DEF LevelUp, belongings
    <3>2. GoldLimit(h) <= GoldLimit(h)' /\ GoldLimit(h)' \in Nat
      <4>1. level[h] <= level'[h]
        BY <2>1, <3>1
      <4>2. level'[h] \in Nat /\ level'[h] <= level'[h]
        BY <2>1, <3>1
      <4>3. GoldLimit(h)' \in Nat
        BY <4>2, LimitFacts DEF GoldLimit, MaxSafe
      <4>4. QED
        BY <1>1, <4>1, <4>3, LimitsGrow
    <3>3. QED
      BY <2>2, <3>1, <3>2
  <2>10. CASE AddHeroDrop(h)
    <3>1. /\ Floor(position[h]) \in Purses /\ Floor(position[h]) # Inventory(h)
          /\ gold' = Pay(Excess(h), Inventory(h), Floor(position[h]))
          /\ level'[h] = level[h]
      BY <1>1, <2>10, ActingFacts, PlaceFacts
         DEF AddHeroDrop, Fallen, ExcessDropped, heroState
    <3>2. Excess(h) \in Nat /\ Excess(h) <= gold[Inventory(h)]
      BY <1>1, GoldTypes
    <3>3. gold'[Inventory(h)] = gold[Inventory(h)] - Excess(h)
      BY <1>1, <2>1, <3>1, <3>2, PayType
    <3>4. QED
      BY <1>2, <2>1, <2>2, <3>1, <3>2, <3>3
  <2>11. CASE RemoveDeathHero(h)
    <3>1. gold'[Inventory(h)] = 0
      BY <2>1, <2>11 DEF RemoveDeathHero
    <3>2. GoldLimit(h)' \in Nat
      <4>1. level'[h] \in Nat /\ level'[h] <= level'[h]
        BY DEF TypeOK
      <4>2. QED
        BY <4>1, LimitFacts DEF GoldLimit, MaxSafe
    <3>3. QED
      BY <3>1, <3>2
  <2>12. QED
    BY <1>3, <2>3, <2>4, <2>5, <2>6, <2>7, <2>8, <2>9, <2>10, <2>11 DEF GoldStepOf
<1>4. ASSUME NEW g \in Heroes
      PROVE  gold'[Inventory(g)] <= GoldLimit(g)'
  <2>1. gold[Inventory(g)] \in Nat /\ Inventory(g) \in PlacesOf(g) \cap Purses
    BY <1>1, GoldTypes, PlaceFacts
  <2>2. ASSUME NEW h \in Heroes, GoldStepOf(h)
        PROVE  gold'[Inventory(g)] <= GoldLimit(g)'
    <3>1. CASE g = h
      BY <1>3, <2>2, <3>1
    <3>2. CASE g # h
      BY <1>1, <1>2, <2>1, <2>2, <3>2, OthersKeepGold
    <3>3. QED
      BY <3>1, <3>2
  <2>3. ASSUME NEW c \in Cells, NEW i \in Items, NEW n \in 0..MonsterGold,
               AddMonsterDrop(c, i, n)
        PROVE  gold'[Inventory(g)] <= GoldLimit(g)'
    <3>1. Floor(c) # Inventory(g)
      BY <2>1, PlaceFacts
    <3>2. gold'[Inventory(g)] = gold[Inventory(g)] /\ level'[g] = level[g]
      BY <1>1, <2>1, <2>3, <3>1 DEF AddMonsterDrop, TypeOK, heroState
    <3>3. QED
      BY <1>1, <1>2, <2>1, <3>2
  <2>4. CASE ~GoldSteps
    BY <1>1, <1>2, <2>1, <2>4, OtherGoldSteps
  <2>5. QED
    BY <2>2, <2>3, <2>4 DEF GoldSteps
<1>5. QED
  BY <1>4 DEF GoldWithinLimit
\* Nobody in play loses a level.
LEMMA LevelKept ==
  ASSUME TypeOK, [Next]_vars, NEW h \in Heroes, ~RemoveDeathHero(h),
         ~ \E c \in Cells, kit \in Kits : EnterGame(h, c, kit)
  PROVE  level[h] <= level'[h]
<1>1. level[h] \in Nat /\ level \in [Heroes -> Nat]
  BY DEF TypeOK
<1>2. ASSUME NEW k \in Heroes, GoldStepOf(k)
      PROVE  level[h] <= level'[h]
  <2>1. CASE k # h
    BY <1>1, <1>2, <2>1, OthersKeepGold
  <2>2. CASE k = h
    <3>1. CASE LevelUp(h)
      BY <1>1, <3>1 DEF LevelUp
    <3>2. CASE ~LevelUp(h)
      <4>1. \/ \E i \in Items : BuyItem(h, i) \/ SellItem(h, i)
            \/ \E n \in 1..MaxGold : BankGold(h, n) \/ UnbankGold(h, n)
            \/ PickUpGold(h) \/ AddHeroDrop(h)
        BY <1>2, <2>2, <3>2 DEF GoldStepOf
      <4>2. level' = level
        BY <4>1 DEF BuyItem, SellItem, BankGold, UnbankGold, PickUpGold,
                    AddHeroDrop, heroState
      <4>3. QED
        BY <1>1, <4>2
    <3>3. QED
      BY <3>1, <3>2
  <2>3. QED
    BY <2>1, <2>2
<1>3. ASSUME NEW c \in Cells, NEW i \in Items, NEW n \in 0..MonsterGold,
             AddMonsterDrop(c, i, n)
      PROVE  level[h] <= level'[h]
  BY <1>1, <1>3 DEF AddMonsterDrop, heroState
<1>4. CASE ~GoldSteps
  BY <1>1, <1>4, OtherGoldSteps
<1>5. QED
  BY <1>2, <1>3, <1>4 DEF GoldSteps

-----------------------------------------------------------------------------
(* Coming, going, dying and the turns of the room *)

\* The steps that change where a hero is, whether it is a ghost, or the turn.
MoveSteps ==
  \/ \E h \in Heroes :
       \/ Revive(h) \/ Die(h) \/ LeaveRoom(h) \/ RemoveDeathHero(h)
       \/ \E c \in Cells : \/ TryToUnblock(h, c) \/ AutoMove(h, c)
                           \/ AddExistingHero(h, c)
                           \/ \E kit \in Kits : EnterGame(h, c, kit)
  \/ GoOn \/ SendGameStatus \/ EndDrops \/ EndRemoval

LEMMA OtherMoveSteps ==
  ASSUME [Next]_vars, ~MoveSteps
  PROVE  UNCHANGED <<phase, position, ghosts, late>>
<1> USE DEF heroState
<1>1. CASE UNCHANGED vars
  BY <1>1 DEF vars
<1>2. ASSUME NEW h \in Heroes, Commands(h)
      PROVE  UNCHANGED <<phase, position, ghosts, late>>
  <2>1. \/ \E i \in Items : \/ UseItem(h, i) \/ DropItem(h, i) \/ PickUpItem(h, i)
                           \/ BuyItem(h, i) \/ SellItem(h, i)
                           \/ BankItem(h, i) \/ UnbankItem(h, i)
        \/ \E s \in Slots : Unequip(h, s)
        \/ \E n \in 1..MaxGold : BankGold(h, n) \/ UnbankGold(h, n)
        \/ DropNothing(h) \/ PickUpNothing(h) \/ PickUpGold(h)
        \/ WaitToRevive(h) \/ Quit(h)
    BY <1>2 DEF Commands, MoveSteps
  <2>2. QED
    BY <2>1 DEF UseItem, DropItem, PickUpItem, BuyItem, SellItem, BankItem,
                UnbankItem, Unequip, BankGold, UnbankGold, DropNothing,
                PickUpNothing, PickUpGold, WaitToRevive, Quit
<1>3. ASSUME NEW h \in Heroes, Travels(h) \/ Happens(h)
      PROVE  UNCHANGED <<phase, position, ghosts, late>>
  <2>1. LevelUp(h) \/ AddHeroDrop(h)
    BY <1>3 DEF Travels, Happens, MoveSteps
  <2>2. QED
    BY <2>1 DEF LevelUp, AddHeroDrop
<1>4. ASSUME NEW c \in Cells, NEW i \in Items, NEW n \in 0..MonsterGold,
             AddMonsterDrop(c, i, n)
      PROVE  UNCHANGED <<phase, position, ghosts, late>>
  BY <1>4 DEF AddMonsterDrop
<1>5. QED
  BY <1>1, <1>2, <1>3, <1>4 DEF Next, MoveSteps

\* A hero's own step that moves items needs it to be in the room, or puts it
\* there.
LEMMA ItemStepInRoom ==
  ASSUME TypeOK, NEW h \in Heroes, ItemStepOf(h),
         position[h] = Outside
  PROVE  position'[h] \in Cells
<1>1. h \notin InRoom
  BY ItemsAssumption DEF InRoom
<1>2. PICK c \in Cells, kit \in Kits : EnterGame(h, c, kit)
  BY <1>1 DEF ItemStepOf, UseItem, DropItem, PickUpItem, BuyItem, SellItem,
              BankItem, UnbankItem, Unequip, AtBank, Acting, AddHeroDrop, Fallen,
              RemoveDeathHero
<1>3. QED
  BY <1>2 DEF EnterGame, TypeOK

LEMMA OutsideKept ==
  ASSUME ItemsInv, [Next]_vars
  PROVE  NothingOutside'
<1> USE ItemsAssumption
<1>1. TypeOK /\ NothingOutside
  BY DEF ItemsInv
<1>2. SUFFICES ASSUME NEW g \in Heroes, position'[g] = Outside
               PROVE  /\ g \notin ghosts'
                      /\ \A p \in PlacesOf(g) : items'[p] = {}
  BY DEF NothingOutside
<1>3. PlacesOf(g) \subseteq Places /\ position \in [Heroes -> Cells \cup {Road, Outside}]
  BY <1>1, PlaceFacts DEF TypeOK
<1>4. CASE RemoveDeathHero(g)
  BY <1>3, <1>4 DEF RemoveDeathHero
<1>5. CASE ~RemoveDeathHero(g)
  <2>1. position[g] = Outside /\ (g \in ghosts' => g \in ghosts)
    <3>1. ASSUME NEW h \in Heroes, Revive(h)
          PROVE  position[g] = Outside /\ (g \in ghosts' => g \in ghosts)
      BY <1>2, <3>1 DEF Revive
    <3>2. ASSUME NEW h \in Heroes, Die(h)
          PROVE  position[g] = Outside /\ (g \in ghosts' => g \in ghosts)
      BY <1>2, <3>2 DEF Die, InRoom
    <3>3. ASSUME NEW h \in Heroes, LeaveRoom(h)
          PROVE  position[g] = Outside /\ (g \in ghosts' => g \in ghosts)
      BY <1>2, <1>3, <3>3 DEF LeaveRoom, heroState
    <3>4. ASSUME NEW h \in Heroes, RemoveDeathHero(h)
          PROVE  position[g] = Outside /\ (g \in ghosts' => g \in ghosts)
      BY <1>2, <1>3, <1>5, <3>4 DEF RemoveDeathHero
    <3>5. ASSUME NEW h \in Heroes, NEW c \in Cells,
                 TryToUnblock(h, c) \/ AutoMove(h, c) \/ AddExistingHero(h, c)
          PROVE  position[g] = Outside /\ (g \in ghosts' => g \in ghosts)
      BY <1>2, <1>3, <3>5 DEF TryToUnblock, AutoMove, AddExistingHero, heroState
    <3>6. ASSUME NEW h \in Heroes, NEW c \in Cells, NEW kit \in Kits,
                 EnterGame(h, c, kit)
          PROVE  position[g] = Outside /\ (g \in ghosts' => g \in ghosts)
      BY <1>2, <1>3, <3>6 DEF EnterGame
    <3>7. CASE GoOn \/ SendGameStatus \/ EndDrops \/ EndRemoval
      BY <1>2, <3>7 DEF GoOn, SendGameStatus, EndDrops, EndRemoval, heroState
    <3>8. CASE ~MoveSteps
      BY <1>2, <3>8, OtherMoveSteps
    <3>9. QED
      BY <3>1, <3>2, <3>3, <3>4, <3>5, <3>6, <3>7, <3>8 DEF MoveSteps
  <2>2. g \notin ghosts' /\ \A p \in PlacesOf(g) : items[p] = {}
    BY <1>1, <2>1 DEF NothingOutside
  <2>3. ASSUME NEW p \in PlacesOf(g)
        PROVE  items'[p] = items[p]
    <3>1. ASSUME NEW h \in Heroes, ItemStepOf(h)
          PROVE  items'[p] = items[p]
      <4>1. g # h
        BY <1>1, <1>2, <2>1, <3>1, ItemStepInRoom
      <4>2. QED
        BY <1>1, <3>1, <4>1, OthersKeepItems
    <3>2. ASSUME NEW c \in Cells, NEW i \in Items, NEW n \in 0..MonsterGold,
                 AddMonsterDrop(c, i, n)
          PROVE  items'[p] = items[p]
      <4>1. p # Floor(c) /\ p \in Places /\ Floor(c) \in Places
        BY <1>3, PlaceFacts
      <4>2. QED
        BY <1>1, <3>2, <4>1 DEF AddMonsterDrop, TypeOK
    <3>3. CASE ~ItemSteps
      BY <3>3, OtherSteps
    <3>4. QED
      BY <3>1, <3>2, <3>3 DEF ItemSteps
  <2>4. QED
    BY <2>2, <2>3
<1>6. QED
  BY <1>4, <1>5

-----------------------------------------------------------------------------
(* Ghosts *)

\* One conjunct of GhostsOnlyLose.
OnlyLoses(h) ==
  /\ items'[Inventory(h)] \subseteq items[Inventory(h)]
  /\ gold'[Inventory(h)] <= gold[Inventory(h)]
  /\ \A p \in PlacesOf(h) \ {Inventory(h)} : items'[p] = items[p]

\* Of a ghost's own steps, only the clean-up after its death touches what it
\* has.
LEMMA GhostSteps ==
  ASSUME ItemsInv, NEW h \in ghosts \cap ghosts', h \in Heroes,
         ItemStepOf(h) \/ GoldStepOf(h)
  PROVE  AddHeroDrop(h) \/ LevelUp(h)
<1>1. ~Living(h)
  BY DEF Living
<1>2. ~RemoveDeathHero(h)
  BY DEF RemoveDeathHero
<1>3. ASSUME NEW c \in Cells, NEW kit \in Kits
      PROVE  ~EnterGame(h, c, kit)
  BY DEF EnterGame, ItemsInv, NothingOutside
<1>4. QED
  BY <1>1, <1>2, <1>3
     DEF ItemStepOf, GoldStepOf, UseItem, DropItem, PickUpItem, BuyItem, SellItem,
         BankItem, UnbankItem, Unequip, BankGold, UnbankGold, PickUpGold, AtBank

LEMMA GhostsLose ==
  ASSUME ItemsInv, [Next]_vars, NEW h \in ghosts \cap ghosts', h \in Heroes
  PROVE  OnlyLoses(h)
<1>1. TypeOK /\ gold[Inventory(h)] \in Nat
  BY GoldTypes DEF ItemsInv
<1>2. /\ PlacesOf(h) \subseteq Places /\ Inventory(h) \in PlacesOf(h)
      /\ Inventory(h) \in Purses
      /\ \A c \in Cells : Floor(c) \notin PlacesOf(h)
      /\ \A c \in Cells : Floor(c) \in Places \cap Purses
  BY PlaceFacts
<1>3. CASE AddHeroDrop(h)
  <2>1. h \in InRoom /\ position[h] \in Cells
    BY <1>3 DEF AddHeroDrop, Fallen, InRoom
  <2>2. /\ items'[Inventory(h)] = {}
        /\ \A p \in PlacesOf(h) \ {Inventory(h)} : items'[p] = items[p]
    BY <1>1, <1>2, <1>3, <2>1 DEF AddHeroDrop, TypeOK
  <2>3. Excess(h) \in Nat /\ Excess(h) <= gold[Inventory(h)]
    BY <1>1, GoldTypes
  <2>4. gold'[Inventory(h)] = gold[Inventory(h)] - Excess(h)
    BY <1>1, <1>2, <1>3, <2>1, <2>3, PayType DEF AddHeroDrop, ExcessDropped
  <2>5. QED
    BY <1>1, <2>2, <2>3, <2>4 DEF OnlyLoses
<1>4. CASE ~AddHeroDrop(h)
  <2>1. \A p \in PlacesOf(h) : items'[p] = items[p]
    <3>1. ASSUME NEW g \in Heroes, ItemStepOf(g), NEW p \in PlacesOf(h)
          PROVE  items'[p] = items[p]
      <4>1. CASE g = h
        <5>1. LevelUp(h)
          BY <1>4, <3>1, <4>1, GhostSteps
        <5>2. QED
          BY <5>1 DEF LevelUp, belongings
      <4>2. CASE g # h
        BY <1>1, <3>1, <4>2, OthersKeepItems
      <4>3. QED
        BY <4>1, <4>2
    <3>2. ASSUME NEW c \in Cells, NEW i \in Items, NEW n \in 0..MonsterGold,
                 AddMonsterDrop(c, i, n), NEW p \in PlacesOf(h)
          PROVE  items'[p] = items[p]
      BY <1>1, <1>2, <3>2 DEF AddMonsterDrop, TypeOK
    <3>3. CASE ~ItemSteps
      BY <3>3, OtherSteps
    <3>4. QED
      BY <3>1, <3>2, <3>3 DEF ItemSteps
  <2>2. gold'[Inventory(h)] = gold[Inventory(h)]
    <3>1. ASSUME NEW g \in Heroes, GoldStepOf(g)
          PROVE  gold'[Inventory(h)] = gold[Inventory(h)]
      <4>1. CASE g = h
        <5>1. LevelUp(h)
          BY <1>4, <3>1, <4>1, GhostSteps
        <5>2. QED
          BY <5>1 DEF LevelUp, belongings
      <4>2. CASE g # h
        BY <1>1, <3>1, <4>2, OthersKeepGold
      <4>3. QED
        BY <4>1, <4>2
    <3>2. ASSUME NEW c \in Cells, NEW i \in Items, NEW n \in 0..MonsterGold,
                 AddMonsterDrop(c, i, n)
          PROVE  gold'[Inventory(h)] = gold[Inventory(h)]
      BY <1>1, <1>2, <3>2 DEF AddMonsterDrop, TypeOK
    <3>3. CASE ~GoldSteps
      BY <3>3, OtherGoldSteps
    <3>4. QED
      BY <3>1, <3>2, <3>3 DEF GoldSteps
  <2>3. QED
    BY <1>1, <1>2, <2>1, <2>2 DEF OnlyLoses
<1>5. QED
  BY <1>3, <1>4
LEMMA SweptKept ==
  ASSUME ItemsInv, TypeOK', [Next]_vars
  PROVE  SweptGhostsHoldNothing'
<1> USE ItemsAssumption
<1>1. TypeOK /\ SweptGhostsHoldNothing
  BY DEF ItemsInv
<1>2. SUFFICES ASSUME phase' \in {"removal", "commands"}, NEW h \in Heroes,
                      position'[h] \in Cells, h \in ghosts', h \notin late'
               PROVE  /\ items'[Inventory(h)] = {}
                      /\ gold'[Inventory(h)] <= MaxSafe(h)'
  BY DEF SweptGhostsHoldNothing, InRoom
<1>3. /\ MaxSafe(h) \in Nat /\ gold[Inventory(h)] \in Nat
      /\ position \in [Heroes -> Cells \cup {Road, Outside}]
  BY <1>1, GoldTypes DEF TypeOK
<1>4. CASE EndDrops
  <2>1. h \in InRoom \cap ghosts /\ h \notin Fallen
    BY <1>2, <1>4 DEF EndDrops, heroState, InRoom
  <2>2. items[Inventory(h)] = {} /\ ~(Excess(h) > 0)
    BY <2>1 DEF Fallen
  <2>3. gold[Inventory(h)] <= MaxSafe(h)
    BY <1>3, <2>2 DEF Excess
  <2>4. UNCHANGED <<items, gold, level>>
    BY <1>4 DEF EndDrops, belongings, heroState
  <2>5. QED
    BY <2>2, <2>3, <2>4 DEF MaxSafe
<1>5. CASE ~EndDrops
  <2>1. /\ phase \in {"removal", "commands"}
        /\ position[h] \in Cells /\ h \in ghosts /\ h \notin late
    <3> DEFINE Before == /\ phase \in {"removal", "commands"}
                         /\ position[h] \in Cells /\ h \in ghosts /\ h \notin late
    <3>1. ASSUME NEW k \in Heroes, Revive(k) \/ LeaveRoom(k) \/ RemoveDeathHero(k)
          PROVE  Before
      <4>1. CASE Revive(k)
        BY <1>2, <4>1 DEF Revive
      <4>2. CASE LeaveRoom(k)
        <5>1. k # h
          BY <1>2, <1>3, <4>2 DEF LeaveRoom
        <5>2. QED
          BY <1>2, <1>3, <4>2, <5>1 DEF LeaveRoom, heroState
      <4>3. CASE RemoveDeathHero(k)
        BY <1>2, <1>3, <4>3 DEF RemoveDeathHero
      <4>4. QED
        BY <3>1, <4>1, <4>2, <4>3
    <3>2. ASSUME NEW k \in Heroes
          PROVE  /\ ~Die(k)
                 /\ \A c \in Cells : ~TryToUnblock(k, c) /\ ~AutoMove(k, c)
      BY <1>2 DEF Die, TryToUnblock, AutoMove
    <3>3. ASSUME NEW k \in Heroes, NEW c \in Cells, AddExistingHero(k, c)
          PROVE  Before
      BY <1>2, <1>3, <3>3 DEF AddExistingHero, heroState
    <3>4. ASSUME NEW k \in Heroes, NEW c \in Cells, NEW kit \in Kits,
                 EnterGame(k, c, kit)
          PROVE  Before
      BY <1>2, <1>3, <3>4 DEF EnterGame
    <3>5. ~GoOn /\ ~SendGameStatus
      BY <1>2 DEF GoOn, NextPhase, SendGameStatus
    <3>6. CASE EndRemoval
      BY <1>2, <3>6 DEF EndRemoval, heroState
    <3>7. CASE ~MoveSteps
      BY <1>2, <3>7, OtherMoveSteps
    <3>8. QED
      BY <1>5, <3>1, <3>2, <3>3, <3>4, <3>5, <3>6, <3>7 DEF MoveSteps
  <2>2. items[Inventory(h)] = {} /\ gold[Inventory(h)] <= MaxSafe(h)
    BY <1>1, <2>1 DEF SweptGhostsHoldNothing, InRoom
  <2>3. OnlyLoses(h)
    BY <1>2, <2>1, GhostsLose
  <2>4. MaxSafe(h) <= MaxSafe(h)'
    <3>1. ~RemoveDeathHero(h)
      BY <1>2 DEF RemoveDeathHero
    <3>2. ~ \E c \in Cells, kit \in Kits : EnterGame(h, c, kit)
      BY <2>1 DEF EnterGame
    <3>3. level[h] <= level'[h]
      BY <1>1, <3>1, <3>2, LevelKept
    <3>4. QED
      BY <1>1, <3>3, LimitsGrow
  <2>5. gold'[Inventory(h)] \in Nat /\ MaxSafe(h)' \in Nat
    <3>1. gold'[Inventory(h)] \in Nat
      BY PlaceFacts DEF TypeOK
    <3>2. level'[h] \in Nat /\ level'[h] <= level'[h]
      BY DEF TypeOK
    <3>3. QED
      BY <3>1, <3>2, LimitFacts DEF MaxSafe
  <2>6. QED
    BY <1>3, <2>2, <2>3, <2>4, <2>5 DEF OnlyLoses
<1>6. QED
  BY <1>4, <1>5

-----------------------------------------------------------------------------
(* What several purses hold together.  The fold is a recursive function on  *)
(* the parts of its domain: that there is one, and what one purse adds, is  *)
(* shown part by part, from the smallest on.                                *)

\* Of a part of the domain, if g says what is of the smaller ones.
Added(g, f, s) ==
  IF s = {} THEN 0 ELSE f[CHOOSE x \in s : TRUE] + g[s \ {CHOOSE x \in s : TRUE}]
AddedUp(g, f, D) == [s \in SUBSET D |-> Added(g, f, s)]
Sums(f) == CHOOSE g : g = AddedUp(g, f, DOMAIN f)

LEMMA FoldIsSum == ASSUME NEW f PROVE FoldFunction(+, 0, f) = Sums(f)[DOMAIN f]
BY DEF FoldFunction, FoldFunctionOnSet, MapThenFoldSet, Sums, AddedUp, Added

\* A set of numbers has a least one.
LEMMA LeastElement == ASSUME NEW T \in SUBSET Nat, T # {} PROVE \E x \in T : \A y \in T : x <= y
<1>1. PICK x \in T : \A y \in T : <<y, x>> \notin OpToRel(<, Nat)
  BY NatLessThanWellFounded, WFMin
<1>2. \A y \in T : ~(y < x)
  BY <1>1 DEF OpToRel
<1> QED  BY <1>2

LEMMA FromZero ==
  ASSUME NEW T, 0 \in T, \A n \in Nat : n \in T => n + 1 \in T
  PROVE  Nat \subseteq T
<1> SUFFICES ASSUME ~(Nat \subseteq T) PROVE FALSE
  OBVIOUS
<1>1. Nat \ T \in SUBSET Nat /\ Nat \ T # {}
  OBVIOUS
<1>2. PICK n \in Nat \ T : \A k \in Nat \ T : n <= k
  BY <1>1, LeastElement
<1>3. n # 0 /\ n - 1 \in Nat /\ ~(n <= n - 1)
  BY <1>2
<1>4. n - 1 \in T
  BY <1>2, <1>3
<1>5. (n - 1) + 1 \in T /\ (n - 1) + 1 = n
  BY <1>3, <1>4
<1> QED  BY <1>2, <1>5

LEMMA PartSize == ASSUME NEW D, IsFiniteSet(D) PROVE \A s \in SUBSET D : Cardinality(s) \in Nat
BY FS_Subset, FS_CardinalityType

\* Without the element that is chosen of it, a part is smaller.
LEMMA OneLess ==
  ASSUME NEW D, IsFiniteSet(D), NEW s \in SUBSET D
  PROVE  /\ Cardinality(s) \in Nat
         /\ s # {} => /\ (CHOOSE x \in s : TRUE) \in s
                      /\ Cardinality(s \ {CHOOSE x \in s : TRUE}) = Cardinality(s) - 1
                      /\ s \ {CHOOSE x \in s : TRUE} \in SUBSET D
<1>1. IsFiniteSet(s)
  BY FS_Subset
<1>2. Cardinality(s) \in Nat
  BY <1>1, FS_CardinalityType
<1>3. ASSUME s # {} PROVE (CHOOSE x \in s : TRUE) \in s
  BY <1>3
<1>4. \A x \in s : Cardinality(s \ {x}) = Cardinality(s) - 1
  BY <1>1, FS_RemoveElement
<1> QED  BY <1>2, <1>3, <1>4

\* What holds of a part whenever it does of those with fewer elements, holds of all.
LEMMA FromTheSmallest ==
  ASSUME NEW D, IsFiniteSet(D), NEW T,
         \A s \in SUBSET D : (s # {} => s \ {CHOOSE x \in s : TRUE} \in T) => s \in T
  PROVE  SUBSET D \subseteq T
<1> DEFINE N == {n \in Nat : \A s \in SUBSET D : Cardinality(s) = n => s \in T}
<1>1. 0 \in N
  <2> SUFFICES ASSUME NEW s \in SUBSET D, Cardinality(s) = 0 PROVE s \in T
    OBVIOUS
  <2>1. s = {}
    <3> SUFFICES ASSUME s # {} PROVE FALSE
      OBVIOUS
    <3>1. Cardinality(s \ {CHOOSE x \in s : TRUE}) = -1 /\ s \ {CHOOSE x \in s : TRUE} \in SUBSET D
      BY OneLess
    <3>2. Cardinality(s \ {CHOOSE x \in s : TRUE}) \in Nat
      BY <3>1, OneLess
    <3> QED  BY <3>1, <3>2
  <2> QED  BY <2>1
<1>2. ASSUME NEW n \in Nat, n \in N PROVE n + 1 \in N
  <2> SUFFICES ASSUME NEW s \in SUBSET D, Cardinality(s) = n + 1 PROVE s \in T
    OBVIOUS
  <2>1. s # {} => s \ {CHOOSE x \in s : TRUE} \in T
    BY <1>2, OneLess
  <2> QED  BY <2>1
<1>3. Nat \subseteq N
  <2> HIDE DEF N
  <2> QED  BY <1>1, <1>2, FromZero
<1> SUFFICES ASSUME NEW s \in SUBSET D PROVE s \in T
  OBVIOUS
<1>4. Cardinality(s) \in N
  BY <1>3, OneLess
<1> QED  BY <1>4

LEMMA AddedFromLess ==
  ASSUME NEW f, NEW g, NEW h, NEW s,
         s # {} => g[s \ {CHOOSE x \in s : TRUE}] = h[s \ {CHOOSE x \in s : TRUE}]
  PROVE  Added(g, f, s) = Added(h, f, s)
BY DEF Added

LEMMA SumsExist ==
  ASSUME NEW D, IsFiniteSet(D), NEW f
  PROVE  \E g : g = AddedUp(g, f, D)
<1> DEFINE UpTo(g, n) == /\ g = [s \in SUBSET D |-> g[s]]
                         /\ \A s \in SUBSET D : Cardinality(s) < n => g[s] = Added(g, f, s)
           N == {n \in Nat : \E g : UpTo(g, n)}
<1>1. 0 \in N
  <2> DEFINE g == [s \in SUBSET D |-> 0]
  <2>1. \A s \in SUBSET D : ~(Cardinality(s) < 0)
    BY PartSize
  <2>2. g = [s \in SUBSET D |-> g[s]]
    OBVIOUS
  <2>3. UpTo(g, 0)
    <3> HIDE DEF g
    <3> QED  BY <2>1, <2>2
  <2> QED  BY <2>3
<1>2. ASSUME NEW n \in Nat, n \in N PROVE n + 1 \in N
  <2>1. PICK g : UpTo(g, n)
    BY <1>2
  <2> DEFINE h == [s \in SUBSET D |-> IF Cardinality(s) < n THEN g[s] ELSE Added(g, f, s)]
  <2>2. ASSUME NEW s \in SUBSET D, Cardinality(s) < n + 1 PROVE h[s] = Added(h, f, s)
    <3>1. ASSUME s # {}
          PROVE  g[s \ {CHOOSE x \in s : TRUE}] = h[s \ {CHOOSE x \in s : TRUE}]
      <4> DEFINE r == s \ {CHOOSE x \in s : TRUE}
      <4>1. r \in SUBSET D /\ Cardinality(r) < n
        BY <2>2, <3>1, OneLess
      <4> HIDE DEF r
      <4>2. g[r] = h[r]
        BY <4>1
      <4> QED  BY <4>2 DEF r
    <3>2. h[s] = IF Cardinality(s) < n THEN g[s] ELSE Added(g, f, s)
      OBVIOUS
    <3> HIDE DEF h
    <3>3. Added(g, f, s) = Added(h, f, s)
      BY <3>1, AddedFromLess
    <3>4. Cardinality(s) < n => g[s] = Added(g, f, s)
      BY <2>1
    <3> QED  BY <3>2, <3>3, <3>4
  <2>3. h = [s \in SUBSET D |-> h[s]]
    OBVIOUS
  <2>4. UpTo(h, n + 1)
    <3> HIDE DEF h
    <3> QED  BY <2>2, <2>3
  <2> HIDE DEF h, UpTo
  <2> QED  BY <2>4
<1>3. Cardinality(D) \in Nat /\ Cardinality(D) + 1 \in N
  <2>1. Nat \subseteq N
    <3> HIDE DEF N
    <3> QED  BY <1>1, <1>2, FromZero
  <2>2. Cardinality(D) \in Nat
    BY FS_CardinalityType
  <2> HIDE DEF N
  <2> QED  BY <2>1, <2>2
<1>4. PICK g : UpTo(g, Cardinality(D) + 1)
  BY <1>3
<1>5. \A s \in SUBSET D : g[s] = Added(g, f, s)
  <2> SUFFICES ASSUME NEW s \in SUBSET D PROVE g[s] = Added(g, f, s)
    OBVIOUS
  <2>1. Cardinality(s) <= Cardinality(D) /\ Cardinality(s) \in Nat
    BY FS_Subset, OneLess
  <2>2. Cardinality(s) < Cardinality(D) + 1
    BY <1>3, <2>1
  <2> QED  BY <1>4, <2>2
<1>6. g = [s \in SUBSET D |-> g[s]]
  BY <1>4
<1>7. g = AddedUp(g, f, D)
  BY <1>5, <1>6 DEF AddedUp
<1> QED  BY <1>7

LEMMA SumsUnfold ==
  ASSUME NEW f, IsFiniteSet(DOMAIN f), NEW s \in SUBSET DOMAIN f
  PROVE  Sums(f)[s] = Added(Sums(f), f, s)
<1>1. \E g : g = AddedUp(g, f, DOMAIN f)
  BY SumsExist
<1>2. Sums(f) = AddedUp(Sums(f), f, DOMAIN f)
  BY <1>1 DEF Sums
<1> QED  BY <1>2 DEF AddedUp

\* One purse changed: the parts that have it change by as much.
LEMMA SumsOfChanged ==
  ASSUME NEW D, IsFiniteSet(D), NEW f \in [D -> Int], NEW e \in [D -> Int],
         NEW p \in D, \A x \in D \ {p} : e[x] = f[x]
  PROVE  \A s \in SUBSET D :
           /\ Sums(f)[s] \in Int
           /\ Sums(e)[s] = Sums(f)[s] + (IF p \in s THEN e[p] - f[p] ELSE 0)
<1> DEFINE T == {s \in SUBSET D : /\ Sums(f)[s] \in Int
                                  /\ Sums(e)[s] = Sums(f)[s] + (IF p \in s THEN e[p] - f[p] ELSE 0)}
<1>1. DOMAIN f = D /\ DOMAIN e = D
  OBVIOUS
<1>2. ASSUME NEW s \in SUBSET D, s # {} => s \ {CHOOSE x \in s : TRUE} \in T PROVE s \in T
  <2>1. Sums(f)[s] = Added(Sums(f), f, s) /\ Sums(e)[s] = Added(Sums(e), e, s)
    BY <1>1, SumsUnfold
  <2>2. CASE s = {}
    BY <2>1, <2>2 DEF Added
  <2>3. CASE s # {}
    <3> DEFINE x == CHOOSE x \in s : TRUE
               r == s \ {x}
    <3>1. Sums(f)[s] = f[x] + Sums(f)[r] /\ Sums(e)[s] = e[x] + Sums(e)[r]
      BY <2>1, <2>3 DEF Added
    <3>2. x \in s /\ x \in D
      BY <2>3
    <3>3. r \in T
      BY <1>2, <2>3
    <3> HIDE DEF x
    <3>4. f[x] \in Int /\ e[x] \in Int /\ f[p] \in Int
      BY <1>1, <3>2
    <3>5. CASE x = p
      BY <1>1, <3>1, <3>2, <3>3, <3>4, <3>5
    <3>6. CASE x # p
      BY <1>1, <3>1, <3>2, <3>3, <3>4, <3>6
    <3> QED  BY <3>5, <3>6
  <2> QED  BY <2>2, <2>3
<1>3. SUBSET D \subseteq T
  <2> HIDE DEF T
  <2> QED  BY <1>2, FromTheSmallest
<1> QED  BY <1>3

LEMMA SumsOfNothing ==
  ASSUME NEW D, IsFiniteSet(D), NEW f \in [D -> {0}]
  PROVE  \A s \in SUBSET D : Sums(f)[s] = 0
<1> DEFINE T == {s \in SUBSET D : Sums(f)[s] = 0}
<1>1. DOMAIN f = D /\ \A x \in D : f[x] = 0
  OBVIOUS
<1>2. ASSUME NEW s \in SUBSET D, s # {} => s \ {CHOOSE x \in s : TRUE} \in T PROVE s \in T
  <2>1. Sums(f)[s] = Added(Sums(f), f, s)
    BY <1>1, SumsUnfold
  <2>2. CASE s = {}
    BY <2>1, <2>2 DEF Added
  <2>3. CASE s # {}
    <3>1. (CHOOSE x \in s : TRUE) \in D
      BY <2>3
    <3> QED  BY <1>1, <1>2, <2>1, <2>3, <3>1 DEF Added
  <2> QED  BY <2>2, <2>3
<1>3. SUBSET D \subseteq T
  <2> HIDE DEF T
  <2> QED  BY <1>2, FromTheSmallest
<1> QED  BY <1>3

Total(f) == FoldFunction(+, 0, f)

LEMMA TotalOfChanged ==
  ASSUME NEW D, IsFiniteSet(D), NEW f \in [D -> Int], NEW e \in [D -> Int],
         NEW p \in D, \A x \in D \ {p} : e[x] = f[x]
  PROVE  Total(f) \in Int /\ Total(e) = Total(f) + (e[p] - f[p])
<1>1. DOMAIN f = D /\ DOMAIN e = D
  OBVIOUS
<1>2. \A s \in SUBSET D : /\ Sums(f)[s] \in Int
                         /\ Sums(e)[s] = Sums(f)[s] + (IF p \in s THEN e[p] - f[p] ELSE 0)
  BY SumsOfChanged
<1>3. Sums(f)[D] \in Int /\ Sums(e)[D] = Sums(f)[D] + (e[p] - f[p])
  BY <1>2
<1>4. Total(f) = Sums(f)[D] /\ Total(e) = Sums(e)[D]
  BY <1>1, FoldIsSum DEF Total
<1> QED  BY <1>3, <1>4

LEMMA TotalOfNothing ==
  ASSUME NEW D, IsFiniteSet(D), NEW f \in [D -> {0}] PROVE Total(f) = 0
<1>1. \A s \in SUBSET D : Sums(f)[s] = 0
  BY SumsOfNothing
<1>2. DOMAIN f = D /\ Total(f) = Sums(f)[DOMAIN f]
  BY FoldIsSum DEF Total
<1> QED  BY <1>1, <1>2

\* What goes from one purse to another is still there.
LEMMA TotalOfPaid ==
  ASSUME NEW D, IsFiniteSet(D), NEW f \in [D -> Int], NEW e \in [D -> Int],
         NEW p \in D, NEW q \in D, p # q, \A x \in D \ {p, q} : e[x] = f[x]
  PROVE  /\ Total(f) \in Int
         /\ Total(e) = Total(f) + (e[p] - f[p]) + (e[q] - f[q])
<1> DEFINE m == [f EXCEPT ![p] = e[p]]
<1>1. /\ m \in [D -> Int] /\ m[p] = e[p] /\ m[q] = f[q] /\ e[p] \in Int
      /\ \A x \in D \ {p} : m[x] = f[x]
      /\ \A x \in D \ {q} : e[x] = m[x]
  OBVIOUS
<1> HIDE DEF m
<1>2. Total(f) \in Int /\ Total(m) = Total(f) + (m[p] - f[p])
  BY <1>1, TotalOfChanged
<1>3. Total(m) \in Int /\ Total(e) = Total(m) + (e[q] - m[q])
  BY <1>1, TotalOfChanged
<1>4. f[p] \in Int /\ f[q] \in Int /\ e[q] \in Int
  OBVIOUS
<1> QED  BY <1>1, <1>2, <1>3, <1>4

-----------------------------------------------------------------------------
(* Gold is conserved *)

\* A new hero's gold replaces none.
NoGoldOutside == \A h \in Heroes : position[h] = Outside => gold[Inventory(h)] = 0

LEMMA PursesFinite == IsFiniteSet(Purses)
<1>1. IsFiniteSet({"inventory", "bank", "floor"}) /\ IsFiniteSet(Heroes \cup Cells)
  <2>1. IsFiniteSet({}) /\ IsFiniteSet({"inventory"}) /\ IsFiniteSet({"inventory", "bank"})
        /\ IsFiniteSet({"inventory", "bank", "floor"})
    <3>1. IsFiniteSet({})
      BY FS_EmptySet
    <3>2. IsFiniteSet({} \cup {"inventory"})
      BY <3>1, FS_AddElement
    <3>3. IsFiniteSet(({} \cup {"inventory"}) \cup {"bank"})
      BY <3>2, FS_AddElement
    <3>4. IsFiniteSet((({} \cup {"inventory"}) \cup {"bank"}) \cup {"floor"})
      BY <3>3, FS_AddElement
    <3>5. /\ {} \cup {"inventory"} = {"inventory"}
          /\ ({} \cup {"inventory"}) \cup {"bank"} = {"inventory", "bank"}
          /\ (({} \cup {"inventory"}) \cup {"bank"}) \cup {"floor"} = {"inventory", "bank", "floor"}
      OBVIOUS
    <3>6. QED
      BY <3>1, <3>2, <3>3, <3>4, <3>5
  <2>2. QED
    BY <2>1, ItemsAssumption, FS_Union
<1>2. IsFiniteSet({"inventory", "bank", "floor"} \X (Heroes \cup Cells))
  BY <1>1, FS_Product
<1>3. Purses \subseteq {"inventory", "bank", "floor"} \X (Heroes \cup Cells)
  BY DEF Purses, Places, PlacesOf, Inventory, Bank, Slot, Floor
<1>4. QED
  BY <1>2, <1>3, FS_Subset

LEMMA ConservedTotal == GoldIsConserved <=> Total(gold) = issued
BY DEF GoldIsConserved, Total

LEMMA ConservedTotalNext == GoldIsConserved' <=> Total(gold') = issued'
<1>1. GoldIsConserved' <=> (Total(gold) = issued)'
  BY ConservedTotal, PTL
<1>2. QED
  BY <1>1

LEMMA SameGold ==
  ASSUME GoldIsConserved, UNCHANGED <<gold, issued>>
  PROVE  GoldIsConserved'
<1>1. Total(gold) = issued
  BY ConservedTotal
<1>2. Total(gold') = issued'
  BY <1>1
<1>3. QED
  BY <1>2, ConservedTotalNext

\* What a step puts in a purse, or takes from it, enters the game or leaves it.
LEMMA OnePurse ==
  ASSUME TypeOK, TypeOK', GoldIsConserved, NEW p \in Purses,
         \A q \in Purses \ {p} : gold'[q] = gold[q],
         issued' = issued + (gold'[p] - gold[p])
  PROVE  GoldIsConserved'
<1>1. gold \in [Purses -> Int] /\ gold' \in [Purses -> Int]
  BY DEF TypeOK
<1>2. Total(gold') = Total(gold) + (gold'[p] - gold[p])
  BY <1>1, PursesFinite, TotalOfChanged
<1>3. Total(gold) = issued
  BY ConservedTotal
<1>4. issued \in Int /\ gold[p] \in Int /\ gold'[p] \in Int
  BY DEF TypeOK
<1>5. Total(gold') = issued'
  BY <1>2, <1>3, <1>4
<1>6. QED
  BY <1>5, ConservedTotalNext

\* What goes from one purse to another stays in the game.
LEMMA TwoPurses ==
  ASSUME TypeOK, TypeOK', GoldIsConserved, NEW p \in Purses, NEW q \in Purses, p # q,
         \A r \in Purses \ {p, q} : gold'[r] = gold[r],
         issued' = issued + (gold'[p] - gold[p]) + (gold'[q] - gold[q])
  PROVE  GoldIsConserved'
<1>1. gold \in [Purses -> Int] /\ gold' \in [Purses -> Int]
  BY DEF TypeOK
<1>2. Total(gold') = Total(gold) + (gold'[p] - gold[p]) + (gold'[q] - gold[q])
  BY <1>1, PursesFinite, TotalOfPaid
<1>3. Total(gold) = issued
  BY ConservedTotal
<1>4. issued \in Int /\ {gold[p], gold'[p], gold[q], gold'[q]} \subseteq Int
  BY DEF TypeOK
<1>5. Total(gold') = issued'
  BY <1>2, <1>3, <1>4
<1>6. QED
  BY <1>5, ConservedTotalNext

LEMMA Payment ==
  ASSUME TypeOK, TypeOK', GoldIsConserved, NEW p \in Purses, NEW q \in Purses, p # q,
         NEW n \in Nat, n <= gold[p], gold' = Pay(n, p, q), issued' = issued
  PROVE  GoldIsConserved'
<1>1. /\ gold'[p] = gold[p] - n /\ gold'[q] = gold[q] + n
      /\ \A r \in Purses \ {p, q} : gold'[r] = gold[r]
  BY PayType
<1>2. gold[p] \in Int /\ gold[q] \in Int /\ issued \in Int
  BY DEF TypeOK
<1>3. issued' = issued + (gold'[p] - gold[p]) + (gold'[q] - gold[q])
  BY <1>1, <1>2
<1>4. QED
  BY <1>1, <1>3, TwoPurses

LEMMA StepConservesGold ==
  ASSUME ItemsInv, ItemsInv', NoGoldOutside, GoldIsConserved, NEW h \in Heroes, GoldStepOf(h)
  PROVE  GoldIsConserved'
<1> USE DEF belongings, heroState
<1>1. /\ TypeOK /\ TypeOK' /\ gold \in [Purses -> Nat] /\ issued \in Int
      /\ Inventory(h) \in Purses /\ Bank(h) \in Purses /\ Inventory(h) # Bank(h)
      /\ gold[Inventory(h)] \in Nat /\ gold[Bank(h)] \in Nat
      /\ \A c \in Cells : Floor(c) \in Purses /\ Floor(c) # Inventory(h) /\ gold[Floor(c)] \in Nat
  <2>1. TypeOK /\ TypeOK'
    BY DEF ItemsInv
  <2>2. Inventory(h) \in Purses /\ Bank(h) \in Purses /\ Inventory(h) # Bank(h)
        /\ \A c \in Cells : Floor(c) \in Purses /\ Floor(c) # Inventory(h)
    BY PlaceFacts
  <2>3. gold \in [Purses -> Nat] /\ issued \in Int
    BY <2>1 DEF TypeOK
  <2>4. QED
    BY <2>1, <2>2, <2>3
<1>2. ASSUME NEW i \in Items, BuyItem(h, i) \/ SellItem(h, i)
      PROVE  GoldIsConserved'
  <2>1. Price[i] \in Nat
    BY ItemsAssumption
  <2>2. \/ /\ gold' = [gold EXCEPT ![Inventory(h)] = @ - Price[i]] /\ issued' = issued - Price[i]
        \/ /\ gold' = [gold EXCEPT ![Inventory(h)] = @ + Price[i]] /\ issued' = issued + Price[i]
    BY <1>2 DEF BuyItem, SellItem
  <2>3. /\ \A q \in Purses \ {Inventory(h)} : gold'[q] = gold[q]
        /\ issued' = issued + (gold'[Inventory(h)] - gold[Inventory(h)])
    BY <1>1, <2>1, <2>2
  <2>4. QED
    BY <1>1, <2>3, OnePurse
<1>3. ASSUME NEW n \in 1..MaxGold, BankGold(h, n) \/ UnbankGold(h, n)
      PROVE  GoldIsConserved'
  <2>1. n \in Nat /\ issued' = issued
    BY <1>3, ItemsAssumption DEF BankGold, UnbankGold
  <2>2. CASE BankGold(h, n)
    BY <1>1, <2>1, <2>2, Payment DEF BankGold
  <2>3. CASE UnbankGold(h, n)
    BY <1>1, <2>1, <2>3, Payment DEF UnbankGold
  <2>4. QED
    BY <1>3, <2>2, <2>3
<1>4. ASSUME NEW c \in Cells, NEW kit \in Kits, EnterGame(h, c, kit)
      PROVE  GoldIsConserved'
  <2>1. gold[Inventory(h)] = 0 /\ InitialGold \in Nat
    BY <1>4, ItemsAssumption DEF EnterGame, NoGoldOutside
  <2>2. /\ \A q \in Purses \ {Inventory(h)} : gold'[q] = gold[q]
        /\ issued' = issued + (gold'[Inventory(h)] - gold[Inventory(h)])
    BY <1>1, <1>4, <2>1 DEF EnterGame
  <2>3. QED
    BY <1>1, <2>2, OnePurse
<1>5. CASE PickUpGold(h)
  <2> DEFINE floor == Floor(position[h])
             taken == IF gold[floor] < GoldSpace(h) THEN gold[floor] ELSE GoldSpace(h)
  <2>1. position[h] \in Cells
    BY <1>5 DEF PickUpGold, Acting, InRoom
  <2>2. taken \in Nat /\ taken <= gold[floor]
    BY <1>1, <2>1, GoldTypes
  <2>3. gold' = Pay(taken, floor, Inventory(h)) /\ issued' = issued
    BY <1>5 DEF PickUpGold
  <2> HIDE DEF taken
  <2>4. QED
    BY <1>1, <2>1, <2>2, <2>3, Payment
<1>6. CASE LevelUp(h)
  BY <1>6, SameGold DEF LevelUp
<1>7. CASE AddHeroDrop(h)
  <2>1. position[h] \in Cells
    BY <1>7 DEF AddHeroDrop, Fallen, InRoom
  <2>2. Excess(h) \in Nat /\ Excess(h) <= gold[Inventory(h)]
    BY <1>1, GoldTypes
  <2>3. gold' = Pay(Excess(h), Inventory(h), Floor(position[h])) /\ issued' = issued
    BY <1>7 DEF AddHeroDrop, ExcessDropped
  <2>4. QED
    BY <1>1, <2>1, <2>2, <2>3, Payment
<1>8. CASE RemoveDeathHero(h)
  <2>1. /\ gold'[Inventory(h)] = 0 /\ gold'[Bank(h)] = 0
        /\ \A q \in Purses \ {Inventory(h), Bank(h)} : gold'[q] = gold[q]
        /\ issued' = issued - gold[Inventory(h)] - gold[Bank(h)]
    BY <1>1, <1>8 DEF RemoveDeathHero
  <2>2. issued' = issued + (gold'[Inventory(h)] - gold[Inventory(h)])
                         + (gold'[Bank(h)] - gold[Bank(h)])
    BY <1>1, <2>1
  <2>3. QED
    BY <1>1, <2>1, <2>2, TwoPurses
<1>9. QED
  BY <1>2, <1>3, <1>4, <1>5, <1>6, <1>7, <1>8 DEF GoldStepOf

LEMMA ConservedKept ==
  ASSUME ItemsInv, ItemsInv', NoGoldOutside, GoldIsConserved, [Next]_vars
  PROVE  GoldIsConserved'
<1>1. ASSUME NEW c \in Cells, NEW i \in Items, NEW n \in 0..MonsterGold, AddMonsterDrop(c, i, n)
      PROVE  GoldIsConserved'
  <2>1. TypeOK /\ TypeOK' /\ Floor(c) \in Purses
    BY PlaceFacts DEF ItemsInv
  <2>2. gold \in [Purses -> Nat] /\ gold[Floor(c)] \in Nat /\ issued \in Int /\ n \in Int
    BY <2>1, ItemsAssumption DEF TypeOK
  <2>3. /\ \A q \in Purses \ {Floor(c)} : gold'[q] = gold[q]
        /\ issued' = issued + (gold'[Floor(c)] - gold[Floor(c)])
    BY <1>1, <2>1, <2>2 DEF AddMonsterDrop
  <2>4. QED
    BY <2>1, <2>3, OnePurse
<1>2. CASE ~GoldSteps
  BY <1>2, OtherGoldSteps, SameGold
<1>3. QED
  BY <1>1, <1>2, StepConservesGold DEF GoldSteps

\* Who is outside after a step of others was outside before it.
LEMMA OutsideBefore ==
  ASSUME TypeOK, NEW g \in Heroes, position'[g] = Outside,
         ~RemoveDeathHero(g), [Next]_vars
  PROVE  position[g] = Outside
<1> USE ItemsAssumption
<1>1. position \in [Heroes -> Cells \cup {Road, Outside}]
  BY DEF TypeOK
<1>2. ASSUME NEW h \in Heroes, Revive(h) \/ Die(h)
      PROVE  position[g] = Outside
  BY <1>2 DEF Revive, Die
<1>3. ASSUME NEW h \in Heroes, LeaveRoom(h)
      PROVE  position[g] = Outside
  BY <1>1, <1>3 DEF LeaveRoom
<1>4. ASSUME NEW h \in Heroes, RemoveDeathHero(h)
      PROVE  position[g] = Outside
  BY <1>1, <1>4 DEF RemoveDeathHero
<1>5. ASSUME NEW h \in Heroes, NEW c \in Cells,
             TryToUnblock(h, c) \/ AutoMove(h, c) \/ AddExistingHero(h, c)
      PROVE  position[g] = Outside
  BY <1>1, <1>5 DEF TryToUnblock, AutoMove, AddExistingHero
<1>6. ASSUME NEW h \in Heroes, NEW c \in Cells, NEW kit \in Kits, EnterGame(h, c, kit)
      PROVE  position[g] = Outside
  BY <1>1, <1>6 DEF EnterGame
<1>7. CASE GoOn \/ SendGameStatus \/ EndDrops \/ EndRemoval
  BY <1>7 DEF GoOn, SendGameStatus, EndDrops, EndRemoval
<1>8. CASE ~MoveSteps
  BY <1>8, OtherMoveSteps
<1>9. QED
  BY <1>2, <1>3, <1>4, <1>5, <1>6, <1>7, <1>8 DEF MoveSteps

\* A hero's gold changes only in the room, or when it enters the game.
LEMMA GoldStepInRoom ==
  ASSUME TypeOK, NEW g \in Heroes, GoldStepOf(g),
         position[g] = Outside, position'[g] = Outside
  PROVE  gold'[Inventory(g)] = gold[Inventory(g)]
<1>1. g \notin InRoom
  BY ItemsAssumption DEF InRoom
<1>2. ~\E c \in Cells, kit \in Kits : EnterGame(g, c, kit)
  BY ItemsAssumption DEF EnterGame, TypeOK
<1>3. LevelUp(g)
  BY <1>1, <1>2 DEF GoldStepOf, BuyItem, SellItem, BankGold, UnbankGold,
                    PickUpGold, AtBank, Acting, AddHeroDrop, Fallen, RemoveDeathHero
<1>4. QED
  BY <1>3 DEF LevelUp, belongings

\* Gold reaches a hero's purse only while it plays.
LEMMA NoGoldOutsideKept ==
  ASSUME ItemsInv, NoGoldOutside, [Next]_vars
  PROVE  NoGoldOutside'
<1>1. TypeOK
  BY DEF ItemsInv
<1>2. SUFFICES ASSUME NEW g \in Heroes, position'[g] = Outside
               PROVE  gold'[Inventory(g)] = 0
  BY DEF NoGoldOutside
<1>3. CASE RemoveDeathHero(g)
  BY <1>1, <1>3, PlaceFacts DEF RemoveDeathHero, TypeOK
<1>4. CASE ~RemoveDeathHero(g)
  <2>1. position[g] = Outside /\ gold[Inventory(g)] = 0
    <3>1. position[g] = Outside
      BY <1>1, <1>2, <1>4, OutsideBefore
    <3>2. QED
      BY <3>1 DEF NoGoldOutside
  <2>2. ASSUME NEW h \in Heroes, GoldStepOf(h)
        PROVE  gold'[Inventory(g)] = gold[Inventory(g)]
    <3>1. CASE h = g
      BY <1>1, <1>2, <2>1, <2>2, <3>1, GoldStepInRoom
    <3>2. CASE h # g
      BY <1>1, <2>2, <3>2, OthersKeepGold
    <3>3. QED
      BY <3>1, <3>2
  <2>3. ASSUME NEW c \in Cells, NEW i \in Items, NEW n \in 0..MonsterGold,
               AddMonsterDrop(c, i, n)
        PROVE  gold'[Inventory(g)] = gold[Inventory(g)]
    BY <1>1, <2>3, PlaceFacts DEF AddMonsterDrop, TypeOK
  <2>4. CASE ~GoldSteps
    BY <2>1, <2>4, OtherGoldSteps
  <2>5. QED
    BY <2>1, <2>2, <2>3, <2>4 DEF GoldSteps
<1>5. QED
  BY <1>3, <1>4

-----------------------------------------------------------------------------
(* Theorems *)

LEMMA Initially ==
  ASSUME Init
  PROVE  ItemsInv
<1> USE ItemsAssumption DEF Init
<1>1. TypeOK
  BY DEF TypeOK, Phases
<1>2. ItemHasOneOwner
  BY DEF ItemHasOneOwner
<1>3. WithinCapacity
  BY PlaceFacts, FS_EmptySet DEF WithinCapacity
<1>4. EquipmentIsLegal
  <2>1. \A h \in Heroes, s \in Slots : items[Slot(h, s)] = {}
    BY PlaceFacts
  <2>2. "staff" \in Slots /\ "staff" \in Hands
    BY DEF Slots, Hands
  <2>3. QED
    BY <2>1, <2>2 DEF EquipmentIsLegal
<1>5. GoldWithinLimit
  <2>1. ASSUME NEW h \in Heroes
        PROVE  gold[Inventory(h)] <= GoldLimit(h)
    <3>1. gold[Inventory(h)] = 0
      BY PlaceFacts
    <3>2. GoldLimit(h) \in Nat
      BY <1>1, GoldTypes
    <3>3. QED
      BY <3>1, <3>2
  <2>2. QED
    BY <2>1 DEF GoldWithinLimit
<1>6. NothingOutside
  BY PlaceFacts DEF NothingOutside
<1>7. SweptGhostsHoldNothing
  BY DEF SweptGhostsHoldNothing
<1>8. QED
  BY <1>1, <1>2, <1>3, <1>4, <1>5, <1>6, <1>7 DEF ItemsInv

LEMMA ItemsInvKept ==
  ASSUME ItemsInv, [Next]_vars
  PROVE  ItemsInv'
<1>1. TypeOK'
  BY TypesKept DEF ItemsInv
<1>2. ItemHasOneOwner'
  BY OwnersKept
<1>3. WithinCapacity'
  BY CapacityKept
<1>4. EquipmentIsLegal'
  BY EquipmentKept
<1>5. GoldWithinLimit'
  BY <1>1, GoldLimitKept
<1>6. NothingOutside'
  BY OutsideKept
<1>7. SweptGhostsHoldNothing'
  BY <1>1, SweptKept
<1>8. QED
  BY <1>1, <1>2, <1>3, <1>4, <1>5, <1>6, <1>7 DEF ItemsInv

\* The inductive invariant: where every item is, what every hero carries and
\* wears, and what the clean-up has left to the ghosts.
THEOREM ItemsInvariant == Spec => []ItemsInv
<1>1. Init => ItemsInv
  BY Initially
<1>2. ItemsInv /\ [Next]_vars => ItemsInv'
  BY ItemsInvKept
<1>3. QED
  BY <1>1, <1>2, PTL DEF Spec

\* The variables of the items and the gold keep their types: no purse goes
\* below zero.
THEOREM ItemsTypeCorrect == Spec => []TypeOK
<1>1. ItemsInv => TypeOK
  BY DEF ItemsInv
<1>2. QED
  BY <1>1, ItemsInvariant, PTL

\* No item is lost, doubled, or used after it was deleted.
THEOREM OneOwner == Spec => []ItemHasOneOwner
<1>1. ItemsInv => ItemHasOneOwner
  BY DEF ItemsInv
<1>2. QED
  BY <1>1, ItemsInvariant, PTL

\* No inventory and no bank holds more than was reserved for it.
THEOREM CapacityHolds == Spec => []WithinCapacity
<1>1. ItemsInv => WithinCapacity
  BY DEF ItemsInv
<1>2. QED
  BY <1>1, ItemsInvariant, PTL

\* A hero wears one item of the right kind on each slot, and a weapon or a
\* staff but not both.
THEOREM EquipmentStaysLegal == Spec => []EquipmentIsLegal
<1>1. ItemsInv => EquipmentIsLegal
  BY DEF ItemsInv
<1>2. QED
  BY <1>1, ItemsInvariant, PTL

\* The unsigned difference of gold_space_remaining() never goes below zero.
THEOREM GoldStaysWithinLimit == Spec => []GoldWithinLimit
<1>1. ItemsInv => GoldWithinLimit
  BY DEF ItemsInv
<1>2. QED
  BY <1>1, ItemsInvariant, PTL

\* The clean-up leaves nothing to the ghosts it passes.
THEOREM GhostsAreSwept == Spec => []SweptGhostsHoldNothing
<1>1. ItemsInv => SweptGhostsHoldNothing
  BY DEF ItemsInv
<1>2. QED
  BY <1>1, ItemsInvariant, PTL

\* No step gives a ghost anything, or touches its equipment or its bank.
THEOREM GhostsGainNothing == Spec => GhostsOnlyLose
<1> DEFINE Lose == \A h \in ghosts \cap ghosts' :
       /\ items'[Inventory(h)] \subseteq items[Inventory(h)]
       /\ gold'[Inventory(h)] <= gold[Inventory(h)]
       /\ \A p \in PlacesOf(h) \ {Inventory(h)} : items'[p] = items[p]
<1>1. ItemsInv /\ [Next]_vars => [Lose]_vars
  <2>1. SUFFICES ASSUME ItemsInv, [Next]_vars PROVE Lose
    OBVIOUS
  <2>2. ASSUME NEW h \in ghosts \cap ghosts'
        PROVE  OnlyLoses(h)
    <3>1. h \in Heroes
      BY <2>1 DEF ItemsInv, TypeOK
    <3>2. QED
      BY <2>1, <3>1, GhostsLose
  <2>3. QED
    BY <2>2 DEF OnlyLoses
<1>2. QED
  BY <1>1, ItemsInvariant, PTL DEF Spec, GhostsOnlyLose

LEMMA GoldInitially ==
  ASSUME Init
  PROVE  NoGoldOutside /\ GoldIsConserved
<1>1. NoGoldOutside
  BY PlaceFacts DEF Init, NoGoldOutside
<1>2. gold \in [Purses -> {0}] /\ issued = 0
  BY DEF Init
<1>3. Total(gold) = 0
  BY <1>2, PursesFinite, TotalOfNothing
<1>4. QED
  BY <1>1, <1>2, <1>3, ConservedTotal

\* The inductive invariant of the gold: to that of the items it adds that a
\* hero that does not play left no gold in the game.
THEOREM GoldInvariant == Spec => [](ItemsInv /\ NoGoldOutside /\ GoldIsConserved)
<1> DEFINE GoldInv == NoGoldOutside /\ GoldIsConserved
<1>1. Init => GoldInv
  BY GoldInitially
<1>2. ItemsInv /\ ItemsInv' /\ GoldInv /\ [Next]_vars => GoldInv'
  BY ConservedKept, NoGoldOutsideKept
<1>3. QED
  BY <1>1, <1>2, ItemsInvariant, PTL DEF Spec

\* The gold of all purses is what entered the game less what left it: no
\* banking, picking up, dying or change of room makes or loses a coin.
THEOREM GoldStaysInTheGame == Spec => []GoldIsConserved
<1>1. QED
  BY GoldInvariant, PTL

=============================================================================
