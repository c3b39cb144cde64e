------------------------------ MODULE HeroThings ------------------------------
(***************************************************************************)
(* What one hero carries, kind by kind and in order, and how a record      *)
(* keeps it while the hero is away.                                        *)
(*                                                                         *)
(* HeroItems follows each item from owner to owner; here an item is the id *)
(* of its kind, which is all that a record holds: loading the record makes *)
(* new items of those kinds, puts them in the inventory one by one and     *)
(* wears again those that were worn.                                       *)
(***************************************************************************)
EXTENDS Integers, SequencesExt

CONSTANTS
  InventorySize, BankSize,
  ItemPrice,            \* items configuration, by id
  RecordLimit           \* a record keeps a number modulo this

-----------------------------------------------------------------------------
(* Items *)

Nothing == 0
ItemIds == 1 .. 20

Slots == {"helmet", "armour", "shield", "staff", "weapon"}

\* What is made for each id, and where its use() puts it.
Shields == 1 .. 2
Helmets == 3 .. 5
Armours == 6 .. 8
Consumables == 9 .. 10
Weapons == 11 .. 15
Sticks == 16 .. 20

OfKind == [shield |-> Shields, helmet |-> Helmets, armour |-> Armours,
           potion |-> Consumables, weapon |-> Weapons, staff |-> Sticks]

SlotOf(id) == CHOOSE s \in Slots : id \in OfKind[s]

\* The factory asks for min_defense and max_defense, and the configuration calls
\* them minDefense and maxDefense: a missing number is 0.
Defense(id) == [min |-> 0, max |-> 0]

\* The deadly staff is missing from the list of prices.
Price(id) == IF id = 20 THEN 0 ELSE ItemPrice[id]

\* What the merchant and the priest have to sell.
ForSale == (Shields \cup Helmets \cup Armours \cup Weapons)
           \cup (Consumables \cup (Sticks \ {20}))

ASSUME ThingsAssumption ==
  /\ {InventorySize, BankSize} \subseteq Nat /\ InventorySize > 0
  /\ RecordLimit \in Nat \ {0}
  /\ ItemPrice \in [ItemIds -> Nat]

-----------------------------------------------------------------------------
(* The inventory, the equipment and the bank of a hero *)

Empty(gold) ==
  [worn |-> [s \in Slots |-> Nothing], items |-> <<>>, bank |-> <<>>,
   gold |-> gold, banked |-> 0]

Things == [worn : [Slots -> ItemIds \cup {Nothing}], items : Seq(ItemIds),
           bank : Seq(ItemIds), gold : Nat, banked : Nat]

IsFull(t) == Len(t.items) = InventorySize
BankIsFull(t) == Len(t.bank) = BankSize
HasItem(t, id) == Contains(t.items, id)
IsWorn(t, id) == \E s \in Slots : t.worn[s] = id

AddItem(t, id) == [t EXCEPT !.items = Cons(id, @)]
RemoveItem(t, id) == [t EXCEPT !.items = RemoveFirst(@, id)]
AddToBank(t, id) == [t EXCEPT !.bank = Cons(id, @)]
RemoveFromBank(t, id) == [t EXCEPT !.bank = RemoveFirst(@, id)]

\* A staff and a weapon are never held at once.
CanHold(t, s) ==
  /\ s = "weapon" => t.worn["staff"] = Nothing
  /\ s = "staff" => t.worn["weapon"] = Nothing

\* Hero::equip_*: the first item of that id goes from the inventory to its slot.
Equip(t, s, id) ==
  IF HasItem(t, id) /\ CanHold(t, s)
  THEN [RemoveItem(t, id) EXCEPT !.worn[s] = id]
  ELSE t

TakenOff(t, s) == [t EXCEPT !.worn[s] = Nothing]

\* What has to come off before an item of slot s goes on: both hands are one.
InTheWay(t, s) ==
  IF s \in {"weapon", "staff"} /\ t.worn["staff"] # Nothing THEN "staff"
  ELSE IF s \in {"weapon", "staff"} THEN "weapon"
  ELSE s

Put(t, id) == IF id = Nothing THEN t ELSE AddItem(t, id)

\* Item::use of whatever is worn: what was there goes back to the inventory.
Exchanged(t, id) ==
  LET s == SlotOf(id)
      w == InTheWay(t, s)
  IN Put(Equip(TakenOff(t, w), s, id), t.worn[w])

\* Equipment::unequip, whichever slot the item is on.
Unequipped(t, id) ==
  LET s == CHOOSE s \in Slots : t.worn[s] = id IN AddItem(TakenOff(t, s), id)

\* The item one fights with, if any.
InHand(t) == IF t.worn["weapon"] # Nothing THEN t.worn["weapon"] ELSE t.worn["staff"]

\* Of three pieces of armour the last one counts, not their sum.
DefenseBonus(t) ==
  LET defense(s) == Defense(t.worn[s]).min .. Defense(t.worn[s]).max
  IN IF t.worn["shield"] # Nothing THEN defense("shield")
     ELSE IF t.worn["armour"] # Nothing THEN defense("armour")
     ELSE IF t.worn["helmet"] # Nothing THEN defense("helmet")
     ELSE {0}

\* setup_new_hero: what a new hero of each class is given, in that order: each new
\* item comes first.
KitOf == [mage |-> <<16, 8, 5>>, paladin |-> <<2, 4, 7, 11>>,
          cleric |-> <<1, 8, 16>>, warrior |-> <<1, 3, 6, 12>>]

NewThings(class, gold) == [Empty(gold) EXCEPT !.items = Reverse(KitOf[class])]

-----------------------------------------------------------------------------
(* The record *)

\* The worn items are pairs of a slot and an id, as a function of the slots.
SerializedThings(t) ==
  [worn |-> t.worn, items |-> t.items, bank |-> t.bank,
   gold |-> t.gold % RecordLimit, banked |-> t.banked % RecordLimit]

\* An item that was worn is made anew in the inventory, and equipped from there.
WornAgain(t, s, id) == IF id = Nothing THEN t ELSE Equip(AddItem(t, id), s, id)

\* In the order of the slots' numbers, 0 to 4.
DeserializedWorn(r) ==
  LET again(t, s) == WornAgain(t, s, r.worn[s])
      armed == again(again(again(Empty(r.gold), "helmet"), "armour"), "shield")
  IN again(again(armed, "staff"), "weapon")

\* The others follow, each of them put first.
DeserializedThings(r) ==
  [DeserializedWorn(r) EXCEPT !.items = Reverse(r.items) \o @,
                              !.bank = Reverse(r.bank) \o @, !.banked = @ + r.banked]

\* The most the inventory holds on the way: add_item throws when it is full.
FitsOnTheWay(r) ==
  /\ (\E s \in Slots : r.worn[s] # Nothing) => InventorySize >= 1
  /\ Len(DeserializedThings(r).items) <= InventorySize
  /\ Len(r.bank) <= BankSize

\* The same items but for the order, which every session reverses.
SameThings(t, u) ==
  /\ t.worn = u.worn
  /\ ToBag(t.items) = ToBag(u.items) /\ ToBag(t.bank) = ToBag(u.bank)

=============================================================================
