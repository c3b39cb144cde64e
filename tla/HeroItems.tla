------------------------------ MODULE HeroItems ------------------------------
(***************************************************************************)
(* The items and the gold of the heroes of one room.                       *)
(*                                                                         *)
(* Every Item and every coin is in one place: the inventory, the equipment *)
(* or the bank of a hero, or the drop that lies on a cell of the map.  The *)
(* commands of the players, the monsters, the projectiles, the clean-up of *)
(* the room and the threads that bring heroes in and take them out all     *)
(* move them.                                                              *)
(*                                                                         *)
(* One loop of ArgentumGame::run is a turn of `phase': update() executes   *)
(* the queued commands and then moves monsters, heroes and projectiles     *)
(* with the room's mutex held; send_game_status() reads everything; the    *)
(* clean-up that follows makes the drops and deletes the heroes that left, *)
(* without the mutex.  Heroes enter and leave whenever it is free.         *)
(*                                                                         *)
(* An item is identified by itself, not by the id of its kind: two items   *)
(* of one id are interchangeable, and the code takes the first it finds.   *)
(***************************************************************************)
EXTENDS Integers, FiniteSets, Functions

CONSTANTS Heroes, Cells, Items,
          Kind,             \* the slot an item is worn on, or "consumable"
          Price,            \* items configuration
          PriestSells, MerchantSells,   \* the two lists of items for sale
          Priests, Merchants, Bankers,  \* cells next to one of each
          InventorySize, BankSize,      \* capacities of the two vectors
          SafeGold,         \* max_safe_gold_multiplier
          InitialGold,      \* gold of a new hero
          KitSize,          \* items of a new hero
          MonsterGold,      \* most gold a dead monster leaves
          Wrapped,          \* an unsigned difference that went below zero
          MaxLevel,         \* bound: level of a hero
          MaxGold,          \* bound: gold in the room
          MaxMissing,       \* bound: null items in a drop
          Road, Outside     \* between two rooms, and not playing

Slots == {"weapon", "staff", "helmet", "armour", "shield"}
Hands == {"weapon", "staff"}

ASSUME ItemsAssumption ==
  /\ IsFiniteSet(Items) /\ IsFiniteSet(Heroes) /\ IsFiniteSet(Cells)
  /\ Kind \in [Items -> Slots \cup {"consumable"}]
  /\ Price \in [Items -> Nat]
  /\ PriestSells \cup MerchantSells \subseteq Items
  /\ Road \notin Cells /\ Outside \notin Cells /\ Road # Outside
  /\ {InventorySize, BankSize, SafeGold, InitialGold, KitSize, MonsterGold,
      Wrapped, MaxLevel, MaxGold, MaxMissing} \subseteq Nat
  /\ KitSize <= InventorySize
  /\ InitialGold <= SafeGold

VARIABLES
  phase,      \* what the room's thread does next
  position,   \* the cell of each hero of the room
  items,      \* what each place holds: Inventory::items, the pointers of
              \* Equipment, Drop::items
  allocated,  \* items created and not yet deleted
  missing,    \* null pointers in the items of each drop
  gold,       \* Inventory::gold and Drop::gold, per place
  issued,     \* gold that entered the game less gold that left it
  level,      \* Hero::level, which decides max_safe_gold
  ghosts,     \* heroes in ghost_mode
  blocked,    \* heroes waiting to revive
  quitting,   \* heroes whose alive flag a Quit cleared
  late        \* heroes that came after the clean-up began

belongings == <<items, allocated, missing, gold, issued>>
heroState  == <<level, ghosts, blocked, quitting>>
vars == <<phase, position, belongings, heroState, late>>

-----------------------------------------------------------------------------
(* Places *)

Inventory(h) == <<"inventory", h>>
Bank(h) == <<"bank", h>>
Slot(h, s) == <<s, h>>
Floor(c) == <<"floor", c>>

PlacesOf(h) == {Inventory(h), Bank(h)} \cup {Slot(h, s) : s \in Slots}
Places == (UNION {PlacesOf(h) : h \in Heroes}) \cup {Floor(c) : c \in Cells}
Purses == {p \in Places : p[1] \in {"inventory", "bank", "floor"}}

Phases == {"commands", "monsters", "heroes", "projectiles", "status",
           "drops", "removal", "crashed"}

TypeOK ==
  /\ phase \in Phases
  /\ position \in [Heroes -> Cells \cup {Road, Outside}]
  /\ items \in [Places -> SUBSET Items]
  /\ allocated \in SUBSET Items
  /\ missing \in [Cells -> 0..MaxMissing]
  /\ gold \in [Purses -> Nat]
  /\ issued \in Int
  /\ level \in [Heroes -> Nat]
  /\ {ghosts, blocked, quitting, late} \subseteq SUBSET Heroes

Init ==
  /\ phase = "commands"
  /\ position = [h \in Heroes |-> Outside]
  /\ items = [p \in Places |-> {}]
  /\ allocated = {}
  /\ missing = [c \in Cells |-> 0]
  /\ gold = [p \in Purses |-> 0]
  /\ issued = 0
  /\ level = [h \in Heroes |-> 0]
  /\ ghosts = {} /\ blocked = {} /\ quitting = {} /\ late = {}

-----------------------------------------------------------------------------
(* Helpers *)

InRoom == {h \in Heroes : position[h] \in Cells}
Free(c) == \A h \in Heroes : position[h] # c

\* A command finds the hero in the room, and its player has not quit.
Acting(h) == phase = "commands" /\ h \in InRoom \ quitting

Living(h) == h \notin ghosts

\* The receivers and the listener take the mutex between two updates.
Unlocked == phase \in {"status", "drops", "removal"}

IsFull(h) == Cardinality(items[Inventory(h)]) = InventorySize
BankIsFull(h) == Cardinality(items[Bank(h)]) = BankSize

\* Not the code: a pointer copied and not erased.
Copy(i, p, q) == [items EXCEPT ![q] = @ \cup {i}]

\* One item taken out of a place and put in another.
Move(i, p, q) == [items EXCEPT ![p] = @ \ {i}, ![q] = @ \cup {i}]

Pay(n, p, q) == [gold EXCEPT ![p] = @ - n, ![q] = @ + n]

\* max_safe_gold, and what a hero may carry.
MaxSafe(h) == SafeGold * level[h]
GoldLimit(h) == MaxSafe(h) + MaxSafe(h) \div 2
CanHoldMoreGold(h) == gold[Inventory(h)] < GoldLimit(h)

\* Not the code: the price of an item not compared with the gold, the gold of
\* the hero forgotten.
HasAnyGold(h, n) == TRUE
WholeLimit(h) == GoldLimit(h)

HasGold(h, n) == gold[Inventory(h)] >= n

\* gold_space_remaining() is an unsigned difference.
GoldSpace(h) == IF gold[Inventory(h)] <= GoldLimit(h)
                THEN GoldLimit(h) - gold[Inventory(h)] ELSE Wrapped

\* Excess over max_safe_gold: what remove_excess_gold() takes from a ghost.
Excess(h) == IF gold[Inventory(h)] > MaxSafe(h)
             THEN gold[Inventory(h)] - MaxSafe(h) ELSE 0

Sells(h, i) == \/ position[h] \in Priests /\ i \in PriestSells
               \/ position[h] \in Merchants /\ i \in MerchantSells

-----------------------------------------------------------------------------
(* Equipment: use_item(), which dispatches to the kind of the item, and    *)
(* unequip()                                                               *)

\* DefensiveItem::use: what was worn on the slot returns to the inventory.
Worn(h, i) ==
  LET slot == Slot(h, Kind[i]) IN
  [items EXCEPT ![slot] = {i}, ![Inventory(h)] = (@ \ {i}) \cup items[slot]]

\* Not the code: only the item of the same kind is put away.
InItsSlot(h, i) == Worn(h, i)

\* Weapon::use and Staff::use first put away the staff or, without one, the
\* weapon, so that can_hold_weapon() or can_hold_staff() holds.
InHand(h, i) ==
  LET other == Slot(h, IF items[Slot(h, "staff")] # {} THEN "staff"
                                                       ELSE "weapon")
  IN [items EXCEPT ![other] = {}, ![Slot(h, Kind[i])] = {i},
                   ![Inventory(h)] = (@ \ {i}) \cup items[other]]

UseItem(h, i) ==
  /\ Acting(h) /\ Living(h)
  /\ i \in items[Inventory(h)]
  /\ \/ Kind[i] \in Hands /\ items' = InHand(h, i) /\ UNCHANGED allocated
     \/ /\ Kind[i] \in Slots \ Hands
        /\ items' = Worn(h, i)
        /\ UNCHANGED allocated
     \/ /\ Kind[i] = "consumable"       \* Consumable::use deletes it
        /\ items' = [items EXCEPT ![Inventory(h)] = @ \ {i}]
        /\ allocated' = allocated \ {i}
  /\ UNCHANGED <<phase, position, missing, gold, issued, heroState, late>>

Unequip(h, s) ==
  /\ Acting(h) /\ Living(h)
  /\ ~IsFull(h)
  /\ \E i \in items[Slot(h, s)] : items' = Move(i, Slot(h, s), Inventory(h))
  /\ UNCHANGED <<phase, position, allocated, missing, gold, issued, heroState,
                 late>>

-----------------------------------------------------------------------------
(* The ground *)

DropItem(h, i) ==
  /\ Acting(h) /\ Living(h)
  /\ i \in items[Inventory(h)]
  /\ items' = Move(i, Inventory(h), Floor(position[h]))
  /\ UNCHANGED <<phase, position, allocated, missing, gold, issued, heroState,
                 late>>

\* The player names an item that is not in the inventory any more:
\* remove_item() returns null and hero_drop_item() adds it to the drop.
DropNothing(h) ==
  /\ Acting(h) /\ Living(h)
  /\ missing[position[h]] < MaxMissing
  /\ missing' = [missing EXCEPT ![position[h]] = @ + 1]
  /\ UNCHANGED <<phase, position, items, allocated, gold, issued, heroState,
                 late>>

\* Drop::size counts the null pointers too.
SomethingIn(c) == items[Floor(c)] # {} \/ missing[c] > 0

\* pick_up_drop(): one item while there is room for it, otherwise gold.
PickUpItem(h, i) ==
  /\ Acting(h) /\ Living(h)
  /\ i \in items[Floor(position[h])]
  /\ ~IsFull(h)
  /\ items' = Move(i, Floor(position[h]), Inventory(h))
  /\ UNCHANGED <<phase, position, allocated, missing, gold, issued, heroState,
                 late>>

\* take_item() erases the null pointer it returns.
PickUpNothing(h) ==
  /\ Acting(h) /\ Living(h)
  /\ missing[position[h]] > 0
  /\ ~IsFull(h)
  /\ missing' = [missing EXCEPT ![position[h]] = @ - 1]
  /\ UNCHANGED <<phase, position, items, allocated, gold, issued, heroState,
                 late>>

PickUpGold(h) ==
  LET floor == Floor(position[h])
      taken == IF gold[floor] < GoldSpace(h) THEN gold[floor]
                                             ELSE GoldSpace(h) IN
  /\ Acting(h) /\ Living(h)
  /\ SomethingIn(position[h]) => IsFull(h)
  /\ gold[floor] > 0
  /\ CanHoldMoreGold(h)
  /\ gold' = Pay(taken, floor, Inventory(h))
  /\ UNCHANGED <<phase, position, items, allocated, missing, issued, heroState,
                 late>>

-----------------------------------------------------------------------------
(* Shops and bank *)

\* hero_buy_item() creates the item after taking the gold.
BuyItem(h, i) ==
  /\ Acting(h) /\ Living(h)
  /\ ~IsFull(h)
  /\ Sells(h, i) /\ i \notin allocated
  /\ HasGold(h, Price[i])
  /\ gold' = [gold EXCEPT ![Inventory(h)] = @ - Price[i]]
  /\ issued' = issued - Price[i]
  /\ items' = [items EXCEPT ![Inventory(h)] = @ \cup {i}]
  /\ allocated' = allocated \cup {i}
  /\ UNCHANGED <<phase, position, missing, heroState, late>>

\* hero_sell_item() deletes the item.
SellItem(h, i) ==
  /\ Acting(h) /\ Living(h)
  /\ i \in items[Inventory(h)]
  /\ Sells(h, i)
  /\ GoldSpace(h) >= Price[i]
  /\ issued + Price[i] <= MaxGold
  /\ gold' = [gold EXCEPT ![Inventory(h)] = @ + Price[i]]
  /\ issued' = issued + Price[i]
  /\ items' = [items EXCEPT ![Inventory(h)] = @ \ {i}]
  /\ allocated' = allocated \ {i}
  /\ UNCHANGED <<phase, position, missing, heroState, late>>

AtBank(h) == Acting(h) /\ position[h] \in Bankers /\ Living(h)

BankItem(h, i) ==
  /\ AtBank(h)
  /\ ~BankIsFull(h)
  /\ i \in items[Inventory(h)]
  /\ items' = Move(i, Inventory(h), Bank(h))
  /\ UNCHANGED <<phase, position, allocated, missing, gold, issued, heroState,
                 late>>

UnbankItem(h, i) ==
  /\ AtBank(h)
  /\ ~IsFull(h)
  /\ i \in items[Bank(h)]
  /\ items' = Move(i, Bank(h), Inventory(h))
  /\ UNCHANGED <<phase, position, allocated, missing, gold, issued, heroState,
                 late>>

BankGold(h, n) ==
  /\ AtBank(h)
  /\ gold[Inventory(h)] >= n
  /\ gold' = Pay(n, Inventory(h), Bank(h))
  /\ UNCHANGED <<phase, position, items, allocated, missing, issued, heroState,
                 late>>

UnbankGold(h, n) ==
  /\ AtBank(h)
  /\ gold[Bank(h)] >= n
  /\ GoldSpace(h) >= n
  /\ gold' = Pay(n, Bank(h), Inventory(h))
  /\ UNCHANGED <<phase, position, items, allocated, missing, issued, heroState,
                 late>>

-----------------------------------------------------------------------------
(* Life, death and levels *)

\* hero_revive() next to a priest.
Revive(h) ==
  /\ Acting(h)
  /\ position[h] \in Priests
  /\ ghosts' = ghosts \ {h}
  /\ UNCHANGED <<phase, position, belongings, level, blocked, quitting, late>>

\* hero_revive() far from the priest of the map: block() waits for him.
WaitToRevive(h) ==
  /\ Acting(h) /\ ~Living(h)
  /\ Priests # {} /\ position[h] \notin Priests
  /\ blocked' = blocked \cup {h}
  /\ UNCHANGED <<phase, position, belongings, level, ghosts, quitting, late>>

\* QuitCommand::execute saves the hero and clears its alive flag.
Quit(h) ==
  /\ Acting(h)
  /\ quitting' = quitting \cup {h}
  /\ UNCHANGED <<phase, position, belongings, level, ghosts, blocked, late>>

\* The command of the L key, and the experience of a hit.  Ghosts too.
LevelUp(h) ==
  /\ Acting(h) \/ (phase = "projectiles" /\ h \in InRoom)
  /\ level[h] < MaxLevel
  /\ level' = [level EXCEPT ![h] = @ + 1]
  /\ UNCHANGED <<phase, position, belongings, ghosts, blocked, quitting, late>>

\* A monster next to the hero or a projectile took its last hp.
Die(h) ==
  /\ phase \in {"monsters", "projectiles"}
  /\ h \in InRoom /\ Living(h)
  /\ ghosts' = ghosts \cup {h}
  /\ UNCHANGED <<phase, position, belongings, level, blocked, quitting, late>>

\* try_to_unblock() when the time is over: near the priest, on a free cell.
TryToUnblock(h, c) ==
  /\ phase = "heroes"
  /\ h \in InRoom \cap blocked
  /\ Free(c)
  /\ ghosts' = ghosts \ {h}
  /\ blocked' = blocked \ {h}
  /\ position' = [position EXCEPT ![h] = c]
  /\ UNCHANGED <<phase, belongings, level, quitting, late>>

AutoMove(h, c) ==
  /\ phase = "heroes"
  /\ h \in InRoom \ blocked
  /\ Free(c)
  /\ position' = [position EXCEPT ![h] = c]
  /\ UNCHANGED <<phase, belongings, heroState, late>>

-----------------------------------------------------------------------------
(* Heroes that come and go *)

\* add_new_hero() with the items setup_new_hero() gives it.
EnterGame(h, c, kit) ==
  /\ Unlocked
  /\ position[h] = Outside /\ Free(c)
  /\ \A i \in kit : i \notin allocated /\ Kind[i] \in Slots
  /\ issued + InitialGold <= MaxGold
  /\ position' = [position EXCEPT ![h] = c]
  /\ items' = [items EXCEPT ![Inventory(h)] = kit]
  /\ allocated' = allocated \cup kit
  /\ gold' = [gold EXCEPT ![Inventory(h)] = InitialGold]
  /\ issued' = issued + InitialGold
  /\ level' = [level EXCEPT ![h] = 1]
  /\ late' = late \cup {h}
  /\ UNCHANGED <<phase, missing, ghosts, blocked, quitting>>

\* remove_hero_and_notification_queue(): the hero takes its belongings along.
LeaveRoom(h) ==
  /\ Unlocked
  /\ h \in InRoom \ quitting
  /\ position' = [position EXCEPT ![h] = Road]
  /\ late' = late \ {h}
  /\ UNCHANGED <<phase, belongings, heroState>>

\* add_existing_hero()
AddExistingHero(h, c) ==
  /\ Unlocked
  /\ position[h] = Road /\ Free(c)
  /\ position' = [position EXCEPT ![h] = c]
  /\ late' = late \cup {h}
  /\ UNCHANGED <<phase, belongings, heroState>>

-----------------------------------------------------------------------------
(* The turns of the room's thread *)

NextPhase == [commands |-> "monsters", monsters |-> "heroes",
              heroes |-> "projectiles", projectiles |-> "status"]

\* The parts of update(), one after the other.
GoOn ==
  /\ phase \in DOMAIN NextPhase
  /\ phase' = NextPhase[phase]
  /\ UNCHANGED <<position, belongings, heroState, late>>

\* send_game_status() serializes every drop unless the room is empty, and
\* serialize_drop() reads the id of each item: a null one ends the server.
SendGameStatus ==
  /\ phase = "status"
  /\ phase' = IF InRoom # {} /\ \E c \in Cells : missing[c] > 0
              THEN "crashed" ELSE "drops"
  /\ late' = {}
  /\ UNCHANGED <<position, belongings, heroState>>

\* A dead monster leaves an item eight times of ten, and perhaps gold.
AddMonsterDrop(c, i, n) ==
  /\ phase = "drops"
  /\ Free(c)
  /\ i \notin allocated
  /\ issued + n <= MaxGold
  /\ items' = [items EXCEPT ![Floor(c)] = @ \cup {i}]
  /\ allocated' = allocated \cup {i}
  /\ gold' = [gold EXCEPT ![Floor(c)] = @ + n]
  /\ issued' = issued + n
  /\ UNCHANGED <<phase, position, missing, heroState, late>>

\* Not the code: a ghost with no items keeps all its gold.
FallenWithItems == {h \in InRoom \cap ghosts : items[Inventory(h)] # {}}

\* The ghosts that add_heroes_drops() empties.
Fallen == {h \in InRoom \cap ghosts : items[Inventory(h)] # {} \/ Excess(h) > 0}

\* Not the code: remove_excess_gold() that returns what it keeps.
NoExcessTaken(h) == [gold EXCEPT ![Floor(position[h])] = @ + Excess(h)]

ExcessDropped(h) == Pay(Excess(h), Inventory(h), Floor(position[h]))

AddHeroDrop(h) ==
  /\ phase = "drops"
  /\ h \in Fallen
  /\ items' = [items EXCEPT ![Inventory(h)] = {},
                            ![Floor(position[h])] = @ \cup items[Inventory(h)]]
  /\ gold' = ExcessDropped(h)
  /\ UNCHANGED <<phase, position, allocated, missing, issued, heroState, late>>

\* Every hero that was in the room has been looked at; one that came while
\* the loop was running may have been passed.
EndDrops ==
  /\ phase = "drops"
  /\ Fallen \subseteq late
  /\ phase' = "removal"
  /\ UNCHANGED <<position, belongings, heroState, late>>

\* remove_death_heroes() deletes a hero with its items; its gold goes with it.
RemoveDeathHero(h) ==
  /\ phase = "removal"
  /\ h \in InRoom \cap quitting
  /\ position' = [position EXCEPT ![h] = Outside]
  /\ items' = [p \in Places |-> IF p \in PlacesOf(h) THEN {} ELSE items[p]]
  /\ allocated' = allocated \ UNION {items[p] : p \in PlacesOf(h)}
  /\ gold' = [gold EXCEPT ![Inventory(h)] = 0, ![Bank(h)] = 0]
  /\ issued' = issued - gold[Inventory(h)] - gold[Bank(h)]
  /\ level' = [level EXCEPT ![h] = 0]
  /\ ghosts' = ghosts \ {h}
  /\ blocked' = blocked \ {h}
  /\ quitting' = quitting \ {h}
  /\ late' = late \ {h}
  /\ UNCHANGED <<phase, missing>>

EndRemoval ==
  /\ phase = "removal"
  /\ InRoom \cap quitting = {}
  /\ phase' = "commands"
  /\ UNCHANGED <<position, belongings, heroState, late>>

-----------------------------------------------------------------------------
Commands(h) ==
  \/ \E i \in Items : \/ UseItem(h, i)    \/ DropItem(h, i)
                      \/ PickUpItem(h, i) \/ BuyItem(h, i)
                      \/ SellItem(h, i)   \/ BankItem(h, i)
                      \/ UnbankItem(h, i)
  \/ \E s \in Slots : Unequip(h, s)
  \/ \E n \in 1..MaxGold : BankGold(h, n) \/ UnbankGold(h, n)
  \/ DropNothing(h) \/ PickUpNothing(h) \/ PickUpGold(h)
  \/ Revive(h) \/ WaitToRevive(h) \/ Quit(h)

Kits == {kit \in SUBSET Items : Cardinality(kit) <= KitSize}

Travels(h) ==
  \/ \E c \in Cells, kit \in Kits : EnterGame(h, c, kit)
  \/ LeaveRoom(h)
  \/ \E c \in Cells : AddExistingHero(h, c)

Happens(h) ==
  \/ LevelUp(h) \/ Die(h)
  \/ \E c \in Cells : TryToUnblock(h, c) \/ AutoMove(h, c)
  \/ AddHeroDrop(h) \/ RemoveDeathHero(h)

Next ==
  \/ \E h \in Heroes : Commands(h) \/ Travels(h) \/ Happens(h)
  \/ \E c \in Cells, i \in Items, n \in 0..MonsterGold : AddMonsterDrop(c, i, n)
  \/ GoOn \/ SendGameStatus \/ EndDrops \/ EndRemoval

Spec == Init /\ [][Next]_vars

-----------------------------------------------------------------------------
(* Properties *)

\* Every item that was created and not deleted is in one place, and no place
\* points to an item that is not: nothing is lost, doubled, or used after it
\* was deleted, whatever the order of commands, deaths and room changes.
ItemHasOneOwner ==
  /\ \A p \in Places : items[p] \subseteq allocated
  /\ \A i \in allocated :
       \E p \in Places : /\ i \in items[p]
                         /\ \A q \in Places \ {p} : i \notin items[q]

\* No inventory and no bank outgrows the room that was reserved for it, which
\* the swaps of equipment and the room changes count on.
WithinCapacity ==
  \A h \in Heroes : /\ Cardinality(items[Inventory(h)]) <= InventorySize
                    /\ Cardinality(items[Bank(h)]) <= BankSize

\* A hero wears at most one item on each slot, of the slot's kind, and holds
\* a weapon or a staff but not both.
EquipmentIsLegal ==
  \A h \in Heroes :
    /\ \A s \in Slots : \A i, j \in items[Slot(h, s)] : i = j /\ Kind[i] = s
    /\ \E s \in Hands : items[Slot(h, s)] = {}

\* The gold a hero carries never passes one and a half times its safe gold:
\* gold_space_remaining() is unsigned and would become enormous.
GoldWithinLimit ==
  \A h \in Heroes : gold[Inventory(h)] <= GoldLimit(h)

\* Gold is neither made nor lost by banking, picking up, dying or leaving.
GoldIsConserved == FoldFunction(+, 0, gold) = issued

\* A ghost may lose what it has but takes nothing, and its equipment and its
\* bank stay as they are until it revives.
GhostsOnlyLose ==
  [][\A h \in ghosts \cap ghosts' :
       /\ items'[Inventory(h)] \subseteq items[Inventory(h)]
       /\ gold'[Inventory(h)] <= gold[Inventory(h)]
       /\ \A p \in PlacesOf(h) \ {Inventory(h)} : items'[p] = items[p]]_vars

\* When the next commands are executed, every ghost has dropped its inventory
\* and its excess gold, but for one that arrived during the clean-up.
SweptGhostsHoldNothing ==
  phase \in {"removal", "commands"} =>
    \A h \in (InRoom \cap ghosts) \ late :
      items[Inventory(h)] = {} /\ gold[Inventory(h)] <= MaxSafe(h)

\* Who does not play has nothing in the room, and starts alive: a new hero's
\* kit replaces no item.
NothingOutside ==
  \A h \in Heroes : position[h] = Outside =>
    h \notin ghosts /\ \A p \in PlacesOf(h) : items[p] = {}

\* What the properties above need of each other: the swaps of equipment fit
\* because a slot holds one item, an item has one owner because a hand is free
\* before it is filled, and a new hero's places are empty because whoever left
\* took its own away.
ItemsInv ==
  /\ TypeOK
  /\ ItemHasOneOwner
  /\ WithinCapacity
  /\ EquipmentIsLegal
  /\ GoldWithinLimit
  /\ NothingOutside
  /\ SweptGhostsHoldNothing

\* README.md:139: /tirar leaves the selected item on the ground.  Here: a drop
\* holds items, never a null pointer.
DropsHoldItems == \A c \in Cells : missing[c] = 0

=============================================================================
