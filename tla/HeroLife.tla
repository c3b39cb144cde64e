------------------------------- MODULE HeroLife -------------------------------
(***************************************************************************)
(* The life of one hero: points of life and mana, experience, levels, death,*)
(* meditation, what it carries, and the record that outlives it between two *)
(* sessions.                                                               *)
(*                                                                         *)
(* Points are unsigned int, and a record keeps each in 16 bits: both widths *)
(* are constants, UIntLimit and RecordLimit, so that a small instance meets *)
(* them.  Where the hero stands and who attacks it are left to World and   *)
(* HeroItems: here a blow, taken or given, may come at any moment, and a   *)
(* drop, a shop or a bank may be at hand at any moment.                    *)
(***************************************************************************)
EXTENDS HeroThings

CONSTANTS
  MaxLevel,             \* bound of the exploration
  HpPerLevel,           \* constitution * f_class_hp * f_race_hp
  ManaPerLevel,         \* intelligence * f_class_mana * f_race_mana
  XpLimit,              \* level |-> starting_xp_cap * level ^ level_up_limit_power
  RaceRecovery,         \* f_race_recovery
  Meditation,           \* f_class_meditation * intelligence
  Staffs,               \* [mana_consumption, hp_regen] of each
  Potions, Priest,      \* [hp, mana] they give
  Damages,              \* what a blow takes, or gives
  Foes,                 \* [level, max_hp] of those one fights
  ExperienceToUpdate,   \* amount_of_experience_to_update
  UIntLimit,
  MaxSafe,              \* max_safe_gold of each level
  Classes, NewGold,     \* of new heroes
  Known,                \* bound: the items that are dropped and traded
  Coins                 \* bound: what one banks, or finds, at a time

Levels == 1 .. MaxLevel

ASSUME LifeAssumption ==
  /\ MaxLevel \in Nat \ {0} /\ UIntLimit \in Nat \ {0}
  /\ HpPerLevel \in Nat /\ HpPerLevel >= 2 /\ ManaPerLevel \in Nat
  /\ XpLimit \in [Levels -> Nat \ {0}]
  /\ \A l \in 1 .. MaxLevel - 1 : XpLimit[l] <= XpLimit[l + 1]
  /\ {RaceRecovery, Meditation, ExperienceToUpdate} \subseteq Nat
  /\ Staffs \in [Sticks -> [cost : Nat, hp : Nat]]
  /\ Potions \in [Consumables -> [hp : Nat, mana : Nat]]
  /\ Priest \in [hp : Nat, mana : Nat]
  /\ MaxSafe \in [Levels -> Nat] /\ NewGold \in Nat /\ Coins \subseteq Nat
  /\ Classes \subseteq DOMAIN KitOf /\ Known \subseteq ItemIds
  /\ \A c \in Classes : Len(KitOf[c]) <= InventorySize
  /\ Damages \subseteq Nat /\ Foes \subseteq [level : Nat, max_hp : Nat]

\* Within the levels that are explored, life and mana fit their fields of the record,
\* which are no wider than the numbers they keep.  Gold, experience and its limit need
\* not: with the game's configuration the limit outgrows its field at level 11, life
\* at none below several hundreds.
ASSUME RecordAssumption ==
  /\ HpPerLevel * MaxLevel < RecordLimit /\ ManaPerLevel * MaxLevel < RecordLimit
  /\ RecordLimit <= UIntLimit

VARIABLES
  playing,               \* the hero is in some room; else it is in the files
  level, experience, next_level_xp_limit,
  current_hp, current_mana,
  ghost_mode, meditating,
  things,                \* its inventory, equipment and bank
  record                 \* what the files hold of it while it is away

points == <<current_hp, current_mana>>
progress == <<level, experience, next_level_xp_limit>>
life == <<points, progress, ghost_mode, meditating>>
lifeVars == <<playing, life, things, record>>

-----------------------------------------------------------------------------

NoRecord == [level |-> 0, hp |-> 0, mana |-> 0, xp |-> 0, limit |-> 0, ghost |-> FALSE,
             things |-> SerializedThings(Empty(0))]

MaxHp(l) == HpPerLevel * l
MaxMana(l) == ManaPerLevel * l

Least(m, n) == IF m < n THEN m ELSE n
HpUncapped(l, hp) == hp

HpUpTo(l, hp) == Least(hp, MaxHp(l))

\* unsigned: what is less than nothing is a great deal.
ManaUpTo(l, mana) == Least(mana % UIntLimit, MaxMana(l))

\* Life and mana within the hero's limits, and never negative.
LifeTypeOK ==
  /\ playing \in BOOLEAN /\ ghost_mode \in BOOLEAN /\ meditating \in BOOLEAN
  /\ level \in Levels
  /\ experience \in 0 .. UIntLimit - 1 /\ next_level_xp_limit \in Nat
  /\ current_hp \in 0 .. MaxHp(level) /\ current_mana \in 0 .. MaxMana(level)
  /\ things \in Things /\ DOMAIN record = DOMAIN NoRecord

\* A new hero is level_up()-ed from level 0.
LifeInit ==
  /\ playing = TRUE /\ level = 1 /\ experience = 0
  /\ next_level_xp_limit = XpLimit[1]
  /\ current_hp = MaxHp(1) /\ current_mana = MaxMana(1)
  /\ ghost_mode = FALSE /\ meditating = FALSE
  /\ \E c \in Classes : things = NewThings(c, NewGold)
  /\ record = NoRecord

-----------------------------------------------------------------------------
(* Rest and cures *)

Regenerate ==
  /\ playing /\ ~ghost_mode
  /\ current_hp' = HpUpTo(level, current_hp + RaceRecovery)
  /\ current_mana' = ManaUpTo(level, current_mana +
                                (IF meditating THEN Meditation ELSE RaceRecovery))
  /\ UNCHANGED <<playing, progress, ghost_mode, meditating, things, record>>

Meditate ==
  /\ playing /\ ~ghost_mode
  /\ meditating' = TRUE
  /\ UNCHANGED <<playing, points, progress, ghost_mode, things, record>>

\* Any call that moves the hero or one of its items ends the meditation.
StopMeditating ==
  /\ playing
  /\ meditating' = FALSE
  /\ UNCHANGED <<playing, points, progress, ghost_mode, things, record>>

\* The priest cures ghosts too.
Heal ==
  /\ playing
  /\ current_hp' = HpUpTo(level, current_hp + Priest.hp)
  /\ current_mana' = ManaUpTo(level, current_mana + Priest.mana)
  /\ UNCHANGED <<playing, progress, ghost_mode, meditating, things, record>>

DrinkPotion(id) ==
  /\ playing /\ ~ghost_mode
  /\ HasItem(things, id)
  /\ meditating' = FALSE
  /\ things' = RemoveItem(things, id)
  /\ current_hp' = HpUpTo(level, current_hp + Potions[id].hp)
  /\ current_mana' = ManaUpTo(level, current_mana + Potions[id].mana)
  /\ UNCHANGED <<playing, progress, ghost_mode, record>>

\* Next to a priest the living are "revived" too.
Revive ==
  /\ playing
  /\ current_hp' = HpUpTo(level, MaxHp(level) \div 2)
  /\ current_mana' = ManaUpTo(level, MaxMana(level) \div 2)
  /\ ghost_mode' = FALSE
  /\ UNCHANGED <<playing, progress, meditating, things, record>>

-----------------------------------------------------------------------------
(* Fights *)

\* A staff costs mana, and may cure who uses it; another weapon does neither.
AttackUse ==
  IF InHand(things) \in DOMAIN Staffs THEN Staffs[InHand(things)] ELSE [cost |-> 0, hp |-> 0]

HeroAttack ==
  /\ playing /\ ~ghost_mode
  /\ current_mana >= AttackUse.cost
  /\ meditating' = FALSE
  /\ current_hp' = HpUpTo(level, current_hp + AttackUse.hp)
  /\ current_mana' = ManaUpTo(level, current_mana - AttackUse.cost)
  /\ UNCHANGED <<playing, progress, ghost_mode, things, record>>

ReceiveDamageAlive(damage) ==
  /\ playing /\ ~ghost_mode
  /\ meditating' = FALSE
  /\ \E bonus \in DefenseBonus(things) \cup {0} :
       LET left == current_hp - (damage - Least(bonus, damage))
       IN IF left < 0
          THEN /\ current_hp' = 0 /\ ghost_mode' = TRUE /\ experience' = experience \div 2
          ELSE /\ current_hp' = left /\ UNCHANGED <<ghost_mode, experience>>
  /\ UNCHANGED <<playing, current_mana, level, next_level_xp_limit, things, record>>

\* Death takes half of the experience.  A critical blow ignores the armour.
ReceiveDamage(damage) ==
  /\ playing /\ ~ghost_mode
  /\ meditating' = FALSE
  /\ \E bonus \in DefenseBonus(things) \cup {0} :
       LET left == current_hp - (damage - Least(bonus, damage))
       IN IF left <= 0
          THEN /\ current_hp' = 0 /\ ghost_mode' = TRUE /\ experience' = experience \div 2
          ELSE /\ current_hp' = left /\ UNCHANGED <<ghost_mode, experience>>
  /\ UNCHANGED <<playing, current_mana, level, next_level_xp_limit, things, record>>

LevelUpTo(l) ==
  /\ level' = l
  /\ next_level_xp_limit' = XpLimit[l]
  /\ current_hp' = MaxHp(l) /\ current_mana' = MaxMana(l)

\* The experience that is worth a point of damage: max(x, 0u) of an unsigned x, which
\* is enormous when the foe is far below.
Worth(foe) == (foe.level - level + ExperienceToUpdate) % UIntLimit

\* From level l with x points of experience: the level reached, and what is left.
Climb[l \in Levels] ==
  [x \in 0 .. UIntLimit - 1 |->
     IF l = MaxLevel \/ x < XpLimit[l] THEN <<l, x>> ELSE Climb[l + 1][x - XpLimit[l]]]

ClimbedOnce(l, x) == <<l, x>>

Climbed(l, x) == Climb[l][x]

\* The hero's projectile did damage to foe, and killed it or not; a kill adds a
\* random part of the foe's life.
UpdateExperience(damage, foe, killed) ==
  /\ playing
  /\ \E bonus \in IF killed THEN 0 .. foe.max_hp * Worth(foe) ELSE {0} :
       LET xp == (experience + damage * Worth(foe) + bonus) % UIntLimit
       IN IF xp < next_level_xp_limit
          THEN experience' = xp /\ UNCHANGED <<points, level, next_level_xp_limit>>
          ELSE /\ level < MaxLevel
               /\ LET reached == Climbed(level + 1, xp - next_level_xp_limit)
                  IN /\ reached[1] \in 1 .. MaxLevel - 1
                     /\ LevelUpTo(reached[1])
                     /\ experience' = reached[2]
  /\ UNCHANGED <<playing, ghost_mode, meditating, things, record>>

\* A command raises the level for nothing.
LevelUp ==
  /\ playing /\ level + 1 < MaxLevel
  /\ LevelUpTo(level + 1)
  /\ UNCHANGED <<playing, experience, ghost_mode, meditating, things, record>>

-----------------------------------------------------------------------------
(* Belongings *)

\* The living may change what they carry, and end their meditation by it.
Handle(t) ==
  /\ playing /\ ~ghost_mode
  /\ meditating' = FALSE
  /\ things' = t
  /\ UNCHANGED <<playing, points, progress, ghost_mode, record>>

Wear(id) == HasItem(things, id) /\ id \notin DOMAIN Potions /\ Handle(Exchanged(things, id))

Unequip(id) == ~IsFull(things) /\ IsWorn(things, id) /\ Handle(Unequipped(things, id))

PickUp(id) == ~IsFull(things) /\ Handle(AddItem(things, id))

GoldSpace == (MaxSafe[level] + MaxSafe[level] \div 2 - things.gold) % UIntLimit

\* A drop without items, or a full inventory: gold, up to what there is room for.  It
\* is the one move that a meditation survives.
PickUpGold(coins) ==
  /\ playing /\ ~ghost_mode
  /\ things.gold < MaxSafe[level] + MaxSafe[level] \div 2
  /\ things' = [things EXCEPT !.gold = @ + Least(coins, GoldSpace)]
  /\ UNCHANGED <<playing, life, record>>

Drop(id) == HasItem(things, id) /\ Handle(RemoveItem(things, id))

BuyItem(id) ==
  /\ ~IsFull(things) /\ id \in ForSale
  /\ Price(id) <= things.gold
  /\ Handle([AddItem(things, id) EXCEPT !.gold = @ - Price(id)])

SellItem(id) ==
  /\ HasItem(things, id) /\ id \in ForSale
  /\ Price(id) <= GoldSpace
  /\ Handle([RemoveItem(things, id) EXCEPT !.gold = @ + Price(id)])

BankItem(id) ==
  /\ ~BankIsFull(things) /\ HasItem(things, id)
  /\ Handle(AddToBank(RemoveItem(things, id), id))

UnbankItem(id) ==
  /\ ~IsFull(things) /\ Contains(things.bank, id)
  /\ Handle(AddItem(RemoveFromBank(things, id), id))

BankGold(coins) ==
  /\ coins <= things.gold
  /\ Handle([things EXCEPT !.gold = @ - coins, !.banked = @ + coins])

UnbankGold(coins) ==
  /\ coins <= things.banked /\ coins <= GoldSpace
  /\ Handle([things EXCEPT !.gold = @ + coins, !.banked = @ - coins])

\* The room makes a drop of what the dead carried, but for what they wore and
\* for the gold that is safe.
LeaveDrop ==
  /\ playing /\ ghost_mode
  /\ things.items # <<>> \/ things.gold > MaxSafe[level]
  /\ things' = [things EXCEPT !.items = <<>>, !.gold = Least(@, MaxSafe[level])]
  /\ UNCHANGED <<playing, life, record>>

-----------------------------------------------------------------------------
(* Sessions *)

\* serialize_hero: every number in the 16 bits of its field.
Serialized ==
  [level |-> level % RecordLimit, hp |-> current_hp % RecordLimit,
   mana |-> current_mana % RecordLimit, xp |-> experience % RecordLimit,
   limit |-> next_level_xp_limit % RecordLimit, ghost |-> ghost_mode,
   things |-> SerializedThings(things)]

\* What the fields of the deleted hero held is kept for the sake of
\* ReturnsAsItLeft: Login reads none of them.
Quit ==
  /\ playing /\ playing' = FALSE
  /\ record' = Serialized
  /\ UNCHANGED <<life, things>>

LoginBeforeLevel ==
  /\ ~playing /\ playing' = TRUE
  /\ level' = record.level
  /\ current_hp' = HpUpTo(1, record.hp)
  /\ current_mana' = ManaUpTo(1, record.mana)
  /\ next_level_xp_limit' = record.limit /\ experience' = record.xp
  /\ ghost_mode' = record.ghost /\ meditating' = FALSE
  /\ things' = DeserializedThings(record.things)
  /\ record' = NoRecord

\* The hero is built anew at the level of its record and filled with the rest.  When an
\* item finds the inventory full, add_item throws and the server ends instead:
\* ReturnsAsItLeft says that no record is like that.
Login ==
  /\ ~playing /\ playing' = TRUE
  /\ level' = record.level
  /\ current_hp' = HpUpTo(record.level, record.hp)
  /\ current_mana' = ManaUpTo(record.level, record.mana)
  /\ next_level_xp_limit' = record.limit /\ experience' = record.xp
  /\ ghost_mode' = record.ghost /\ meditating' = FALSE
  /\ FitsOnTheWay(record.things)
  /\ things' = DeserializedThings(record.things)
  /\ record' = NoRecord

-----------------------------------------------------------------------------

Rest == Regenerate \/ Meditate \/ StopMeditating \/ Heal \/ Revive
        \/ \E id \in Consumables : DrinkPotion(id)

Fight ==
  \/ HeroAttack
  \/ \E d \in Damages : ReceiveDamage(d)
  \/ \E d \in Damages, f \in Foes, k \in BOOLEAN : UpdateExperience(d, f, k)

Carry ==
  \/ \E id \in ItemIds : Wear(id) \/ Unequip(id) \/ BankItem(id) \/ UnbankItem(id)
  \/ \E id \in Known : PickUp(id) \/ Drop(id) \/ BuyItem(id) \/ SellItem(id)
  \/ \E coins \in Coins : BankGold(coins) \/ UnbankGold(coins) \/ PickUpGold(coins)
  \/ LeaveDrop

LifeNext == Rest \/ Fight \/ Carry \/ LevelUp \/ Quit \/ Login

LifeSpec == LifeInit /\ [][LifeNext]_lifeVars

-----------------------------------------------------------------------------
(* Properties *)

\* Whoever lives has life left, and ghosts do not meditate: blows, cures, level
\* ups, revivals and sessions keep the three fields together.
LifeIsConsistent ==
  /\ ~ghost_mode => current_hp > 0
  /\ ghost_mode => ~meditating

\* Experience becomes levels at once, however much of it a single blow brings: no hero
\* has what its level takes, although a session cuts a limit that has outgrown the
\* record, and where the limit fits the record it is the one the hero goes by.
ExperienceBelowLimit ==
  playing => /\ experience < XpLimit[level]
             /\ XpLimit[level] < RecordLimit => next_level_xp_limit = XpLimit[level]

\* What a field of the record gives back: anything, once the number outgrew it.
Kept(n, m) == n < RecordLimit => m = n

\* A player finds its hero as it left it, with all it carried: no record holds more
\* than the inventory and the bank have room for when a login makes its items again one
\* by one, the worn ones come back on, and each number returns that fits its field.
ReturnsAsItLeft ==
  [][/\ Quit => FitsOnTheWay(record'.things)
     /\ Login => /\ UNCHANGED <<points, level, ghost_mode>>
                 /\ Kept(experience, experience')
                 /\ Kept(next_level_xp_limit, next_level_xp_limit')
                 /\ Kept(things.gold, things'.gold) /\ Kept(things.banked, things'.banked)
                 /\ SameThings(things, things')]_lifeVars

=============================================================================
