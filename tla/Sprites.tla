------------------------------ MODULE Sprites ------------------------------
(***************************************************************************)
(* The pictures of the client: which the texture manager loads, which of   *)
(* them stands for what the server reports, and the frame of each that is  *)
(* shown.  A texture is a pair of a name and a variant; the pictures of a  *)
(* spell that has one image a frame are numbered.                          *)
(***************************************************************************)
EXTENDS Integers

Least(m, n) == IF m < n THEN m ELSE n

-----------------------------------------------------------------------------
(* What the server's numbers stand for *)

RaceOf == [t \in 25 .. 28 |-> <<"human", "elf", "dwarf", "gnome">>[t - 24]]
MonsterOf == [t \in 29 .. 32 |-> <<"goblin", "spider", "skeleton", "zombie">>[t - 28]]
NpcOf == [t \in 33 .. 35 |-> <<"priest", "merchant", "banker">>[t - 32]]
DropType == 37

IsHero(t) == t \in DOMAIN RaceOf
KindOf(t) ==
  IF IsHero(t) THEN RaceOf[t] ELSE IF t \in DOMAIN MonsterOf THEN MonsterOf[t] ELSE NpcOf[t]

Races == {"human", "elf", "dwarf", "gnome"}
Small == {"gnome", "dwarf"}
Bodies == Races \cup {"spider", "skeleton", "goblin", "zombie", "priest", "merchant", "banker"}

ItemIds == 1 .. 20
Gold == 36
ItemName ==
  <<"turtle_shield", "iron_shield", "hood", "iron_helmet", "magic_hat", "leather_armor",
    "plate_armor", "blue_tunic", "hp_potion", "mana_potion", "sword", "axe", "hammer",
    "simple_bow", "compound_bow", "ash_stick", "knotty_staff", "crimped_staff",
    "elven_elude", "deadly_staff">>

\* Potions are not worn.
Slots == {"helmet", "armor", "shield", "weapon"}
SlotItems == [shield |-> 1 .. 2, helmet |-> 3 .. 5, armor |-> 6 .. 8, weapon |-> 11 .. 20]
Wearable == UNION {SlotItems[s] : s \in Slots}

Null == <<"null">>

\* get_item_texture()
ItemTexture(i) ==
  IF i \in ItemIds THEN <<ItemName[i], "item">> ELSE IF i = Gold THEN <<"gold", "item">> ELSE Null

\* get_equipped(): the item of a slot among those the status lists, or none.
NoItem == 0
ItemIn(slot, equipped) ==
  IF equipped \cap SlotItems[slot] = {} THEN NoItem
  ELSE CHOOSE i \in equipped \cap SlotItems[slot] : TRUE

\* Gnomes and dwarves have armours of their own.
WornTexture(i, race) ==
  <<ItemName[i], IF i \in SlotItems.armor /\ race \in Small THEN "xs" ELSE "equipped">>

-----------------------------------------------------------------------------
(* Spells *)

Frames == [bleeding |-> 5, magic_arrow |-> 8, heal |-> 10, electric_shock |-> 15,
           explosion |-> 21, final_judgment |-> 11]
FramesPerTexture == 6

\* set_spellbound(): what is seen of a hit of weapon i, and for how long.
SpellOf(i) ==
  CASE i \in 11 .. 15 -> "bleeding"
    [] i = 16 -> "magic_arrow"
    [] i = 17 -> "electric_shock"
    [] i = 18 -> "explosion"
    [] i = 19 -> "heal"
    [] i = 20 -> "final_judgment"
SpellLife(s) == Frames[s] * FramesPerTexture

\* Those of a single image that holds all their frames.
OnSheet == {"magic_arrow", "heal"}

\* The life an animation on a sheet counts its frames from.
MaxLife(s) ==
  FramesPerTexture * (CASE s = "magic_arrow" -> Frames.bleeding
                        [] s = "electric_shock" -> Frames.explosion
                        [] OTHER -> Frames[s])

\* get_texture(id, lifetime): the first while more than all but six are left.
FrameTexture(s, life) ==
  <<s, "frame", Frames[s] - 1 - Least(Frames[s] - 1, (life - 1) \div FramesPerTexture)>>

-----------------------------------------------------------------------------
(* Sheets of frames *)

\* A row of the sheet for each direction, and a column of the heads.
Directions == {"down", "up", "left", "right"}
RowOf == [down |-> 0, up |-> 1, left |-> 2, right |-> 3]
HeadOf == [down |-> 0, right |-> 1, left |-> 2, up |-> 3]
Vertical == {"down", "up"}

\* set_total_clips(): the last frame of the rows up and down, and of the others.
Clips ==
  [n \in Bodies \cup {"corpse", "meditation", "magic_arrow", "heal"} |->
     CASE n \in {"corpse", "merchant"} -> <<2, 2>>
       [] n \in Races \cup {"skeleton", "zombie"} -> <<5, 4>>
       [] n \in {"meditation", "heal"} -> <<5, 2>>
       [] n = "spider" -> <<3, 3>>
       [] n = "goblin" -> <<7, 7>>
       [] n = "priest" -> <<6, 6>>
       [] n = "banker" -> <<5, 5>>
       [] n = "magic_arrow" -> <<8, 1>>]
ItemClips == <<5, 4>>

Size ==
  [n \in Bodies |->
     CASE n \in Races \cup {"priest"} -> <<25, 45>>
       [] n = "spider" -> <<53, 33>>
       [] n = "skeleton" -> <<25, 52>>
       [] n = "goblin" -> <<24, 33>>
       [] n = "zombie" -> <<25, 47>>
       [] n = "merchant" -> <<23, 48>>
       [] n = "banker" -> <<25, 46>>]
HeadSize(race) == IF race \in Small THEN <<17, 17>> ELSE <<17, 16>>
GhostSize == <<29, 32>>
ZenSize == <<31, 68>>
SpellSize == [magic_arrow |-> <<15, 15>>, heal |-> <<80, 85>>]
\* Swords, axes, hammers and ash sticks are longer than the rest.
WornSize(i) ==
  CASE i \in SlotItems.helmet -> IF ItemName[i] = "magic_hat" THEN <<17, 19>> ELSE <<17, 18>>
    [] i \in {11, 12, 13, 16} -> <<25, 48>>
    [] OTHER -> <<25, 45>>

\* The frame at a column and a row of a sheet.
Rect(column, row, size) == <<column * size[1], row * size[2], size[1], size[2]>>

\* An animation has a frame to show next for each direction.
NoneShown == [d \in Directions |-> 0]
NextClip(clip, d, size) == Rect(clip[d], RowOf[d], size)

\* (mutant) The count of frames taken for the last of them.
AdvancedPast(clip, d, clips) ==
  LET last == IF d \in Vertical THEN clips[1] ELSE clips[2]
  IN [clip EXCEPT ![d] = IF @ = last + 1 THEN 0 ELSE @ + 1]

Advanced(clip, d, clips) ==
  LET last == IF d \in Vertical THEN clips[1] ELSE clips[2]
  IN [clip EXCEPT ![d] = IF @ = last THEN 0 ELSE @ + 1]

\* Meditation goes through its two rows of five.
NextZen(zen) ==
  IF zen[1] < Clips["meditation"][1] - 1 THEN <<zen[1] + 1, zen[2]>> ELSE <<0, 1 - zen[2]>>

\* get_next_clip(lifetime, max_lifetime): a frame for every six updates gone.
SheetFrame(s, life) ==
  LET columns == Clips[s][1]
      gone == IF life > MaxLife(s) THEN 0
              ELSE Least(columns * columns + 1, (MaxLife(s) - life) \div FramesPerTexture)
  IN Rect(gone % columns, gone \div columns, SpellSize[s])

-----------------------------------------------------------------------------
(* What load_textures() puts in the map of textures *)

Maps == {"grass", "desert", "argal", "ice"}

LoadedSheets ==
  {<<n, "body">> : n \in Bodies \cup {"corpse", "meditation"}}
    \cup {<<n, "head">> : n \in Races \cup {"corpse"}}
    \cup {<<m, layer>> : m \in Maps, layer \in {"background", "objects"}}
LoadedItems ==
  {ItemTexture(i) : i \in ItemIds \cup {Gold}}
    \cup {<<ItemName[i], "equipped">> : i \in Wearable}
    \cup {<<ItemName[i], "xs">> : i \in SlotItems.armor}
LoadedSpells ==
  {<<s, "body">> : s \in OnSheet}
    \cup UNION {{<<s, "frame", k>> : k \in 0 .. Frames[s] - 1} : s \in DOMAIN Frames \ OnSheet}
Loaded == LoadedSheets \cup LoadedItems \cup LoadedSpells

=============================================================================
