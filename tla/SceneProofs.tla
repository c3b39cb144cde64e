------------------------------ MODULE SceneProofs ------------------------------
(***************************************************************************)
(* Theorems about what the client draws, for any window, map, tile and     *)
(* images that are as large as their sheets, and whoever is followed: one  *)
(* invariant says what every character and the camera look like after any  *)
(* statuses, and every property follows from it.                           *)
(***************************************************************************)
EXTENDS Scene, TLAPS

-----------------------------------------------------------------------------
(* The invariant *)

\* The frames an animation may show next, one for each direction.
Counter(clips) ==
  {clip \in [Directions -> Nat] : \A d \in Directions : clip[d] <= LastFrame(clips, d)}

SpellNames == DOMAIN Frames
Spells == {DeadSpell} \cup UNION {[type : {s}, life : 1 .. SpellLife(s)] : s \in SpellNames}
Animations == {NoSpell} \cup UNION {{s} \X (-1 .. SpellLife(s)) : s \in SpellNames}

NpcFields == {"at", "dir", "clip", "body", "spell"}
PlayableFields ==
  NpcFields \cup {"head", "ghost", "ghost_clip", "ghost_body", "zen", "zen_clip",
                  "meditating_frame", "worn", "worn_clip", "frame", "items"}

\* Any character: its frame is one of its sheet.
BodyOk(c) ==
  /\ c.clip \in Counter(Clips[Kind])
  /\ c.body \in Sheet(Size[Kind], Clips[Kind])

\* What no player is worn as is the item itself: it is put on again by each update.
WornOk(c) ==
  /\ DOMAIN c.worn = Slots
  /\ \A slot \in Slots : \A i \in SlotItems[slot] : c.worn[slot] # ItemTexture(i)

\* A player; a rectangle that nobody has set is of who was loaded as a ghost.
PlayerOk(c, dead) ==
  /\ DOMAIN c = PlayableFields
  /\ c.ghost \in BOOLEAN /\ c.zen \in BOOLEAN
  /\ c.head \in Heads(Kind)
  /\ c.ghost_clip \in Counter(Clips["corpse"])
  /\ c.ghost_body \in Sheet(GhostSize, Clips["corpse"]) \cup {Garbage}
  /\ c.zen_clip \in (0 .. 4) \X (0 .. 1)
  /\ c.meditating_frame \in ZenFrames \cup {Garbage}
  /\ WornOk(c) /\ DOMAIN c.frame = Slots
  /\ ~dead => (c.ghost => c.ghost_body # Garbage) /\ (c.zen => c.meditating_frame # Garbage)

\* A player looks as a status says.
Wears(c, items) ==
  \A slot \in Slots :
    LET i == ItemIn(slot, items)
    IN IF i = NoItem THEN c.worn[slot] = Null
       ELSE c.worn[slot] = WornTexture(i, Kind) /\ c.frame[slot] = FrameOver(c, slot, i)
LooksLike(c, s) ==
  /\ c.ghost = s.ghost
  /\ ~c.ghost => (c.zen => s.zen) /\ Wears(c, s.items)

CharacterOk(c, s, dead) ==
  /\ DOMAIN c = IF Playable THEN PlayableFields ELSE NpcFields
  /\ c.at = Pixels(s.at) /\ c.dir = s.dir
  /\ BodyOk(c) /\ c.spell \in Spells
  /\ Playable => PlayerOk(c, dead) /\ LooksLike(c, s)

Moves == cast.type # DropType

SceneTypes ==
  /\ cast \in Casts /\ loaded_dead \in BOOLEAN /\ frozen \in BOOLEAN
  /\ ~New => current_status \in Statuses
  /\ affected \in Animations /\ (New \/ ~Moves => affected = NoSpell)
  /\ New \/ ~Moves => ch = NoCharacter
  /\ New \/ Moves => item = NoItemDrawn
  /\ ~New /\ ~Moves => \E i \in ItemIds \cup {Gold} :
       item = [texture |-> ItemTexture(i), at |-> Pixels(current_status.at)]

CharacterInv == ~New /\ Moves => CharacterOk(ch, current_status, loaded_dead)

\* The window and what fits in it follow from where its corner is (game.cpp:116), and
\* the corner of the hero's camera from where the hero is.
CameraAt ==
  LET x == map_piece.x
      y == map_piece.y
  IN /\ x \in Int /\ y \in Int
     /\ map_piece.w = ScreenWidth
     /\ map_piece.h = IF y < 0 THEN ScreenHeight - y ELSE ScreenHeight
     /\ viewport.x = IF x < 0 THEN -x ELSE 0
     /\ viewport.w = IF x < 0 THEN ScreenWidth + x
                     ELSE IF x > MapSize - ScreenWidth THEN MapSize - x ELSE ScreenWidth
     /\ viewport.y = UIHeight + (IF y < 0 THEN -y ELSE 0)
     /\ viewport.h = IF y > MapSize - ScreenHeight THEN MapSize - y ELSE ScreenHeight
CameraInv ==
  /\ CameraAt
  /\ cast.mine /\ New => map_piece.x = 0 /\ map_piece.y = 0
  /\ cast.mine /\ ~New =>
       /\ map_piece.x = ch.at[1] - ScreenWidth \div 2
       /\ map_piece.y = ch.at[2] - ScreenHeight \div 2

SceneInv == SceneTypes /\ CharacterInv /\ CameraInv /\ SpellsAreCounted

-----------------------------------------------------------------------------
(* Sprites *)

\* Each sheet has a last frame in both kinds of rows (animation.cpp).
LEMMA ClipsType == \A n \in Bodies \cup {"corpse"} : Clips[n] \in Nat \X Nat
BY DEF Clips, Bodies, Races

\* An animation that is advanced stays within its row.
LEMMA CounterAdvances ==
  ASSUME NEW clips \in Nat \X Nat, NEW size
  PROVE  /\ NoneShown \in Counter(clips)
         /\ Rect(0, 0, size) \in Sheet(size, clips)
         /\ \A clip \in Counter(clips), d \in Directions :
              /\ Advanced(clip, d, clips) \in Counter(clips)
              /\ NextClip(clip, d, size) \in Sheet(size, clips)
<1>0. \A d \in Directions : LastFrame(clips, d) \in Nat
  BY DEF LastFrame
<1>1. NoneShown \in Counter(clips)
  BY <1>0 DEF NoneShown, Counter
<1>2. Rect(0, 0, size) \in Sheet(size, clips)
  BY <1>0 DEF Sheet, RowOf, Directions
<1>3. ASSUME NEW clip \in Counter(clips), NEW d \in Directions
      PROVE  /\ Advanced(clip, d, clips) \in Counter(clips)
             /\ NextClip(clip, d, size) \in Sheet(size, clips)
  <2>1. clip \in [Directions -> Nat] /\ \A x \in Directions : clip[x] <= LastFrame(clips, x)
    BY DEF Counter
  <2>2. Advanced(clip, d, clips) = [clip EXCEPT ![d] = IF @ = LastFrame(clips, d) THEN 0 ELSE @ + 1]
    BY DEF Advanced, LastFrame
  <2>3. (IF clip[d] = LastFrame(clips, d) THEN 0 ELSE clip[d] + 1) \in 0 .. LastFrame(clips, d)
    BY <1>0, <2>1
  <2>4. Advanced(clip, d, clips) \in Counter(clips)
    BY <1>0, <2>1, <2>2, <2>3 DEF Counter
  <2>5. clip[d] \in 0 .. LastFrame(clips, d)
    BY <1>0, <2>1
  <2> QED  BY <2>4, <2>5 DEF NextClip, Sheet
<1> QED  BY <1>1, <1>2, <1>3

\* The meditation goes from one of its ten frames to another.
LEMMA ZenAdvances ==
  /\ <<0, 0>> \in (0 .. 4) \X (0 .. 1) /\ Rect(0, 0, ZenSize) \in ZenFrames
  /\ \A zen \in (0 .. 4) \X (0 .. 1) :
       NextZen(zen) \in (0 .. 4) \X (0 .. 1) /\ Rect(zen[1], zen[2], ZenSize) \in ZenFrames
<1>1. Clips["meditation"][1] = 5
  BY DEF Clips, Bodies, Races
<1>2. Rect(0, 0, ZenSize) \in ZenFrames
  <2>1. 0 \in 0 .. 4 /\ 0 \in 0 .. 1
    OBVIOUS
  <2> QED  BY <2>1 DEF ZenFrames
<1>3. ASSUME NEW zen \in (0 .. 4) \X (0 .. 1)
      PROVE  NextZen(zen) \in (0 .. 4) \X (0 .. 1) /\ Rect(zen[1], zen[2], ZenSize) \in ZenFrames
  <2>1. zen[1] \in 0 .. 4 /\ zen[2] \in 0 .. 1
    OBVIOUS
  <2>2. NextZen(zen) \in (0 .. 4) \X (0 .. 1)
    BY <1>1, <2>1 DEF NextZen
  <2> QED  BY <2>1, <2>2 DEF ZenFrames
<1> QED  BY <1>2, <1>3

\* A head turned is another column of the heads of its race.
LEMMA HeadTurns ==
  ASSUME NEW race \in Races
  PROVE  /\ Rect(0, 0, HeadSize(race)) \in Heads(race)
         /\ \A head \in Heads(race), d \in Directions :
              [head EXCEPT ![1] = HeadOf[d] * head[3]] \in Heads(race)
<1>1. HeadSize(race) \in Nat \X Nat
  BY DEF HeadSize
<1>2. Rect(0, 0, HeadSize(race)) \in Heads(race)
  BY DEF Heads, HeadOf, Directions
<1>3. ASSUME NEW head \in Heads(race), NEW d \in Directions
      PROVE  [head EXCEPT ![1] = HeadOf[d] * head[3]] \in Heads(race)
  <2>1. PICK x \in Directions : head = Rect(HeadOf[x], 0, HeadSize(race))
    BY DEF Heads
  <2>2. [head EXCEPT ![1] = HeadOf[d] * head[3]] = Rect(HeadOf[d], 0, HeadSize(race))
    BY <1>1, <2>1 DEF Rect
  <2> QED  BY <2>2 DEF Heads
<1> QED  BY <1>2, <1>3

\* A rectangle of a sheet is not one that nobody has set.
LEMMA RectIsSet == \A column, row, size : Rect(column, row, size) # Garbage
BY DEF Rect, Garbage

\* What is worn on a slot is an item of the slot.
LEMMA WornOnSlot ==
  ASSUME NEW slot \in Slots, NEW items
  PROVE  /\ NoItem \notin SlotItems[slot] /\ SlotItems[slot] \subseteq ItemIds
         /\ ItemIn(slot, items) # NoItem => ItemIn(slot, items) \in SlotItems[slot]
<1>1. NoItem \notin SlotItems[slot] /\ SlotItems[slot] \subseteq ItemIds
  BY DEF Slots, SlotItems, NoItem, ItemIds
<1>2. ItemIn(slot, items) # NoItem => ItemIn(slot, items) \in SlotItems[slot]
  BY DEF ItemIn
<1> QED  BY <1>1, <1>2

\* The texture of an item is never the one of its equipped form: each update puts
\* on again what is worn (playable_character.cpp:311).
LEMMA NeverTheItem ==
  ASSUME NEW i \in ItemIds
  PROVE  /\ ItemTexture(i) # Null /\ ItemTexture(i) # GarbageTexture
         /\ \A j, race : WornTexture(j, race) # ItemTexture(i) /\ WornTexture(j, race) # Null
<1>1. ItemTexture(i)[2] = "item" /\ ItemTexture(i) = <<ItemName[i], "item">>
  BY DEF ItemTexture
<1>2. ItemTexture(i) # Null /\ ItemTexture(i) # GarbageTexture
  BY <1>1 DEF Null, GarbageTexture
<1>3. ASSUME NEW j, NEW race
      PROVE  WornTexture(j, race) # ItemTexture(i) /\ WornTexture(j, race) # Null
  <2>1. WornTexture(j, race) # ItemTexture(i)
    BY <1>1 DEF WornTexture
  <2>2. WornTexture(j, race) # Null
    BY DEF WornTexture, Null
  <2> QED  BY <2>1, <2>2
<1> QED  BY <1>2, <1>3

-----------------------------------------------------------------------------
(* What each change leaves of a character *)

Same(c, e, changed) == DOMAIN e = DOMAIN c /\ \A f \in DOMAIN c \ changed : e[f] = c[f]

\* Who dies, and gets the animation of a ghost (playable_character.cpp:289).
LEMMA DieEffect ==
  ASSUME NEW c, DOMAIN c = PlayableFields
  PROVE  /\ Same(c, Die(c), {"ghost", "ghost_clip", "ghost_body"})
         /\ Die(c).ghost = TRUE /\ Die(c).ghost_clip = NoneShown
         /\ Die(c).ghost_body = Rect(0, 0, GhostSize)
BY DEF PlayableFields, NpcFields, Same, Die

\* Who meditates, goes on or stops.
LEMMA MeditateEffect ==
  ASSUME NEW c, DOMAIN c = PlayableFields, NEW zen \in BOOLEAN, c.zen \in BOOLEAN
  PROVE  LET e == Meditate(c, zen)
         IN /\ Same(c, e, {"zen", "zen_clip", "meditating_frame"})
            /\ e.zen = zen
            /\ zen /\ c.zen =>
                 /\ e.zen_clip = NextZen(c.zen_clip)
                 /\ e.meditating_frame = IF c.meditating_frame = Garbage THEN Garbage
                                         ELSE Rect(c.zen_clip[1], c.zen_clip[2], ZenSize)
            /\ zen /\ ~c.zen =>
                 e.zen_clip = <<0, 0>> /\ e.meditating_frame = Rect(0, 0, ZenSize)
            /\ ~zen => e.zen_clip = c.zen_clip /\ e.meditating_frame = c.meditating_frame
BY DEF PlayableFields, NpcFields, Same, Meditate

\* What is put on: the items whose texture is not the one worn.
LEMMA WearEffect ==
  ASSUME NEW c, DOMAIN c = PlayableFields, NEW items
  PROVE  LET e == Wear(c, items)
             new(slot) == ItemIn(slot, items)
         IN /\ Same(c, e, {"worn", "worn_clip", "items", "frame"})
            /\ DOMAIN e.worn = Slots /\ DOMAIN e.frame = Slots
            /\ \A slot \in Slots :
                 /\ new(slot) = NoItem => e.worn[slot] = Null
                 /\ new(slot) # NoItem /\ ItemTexture(new(slot)) # c.worn[slot] =>
                      /\ e.worn[slot] = WornTexture(new(slot), Kind)
                      /\ e.frame[slot] = FrameOver(c, slot, new(slot))
BY DEF PlayableFields, NpcFields, Same, Wear

\* The head and the helmet turned.
LEMMA ProfiledEffect ==
  ASSUME NEW c, DOMAIN c = PlayableFields, DOMAIN c.frame = Slots, NEW d
  PROVE  /\ Same(c, Profiled(c, d), {"head", "frame"})
         /\ Profiled(c, d).head = [c.head EXCEPT ![1] = HeadOf[d] * c.head[3]]
         /\ DOMAIN Profiled(c, d).frame = Slots
BY DEF PlayableFields, NpcFields, Same, Profiled

\* The next frames of what is worn.
LEMMA MoveItemsEffect ==
  ASSUME NEW c, DOMAIN c = PlayableFields, NEW d
  PROVE  Same(c, MoveItems(c, d), {"worn_clip", "frame"}) /\ DOMAIN MoveItems(c, d).frame = Slots
BY DEF PlayableFields, NpcFields, Same, MoveItems

\* The next frame of the ghost.
LEMMA MoveGhostEffect ==
  ASSUME NEW c, DOMAIN c = PlayableFields, NEW d
  PROVE  /\ Same(c, MoveGhost(c, d), {"ghost_clip", "ghost_body"})
         /\ MoveGhost(c, d).ghost_clip = Advanced(c.ghost_clip, d, Clips["corpse"])
         /\ MoveGhost(c, d).ghost_body = IF c.ghost_body = Garbage THEN Garbage
                                         ELSE NextClip(c.ghost_clip, d, GhostSize)
BY DEF PlayableFields, NpcFields, Same, MoveGhost

\* The next frame of the body, of any character.
LEMMA MoveBodyEffect ==
  ASSUME NEW c, DOMAIN c \in {PlayableFields, NpcFields}, NEW d
  PROVE  /\ Same(c, MoveBody(c, d), {"clip", "body"})
         /\ MoveBody(c, d).body = NextClip(c.clip, d, Size[Kind])
         /\ MoveBody(c, d).clip = Advanced(c.clip, d, Clips[Kind])
BY DEF PlayableFields, NpcFields, Same, MoveBody

\* Put where the status says.
LEMMA PlacedEffect ==
  ASSUME NEW c, DOMAIN c \in {PlayableFields, NpcFields}, NEW s
  PROVE  /\ Same(c, Placed(c, s), {"at", "dir"})
         /\ Placed(c, s).at = Pixels(s.at) /\ Placed(c, s).dir = s.dir
BY DEF PlayableFields, NpcFields, Same, Placed

\* The spell of an animation, put on whom it is about (protected_map.cpp:48).
LEMMA WithSpellEffect ==
  ASSUME NEW c, DOMAIN c \in {PlayableFields, NpcFields}, NEW animation \in Animations
  PROVE  LET e == WithSpell(c, animation)
         IN /\ Same(c, e, {"spell"})
            /\ c.spell \in Spells => e.spell \in Spells
            /\ animation = NoSpell \/ animation[2] = -1 => e.spell = c.spell
            /\ animation # NoSpell /\ animation[2] >= 0 => e.spell.life = animation[2]
<1>1. CASE animation = NoSpell
  BY <1>1 DEF WithSpell, Same
<1>2. CASE animation # NoSpell
  <2>1. PICK x \in SpellNames : animation \in {x} \X (-1 .. SpellLife(x))
    BY <1>2 DEF Animations
  <2>2. animation[1] = x /\ animation[2] \in -1 .. SpellLife(x) /\ SpellLife(x) \in Int
    BY <2>1 DEF SpellLife, SpellNames, Frames, FramesPerTexture
  <2>3. CASE animation[2] < 0
    BY <1>2, <2>2, <2>3 DEF WithSpell, Same
  <2>4. CASE animation[2] = 0
    <3>1. WithSpell(c, animation) = [c EXCEPT !.spell = DeadSpell]
      BY <1>2, <2>4 DEF WithSpell
    <3> QED  BY <1>2, <2>4, <3>1 DEF Same, PlayableFields, NpcFields, Spells, DeadSpell
  <2>5. CASE animation[2] > 0
    <3> DEFINE shown == [type |-> animation[1], life |-> animation[2]]
    <3>1. WithSpell(c, animation) = [c EXCEPT !.spell = shown]
      BY <1>2, <2>2, <2>5 DEF WithSpell
    <3>2. shown \in Spells
      BY <2>2, <2>5 DEF Spells
    <3> QED  BY <1>2, <2>2, <2>5, <3>1, <3>2 DEF Same, PlayableFields, NpcFields
  <2> QED  BY <2>2, <2>3, <2>4, <2>5
<1> QED  BY <1>1, <1>2

-----------------------------------------------------------------------------
(* Characters *)

\* Who is followed has a sheet, and a hero a head and a ghost.
LEMMA KindIsDrawn ==
  ASSUME cast \in Casts, Moves
  PROVE  Kind \in Bodies /\ (Playable => Kind \in Races)
<1>1. cast.type \in DOMAIN RaceOf \cup DOMAIN MonsterOf \cup DOMAIN NpcOf
  BY SceneAssumption DEF Moves
<1>2. \A t \in 25 .. 28 : RaceOf[t] \in Races
  BY DEF RaceOf, Races
<1>3. \A t \in 29 .. 32 : MonsterOf[t] \in Bodies
  BY DEF MonsterOf, Bodies
<1>4. \A t \in 33 .. 35 : NpcOf[t] \in Bodies
  BY DEF NpcOf, Bodies
<1>5. DOMAIN RaceOf = 25 .. 28 /\ DOMAIN MonsterOf = 29 .. 32 /\ DOMAIN NpcOf = 33 .. 35
  BY DEF RaceOf, MonsterOf, NpcOf
<1>6. Races \subseteq Bodies
  BY DEF Bodies
<1> QED  BY <1>1, <1>2, <1>3, <1>4, <1>5, <1>6 DEF Kind, KindOf, Playable, IsHero

\* The hero is a player, and players move.
LEMMA PlayersMove == cast \in Casts => (cast.mine => Playable) /\ (Playable => Moves)
<1>1. DOMAIN RaceOf = 25 .. 28
  BY DEF RaceOf
<1> QED  BY <1>1, SceneAssumption DEF Playable, IsHero, Moves, DropType

\* What a status of who moves says.
LEMMA StatusFacts ==
  ASSUME cast \in Casts, NEW s \in Statuses
  PROVE  /\ s.at \in Nat \X Nat /\ s # NoStatus
         /\ DOMAIN s = {"at", "dir", "ghost", "zen", "hit", "items"}
         /\ Moves => /\ s.dir \in Directions /\ s.ghost \in BOOLEAN /\ s.zen \in BOOLEAN
                     /\ ~(s.ghost /\ s.zen)
                     /\ s.hit \in {0} \cup SlotItems.weapon
         /\ ~Moves => s.items \in Seq(ItemIds \cup {Gold}) /\ s.items # <<>>
<1>1. /\ cast.tiles \subseteq Nat \X Nat /\ cast.dirs \subseteq Directions
      /\ cast.ghost \subseteq BOOLEAN /\ cast.zen \subseteq BOOLEAN
      /\ cast.hits \subseteq {0} \cup SlotItems.weapon
      /\ ~Moves => cast.kits \subseteq Seq(ItemIds \cup {Gold})
  BY SceneAssumption DEF Moves
<1>2. CASE Moves
  <2>1. /\ s \in [at : cast.tiles, dir : cast.dirs, ghost : cast.ghost, zen : cast.zen,
                   hit : cast.hits, items : cast.kits]
        /\ ~(s.ghost /\ s.zen)
    BY <1>2 DEF Statuses, Moves
  <2>2. DOMAIN s = {"at", "dir", "ghost", "zen", "hit", "items"}
    BY <2>1
  <2>3. s # NoStatus
    BY <2>2 DEF NoStatus
  <2> QED  BY <1>1, <1>2, <2>1, <2>2, <2>3
<1>3. CASE ~Moves
  <2>1. s \in [at : cast.tiles, dir : {"down"}, ghost : {FALSE}, zen : {FALSE}, hit : {0},
               items : {x \in cast.kits : x # <<>>}]
    BY <1>3 DEF Statuses, Moves
  <2>2. DOMAIN s = {"at", "dir", "ghost", "zen", "hit", "items"}
    BY <2>1
  <2>3. s # NoStatus
    BY <2>2 DEF NoStatus
  <2> QED  BY <1>1, <1>3, <2>1, <2>2, <2>3
<1> QED  BY <1>2, <1>3

\* An update of a player keeps it well drawn and makes it look as is reported: who
\* dies gets the ghost's animation, who lives wears what the status lists
\* (playable_character.cpp:289).
LEMMA UpdateEquipmentOk ==
  ASSUME cast \in Casts, Playable, NEW c, NEW dead \in BOOLEAN, PlayerOk(c, dead),
         NEW ghost \in BOOLEAN, NEW zen \in BOOLEAN, ~(ghost /\ zen), NEW items
  PROVE  LET e == UpdateEquipment(c, ghost, zen, items)
         IN /\ PlayerOk(e, dead)
            /\ Same(c, e, {"ghost", "ghost_clip", "ghost_body", "zen", "zen_clip",
                           "meditating_frame", "worn", "worn_clip", "items", "frame"})
            /\ e.ghost = ghost
            /\ ~ghost => e.zen = zen /\ Wears(e, items)
<1> DEFINE e == UpdateEquipment(c, ghost, zen, items)
<1>0. DOMAIN c = PlayableFields /\ c.ghost \in BOOLEAN /\ c.zen \in BOOLEAN
  BY DEF PlayerOk
<1>1. Clips["corpse"] \in Nat \X Nat
  BY ClipsType
<1>2. CASE ~c.ghost /\ ghost
  <2>1. e = Die(c)
    BY <1>2 DEF UpdateEquipment
  <2>2. /\ Same(c, e, {"ghost", "ghost_clip", "ghost_body"})
        /\ e.ghost = TRUE /\ e.ghost_clip = NoneShown /\ e.ghost_body = Rect(0, 0, GhostSize)
    BY <1>0, <2>1, DieEffect
  <2>3. /\ e.ghost_clip \in Counter(Clips["corpse"])
        /\ e.ghost_body \in Sheet(GhostSize, Clips["corpse"]) /\ e.ghost_body # Garbage
    BY <1>1, <2>2, CounterAdvances, RectIsSet
  <2>4. /\ DOMAIN e = PlayableFields /\ e.zen = c.zen /\ e.head = c.head
        /\ e.zen_clip = c.zen_clip /\ e.meditating_frame = c.meditating_frame
        /\ e.worn = c.worn /\ e.frame = c.frame
    BY <1>0, <2>2 DEF Same, PlayableFields, NpcFields
  <2>5. PlayerOk(e, dead)
    BY <2>2, <2>3, <2>4 DEF PlayerOk, WornOk
  <2> QED  BY <1>2, <2>2, <2>5 DEF Same
<1>3. CASE ~(~c.ghost /\ ghost)
  <2> DEFINE r == [c EXCEPT !.ghost = ghost]
             m == Meditate(r, zen)
  <2>1. e = Wear(m, items)
    BY <1>3 DEF UpdateEquipment
  <2>2. Same(c, r, {"ghost"}) /\ r.ghost = ghost /\ DOMAIN r = PlayableFields
    BY <1>0 DEF Same, PlayableFields, NpcFields
  <2>3. /\ r.zen = c.zen /\ r.head = c.head /\ r.ghost_clip = c.ghost_clip
        /\ r.ghost_body = c.ghost_body /\ r.zen_clip = c.zen_clip
        /\ r.meditating_frame = c.meditating_frame /\ r.worn = c.worn
    BY <1>0, <2>2 DEF Same, PlayableFields, NpcFields
  <2> HIDE DEF r
  <2>4. /\ Same(r, m, {"zen", "zen_clip", "meditating_frame"}) /\ m.zen = zen
        /\ zen /\ r.zen =>
             /\ m.zen_clip = NextZen(r.zen_clip)
             /\ m.meditating_frame = IF r.meditating_frame = Garbage THEN Garbage
                                     ELSE Rect(r.zen_clip[1], r.zen_clip[2], ZenSize)
        /\ zen /\ ~r.zen =>
             m.zen_clip = <<0, 0>> /\ m.meditating_frame = Rect(0, 0, ZenSize)
        /\ ~zen => m.zen_clip = r.zen_clip /\ m.meditating_frame = r.meditating_frame
    BY <1>0, <2>2, <2>3, MeditateEffect
  <2> HIDE DEF m
  <2>5. /\ DOMAIN m = PlayableFields /\ m.ghost = ghost /\ m.head = c.head
        /\ m.ghost_clip = c.ghost_clip /\ m.ghost_body = c.ghost_body /\ m.worn = c.worn
    BY <2>2, <2>3, <2>4 DEF Same, PlayableFields, NpcFields
  <2>6. /\ m.zen_clip \in (0 .. 4) \X (0 .. 1)
        /\ m.meditating_frame \in ZenFrames \cup {Garbage}
        /\ ~dead => (m.zen => m.meditating_frame # Garbage)
    <3>1. c.zen_clip \in (0 .. 4) \X (0 .. 1) /\ c.meditating_frame \in ZenFrames \cup {Garbage}
          /\ (~dead => (c.zen => c.meditating_frame # Garbage))
      BY DEF PlayerOk
    <3>2. CASE zen /\ r.zen
      <4>1. m.zen_clip = NextZen(c.zen_clip) /\ r.meditating_frame = c.meditating_frame
        BY <2>3, <2>4, <3>2
      <4>2. /\ NextZen(c.zen_clip) \in (0 .. 4) \X (0 .. 1)
            /\ Rect(c.zen_clip[1], c.zen_clip[2], ZenSize) \in ZenFrames
            /\ Rect(c.zen_clip[1], c.zen_clip[2], ZenSize) # Garbage
        BY <3>1, ZenAdvances, RectIsSet
      <4>3. m.meditating_frame = IF c.meditating_frame = Garbage THEN Garbage
                                 ELSE Rect(c.zen_clip[1], c.zen_clip[2], ZenSize)
        BY <2>3, <2>4, <3>2
      <4>4. c.zen
        BY <2>3, <3>2
      <4> QED  BY <3>1, <4>1, <4>2, <4>3, <4>4
    <3>3. CASE zen /\ ~r.zen
      BY <2>4, <3>3, ZenAdvances, RectIsSet
    <3>4. CASE ~zen
      <4>1. m.zen_clip = c.zen_clip /\ m.meditating_frame = c.meditating_frame /\ ~m.zen
        BY <2>3, <2>4, <3>4
      <4> QED  BY <3>1, <4>1
    <3> QED  BY <1>0, <2>3, <3>2, <3>3, <3>4
  <2>7. /\ Same(m, e, {"worn", "worn_clip", "items", "frame"})
        /\ DOMAIN e.worn = Slots /\ DOMAIN e.frame = Slots
        /\ \A slot \in Slots :
             /\ ItemIn(slot, items) = NoItem => e.worn[slot] = Null
             /\ ItemIn(slot, items) # NoItem /\ ItemTexture(ItemIn(slot, items)) # m.worn[slot] =>
                  /\ e.worn[slot] = WornTexture(ItemIn(slot, items), Kind)
                  /\ e.frame[slot] = FrameOver(m, slot, ItemIn(slot, items))
    BY <2>1, <2>5, WearEffect
  <2>8. /\ DOMAIN e = PlayableFields /\ e.ghost = ghost /\ e.zen = zen /\ e.head = c.head
        /\ e.ghost_clip = c.ghost_clip /\ e.ghost_body = c.ghost_body
        /\ e.zen_clip = m.zen_clip /\ e.meditating_frame = m.meditating_frame
        /\ e.head = m.head /\ e.body = m.body
    BY <2>4, <2>5, <2>7 DEF Same, PlayableFields, NpcFields
  <2>9. Wears(e, items)
    <3> SUFFICES ASSUME NEW slot \in Slots
                 PROVE  LET i == ItemIn(slot, items)
                        IN IF i = NoItem THEN e.worn[slot] = Null
                           ELSE /\ e.worn[slot] = WornTexture(i, Kind)
                                /\ e.frame[slot] = FrameOver(e, slot, i)
      BY DEF Wears
    <3>1. CASE ItemIn(slot, items) = NoItem
      BY <2>7, <3>1
    <3>2. CASE ItemIn(slot, items) # NoItem
      <4>1. ItemIn(slot, items) \in SlotItems[slot]
        BY <3>2, WornOnSlot
      <4>2. ItemTexture(ItemIn(slot, items)) # m.worn[slot]
        BY <2>5, <4>1 DEF PlayerOk, WornOk
      <4>3. FrameOver(e, slot, ItemIn(slot, items)) = FrameOver(m, slot, ItemIn(slot, items))
        BY <2>8 DEF FrameOver
      <4> QED  BY <2>7, <3>2, <4>2, <4>3
    <3> QED  BY <3>1, <3>2
  <2>10. WornOk(e)
    <3>1. ASSUME NEW slot \in Slots, NEW i \in SlotItems[slot]
          PROVE  e.worn[slot] # ItemTexture(i)
      <4>1. i \in ItemIds
        BY WornOnSlot
      <4>2. e.worn[slot] = Null \/ \E j : e.worn[slot] = WornTexture(j, Kind)
        BY <2>9 DEF Wears
      <4> QED  BY <4>1, <4>2, NeverTheItem
    <3> QED  BY <2>7, <3>1 DEF WornOk
  <2>11. PlayerOk(e, dead)
    <3>1. /\ c.head \in Heads(Kind) /\ c.ghost_clip \in Counter(Clips["corpse"])
          /\ c.ghost_body \in Sheet(GhostSize, Clips["corpse"]) \cup {Garbage}
          /\ ~dead => (c.ghost => c.ghost_body # Garbage)
      BY DEF PlayerOk
    <3>2. ~dead => (e.ghost => e.ghost_body # Garbage)
      BY <1>3, <2>8, <3>1
    <3>3. ~dead => (e.zen => e.meditating_frame # Garbage)
      BY <2>4, <2>6, <2>8
    <3> QED  BY <2>6, <2>7, <2>8, <2>10, <3>1, <3>2, <3>3 DEF PlayerOk
  <2>12. Same(c, e, {"ghost", "ghost_clip", "ghost_body", "zen", "zen_clip",
                     "meditating_frame", "worn", "worn_clip", "items", "frame"})
    BY <1>0, <2>2, <2>4, <2>7 DEF Same
  <2> QED  BY <2>8, <2>9, <2>11, <2>12
<1> QED  BY <1>2, <1>3

\* A step of a player shows the next frames of its sheets, and touches nothing that
\* the status is about (playable_character.cpp:340).
LEMMA PlayerMoves ==
  ASSUME cast \in Casts, Playable, NEW c, NEW dead \in BOOLEAN, PlayerOk(c, dead), BodyOk(c),
         NEW d \in Directions
  PROVE  /\ PlayerOk(Move(c, d), dead) /\ BodyOk(Move(c, d))
         /\ Same(c, Move(c, d), {"clip", "body", "worn_clip", "frame", "ghost_clip", "ghost_body",
                                 "head"})
<1> DEFINE b == MoveBody(c, d)
           g == IF c.ghost THEN MoveGhost(c, d) ELSE MoveItems(b, d)
           e == Profiled(g, d)
<1>0. Move(c, d) = e
  BY DEF Move
<1>1. /\ Moves /\ Kind \in Bodies /\ Kind \in Races
      /\ Clips[Kind] \in Nat \X Nat /\ Clips["corpse"] \in Nat \X Nat
  BY PlayersMove, KindIsDrawn, ClipsType
<1>2. /\ DOMAIN c = PlayableFields /\ DOMAIN c.frame = Slots /\ c.head \in Heads(Kind)
      /\ c.ghost_clip \in Counter(Clips["corpse"])
      /\ c.ghost_body \in Sheet(GhostSize, Clips["corpse"]) \cup {Garbage}
      /\ c.clip \in Counter(Clips[Kind]) /\ c.body \in Sheet(Size[Kind], Clips[Kind])
  BY DEF PlayerOk, BodyOk
<1>3. /\ Same(c, b, {"clip", "body"})
      /\ b.clip \in Counter(Clips[Kind]) /\ b.body \in Sheet(Size[Kind], Clips[Kind])
  BY <1>1, <1>2, MoveBodyEffect, CounterAdvances
<1> HIDE DEF b
<1>4. /\ Same(c, g, {"clip", "body", "worn_clip", "frame", "ghost_clip", "ghost_body"})
      /\ g.clip \in Counter(Clips[Kind]) /\ g.body \in Sheet(Size[Kind], Clips[Kind])
      /\ g.ghost_clip \in Counter(Clips["corpse"])
      /\ g.ghost_body \in Sheet(GhostSize, Clips["corpse"]) \cup {Garbage}
      /\ g.ghost_body = Garbage => c.ghost_body = Garbage
      /\ DOMAIN g.frame = Slots
  <2>1. CASE c.ghost
    <3>1. g = MoveGhost(c, d)
      BY <2>1
    <3> HIDE DEF g
    <3>2. /\ Same(c, g, {"ghost_clip", "ghost_body"})
          /\ g.ghost_clip = Advanced(c.ghost_clip, d, Clips["corpse"])
          /\ g.ghost_body = IF c.ghost_body = Garbage THEN Garbage
                            ELSE NextClip(c.ghost_clip, d, GhostSize)
      BY <1>2, <3>1, MoveGhostEffect
    <3>3. /\ Advanced(c.ghost_clip, d, Clips["corpse"]) \in Counter(Clips["corpse"])
          /\ NextClip(c.ghost_clip, d, GhostSize) \in Sheet(GhostSize, Clips["corpse"])
          /\ NextClip(c.ghost_clip, d, GhostSize) # Garbage
      BY <1>1, <1>2, CounterAdvances, RectIsSet DEF NextClip
    <3>4. g.clip = c.clip /\ g.body = c.body /\ g.frame = c.frame
      BY <1>2, <3>2 DEF Same, PlayableFields, NpcFields
    <3> QED  BY <1>2, <3>2, <3>3, <3>4 DEF Same
  <2>2. CASE ~c.ghost
    <3>1. g = MoveItems(b, d)
      BY <2>2
    <3>2. DOMAIN b = PlayableFields
      BY <1>2, <1>3 DEF Same
    <3> HIDE DEF g
    <3>3. Same(b, g, {"worn_clip", "frame"}) /\ DOMAIN g.frame = Slots
      BY <3>1, <3>2, MoveItemsEffect
    <3>4. /\ g.clip = b.clip /\ g.body = b.body
          /\ g.ghost_clip = c.ghost_clip /\ g.ghost_body = c.ghost_body
      BY <1>2, <1>3, <3>2, <3>3 DEF Same, PlayableFields, NpcFields
    <3> QED  BY <1>2, <1>3, <3>2, <3>3, <3>4 DEF Same
  <2> QED  BY <2>1, <2>2
<1> HIDE DEF g
<1>5. /\ DOMAIN g = PlayableFields /\ g.head = c.head
      /\ g.ghost = c.ghost /\ g.zen = c.zen /\ g.worn = c.worn
      /\ g.zen_clip = c.zen_clip /\ g.meditating_frame = c.meditating_frame
  BY <1>2, <1>4 DEF Same, PlayableFields, NpcFields
<1>6. /\ Same(g, e, {"head", "frame"}) /\ DOMAIN e.frame = Slots
      /\ e.head = [g.head EXCEPT ![1] = HeadOf[d] * g.head[3]]
  BY <1>4, <1>5, ProfiledEffect
<1> HIDE DEF e
<1>7. e.head \in Heads(Kind)
  BY <1>1, <1>2, <1>5, <1>6, HeadTurns
<1>8. /\ DOMAIN e = PlayableFields /\ e.clip = g.clip /\ e.body = g.body
      /\ e.ghost = c.ghost /\ e.zen = c.zen /\ e.worn = c.worn
      /\ e.zen_clip = c.zen_clip /\ e.meditating_frame = c.meditating_frame
      /\ e.ghost_clip = g.ghost_clip /\ e.ghost_body = g.ghost_body
  BY <1>5, <1>6 DEF Same, PlayableFields, NpcFields
<1>9. PlayerOk(e, dead)
  BY <1>4, <1>6, <1>7, <1>8 DEF PlayerOk, WornOk
<1>10. BodyOk(e)
  BY <1>4, <1>8 DEF BodyOk
<1>11. Same(c, e, {"clip", "body", "worn_clip", "frame", "ghost_clip", "ghost_body", "head"})
  BY <1>2, <1>4, <1>6 DEF Same
<1> QED  BY <1>0, <1>9, <1>10, <1>11

\* A step of a monster.
LEMMA MonsterMoves ==
  ASSUME cast \in Casts, Moves, ~Playable, NEW c, DOMAIN c = NpcFields, BodyOk(c),
         NEW d \in Directions
  PROVE  BodyOk(Move(c, d)) /\ Same(c, Move(c, d), {"clip", "body"})
<1>1. Clips[Kind] \in Nat \X Nat /\ c.clip \in Counter(Clips[Kind])
  BY KindIsDrawn, ClipsType DEF BodyOk
<1>2. Move(c, d) = MoveBody(c, d)
  BY DEF Move
<1>3. /\ Same(c, MoveBody(c, d), {"clip", "body"})
      /\ MoveBody(c, d).body = NextClip(c.clip, d, Size[Kind])
      /\ MoveBody(c, d).clip = Advanced(c.clip, d, Clips[Kind])
  BY MoveBodyEffect
<1> QED  BY <1>1, <1>2, <1>3, CounterAdvances DEF BodyOk

\* Whatever the memory of a new player held, nothing of it is left in one that lives,
\* and one that is loaded as a ghost may be drawn with it (playable_character.cpp:22).
LEMMA NewPlayableOk ==
  ASSUME cast \in Casts, Playable, NEW s \in Statuses, NEW left \in Leftovers
  PROVE  CharacterOk(NewPlayable(s, left), s, s.ghost) /\ NewPlayable(s, left).spell = DeadSpell
<1> DEFINE b == PlayableBefore(s, left)
           e == NewPlayable(s, left)
<1>1. /\ Moves /\ Kind \in Bodies /\ Kind \in Races
      /\ Clips[Kind] \in Nat \X Nat /\ Clips["corpse"] \in Nat \X Nat
  BY PlayersMove, KindIsDrawn, ClipsType
<1>2. s.ghost \in BOOLEAN /\ s.zen \in BOOLEAN
  BY <1>1, StatusFacts
<1>3. left.ghost \in BOOLEAN /\ left.zen \in BOOLEAN
  BY DEF Leftovers
<1>4. \E t \in {Null, GarbageTexture} : left.worn = [slot \in Slots |-> t]
  BY DEF Leftovers
<1>5. /\ DOMAIN b = PlayableFields /\ b.at = Pixels(s.at) /\ b.dir = s.dir
      /\ b.clip = NoneShown /\ b.body = Rect(0, 0, Size[Kind]) /\ b.spell = DeadSpell
      /\ b.head = Rect(0, 0, HeadSize(Kind)) /\ b.ghost = left.ghost /\ b.zen = left.zen
      /\ b.ghost_clip = NoneShown /\ b.ghost_body = Garbage /\ b.zen_clip = <<0, 0>>
      /\ b.meditating_frame = Garbage /\ b.worn = left.worn /\ DOMAIN b.frame = Slots
  BY DEF PlayableBefore, PlayableFields, NpcFields
<1>6. WornOk(b)
  <2>1. \A slot \in Slots : \A i \in SlotItems[slot] : i \in ItemIds
    BY WornOnSlot
  <2> QED  BY <1>4, <1>5, <2>1, NeverTheItem DEF WornOk
<1> HIDE DEF b
<1>7. PlayerOk(b, TRUE)
  BY <1>1, <1>3, <1>5, <1>6, CounterAdvances, HeadTurns, ZenAdvances DEF PlayerOk
<1>8. e = UpdateEquipment(b, s.ghost, FALSE, s.items)
  BY DEF NewPlayable, b
<1> HIDE DEF e
<1>9. /\ PlayerOk(e, TRUE)
      /\ Same(b, e, {"ghost", "ghost_clip", "ghost_body", "zen", "zen_clip",
                     "meditating_frame", "worn", "worn_clip", "items", "frame"})
      /\ e.ghost = s.ghost
      /\ ~s.ghost => e.zen = FALSE /\ Wears(e, s.items)
  <2>1. \A dead, ghost, zen \in BOOLEAN : PlayerOk(b, dead) /\ ~(ghost /\ zen) =>
          LET u == UpdateEquipment(b, ghost, zen, s.items)
          IN /\ PlayerOk(u, dead)
             /\ Same(b, u, {"ghost", "ghost_clip", "ghost_body", "zen", "zen_clip",
                            "meditating_frame", "worn", "worn_clip", "items", "frame"})
             /\ u.ghost = ghost
             /\ ~ghost => u.zen = zen /\ Wears(u, s.items)
    BY UpdateEquipmentOk
  <2> QED  BY <1>2, <1>7, <1>8, <2>1
<1>10. /\ DOMAIN e = PlayableFields /\ e.at = Pixels(s.at) /\ e.dir = s.dir
       /\ e.clip = NoneShown /\ e.body = Rect(0, 0, Size[Kind]) /\ e.spell = DeadSpell
  BY <1>5, <1>9 DEF Same, PlayableFields, NpcFields
<1>11. PlayerOk(e, s.ghost)
  BY <1>2, <1>9 DEF PlayerOk
<1>12. BodyOk(e)
  BY <1>1, <1>10, CounterAdvances DEF BodyOk
<1> QED  BY <1>9, <1>10, <1>11, <1>12 DEF CharacterOk, LooksLike, Spells, e

\* Who is updated looks as the status says, with the spell that was on it.
LEMMA UpdateCharacterOk ==
  ASSUME cast \in Casts, Moves, NEW s \in Statuses, loaded_dead \in BOOLEAN,
         CharacterOk(ch, current_status, loaded_dead)
  PROVE  CharacterOk(UpdateCharacter(s), s, loaded_dead) /\ UpdateCharacter(s).spell = ch.spell
<1> DEFINE placed == Placed(ch, s)
           moved == IF ChangePosition(s) THEN Move(placed, s.dir) ELSE ch
           steps == {"clip", "body", "worn_clip", "frame", "ghost_clip", "ghost_body", "head"}
<1>1. /\ s.dir \in Directions /\ s.ghost \in BOOLEAN /\ s.zen \in BOOLEAN
      /\ ~(s.ghost /\ s.zen)
  BY StatusFacts
<1>2. /\ DOMAIN ch = IF Playable THEN PlayableFields ELSE NpcFields
      /\ BodyOk(ch) /\ ch.spell \in Spells
      /\ Playable => PlayerOk(ch, loaded_dead)
  BY DEF CharacterOk
<1>3. /\ Same(ch, placed, {"at", "dir"})
      /\ placed.at = Pixels(s.at) /\ placed.dir = s.dir
  BY <1>2, PlacedEffect
<1> HIDE DEF placed
<1>4. /\ DOMAIN placed = DOMAIN ch /\ BodyOk(placed) /\ placed.spell = ch.spell
      /\ Playable => PlayerOk(placed, loaded_dead)
  <2>1. BodyOk(placed) /\ placed.spell = ch.spell
    BY <1>2, <1>3 DEF BodyOk, Same, PlayableFields, NpcFields
  <2>2. ASSUME Playable PROVE PlayerOk(placed, loaded_dead)
    <3>1. /\ DOMAIN placed = PlayableFields
          /\ \A f \in PlayableFields \ {"at", "dir"} : placed[f] = ch[f]
      BY <1>2, <1>3, <2>2 DEF Same
    <3>2. /\ placed.ghost = ch.ghost /\ placed.zen = ch.zen /\ placed.head = ch.head
          /\ placed.ghost_clip = ch.ghost_clip /\ placed.ghost_body = ch.ghost_body
          /\ placed.zen_clip = ch.zen_clip /\ placed.meditating_frame = ch.meditating_frame
          /\ placed.worn = ch.worn /\ placed.frame = ch.frame
      BY <3>1 DEF PlayableFields, NpcFields
    <3> QED  BY <1>2, <2>2, <3>1, <3>2 DEF PlayerOk, WornOk
  <2> QED  BY <1>3, <2>1, <2>2 DEF Same
<1>5. /\ moved.at = Pixels(s.at) /\ moved.dir = s.dir /\ BodyOk(moved)
      /\ moved.spell = ch.spell /\ DOMAIN moved = DOMAIN ch
      /\ Playable => PlayerOk(moved, loaded_dead)
  <2>1. CASE ~ChangePosition(s)
    BY <1>2, <2>1 DEF ChangePosition
  <2>2. CASE ChangePosition(s)
    <3>1. moved = Move(placed, s.dir)
      BY <2>2
    <3> HIDE DEF moved
    <3>2. /\ Same(placed, moved, steps) /\ BodyOk(moved)
          /\ Playable => PlayerOk(moved, loaded_dead)
      <4>1. CASE Playable
        BY <1>1, <1>4, <3>1, <4>1, PlayerMoves
      <4>2. CASE ~Playable
        <5>1. Same(placed, moved, {"clip", "body"}) /\ BodyOk(moved)
          BY <1>1, <1>2, <1>4, <3>1, <4>2, MonsterMoves
        <5> QED  BY <4>2, <5>1 DEF Same
      <4> QED  BY <4>1, <4>2
    <3>3. moved.at = placed.at /\ moved.dir = placed.dir /\ moved.spell = placed.spell
      BY <1>2, <1>4, <3>2 DEF Same, PlayableFields, NpcFields
    <3> QED  BY <1>3, <1>4, <3>2, <3>3 DEF Same
  <2> QED  BY <2>1, <2>2
<1>6. UpdateCharacter(s) =
        IF Playable THEN UpdateEquipment(moved, s.ghost, s.zen, s.items) ELSE moved
  BY DEF UpdateCharacter, placed
<1> HIDE DEF moved
<1>7. CASE ~Playable
  BY <1>2, <1>5, <1>6, <1>7 DEF CharacterOk
<1>8. CASE Playable
  <2> DEFINE e == UpdateEquipment(moved, s.ghost, s.zen, s.items)
  <2>1. /\ PlayerOk(e, loaded_dead)
        /\ Same(moved, e, {"ghost", "ghost_clip", "ghost_body", "zen", "zen_clip",
                           "meditating_frame", "worn", "worn_clip", "items", "frame"})
        /\ e.ghost = s.ghost
        /\ ~s.ghost => e.zen = s.zen /\ Wears(e, s.items)
    BY <1>1, <1>5, <1>8, UpdateEquipmentOk
  <2> HIDE DEF e
  <2>2. /\ DOMAIN e = PlayableFields /\ e.at = Pixels(s.at) /\ e.dir = s.dir
        /\ e.clip = moved.clip /\ e.body = moved.body /\ e.spell = ch.spell
    BY <1>2, <1>5, <1>8, <2>1 DEF Same, PlayableFields, NpcFields
  <2>3. BodyOk(e)
    BY <1>5, <2>2 DEF BodyOk
  <2>4. LooksLike(e, s)
    BY <1>1, <2>1 DEF LooksLike
  <2>5. CharacterOk(e, s, loaded_dead)
    BY <1>2, <1>8, <2>1, <2>2, <2>3, <2>4 DEF CharacterOk
  <2> QED  BY <1>6, <1>8, <2>2, <2>5 DEF e
<1> QED  BY <1>7, <1>8

\* What a status makes of a character, met for the first time or not.
LEMMA CharactersOk ==
  ASSUME SceneTypes, CharacterInv, Moves, NEW s \in Statuses, NEW c \in Characters(s)
  PROVE  /\ CharacterOk(c, s, IF New THEN s.ghost ELSE loaded_dead)
         /\ c.spell = IF New THEN DeadSpell ELSE ch.spell
<1>0. cast \in Casts /\ loaded_dead \in BOOLEAN /\ (~New => current_status \in Statuses)
  BY DEF SceneTypes
<1>1. CASE New /\ Playable
  <2>1. PICK left \in Leftovers : c = NewPlayable(s, left)
    BY <1>1 DEF Characters, LoadCharacter
  <2> QED  BY <1>0, <1>1, <2>1, NewPlayableOk
<1>2. CASE New /\ ~Playable
  <2>1. c = Npc(s)
    BY <1>2 DEF Characters, LoadCharacter
  <2>2. Clips[Kind] \in Nat \X Nat
    BY <1>0, KindIsDrawn, ClipsType
  <2>3. /\ DOMAIN c = NpcFields /\ c.at = Pixels(s.at) /\ c.dir = s.dir /\ c.spell = DeadSpell
        /\ c.clip = NoneShown /\ c.body = Rect(0, 0, Size[Kind])
    BY <2>1 DEF Npc, NpcFields
  <2> QED  BY <1>2, <2>2, <2>3, CounterAdvances DEF CharacterOk, BodyOk, Spells
<1>3. CASE ~New /\ IsEqual(s)
  <2>1. c = ch
    BY <1>3 DEF Characters
  <2>2. /\ DOMAIN s = {"at", "dir", "ghost", "zen", "hit", "items"}
        /\ DOMAIN current_status = {"at", "dir", "ghost", "zen", "hit", "items"}
    BY <1>0, <1>3, StatusFacts
  <2>3. [current_status EXCEPT !.hit = 0] = [s EXCEPT !.hit = 0]
    BY <1>3 DEF IsEqual
  <2>4. \A f \in {"at", "dir", "ghost", "zen", "items"} : s[f] = current_status[f]
    BY <2>2, <2>3
  <2>5. /\ s.at = current_status.at /\ s.dir = current_status.dir
        /\ s.ghost = current_status.ghost /\ s.zen = current_status.zen
        /\ s.items = current_status.items
    BY <2>4
  <2>6. CharacterOk(ch, current_status, loaded_dead)
    BY <1>3 DEF CharacterInv
  <2>7. CharacterOk(ch, s, loaded_dead)
    BY <2>5, <2>6 DEF CharacterOk, LooksLike
  <2> QED  BY <1>3, <2>1, <2>7
<1>4. CASE ~New /\ ~IsEqual(s)
  BY <1>0, <1>4, UpdateCharacterOk DEF Characters, CharacterInv
<1> QED  BY <1>1, <1>2, <1>3, <1>4

\* A spell changes nothing else of who it is on.
LEMMA SpellKeepsCharacter ==
  ASSUME NEW c, NEW s, NEW dead, CharacterOk(c, s, dead), NEW animation \in Animations
  PROVE  CharacterOk(WithSpell(c, animation), s, dead)
<1> DEFINE e == WithSpell(c, animation)
<1>1. DOMAIN c = IF Playable THEN PlayableFields ELSE NpcFields
  BY DEF CharacterOk
<1>2. Same(c, e, {"spell"}) /\ e.spell \in Spells
  BY <1>1, WithSpellEffect DEF CharacterOk
<1> HIDE DEF e
<1>3. /\ DOMAIN e = DOMAIN c /\ e.at = c.at /\ e.dir = c.dir /\ e.clip = c.clip
      /\ e.body = c.body
  BY <1>1, <1>2 DEF Same, PlayableFields, NpcFields
<1>4. ASSUME Playable PROVE PlayerOk(e, dead) /\ LooksLike(e, s)
  <2>1. /\ DOMAIN e = PlayableFields /\ e.ghost = c.ghost /\ e.zen = c.zen /\ e.head = c.head
        /\ e.ghost_clip = c.ghost_clip /\ e.ghost_body = c.ghost_body
        /\ e.zen_clip = c.zen_clip /\ e.meditating_frame = c.meditating_frame
        /\ e.worn = c.worn /\ e.frame = c.frame
    BY <1>1, <1>2, <1>4 DEF Same, PlayableFields, NpcFields
  <2>2. PlayerOk(c, dead) /\ LooksLike(c, s)
    BY <1>4 DEF CharacterOk
  <2>3. PlayerOk(e, dead)
    BY <2>1, <2>2 DEF PlayerOk, WornOk
  <2>4. LooksLike(e, s)
    BY <1>3, <2>1, <2>2 DEF LooksLike, Wears, FrameOver
  <2> QED  BY <2>3, <2>4
<1>5. CharacterOk(e, s, dead)
  BY <1>2, <1>3, <1>4 DEF CharacterOk, BodyOk
<1> QED  BY <1>5 DEF e

-----------------------------------------------------------------------------
(* Animations *)

\* An animation that begins is of a spell that is drawn, and has its life before it;
\* one that passes has a life less, and is erased after its last (protected_map.cpp:48).
LEMMA AnimationPasses ==
  ASSUME NEW a \in Animations, NEW hit \in {0} \cup SlotItems.weapon
  PROVE  /\ Begun(a, hit) \in Animations
         /\ Begins(a, hit) => Begun(a, hit) # NoSpell /\ Begun(a, hit)[2] > 0
         /\ ~Begins(a, hit) => Begun(a, hit) = a
         /\ Passed(a) \in Animations
         /\ a = NoSpell \/ a[2] = -1 => Passed(a) = NoSpell
         /\ a # NoSpell => /\ a[2] \in Int /\ a[2] >= -1
                           /\ a[2] # -1 => Passed(a) # NoSpell /\ Passed(a)[2] = a[2] - 1
<1>0. \A x \in SpellNames : SpellLife(x) \in Nat /\ SpellLife(x) > 0
  BY DEF SpellNames, SpellLife, Frames, FramesPerTexture
<1>1. hit # 0 => SpellOf(hit) \in SpellNames
  BY DEF SlotItems, SpellOf, SpellNames, Frames
<1>2. Begins(a, hit) =>
        /\ Begun(a, hit) = <<SpellOf(hit), SpellLife(SpellOf(hit))>>
        /\ SpellOf(hit) \in SpellNames
  BY <1>1 DEF Begins, Begun
<1>3. Begins(a, hit) =>
        Begun(a, hit) \in Animations /\ Begun(a, hit) # NoSpell /\ Begun(a, hit)[2] > 0
  <2> SUFFICES ASSUME Begins(a, hit)
               PROVE  /\ Begun(a, hit) \in Animations /\ Begun(a, hit) # NoSpell
                      /\ Begun(a, hit)[2] > 0
    OBVIOUS
  <2>1. SpellLife(SpellOf(hit)) \in -1 .. SpellLife(SpellOf(hit)) /\ SpellLife(SpellOf(hit)) > 0
    BY <1>0, <1>2
  <2>2. Begun(a, hit) \in {SpellOf(hit)} \X (-1 .. SpellLife(SpellOf(hit)))
    BY <1>2, <2>1
  <2>3. Begun(a, hit) \in Animations
    BY <1>2, <2>2 DEF Animations
  <2> QED  BY <1>2, <2>1, <2>3 DEF NoSpell
<1>4. ~Begins(a, hit) => Begun(a, hit) = a
  BY DEF Begun
<1>5. /\ Passed(a) \in Animations
      /\ a = NoSpell \/ a[2] = -1 => Passed(a) = NoSpell
      /\ a # NoSpell => /\ a[2] \in Int /\ a[2] >= -1
                        /\ a[2] # -1 => Passed(a) # NoSpell /\ Passed(a)[2] = a[2] - 1
  <2>1. CASE a = NoSpell
    BY <2>1 DEF Passed, Animations
  <2>2. CASE a # NoSpell
    <3>1. PICK x \in SpellNames : a \in {x} \X (-1 .. SpellLife(x))
      BY <2>2 DEF Animations
    <3>2. a[1] = x /\ a[2] \in -1 .. SpellLife(x) /\ SpellLife(x) \in Nat
      BY <1>0, <3>1
    <3>3. CASE a[2] = -1
      BY <2>2, <3>2, <3>3 DEF Passed, Animations
    <3>4. CASE a[2] # -1
      <4>1. Passed(a) = <<x, a[2] - 1>>
        BY <2>2, <3>2, <3>4 DEF Passed
      <4>2. a[2] - 1 \in -1 .. SpellLife(x)
        BY <3>2, <3>4
      <4>3. Passed(a) \in {x} \X (-1 .. SpellLife(x))
        BY <4>1, <4>2
      <4>4. Passed(a) \in Animations
        BY <4>3 DEF Animations
      <4> QED  BY <2>2, <3>2, <3>4, <4>1, <4>4 DEF NoSpell
    <3> QED  BY <3>3, <3>4
  <2> QED  BY <2>1, <2>2
<1> QED  BY <1>3, <1>4, <1>5

-----------------------------------------------------------------------------
(* The camera *)

\* The sizes, and what half the screen is.
LEMMA SizesAreInts ==
  /\ TileSize \in Nat /\ MapSize \in Nat /\ ScreenWidth \in Nat /\ ScreenHeight \in Nat
  /\ UIHeight \in Nat /\ ScreenWidth > 0 /\ ScreenHeight > 0
  /\ ScreenWidth <= MapSize /\ ScreenHeight <= MapSize
  /\ ScreenWidth \div 2 \in Nat /\ ScreenHeight \div 2 \in Nat
  /\ ScreenWidth \div 2 <= ScreenWidth /\ ScreenHeight \div 2 <= ScreenHeight
BY SceneAssumption

\* A tile has pixels on the map.
LEMMA PixelsAreInts == \A tile \in Nat \X Nat : Pixels(tile) \in Nat \X Nat
BY SizesAreInts DEF Pixels

\* The camera put somewhere.
LEMMA ViewedAt ==
  ASSUME NEW x \in Int, NEW y \in Int, Viewed(x, y)
  PROVE  map_piece'.x = x /\ map_piece'.y = y /\ CameraAt'
BY SizesAreInts DEF Viewed, CameraAt

\* The camera left where it is.
LEMMA CameraStays == CameraAt /\ UNCHANGED camera => CameraAt'
BY DEF CameraAt, camera

-----------------------------------------------------------------------------
(* The invariant is inductive *)

\* The camera is put where the hero is loaded and moved by the differences of its
\* positions (game.cpp:94, :186).
LEMMA CameraFollowsOk ==
  ASSUME SceneInv, NEW s \in Statuses, Moves, CameraFollows(s)
  PROVE  /\ CameraAt'
         /\ cast.mine => /\ map_piece'.x = Pixels(s.at)[1] - ScreenWidth \div 2
                         /\ map_piece'.y = Pixels(s.at)[2] - ScreenHeight \div 2
<1>0. cast \in Casts /\ (~New => current_status \in Statuses)
  BY DEF SceneInv, SceneTypes
<1>1. Pixels(s.at)[1] \in Int /\ Pixels(s.at)[2] \in Int
  BY <1>0, StatusFacts, PixelsAreInts
<1>2. CameraAt /\ map_piece.x \in Int /\ map_piece.y \in Int
  BY DEF SceneInv, CameraInv, CameraAt
<1>3. CASE ~cast.mine
  BY <1>2, <1>3, CameraStays DEF CameraFollows
<1>4. CASE cast.mine /\ New
  <2>1. map_piece.x = 0 /\ map_piece.y = 0
    BY <1>4 DEF SceneInv, CameraInv
  <2>2. Viewed(map_piece.x + (Pixels(s.at)[1] - ScreenWidth \div 2),
               map_piece.y + (Pixels(s.at)[2] - ScreenHeight \div 2))
    BY <1>4 DEF CameraFollows, UpdateMap
  <2> QED  BY <1>1, <2>1, <2>2, ViewedAt, SizesAreInts
<1>5. CASE cast.mine /\ ~New
  <2>1. CharacterOk(ch, current_status, loaded_dead)
    BY <1>5 DEF SceneInv, CharacterInv
  <2>2. ch.at = Pixels(current_status.at)
    BY <2>1 DEF CharacterOk
  <2>3. ch.at[1] \in Int /\ ch.at[2] \in Int
    BY <1>0, <1>5, <2>2, StatusFacts, PixelsAreInts
  <2>4. /\ map_piece.x = ch.at[1] - ScreenWidth \div 2
        /\ map_piece.y = ch.at[2] - ScreenHeight \div 2
    BY <1>5 DEF SceneInv, CameraInv
  <2>5. CASE ~ChangePosition(s)
    BY <1>2, <1>5, <2>4, <2>5, CameraStays DEF CameraFollows, ChangePosition, camera
  <2>6. CASE ChangePosition(s)
    <3>1. Viewed(map_piece.x + (Pixels(s.at)[1] - ch.at[1]),
                 map_piece.y + (Pixels(s.at)[2] - ch.at[2]))
      BY <1>5, <2>6 DEF CameraFollows, UpdateMap
    <3> QED  BY <1>1, <1>2, <2>3, <2>4, <3>1, ViewedAt, SizesAreInts
  <2> QED  BY <2>5, <2>6
<1> QED  BY <1>3, <1>4, <1>5

\* A character is something.
LEMMA CharacterIsThere == \A c, s, dead : CharacterOk(c, s, dead) => c # NoCharacter
BY DEF CharacterOk, NpcFields, PlayableFields, NoCharacter

\* A status about who moves, with the animation a on it: the entity is where the status
\* says and as it says, with the camera on it and the spell of the animation.
LEMMA MapWriterOk ==
  ASSUME SceneInv, NEW s \in Statuses, NEW a \in Animations, MapWriter(s, a), frozen' \in BOOLEAN
  PROVE  LET b == Begun(a, s.hit)
         IN /\ SceneTypes' /\ CharacterInv' /\ CameraInv'
            /\ affected' = Passed(b)
            /\ b # NoSpell /\ b[2] # -1 => ch'.spell.life = b[2]
            /\ b = NoSpell \/ b[2] = -1 => ch'.spell = IF New THEN DeadSpell ELSE ch.spell
<1> DEFINE b == Begun(a, s.hit)
           dead == IF New THEN s.ghost ELSE loaded_dead
<1>0. /\ cast \in Casts /\ Moves /\ loaded_dead \in BOOLEAN /\ s.ghost \in BOOLEAN
      /\ item = NoItemDrawn /\ s # NoStatus /\ s.hit \in {0} \cup SlotItems.weapon
      /\ SceneTypes /\ CharacterInv
  <2>1. cast \in Casts /\ Moves /\ SceneTypes /\ CharacterInv
    BY DEF SceneInv, SceneTypes, MapWriter, Moves
  <2>2. loaded_dead \in BOOLEAN /\ item = NoItemDrawn
    BY <2>1 DEF SceneTypes
  <2> QED  BY <2>1, <2>2, StatusFacts
<1>1. PICK c \in Characters(s) : ch' = WithSpell(c, b)
  BY DEF MapWriter
<1>2. /\ current_status' = s /\ affected' = Passed(b) /\ CameraFollows(s)
      /\ loaded_dead' = dead /\ UNCHANGED <<cast, item>>
  BY DEF MapWriter
<1>3. /\ b \in Animations /\ Passed(b) \in Animations
      /\ b # NoSpell => b[2] \in Int /\ b[2] >= -1
  BY <1>0, AnimationPasses
<1> HIDE DEF b
<1>4. CharacterOk(c, s, dead) /\ c.spell = IF New THEN DeadSpell ELSE ch.spell
  BY <1>0, CharactersOk
<1> HIDE DEF dead
<1>5. CharacterOk(ch', s, dead)
  BY <1>1, <1>3, <1>4, SpellKeepsCharacter
<1>6. /\ b # NoSpell /\ b[2] # -1 => ch'.spell.life = b[2]
      /\ b = NoSpell \/ b[2] = -1 => ch'.spell = IF New THEN DeadSpell ELSE ch.spell
  <2>1. DOMAIN c \in {PlayableFields, NpcFields}
    BY <1>4 DEF CharacterOk
  <2>2. /\ b = NoSpell \/ b[2] = -1 => ch'.spell = c.spell
        /\ b # NoSpell /\ b[2] >= 0 => ch'.spell.life = b[2]
    BY <1>1, <1>3, <2>1, WithSpellEffect
  <2>3. b # NoSpell /\ b[2] # -1 => b[2] >= 0
    BY <1>3
  <2> QED  BY <1>4, <2>2, <2>3
<1>7. ~New' /\ Moves' /\ (Playable' <=> Playable) /\ Kind' = Kind
  BY <1>0, <1>2 DEF New, Moves, Playable, Kind
<1>8. CharacterInv'
  <2>1. CharacterOk(ch, current_status, loaded_dead)'
    BY <1>2, <1>5 DEF CharacterOk, BodyOk, PlayerOk, WornOk, LooksLike, Wears, Playable, Kind,
                      Pixels
  <2> QED  BY <2>1 DEF CharacterInv
<1>9. SceneTypes'
  <2>1. Statuses' = Statuses
    BY <1>2 DEF Statuses
  <2>2. dead \in BOOLEAN
    BY <1>0 DEF dead
  <2> QED  BY <1>0, <1>2, <1>3, <1>7, <2>1, <2>2 DEF SceneTypes
<1>10. CameraInv'
  <2>1. ch'.at = Pixels(s.at)
    BY <1>5 DEF CharacterOk
  <2>2. /\ CameraAt'
        /\ cast.mine => /\ map_piece'.x = Pixels(s.at)[1] - ScreenWidth \div 2
                        /\ map_piece'.y = Pixels(s.at)[2] - ScreenHeight \div 2
    BY <1>0, <1>2, CameraFollowsOk
  <2> QED  BY <1>2, <1>7, <2>1, <2>2 DEF CameraInv
<1> QED  BY <1>2, <1>6, <1>8, <1>9, <1>10 DEF b

\* Init establishes the invariant.
LEMMA SceneInit == Init => SceneInv
<1> SUFFICES ASSUME Init PROVE SceneInv
  OBVIOUS
<1>1. SceneTypes
  BY DEF Init, SceneTypes, New, Animations
<1>2. CharacterInv
  BY DEF Init, CharacterInv, New
<1>3. CameraInv
  BY SizesAreInts DEF Init, CameraInv, CameraAt, New
<1>4. SpellsAreCounted
  BY DEF Init, SpellsAreCounted
<1> QED  BY <1>1, <1>2, <1>3, <1>4 DEF SceneInv

\* The spell of a status of the room: an animation that begins is counted from its
\* life, and one under way goes on.
LEMMA ReportKeeps == ASSUME SceneInv, NEW s \in Statuses, Report(s) PROVE SceneInv'
<1> DEFINE b == Begun(affected, s.hit)
<1>0. affected \in Animations /\ frozen \in BOOLEAN
      /\ (New => affected = NoSpell) /\ cast \in Casts
  BY DEF SceneInv, SceneTypes
<1>1. MapWriter(s, affected) /\ frozen' = (frozen /\ ~Begins(affected, s.hit))
  BY DEF Report
<1>2. frozen' \in BOOLEAN
  BY <1>0, <1>1
<1>3. Moves /\ s.hit \in {0} \cup SlotItems.weapon
  BY <1>0, <1>1, StatusFacts DEF MapWriter, Moves
<1>4. /\ SceneTypes' /\ CharacterInv' /\ CameraInv'
      /\ affected' = Passed(b)
      /\ b # NoSpell /\ b[2] # -1 => ch'.spell.life = b[2]
      /\ b = NoSpell \/ b[2] = -1 => ch'.spell = IF New THEN DeadSpell ELSE ch.spell
  BY <1>0, <1>1, <1>2, MapWriterOk
<1>5. b \in Animations
  BY <1>0, <1>3, AnimationPasses
<1>6. /\ Begins(affected, s.hit) => b # NoSpell /\ b[2] > 0
      /\ ~Begins(affected, s.hit) => b = affected
  BY <1>0, <1>3, AnimationPasses
<1> HIDE DEF b
<1>7. /\ b = NoSpell \/ b[2] = -1 => affected' = NoSpell
      /\ b # NoSpell /\ b[2] # -1 => affected' # NoSpell /\ affected'[2] + 1 = b[2]
      /\ b # NoSpell => b[2] \in Int
  <2>1. 0 \in {0} \cup SlotItems.weapon
    OBVIOUS
  <2>2. /\ b = NoSpell \/ b[2] = -1 => Passed(b) = NoSpell
        /\ b # NoSpell => /\ b[2] \in Int
                          /\ b[2] # -1 => Passed(b) # NoSpell /\ Passed(b)[2] = b[2] - 1
    BY <1>5, <2>1, AnimationPasses
  <2> QED  BY <1>4, <2>2
<1>8. SpellsAreCounted'
  <2>1. SUFFICES ASSUME ~frozen'
                 PROVE  ch'.spell.life = IF affected' = NoSpell THEN 0 ELSE affected'[2] + 1
    BY DEF SpellsAreCounted
  <2>2. CASE b # NoSpell /\ b[2] # -1
    BY <1>4, <1>7, <2>2
  <2>3. CASE b = NoSpell \/ b[2] = -1
    <3>1. b = affected /\ ~Begins(affected, s.hit)
      BY <1>6, <2>3
    <3>2. ~frozen
      BY <1>0, <1>1, <2>1, <3>1
    <3>3. CASE New
      BY <1>4, <1>7, <2>3, <3>3 DEF DeadSpell
    <3>4. CASE ~New
      <4>1. ch # NoCharacter
        BY <1>3, <3>4, CharacterIsThere DEF SceneInv, CharacterInv
      <4>2. ch.spell.life = IF affected = NoSpell THEN 0 ELSE affected[2] + 1
        BY <3>2, <4>1 DEF SceneInv, SpellsAreCounted
      <4> QED  BY <1>4, <1>7, <2>3, <3>1, <3>4, <4>2
    <3> QED  BY <3>3, <3>4
  <2> QED  BY <2>2, <2>3
<1> QED  BY <1>4, <1>8 DEF SceneInv

\* The hero in another room: the animations of the old one are forgotten, and whether
\* a spell stays on the hero is what frozen tells.
LEMMA ChangeMapKeeps == ASSUME SceneInv, NEW s \in Statuses, ChangeMap(s) PROVE SceneInv'
<1> DEFINE b == Begun(NoSpell, s.hit)
<1>0. frozen \in BOOLEAN /\ cast \in Casts /\ NoSpell \in Animations
  BY DEF SceneInv, SceneTypes, Animations
<1>1. /\ ~New /\ MapWriter(s, NoSpell)
      /\ frozen' = ((frozen \/ ch.spell.life # 0) /\ ~Begins(NoSpell, s.hit))
  BY DEF ChangeMap
<1>2. frozen' \in BOOLEAN
  BY <1>1
<1>3. Moves /\ s.hit \in {0} \cup SlotItems.weapon
  BY <1>0, <1>1, StatusFacts DEF MapWriter, Moves
<1>4. /\ SceneTypes' /\ CharacterInv' /\ CameraInv'
      /\ affected' = Passed(b)
      /\ b # NoSpell /\ b[2] # -1 => ch'.spell.life = b[2]
      /\ b = NoSpell \/ b[2] = -1 => ch'.spell = ch.spell
  BY <1>0, <1>1, <1>2, MapWriterOk
<1>5. b \in Animations
  BY <1>0, <1>3, AnimationPasses
<1>6. /\ Begins(NoSpell, s.hit) => b # NoSpell /\ b[2] > 0
      /\ ~Begins(NoSpell, s.hit) => b = NoSpell
  BY <1>0, <1>3, AnimationPasses
<1> HIDE DEF b
<1>7. SpellsAreCounted'
  <2>1. SUFFICES ASSUME ~frozen'
                 PROVE  ch'.spell.life = IF affected' = NoSpell THEN 0 ELSE affected'[2] + 1
    BY DEF SpellsAreCounted
  <2>2. CASE Begins(NoSpell, s.hit)
    <3>1. b # NoSpell /\ b[2] # -1
      BY <1>6, <2>2
    <3>2. Passed(b) # NoSpell /\ Passed(b)[2] = b[2] - 1 /\ b[2] \in Int
      BY <1>3, <1>5, <3>1, AnimationPasses
    <3> QED  BY <1>4, <3>1, <3>2
  <2>3. CASE ~Begins(NoSpell, s.hit)
    <3>1. b = NoSpell /\ ch.spell.life = 0
      BY <1>0, <1>1, <1>6, <2>1, <2>3
    <3>2. affected' = NoSpell
      BY <1>4, <3>1 DEF Passed
    <3> QED  BY <1>4, <3>1, <3>2
  <2> QED  BY <2>2, <2>3
<1> QED  BY <1>4, <1>7 DEF SceneInv

\* A drop is loaded again.
LEMMA LoadItemKeeps == ASSUME SceneInv, NEW s \in Statuses, LoadItem(s) PROVE SceneInv'
<1>0. /\ cast \in Casts /\ ~Moves /\ ~cast.mine
      /\ affected = NoSpell /\ ch = NoCharacter /\ SceneTypes
  <2>1. cast \in Casts /\ ~Moves /\ SceneTypes
    BY DEF SceneInv, SceneTypes, LoadItem, Moves
  <2> QED  BY <2>1, PlayersMove DEF SceneTypes
<1>1. /\ item' = [texture |-> ItemTexture(s.items[Len(s.items)]), at |-> Pixels(s.at)]
      /\ current_status' = s
      /\ UNCHANGED <<cast, affected, ch, camera, loaded_dead, frozen>>
  BY DEF LoadItem
<1>2. s # NoStatus /\ s.items \in Seq(ItemIds \cup {Gold}) /\ s.items # <<>>
  BY <1>0, StatusFacts
<1>3. s.items[Len(s.items)] \in ItemIds \cup {Gold}
  <2>1. Len(s.items) \in 1 .. Len(s.items)
    BY <1>2
  <2> QED  BY <1>2, <2>1
<1>4. ~New' /\ ~Moves' /\ Statuses' = Statuses
  BY <1>0, <1>1, <1>2 DEF New, Moves, Statuses
<1>5. SceneTypes'
  <2>1. \E i \in ItemIds \cup {Gold} :
          item' = [texture |-> ItemTexture(i), at |-> Pixels(current_status'.at)]
    BY <1>1, <1>3
  <2> QED  BY <1>0, <1>1, <1>4, <2>1 DEF SceneTypes, Pixels
<1>6. CharacterInv'
  BY <1>4 DEF CharacterInv
<1>7. CameraInv'
  BY <1>0, <1>1, CameraStays DEF SceneInv, CameraInv
<1>8. SpellsAreCounted'
  BY <1>0, <1>1 DEF SpellsAreCounted
<1> QED  BY <1>5, <1>6, <1>7, <1>8 DEF SceneInv

\* Who leaves is kept while an animation is on it.
LEMMA LeaveKeeps == ASSUME SceneInv, Leave PROVE SceneInv'
<1>0. /\ cast \in Casts /\ SceneTypes /\ affected \in Animations
      /\ ~New /\ ~cast.mine /\ current_status \in Statuses
      /\ ~Moves => affected = NoSpell
      /\ CameraInv
  BY DEF SceneInv, SceneTypes, Leave
<1>1. affected' = Passed(affected) /\ UNCHANGED <<cast, camera, loaded_dead, frozen>>
  BY DEF Leave
<1>2. /\ Passed(affected) \in Animations
      /\ affected = NoSpell \/ affected[2] = -1 => Passed(affected) = NoSpell
      /\ affected # NoSpell =>
           /\ affected[2] \in Int /\ affected[2] >= -1
           /\ affected[2] # -1 => /\ Passed(affected) # NoSpell
                                  /\ Passed(affected)[2] = affected[2] - 1
  <2>1. 0 \in {0} \cup SlotItems.weapon
    OBVIOUS
  <2> QED  BY <1>0, <2>1, AnimationPasses
<1>3. CameraInv'
  BY <1>0, <1>1, CameraStays DEF CameraInv
<1>4. (Moves' <=> Moves) /\ Statuses' = Statuses /\ (Playable' <=> Playable) /\ Kind' = Kind
  BY <1>1 DEF Moves, Statuses, Playable, Kind
<1>5. CASE Passed(affected) = NoSpell
  <2>1. current_status' = NoStatus /\ ch' = NoCharacter /\ item' = NoItemDrawn
    BY <1>5 DEF Leave
  <2>2. New'
    BY <2>1 DEF New
  <2>3. SceneTypes'
    BY <1>0, <1>1, <1>4, <1>5, <2>1, <2>2 DEF SceneTypes, Animations
  <2>4. CharacterInv' /\ SpellsAreCounted'
    BY <2>1, <2>2 DEF CharacterInv, SpellsAreCounted
  <2> QED  BY <1>3, <2>3, <2>4 DEF SceneInv
<1>6. CASE Passed(affected) # NoSpell
  <2>1. ch' = WithSpell(ch, affected) /\ UNCHANGED <<current_status, item>>
    BY <1>6 DEF Leave
  <2>2. affected # NoSpell /\ affected[2] # -1 /\ Moves
    BY <1>0, <1>2, <1>6
  <2>3. CharacterOk(ch, current_status, loaded_dead)
    BY <1>0, <2>2 DEF SceneInv, CharacterInv
  <2>4. CharacterOk(ch', current_status, loaded_dead)
    BY <1>0, <2>1, <2>3, SpellKeepsCharacter
  <2>5. CharacterInv'
    <3>1. CharacterOk(ch, current_status, loaded_dead)'
      BY <1>1, <1>4, <2>1, <2>4
         DEF CharacterOk, BodyOk, PlayerOk, WornOk, LooksLike, Wears, Playable, Kind, Pixels
    <3> QED  BY <3>1 DEF CharacterInv
  <2>6. SceneTypes'
    BY <1>0, <1>1, <1>2, <1>4, <2>1, <2>2 DEF SceneTypes, New
  <2>7. SpellsAreCounted'
    <3>1. DOMAIN ch \in {PlayableFields, NpcFields}
      BY <2>3 DEF CharacterOk
    <3>2. affected[2] >= 0
      BY <1>2, <2>2
    <3>3. ch'.spell.life = affected[2]
      BY <1>0, <2>1, <2>2, <3>1, <3>2, WithSpellEffect
    <3> QED  BY <1>1, <1>2, <2>2, <3>3 DEF SpellsAreCounted
  <2> QED  BY <1>3, <2>5, <2>6, <2>7 DEF SceneInv
<1> QED  BY <1>5, <1>6

\* Nothing changes.
LEMMA SceneStutters == SceneInv /\ UNCHANGED vars => SceneInv'
<1> SUFFICES ASSUME SceneInv, UNCHANGED vars PROVE SceneInv'
  OBVIOUS
<1>1. UNCHANGED <<cast, current_status, affected, ch, item, map_piece, viewport, loaded_dead,
                  frozen>>
  BY DEF vars, camera
<1>2. SceneTypes'
  BY <1>1 DEF SceneInv, SceneTypes, New, Moves, Statuses, Pixels
<1>3. CharacterInv'
  BY <1>1 DEF SceneInv, CharacterInv, New, Moves, CharacterOk, BodyOk, PlayerOk, WornOk, LooksLike,
              Wears, Playable, Kind, Pixels
<1>4. CameraInv'
  BY <1>1 DEF SceneInv, CameraInv, CameraAt, New
<1>5. SpellsAreCounted'
  BY <1>1 DEF SceneInv, SpellsAreCounted
<1> QED  BY <1>2, <1>3, <1>4, <1>5 DEF SceneInv

\* What is known of the entity, its looks, the camera and the spell on it agree after
\* every status (map.cpp, playable_character.cpp, protected_map.cpp).
THEOREM SceneInvariant == Spec => []SceneInv
<1>1. ASSUME SceneInv, [Next]_vars PROVE SceneInv'
  BY <1>1, ReportKeeps, ChangeMapKeeps, LoadItemKeeps, LeaveKeeps, SceneStutters DEF Next
<1> QED  BY SceneInit, <1>1, PTL DEF Spec

-----------------------------------------------------------------------------
(* What is drawn *)

\* A picture that is loaded, whose frame lies inside its image if somebody set it.
Drawn(p) ==
  /\ p.texture \in Loaded
  /\ \/ p.rect = Whole
     \/ p.rect = Garbage /\ loaded_dead
     \/ p.rect # Garbage /\ Inside(p.rect, p.texture)

\* A texture and a frame inside it make a picture.
LEMMA PictureDrawn ==
  ASSUME NEW texture \in Loaded, NEW rect,
         \/ rect = Whole
         \/ (rect = Garbage => loaded_dead) /\ (rect # Garbage => Inside(rect, texture))
  PROVE  Drawn(Picture(texture, rect))
<1> DEFINE p == Picture(texture, rect)
<1>1. p.texture = texture /\ p.rect = rect
  BY DEF Picture
<1> HIDE DEF p
<1>2. Drawn(p)
  BY <1>1 DEF Drawn
<1> QED  BY <1>2 DEF p

\* Each spell has its pictures, from its first life to its last (animation.cpp).
LEMMA SpellDrawn == ASSUME NEW spell \in Spells, NEW p \in SpellPicture(spell) PROVE Drawn(p)
<1>1. PICK x \in SpellNames : spell.type = x /\ spell.life \in 1 .. SpellLife(x)
  <2>1. spell.life # 0
    BY DEF SpellPicture
  <2> QED  BY <2>1 DEF Spells, DeadSpell
<1>2. CASE x \in OnSheet
  <2>1. p = Picture(<<x, "body">>, SheetFrame(x, spell.life))
    BY <1>1, <1>2 DEF SpellPicture
  <2>2. <<x, "body">> \in Loaded
    BY <1>2 DEF Loaded, LoadedSpells
  <2>3. Inside(SheetFrame(x, spell.life), <<x, "body">>)
    BY <1>1, <1>2, ImageAssumption
  <2>4. SheetFrame(x, spell.life) # Garbage
    BY RectIsSet DEF SheetFrame
  <2> QED  BY <2>1, <2>2, <2>3, <2>4, PictureDrawn
<1>3. CASE x \notin OnSheet
  <2>1. p = Picture(FrameTexture(x, spell.life), Whole)
    BY <1>1, <1>3 DEF SpellPicture
  <2>2. Frames[x] \in Nat /\ Frames[x] > 0
    BY DEF SpellNames, Frames
  <2>3. /\ spell.life - 1 \in Nat /\ FramesPerTexture = 6
        /\ (spell.life - 1) \div FramesPerTexture \in Nat
    BY <1>1 DEF FramesPerTexture
  <2>4. Frames[x] - 1 - Least(Frames[x] - 1, (spell.life - 1) \div FramesPerTexture)
          \in 0 .. Frames[x] - 1
    BY <2>2, <2>3 DEF Least
  <2>5. FrameTexture(x, spell.life) \in Loaded
    BY <1>3, <2>4 DEF FrameTexture, Loaded, LoadedSpells, SpellNames
  <2> QED  BY <2>1, <2>5, PictureDrawn
<1> QED  BY <1>2, <1>3

\* The sheets of bodies, heads and ghosts are loaded, and what is worn.
LEMMA SheetsAreLoaded ==
  /\ \A n \in Bodies \cup {"corpse", "meditation"} : <<n, "body">> \in Loaded
  /\ \A n \in Races \cup {"corpse"} : <<n, "head">> \in Loaded
  /\ \A i \in ItemIds \cup {Gold} : ItemTexture(i) \in Loaded
  /\ \A slot \in Slots, race \in Races : \A i \in SlotItems[slot] : WornTexture(i, race) \in Loaded
<1>1. /\ \A n \in Bodies \cup {"corpse", "meditation"} : <<n, "body">> \in Loaded
      /\ \A n \in Races \cup {"corpse"} : <<n, "head">> \in Loaded
  BY DEF Loaded, LoadedSheets
<1>2. \A i \in ItemIds \cup {Gold} : ItemTexture(i) \in Loaded
  BY DEF Loaded, LoadedItems
<1>3. ASSUME NEW slot \in Slots, NEW race \in Races, NEW i \in SlotItems[slot]
      PROVE  WornTexture(i, race) \in Loaded
  <2>1. i \in Wearable
    BY DEF Wearable
  <2>2. <<ItemName[i], "equipped">> \in Loaded
    BY <2>1 DEF Loaded, LoadedItems
  <2>3. i \in SlotItems.armor => <<ItemName[i], "xs">> \in Loaded
    BY DEF Loaded, LoadedItems
  <2> QED  BY <2>2, <2>3 DEF WornTexture
<1> QED  BY <1>1, <1>2, <1>3

\* A ghost, with a body that somebody set unless it was loaded as one.
LEMMA GhostDrawn ==
  ASSUME Playable, cast \in Casts, NEW c, PlayerOk(c, loaded_dead), c.ghost,
         NEW p \in GhostPictures(c)
  PROVE  Drawn(p)
<1>1. Kind \in Races
  BY PlayersMove, KindIsDrawn
<1>2. CASE p = Picture(<<"corpse", "body">>, c.ghost_body)
  <2>1. c.ghost_body # Garbage => Inside(c.ghost_body, <<"corpse", "body">>)
    BY ImageAssumption DEF PlayerOk
  <2>2. c.ghost_body = Garbage => loaded_dead
    BY DEF PlayerOk
  <2> QED  BY <1>2, <2>1, <2>2, SheetsAreLoaded, PictureDrawn
<1>3. CASE p = Picture(<<"corpse", "head">>, c.head)
  <2>1. c.head \in Heads(Kind)
    BY DEF PlayerOk
  <2>2. Inside(c.head, <<"corpse", "head">>) /\ c.head # Garbage
    BY <1>1, <2>1, ImageAssumption, RectIsSet DEF Heads
  <2> QED  BY <1>3, <2>2, SheetsAreLoaded, PictureDrawn
<1> QED  BY <1>2, <1>3 DEF GhostPictures

\* What is worn over a body or a head begins where it does, and is as large in its own
\* image (equipped item textures).
LEMMA WornDrawn ==
  ASSUME Playable, cast \in Casts, NEW c, c.body \in Sheet(Size[Kind], Clips[Kind]),
         c.head \in Heads(Kind), NEW slot \in Slots, NEW i \in SlotItems[slot]
  PROVE  Drawn(Picture(WornTexture(i, Kind), FrameOver(c, slot, i)))
<1>1. Kind \in Races
  BY PlayersMove, KindIsDrawn
<1>2. FrameOver(c, slot, i) # Garbage
  BY DEF FrameOver, Garbage
<1>3. Inside(FrameOver(c, slot, i), WornTexture(i, Kind))
  <2>1. CASE slot = "helmet"
    <3>1. c.head[2] = 0
      <4>1. HeadSize(Kind)[2] \in Int
        BY DEF HeadSize
      <4> QED  BY <4>1 DEF Heads, Rect
    <3>2. FrameOver(c, slot, i) = At(c.head, WornSize(i))
      BY <2>1, <3>1 DEF FrameOver, At
    <3> QED  BY <1>1, <2>1, <3>2, ImageAssumption
  <2>2. CASE slot # "helmet"
    <3>1. FrameOver(c, slot, i) = At(c.body, WornSize(i))
      BY <2>2 DEF FrameOver, At
    <3> QED  BY <1>1, <2>2, <3>1, ImageAssumption
  <2> QED  BY <2>1, <2>2
<1> QED  BY <1>1, <1>2, <1>3, SheetsAreLoaded, PictureDrawn

\* Who lives, in what the status lists.
LEMMA LivingDrawn ==
  ASSUME Playable, cast \in Casts, NEW c, PlayerOk(c, loaded_dead), BodyOk(c), c.spell \in Spells,
         NEW items, Wears(c, items), NEW e,
         \A f \in PlayableFields \ {"meditating_frame", "ghost_body", "frame"} : e[f] = c[f],
         \A slot \in Slots : c.worn[slot] # Null => e.frame[slot] = c.frame[slot],
         c.zen => e.meditating_frame = c.meditating_frame,
         NEW p \in LivingPictures(e)
  PROVE  Drawn(p)
<1>0. Kind \in Races /\ Kind \in Bodies
  BY PlayersMove, KindIsDrawn
<1>1. /\ c.head \in Heads(Kind) /\ c.body \in Sheet(Size[Kind], Clips[Kind])
      /\ c.meditating_frame \in ZenFrames \cup {Garbage}
      /\ c.zen /\ c.meditating_frame = Garbage => loaded_dead
  BY DEF PlayerOk, BodyOk
<1>2. e.worn = c.worn /\ e.body = c.body /\ e.head = c.head /\ e.spell = c.spell /\ e.zen = c.zen
  BY DEF PlayableFields, NpcFields
<1>3. ASSUME NEW slot \in Slots, c.worn[slot] # Null
      PROVE  Drawn(Picture(e.worn[slot], e.frame[slot]))
  <2>1. /\ ItemIn(slot, items) # NoItem
        /\ c.worn[slot] = WornTexture(ItemIn(slot, items), Kind)
        /\ c.frame[slot] = FrameOver(c, slot, ItemIn(slot, items))
    BY <1>3 DEF Wears
  <2>2. ItemIn(slot, items) \in SlotItems[slot]
    BY <2>1, WornOnSlot
  <2> QED  BY <1>1, <1>2, <1>3, <2>1, <2>2, WornDrawn
<1>4. Drawn(Picture(<<Kind, "body">>, e.body))
  <2>1. Inside(c.body, <<Kind, "body">>) /\ c.body # Garbage
    BY <1>0, <1>1, ImageAssumption, RectIsSet DEF Sheet
  <2> QED  BY <1>0, <1>2, <2>1, SheetsAreLoaded, PictureDrawn
<1>5. Drawn(Picture(<<Kind, "head">>, e.head))
  <2>1. Inside(c.head, <<Kind, "head">>) /\ c.head # Garbage
    BY <1>0, <1>1, ImageAssumption, RectIsSet DEF Heads
  <2> QED  BY <1>0, <1>2, <2>1, SheetsAreLoaded, PictureDrawn
<1>6. c.zen => Drawn(Picture(<<"meditation", "body">>, e.meditating_frame))
  <2>1. c.meditating_frame # Garbage => Inside(c.meditating_frame, <<"meditation", "body">>)
    BY <1>1, ImageAssumption
  <2> QED  BY <1>1, <2>1, SheetsAreLoaded, PictureDrawn
<1>7. \A q \in SpellPicture(e.spell) : Drawn(q)
  BY <1>2, SpellDrawn
<1> QED  BY <1>2, <1>3, <1>4, <1>5, <1>6, <1>7 DEF LivingPictures

\* All that the renderer draws of the copy it gets.
LEMMA AllIsDrawn == ASSUME SceneInv, NEW p \in Rendered PROVE Drawn(p)
<1>0. SceneTypes /\ CharacterInv /\ cast \in Casts
  BY DEF SceneInv, SceneTypes
<1>1. CASE ch # NoCharacter /\ p \in Pictures(Copied(ch))
  <2>1. ~New /\ Moves /\ CharacterOk(ch, current_status, loaded_dead)
    BY <1>0, <1>1 DEF SceneTypes, CharacterInv
  <2>2. ch.spell \in Spells /\ BodyOk(ch)
    BY <2>1 DEF CharacterOk
  <2>3. CASE ~Playable
    <3>1. Copied(ch) = ch
      BY <2>3 DEF Copied
    <3>2. p = Picture(<<Kind, "body">>, ch.body) \/ p \in SpellPicture(ch.spell)
      BY <1>1, <2>3, <3>1 DEF Pictures
    <3>3. Kind \in Bodies
      BY <1>0, <2>1, KindIsDrawn
    <3>4. Inside(ch.body, <<Kind, "body">>) /\ ch.body # Garbage
      BY <2>2, <3>3, ImageAssumption, RectIsSet DEF BodyOk, Sheet
    <3> QED  BY <2>2, <3>2, <3>3, <3>4, SheetsAreLoaded, PictureDrawn, SpellDrawn
  <2>4. CASE Playable
    <3> DEFINE e == Copied(ch)
    <3>1. /\ DOMAIN ch = PlayableFields /\ PlayerOk(ch, loaded_dead)
          /\ LooksLike(ch, current_status)
      BY <2>1, <2>4 DEF CharacterOk
    <3>2. /\ \A f \in PlayableFields \ {"meditating_frame", "ghost_body", "frame"} : e[f] = ch[f]
          /\ ch.ghost => e.ghost_body = ch.ghost_body
          /\ \A slot \in Slots : ch.worn[slot] # Null => e.frame[slot] = ch.frame[slot]
          /\ ch.zen => e.meditating_frame = ch.meditating_frame
      BY <2>4, <3>1 DEF Copied, PlayableFields, NpcFields, PlayerOk
    <3> HIDE DEF e
    <3>3. e.ghost = ch.ghost /\ e.head = ch.head
      BY <3>2 DEF PlayableFields, NpcFields
    <3>4. CASE ch.ghost
      <4>1. p \in GhostPictures(ch)
        BY <1>1, <2>4, <3>2, <3>3, <3>4 DEF Pictures, GhostPictures, e
      <4> QED  BY <1>0, <2>4, <3>1, <3>4, <4>1, GhostDrawn
    <3>5. CASE ~ch.ghost
      <4>1. p \in LivingPictures(e)
        BY <1>1, <2>4, <3>3, <3>5 DEF Pictures, e
      <4>2. Wears(ch, current_status.items)
        BY <3>1, <3>5 DEF LooksLike
      <4> QED  BY <1>0, <2>2, <2>4, <3>1, <3>2, <4>1, <4>2, LivingDrawn
    <3> QED  BY <3>4, <3>5
  <2> QED  BY <2>3, <2>4
<1>2. CASE item # NoItemDrawn /\ p = Picture(item.texture, Whole)
  <2>1. PICK i \in ItemIds \cup {Gold} : item.texture = ItemTexture(i)
    BY <1>0, <1>2 DEF SceneTypes
  <2> QED  BY <1>2, <2>1, SheetsAreLoaded, PictureDrawn
<1> QED  BY <1>1, <1>2 DEF Rendered

-----------------------------------------------------------------------------
(* Theorems *)

\* What is kept of an entity is of one that is known (map.cpp, protected_map.cpp).
THEOREM SceneTypeCorrect == Spec => []TypeOK
<1>1. ASSUME SceneInv PROVE TypeOK
  <2>1. SceneTypes
    BY <1>1 DEF SceneInv
  <2>2. affected = NoSpell \/ affected[2] \in -1 .. SpellLife(affected[1])
    BY <2>1 DEF SceneTypes, Animations
  <2>3. (ch = NoCharacter) <=> (New \/ cast.type = DropType)
    BY <1>1, <2>1, CharacterIsThere DEF SceneInv, SceneTypes, CharacterInv, Moves
  <2>4. (item = NoItemDrawn) <=> (New \/ cast.type # DropType)
    BY <2>1 DEF SceneTypes, Moves, NoItemDrawn
  <2>5. cast \in Casts /\ (current_status = NoStatus \/ current_status \in Statuses)
    BY <2>1 DEF SceneTypes, New
  <2> QED  BY <2>2, <2>3, <2>4, <2>5 DEF TypeOK
<1> QED  BY SceneInvariant, <1>1, PTL

\* The hero is in the middle of the screen, on every map and with every screen, although
\* the camera is only moved by differences (game.cpp:94, :186).
THEOREM HeroIsFollowed == Spec => []CameraFollowsHero
<1>1. ASSUME SceneInv PROVE CameraFollowsHero
  <2>1. SUFFICES ASSUME cast.mine, ~New
                 PROVE  /\ map_piece.x = ch.at[1] - ScreenWidth \div 2
                        /\ map_piece.y = ch.at[2] - ScreenHeight \div 2
                        /\ InView(ch.at)
    BY DEF CameraFollowsHero
  <2>2. /\ map_piece.x = ch.at[1] - ScreenWidth \div 2
        /\ map_piece.y = ch.at[2] - ScreenHeight \div 2
    BY <1>1, <2>1 DEF SceneInv, CameraInv
  <2>3. ch.at[1] \in Int /\ ch.at[2] \in Int
    <3>1. cast \in Casts /\ current_status \in Statuses /\ Moves
      BY <1>1, <2>1, PlayersMove DEF SceneInv, SceneTypes
    <3>2. ch.at = Pixels(current_status.at)
      BY <1>1, <2>1, <3>1 DEF SceneInv, CharacterInv, CharacterOk
    <3> QED  BY <3>1, <3>2, StatusFacts, PixelsAreInts
  <2> QED  BY <2>2, <2>3, SizesAreInts DEF InView
<1> QED  BY SceneInvariant, <1>1, PTL

\* Wherever the camera is, the piece of the map that exists is drawn as large as it is
\* and under the characters (game.cpp:116).
THEOREM GroundIsUnder == Spec => []GroundUnderCharacters
<1>1. ASSUME SceneInv PROVE GroundUnderCharacters
  <2>1. CameraAt /\ map_piece.x \in Int /\ map_piece.y \in Int
    BY <1>1 DEF SceneInv, CameraInv, CameraAt
  <2> QED  BY <2>1, SizesAreInts DEF CameraAt, GroundUnderCharacters, Least
<1> QED  BY SceneInvariant, <1>1, PTL

\* Whatever a player went through, it looks as the last status said
\* (playable_character.cpp:289).
THEOREM LooksFollowReports == Spec => []LooksAsReported
<1>1. ASSUME SceneInv PROVE LooksAsReported
  <2>1. SUFFICES ASSUME Playable, ~New
                 PROVE  /\ ch.at = Pixels(current_status.at) /\ ch.dir = current_status.dir
                        /\ LooksLike(ch, current_status)
    BY DEF LooksAsReported, LooksLike, Wears
  <2>2. CharacterOk(ch, current_status, loaded_dead)
    BY <1>1, <2>1, PlayersMove DEF SceneInv, SceneTypes, CharacterInv
  <2> QED  BY <2>1, <2>2 DEF CharacterOk
<1> QED  BY SceneInvariant, <1>1, PTL

\* Every picture drawn is loaded and inside its image, for all images as large as their
\* sheets; a frame nobody set is of who was loaded as a ghost (playable_character.cpp:296).
THEOREM PicturesAreLoaded == Spec => []PicturesExist
<1>1. ASSUME SceneInv PROVE PicturesExist
  BY <1>1, AllIsDrawn DEF PicturesExist, Drawn, Inside
<1> QED  BY SceneInvariant, <1>1, PTL

\* A spell is drawn as long as its animation is under way (protected_map.cpp:48).
THEOREM SpellsAreShown == Spec => []SpellsAreCounted
<1>1. SceneInv => SpellsAreCounted
  BY DEF SceneInv
<1> QED  BY SceneInvariant, <1>1, PTL

=============================================================================
