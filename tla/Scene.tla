------------------------------- MODULE Scene -------------------------------
(***************************************************************************)
(* How one entity of the room is drawn, and the piece of the map around    *)
(* the hero of the client.                                                 *)
(*                                                                         *)
(* Each status the updater applies loads, changes, animates or removes the *)
(* entity in the map it writes, and then copies that map for the renderer. *)
(* Entities do not look at each other, so one is followed: whose, Cast     *)
(* tells.  Which entities are there is left to ClientView.  A new object   *)
(* of a player starts with whatever its memory held: its constructor tests *)
(* fields before any of them is set.                                       *)
(***************************************************************************)
EXTENDS Sprites, Sequences, FiniteSets

CONSTANTS
  Casts,           \* who is followed, where it goes and what happens to it
  TileSize, MapSize, ScreenWidth, ScreenHeight, UIHeight,   \* in pixels
  Image            \* texture |-> <<width, height>>, of the sheets of frames

ASSUME SceneAssumption ==
  /\ {TileSize, MapSize, ScreenWidth, ScreenHeight} \subseteq Nat \ {0} /\ UIHeight \in Nat
  /\ ScreenWidth <= MapSize /\ ScreenHeight <= MapSize
  /\ \A c \in Casts :
       /\ c.type \in DOMAIN RaceOf \cup DOMAIN MonsterOf \cup DOMAIN NpcOf \cup {DropType}
       /\ c.mine => IsHero(c.type)
       /\ c.tiles \subseteq Nat \X Nat /\ c.dirs \subseteq Directions
       /\ c.ghost \subseteq BOOLEAN /\ c.zen \subseteq BOOLEAN
       /\ c.hits \subseteq {0} \cup SlotItems.weapon
       /\ c.kits \subseteq IF c.type = DropType THEN Seq(ItemIds \cup {Gold}) ELSE SUBSET ItemIds

\* The frames of a sheet, of the heads of a race, and of who meditates.
LastFrame(clips, d) == IF d \in Vertical THEN clips[1] ELSE clips[2]
Sheet(size, clips) ==
  UNION {{Rect(column, RowOf[d], size) : column \in 0 .. LastFrame(clips, d)} : d \in Directions}
Heads(race) == {Rect(HeadOf[d], 0, HeadSize(race)) : d \in Directions}
ZenFrames == {Rect(column, row, ZenSize) : column \in 0 .. 4, row \in 0 .. 1}

Inside(rect, texture) ==
  /\ rect[1] + rect[3] <= Image[texture][1]
  /\ rect[2] + rect[4] <= Image[texture][2]
At(rect, size) == <<rect[1], rect[2], size[1], size[2]>>

\* Each image is as large as its sheet, with what is worn over the body or the head.
ASSUME ImageAssumption ==
  /\ \A n \in Bodies : \A rect \in Sheet(Size[n], Clips[n]) : Inside(rect, <<n, "body">>)
  /\ \A race \in Races : \A head \in Heads(race) :
       /\ Inside(head, <<race, "head">>) /\ Inside(head, <<"corpse", "head">>)
       /\ \A i \in SlotItems.helmet : Inside(At(head, WornSize(i)), WornTexture(i, race))
  /\ \A race \in Races, slot \in Slots \ {"helmet"} :
       \A rect \in Sheet(Size[race], Clips[race]), i \in SlotItems[slot] :
         Inside(At(rect, WornSize(i)), WornTexture(i, race))
  /\ \A rect \in Sheet(GhostSize, Clips["corpse"]) : Inside(rect, <<"corpse", "body">>)
  /\ \A rect \in ZenFrames : Inside(rect, <<"meditation", "body">>)
  /\ \A s \in OnSheet : \A life \in 1 .. SpellLife(s) : Inside(SheetFrame(s, life), <<s, "body">>)

VARIABLES
  cast,
  current_status,    \* the last status of the entity, or NoStatus
  affected,          \* <<spell, updates left>> of the animation on it, or NoSpell
  ch,                \* what write_map holds of the entity, or NoCharacter
  item,              \* the same, of a drop
  map_piece, viewport,
  loaded_dead,       \* history: the player was a ghost when it was loaded
  frozen             \* history: its room was changed while a spell was on it

camera == <<map_piece, viewport>>
vars == <<cast, current_status, affected, ch, item, camera, loaded_dead, frozen>>

NoStatus == <<>>
NoSpell == <<>>
NoCharacter == <<>>
NoItemDrawn == <<>>
Garbage == <<>>            \* a rectangle nobody has set
GarbageTexture == <<"garbage">>

\* The statuses the server may send of the entity: a ghost wears what it wore, and
\* meditates no more; a drop lists something.
Statuses ==
  IF cast.type = DropType
  THEN [at : cast.tiles, dir : {"down"}, ghost : {FALSE}, zen : {FALSE}, hit : {0},
        items : {s \in cast.kits : s # <<>>}]
  ELSE {s \in [at : cast.tiles, dir : cast.dirs, ghost : cast.ghost, zen : cast.zen,
               hit : cast.hits, items : cast.kits] : ~(s.ghost /\ s.zen)}

Playable == IsHero(cast.type)
Kind == KindOf(cast.type)

Pixels(tile) == <<tile[1] * TileSize, tile[2] * TileSize>>

-----------------------------------------------------------------------------
(* The camera *)

\* (mutant) The left border shifts the window and not what fits in it.
ViewedUncut(x, y) ==
  LET right == IF x > MapSize - ScreenWidth THEN MapSize - x ELSE ScreenWidth
      below == IF y > MapSize - ScreenHeight THEN MapSize - y ELSE ScreenHeight
  IN /\ map_piece' = [x |-> x, y |-> y, w |-> ScreenWidth,
                      h |-> IF y < 0 THEN ScreenHeight - y ELSE ScreenHeight]
     /\ viewport' = [x |-> IF x < 0 THEN -x ELSE 0, w |-> right,
                     y |-> UIHeight + (IF y < 0 THEN -y ELSE 0), h |-> below]

\* What is seen of the map, and where, when its corner is at x, y.
Viewed(x, y) ==
  LET right == IF x > MapSize - ScreenWidth THEN MapSize - x ELSE ScreenWidth
      below == IF y > MapSize - ScreenHeight THEN MapSize - y ELSE ScreenHeight
  IN /\ map_piece' = [x |-> x, y |-> y, w |-> ScreenWidth,
                      h |-> IF y < 0 THEN ScreenHeight - y ELSE ScreenHeight]
     /\ viewport' = [x |-> IF x < 0 THEN -x ELSE 0,
                     w |-> IF x < 0 THEN ScreenWidth + x ELSE right,
                     y |-> UIHeight + (IF y < 0 THEN -y ELSE 0), h |-> below]

UpdateMap(dx, dy) == Viewed(map_piece.x + dx, map_piece.y + dy)

-----------------------------------------------------------------------------
(* Characters *)

DeadSpell == [type |-> "none", life |-> 0]

\* set_character_features(), set_head_dimensions() and the animation of the body.
Npc(s) ==
  [at |-> Pixels(s.at), dir |-> s.dir, clip |-> NoneShown, body |-> Rect(0, 0, Size[Kind]),
   spell |-> DeadSpell]

\* What memory may hold of the fields the constructor does not set.
Leftovers ==
  [ghost : BOOLEAN, zen : BOOLEAN,
   worn : {[slot \in Slots |-> t] : t \in {Null, GarbageTexture}}]

PlayableBefore(s, left) ==
  [at |-> Pixels(s.at), dir |-> s.dir, clip |-> NoneShown, body |-> Rect(0, 0, Size[Kind]),
   spell |-> DeadSpell,
   head |-> Rect(0, 0, HeadSize(Kind)),
   ghost |-> left.ghost, ghost_clip |-> NoneShown, ghost_body |-> Garbage,
   zen |-> left.zen, zen_clip |-> <<0, 0>>, meditating_frame |-> Garbage,
   worn |-> left.worn, worn_clip |-> [slot \in Slots |-> NoneShown],
   frame |-> [slot \in Slots |-> Garbage], items |-> [slot \in Slots |-> NoItem]]

\* The ghost's animation, of a ghost that got one.
Die(c) ==
  [c EXCEPT !.ghost = TRUE, !.ghost_clip = NoneShown, !.ghost_body = Rect(0, 0, GhostSize)]

Meditate(c, zen) ==
  IF zen /\ c.zen
  THEN [c EXCEPT !.meditating_frame = IF @ = Garbage THEN Garbage
                                      ELSE Rect(c.zen_clip[1], c.zen_clip[2], ZenSize),
                 !.zen_clip = NextZen(@)]
  ELSE IF zen
  THEN [c EXCEPT !.zen = TRUE, !.zen_clip = <<0, 0>>, !.meditating_frame = Rect(0, 0, ZenSize)]
  ELSE [c EXCEPT !.zen = FALSE]

\* A frame of a worn item begins where the one of the body, or of the head, does.
FrameOver(c, slot, i) ==
  IF slot = "helmet" THEN <<c.head[1], 0, WornSize(i)[1], WornSize(i)[2]>>
  ELSE <<c.body[1], c.body[2], WornSize(i)[1], WornSize(i)[2]>>

\* (mutant) An item is put on once, and not again while it is worn.
WearNew(c, items) ==
  LET new == [slot \in Slots |-> ItemIn(slot, items)]
      puts == {slot \in Slots : new[slot] # NoItem /\ c.worn[slot] # WornTexture(new[slot], Kind)}
  IN [c EXCEPT
        !.worn = [slot \in Slots |->
                    IF new[slot] = NoItem THEN Null
                    ELSE IF slot \in puts THEN WornTexture(new[slot], Kind) ELSE @[slot]],
        !.worn_clip = [slot \in Slots |-> IF slot \in puts THEN NoneShown ELSE @[slot]],
        !.items = new,
        !.frame = [slot \in Slots |->
                     IF slot \in puts THEN FrameOver(c, slot, new[slot]) ELSE @[slot]]]

\* The texture reported is never the one worn, which is the equipped form of it:
\* what is worn is put on again by each update.
Wear(c, items) ==
  LET new == [slot \in Slots |-> ItemIn(slot, items)]
      puts == {slot \in Slots : new[slot] # NoItem /\ ItemTexture(new[slot]) # c.worn[slot]}
  IN [c EXCEPT
        !.worn = [slot \in Slots |->
                    IF new[slot] = NoItem THEN Null
                    ELSE IF slot \in puts THEN WornTexture(new[slot], Kind) ELSE @[slot]],
        !.worn_clip = [slot \in Slots |-> IF slot \in puts THEN NoneShown ELSE @[slot]],
        !.items = new,
        !.frame = [slot \in Slots |->
                     IF slot \in puts THEN FrameOver(c, slot, new[slot]) ELSE @[slot]]]

\* Who dies keeps the rest of its looks for the next update.
UpdateEquipment(c, ghost, zen, items) ==
  IF ~c.ghost /\ ghost THEN Die(c)
  ELSE Wear(Meditate([c EXCEPT !.ghost = ghost], zen), items)

NewPlayable(s, left) ==
  UpdateEquipment(PlayableBefore(s, left), s.ghost, FALSE, s.items)

\* A step, or a turn: the next frame of the body or of the ghost, of the worn items
\* and of the head.
Profiled(c, d) ==
  [c EXCEPT !.head[1] = HeadOf[d] * c.head[3],
            !.frame["helmet"] =
              IF c.worn["helmet"] = Null \/ c.ghost \/ @ = Garbage THEN @
              ELSE <<HeadOf[d] * @[3], @[2], @[3], @[4]>>]

MoveItems(c, d) ==
  LET moved == {slot \in Slots \ {"helmet"} : c.worn[slot] # Null /\ c.items[slot] # NoItem}
  IN [c EXCEPT
        !.frame = [slot \in Slots |->
                     IF slot \in moved
                     THEN NextClip(c.worn_clip[slot], d, WornSize(c.items[slot])) ELSE @[slot]],
        !.worn_clip = [slot \in Slots |->
                         IF slot \in moved THEN Advanced(@[slot], d, ItemClips) ELSE @[slot]]]

MoveBody(c, d) ==
  [c EXCEPT !.body = NextClip(c.clip, d, Size[Kind]),
            !.clip = Advanced(@, d, Clips[Kind])]

\* A ghost without an animation gets a frame out of nothing.
MoveGhost(c, d) ==
  [c EXCEPT !.ghost_body = IF @ = Garbage THEN Garbage ELSE NextClip(c.ghost_clip, d, GhostSize),
            !.ghost_clip = Advanced(@, d, Clips["corpse"])]

Move(c, d) ==
  IF ~Playable THEN MoveBody(c, d)
  ELSE Profiled(IF c.ghost THEN MoveGhost(c, d) ELSE MoveItems(MoveBody(c, d), d), d)

\* update_position(): tile by tile to where it is.
Placed(c, s) == [c EXCEPT !.at = Pixels(s.at), !.dir = s.dir]

ChangePosition(s) == ch.at # Pixels(s.at) \/ ch.dir # s.dir

UpdateCharacter(s) ==
  LET moved == IF ChangePosition(s) THEN Move(Placed(ch, s), s.dir) ELSE ch
  IN IF Playable THEN UpdateEquipment(moved, s.ghost, s.zen, s.items) ELSE moved

\* What may be made of a character that is met for the first time.
LoadCharacter(s) ==
  IF Playable THEN {NewPlayable(s, left) : left \in Leftovers} ELSE {Npc(s)}

-----------------------------------------------------------------------------
(* The updater *)

\* Who meditates is never the same as before, so that the meditation goes on.
IsEqual(s) ==
  /\ [current_status EXCEPT !.hit = 0] = [s EXCEPT !.hit = 0]
  /\ ~s.zen

New == current_status = NoStatus

Characters(s) ==
  IF New THEN LoadCharacter(s) ELSE IF IsEqual(s) THEN {ch} ELSE {UpdateCharacter(s)}

\* (mutant) The camera set again to the hero, and not moved with it.
CameraJumps(s) ==
  IF cast.mine /\ (New \/ ChangePosition(s))
  THEN UpdateMap(Pixels(s.at)[1] - ScreenWidth \div 2, Pixels(s.at)[2] - ScreenHeight \div 2)
  ELSE UNCHANGED camera

\* The camera is put where the hero is loaded, and goes with it from then on.
CameraFollows(s) ==
  IF ~cast.mine \/ (~New /\ ~ChangePosition(s)) THEN UNCHANGED camera
  ELSE IF New
  THEN UpdateMap(Pixels(s.at)[1] - ScreenWidth \div 2, Pixels(s.at)[2] - ScreenHeight \div 2)
  ELSE UpdateMap(Pixels(s.at)[1] - ch.at[1], Pixels(s.at)[2] - ch.at[2])

\* (mutant) A spell that is over stays on who it hit.
LeftOn(c, animation) ==
  IF animation = NoSpell \/ animation[2] <= 0 THEN c
  ELSE [c EXCEPT !.spell = [type |-> animation[1], life |-> animation[2]]]

\* set_spell(), while its animation is on.
WithSpell(c, animation) ==
  IF animation = NoSpell \/ animation[2] < 0 THEN c
  ELSE [c EXCEPT !.spell = IF animation[2] = 0 THEN DeadSpell
                           ELSE [type |-> animation[1], life |-> animation[2]]]

\* An animation begins where none is under way.
Begins(animation, hit) == hit # 0 /\ (animation = NoSpell \/ animation[2] = 0)
Begun(animation, hit) ==
  IF Begins(animation, hit) THEN <<SpellOf(hit), SpellLife(SpellOf(hit))>> ELSE animation

\* Erased by the update after the last.
Passed(animation) ==
  IF animation = NoSpell \/ animation[2] = -1 THEN NoSpell
  ELSE <<animation[1], animation[2] - 1>>

\* A status with the entity in it, when animation is under way on the entity.
MapWriter(s, animation) ==
  /\ cast.type # DropType
  /\ current_status' = s
  /\ ch' \in {WithSpell(c, Begun(animation, s.hit)) : c \in Characters(s)}
  /\ affected' = Passed(Begun(animation, s.hit))
  /\ CameraFollows(s)
  /\ loaded_dead' = IF New THEN s.ghost ELSE loaded_dead
  /\ UNCHANGED <<cast, item>>

Report(s) ==
  /\ MapWriter(s, affected)
  /\ frozen' = (frozen /\ ~Begins(affected, s.hit))

\* The hero changes room: the animations of the old one are forgotten, the hero is
\* kept with what was on it.
ChangeMap(s) ==
  /\ cast.mine /\ ~New
  /\ MapWriter(s, NoSpell)
  /\ frozen' = ((frozen \/ ch.spell.life # 0) /\ ~Begins(NoSpell, s.hit))

\* A drop is loaded again by each status, as the last thing it lists.
LoadItem(s) ==
  /\ cast.type = DropType
  /\ item' = [texture |-> ItemTexture(s.items[Len(s.items)]), at |-> Pixels(s.at)]
  /\ current_status' = s
  /\ UNCHANGED <<cast, affected, ch, camera, loaded_dead, frozen>>

\* A status without the entity: it is removed, unless an animation is on it.
Leave ==
  /\ ~New /\ ~cast.mine
  /\ affected' = Passed(affected)
  /\ IF Passed(affected) = NoSpell
     THEN current_status' = NoStatus /\ ch' = NoCharacter /\ item' = NoItemDrawn
     ELSE ch' = WithSpell(ch, affected) /\ UNCHANGED <<current_status, item>>
  /\ UNCHANGED <<cast, camera, loaded_dead, frozen>>

-----------------------------------------------------------------------------
(* The renderer *)

\* The copy the renderer gets lacks the fields that are not to be shown.
Copied(c) ==
  IF ~Playable THEN c
  ELSE [c EXCEPT !.meditating_frame = IF c.zen THEN @ ELSE Garbage,
                 !.ghost_body = IF c.ghost THEN @ ELSE Garbage,
                 !.frame = [slot \in Slots |-> IF c.worn[slot] = Null THEN Garbage ELSE @[slot]]]

Picture(texture, rect) == [texture |-> texture, rect |-> rect]
Whole == <<0, 0, 0, 0>>

SpellPicture(spell) ==
  IF spell.life = 0 THEN {}
  ELSE IF spell.type \in OnSheet
  THEN {Picture(<<spell.type, "body">>, SheetFrame(spell.type, spell.life))}
  ELSE {Picture(FrameTexture(spell.type, spell.life), Whole)}

GhostPictures(c) ==
  {Picture(<<"corpse", "body">>, c.ghost_body), Picture(<<"corpse", "head">>, c.head)}

\* The armour stands for the body.
LivingPictures(c) ==
  {Picture(c.worn[slot], c.frame[slot]) : slot \in {x \in Slots : c.worn[x] # Null}}
    \cup (IF c.worn["armor"] = Null THEN {Picture(<<Kind, "body">>, c.body)} ELSE {})
    \cup {Picture(<<Kind, "head">>, c.head)}
    \cup SpellPicture(c.spell)
    \cup (IF c.zen THEN {Picture(<<"meditation", "body">>, c.meditating_frame)} ELSE {})

Pictures(c) ==
  IF ~Playable THEN {Picture(<<Kind, "body">>, c.body)} \cup SpellPicture(c.spell)
  ELSE IF c.ghost THEN GhostPictures(c) ELSE LivingPictures(c)

InView(at) ==
  /\ map_piece.x <= at[1] /\ at[1] <= map_piece.x + ScreenWidth
  /\ map_piece.y <= at[2] /\ at[2] <= map_piece.y + ScreenHeight

\* What render_entities() draws of the entity.
Rendered ==
  (IF ch # NoCharacter /\ InView(ch.at) THEN Pictures(Copied(ch)) ELSE {})
    \cup (IF item # NoItemDrawn /\ InView(item.at) THEN {Picture(item.texture, Whole)} ELSE {})

-----------------------------------------------------------------------------

\* A game is made with the corner of the map in view.
Init ==
  /\ cast \in Casts
  /\ current_status = NoStatus /\ affected = NoSpell
  /\ ch = NoCharacter /\ item = NoItemDrawn
  /\ map_piece = [x |-> 0, y |-> 0, w |-> ScreenWidth, h |-> ScreenHeight]
  /\ viewport = [x |-> 0, y |-> UIHeight, w |-> ScreenWidth, h |-> ScreenHeight]
  /\ loaded_dead = FALSE /\ frozen = FALSE

Next == (\E s \in Statuses : Report(s) \/ ChangeMap(s) \/ LoadItem(s)) \/ Leave

Spec == Init /\ [][Next]_vars

-----------------------------------------------------------------------------
(* Properties *)

TypeOK ==
  /\ cast \in Casts
  /\ current_status = NoStatus \/ current_status \in Statuses
  /\ affected = NoSpell \/ affected[2] \in -1 .. SpellLife(affected[1])
  /\ (ch = NoCharacter) = (New \/ cast.type = DropType)
  /\ (item = NoItemDrawn) = (New \/ cast.type # DropType)

\* The hero stays in the middle of the screen, although the camera is only moved by
\* the differences of its positions, over steps, changes of room and statuses that
\* say the same (game.cpp:94, :186).
CameraFollowsHero ==
  cast.mine /\ ~New =>
    /\ map_piece.x = ch.at[1] - ScreenWidth \div 2
    /\ map_piece.y = ch.at[2] - ScreenHeight \div 2
    /\ InView(ch.at)

\* At every border and corner of the map the piece of it that exists is drawn as
\* large as it is and under the characters: each of its points where a character
\* at that point is (game.cpp:116).
GroundUnderCharacters ==
  LET From(at) == IF at < 0 THEN 0 ELSE at
      To(at, length) == Least(at + length, MapSize)
  IN /\ viewport.x - From(map_piece.x) = -map_piece.x
     /\ viewport.y - From(map_piece.y) = UIHeight - map_piece.y
     /\ viewport.w = To(map_piece.x, map_piece.w) - From(map_piece.x)
     /\ viewport.h = To(map_piece.y, map_piece.h) - From(map_piece.y)

\* A player looks as the last status said, whatever it died, revived, meditated or
\* was loaded with: where it is, dead or alive, and when it is alive in what it
\* wears, each piece in step with the body (playable_character.cpp:289).
LooksAsReported ==
  Playable /\ ~New =>
    /\ ch.at = Pixels(current_status.at) /\ ch.dir = current_status.dir
    /\ ch.ghost = current_status.ghost
    /\ ~ch.ghost =>
         /\ ch.zen => current_status.zen
         /\ \A slot \in Slots :
              LET i == ItemIn(slot, current_status.items)
              IN IF i = NoItem THEN ch.worn[slot] = Null
                 ELSE /\ ch.worn[slot] = WornTexture(i, Kind)
                      /\ ch.frame[slot] = FrameOver(ch, slot, i)

\* Everything that is drawn is loaded, and each frame lies inside its image, in
\* every step of every animation; but who was loaded as a ghost may be drawn with a
\* frame that nobody set (playable_character.cpp:296).
PicturesExist ==
  \A p \in Rendered :
    /\ p.texture \in Loaded
    /\ \/ p.rect = Whole
       \/ p.rect = Garbage /\ loaded_dead
       \/ /\ p.rect # Garbage
          /\ p.rect[1] + p.rect[3] <= Image[p.texture][1]
          /\ p.rect[2] + p.rect[4] <= Image[p.texture][2]

\* A spell is drawn for as long as its animation is under way, and no longer: over
\* other hits, deaths and departures, but for the hero that changes room with a
\* spell on it (protected_map.cpp:48).
SpellsAreCounted ==
  ch # NoCharacter /\ ~frozen =>
    ch.spell.life = IF affected = NoSpell THEN 0 ELSE affected[2] + 1

=============================================================================
