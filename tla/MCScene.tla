------------------------------ MODULE MCScene ------------------------------
(* The ways of a hero, of another player, of monsters, npcs and drops. *)
EXTENDS Scene

Someone == [type |-> 25, mine |-> FALSE, tiles |-> {<<1, 1>>}, dirs |-> {"down"},
            ghost |-> {FALSE}, zen |-> {FALSE}, hits |-> {0}, kits |-> {{}}]

\* The hero walks over a map little larger than the screen.
Walker == [Someone EXCEPT !.mine = TRUE, !.tiles = (0 .. 3) \X (0 .. 3), !.dirs = {"down", "left"}]
\* The hero is hit, and changes room.
Victim == [Someone EXCEPT !.mine = TRUE, !.hits = {0, 11, 16}, !.ghost = BOOLEAN]
\* A gnome puts on one thing and the other, walks, dies and revives.
Dresser ==
  [Someone EXCEPT !.type = 28, !.dirs = {"up"}, !.tiles = {<<1, 1>>, <<1, 2>>}, !.ghost = BOOLEAN,
                  !.kits = {{}, {1, 4, 8, 11}, {5, 6, 20}}]
\* A dwarf meditates, dies and revives.
Meditator ==
  [Someone EXCEPT !.type = 27, !.ghost = BOOLEAN, !.zen = BOOLEAN, !.kits = {{}, {5, 7, 19}}]
\* An elf dresses, turns about and dies.
Turner ==
  [Someone EXCEPT !.type = 26, !.dirs = {"up", "right"}, !.ghost = BOOLEAN,
                  !.kits = {{}, {2, 3, 7, 16}}]
\* A monster goes about and is hit by anything.
Monster(type) == [Someone EXCEPT !.type = type, !.dirs = Directions]
Target == [Someone EXCEPT !.type = 32, !.hits = {0} \cup 11 .. 20]
Shopkeeper(type) == [Someone EXCEPT !.type = type]
Heap == [Someone EXCEPT !.type = DropType, !.kits = {<<36>>} \cup {<<i>> : i \in ItemIds} \cup {<<36, 9>>}]

MCCasts ==
  {Walker, Victim, Dresser, Meditator, Turner, Target, Heap}
    \cup {Monster(t) : t \in 29 .. 31} \cup {Shopkeeper(t) : t \in 33 .. 35}

\* The sizes of the files under client/assets.
MCImage ==
  [t \in Loaded |->
     IF t[2] = "head" \/ t \in {<<ItemName[i], "equipped">> : i \in SlotItems.helmet}
     THEN <<128, 128>>
     ELSE IF t[1] = "meditation" THEN <<200, 200>>
     ELSE IF t[1] = "heal" THEN <<512, 512>>
     ELSE IF t[1] = "magic_arrow" THEN <<128, 128>>
     ELSE <<256, 256>>]

=============================================================================
