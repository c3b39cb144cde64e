---------------------------- MODULE WorldProofs ----------------------------
(***************************************************************************)
(* Theorems about what is in a room: the map and the life of a hero.       *)
(*                                                                         *)
(* The map and what stands on it agree, for every map, every set of        *)
(* entities and all ranges and distances.                                  *)
(*                                                                         *)
(* CellsAgree is inductive once it is known whose turn a loop of update()  *)
(* may still take: a monster or hero that is moved is in the room.         *)
(*                                                                         *)
(* A hero's points, experience and belongings, for every table of levels   *)
(* and any number of sessions: the two share no variable.                  *)
(***************************************************************************)
EXTENDS World, HeroLife, FiniteSetTheorems, WellFoundedInduction, NaturalsInduction, TLAPS

\* The two sides of CellsAgree: the tiles and the positions, and the marks.
EntitiesOk ==
  /\ \A e \in Entities : Here(e) => entity_id[position[e]] = e
  /\ \A t \in Tiles : entity_id[t] # Nobody => position[entity_id[t]] = t
MarksOk == \A t \in has_projectile : \E i \in DOMAIN projectiles : projectiles[i].at = t

\* The loops of update() have only those to visit that are in the room.
PendingOk ==
  /\ phase = "monsters" => pending \subseteq MonstersHere
  /\ phase = "heroes" => pending \subseteq HeroesHere
  /\ phase = "projectiles" => pending \subseteq DOMAIN projectiles
  /\ phase \notin {"monsters", "heroes", "projectiles"} => pending = {}

MapType ==
  /\ entity_id \in [Tiles -> Entities \cup {Nobody}]
  /\ has_projectile \subseteq Tiles
  /\ position \in [Entities -> Tiles \cup {Elsewhere, Gone}]
HeroType ==
  /\ orientation \in [Heroes -> Steps]
  /\ speed \in [Heroes -> Speeds \cup {<<0, 0>>}]
  /\ ghosts \subseteq Heroes /\ blocked \subseteq Heroes /\ rested \subseteq blocked
  /\ quitting \subseteq Heroes /\ slain \subseteq Monsters
ProjectileType ==
  /\ DOMAIN projectiles \subseteq Projectiles
  /\ \A p \in DOMAIN projectiles : projectiles[p] \in Projectile
PhaseType == phase \in Phases /\ pending \subseteq Entities \cup Projectiles

WorldInv ==
  /\ PhaseType /\ MapType /\ HeroType /\ ProjectileType
  /\ EntitiesOk /\ MarksOk /\ PendingOk

-----------------------------------------------------------------------------
(* Moves of the map *)

\* No tile is mistaken for a place outside the map, and nobody for an entity.
LEMMA Apart == /\ Elsewhere \notin Tiles /\ Gone \notin Tiles /\ Nobody \notin Entities
               /\ Heroes \cap Monsters = {}
BY WorldAssumption DEF Entities

\* Whoever is in the room and moves leaves its tile and takes the next one.
LEMMA Moving ==
  ASSUME MapType, EntitiesOk, NEW e \in Entities, Here(e), NEW t, MoveTo(e, t)
  PROVE  /\ MapType' /\ EntitiesOk' /\ has_projectile' \subseteq has_projectile
         /\ \A x \in Entities : Here(x)' <=> Here(x)
         /\ \A x \in Entities \ {e} : position'[x] = position[x]
<1>1. CASE ~CanOcupy(t)
  BY <1>1 DEF MoveTo, MapType, EntitiesOk, Here, tiles
<1>2. CASE CanOcupy(t)
  <2>1. /\ t \in Tiles /\ entity_id[t] = Nobody /\ position[e] \in Tiles
        /\ entity_id[position[e]] = e /\ position[e] # t
    BY <1>2, Apart DEF CanOcupy, EntitiesOk, Here
  <2>2. /\ entity_id' = [entity_id EXCEPT ![t] = e, ![position[e]] = Nobody]
        /\ has_projectile' = has_projectile \ {position[e]}
        /\ position' = [position EXCEPT ![e] = t]
    BY <1>2 DEF MoveTo
  <2>3. MapType'
    BY <2>1, <2>2 DEF MapType
  <2>4. \A x \in Entities \ {e} : position'[x] = position[x]
    BY <2>2 DEF MapType
  <2>5. position'[e] = t
    BY <2>2 DEF MapType
  <2>6. \A x \in Entities : Here(x)' <=> Here(x)
    BY <2>1, <2>4, <2>5 DEF Here
  <2>7. \A u \in Tiles : entity_id'[u] = IF u = position[e] THEN Nobody
                                         ELSE IF u = t THEN e ELSE entity_id[u]
    BY <2>1, <2>2 DEF MapType
  <2>8. ASSUME NEW x \in Entities, Here(x)' PROVE entity_id'[position'[x]] = x
    <3>1. CASE x = e
      BY <2>1, <2>5, <2>7, <3>1
    <3>2. CASE x # e
      <4>1. position'[x] = position[x] /\ position[x] \in Tiles
        BY <2>4, <2>8, <3>2 DEF Here
      <4>2. entity_id[position[x]] = x
        BY <4>1 DEF EntitiesOk, Here
      <4>3. position[x] # t /\ position[x] # position[e]
        BY <2>1, <3>2, <4>2, Apart
      <4>4. QED
        BY <2>7, <4>1, <4>2, <4>3
    <3>3. QED
      BY <3>1, <3>2
  <2>9. ASSUME NEW u \in Tiles, entity_id'[u] # Nobody PROVE position'[entity_id'[u]] = u
    <3>1. u # position[e]
      BY <2>7, <2>9
    <3>2. CASE u = t
      BY <2>5, <2>7, <3>1, <3>2
    <3>3. CASE u # t
      <4>1. entity_id'[u] = entity_id[u] /\ entity_id[u] # Nobody
        BY <2>7, <2>9, <3>1, <3>3
      <4>2. entity_id[u] \in Entities \ {e}
        BY <4>1, <3>1 DEF MapType, EntitiesOk
      <4>3. QED
        BY <2>4, <4>1, <4>2 DEF EntitiesOk
    <3>4. QED
      BY <3>2, <3>3
  <2>10. QED
    BY <2>2, <2>3, <2>4, <2>6, <2>8, <2>9 DEF EntitiesOk
<1>3. QED
  BY <1>1, <1>2

\* Whoever comes in takes a free tile.
LEMMA Entering ==
  ASSUME MapType, EntitiesOk, NEW e \in Entities, ~Here(e), NEW t \in FreeTiles,
         OcupyTile(e, t), position' = [position EXCEPT ![e] = t]
  PROVE  /\ MapType' /\ EntitiesOk' /\ Here(e)'
         /\ \A x \in Entities \ {e} : position'[x] = position[x]
<1>1. t \in Tiles /\ entity_id[t] = Nobody
  BY DEF FreeTiles, CanOcupy
<1>2. MapType'
  BY <1>1 DEF MapType, OcupyTile
<1>3. /\ position'[e] = t
      /\ \A x \in Entities \ {e} : position'[x] = position[x]
  BY DEF MapType
<1>4. \A u \in Tiles : entity_id'[u] = IF u = t THEN e ELSE entity_id[u]
  BY <1>1 DEF MapType, OcupyTile
<1>5. ASSUME NEW x \in Entities, Here(x)' PROVE entity_id'[position'[x]] = x
  BY <1>1, <1>3, <1>4, <1>5, Apart DEF EntitiesOk, Here
<1>6. ASSUME NEW u \in Tiles, entity_id'[u] # Nobody PROVE position'[entity_id'[u]] = u
  BY <1>1, <1>3, <1>4, <1>6 DEF EntitiesOk, Here, MapType
<1>7. QED
  BY <1>1, <1>2, <1>3, <1>5, <1>6 DEF EntitiesOk, Here

\* Those that go take themselves off the map.
LEMMA Leaving ==
  ASSUME MapType, EntitiesOk, NEW S \in SUBSET {e \in Entities : Here(e)},
         entity_id' = [t \in Tiles |-> IF \E e \in S : position[e] = t
                                       THEN Nobody ELSE entity_id[t]],
         has_projectile' = has_projectile \ {position[e] : e \in S},
         NEW place \in [Entities -> {Elsewhere, Gone}],
         position' = [e \in Entities |-> IF e \notin S THEN position[e] ELSE place[e]]
  PROVE  /\ MapType' /\ EntitiesOk' /\ has_projectile' \subseteq has_projectile
         /\ \A e \in Entities \ S : position'[e] = position[e]
         /\ \A e \in S : ~Here(e)'
<1>1. MapType'
  BY DEF MapType
<1>2. \A e \in Entities : position'[e] = IF e \notin S THEN position[e] ELSE place[e]
  OBVIOUS
<1>3. \A e \in S : ~Here(e)'
  BY <1>2, Apart DEF Here
<1>4. ASSUME NEW e \in Entities, Here(e)' PROVE entity_id'[position'[e]] = e
  <2>1. e \notin S /\ position'[e] = position[e] /\ position[e] \in Tiles
    BY <1>2, <1>3, <1>4 DEF Here
  <2>2. entity_id[position[e]] = e
    BY <2>1 DEF EntitiesOk, Here
  <2>3. ASSUME NEW x \in S, position[x] = position[e] PROVE FALSE
    BY <2>1, <2>2, <2>3 DEF EntitiesOk, Here
  <2>4. QED
    BY <2>1, <2>2, <2>3
<1>5. ASSUME NEW u \in Tiles, entity_id'[u] # Nobody PROVE position'[entity_id'[u]] = u
  <2>1. entity_id'[u] = entity_id[u] /\ ~ \E e \in S : position[e] = u
    BY <1>5
  <2>2. entity_id[u] \in Entities /\ position[entity_id[u]] = u
    BY <1>5, <2>1 DEF MapType, EntitiesOk
  <2>3. QED
    BY <1>2, <2>1, <2>2
<1>6. QED
  BY <1>1, <1>2, <1>3, <1>4, <1>5 DEF EntitiesOk

-----------------------------------------------------------------------------
(* Projectiles *)

\* A tile lies within the positions a projectile may have, and so do the four next to it.
LEMMA TilesArePositions ==
  /\ Tiles \subseteq Positions
  /\ \A t \in Tiles, d \in Steps : Plus(t, d) \in Positions
BY WorldAssumption DEF Tiles, Positions, Steps, Plus

\* An impact leaves a projectile one, with the range it had.
LEMMA ImpactType ==
  ASSUME MapType, NEW p \in Projectile, NEW t
  PROVE  Impact(p, t) \in Projectile /\ Impact(p, t).range = p.range
<1>1. CASE t \in SafeTiles
  BY <1>1 DEF Impact, Kill, Projectile
<1>2. CASE t \notin SafeTiles /\ CanOcupy(t)
  <2>1. t \in Positions
    BY <1>2, TilesArePositions DEF CanOcupy
  <2>2. QED
    BY <1>2, <2>1 DEF Impact, Projectile
<1>3. CASE t \notin SafeTiles /\ ~CanOcupy(t) /\ t \in Tiles
  <2>1. entity_id[t] \in Entities \cup {Nobody}
    BY <1>3 DEF MapType
  <2>2. QED
    BY <1>3, <2>1 DEF Impact, Projectile
<1>4. CASE t \notin SafeTiles /\ ~CanOcupy(t) /\ t \notin Tiles
  BY <1>4 DEF Impact
<1>5. QED
  BY <1>1, <1>2, <1>3, <1>4

\* So does the step it takes when its turn comes.
LEMMA FlownType ==
  ASSUME MapType, NEW p \in Projectile
  PROVE  Flown(p) \in Projectile /\ Kill(Flown(p)) \in Projectile
<1>1. \A q \in Projectile : Kill(q) \in Projectile
  BY DEF Kill, Projectile
<1>2. CASE p.range = 0 \/ p.collided \/ ~p.alive
  BY <1>1, <1>2 DEF Flown
<1>3. CASE ~(p.range = 0 \/ p.collided \/ ~p.alive)
  <2> DEFINE i == Impact(p, Plus(p.at, p.orientation))
  <2>1. i \in Projectile /\ i.range = p.range
    BY ImpactType
  <2>2. i.range - 1 \in Nat
    BY <1>3, <2>1 DEF Projectile
  <2> HIDE DEF i
  <2>3. Spend(i) \in Projectile
    BY <2>1, <2>2 DEF Spend, Projectile
  <2>4. Flown(p) = IF Spend(i).range = 0 THEN Kill(Spend(i)) ELSE Spend(i)
    BY <1>3 DEF Flown, i
  <2>5. QED
    BY <1>1, <2>3, <2>4
<1>4. QED
  BY <1>2, <1>3

\* The tile a projectile reaches is marked as its own, and the tile it left is not.
LEMMA ImpactMarks ==
  ASSUME MapType, NEW p \in Projectile, NEW t
  PROVE  /\ MarksAfter(p, t) \subseteq Tiles
         /\ \A u \in MarksAfter(p, t) :
               \/ u \in has_projectile /\ (u # p.at \/ Impact(p, t).at = u)
               \/ Impact(p, t).at = u
<1>1. CASE t \in SafeTiles
  BY <1>1 DEF MapType, MarksAfter
<1>2. CASE t \notin SafeTiles /\ CanOcupy(t)
  <2>1. t \in Tiles
    BY <1>2 DEF CanOcupy
  <2>2. Impact(p, t).at = t
    BY <1>2 DEF Impact, Projectile
  <2>3. MarksAfter(p, t) = (has_projectile \ {p.at}) \cup {t}
    BY <1>2 DEF MarksAfter
  <2>4. QED
    BY <2>1, <2>2, <2>3 DEF MapType
<1>3. CASE t \notin SafeTiles /\ ~CanOcupy(t)
  <2>1. MarksAfter(p, t) = has_projectile
    BY <1>3 DEF MarksAfter
  <2>2. Impact(p, t).at = p.at
    BY <1>3 DEF Impact, Projectile
  <2>3. QED
    BY <2>1, <2>2 DEF MapType
<1>4. QED
  BY <1>1, <1>2, <1>3

\* Flown() does not move a projectile otherwise.
LEMMA FlownMarks ==
  ASSUME MapType, NEW p \in Projectile, NEW marks,
         marks = IF Flies(p) THEN MarksAfter(p, Plus(p.at, p.orientation)) ELSE has_projectile
  PROVE  /\ marks \subseteq Tiles
         /\ \A u \in marks : \/ u \in has_projectile /\ (u # p.at \/ Flown(p).at = u)
                             \/ Flown(p).at = u
<1> DEFINE i == Impact(p, Plus(p.at, p.orientation))
<1>1. \A q \in Projectile : Kill(q).at = q.at
  BY DEF Kill, Projectile
<1>2. CASE ~Flies(p)
  <2>1. marks = has_projectile
    BY <1>2
  <2>2. Flown(p).at = p.at
    BY <1>1, <1>2 DEF Flown, Flies
  <2>3. QED
    BY <2>1, <2>2 DEF MapType
<1>3. CASE Flies(p)
  <2>1. i \in Projectile
    BY ImpactType
  <2>2. Spend(i).at = i.at
    BY <2>1 DEF Spend, Projectile
  <2>3. Kill(Spend(i)).at = i.at
    BY <2>1, <2>2 DEF Kill, Spend, Projectile
  <2>4. Flown(p).at = i.at
    BY <1>3, <2>2, <2>3 DEF Flown, Flies
  <2>5. marks = MarksAfter(p, Plus(p.at, p.orientation))
    BY <1>3
  <2>6. QED
    BY <2>4, <2>5, ImpactMarks
<1>4. QED
  BY <1>2, <1>3

-----------------------------------------------------------------------------
(* Steps that leave the map as it is *)

\* What the invariant says, but for the phase and the heroes.
MapInv == MapType /\ ProjectileType /\ EntitiesOk /\ MarksOk
mapVars == <<tiles, position, projectiles>>

LEMMA MapUnchanged ==
  ASSUME MapInv, UNCHANGED mapVars
  PROVE  MapInv' /\ MonstersHere' = MonstersHere /\ HeroesHere' = HeroesHere
BY DEF MapInv, mapVars, tiles, MapType, ProjectileType, EntitiesOk, MarksOk, Here,
       MonstersHere, HeroesHere

LEMMA InvIs == WorldInv <=> (PhaseType /\ HeroType /\ MapInv /\ PendingOk)
BY DEF WorldInv, MapInv

LEMMA PrimedInvIs == WorldInv' <=> (PhaseType' /\ HeroType' /\ MapInv' /\ PendingOk')
BY DEF WorldInv, MapInv

\* Commands that change the state of heroes only.
LEMMA HeroCommands ==
  ASSUME WorldInv, NEW h \in Heroes,
         (\E d \in Speeds : SetHeroSpeed(h, d)) \/ HeroRevive(h) \/ KillPlayer(h)
  PROVE  WorldInv'
<1>1. MapInv' /\ MonstersHere' = MonstersHere /\ HeroesHere' = HeroesHere
  BY InvIs, MapUnchanged DEF SetHeroSpeed, HeroRevive, KillPlayer, mapVars
<1>2. PhaseType' /\ phase' = phase /\ pending' = pending /\ projectiles' = projectiles
  BY DEF SetHeroSpeed, HeroRevive, KillPlayer, Commanded, WorldInv, PhaseType
<1>3. PendingOk'
  BY <1>1, <1>2 DEF PendingOk, WorldInv
<1>4. HeroType'
  <2>1. CASE \E d \in Speeds : SetHeroSpeed(h, d)
    BY <2>1 DEF SetHeroSpeed, Commanded, WorldInv, HeroType
  <2>2. CASE HeroRevive(h)
    BY <2>2 DEF HeroRevive, Commanded, WorldInv, HeroType
  <2>3. CASE KillPlayer(h)
    BY <2>3 DEF KillPlayer, Commanded, WorldInv, HeroType
  <2>4. QED
    BY <2>1, <2>2, <2>3
<1>5. QED
  BY <1>1, <1>2, <1>3, <1>4, PrimedInvIs

\* The phases begin and end: whom a loop has to visit is in the room.
LEMMA PhaseSteps ==
  ASSUME WorldInv, \/ BeginUpdate \/ EndCommands \/ EndMonsters \/ EndRespawn \/ EndHeroes
                   \/ EndRemoval \/ EndBurial
  PROVE  WorldInv'
<1>1. MapInv' /\ MonstersHere' = MonstersHere /\ HeroesHere' = HeroesHere
  BY InvIs, MapUnchanged
     DEF BeginUpdate, EndCommands, EndMonsters, EndRespawn, EndHeroes, EndRemoval, EndBurial,
         mapVars
<1>2. HeroType' /\ projectiles' = projectiles
  BY DEF BeginUpdate, EndCommands, EndMonsters, EndRespawn, EndHeroes, EndRemoval, EndBurial,
         heroState, WorldInv, HeroType
<1>3. MonstersHere \subseteq Entities /\ HeroesHere \subseteq Entities
  BY DEF MonstersHere, HeroesHere, Entities
<1>4. PhaseType' /\ PendingOk'
  <2>1. CASE BeginUpdate
    BY <2>1, <1>1, <1>2 DEF BeginUpdate, WorldInv, PhaseType, PendingOk, Phases
  <2>2. CASE EndCommands
    BY <2>2, <1>1, <1>2, <1>3 DEF EndCommands, Turn, WorldInv, PhaseType, PendingOk, Phases
  <2>3. CASE EndMonsters
    BY <2>3, <1>1, <1>2 DEF EndMonsters, WorldInv, PhaseType, PendingOk, Phases
  <2>4. CASE EndRespawn
    BY <2>4, <1>1, <1>2, <1>3 DEF EndRespawn, WorldInv, PhaseType, PendingOk, Phases
  <2>5. CASE EndHeroes
    BY <2>5, <1>1, <1>2
       DEF EndHeroes, Turn, WorldInv, PhaseType, PendingOk, Phases, ProjectileType
  <2>6. CASE EndRemoval \/ EndBurial
    BY <2>6, <1>1, <1>2 DEF EndRemoval, EndBurial, WorldInv, PhaseType, PendingOk, Phases
  <2>7. QED
    BY <2>1, <2>2, <2>3, <2>4, <2>5, <2>6
<1>5. QED
  BY <1>1, <1>2, <1>4, PrimedInvIs

-----------------------------------------------------------------------------
(* Steps of monsters and heroes *)

\* After a move, or none, everyone that was in the room still is.
LEMMA MovedInv ==
  ASSUME MapInv, NEW e \in Entities, Here(e), NEW t,
         MoveTo(e, t) \/ UNCHANGED <<tiles, position>>, projectiles' = projectiles
  PROVE  MapInv' /\ MonstersHere' = MonstersHere /\ HeroesHere' = HeroesHere
<1>1. CASE UNCHANGED <<tiles, position>>
  BY <1>1, MapUnchanged DEF mapVars
<1>2. CASE MoveTo(e, t)
  <2>1. /\ MapType' /\ EntitiesOk' /\ has_projectile' \subseteq has_projectile
        /\ \A x \in Entities : Here(x)' <=> Here(x)
    BY <1>2, Moving DEF MapInv
  <2>2. ProjectileType' /\ MarksOk'
    BY <2>1 DEF MapInv, ProjectileType, MarksOk
  <2>3. MonstersHere' = MonstersHere /\ HeroesHere' = HeroesHere
    BY <2>1 DEF MonstersHere, HeroesHere, Entities
  <2>4. QED
    BY <2>1, <2>2, <2>3 DEF MapInv
<1>3. QED
  BY <1>1, <1>2

\* A monster attacks, or steps, or stays.
LEMMA MonsterActsInv ==
  ASSUME WorldInv, NEW m \in Monsters, MonsterActs(m)
  PROVE  WorldInv'
<1>1. m \in Entities /\ Here(m)
  BY DEF MonsterActs, Visits, WorldInv, PendingOk, MonstersHere, Entities
<1>2. PICK t : MoveTo(m, t) \/ UNCHANGED <<tiles, position>>
  BY DEF MonsterActs, Attack, TryToMoveTo
<1>3. MapInv' /\ MonstersHere' = MonstersHere /\ HeroesHere' = HeroesHere
  BY <1>1, <1>2, InvIs, MovedInv DEF MonsterActs
<1>4. PhaseType' /\ PendingOk'
  BY <1>3 DEF MonsterActs, Visits, WorldInv, PhaseType, PendingOk
<1>5. ghosts' \subseteq Heroes
  BY DEF MonsterActs, Attack, Living, HeroesHere, WorldInv, HeroType
<1>6. HeroType'
  BY <1>5 DEF MonsterActs, WorldInv, HeroType
<1>7. QED
  BY <1>3, <1>4, <1>6, PrimedInvIs

\* Whoever turns to a tile looks in one of the four directions.
LEMMA FacingType ==
  ASSUME HeroType, NEW h \in Heroes, NEW t, Facing(h, t)
  PROVE  orientation' \in [Heroes -> Steps]
<1>1. Towards(position[h], t) \in Steps
  BY DEF Towards, Steps
<1>2. QED
  BY <1>1 DEF Facing, HeroType

\* A hero walks, or stays.
LEMMA AutoMoveInv ==
  ASSUME WorldInv, NEW h \in Heroes, AutoMove(h)
  PROVE  WorldInv'
<1>1. h \in Entities /\ Here(h)
  BY DEF AutoMove, Visits, WorldInv, PendingOk, HeroesHere, Entities
<1>2. PICK t : MoveTo(h, t) \/ UNCHANGED <<tiles, position>>
  BY DEF AutoMove, Walk
<1>3. MapInv' /\ MonstersHere' = MonstersHere /\ HeroesHere' = HeroesHere
  BY <1>1, <1>2, InvIs, MovedInv DEF AutoMove
<1>4. PhaseType' /\ PendingOk'
  BY <1>3 DEF AutoMove, Visits, WorldInv, PhaseType, PendingOk
<1>5. orientation' \in [Heroes -> Steps]
  BY FacingType DEF AutoMove, Walk, WorldInv, HeroType
<1>6. HeroType'
  BY <1>5 DEF AutoMove, WorldInv, HeroType
<1>7. QED
  BY <1>3, <1>4, <1>6, PrimedInvIs

\* A wait ends: the hero lives again on a free tile.
LEMMA TryToUnblockInv ==
  ASSUME WorldInv, NEW h \in Heroes, TryToUnblock(h)
  PROVE  WorldInv'
<1>1. h \in Entities /\ Here(h)
  BY DEF TryToUnblock, WorldInv, PendingOk, HeroesHere, Entities
<1>2. PICK t : MoveTo(h, t) /\ Facing(h, t)
  BY DEF TryToUnblock
<1>3. MapInv' /\ MonstersHere' = MonstersHere /\ HeroesHere' = HeroesHere
  BY <1>1, <1>2, InvIs, MovedInv DEF TryToUnblock
<1>4. PhaseType' /\ PendingOk'
  BY <1>3 DEF TryToUnblock, WorldInv, PhaseType, PendingOk
<1>5. HeroType'
  BY <1>2, FacingType DEF TryToUnblock, WorldInv, HeroType
<1>6. QED
  BY <1>3, <1>4, <1>5, PrimedInvIs

-----------------------------------------------------------------------------
(* Coming and going *)

\* A monster appears while no loop is under way.
LEMMA RespawnMonsterInv ==
  ASSUME WorldInv, NEW m \in Monsters, RespawnMonster(m)
  PROVE  WorldInv'
<1>1. PICK t \in FreeTiles : OcupyTile(m, t) /\ position' = [position EXCEPT ![m] = t]
  BY DEF RespawnMonster
<1>2. MapType' /\ EntitiesOk'
  BY <1>1, Entering DEF RespawnMonster, WorldInv, Entities
<1>3. ProjectileType' /\ MarksOk' /\ HeroType'
  BY <1>1 DEF RespawnMonster, OcupyTile, heroState, WorldInv, ProjectileType, MarksOk, HeroType
<1>4. PhaseType' /\ PendingOk'
  BY DEF RespawnMonster, WorldInv, PhaseType, PendingOk
<1>5. QED
  BY <1>2, <1>3, <1>4, PrimedInvIs DEF MapInv

\* So does a hero, with whatever it was doing in the room it left.
LEMMA EnterRoomInv ==
  ASSUME WorldInv, NEW h \in Heroes, EnterRoom(h)
  PROVE  WorldInv'
<1>1. PICK t \in FreeTiles : OcupyTile(h, t) /\ position' = [position EXCEPT ![h] = t]
  BY DEF EnterRoom
<1>2. ~Here(h) /\ h \in Entities
  BY Apart DEF EnterRoom, Here, Entities
<1>3. MapType' /\ EntitiesOk'
  BY <1>1, <1>2, Entering DEF WorldInv
<1>4. ProjectileType' /\ MarksOk'
  BY <1>1 DEF EnterRoom, OcupyTile, WorldInv, ProjectileType, MarksOk
<1>5. Looks \subseteq Steps
  BY DEF Looks, Steps
<1>6. HeroType'
  BY <1>5 DEF EnterRoom, WorldInv, HeroType
<1>7. PhaseType' /\ PendingOk'
  BY DEF EnterRoom, Unlocked, WorldInv, PhaseType, PendingOk
<1>8. QED
  BY <1>3, <1>4, <1>6, <1>7, PrimedInvIs DEF MapInv

\* What a hero was doing in the room is forgotten when it goes.
LEMMA ForgetType ==
  ASSUME HeroType, NEW hs, Forget(hs), quitting' \subseteq Heroes, slain' \subseteq Monsters
  PROVE  HeroType'
BY DEF HeroType, Forget, Steps

\* One that goes takes itself off the map.
LEMMA OneLeaves ==
  ASSUME WorldInv, NEW e \in Entities, Here(e), EmptyTile(position[e]),
         NEW place \in {Elsewhere, Gone}, position' = [position EXCEPT ![e] = place],
         projectiles' = projectiles
  PROVE  MapInv' /\ \A x \in Entities \ {e} : position'[x] = position[x]
<1>1. position[e] \in Tiles
  BY DEF Here
<1>2. entity_id' = [t \in Tiles |-> IF \E x \in {e} : position[x] = t
                                   THEN Nobody ELSE entity_id[t]]
  BY <1>1 DEF EmptyTile, WorldInv, MapType
<1>3. has_projectile' = has_projectile \ {position[x] : x \in {e}}
  BY DEF EmptyTile
<1>4. position' = [x \in Entities |-> IF x \notin {e} THEN position[x]
                                     ELSE [y \in Entities |-> place][x]]
  BY DEF WorldInv, MapType
<1>5. [y \in Entities |-> place] \in [Entities -> {Elsewhere, Gone}]
  OBVIOUS
<1>6. /\ MapType' /\ EntitiesOk' /\ has_projectile' \subseteq has_projectile
      /\ \A x \in Entities \ {e} : position'[x] = position[x]
  BY <1>2, <1>3, <1>4, <1>5, Leaving DEF WorldInv
<1>7. ProjectileType' /\ MarksOk'
  BY <1>6 DEF WorldInv, ProjectileType, MarksOk
<1>8. QED
  BY <1>6, <1>7 DEF MapInv

\* A hero goes to another room.
LEMMA LeaveRoomInv ==
  ASSUME WorldInv, NEW h \in Heroes, LeaveRoom(h)
  PROVE  WorldInv'
<1>1. h \in Entities
  BY DEF Entities
<1>2. MapInv'
  BY <1>1, OneLeaves DEF LeaveRoom
<1>3. HeroType'
  BY ForgetType DEF LeaveRoom, WorldInv, HeroType
<1>4. PhaseType' /\ PendingOk'
  BY DEF LeaveRoom, Unlocked, WorldInv, PhaseType, PendingOk
<1>5. QED
  BY <1>2, <1>3, <1>4, PrimedInvIs

\* A hero that quit is removed while others come and go.
LEMMA RemoveDeathHeroInv ==
  ASSUME WorldInv, NEW h \in Heroes, RemoveDeathHero(h)
  PROVE  WorldInv'
<1>1. h \in Entities
  BY DEF Entities
<1>2. MapInv'
  BY <1>1, OneLeaves DEF RemoveDeathHero
<1>3. HeroType'
  BY ForgetType DEF RemoveDeathHero, WorldInv, HeroType
<1>4. PhaseType' /\ PendingOk'
  BY DEF RemoveDeathHero, WorldInv, PhaseType, PendingOk
<1>5. QED
  BY <1>2, <1>3, <1>4, PrimedInvIs

\* So is a monster that was killed.
LEMMA RemoveDeathMonsterInv ==
  ASSUME WorldInv, NEW m \in Monsters, RemoveDeathMonster(m)
  PROVE  WorldInv'
<1>1. m \in Entities
  BY DEF Entities
<1>2. MapInv'
  BY <1>1, OneLeaves DEF RemoveDeathMonster
<1>3. HeroType'
  BY DEF RemoveDeathMonster, heroState, WorldInv, HeroType
<1>4. PhaseType' /\ PendingOk'
  BY DEF RemoveDeathMonster, WorldInv, PhaseType, PendingOk
<1>5. QED
  BY <1>2, <1>3, <1>4, PrimedInvIs

\* Time passes: the map does not change.
LEMMA WaitPassesInv ==
  ASSUME WorldInv, NEW h \in Heroes, WaitPasses(h)
  PROVE  WorldInv'
<1>1. MapInv' /\ MonstersHere' = MonstersHere /\ HeroesHere' = HeroesHere
  BY InvIs, MapUnchanged DEF WaitPasses, mapVars
<1>2. PhaseType' /\ PendingOk' /\ HeroType'
  BY <1>1 DEF WaitPasses, WorldInv, PhaseType, PendingOk, HeroType
<1>3. QED
  BY <1>1, <1>2, PrimedInvIs

-----------------------------------------------------------------------------
(* Projectiles that are launched, fly and end *)

\* A hero launches a projectile, which may hit something at once.
LEMMA ThrowProjectileInv ==
  ASSUME WorldInv, NEW h \in Heroes, NEW r \in Ranges, NEW id \in Projectiles,
         ThrowProjectile(h, r, id)
  PROVE  WorldInv'
<1> DEFINE p == Launched(h, r)
           n == Spend(Impact(p, p.at))
<1>1. position[h] \in Tiles /\ orientation[h] \in Steps /\ r \in Nat /\ r # 0
  BY WorldAssumption DEF ThrowProjectile, Commanded, Here, WorldInv, HeroType
<1>2. Plus(position[h], orientation[h]) \in Positions
  BY <1>1, TilesArePositions
<1>3. p \in Projectile /\ p.range = r
  BY <1>1, <1>2 DEF Launched, Projectile
<1> HIDE DEF p
<1>4. Impact(p, p.at) \in Projectile /\ Impact(p, p.at).range = r
  BY <1>3, ImpactType DEF WorldInv
<1>5. n \in Projectile /\ n.at = Impact(p, p.at).at
  BY <1>1, <1>4 DEF Spend, Projectile
<1>6. /\ projectiles' = [i \in DOMAIN projectiles \cup {id} |->
                            IF i = id THEN n ELSE projectiles[i]]
      /\ has_projectile' = MarksAfter(p, p.at) /\ id \notin DOMAIN projectiles
  BY DEF ThrowProjectile, p
<1> HIDE DEF n
<1>7. ProjectileType'
  BY <1>5, <1>6 DEF WorldInv, ProjectileType
<1>8. MarksAfter(p, p.at) \subseteq Tiles
  BY <1>3, ImpactMarks DEF WorldInv
<1>9. ASSUME NEW u \in has_projectile' PROVE \E i \in DOMAIN projectiles' : projectiles'[i].at = u
  <2>1. u \in has_projectile \/ n.at = u
    BY <1>3, <1>5, <1>6, <1>9, ImpactMarks DEF WorldInv
  <2>2. CASE n.at = u
    BY <1>6, <2>2
  <2>3. CASE u \in has_projectile
    BY <1>6, <2>3 DEF WorldInv, MarksOk
  <2>4. QED
    BY <2>1, <2>2, <2>3
<1>10. MapType' /\ EntitiesOk'
  BY <1>6, <1>8 DEF ThrowProjectile, WorldInv, MapType, EntitiesOk, Here
<1>11. HeroType' /\ PhaseType'
  BY DEF ThrowProjectile, Commanded, heroState, WorldInv, HeroType, PhaseType
<1>12. PendingOk'
  BY DEF ThrowProjectile, Commanded, WorldInv, PendingOk
<1>13. QED
  BY <1>7, <1>9, <1>10, <1>11, <1>12, PrimedInvIs DEF MapInv, MarksOk

\* A projectile flies on, hits, or stops.
LEMMA ProjectileActsInv ==
  ASSUME WorldInv, NEW i \in Projectiles, ProjectileActs(i)
  PROVE  WorldInv'
<1> DEFINE p == projectiles[i]
           q == Flown(p)
           marks == IF Flies(p) THEN MarksAfter(p, Plus(p.at, p.orientation))
                    ELSE has_projectile
<1>1. i \in DOMAIN projectiles /\ p \in Projectile
  BY DEF ProjectileActs, Visits, WorldInv, PendingOk, ProjectileType
<1>2. q \in Projectile /\ Kill(q) \in Projectile
  BY <1>1, FlownType DEF WorldInv
<1>3. Kill(q).at = q.at
  BY <1>2 DEF Kill, Projectile
<1>4. /\ marks \subseteq Tiles
      /\ \A u \in marks : (u \in has_projectile /\ (u # p.at \/ q.at = u)) \/ q.at = u
  BY <1>1, FlownMarks DEF WorldInv
<1>5. /\ projectiles' \in {[projectiles EXCEPT ![i] = Kill(q)], [projectiles EXCEPT ![i] = q]}
      /\ has_projectile' \in {marks \ {q.at}, marks}
      /\ Hit(q) \/ UNCHANGED <<ghosts, slain>>
  BY DEF ProjectileActs
<1> HIDE DEF p, q, marks
<1>6. PICK n \in {q, Kill(q)} : projectiles' = [projectiles EXCEPT ![i] = n]
  BY <1>5
<1>7. n \in Projectile /\ n.at = q.at
  BY <1>2, <1>3, <1>6
<1>8. /\ DOMAIN projectiles' = DOMAIN projectiles /\ projectiles'[i] = n
      /\ \A j \in DOMAIN projectiles \ {i} : projectiles'[j] = projectiles[j]
  BY <1>1, <1>6
<1>9. ProjectileType'
  BY <1>7, <1>8 DEF WorldInv, ProjectileType
<1>10. ASSUME NEW u \in has_projectile' PROVE \E j \in DOMAIN projectiles' : projectiles'[j].at = u
  <2>1. (u \in has_projectile /\ u # p.at) \/ q.at = u
    BY <1>4, <1>5, <1>10
  <2>2. CASE q.at = u
    BY <1>1, <1>7, <1>8, <2>2
  <2>3. CASE u \in has_projectile /\ u # p.at
    <3>1. PICK j \in DOMAIN projectiles : projectiles[j].at = u
      BY <2>3 DEF WorldInv, MarksOk
    <3>2. j # i
      BY <2>3, <3>1 DEF p
    <3>3. QED
      BY <1>8, <3>1, <3>2
  <2>4. QED
    BY <2>1, <2>2, <2>3
<1>11. has_projectile' \subseteq Tiles
  BY <1>4, <1>5
<1>12. MapType' /\ EntitiesOk' /\ MonstersHere' = MonstersHere /\ HeroesHere' = HeroesHere
  BY <1>11 DEF ProjectileActs, WorldInv, MapType, EntitiesOk, Here, MonstersHere, HeroesHere
<1>13. ghosts' \subseteq Heroes /\ slain' \subseteq Monsters
  BY <1>5 DEF Hit, HeroesHere, MonstersHere, WorldInv, HeroType
<1>14. HeroType'
  BY <1>13 DEF ProjectileActs, WorldInv, HeroType
<1>15. PhaseType' /\ PendingOk'
  BY <1>8, <1>12 DEF ProjectileActs, Visits, WorldInv, PhaseType, PendingOk
<1>16. QED
  BY <1>9, <1>10, <1>12, <1>14, <1>15, PrimedInvIs DEF MapInv, MarksOk

\* Those that ended take their marks with them.
LEMMA RemoveDeathProjectilesInv ==
  ASSUME WorldInv, RemoveDeathProjectiles
  PROVE  WorldInv'
<1>1. /\ projectiles' = [i \in DOMAIN projectiles \ Spent |-> projectiles[i]]
      /\ has_projectile' = has_projectile \ {projectiles[i].at : i \in Spent}
  BY DEF RemoveDeathProjectiles
<1>2. ProjectileType'
  BY <1>1 DEF WorldInv, ProjectileType
<1>3. ASSUME NEW u \in has_projectile' PROVE \E i \in DOMAIN projectiles' : projectiles'[i].at = u
  <2>1. PICK i \in DOMAIN projectiles : projectiles[i].at = u
    BY <1>1, <1>3 DEF WorldInv, MarksOk
  <2>2. i \notin Spent
    BY <1>1, <1>3, <2>1
  <2>3. QED
    BY <1>1, <2>1, <2>2
<1>4. MapType' /\ EntitiesOk' /\ HeroType'
  BY <1>1 DEF RemoveDeathProjectiles, heroState, WorldInv, MapType, EntitiesOk, Here, HeroType
<1>5. PhaseType' /\ PendingOk'
  BY DEF RemoveDeathProjectiles, WorldInv, PhaseType, PendingOk, Phases
<1>6. QED
  BY <1>2, <1>3, <1>4, <1>5, PrimedInvIs DEF MapInv, MarksOk

-----------------------------------------------------------------------------
(* The theorems *)

LEMMA InitInv == Init => WorldInv
BY WorldAssumption
   DEF Init, WorldInv, PhaseType, Phases, MapType, HeroType, Steps, ProjectileType, EntitiesOk,
       MarksOk, PendingOk, Here

LEMMA StutterInv == ASSUME WorldInv, UNCHANGED vars PROVE WorldInv'
BY DEF vars, tiles, heroState, WorldInv, PhaseType, MapType, HeroType, ProjectileType,
       EntitiesOk, MarksOk, PendingOk, Here, MonstersHere, HeroesHere

\* Every step keeps the invariant.
LEMMA NextInv == WorldInv /\ [Next]_vars => WorldInv'
<1> SUFFICES ASSUME WorldInv, [Next]_vars PROVE WorldInv'
  OBVIOUS
<1>1. CASE Commands
  BY <1>1, HeroCommands, ThrowProjectileInv DEF Commands
<1>2. CASE Room
  BY <1>2, PhaseSteps, MonsterActsInv, RespawnMonsterInv, TryToUnblockInv, AutoMoveInv,
     ProjectileActsInv, RemoveDeathProjectilesInv, RemoveDeathHeroInv, RemoveDeathMonsterInv
     DEF Room
<1>3. CASE Others
  BY <1>3, EnterRoomInv, LeaveRoomInv, WaitPassesInv DEF Others
<1>4. CASE UNCHANGED vars
  BY <1>4, StutterInv
<1>5. QED
  BY <1>1, <1>2, <1>3, <1>4 DEF Next

\* The inductive invariant: the map agrees with what stands on it, and the loops of
\* update() visit only who is in the room.
THEOREM WorldInvariant == Spec => []WorldInv
BY InitInv, NextInv, PTL DEF Spec

\* The variables of the room keep their types: no projectile goes on without range.
THEOREM WorldTypeCorrect == Spec => []TypeOK
<1>1. WorldInv => TypeOK
  BY DEF WorldInv, PhaseType, MapType, HeroType, ProjectileType, TypeOK
<1>2. QED
  BY <1>1, WorldInvariant, PTL

\* Tiles and positions agree, and no mark outlives its projectile.
THEOREM MapAgrees == Spec => []CellsAgree
<1>1. WorldInv => CellsAgree
  BY DEF WorldInv, EntitiesOk, MarksOk, CellsAgree
<1>2. QED
  BY <1>1, WorldInvariant, PTL

\* A step moves only whom it is about, and never a hero that goes on waiting.
LEMMA BlockedStep ==
  ASSUME WorldInv, Next, NEW h \in blocked \cap blocked',
         position[h] \in Tiles, position'[h] \in Tiles
  PROVE  position'[h] = position[h]
<1>1. h \in Heroes /\ h \in Entities
  BY DEF WorldInv, HeroType, Entities
<1>2. CASE Commands
  BY <1>2 DEF Commands, SetHeroSpeed, ThrowProjectile, HeroRevive, KillPlayer
<1>3. ASSUME NEW m \in Monsters, MonsterActs(m) PROVE position'[h] = position[h]
  <2>1. m \in Entities \ {h} /\ Here(m)
    BY <1>1, <1>3, Apart
       DEF MonsterActs, Visits, WorldInv, PendingOk, MonstersHere, Entities
  <2>2. PICK t : MoveTo(m, t) \/ UNCHANGED <<tiles, position>>
    BY <1>3 DEF MonsterActs, Attack, TryToMoveTo
  <2>3. QED
    BY <1>1, <2>1, <2>2, Moving DEF WorldInv
<1>4. ASSUME NEW m \in Monsters, RespawnMonster(m) PROVE position'[h] = position[h]
  BY <1>1, <1>4, Apart DEF RespawnMonster, WorldInv, MapType
<1>5. ASSUME NEW g \in Heroes, TryToUnblock(g) PROVE position'[h] = position[h]
  <2>1. g \in Entities \ {h} /\ Here(g)
    BY <1>5 DEF TryToUnblock, WorldInv, PendingOk, HeroesHere, Entities
  <2>2. PICK t : MoveTo(g, t)
    BY <1>5 DEF TryToUnblock
  <2>3. QED
    BY <1>1, <2>1, <2>2, Moving DEF WorldInv
<1>6. ASSUME NEW g \in Heroes, AutoMove(g) PROVE position'[h] = position[h]
  <2>1. g \in Entities /\ Here(g)
    BY <1>6 DEF AutoMove, Visits, WorldInv, PendingOk, HeroesHere, Entities
  <2>2. CASE UNCHANGED <<tiles, position, orientation>>
    BY <2>2
  <2>3. CASE g # h
    <3>1. PICK t : MoveTo(g, t) \/ UNCHANGED <<tiles, position>>
      BY <1>6 DEF AutoMove, Walk
    <3>2. QED
      BY <1>1, <2>1, <2>3, <3>1, Moving DEF WorldInv
  <2>4. QED
    BY <1>6, <2>2, <2>3 DEF AutoMove
<1>7. ASSUME \/ \E g \in Heroes : RemoveDeathHero(g)
             \/ \E m \in Monsters : RemoveDeathMonster(m)
      PROVE  position'[h] = position[h]
  BY <1>1, <1>7, Apart DEF RemoveDeathHero, RemoveDeathMonster, WorldInv, MapType
<1>8. ASSUME NEW g \in Heroes, EnterRoom(g) \/ LeaveRoom(g) PROVE position'[h] = position[h]
  <2>1. CASE g = h
    BY <1>1, <1>8, <2>1, Apart DEF EnterRoom, LeaveRoom, WorldInv, MapType
  <2>2. CASE g # h
    BY <1>1, <1>8, <2>2 DEF EnterRoom, LeaveRoom, WorldInv, MapType
  <2>3. QED
    BY <2>1, <2>2
<1>9. ASSUME \/ BeginUpdate \/ EndCommands \/ EndMonsters \/ EndRespawn \/ EndHeroes
             \/ EndRemoval \/ EndBurial
             \/ RemoveDeathProjectiles \/ \E i \in Projectiles : ProjectileActs(i)
             \/ \E g \in Heroes : WaitPasses(g)
      PROVE  position'[h] = position[h]
  BY <1>9 DEF BeginUpdate, EndCommands, EndMonsters, EndRespawn, EndHeroes, EndRemoval,
             EndBurial, RemoveDeathProjectiles, ProjectileActs, WaitPasses
<1>10. CASE Room
  BY <1>3, <1>4, <1>5, <1>6, <1>7, <1>9, <1>10 DEF Room
<1>11. CASE Others
  BY <1>8, <1>9, <1>11 DEF Others
<1>12. QED
  BY <1>2, <1>10, <1>11 DEF Next

\* Who waits to revive does not move.
THEOREM WaitingHeroesStay == Spec => BlockedStay
<1> DEFINE Stay == \A h \in blocked \cap blocked' :
                     position[h] \in Tiles /\ position'[h] \in Tiles => position'[h] = position[h]
<1>1. WorldInv /\ [Next]_vars => [Stay]_vars
  BY BlockedStep
<1>2. QED
  BY <1>1, WorldInvariant, PTL DEF Spec, BlockedStay

-----------------------------------------------------------------------------
(***************************************************************************)
(* The living have life left and ghosts do not meditate, for any           *)
(* configuration of a hero whose life fits the field of its record         *)
(* (HeroLife, which shares no variable with World).                        *)
(*                                                                         *)
(* LifeIsConsistent is not inductive: that a cure, a revival or a new level*)
(* leaves some life rests on the limits of life, which grow with the       *)
(* level, and that a session does rests on what its record holds.          *)
(***************************************************************************)

Flags == playing \in BOOLEAN /\ ghost_mode \in BOOLEAN /\ meditating \in BOOLEAN

PointsInLimits ==
  /\ level \in Levels
  /\ current_hp \in 0 .. MaxHp(level) /\ current_mana \in 0 .. MaxMana(level)

LifeType == Flags /\ PointsInLimits

\* What the files hold of a hero that is away is what it left with.
RecordKeepsLife ==
  ~playing => /\ record.level = level /\ record.hp = current_hp
              /\ record.ghost = ghost_mode
              /\ record.mana \in Nat

LifeInv == LifeType /\ LifeIsConsistent /\ RecordKeepsLife

-----------------------------------------------------------------------------
(* Life and mana within their limits *)

LEMMA LimitsOfLife ==
  ASSUME NEW l \in Levels
  PROVE  MaxHp(l) \in Nat /\ MaxHp(l) >= 2 /\ MaxHp(l) < RecordLimit /\ MaxMana(l) \in Nat
<1>1. /\ l \in Nat /\ l >= 1 /\ l <= MaxLevel /\ MaxLevel \in Nat /\ RecordLimit \in Nat
      /\ HpPerLevel \in Nat /\ HpPerLevel >= 2 /\ ManaPerLevel \in Nat
      /\ HpPerLevel * MaxLevel < RecordLimit
  BY LifeAssumption, ThingsAssumption, RecordAssumption DEF Levels
<1>2. HpPerLevel * l \in Nat /\ ManaPerLevel * l \in Nat
  BY <1>1
<1>3. HpPerLevel * l >= HpPerLevel
  BY <1>1
<1>4. HpPerLevel * l <= HpPerLevel * MaxLevel /\ HpPerLevel * MaxLevel \in Nat
  BY <1>1
<1> QED BY <1>1, <1>2, <1>3, <1>4 DEF MaxHp, MaxMana

\* set_hp gives what is asked for, up to the limit of the level.
LEMMA HpWithinLimits ==
  ASSUME NEW l \in Levels, NEW hp \in Nat
  PROVE  HpUpTo(l, hp) \in 0 .. MaxHp(l) /\ (hp > 0 => HpUpTo(l, hp) > 0)
BY LimitsOfLife DEF HpUpTo, Least

LEMMA ManaWithinLimits ==
  ASSUME NEW l \in Levels, NEW mana \in Int
  PROVE  ManaUpTo(l, mana) \in 0 .. MaxMana(l)
<1>1. mana % UIntLimit \in Nat
  BY LifeAssumption
<1> QED BY <1>1, LimitsOfLife DEF ManaUpTo, Least

LEMMA PointsAreNumbers ==
  ASSUME LifeType PROVE level \in Nat /\ current_hp \in Nat /\ current_mana \in Nat
BY LimitsOfLife DEF LifeType, PointsInLimits, Levels

-----------------------------------------------------------------------------
(* The steps *)

LEMMA InitLife == LifeInit => LifeInv
<1>1. 1 \in Levels
  BY LifeAssumption DEF Levels
<1>2. MaxHp(1) \in 0 .. MaxHp(1) /\ MaxMana(1) \in 0 .. MaxMana(1) /\ MaxHp(1) > 0
  BY <1>1, LimitsOfLife
<1>3. ASSUME LifeInit PROVE Flags /\ PointsInLimits
  BY <1>1, <1>2, <1>3, Zenon DEF LifeInit, Flags, PointsInLimits
<1>4. ASSUME LifeInit PROVE LifeIsConsistent /\ RecordKeepsLife
  BY <1>2, <1>4, Zenon DEF LifeInit, LifeIsConsistent, RecordKeepsLife
<1> QED BY <1>3, <1>4 DEF LifeInv, LifeType

LEMMA RestKeeps == ASSUME LifeInv, Rest PROVE LifeInv'
<1> USE DEF LifeInv, LifeType, Flags, PointsInLimits, LifeIsConsistent,
    RecordKeepsLife, progress, points
<1>0. level \in Nat /\ current_hp \in Nat /\ current_mana \in Nat
  BY PointsAreNumbers
<1>1. CASE Regenerate
  <2>1. {RaceRecovery, Meditation} \subseteq Nat
    BY LifeAssumption
  <2>2. /\ current_hp + RaceRecovery \in Nat
        /\ current_hp > 0 => current_hp + RaceRecovery > 0
        /\ current_mana + (IF meditating THEN Meditation ELSE RaceRecovery) \in Int
    BY <1>0, <2>1
  <2> QED BY <1>1, <2>2, HpWithinLimits, ManaWithinLimits DEF Regenerate
<1>2. CASE Meditate \/ StopMeditating
  <2>1. playing /\ UNCHANGED <<playing, level, current_hp, current_mana, ghost_mode>>
    BY <1>2 DEF Meditate, StopMeditating
  <2>2. meditating' \in BOOLEAN /\ (meditating' => ~ghost_mode)
    BY <1>2, Zenon DEF Meditate, StopMeditating
  <2> QED BY <2>1, <2>2, Zenon
<1>3. CASE Heal
  <2>1. /\ current_hp + Priest.hp \in Nat
        /\ current_hp > 0 => current_hp + Priest.hp > 0
        /\ current_mana + Priest.mana \in Int
    BY <1>0, LifeAssumption
  <2> QED BY <1>3, <2>1, HpWithinLimits, ManaWithinLimits DEF Heal
<1>4. CASE Revive
  <2>1. /\ MaxHp(level) \div 2 \in Nat /\ MaxHp(level) \div 2 > 0
        /\ MaxMana(level) \div 2 \in Int
    BY LimitsOfLife
  <2> QED BY <1>4, <2>1, HpWithinLimits, ManaWithinLimits DEF Revive
<1>5. ASSUME NEW id \in Consumables, DrinkPotion(id) PROVE LifeInv'
  <2>1. Potions[id].hp \in Nat /\ Potions[id].mana \in Nat
    BY LifeAssumption
  <2>2. /\ current_hp + Potions[id].hp \in Nat
        /\ current_hp > 0 => current_hp + Potions[id].hp > 0
        /\ current_mana + Potions[id].mana \in Int
    BY <1>0, <2>1
  <2> QED BY <1>5, <2>2, HpWithinLimits, ManaWithinLimits DEF DrinkPotion
<1> QED BY <1>1, <1>2, <1>3, <1>4, <1>5 DEF Rest

\* Nothing a hero wears takes anything from a blow: see Defense.
LEMMA NoDefense == ASSUME NEW t PROVE DefenseBonus(t) \subseteq {0}
BY DEF DefenseBonus, Defense

LEMMA LevelKeeps ==
  ASSUME LifeInv, playing, NEW l \in Levels, LevelUpTo(l),
         UNCHANGED <<playing, ghost_mode, meditating>>
  PROVE  LifeInv'
BY LimitsOfLife DEF LifeInv, LifeType, Flags, PointsInLimits, LifeIsConsistent,
    RecordKeepsLife, LevelUpTo

LEMMA FightKeeps == ASSUME LifeInv, Fight PROVE LifeInv'
<1>0. level \in Nat /\ current_hp \in Nat /\ current_mana \in Nat
  BY PointsAreNumbers DEF LifeInv
<1>1. CASE HeroAttack
  <2>1. AttackUse.cost \in Nat /\ AttackUse.hp \in Nat
    BY LifeAssumption DEF AttackUse
  <2>2. /\ current_hp + AttackUse.hp \in Nat
        /\ current_hp > 0 => current_hp + AttackUse.hp > 0
        /\ current_mana - AttackUse.cost \in Int
    BY <1>0, <2>1
  <2> QED
    BY <1>1, <2>2, HpWithinLimits, ManaWithinLimits
       DEF HeroAttack, LifeInv, LifeType, Flags, PointsInLimits, LifeIsConsistent,
    RecordKeepsLife, progress
<1>2. ASSUME NEW d \in Damages, ReceiveDamage(d) PROVE LifeInv'
  <2>1. /\ playing /\ playing' = playing /\ level' = level /\ current_mana' = current_mana
        /\ meditating' = FALSE /\ ~ghost_mode
    BY <1>2 DEF ReceiveDamage
  <2>2. PICK bonus \in DefenseBonus(things) \cup {0} :
          LET left == current_hp - (d - Least(bonus, d))
          IN IF left <= 0
             THEN current_hp' = 0 /\ ghost_mode' = TRUE
             ELSE current_hp' = left /\ ghost_mode' = ghost_mode
    BY <1>2 DEF ReceiveDamage
  <2>3. d \in Nat /\ Least(bonus, d) = 0
    BY <2>2, NoDefense, LifeAssumption DEF Least
  <2>4. \/ current_hp' = 0 /\ ghost_mode' = TRUE
        \/ /\ current_hp' \in Nat /\ current_hp' > 0 /\ current_hp' <= current_hp
           /\ ghost_mode' = ghost_mode
    BY <1>0, <2>2, <2>3
  <2>5. current_hp' \in 0 .. MaxHp(level)
    BY <1>0, <2>4, LimitsOfLife DEF LifeInv, LifeType, PointsInLimits
  <2>6. LifeType'
    BY <2>1, <2>4, <2>5, Zenon DEF LifeInv, LifeType, Flags, PointsInLimits
  <2> QED BY <2>6, <2>1, <2>4, <2>5 DEF LifeInv, LifeIsConsistent, RecordKeepsLife
<1>3. ASSUME NEW d \in Damages, NEW f \in Foes, NEW k \in BOOLEAN, UpdateExperience(d, f, k)
      PROVE  LifeInv'
  <2>1. playing /\ UNCHANGED <<playing, ghost_mode, meditating, things, record>>
    BY <1>3 DEF UpdateExperience
  <2>2. \/ UNCHANGED <<points, level>>
        \/ \E l \in Levels : LevelUpTo(l)
    <3>1. ASSUME NEW xp,
                 IF xp < next_level_xp_limit
                 THEN experience' = xp /\ UNCHANGED <<points, level, next_level_xp_limit>>
                 ELSE /\ level < MaxLevel
                      /\ LET reached == Climbed(level + 1, xp - next_level_xp_limit)
                         IN /\ reached[1] \in 1 .. MaxLevel - 1
                            /\ LevelUpTo(reached[1])
                            /\ experience' = reached[2]
          PROVE  UNCHANGED <<points, level>> \/ \E l \in Levels : LevelUpTo(l)
      <4>1. CASE xp < next_level_xp_limit
        BY <3>1, <4>1
      <4>2. CASE ~ xp < next_level_xp_limit
        <5>1. PICK reached : reached[1] \in 1 .. MaxLevel - 1 /\ LevelUpTo(reached[1])
          BY <3>1, <4>2
        <5>2. reached[1] \in Levels
          BY <5>1, LifeAssumption DEF Levels
        <5> QED BY <5>1, <5>2
      <4> QED BY <4>1, <4>2
    <3> QED BY <1>3, <3>1 DEF UpdateExperience
  <2>3. CASE UNCHANGED <<points, level>>
    BY <2>1, <2>3 DEF LifeInv, LifeType, Flags, PointsInLimits, LifeIsConsistent,
    RecordKeepsLife, points
  <2>4. CASE \E l \in Levels : LevelUpTo(l)
    BY <2>1, <2>4, LevelKeeps
  <2> QED BY <2>2, <2>3, <2>4
<1> QED BY <1>1, <1>2, <1>3 DEF Fight

\* What a hero carries does not touch its life; moving it ends a meditation.
LEMMA CarryKeeps == ASSUME LifeInv, Carry PROVE LifeInv'
<1>1. ASSUME NEW t, Handle(t) PROVE LifeInv'
  BY <1>1 DEF Handle, LifeInv, LifeType, Flags, PointsInLimits, LifeIsConsistent,
    RecordKeepsLife, points, progress
<1>2. CASE LeaveDrop
  BY <1>2 DEF LeaveDrop, LifeInv, LifeType, Flags, PointsInLimits, LifeIsConsistent,
    RecordKeepsLife, life, points,
              progress
<1>3. ASSUME NEW id \in ItemIds, Wear(id) \/ Unequip(id) \/ BankItem(id) \/ UnbankItem(id)
      PROVE  LifeInv'
  BY <1>1, <1>3 DEF Wear, Unequip, BankItem, UnbankItem
<1>4. ASSUME NEW id \in Known, PickUp(id) \/ Drop(id) \/ BuyItem(id) \/ SellItem(id)
      PROVE  LifeInv'
  BY <1>1, <1>4 DEF PickUp, Drop, BuyItem, SellItem
<1>5. ASSUME NEW coins \in Coins, BankGold(coins) \/ UnbankGold(coins) PROVE LifeInv'
  BY <1>1, <1>5 DEF BankGold, UnbankGold
<1>6. ASSUME NEW coins \in Coins, PickUpGold(coins) PROVE LifeInv'
  BY <1>6 DEF PickUpGold, LifeInv, LifeType, Flags, PointsInLimits, LifeIsConsistent,
    RecordKeepsLife, life, points, progress
<1> QED BY <1>2, <1>3, <1>4, <1>5, <1>6 DEF Carry

\* The record of the hero that quits, and the hero built from it.
LEMMA SessionKeeps == ASSUME LifeInv, Quit \/ Login PROVE LifeInv'
<1> USE DEF LifeInv, LifeType, Flags, PointsInLimits, LifeIsConsistent,
    RecordKeepsLife
<1>0. level \in Nat /\ current_hp \in Nat /\ current_mana \in Nat
  BY PointsAreNumbers
<1>1. CASE Quit
  <2>1. level < RecordLimit /\ current_hp < RecordLimit /\ RecordLimit \in Nat \ {0}
    <3>1. HpPerLevel * level >= level
      BY <1>0, LifeAssumption
    <3> QED BY <1>0, <3>1, LimitsOfLife, ThingsAssumption DEF MaxHp
  <2>2. level % RecordLimit = level /\ current_hp % RecordLimit = current_hp
    BY <1>0, <2>1
  <2>3. current_mana % RecordLimit \in Nat
    BY <1>0, <2>1
  <2>4. /\ record'.level = level % RecordLimit /\ record'.hp = current_hp % RecordLimit
        /\ record'.mana = current_mana % RecordLimit /\ record'.ghost = ghost_mode
    BY <1>1 DEF Quit, Serialized
  <2> QED BY <1>1, <2>2, <2>3, <2>4 DEF Quit, life, points, progress
<1>2. CASE Login
  <2>1. /\ level' = level /\ ghost_mode' = ghost_mode /\ meditating' = FALSE /\ playing' = TRUE
        /\ current_hp' = HpUpTo(level, current_hp)
        /\ current_mana' = ManaUpTo(level, record.mana) /\ record.mana \in Nat
    BY <1>2 DEF Login
  <2>2. /\ current_hp' \in 0 .. MaxHp(level) /\ (current_hp > 0 => current_hp' > 0)
        /\ current_mana' \in 0 .. MaxMana(level)
    BY <1>0, <2>1, HpWithinLimits, ManaWithinLimits
  <2> QED BY <2>1, <2>2, Zenon
<1> QED BY <1>1, <1>2

LEMMA NextKeepsLife == LifeInv /\ [LifeNext]_lifeVars => LifeInv'
<1> SUFFICES ASSUME LifeInv, [LifeNext]_lifeVars PROVE LifeInv'
  OBVIOUS
<1>1. CASE UNCHANGED lifeVars
  BY <1>1 DEF lifeVars, life, points, progress, LifeInv, LifeType, Flags, PointsInLimits,
              LifeIsConsistent, RecordKeepsLife
<1>2. CASE LevelUp
  <2>1. level + 1 \in Levels
    BY <1>2, LifeAssumption DEF LevelUp, LifeInv, LifeType, PointsInLimits, Levels
  <2> QED BY <1>2, <2>1, LevelKeeps DEF LevelUp
<1> QED BY <1>1, <1>2, RestKeeps, FightKeeps, CarryKeeps, SessionKeeps DEF LifeNext

-----------------------------------------------------------------------------

\* Whatever a hero of any class, race and level goes through, its life and mana
\* stay within the limits of its level, and its record keeps them while it is away.
THEOREM LifeStaysWithinLimits == LifeSpec => []LifeInv
<1>1. LifeInit => LifeInv
  BY InitLife
<1> QED BY <1>1, NextKeepsLife, PTL DEF LifeSpec

\* Who lives has life left, and a ghost does not meditate (hero.cpp:423, :416).
THEOREM TheLivingHaveLife == LifeSpec => []LifeIsConsistent
<1>1. LifeInv => LifeIsConsistent
  BY DEF LifeInv
<1> QED BY <1>1, LifeStaysWithinLimits, PTL

-----------------------------------------------------------------------------
(***************************************************************************)
(* Experience and levels.  What several levels at once leave is a recursive*)
(* function: that there is one, and what it gives, is shown from the last  *)
(* level down.                                                             *)
(***************************************************************************)

Xp == 0 .. UIntLimit - 1

\* A set of numbers has a least one.
LEMMA LeastElement == ASSUME NEW T \in SUBSET Nat, T # {} PROVE \E x \in T : \A y \in T : x <= y
<1>1. PICK x \in T : \A y \in T : <<y, x>> \notin OpToRel(<, Nat)
  BY NatLessThanWellFounded, WFMin
<1>2. \A y \in T : ~(y < x)
  BY <1>1 DEF OpToRel
<1> QED  BY <1>2

\* What holds at the last level, and at each level if it does at the next, holds at all.
LEMMA FromTheLastLevel ==
  ASSUME NEW T, \A l \in Levels : l = MaxLevel \/ l + 1 \in T => l \in T
  PROVE  Levels \subseteq T
<1>1. MaxLevel \in Nat /\ MaxLevel \in Levels
  BY LifeAssumption DEF Levels
<1> SUFFICES ASSUME ~(Levels \subseteq T) PROVE FALSE
  OBVIOUS
<1> DEFINE U == {n \in Nat : n < MaxLevel /\ MaxLevel - n \notin T}
<1>2. PICK m \in Levels : m \notin T
  OBVIOUS
<1>3. MaxLevel - m \in U
  BY <1>1, <1>2 DEF Levels
<1>4. U \in SUBSET Nat /\ U # {}
  BY <1>3
<1>5. PICK n \in U : \A k \in U : n <= k
  <2> HIDE DEF U
  <2> QED  BY <1>4, LeastElement
<1>6. n \in Nat /\ n < MaxLevel /\ MaxLevel - n \notin T /\ MaxLevel - n \in Levels
  BY <1>1, <1>5 DEF Levels
<1>7. n # 0
  BY <1>1, <1>6
<1>8. n - 1 \in Nat /\ n - 1 < MaxLevel /\ n - 1 \notin U
  BY <1>1, <1>5, <1>6, <1>7
<1>9. MaxLevel - (n - 1) \in T
  BY <1>8
<1>10. MaxLevel - (n - 1) = (MaxLevel - n) + 1
  BY <1>1, <1>6
<1> QED  BY <1>6, <1>9, <1>10

\* What is reached from level l, if f says what is from the next.
Reach(f, l) ==
  [x \in Xp |-> IF l = MaxLevel \/ x < XpLimit[l] THEN <<l, x>> ELSE f[l + 1][x - XpLimit[l]]]

LEMMA ReachFromNext ==
  ASSUME NEW f, NEW g, NEW l, l = MaxLevel \/ f[l + 1] = g[l + 1]
  PROVE  Reach(f, l) = Reach(g, l)
BY DEF Reach

LEMMA ClimbExists == \E f : f = [l \in Levels |-> Reach(f, l)]
<1> DEFINE Climbs(f, m) == /\ f = [l \in Levels |-> f[l]]
                           /\ \A l \in Levels : l >= m => f[l] = Reach(f, l)
           T == {m \in Levels : \E f : Climbs(f, m)}
<1>0. MaxLevel \in Nat /\ 1 \in Levels /\ Levels \subseteq Nat
  BY LifeAssumption DEF Levels
<1>1. ASSUME NEW m \in Levels, m = MaxLevel PROVE m \in T
  <2> DEFINE g == [l \in Levels |-> [x \in Xp |-> <<l, x>>]]
  <2>1. \A l \in Levels : l >= m => l = m
    BY <1>1 DEF Levels
  <2>2. g[m] = Reach(g, m)
    BY <1>1 DEF Reach
  <2>3. Climbs(g, m)
    BY <2>1, <2>2
  <2> QED  BY <2>3
<1>2. ASSUME NEW m \in Levels, m # MaxLevel, m + 1 \in T PROVE m \in T
  <2>1. PICK f : Climbs(f, m + 1)
    BY <1>2
  <2> DEFINE g == [l \in Levels |-> IF l = m THEN Reach(f, m) ELSE f[l]]
  <2>2. ASSUME NEW l \in Levels, l >= m PROVE g[l] = Reach(g, l)
    <3>1. l \in Nat /\ m \in Nat
      BY <1>0
    <3>2. l = MaxLevel \/ f[l + 1] = g[l + 1]
      <4>1. CASE l # MaxLevel
        <5>1. l + 1 \in Levels /\ l + 1 # m
          BY <1>0, <2>2, <3>1, <4>1 DEF Levels
        <5> QED  BY <5>1
      <4> QED  BY <4>1
    <3> HIDE DEF g
    <3>3. Reach(f, l) = Reach(g, l)
      BY <3>2, ReachFromNext
    <3>4. CASE l = m
      BY <3>3, <3>4 DEF g
    <3>5. CASE l # m
      <4>1. l >= m + 1
        BY <2>2, <3>1, <3>5
      <4>2. f[l] = Reach(f, l)
        BY <2>1, <4>1
      <4>3. g[l] = f[l]
        BY <3>5 DEF g
      <4> QED  BY <3>3, <4>2, <4>3
    <3> QED  BY <3>4, <3>5
  <2>3. g = [l \in Levels |-> g[l]]
    OBVIOUS
  <2>4. Climbs(g, m)
    <3> HIDE DEF g
    <3> QED  BY <2>2, <2>3
  <2> QED  BY <2>4
<1>3. \A l \in Levels : l = MaxLevel \/ l + 1 \in T => l \in T
  <2> HIDE DEF T
  <2> QED  BY <1>1, <1>2
<1>4. 1 \in T
  <2> HIDE DEF T
  <2> QED  BY <1>0, <1>3, FromTheLastLevel
<1>5. PICK f : Climbs(f, 1)
  BY <1>4
<1>6. \A l \in Levels : f[l] = Reach(f, l)
  BY <1>5, <1>0 DEF Levels
<1>7. f = [l \in Levels |-> f[l]]
  BY <1>5
<1>8. f = [l \in Levels |-> Reach(f, l)]
  BY <1>6, <1>7
<1> QED  BY <1>8

LEMMA ClimbUnfolds == \A l \in Levels : Climb[l] = Reach(Climb, l)
<1>1. Climb = CHOOSE f : f = [l \in Levels |-> Reach(f, l)]
  BY DEF Climb, Reach, Xp
<1>2. Climb = [l \in Levels |-> Reach(Climb, l)]
  BY <1>1, ClimbExists
<1> HIDE DEF Climb
<1> QED  BY <1>2

\* The level that is reached is one that what is left does not exceed, or the last.
Reached(l, r) == r[2] \in Xp /\ (r[1] = MaxLevel \/ r[2] < XpLimit[r[1]])

LEMMA ClimbReaches == \A l \in Levels : \A x \in Xp : Reached(l, Climbed(l, x))
<1> DEFINE T == {l \in Levels : \A x \in Xp : Reached(l, Climb[l][x])}
<1>1. ASSUME NEW l \in Levels, l = MaxLevel \/ l + 1 \in T PROVE l \in T
  <2> SUFFICES ASSUME NEW x \in Xp PROVE Reached(l, Climb[l][x])
    OBVIOUS
  <2>1. Climb[l][x] = IF l = MaxLevel \/ x < XpLimit[l] THEN <<l, x>>
                      ELSE Climb[l + 1][x - XpLimit[l]]
    <3> HIDE DEF Climb
    <3>1. Climb[l] = Reach(Climb, l)
      BY ClimbUnfolds
    <3> QED  BY <3>1 DEF Reach
  <2> HIDE DEF Climb
  <2>2. CASE l = MaxLevel \/ x < XpLimit[l]
    BY <2>1, <2>2 DEF Reached
  <2>3. CASE ~(l = MaxLevel \/ x < XpLimit[l])
    <3>1. x - XpLimit[l] \in Xp
      BY <2>3, LifeAssumption DEF Xp
    <3> QED  BY <1>1, <2>1, <2>3, <3>1 DEF Reached
  <2> QED  BY <2>2, <2>3
<1>2. Levels \subseteq T
  <2> HIDE DEF T
  <2> QED  BY <1>1, FromTheLastLevel
<1> QED  BY <1>2 DEF Climbed

-----------------------------------------------------------------------------

\* Experience x at level l is below what the level takes; the limit n a hero goes by is
\* that of its level, or what a field of the record left of one that outgrew it, and
\* then the experience went through such a field as well or is below what was left.
XpFits(l, n, x) ==
  /\ x \in Xp /\ x < XpLimit[l]
  /\ \/ n = XpLimit[l]
     \/ n \in Nat /\ n < RecordLimit /\ RecordLimit <= XpLimit[l]

\* So it is with who plays, and with the record of who is away.
XpInv ==
  /\ playing => XpFits(level, next_level_xp_limit, experience)
  /\ ~playing => XpFits(level, record.limit, record.xp)

LEMMA LimitsOfExperience ==
  ASSUME NEW l \in Levels
  PROVE  /\ XpLimit[l] \in Nat \ {0}
         /\ l + 1 \in Levels => XpLimit[l] <= XpLimit[l + 1]
<1>1. l + 1 \in Levels => l \in 1 .. MaxLevel - 1
  BY LifeAssumption DEF Levels
<1> QED  BY <1>1, LifeAssumption

LEMMA InitExperience == LifeInit => XpInv
<1>1. 1 \in Levels /\ 0 \in Xp
  BY LifeAssumption DEF Levels, Xp
<1>2. 0 < XpLimit[1]
  BY <1>1, LimitsOfExperience
<1>3. XpFits(1, XpLimit[1], 0)
  BY <1>1, <1>2 DEF XpFits
<1>4. LifeInit => playing /\ XpFits(level, next_level_xp_limit, experience)
  BY <1>3, Zenon DEF LifeInit
<1> QED  BY <1>4, Zenon DEF XpInv

\* A blow takes half of the experience from whom it kills.
LEMMA BlowLeavesLess ==
  ASSUME XpInv, LifeInv, playing, experience' \in {experience, experience \div 2},
         UNCHANGED <<playing, level, next_level_xp_limit>>
  PROVE  XpInv'
<1>1. experience \in Nat /\ experience < XpLimit[level] /\ experience \in Xp
  BY DEF XpInv, XpFits, Xp
<1>2. UIntLimit \in Nat
  BY LifeAssumption
<1>3. experience' \in Xp /\ experience' <= experience
  BY <1>1, <1>2 DEF Xp
<1>4. XpLimit[level] \in Nat
  BY <1>1, LimitsOfExperience DEF LifeInv, LifeType, PointsInLimits
<1>5. experience' < XpLimit[level]
  BY <1>1, <1>3, <1>4 DEF Xp
<1> QED  BY <1>1, <1>3, <1>5 DEF XpInv, XpFits

LEMMA ExperienceClimbs ==
  ASSUME XpInv, LifeInv, NEW d \in Damages, NEW f \in Foes, NEW k \in BOOLEAN,
         UpdateExperience(d, f, k)
  PROVE  XpInv'
<1>1. playing /\ playing' = playing
  BY DEF UpdateExperience
<1>2. PICK xp :
        /\ xp \in Xp
        /\ IF xp < next_level_xp_limit
           THEN experience' = xp /\ UNCHANGED <<points, level, next_level_xp_limit>>
           ELSE /\ level < MaxLevel
                /\ LET reached == Climbed(level + 1, xp - next_level_xp_limit)
                   IN /\ reached[1] \in 1 .. MaxLevel - 1
                      /\ LevelUpTo(reached[1])
                      /\ experience' = reached[2]
  <2>1. PICK bonus \in IF k THEN 0 .. f.max_hp * Worth(f) ELSE {0} :
          LET xp == (experience + d * Worth(f) + bonus) % UIntLimit
          IN IF xp < next_level_xp_limit
             THEN experience' = xp /\ UNCHANGED <<points, level, next_level_xp_limit>>
             ELSE /\ level < MaxLevel
                  /\ LET reached == Climbed(level + 1, xp - next_level_xp_limit)
                     IN /\ reached[1] \in 1 .. MaxLevel - 1
                        /\ LevelUpTo(reached[1])
                        /\ experience' = reached[2]
    BY DEF UpdateExperience
  <2> DEFINE all == experience + d * Worth(f) + bonus
             xp == all % UIntLimit
  <2>2. all \in Int
    <3>1. level \in Int /\ ExperienceToUpdate \in Int /\ UIntLimit \in Nat \ {0} /\ d \in Int
          /\ f.level \in Int /\ f.max_hp \in Int /\ experience \in Int
      BY <1>1, LifeAssumption DEF LifeInv, LifeType, PointsInLimits, Levels, XpInv, XpFits, Xp
    <3>2. Worth(f) \in Int
      BY <3>1 DEF Worth
    <3>3. bonus \in Int /\ d * Worth(f) \in Int
      BY <2>1, <3>1, <3>2
    <3> QED  BY <3>1, <3>3
  <2> HIDE DEF all
  <2>3. xp \in Xp
    BY <2>2, LifeAssumption DEF Xp
  <2> QED  BY <2>1, <2>3 DEF all
<1>3. /\ level \in Levels /\ next_level_xp_limit \in Nat /\ XpLimit[level] \in Nat
      /\ next_level_xp_limit <= XpLimit[level] /\ RecordLimit \in Nat
  BY <1>1, LimitsOfExperience, ThingsAssumption DEF XpInv, XpFits, LifeInv, LifeType, PointsInLimits
<1>4. CASE xp < next_level_xp_limit
  <2>1. xp \in Nat /\ xp < XpLimit[level]
    BY <1>2, <1>3, <1>4 DEF Xp
  <2> QED  BY <1>1, <1>2, <1>4, <2>1 DEF XpInv, XpFits
<1>5. CASE ~(xp < next_level_xp_limit)
  <2> DEFINE reached == Climbed(level + 1, xp - next_level_xp_limit)
  <2>0. MaxLevel \in Nat /\ UIntLimit \in Nat
    BY LifeAssumption
  <2>1. level + 1 \in Levels /\ xp - next_level_xp_limit \in Xp
    <3>1. level < MaxLevel
      BY <1>2, <1>5
    <3>2. level + 1 \in Levels
      BY <1>3, <2>0, <3>1 DEF Levels
    <3>3. xp \in Xp
      BY <1>2
    <3>4. xp - next_level_xp_limit \in Xp
      BY <1>3, <1>5, <2>0, <3>3 DEF Xp
    <3> QED  BY <3>2, <3>4
  <2>2. Reached(level + 1, reached)
    BY <2>1, ClimbReaches
  <2>3. reached[1] \in 1 .. MaxLevel - 1 /\ LevelUpTo(reached[1]) /\ experience' = reached[2]
    BY <1>2, <1>5
  <2> HIDE DEF reached
  <2>4. reached[1] # MaxLevel /\ reached[1] \in Levels
    BY <2>0, <2>3 DEF Levels
  <2>5. experience' \in Xp /\ experience' < XpLimit[reached[1]]
    BY <2>2, <2>3, <2>4 DEF Reached
  <2>6. level' = reached[1] /\ next_level_xp_limit' = XpLimit[reached[1]]
    BY <2>3 DEF LevelUpTo
  <2>7. XpFits(level', next_level_xp_limit', experience')
    BY <2>5, <2>6 DEF XpFits
  <2> QED  BY <1>1, <2>7 DEF XpInv
<1> QED  BY <1>4, <1>5

LEMMA CutToField ==
  ASSUME NEW n \in Nat
  PROVE  /\ n % RecordLimit \in Nat /\ n % RecordLimit < RecordLimit
         /\ n % RecordLimit <= n
         /\ n < RecordLimit => n % RecordLimit = n
<1>1. RecordLimit \in Nat \ {0}
  BY ThingsAssumption
<1>2. n % RecordLimit \in Nat /\ n % RecordLimit < RecordLimit
  BY <1>1
<1>3. n < RecordLimit => n % RecordLimit = n
  BY <1>1
<1> QED  BY <1>1, <1>2, <1>3

\* A record keeps what fits it; what does not is cut below the field's width.
LEMMA SessionsKeepExperience == ASSUME XpInv, LifeInv, Quit \/ Login PROVE XpInv'
<1>1. CASE Quit
  <2> DEFINE n == next_level_xp_limit % RecordLimit
             x == experience % RecordLimit
  <2>1. playing /\ ~playing' /\ level' = level
    BY <1>1 DEF Quit, life, progress
  <2>2. level \in Levels /\ XpFits(level, next_level_xp_limit, experience)
    BY <2>1 DEF XpInv, LifeInv, LifeType, PointsInLimits
  <2>3. /\ XpLimit[level] \in Nat /\ RecordLimit \in Nat /\ UIntLimit \in Nat
        /\ next_level_xp_limit \in Nat /\ experience \in Nat
    BY <2>2, LimitsOfExperience, ThingsAssumption, LifeAssumption DEF XpFits, Xp
  <2>4. /\ n \in Nat /\ n < RecordLimit /\ x \in Nat /\ x < RecordLimit /\ x <= experience
        /\ next_level_xp_limit < RecordLimit => n = next_level_xp_limit
    BY <2>3, CutToField
  <2>5. record'.limit = n /\ record'.xp = x
    BY <1>1 DEF Quit, Serialized
  <2> HIDE DEF n, x
  <2>6. x \in Xp /\ x < XpLimit[level]
    <3>1. experience < UIntLimit /\ experience < XpLimit[level]
      BY <2>2, <2>3 DEF XpFits, Xp
    <3> QED  BY <2>3, <2>4, <3>1 DEF Xp
  <2>7. n = XpLimit[level] \/ RecordLimit <= XpLimit[level]
    BY <2>2, <2>3, <2>4 DEF XpFits
  <2>8. XpFits(level, n, x)
    BY <2>4, <2>6, <2>7 DEF XpFits
  <2> QED  BY <2>1, <2>5, <2>8 DEF XpInv
<1>2. CASE Login
  <2>1. /\ ~playing /\ playing' /\ level' = record.level /\ record.level = level
        /\ next_level_xp_limit' = record.limit /\ experience' = record.xp
    BY <1>2 DEF Login, LifeInv, RecordKeepsLife
  <2> QED  BY <2>1 DEF XpInv
<1> QED  BY <1>1, <1>2

LEMMA NextKeepsExperience == ASSUME XpInv, LifeInv, [LifeNext]_lifeVars PROVE XpInv'
<1>1. CASE UNCHANGED <<playing, progress, record>>
  BY <1>1 DEF XpInv, progress
<1>2. Rest => UNCHANGED <<playing, progress, record>>
  BY DEF Rest, Regenerate, Meditate, StopMeditating, Heal, Revive, DrinkPotion
<1>3. HeroAttack => UNCHANGED <<playing, progress, record>>
  BY DEF HeroAttack
<1>4. Carry => UNCHANGED <<playing, progress, record>>
  <2>1. ASSUME NEW coins, PickUpGold(coins) PROVE UNCHANGED <<playing, progress, record>>
    BY <2>1 DEF PickUpGold, life
  <2>2. LeaveDrop => UNCHANGED <<playing, progress, record>>
    BY DEF LeaveDrop, life
  <2>3. ASSUME NEW t, Handle(t) PROVE UNCHANGED <<playing, progress, record>>
    BY <2>3 DEF Handle
  <2> QED
    BY <2>1, <2>2, <2>3 DEF Carry, Wear, Unequip, BankItem, UnbankItem, PickUp, Drop, BuyItem,
                            SellItem, BankGold, UnbankGold
<1>5. ASSUME NEW d \in Damages, ReceiveDamage(d) PROVE XpInv'
  <2>1. /\ playing /\ experience' \in {experience, experience \div 2}
        /\ UNCHANGED <<playing, level, next_level_xp_limit>>
    BY <1>5 DEF ReceiveDamage
  <2> QED  BY <2>1, BlowLeavesLess
<1>6. CASE LevelUp
  <2>1. /\ playing /\ UNCHANGED <<playing, experience>> /\ level' = level + 1
        /\ next_level_xp_limit' = XpLimit[level + 1]
    BY <1>6 DEF LevelUp, LevelUpTo
  <2>2. level \in Levels /\ level + 1 \in Levels
    BY <1>6, LifeAssumption DEF LevelUp, LifeInv, LifeType, PointsInLimits, Levels
  <2>3. XpLimit[level] \in Nat /\ XpLimit[level + 1] \in Nat /\ XpLimit[level] <= XpLimit[level + 1]
    BY <2>2, LimitsOfExperience
  <2>4. experience \in Nat /\ experience \in Xp /\ experience < XpLimit[level]
    BY <2>1 DEF XpInv, XpFits, Xp
  <2>5. XpFits(level', next_level_xp_limit', experience')
    BY <2>1, <2>3, <2>4 DEF XpFits
  <2> QED  BY <2>1, <2>5 DEF XpInv
<1>7. UNCHANGED lifeVars => UNCHANGED <<playing, progress, record>>
  BY DEF lifeVars, life
<1> QED  BY <1>1, <1>2, <1>3, <1>4, <1>5, <1>6, <1>7, ExperienceClimbs, SessionsKeepExperience
            DEF LifeNext, Fight

-----------------------------------------------------------------------------

\* Experience is below what the level takes, in the hero that plays and in the record of
\* the one that does not, and only a limit that outgrew its field comes back cut.
THEOREM ExperienceInvariant == LifeSpec => [](LifeInv /\ XpInv)
<1>1. LifeInit => LifeInv /\ XpInv
  BY InitLife, InitExperience
<1>2. LifeInv /\ XpInv /\ [LifeNext]_lifeVars => (LifeInv /\ XpInv)'
  BY NextKeepsLife, NextKeepsExperience
<1> QED BY <1>1, <1>2, PTL DEF LifeSpec

\* However much experience one blow brings, the wrapped difference of two levels
\* included, all the levels it is worth are gained at once (hero.cpp:443, :454), for
\* every table of limits that do not decrease, those too large for the record included.
THEOREM LevelsFollowExperience == LifeSpec => []ExperienceBelowLimit
<1>1. ASSUME LifeInv, XpInv, playing
      PROVE  /\ experience < XpLimit[level]
             /\ XpLimit[level] < RecordLimit => next_level_xp_limit = XpLimit[level]
  <2>1. XpLimit[level] \in Nat /\ RecordLimit \in Nat
    BY <1>1, LimitsOfExperience, ThingsAssumption DEF LifeInv, LifeType, PointsInLimits
  <2> QED  BY <1>1, <2>1 DEF XpInv, XpFits
<1>2. LifeInv /\ XpInv => ExperienceBelowLimit
  BY <1>1 DEF ExperienceBelowLimit
<1> QED BY <1>2, ExperienceInvariant, PTL

-----------------------------------------------------------------------------
(* What a record gives back *)

\* What LifeInv and XpInv leave open: the mana, and that the hero that is away is the
\* one the record tells of.
RecordIsExact ==
  ~playing => /\ record.mana = current_mana
              /\ Kept(next_level_xp_limit, record.limit) /\ Kept(experience, record.xp)

LEMMA LimitsOfMana ==
  ASSUME NEW l \in Levels
  PROVE  MaxMana(l) \in Nat /\ MaxMana(l) < RecordLimit
<1>1. /\ l \in Nat /\ l <= MaxLevel /\ MaxLevel \in Nat /\ RecordLimit \in Nat
      /\ ManaPerLevel \in Nat /\ ManaPerLevel * MaxLevel < RecordLimit
  BY LifeAssumption, ThingsAssumption, RecordAssumption DEF Levels
<1>2. ManaPerLevel * l <= ManaPerLevel * MaxLevel /\ ManaPerLevel * l \in Nat
      /\ ManaPerLevel * MaxLevel \in Nat
  BY <1>1
<1> QED  BY <1>1, <1>2 DEF MaxMana

LEMMA QuitIsExact == ASSUME LifeInv, XpInv, Quit PROVE RecordIsExact'
<1>1. playing /\ UNCHANGED <<current_mana, next_level_xp_limit, experience>>
  BY DEF Quit, life, points, progress
<1>2. /\ level \in Levels /\ current_mana \in 0 .. MaxMana(level)
      /\ XpFits(level, next_level_xp_limit, experience)
  BY <1>1 DEF XpInv, LifeInv, LifeType, PointsInLimits
<1>3. /\ next_level_xp_limit \in Nat /\ experience \in Nat
      /\ current_mana \in Nat /\ current_mana < RecordLimit
  <2>1. next_level_xp_limit \in Nat /\ experience \in Nat
    BY <1>2, LimitsOfExperience DEF XpFits, Xp
  <2> QED  BY <1>2, <2>1, LimitsOfMana, ThingsAssumption
<1>4. /\ Kept(next_level_xp_limit, next_level_xp_limit % RecordLimit)
      /\ Kept(experience, experience % RecordLimit) /\ current_mana % RecordLimit = current_mana
  BY <1>3, CutToField DEF Kept
<1>5. /\ record'.limit = next_level_xp_limit % RecordLimit
      /\ record'.xp = experience % RecordLimit /\ record'.mana = current_mana % RecordLimit
  BY DEF Quit, Serialized
<1> QED  BY <1>1, <1>4, <1>5 DEF RecordIsExact, Kept

LEMMA CarryPlays == Carry => playing'
<1>1. ASSUME NEW t, Handle(t) PROVE playing'
  BY <1>1 DEF Handle
<1>2. ASSUME NEW id \in ItemIds, Wear(id) \/ Unequip(id) \/ BankItem(id) \/ UnbankItem(id)
      PROVE  playing'
  BY <1>1, <1>2 DEF Wear, Unequip, BankItem, UnbankItem
<1>3. ASSUME NEW id \in Known, PickUp(id) \/ Drop(id) \/ BuyItem(id) \/ SellItem(id)
      PROVE  playing'
  BY <1>1, <1>3 DEF PickUp, Drop, BuyItem, SellItem
<1>4. ASSUME NEW coins \in Coins, BankGold(coins) \/ UnbankGold(coins) \/ PickUpGold(coins)
      PROVE  playing'
  BY <1>1, <1>4 DEF BankGold, UnbankGold, PickUpGold
<1>5. LeaveDrop => playing'
  BY DEF LeaveDrop
<1> QED  BY <1>2, <1>3, <1>4, <1>5 DEF Carry

LEMMA NextKeepsExact ==
  ASSUME LifeInv, XpInv, RecordIsExact, [LifeNext]_lifeVars
  PROVE  RecordIsExact'
<1>1. Rest => playing'
  BY DEF Rest, Regenerate, Meditate, StopMeditating, Heal, Revive, DrinkPotion
<1>2. Fight => playing'
  BY DEF Fight, HeroAttack, ReceiveDamage, UpdateExperience
<1>3. Carry => playing'
  BY CarryPlays
<1>4. LevelUp \/ Login => playing'
  BY DEF LevelUp, Login
<1>5. UNCHANGED lifeVars => RecordIsExact'
  BY DEF lifeVars, life, points, progress, RecordIsExact, Kept
<1> QED  BY <1>1, <1>2, <1>3, <1>4, <1>5, QuitIsExact DEF LifeNext, RecordIsExact

\* The limits that cut what is not theirs leave alone what was within them.
LEMMA LoginRestores ==
  ASSUME LifeInv, RecordIsExact, Login
  PROVE  /\ UNCHANGED <<points, level, ghost_mode>>
         /\ Kept(experience, experience') /\ Kept(next_level_xp_limit, next_level_xp_limit')
<1>1. /\ level' = level /\ ghost_mode' = ghost_mode
      /\ Kept(next_level_xp_limit, next_level_xp_limit') /\ Kept(experience, experience')
      /\ current_hp' = HpUpTo(level, current_hp)
      /\ current_mana' = ManaUpTo(level, current_mana)
  BY DEF Login, LifeInv, RecordKeepsLife, RecordIsExact
<1>2. /\ level \in Levels /\ MaxHp(level) \in Nat /\ MaxMana(level) \in Nat
      /\ MaxMana(level) < RecordLimit
      /\ current_hp \in 0 .. MaxHp(level) /\ current_mana \in 0 .. MaxMana(level)
  BY LimitsOfLife, LimitsOfMana DEF LifeInv, LifeType, PointsInLimits
<1>3. HpUpTo(level, current_hp) = current_hp
  BY <1>2 DEF HpUpTo, Least
<1>4. current_mana % UIntLimit = current_mana
  <2>1. current_mana \in Nat /\ current_mana < UIntLimit /\ UIntLimit \in Nat \ {0}
    BY <1>2, RecordAssumption, LifeAssumption, ThingsAssumption
  <2> QED  BY <2>1
<1>5. ManaUpTo(level, current_mana) = current_mana
  BY <1>2, <1>4 DEF ManaUpTo, Least
<1> QED  BY <1>1, <1>3, <1>5 DEF points

-----------------------------------------------------------------------------
(* What a hero carries *)

\* One item on a slot, and one hand for a weapon or a staff.
OneHand(t) == t.worn["staff"] = Nothing \/ t.worn["weapon"] = Nothing
Tidy == {t \in Things : OneHand(t)}

\* No more than there is room for.
Roomy(t) == Len(t.items) <= InventorySize /\ Len(t.bank) <= BankSize

LEMMA FieldTypes ==
  ASSUME NEW t \in Things
  PROVE  /\ t.worn \in [Slots -> ItemIds \cup {Nothing}] /\ t.items \in Seq(ItemIds)
         /\ t.bank \in Seq(ItemIds) /\ t.gold \in Nat /\ t.banked \in Nat
         /\ t = [worn |-> t.worn, items |-> t.items, bank |-> t.bank, gold |-> t.gold,
                 banked |-> t.banked]
BY DEF Things

LEMMA OtherWorn ==
  ASSUME NEW t \in Things, NEW s \in Slots, NEW id
  PROVE  [t EXCEPT !.worn[s] = id]
           = [worn |-> [t.worn EXCEPT ![s] = id], items |-> t.items, bank |-> t.bank,
              gold |-> t.gold, banked |-> t.banked]
<1>1. [t EXCEPT !.worn[s] = id] = [t EXCEPT !.worn = [t.worn EXCEPT ![s] = id]]
  OBVIOUS
<1>2. ASSUME NEW f
      PROVE  [t EXCEPT !.worn = f] = [worn |-> f, items |-> t.items, bank |-> t.bank,
                                      gold |-> t.gold, banked |-> t.banked]
  BY DEF Things
<1> QED  BY <1>1, <1>2

LEMMA OtherItems ==
  ASSUME NEW t \in Tidy, NEW q \in Seq(ItemIds)
  PROVE  [t EXCEPT !.items = q] \in Tidy /\ [t EXCEPT !.bank = q] \in Tidy
BY DEF Tidy, Things, OneHand

LEMMA OtherGold ==
  ASSUME NEW t \in Tidy, NEW n \in Nat
  PROVE  [t EXCEPT !.gold = n] \in Tidy /\ [t EXCEPT !.banked = n] \in Tidy
BY DEF Tidy, Things, OneHand

\* Taking one out leaves a list of the others.
LEMMA RemovedType ==
  ASSUME NEW q \in Seq(ItemIds), NEW id
  PROVE  /\ RemoveFirst(q, id) \in Seq(ItemIds)
         /\ Len(RemoveFirst(q, id)) = IF Contains(q, id) THEN Len(q) - 1 ELSE Len(q)
<1>1. CASE ~\E i \in 1 .. Len(q) : q[i] = id
  BY <1>1 DEF RemoveFirst, Contains
<1>2. CASE \E i \in 1 .. Len(q) : q[i] = id
  <2> DEFINE I == {i \in 1 .. Len(q) : q[i] = id}
  <2>1. I \in SUBSET Nat /\ I # {}
    BY <1>2
  <2>2. Min(I) \in I
    <3>1. \E x \in I : \A y \in I : x <= y
      BY <2>1, LeastElement
    <3> QED  BY <3>1 DEF Min
  <2>3. RemoveFirst(q, id) = RemoveAt(q, Min(I))
    BY <1>2, <2>1 DEF RemoveFirst, SelectInSeq
  <2> HIDE DEF I
  <2>4. Min(I) \in 1 .. Len(q)
    BY <2>2 DEF I
  <2>5. RemoveAt(q, Min(I)) \in Seq(ItemIds) /\ Len(RemoveAt(q, Min(I))) = Len(q) - 1
    <3>1. /\ SubSeq(q, 1, Min(I) - 1) \in Seq(ItemIds)
          /\ SubSeq(q, Min(I) + 1, Len(q)) \in Seq(ItemIds)
          /\ Len(SubSeq(q, 1, Min(I) - 1)) = Min(I) - 1
          /\ Len(SubSeq(q, Min(I) + 1, Len(q))) = Len(q) - Min(I)
      BY <2>4
    <3>2. Len(q) \in Nat /\ Min(I) \in Nat
      BY <2>4
    <3> QED  BY <3>1, <3>2 DEF RemoveAt
  <2> QED  BY <1>2, <2>3, <2>5 DEF Contains
<1> QED  BY <1>1, <1>2

\* The item that was put first is the first of its kind.
LEMMA RemovedFirst ==
  ASSUME NEW q \in Seq(ItemIds), NEW id \in ItemIds
  PROVE  Contains(Cons(id, q), id) /\ RemoveFirst(Cons(id, q), id) = q
<1> DEFINE p == Cons(id, q)
           I == {i \in 1 .. Len(p) : p[i] = id}
<1>1. p \in Seq(ItemIds) /\ Len(p) = Len(q) + 1 /\ p[1] = id /\ Len(q) \in Nat
      /\ \A i \in 1 .. Len(q) : p[i + 1] = q[i]
  BY DEF Cons
<1>2. 1 \in I /\ \A i \in I : 1 <= i /\ i \in Nat
  BY <1>1
<1>3. Contains(p, id) /\ \E i \in 1 .. Len(p) : p[i] = id
  BY <1>1 DEF Contains
<1>4. RemoveFirst(p, id) = RemoveAt(p, Min(I))
  BY <1>2, <1>3 DEF RemoveFirst, SelectInSeq
<1> HIDE DEF p, I
<1>5. Min(I) = 1
  <2>1. \A x \in I : (\A y \in I : x <= y) <=> x = 1
    BY <1>2
  <2> QED  BY <1>2, <2>1 DEF Min
<1>6. RemoveAt(p, 1) = q
  <2>1. RemoveAt(p, 1) = SubSeq(p, 1, 0) \o SubSeq(p, 2, Len(p))
    BY DEF RemoveAt
  <2>2. SubSeq(p, 1, 0) = <<>>
    BY <1>1
  <2>3. SubSeq(p, 2, Len(p)) = q
    <3>1. SubSeq(p, 2, Len(p)) \in Seq(ItemIds) /\ Len(SubSeq(p, 2, Len(p))) = Len(q)
          /\ \A i \in 1 .. Len(q) : SubSeq(p, 2, Len(p))[i] = p[i + 1]
      BY <1>1
    <3> QED  BY <1>1, <3>1
  <2> QED  BY <2>1, <2>2, <2>3
<1> QED  BY <1>3, <1>4, <1>5, <1>6 DEF p

LEMMA ItemMoves ==
  ASSUME NEW t \in Tidy, NEW id \in ItemIds
  PROVE  {AddItem(t, id), RemoveItem(t, id), AddToBank(t, id), RemoveFromBank(t, id)}
           \subseteq Tidy
<1>1. t.items \in Seq(ItemIds) /\ t.bank \in Seq(ItemIds)
  BY DEF Tidy, Things
<1>2. Cons(id, t.items) \in Seq(ItemIds) /\ Cons(id, t.bank) \in Seq(ItemIds)
  BY <1>1 DEF Cons
<1>3. RemoveFirst(t.items, id) \in Seq(ItemIds) /\ RemoveFirst(t.bank, id) \in Seq(ItemIds)
  BY <1>1, RemovedType
<1>4. AddItem(t, id) \in Tidy /\ AddToBank(t, id) \in Tidy
  BY <1>2, OtherItems DEF AddItem, AddToBank
<1>5. RemoveItem(t, id) \in Tidy /\ RemoveFromBank(t, id) \in Tidy
  BY <1>3, OtherItems DEF RemoveItem, RemoveFromBank
<1> QED  BY <1>4, <1>5

\* One more, or one less, where it is put or taken from.
LEMMA ItemLengths ==
  ASSUME NEW t \in Tidy, NEW id \in ItemIds
  PROVE  /\ Len(AddItem(t, id).items) = Len(t.items) + 1 /\ AddItem(t, id).bank = t.bank
         /\ Len(AddToBank(t, id).bank) = Len(t.bank) + 1 /\ AddToBank(t, id).items = t.items
         /\ Len(RemoveItem(t, id).items)
              = (IF HasItem(t, id) THEN Len(t.items) - 1 ELSE Len(t.items))
         /\ RemoveItem(t, id).bank = t.bank
         /\ Len(RemoveFromBank(t, id).bank)
              = (IF Contains(t.bank, id) THEN Len(t.bank) - 1 ELSE Len(t.bank))
         /\ RemoveFromBank(t, id).items = t.items
         /\ Len(t.items) \in Nat /\ Len(t.bank) \in Nat
<1>1. t.items \in Seq(ItemIds) /\ t.bank \in Seq(ItemIds)
  BY DEF Tidy, Things
<1>2. /\ Len(Cons(id, t.items)) = Len(t.items) + 1 /\ Len(Cons(id, t.bank)) = Len(t.bank) + 1
      /\ Len(t.items) \in Nat /\ Len(t.bank) \in Nat
  BY <1>1 DEF Cons
<1>3. ASSUME NEW q
      PROVE  /\ [t EXCEPT !.items = q].items = q /\ [t EXCEPT !.items = q].bank = t.bank
             /\ [t EXCEPT !.bank = q].bank = q /\ [t EXCEPT !.bank = q].items = t.items
  BY DEF Tidy, Things
<1>4. AddItem(t, id).items = Cons(id, t.items) /\ AddItem(t, id).bank = t.bank
      /\ AddToBank(t, id).bank = Cons(id, t.bank) /\ AddToBank(t, id).items = t.items
  BY <1>3 DEF AddItem, AddToBank
<1>5. RemoveItem(t, id).items = RemoveFirst(t.items, id) /\ RemoveItem(t, id).bank = t.bank
      /\ RemoveFromBank(t, id).bank = RemoveFirst(t.bank, id)
      /\ RemoveFromBank(t, id).items = t.items
  BY <1>3 DEF RemoveItem, RemoveFromBank
<1> QED  BY <1>1, <1>2, <1>4, <1>5, RemovedType DEF HasItem

LEMMA RemovedRoomy ==
  ASSUME NEW t \in Tidy, Roomy(t), NEW id \in ItemIds
  PROVE  Roomy(RemoveItem(t, id))
<1> DEFINE n == Len(t.items)
           m == Len(RemoveItem(t, id).items)
<1>1. m = n \/ m = n - 1
  BY ItemLengths
<1>2. n \in Nat /\ n <= InventorySize /\ InventorySize \in Nat
  BY ItemLengths, ThingsAssumption DEF Roomy
<1>3. RemoveItem(t, id).bank = t.bank /\ Len(t.bank) <= BankSize
  BY ItemLengths DEF Roomy
<1> HIDE DEF m, n
<1>4. m <= InventorySize
  BY <1>1, <1>2
<1> QED  BY <1>3, <1>4 DEF Roomy, m

LEMMA TakenOffTidy ==
  ASSUME NEW t \in Tidy, NEW s \in Slots
  PROVE  /\ TakenOff(t, s) \in Tidy /\ TakenOff(t, s).worn[s] = Nothing
         /\ \A u \in Slots \ {s} : TakenOff(t, s).worn[u] = t.worn[u]
         /\ TakenOff(t, s).items = t.items
<1> DEFINE r == TakenOff(t, s)
<1>1. r \in Things
  BY DEF TakenOff, Tidy, Things
<1>2. r.worn = [t.worn EXCEPT ![s] = Nothing] /\ r.items = t.items
  BY DEF TakenOff, Tidy, Things
<1>3. t.worn \in [Slots -> ItemIds \cup {Nothing}] /\ OneHand(t)
  BY DEF Tidy, Things
<1> HIDE DEF r
<1>4. r.worn[s] = Nothing /\ \A u \in Slots \ {s} : r.worn[u] = t.worn[u]
  BY <1>2, <1>3
<1>5. OneHand(r)
  BY <1>3, <1>4 DEF OneHand, Slots
<1> QED  BY <1>1, <1>2, <1>4, <1>5 DEF r, Tidy

LEMMA EquipTidy ==
  ASSUME NEW t \in Tidy, NEW s \in Slots, NEW id \in ItemIds
  PROVE  Equip(t, s, id) \in Tidy
<1>1. CASE HasItem(t, id) /\ CanHold(t, s)
  <2> DEFINE r == RemoveItem(t, id)
  <2>1. r \in Tidy /\ r.worn = t.worn
    BY ItemMoves DEF RemoveItem, Tidy, Things
  <2>2. Equip(t, s, id) = [r EXCEPT !.worn[s] = id]
    BY <1>1 DEF Equip
  <2> HIDE DEF r
  <2>3. s = "weapon" => r.worn["staff"] = Nothing
    BY <1>1, <2>1 DEF CanHold
  <2>4. s = "staff" => r.worn["weapon"] = Nothing
    BY <1>1, <2>1 DEF CanHold
  <2>5. [r EXCEPT !.worn[s] = id] \in Things
    BY <2>1 DEF Tidy, Things
  <2>6. OneHand([r EXCEPT !.worn[s] = id])
    BY <2>1, <2>3, <2>4 DEF Tidy, Things, OneHand, Slots
  <2> QED  BY <2>2, <2>5, <2>6 DEF Tidy
<1>2. CASE ~(HasItem(t, id) /\ CanHold(t, s))
  BY <1>2 DEF Equip
<1> QED  BY <1>1, <1>2

LEMMA ExchangedTidy ==
  ASSUME NEW t \in Tidy, NEW id \in ItemIds \ Consumables
  PROVE  Exchanged(t, id) \in Tidy
<1> DEFINE s == SlotOf(id)
           w == InTheWay(t, s)
           e == Equip(TakenOff(t, w), s, id)
<1>1. s \in Slots
  <2>1. id \in Shields \cup Helmets \cup Armours \cup Weapons \cup Sticks
    BY DEF ItemIds, Consumables, Shields, Helmets, Armours, Weapons, Sticks
  <2>2. \E u \in Slots : id \in OfKind[u]
    BY <2>1 DEF Slots, OfKind
  <2> QED  BY <2>2 DEF SlotOf
<1>2. w \in Slots
  BY <1>1 DEF InTheWay, Slots
<1> HIDE DEF s, w
<1>3. e \in Tidy
  BY <1>1, <1>2, TakenOffTidy, EquipTidy
<1>4. t.worn[w] \in ItemIds \cup {Nothing}
  BY <1>2 DEF Tidy, Things
<1>5. Put(e, t.worn[w]) \in Tidy
  <2> HIDE DEF e
  <2> QED  BY <1>3, <1>4, ItemMoves DEF Put
<1> QED  BY <1>5 DEF Exchanged, s, w

\* What is worn instead leaves the inventory before what was worn comes into it.
LEMMA ExchangedFits ==
  ASSUME NEW t \in Tidy, Roomy(t), NEW id \in ItemIds \ Consumables, HasItem(t, id)
  PROVE  Roomy(Exchanged(t, id))
<1> DEFINE s == SlotOf(id)
           w == InTheWay(t, s)
           o == TakenOff(t, w)
           e == Equip(o, s, id)
<1>1. s \in Slots
  <2>1. id \in Shields \cup Helmets \cup Armours \cup Weapons \cup Sticks
    BY DEF ItemIds, Consumables, Shields, Helmets, Armours, Weapons, Sticks
  <2>2. \E u \in Slots : id \in OfKind[u]
    BY <2>1 DEF Slots, OfKind
  <2> QED  BY <2>2 DEF SlotOf
<1> HIDE DEF s
<1>2. w \in Slots /\ t.worn[w] \in ItemIds \cup {Nothing} /\ OneHand(t)
  BY <1>1 DEF InTheWay, Slots, Tidy, Things
<1>3. /\ o \in Tidy /\ o.worn[w] = Nothing /\ \A u \in Slots \ {w} : o.worn[u] = t.worn[u]
      /\ o.items = t.items /\ o.bank = t.bank
  <2>1. TakenOff(t, w).bank = t.bank
    BY DEF TakenOff, Tidy, Things
  <2> QED  BY <1>2, <2>1, TakenOffTidy
<1>4. CanHold(o, s)
  <2> HIDE DEF o
  <2>1. {"weapon", "staff"} \subseteq Slots
    BY DEF Slots
  <2>2. CASE s \in {"weapon", "staff"} /\ t.worn["staff"] # Nothing
    <3>1. w = "staff" /\ t.worn["weapon"] = Nothing
      BY <1>2, <2>2 DEF InTheWay, OneHand
    <3>2. o.worn["staff"] = Nothing /\ o.worn["weapon"] = Nothing
      <4> HIDE DEF w
      <4> QED  BY <1>3, <2>1, <3>1
    <3> QED  BY <3>2 DEF CanHold
  <2>3. CASE s \in {"weapon", "staff"} /\ t.worn["staff"] = Nothing
    <3>1. w = "weapon"
      BY <2>3 DEF InTheWay
    <3>2. o.worn["staff"] = Nothing /\ o.worn["weapon"] = Nothing
      <4> HIDE DEF w
      <4> QED  BY <1>3, <2>1, <2>3, <3>1
    <3> QED  BY <3>2 DEF CanHold
  <2>4. CASE s \notin {"weapon", "staff"}
    BY <2>4 DEF CanHold
  <2> QED  BY <2>2, <2>3, <2>4
<1>5. e = [RemoveItem(o, id) EXCEPT !.worn[s] = id]
  BY <1>3, <1>4 DEF Equip, HasItem
<1>6. Len(RemoveItem(o, id).items) = Len(t.items) - 1 /\ RemoveItem(o, id).bank = t.bank
      /\ RemoveItem(o, id) \in Tidy
  <2> HIDE DEF o
  <2>1. HasItem(o, id)
    BY <1>3 DEF HasItem
  <2> QED  BY <1>3, <2>1, ItemLengths, ItemMoves
<1>7. e.items = RemoveItem(o, id).items /\ e.bank = RemoveItem(o, id).bank /\ e \in Tidy
  <2> HIDE DEF o
  <2>1. ASSUME NEW x \in Tidy
        PROVE  [x EXCEPT !.worn[s] = id].items = x.items /\ [x EXCEPT !.worn[s] = id].bank = x.bank
    BY <1>1 DEF Tidy, Things
  <2> QED  BY <1>1, <1>3, <1>5, <1>6, <2>1, EquipTidy
<1> HIDE DEF e, o, w
<1>8. Len(Put(e, t.worn[w]).items) \in {Len(e.items), Len(e.items) + 1}
      /\ Put(e, t.worn[w]).bank = e.bank
  BY <1>2, <1>7, ItemLengths DEF Put
<1>9. Exchanged(t, id) = Put(e, t.worn[w])
  BY DEF Exchanged, e, o, w, s
<1>10. Len(t.items) \in Nat /\ InventorySize \in Nat
  BY ItemLengths, ThingsAssumption
<1> QED  BY <1>6, <1>7, <1>8, <1>9, <1>10 DEF Roomy

LEMMA UnequippedTidy ==
  ASSUME NEW t \in Tidy, NEW id \in ItemIds, IsWorn(t, id)
  PROVE  Unequipped(t, id) \in Tidy
<1>1. (CHOOSE s \in Slots : t.worn[s] = id) \in Slots
  BY DEF IsWorn
<1> QED  BY <1>1, TakenOffTidy, ItemMoves DEF Unequipped

LEMMA KitType == ASSUME NEW c \in Classes PROVE KitOf[c] \in Seq(ItemIds)
<1>1. c \in {"mage", "paladin", "cleric", "warrior"}
  BY LifeAssumption DEF KitOf
<1>2. /\ <<16, 8, 5>> \in Seq(ItemIds) /\ <<2, 4, 7, 11>> \in Seq(ItemIds)
      /\ <<1, 8, 16>> \in Seq(ItemIds) /\ <<1, 3, 6, 12>> \in Seq(ItemIds)
  BY DEF ItemIds
<1>3. /\ KitOf["mage"] = <<16, 8, 5>> /\ KitOf["paladin"] = <<2, 4, 7, 11>>
      /\ KitOf["cleric"] = <<1, 8, 16>> /\ KitOf["warrior"] = <<1, 3, 6, 12>>
  BY DEF KitOf
<1> QED  BY <1>1, <1>2, <1>3

LEMMA NewTidy ==
  ASSUME NEW c \in Classes, NEW n \in Nat
  PROVE  NewThings(c, n) \in Tidy
<1>1. Empty(n) \in Tidy
  BY DEF Empty, Tidy, Things, OneHand, Nothing, Slots
<1>2. KitOf[c] \in Seq(ItemIds)
  BY KitType
<1>3. Reverse(KitOf[c]) \in Seq(ItemIds)
  BY <1>2 DEF Reverse
<1> QED  BY <1>1, <1>3, OtherItems DEF NewThings

\* An item that goes through an empty inventory is worn again, and leaves it empty.
LEMMA WornAgainIs ==
  ASSUME NEW t \in Things, t.items = <<>>, NEW s \in Slots, t.worn[s] = Nothing,
         NEW id \in ItemIds \cup {Nothing}, id # Nothing => CanHold(t, s)
  PROVE  WornAgain(t, s, id) = [t EXCEPT !.worn[s] = id]
<1>1. CASE id = Nothing
  <2>1. [t EXCEPT !.worn[s] = Nothing] = t
    BY FieldTypes DEF Things
  <2> QED  BY <1>1, <2>1 DEF WornAgain
<1>2. CASE id # Nothing
  <2> DEFINE a == AddItem(t, id)
  <2>1. a = [t EXCEPT !.items = Cons(id, <<>>)] /\ a.items = Cons(id, <<>>) /\ a.worn = t.worn
    BY FieldTypes DEF AddItem
  <2>2. <<>> \in Seq(ItemIds) /\ id \in ItemIds
    BY <1>2
  <2>3. HasItem(a, id) /\ RemoveFirst(a.items, id) = <<>>
    BY <2>1, <2>2, RemovedFirst DEF HasItem
  <2>4. CanHold(a, s)
    BY <1>2, <2>1 DEF CanHold
  <2>5. RemoveItem(a, id) = t
    <3>1. RemoveItem(a, id) = [a EXCEPT !.items = <<>>]
      BY <2>3, FieldTypes DEF RemoveItem, AddItem
    <3>2. [a EXCEPT !.items = <<>>] = [t EXCEPT !.items = <<>>]
      BY <2>1, FieldTypes DEF Things
    <3>3. [t EXCEPT !.items = <<>>] = t
      BY FieldTypes DEF Things
    <3> QED  BY <3>1, <3>2, <3>3
  <2>6. WornAgain(t, s, id) = Equip(a, s, id)
    BY <1>2 DEF WornAgain, Nothing
  <2> HIDE DEF a
  <2>7. Equip(a, s, id) = [t EXCEPT !.worn[s] = id]
    BY <2>3, <2>4, <2>5 DEF Equip
  <2> QED  BY <2>6, <2>7
<1> QED  BY <1>1, <1>2

\* The slots of S worn again, the others still empty.
Wearing(w, gold, S) ==
  [worn |-> [s \in Slots |-> IF s \in S THEN w[s] ELSE Nothing], items |-> <<>>,
   bank |-> <<>>, gold |-> gold, banked |-> 0]

LEMMA OneMoreWorn ==
  ASSUME NEW w \in [Slots -> ItemIds \cup {Nothing}], NEW gold \in Nat,
         w["staff"] = Nothing \/ w["weapon"] = Nothing,
         NEW S \in SUBSET Slots, NEW s \in Slots \ S
  PROVE  WornAgain(Wearing(w, gold, S), s, w[s]) = Wearing(w, gold, S \cup {s})
<1> DEFINE t == Wearing(w, gold, S)
<1>1. /\ t.items = <<>> /\ t.worn = [u \in Slots |-> IF u \in S THEN w[u] ELSE Nothing]
      /\ t.bank = <<>> /\ t.gold = gold /\ t.banked = 0
      /\ t.worn \in [Slots -> ItemIds \cup {Nothing}]
  BY DEF Wearing
<1>2. t \in Things
  BY <1>1 DEF Wearing, Things
<1>3. t.worn[s] = Nothing
  BY <1>1
<1>4. w[s] # Nothing => CanHold(t, s)
  BY <1>1 DEF CanHold, Slots
<1>5. WornAgain(t, s, w[s]) = [t EXCEPT !.worn[s] = w[s]]
  <2> HIDE DEF t
  <2>1. w[s] \in ItemIds \cup {Nothing}
    OBVIOUS
  <2> QED  BY <2>1, <1>1, <1>2, <1>3, <1>4, WornAgainIs
<1>6. [t.worn EXCEPT ![s] = w[s]] = [u \in Slots |-> IF u \in S \cup {s} THEN w[u] ELSE Nothing]
  BY <1>1
<1>7. [t EXCEPT !.worn[s] = w[s]] = Wearing(w, gold, S \cup {s})
  <2> HIDE DEF t
  <2>1. [t EXCEPT !.worn[s] = w[s]]
          = [worn |-> [t.worn EXCEPT ![s] = w[s]], items |-> t.items, bank |-> t.bank,
             gold |-> t.gold, banked |-> t.banked]
    BY <1>2, OtherWorn
  <2> QED  BY <1>1, <1>6, <2>1 DEF Wearing
<1> QED  BY <1>5, <1>7

LEMMA DeserializedWornIs ==
  ASSUME NEW r, r.worn \in [Slots -> ItemIds \cup {Nothing}], r.gold \in Nat,
         r.worn["staff"] = Nothing \/ r.worn["weapon"] = Nothing
  PROVE  DeserializedWorn(r) = [Empty(r.gold) EXCEPT !.worn = r.worn]
<1> DEFINE wearing(S) == Wearing(r.worn, r.gold, S)
           again(t, s) == WornAgain(t, s, r.worn[s])
<1>1. Empty(r.gold) = wearing({})
  BY DEF Empty, Wearing
<1>2. ASSUME NEW S \in SUBSET Slots, NEW s \in Slots \ S
      PROVE  again(wearing(S), s) = wearing(S \cup {s})
  BY OneMoreWorn
<1> HIDE DEF wearing, again
<1>3. /\ again(wearing({}), "helmet") = wearing({"helmet"})
      /\ again(wearing({"helmet"}), "armour") = wearing({"helmet", "armour"})
      /\ again(wearing({"helmet", "armour"}), "shield") = wearing({"helmet", "armour", "shield"})
      /\ again(wearing({"helmet", "armour", "shield"}), "staff")
           = wearing({"helmet", "armour", "shield", "staff"})
      /\ again(wearing({"helmet", "armour", "shield", "staff"}), "weapon") = wearing(Slots)
  <2>1. again(wearing({}), "helmet") = wearing({} \cup {"helmet"})
    BY <1>2 DEF Slots
  <2>2. again(wearing({"helmet"}), "armour") = wearing({"helmet"} \cup {"armour"})
    BY <1>2 DEF Slots
  <2>3. again(wearing({"helmet", "armour"}), "shield")
          = wearing({"helmet", "armour"} \cup {"shield"})
    BY <1>2 DEF Slots
  <2>4. again(wearing({"helmet", "armour", "shield"}), "staff")
          = wearing({"helmet", "armour", "shield"} \cup {"staff"})
    BY <1>2 DEF Slots
  <2>5. again(wearing({"helmet", "armour", "shield", "staff"}), "weapon")
          = wearing({"helmet", "armour", "shield", "staff"} \cup {"weapon"})
    BY <1>2 DEF Slots
  <2>6. /\ {} \cup {"helmet"} = {"helmet"} /\ {"helmet"} \cup {"armour"} = {"helmet", "armour"}
        /\ {"helmet", "armour"} \cup {"shield"} = {"helmet", "armour", "shield"}
        /\ {"helmet", "armour", "shield"} \cup {"staff"} = {"helmet", "armour", "shield", "staff"}
        /\ {"helmet", "armour", "shield", "staff"} \cup {"weapon"} = Slots
    BY DEF Slots
  <2> QED  BY <2>1, <2>2, <2>3, <2>4, <2>5, <2>6
<1>4. DeserializedWorn(r)
        = again(again(again(again(again(Empty(r.gold), "helmet"), "armour"), "shield"),
                      "staff"), "weapon")
  BY DEF DeserializedWorn, again
<1>5. DeserializedWorn(r) = wearing(Slots)
  BY <1>1, <1>3, <1>4
<1>6. [s \in Slots |-> IF s \in Slots THEN r.worn[s] ELSE Nothing] = r.worn
  OBVIOUS
<1> QED  BY <1>5, <1>6 DEF wearing, Wearing, Empty

\* In the other order, and as many of each.
LEMMA ReversedBag ==
  ASSUME NEW q \in Seq(ItemIds)
  PROVE  Reverse(q) \in Seq(ItemIds) /\ ToBag(Reverse(q)) = ToBag(q)
<1> DEFINE n == Len(q)
           r == Reverse(q)
           At(p, x) == {i \in DOMAIN p : p[i] = x}
<1>1. /\ n \in Nat /\ DOMAIN q = 1 .. n /\ q \in [1 .. n -> ItemIds]
      /\ DOMAIN r = 1 .. n /\ r \in [1 .. n -> ItemIds] /\ r \in Seq(ItemIds)
      /\ \A i \in 1 .. n : r[i] = q[(n - i) + 1]
  BY DEF Reverse
<1> HIDE DEF n, r
<1>2. \A i \in 1 .. n : (n - i) + 1 \in 1 .. n /\ q[i] = r[(n - i) + 1]
  BY <1>1
<1>3. Range(r) = Range(q)
  BY <1>1, <1>2 DEF Range
<1>4. ASSUME NEW x
      PROVE  Cardinality(At(r, x)) = Cardinality(At(q, x))
  <2> DEFINE f == [i \in At(q, x) |-> (n - i) + 1]
  <2>1. At(q, x) \subseteq 1 .. n /\ IsFiniteSet(At(q, x))
    BY <1>1, FS_Interval, FS_Subset
  <2>2. \A i \in At(q, x) : (n - i) + 1 \in At(r, x)
    BY <1>1, <1>2, <2>1
  <2>3. \A j \in At(r, x) : (n - j) + 1 \in At(q, x) /\ j = (n - ((n - j) + 1)) + 1
    BY <1>1, <1>2
  <2>4. f \in [At(q, x) -> At(r, x)]
    BY <2>2
  <2>5. \A i, j \in At(q, x) : (n - i) + 1 = (n - j) + 1 => i = j
    BY <1>1, <2>1
  <2>6. f \in Bijection(At(q, x), At(r, x))
    <3> HIDE DEF At
    <3>1. f \in Injection(At(q, x), At(r, x))
      BY <2>4, <2>5 DEF Injection, IsInjective
    <3>2. f \in Surjection(At(q, x), At(r, x))
      BY <2>3, <2>4 DEF Surjection
    <3> QED  BY <3>1, <3>2 DEF Bijection
  <2>7. ExistsBijection(At(q, x), At(r, x))
    BY <2>6 DEF ExistsBijection
  <2> QED  BY <2>1, <2>7, FS_Bijection
<1>5. ToBag(r) = [x \in Range(r) |-> Cardinality(At(r, x))]
      /\ ToBag(q) = [x \in Range(q) |-> Cardinality(At(q, x))]
  BY DEF ToBag
<1>6. ToBag(r) = ToBag(q)
  <2> HIDE DEF At
  <2> QED  BY <1>3, <1>4, <1>5
<1> QED  BY <1>1, <1>6 DEF r

\* What is written and read back.
LEMMA ReadBack ==
  ASSUME NEW t \in Tidy
  PROVE  DeserializedThings(SerializedThings(t))
           = [worn |-> t.worn, items |-> Reverse(t.items), bank |-> Reverse(t.bank),
              gold |-> t.gold % RecordLimit, banked |-> t.banked % RecordLimit]
<1> DEFINE r == SerializedThings(t)
<1>1. /\ t.worn \in [Slots -> ItemIds \cup {Nothing}] /\ t.items \in Seq(ItemIds)
      /\ t.bank \in Seq(ItemIds) /\ t.gold \in Nat /\ t.banked \in Nat /\ OneHand(t)
  BY FieldTypes DEF Tidy
<1>2. /\ r.worn = t.worn /\ r.items = t.items /\ r.bank = t.bank
      /\ r.gold = t.gold % RecordLimit /\ r.banked = t.banked % RecordLimit
  BY DEF SerializedThings
<1>3. r.gold \in Nat /\ r.banked \in Nat
  <2>1. RecordLimit \in Nat \ {0}
    BY ThingsAssumption
  <2>2. \A n \in Nat : n % RecordLimit \in Nat
    BY <2>1
  <2> QED  BY <1>1, <1>2, <2>2
<1> HIDE DEF r
<1>4. DeserializedWorn(r) = [Empty(r.gold) EXCEPT !.worn = t.worn]
  BY <1>1, <1>2, <1>3, DeserializedWornIs DEF OneHand
<1>5. DeserializedThings(r)
        = [DeserializedWorn(r) EXCEPT !.items = Reverse(t.items) \o @,
                                      !.bank = Reverse(t.bank) \o @, !.banked = @ + r.banked]
  BY <1>2 DEF DeserializedThings
<1>6. Reverse(t.items) \in Seq(ItemIds) /\ Reverse(t.bank) \in Seq(ItemIds)
  BY <1>1, ReversedBag
<1>7. /\ Reverse(t.items) \o <<>> = Reverse(t.items) /\ Reverse(t.bank) \o <<>> = Reverse(t.bank)
      /\ 0 + r.banked = r.banked
  BY <1>3, <1>6
<1>8. DeserializedThings(r)
        = [worn |-> t.worn, items |-> Reverse(t.items) \o <<>>, bank |-> Reverse(t.bank) \o <<>>,
           gold |-> r.gold, banked |-> 0 + r.banked]
  BY <1>4, <1>5 DEF Empty
<1> QED  BY <1>2, <1>7, <1>8 DEF r

LEMMA BuiltTidy ==
  ASSUME NEW t \in Tidy
  PROVE  DeserializedThings(SerializedThings(t)) \in Tidy
<1>1. /\ t.worn \in [Slots -> ItemIds \cup {Nothing}] /\ t.items \in Seq(ItemIds)
      /\ t.bank \in Seq(ItemIds) /\ t.gold \in Nat /\ t.banked \in Nat /\ OneHand(t)
  BY FieldTypes DEF Tidy
<1>2. t.gold % RecordLimit \in Nat /\ t.banked % RecordLimit \in Nat
  <2>1. RecordLimit \in Nat \ {0}
    BY ThingsAssumption
  <2>2. \A n \in Nat : n % RecordLimit \in Nat
    BY <2>1
  <2> QED  BY <1>1, <2>2
<1>3. Reverse(t.items) \in Seq(ItemIds) /\ Reverse(t.bank) \in Seq(ItemIds)
  BY <1>1, ReversedBag
<1> QED  BY <1>1, <1>2, <1>3, ReadBack DEF Tidy, Things, OneHand

\* What had room finds room again, on the way and at the end.
LEMMA BuiltRoomy ==
  ASSUME NEW t \in Tidy, Roomy(t)
  PROVE  Roomy(DeserializedThings(SerializedThings(t))) /\ FitsOnTheWay(SerializedThings(t))
<1>1. t.items \in Seq(ItemIds) /\ t.bank \in Seq(ItemIds)
  BY DEF Tidy, Things
<1>2. Len(Reverse(t.items)) = Len(t.items) /\ Len(Reverse(t.bank)) = Len(t.bank)
  BY <1>1 DEF Reverse
<1>3. /\ DeserializedThings(SerializedThings(t)).items = Reverse(t.items)
      /\ DeserializedThings(SerializedThings(t)).bank = Reverse(t.bank)
  BY ReadBack
<1>4. SerializedThings(t).bank = t.bank /\ InventorySize >= 1
  BY ThingsAssumption DEF SerializedThings
<1> QED  BY <1>2, <1>3, <1>4 DEF Roomy, FitsOnTheWay

LEMMA RecordGivesBack ==
  ASSUME NEW t \in Tidy
  PROVE  LET u == DeserializedThings(SerializedThings(t))
         IN SameThings(t, u) /\ Kept(t.gold, u.gold) /\ Kept(t.banked, u.banked)
<1>1. t.items \in Seq(ItemIds) /\ t.bank \in Seq(ItemIds) /\ t.gold \in Nat /\ t.banked \in Nat
  BY FieldTypes DEF Tidy
<1>2. Kept(t.gold, t.gold % RecordLimit) /\ Kept(t.banked, t.banked % RecordLimit)
  BY <1>1, CutToField DEF Kept
<1>3. ToBag(Reverse(t.items)) = ToBag(t.items) /\ ToBag(Reverse(t.bank)) = ToBag(t.bank)
  BY <1>1, ReversedBag
<1> QED  BY <1>2, <1>3, ReadBack DEF SameThings

-----------------------------------------------------------------------------

\* What a hero carries, and what the record holds of it while it is away.
CarryInv ==
  /\ things \in Tidy /\ Roomy(things)
  /\ ~playing => record.things = SerializedThings(things)

LEMMA InitCarry == LifeInit => CarryInv
<1>1. ASSUME NEW c \in Classes PROVE Roomy(NewThings(c, NewGold))
  <2>1. KitOf[c] \in Seq(ItemIds)
    BY KitType
  <2>2. Len(Reverse(KitOf[c])) = Len(KitOf[c])
    BY <2>1 DEF Reverse
  <2>3. /\ NewThings(c, NewGold).items = Reverse(KitOf[c])
        /\ NewThings(c, NewGold).bank = <<>>
    BY DEF NewThings, Empty
  <2>4. Len(KitOf[c]) <= InventorySize /\ Len(<<>>) <= BankSize
    BY LifeAssumption, ThingsAssumption
  <2> QED  BY <2>2, <2>3, <2>4 DEF Roomy
<1> QED  BY <1>1, NewTidy, LifeAssumption DEF LifeInit, CarryInv

LEMMA PriceType == ASSUME NEW id \in ItemIds PROVE Price(id) \in Nat
BY ThingsAssumption DEF Price

\* Only the living change what they carry, the dead drop it, and nobody while away.
LEMMA CarryTidy == ASSUME things \in Tidy, level \in Levels, Carry PROVE things' \in Tidy
<1>0. things.gold \in Nat /\ things.banked \in Nat
  BY FieldTypes DEF Tidy
<1>1. ASSUME NEW id \in ItemIds, Wear(id)
      PROVE  things' \in Tidy
  <2>1. id \in ItemIds \ Consumables
    BY <1>1, LifeAssumption DEF Wear
  <2>2. things' = Exchanged(things, id)
    BY <1>1 DEF Wear, Handle
  <2> QED  BY <2>1, <2>2, ExchangedTidy
<1>2. ASSUME NEW id \in ItemIds, Unequip(id)
      PROVE  things' \in Tidy
  BY <1>2, UnequippedTidy DEF Unequip, Handle
<1>3. ASSUME NEW id \in ItemIds, BankItem(id) \/ UnbankItem(id)
      PROVE  things' \in Tidy
  <2>1. RemoveItem(things, id) \in Tidy /\ RemoveFromBank(things, id) \in Tidy
    BY ItemMoves
  <2>2. AddToBank(RemoveItem(things, id), id) \in Tidy
    BY <2>1, ItemMoves
  <2>3. AddItem(RemoveFromBank(things, id), id) \in Tidy
    BY <2>1, ItemMoves
  <2> QED  BY <1>3, <2>2, <2>3 DEF BankItem, UnbankItem, Handle
<1>4. ASSUME NEW id \in Known, PickUp(id) \/ Drop(id) \/ BuyItem(id) \/ SellItem(id)
      PROVE  things' \in Tidy
  <2>1. id \in ItemIds
    BY LifeAssumption
  <2>2. /\ AddItem(things, id) \in Tidy /\ RemoveItem(things, id) \in Tidy
        /\ AddItem(things, id).gold = things.gold /\ RemoveItem(things, id).gold = things.gold
    BY <2>1, ItemMoves, FieldTypes DEF AddItem, RemoveItem
  <2>3. Price(id) <= things.gold => things.gold - Price(id) \in Nat
    BY <1>0, <2>1, PriceType
  <2>4. things.gold + Price(id) \in Nat
    BY <1>0, <2>1, PriceType
  <2>5. CASE BuyItem(id)
    <3>1. things' = [AddItem(things, id) EXCEPT !.gold = @ - Price(id)] /\ Price(id) <= things.gold
      BY <2>5 DEF BuyItem, Handle
    <3>2. [AddItem(things, id) EXCEPT !.gold = things.gold - Price(id)] \in Tidy
      BY <2>2, <2>3, <3>1, OtherGold
    <3> QED  BY <2>2, <3>1, <3>2
  <2>6. CASE SellItem(id)
    <3>1. things' = [RemoveItem(things, id) EXCEPT !.gold = @ + Price(id)]
      BY <2>6 DEF SellItem, Handle
    <3>2. [RemoveItem(things, id) EXCEPT !.gold = things.gold + Price(id)] \in Tidy
      BY <2>2, <2>4, OtherGold
    <3> QED  BY <2>2, <3>1, <3>2
  <2>7. CASE PickUp(id) \/ Drop(id)
    BY <2>2, <2>7 DEF PickUp, Drop, Handle
  <2> QED  BY <1>4, <2>5, <2>6, <2>7
<1>5. ASSUME NEW coins \in Coins, BankGold(coins) \/ UnbankGold(coins) \/ PickUpGold(coins)
      PROVE  things' \in Tidy
  <2>1. coins \in Nat
    BY LifeAssumption
  <2>2. ASSUME NEW m \in Nat, NEW n \in Nat
        PROVE  [things EXCEPT !.gold = m, !.banked = n] \in Tidy
    BY DEF Tidy, Things, OneHand
  <2>3. CASE BankGold(coins)
    <3>1. coins <= things.gold
          /\ things' = [things EXCEPT !.gold = things.gold - coins, !.banked = things.banked + coins]
      BY <2>3 DEF BankGold, Handle
    <3>2. things.gold - coins \in Nat /\ things.banked + coins \in Nat
      BY <1>0, <2>1, <3>1
    <3> QED  BY <2>2, <3>1, <3>2
  <2>4. CASE UnbankGold(coins)
    <3>1. coins <= things.banked
          /\ things' = [things EXCEPT !.gold = things.gold + coins, !.banked = things.banked - coins]
      BY <2>4 DEF UnbankGold, Handle
    <3>2. things.gold + coins \in Nat /\ things.banked - coins \in Nat
      BY <1>0, <2>1, <3>1
    <3> QED  BY <2>2, <3>1, <3>2
  <2>5. CASE PickUpGold(coins)
    <3>1. things' = [things EXCEPT !.gold = things.gold + Least(coins, GoldSpace)]
      BY <2>5 DEF PickUpGold
    <3>2. MaxSafe[level] \in Nat /\ UIntLimit \in Nat \ {0}
      BY LifeAssumption
    <3>3. GoldSpace \in Nat
      BY <1>0, <3>2 DEF GoldSpace
    <3>4. things.gold + Least(coins, GoldSpace) \in Nat
      BY <1>0, <2>1, <3>3 DEF Least
    <3> QED  BY <3>1, <3>4, OtherGold
  <2> QED  BY <1>5, <2>3, <2>4, <2>5
<1>6. CASE LeaveDrop
  <2>1. things' = [things EXCEPT !.items = <<>>, !.gold = Least(things.gold, MaxSafe[level])]
    BY <1>6 DEF LeaveDrop
  <2>2. Least(things.gold, MaxSafe[level]) \in Nat
    BY <1>0, LifeAssumption DEF Least
  <2>3. ASSUME NEW n \in Nat
        PROVE  [things EXCEPT !.items = <<>>, !.gold = n] \in Tidy
    <3>1. <<>> \in Seq(ItemIds)
      OBVIOUS
    <3> QED  BY <3>1 DEF Tidy, Things, OneHand
  <2> QED  BY <2>1, <2>2, <2>3
<1> QED  BY <1>1, <1>2, <1>3, <1>4, <1>5, <1>6 DEF Carry

\* Every command that adds an item asks for room, or takes one away first.
LEMMA CarryRoomy == ASSUME things \in Tidy, Roomy(things), Carry PROVE Roomy(things')
<1>0. /\ Len(things.items) \in Nat /\ Len(things.bank) \in Nat
      /\ InventorySize \in Nat /\ BankSize \in Nat
      /\ Len(things.items) <= InventorySize /\ Len(things.bank) <= BankSize
  BY ItemLengths, ThingsAssumption DEF Roomy, Tidy, Things
<1>1. ASSUME NEW id \in ItemIds, Wear(id) PROVE Roomy(things')
  <2>1. id \in ItemIds \ Consumables /\ HasItem(things, id) /\ things' = Exchanged(things, id)
    BY <1>1, LifeAssumption DEF Wear, Handle
  <2> QED  BY <2>1, ExchangedFits
<1>2. ASSUME NEW id \in ItemIds, Unequip(id) PROVE Roomy(things')
  <2> DEFINE s == CHOOSE s \in Slots : things.worn[s] = id
             o == TakenOff(things, s)
  <2>1. Len(things.items) # InventorySize /\ s \in Slots /\ things' = AddItem(o, id)
    BY <1>2 DEF Unequip, IsFull, IsWorn, Handle, Unequipped
  <2> HIDE DEF s
  <2>2. o \in Tidy /\ o.items = things.items
    BY <2>1, TakenOffTidy
  <2>3. o.bank = things.bank
    BY <2>1 DEF TakenOff, Tidy, Things
  <2> HIDE DEF o
  <2>4. Len(things'.items) = Len(things.items) + 1 /\ things'.bank = things.bank
    BY <2>1, <2>2, <2>3, ItemLengths
  <2> QED  BY <1>0, <2>1, <2>4 DEF Roomy
<1>3. ASSUME NEW id \in ItemIds, BankItem(id) PROVE Roomy(things')
  <2> DEFINE o == RemoveItem(things, id)
  <2>1. Len(things.bank) # BankSize /\ HasItem(things, id) /\ things' = AddToBank(o, id)
    BY <1>3 DEF BankItem, BankIsFull, Handle
  <2>2. o \in Tidy /\ Len(o.items) = Len(things.items) - 1 /\ o.bank = things.bank
    BY <2>1, ItemMoves, ItemLengths
  <2> HIDE DEF o
  <2>3. things'.items = o.items /\ Len(things'.bank) = Len(things.bank) + 1
    BY <2>1, <2>2, ItemLengths
  <2> QED  BY <1>0, <2>1, <2>2, <2>3 DEF Roomy
<1>4. ASSUME NEW id \in ItemIds, UnbankItem(id) PROVE Roomy(things')
  <2> DEFINE o == RemoveFromBank(things, id)
  <2>1. /\ Len(things.items) # InventorySize /\ Contains(things.bank, id)
        /\ things' = AddItem(o, id)
    BY <1>4 DEF UnbankItem, IsFull, Handle
  <2>2. o \in Tidy /\ Len(o.bank) = Len(things.bank) - 1 /\ o.items = things.items
    BY <2>1, ItemMoves, ItemLengths
  <2> HIDE DEF o
  <2>3. things'.bank = o.bank /\ Len(things'.items) = Len(things.items) + 1
    BY <2>1, <2>2, ItemLengths
  <2> QED  BY <1>0, <2>1, <2>2, <2>3 DEF Roomy
<1>5. ASSUME NEW id \in Known, PickUp(id) \/ Drop(id) \/ BuyItem(id) \/ SellItem(id)
      PROVE  Roomy(things')
  <2>1. id \in ItemIds
    BY LifeAssumption
  <2>3. CASE PickUp(id) \/ BuyItem(id)
    <3> DEFINE x == AddItem(things, id)
    <3>1. /\ x \in Tidy /\ Len(x.items) = Len(things.items) + 1 /\ x.bank = things.bank
          /\ Len(things.items) # InventorySize
      BY <2>1, <2>3, ItemMoves, ItemLengths DEF PickUp, BuyItem, IsFull
    <3>2. things' = x \/ things' = [x EXCEPT !.gold = x.gold - Price(id)]
      BY <2>3 DEF PickUp, BuyItem, Handle
    <3> HIDE DEF x
    <3>3. things'.items = x.items /\ things'.bank = x.bank
      <4>1. CASE things' = x
        BY <4>1
      <4>2. CASE things' # x
        BY <3>1, <3>2, <4>2 DEF Tidy, Things
      <4> QED  BY <4>1, <4>2
    <3> QED  BY <1>0, <3>1, <3>3 DEF Roomy
  <2>4. CASE Drop(id) \/ SellItem(id)
    <3> DEFINE x == RemoveItem(things, id)
    <3>1. x \in Tidy /\ Roomy(x)
      BY <2>1, ItemMoves, RemovedRoomy
    <3>2. things' = x \/ things' = [x EXCEPT !.gold = x.gold + Price(id)]
      BY <2>4 DEF Drop, SellItem, Handle
    <3> HIDE DEF x
    <3>3. things'.items = x.items /\ things'.bank = x.bank
      <4>1. CASE things' = x
        BY <4>1
      <4>2. CASE things' # x
        BY <3>1, <3>2, <4>2 DEF Tidy, Things
      <4> QED  BY <4>1, <4>2
    <3> QED  BY <3>1, <3>3 DEF Roomy
  <2> QED  BY <1>5, <2>3, <2>4
<1>6. ASSUME NEW coins \in Coins, BankGold(coins) \/ UnbankGold(coins) \/ PickUpGold(coins)
      PROVE  Roomy(things')
  <2>1. CASE BankGold(coins)
    BY <2>1 DEF BankGold, Handle, Tidy, Things, Roomy
  <2>2. CASE UnbankGold(coins)
    BY <2>2 DEF UnbankGold, Handle, Tidy, Things, Roomy
  <2>3. CASE PickUpGold(coins)
    <3>1. things' = [things EXCEPT !.gold = things.gold + Least(coins, GoldSpace)]
      BY <2>3 DEF PickUpGold
    <3> QED  BY <3>1 DEF Tidy, Things, Roomy
  <2> QED  BY <1>6, <2>1, <2>2, <2>3
<1>7. CASE LeaveDrop
  <2>1. things'.items = <<>> /\ things'.bank = things.bank
    BY <1>7 DEF LeaveDrop, Tidy, Things
  <2> QED  BY <1>0, <2>1 DEF Roomy
<1> QED  BY <1>1, <1>2, <1>3, <1>4, <1>5, <1>6, <1>7 DEF Carry

LEMMA NextKeepsThings ==
  ASSUME LifeInv, CarryInv, [LifeNext]_lifeVars
  PROVE  CarryInv'
<1>1. level \in Levels
  BY DEF LifeInv, LifeType, PointsInLimits
<1>2. Rest \/ LevelUp => /\ playing'
                         /\ \/ things' = things
                            \/ \E id \in ItemIds : things' = RemoveItem(things, id)
  BY DEF Rest, Regenerate, Meditate, StopMeditating, Heal, Revive, DrinkPotion, LevelUp,
         Consumables, ItemIds
<1>3. Fight => playing' /\ things' = things
  BY DEF Fight, HeroAttack, ReceiveDamage, UpdateExperience
<1>4. ASSUME Rest \/ LevelUp \/ Fight
      PROVE  CarryInv'
  <2>1. playing' /\ (things' = things \/ \E id \in ItemIds : things' = RemoveItem(things, id))
    BY <1>2, <1>3, <1>4
  <2>2. ASSUME NEW id \in ItemIds
        PROVE  RemoveItem(things, id) \in Tidy /\ Roomy(RemoveItem(things, id))
    BY ItemMoves, RemovedRoomy DEF CarryInv
  <2> QED  BY <2>1, <2>2 DEF CarryInv
<1>5. CASE Carry
  BY <1>1, <1>5, CarryTidy, CarryRoomy, CarryPlays DEF CarryInv
<1>6. CASE Quit
  BY <1>6 DEF Quit, Serialized, CarryInv
<1>7. CASE Login
  <2>1. /\ playing' /\ record.things = SerializedThings(things)
        /\ things' = DeserializedThings(SerializedThings(things)) /\ things \in Tidy
        /\ Roomy(things)
    BY <1>7 DEF Login, CarryInv
  <2>2. Roomy(things')
    BY <2>1, BuiltRoomy
  <2> QED  BY <2>1, <2>2, BuiltTidy DEF CarryInv
<1>8. UNCHANGED lifeVars => CarryInv'
  BY DEF lifeVars, CarryInv
<1> QED  BY <1>4, <1>5, <1>6, <1>7, <1>8 DEF LifeNext

-----------------------------------------------------------------------------

\* The record tells of the hero that is away: its numbers, what it carries and how.
THEOREM RecordsAreKept == LifeSpec => [](LifeInv /\ XpInv /\ RecordIsExact /\ CarryInv)
<1>1. LifeInit => RecordIsExact /\ CarryInv
  BY InitCarry DEF LifeInit, RecordIsExact
<1>2. LifeInv /\ XpInv /\ RecordIsExact /\ CarryInv /\ [LifeNext]_lifeVars
      => RecordIsExact' /\ CarryInv'
  BY NextKeepsExact, NextKeepsThings
<1> QED  BY <1>1, <1>2, ExperienceInvariant, PTL DEF LifeSpec

\* A player finds its hero as it left it: no item finds the inventory full when the hero
\* is built anew (serializer.cpp:424, inventory.cpp:26), so that the server survives the
\* login; the same life, mana and level, dead or alive, the same items worn, and as many
\* of each in the inventory and in the bank; and of gold, experience and its limit
\* whatever fits the 16 bits of its field (serializer.cpp:138, :215).
THEOREM HeroesReturn == LifeSpec => ReturnsAsItLeft
<1> DEFINE Returns == /\ Quit => FitsOnTheWay(record'.things)
                      /\ Login => /\ UNCHANGED <<points, level, ghost_mode>>
                                  /\ Kept(experience, experience')
                                  /\ Kept(next_level_xp_limit, next_level_xp_limit')
                                  /\ Kept(things.gold, things'.gold)
                                  /\ Kept(things.banked, things'.banked)
                                  /\ SameThings(things, things')
           Inv == LifeInv /\ XpInv /\ RecordIsExact /\ CarryInv
<1>1. Inv /\ [LifeNext]_lifeVars => [Returns]_lifeVars
  <2>1. ASSUME Inv, Login
        PROVE  /\ Kept(things.gold, things'.gold) /\ Kept(things.banked, things'.banked)
               /\ SameThings(things, things')
    <3>1. things' = DeserializedThings(SerializedThings(things)) /\ things \in Tidy
      BY <2>1 DEF Login, CarryInv
    <3> QED  BY <3>1, RecordGivesBack
  <2>2. ASSUME Inv, Quit PROVE FitsOnTheWay(record'.things)
    <3>1. record'.things = SerializedThings(things) /\ things \in Tidy /\ Roomy(things)
      BY <2>2 DEF Quit, Serialized, CarryInv
    <3> QED  BY <3>1, BuiltRoomy
  <2> QED  BY <2>1, <2>2, LoginRestores
<1>2. LifeSpec => []Inv
  BY RecordsAreKept
<1> QED  BY <1>1, <1>2, PTL DEF ReturnsAsItLeft, LifeSpec

=============================================================================
