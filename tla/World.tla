-------------------------------- MODULE World --------------------------------
(***************************************************************************)
(* The map of one room and everything that moves on it.                    *)
(*                                                                         *)
(* Heroes, monsters and projectiles know their own position; the tiles     *)
(* know, separately, which entity stands on them and whether a projectile  *)
(* flies over them.  Commands, monsters, the heroes' own speed, the        *)
(* projectiles, the clean-up of the dead and the threads that bring heroes *)
(* in and take them out change both.                                       *)
(*                                                                         *)
(* update() holds the room's mutex from its commands to the removal of     *)
(* dead projectiles.  Its loops are taken entity by entity, in any order:  *)
(* the code takes them by increasing id.  A loop that is paced by a timer  *)
(* is due or not at each turn.  A blow kills or does not; how many points  *)
(* it costs is left to HeroLife.                                           *)
(***************************************************************************)
EXTENDS Integers, FiniteSets, Sequences

CONSTANTS Heroes, Monsters, Projectiles,   \* ids of the entities
          Rows, Cols,             \* size of the map
          Fixed,                  \* tiles of the second layer: trees, npcs
          SafeTiles,              \* tiles of the towns
          Priests,                \* positions of the priests of the map
          RespawnTiles,           \* tiles next to the priest of some room
          Speeds,                 \* steps of a move command
          Ranges,                 \* ranges of weapons
          MonstersPoblation,      \* monsters of a room
          AutoAttackDistance, AutoFollowDistance,
          Nobody, Elsewhere, Gone

Tiles == (0 .. Rows - 1) \X (0 .. Cols - 1)
Steps == {<<1, 0>>, <<-1, 0>>, <<0, 1>>, <<0, -1>>}

ASSUME WorldAssumption ==
  /\ Rows \in Nat /\ Cols \in Nat
  /\ Fixed \subseteq Tiles /\ SafeTiles \subseteq Tiles \ Fixed
  /\ Priests \subseteq Fixed /\ RespawnTiles \subseteq Tiles
  /\ Speeds \subseteq Steps \cup {<<0, 0>>}
  /\ Ranges \subseteq Nat
  /\ {MonstersPoblation, AutoAttackDistance, AutoFollowDistance} \subseteq Nat
  /\ Heroes \cap Monsters = {}
  /\ Nobody \notin Heroes \cup Monsters
  /\ {Elsewhere, Gone} \cap Tiles = {} /\ Elsewhere # Gone

VARIABLES
  phase,          \* where the room's thread is in run()
  pending,        \* entities a loop of update() has not come to
  entity_id,      \* Tile::entity_id
  has_projectile, \* tiles with has_projectile
  position,       \* x_position and y_position of heroes and monsters
  orientation,    \* of the heroes
  speed,          \* speed_x and speed_y of the heroes
  ghosts,         \* heroes in ghost_mode
  blocked,        \* heroes waiting to revive
  rested,         \* of them, those whose wait is over
  quitting,       \* heroes whose alive flag a Quit cleared
  slain,          \* monsters with alive == false
  projectiles     \* ArgentumGame::projectiles

tiles == <<entity_id, has_projectile>>
heroState == <<orientation, speed, ghosts, blocked, rested, quitting>>
vars == <<phase, pending, tiles, position, heroState, slain, projectiles>>

-----------------------------------------------------------------------------
(* State *)

Entities == Heroes \cup Monsters
Positions == (-1 .. Rows) \X (-1 .. Cols)   \* a projectile may leave the map

Projectile == [at : Positions, orientation : Steps, range : Nat, alive : BOOLEAN,
               collided : BOOLEAN, collided_entity : Entities \cup {Nobody},
               attacker : Heroes]

Phases == {"sleeping", "commands", "monsters", "respawn", "heroes",
           "projectiles", "removal", "burial"}

TypeOK ==
  /\ phase \in Phases
  /\ pending \subseteq Entities \cup Projectiles
  /\ entity_id \in [Tiles -> Entities \cup {Nobody}]
  /\ has_projectile \subseteq Tiles
  /\ position \in [Entities -> Tiles \cup {Elsewhere, Gone}]
  /\ orientation \in [Heroes -> Steps]
  /\ speed \in [Heroes -> Speeds \cup {<<0, 0>>}]
  /\ ghosts \subseteq Heroes /\ blocked \subseteq Heroes /\ rested \subseteq blocked
  /\ quitting \subseteq Heroes /\ slain \subseteq Monsters
  /\ DOMAIN projectiles \subseteq Projectiles
  /\ \A p \in DOMAIN projectiles : projectiles[p] \in Projectile

Init ==
  /\ phase = "sleeping" /\ pending = {}
  /\ entity_id = [t \in Tiles |-> Nobody]
  /\ has_projectile = {}
  /\ position = [e \in Entities |-> Elsewhere]
  /\ orientation = [h \in Heroes |-> <<1, 0>>]
  /\ speed = [h \in Heroes |-> <<0, 0>>]
  /\ ghosts = {} /\ blocked = {} /\ rested = {} /\ quitting = {} /\ slain = {}
  /\ projectiles = [p \in {} |-> {}]

-----------------------------------------------------------------------------
(* The map *)

Plus(t, d) == <<t[1] + d[1], t[2] + d[2]>>

CanOcupy(t) ==
  t \in Tiles \ Fixed /\ entity_id[t] = Nobody /\ t \notin has_projectile

FreeTiles == {t \in Tiles : CanOcupy(t)}

Here(e) == position[e] \in Tiles
HeroesHere == {h \in Heroes : Here(h)}
MonstersHere == {m \in Monsters : Here(m)}

\* Tile::empty_cell also forgets a projectile over the tile.
EmptyTile(t) ==
  /\ entity_id' = [entity_id EXCEPT ![t] = Nobody]
  /\ has_projectile' = has_projectile \ {t}

OcupyTile(e, t) ==
  /\ entity_id' = [entity_id EXCEPT ![t] = e]
  /\ UNCHANGED has_projectile

MoveKeepingTile(e, t) ==
  IF CanOcupy(t)
  THEN /\ entity_id' = [entity_id EXCEPT ![t] = e]
       /\ has_projectile' = has_projectile \ {position[e]}
       /\ position' = [position EXCEPT ![e] = t]
  ELSE UNCHANGED <<tiles, position>>

\* The entity goes to t if it can; the two tiles change with it.
MoveTo(e, t) ==
  IF CanOcupy(t)
  THEN /\ entity_id' = [entity_id EXCEPT ![t] = e, ![position[e]] = Nobody]
       /\ has_projectile' = has_projectile \ {position[e]}
       /\ position' = [position EXCEPT ![e] = t]
  ELSE UNCHANGED <<tiles, position>>

\* The rows are compared first.
Towards(t, u) ==
  IF u[1] # t[1] THEN <<IF u[1] > t[1] THEN 1 ELSE -1, 0>>
                 ELSE <<0, IF u[2] > t[2] THEN 1 ELSE -1>>

\* Whether it can go to t or not, the hero turns to it.
Facing(h, t) ==
  orientation' = IF t = position[h] THEN orientation
                 ELSE [orientation EXCEPT ![h] = Towards(position[h], t)]

Squared(t, u) == (t[1] - u[1]) * (t[1] - u[1]) + (t[2] - u[2]) * (t[2] - u[2])
NextTo(t, u) == Squared(t, u) = AutoAttackDistance * AutoAttackDistance
CloseTo(t, u) == Squared(t, u) <= AutoFollowDistance * AutoFollowDistance

\* Distances are compared as int.
Distance(t, u) ==
  CHOOSE n \in 0 .. Rows + Cols + 1 : n * n <= Squared(t, u) /\ Squared(t, u) < (n + 1) * (n + 1)

NpcClose(t, npcs) == \E d \in Steps : Plus(t, d) \in npcs

-----------------------------------------------------------------------------
(* Projectiles *)

Kill(p) == [p EXCEPT !.alive = FALSE]

\* What the projectile becomes when it reaches t.
Impact(p, t) ==
  IF t \in SafeTiles THEN Kill(p)
  ELSE IF CanOcupy(t) THEN [p EXCEPT !.at = t]
  ELSE IF t \in Tiles
       THEN [p EXCEPT !.collided = TRUE, !.collided_entity = entity_id[t]]
  ELSE p

\* The tiles marked once it has.
MarksAfter(p, t) ==
  IF t \in SafeTiles THEN has_projectile \ {p.at}
  ELSE IF CanOcupy(t) THEN (has_projectile \ {p.at}) \cup {t}
  ELSE has_projectile

Launched(h, range) ==
  [at |-> Plus(position[h], orientation[h]), orientation |-> orientation[h],
   range |-> range, alive |-> TRUE, collided |-> FALSE,
   collided_entity |-> Nobody, attacker |-> h]

\* (mutant) What flies outside the map is forgotten.
SpendOverTiles(p) == IF p.at \in Tiles THEN [p EXCEPT !.range = @ - 1] ELSE p

Spend(p) == [p EXCEPT !.range = @ - 1]

-----------------------------------------------------------------------------
(* Commands of the heroes *)

Commanded(h) ==
  /\ phase = "commands" /\ Here(h)
  /\ UNCHANGED <<phase, pending, slain>>

SetHeroSpeed(h, d) ==
  /\ Commanded(h)
  /\ h \notin blocked
  /\ speed' = [speed EXCEPT ![h] = d]
  /\ UNCHANGED <<tiles, position, orientation, ghosts, blocked, rested, quitting,
                 projectiles>>

\* The new projectile is at the next tile, or has hit what is there.
ThrowProjectile(h, range, id) ==
  /\ Commanded(h)
  /\ position[h] \notin SafeTiles
  /\ h \notin ghosts
  /\ range # 0
  /\ id \notin DOMAIN projectiles
  /\ LET p == Launched(h, range) IN
       /\ projectiles' = [i \in DOMAIN projectiles \cup {id} |->
                            IF i = id THEN Spend(Impact(p, p.at)) ELSE projectiles[i]]
       /\ has_projectile' = MarksAfter(p, p.at)
  /\ UNCHANGED <<entity_id, position, heroState>>

\* Next to a priest one lives at once, dead or not, and a wait goes on; elsewhere
\* only the dead wait, and one that waits already begins again.
HeroRevive(h) ==
  /\ Commanded(h)
  /\ \/ /\ NpcClose(position[h], Priests)
        /\ ghosts' = ghosts \ {h} /\ UNCHANGED <<blocked, rested>>
     \/ /\ ~NpcClose(position[h], Priests) /\ Priests # {}
        /\ h \in ghosts
        /\ blocked' = blocked \cup {h} /\ rested' = rested \ {h} /\ UNCHANGED ghosts
  /\ UNCHANGED <<tiles, position, orientation, speed, quitting, projectiles>>

KillPlayer(h) ==
  /\ Commanded(h)
  /\ quitting' = quitting \cup {h}
  /\ UNCHANGED <<tiles, position, orientation, speed, ghosts, blocked, rested,
                 projectiles>>

-----------------------------------------------------------------------------
(* The room's thread *)

\* A loop over the entities of S that a timer may hold back.
Turn(from, to, S) ==
  /\ phase = from /\ phase' = to
  /\ pending' \in {S, {}}

BeginUpdate ==
  /\ phase = "sleeping" /\ phase' = "commands"
  /\ UNCHANGED <<pending, tiles, position, heroState, slain, projectiles>>

EndCommands ==
  /\ Turn("commands", "monsters", MonstersHere)
  /\ UNCHANGED <<tiles, position, heroState, slain, projectiles>>

Visits(loop, e) ==
  /\ phase = loop /\ e \in pending /\ pending' = pending \ {e}
  /\ UNCHANGED phase

Living == HeroesHere \ ghosts

Attack(m, h) ==
  /\ NextTo(position[m], position[h])
  /\ ghosts' \in {ghosts, ghosts \cup {h}}
  /\ UNCHANGED <<tiles, position>>

\* Of the four tiles around, the first of the nearest to the hero.
Nearest(t, u) ==
  LET around == <<Plus(t, <<1, 0>>), Plus(t, <<-1, 0>>), Plus(t, <<0, 1>>), Plus(t, <<0, -1>>)>>
      best == CHOOSE i \in 1 .. 4 : \A j \in 1 .. 4 :
                 \/ Distance(around[i], u) < Distance(around[j], u)
                 \/ Distance(around[i], u) = Distance(around[j], u) /\ i <= j
  IN around[best]

TryToMoveTo(m, t) ==
  IF t \in SafeTiles THEN UNCHANGED <<tiles, position>> ELSE MoveTo(m, t)

MonsterActs(m) ==
  /\ Visits("monsters", m)
  /\ \/ \E h \in Living : Attack(m, h)
     \/ \E h \in Living :
          /\ ~NextTo(position[m], position[h]) /\ CloseTo(position[m], position[h])
          /\ TryToMoveTo(m, Nearest(position[m], position[h]))
          /\ UNCHANGED ghosts
     \/ /\ \A h \in Living : /\ ~NextTo(position[m], position[h])
                             /\ ~CloseTo(position[m], position[h])
        /\ \E d \in Steps : TryToMoveTo(m, Plus(position[m], d))
        /\ UNCHANGED ghosts
  /\ UNCHANGED <<orientation, speed, blocked, rested, quitting, slain, projectiles>>

EndMonsters ==
  /\ phase = "monsters" /\ pending = {} /\ phase' = "respawn"
  /\ UNCHANGED <<pending, tiles, position, heroState, slain, projectiles>>

\* A new monster stands on a free tile outside the towns; without one the
\* search does not end.
RespawnMonster(m) ==
  /\ phase = "respawn" /\ Cardinality(MonstersHere) < MonstersPoblation
  /\ ~Here(m)
  /\ \E t \in FreeTiles \ SafeTiles : OcupyTile(m, t) /\ position' = [position EXCEPT ![m] = t]
  /\ UNCHANGED <<phase, pending, heroState, slain, projectiles>>

EndRespawn ==
  /\ phase = "respawn" /\ Cardinality(MonstersHere) >= MonstersPoblation
  /\ phase' = "heroes" /\ pending' = HeroesHere
  /\ UNCHANGED <<tiles, position, heroState, slain, projectiles>>

\* (mutant) Only the respawn tile is tried, once at each turn.
UnblockOnlyThere(h) ==
  /\ phase = "heroes" /\ h \in pending /\ h \in rested
  /\ IF \E r \in RespawnTiles : CanOcupy(r)
     THEN /\ \E r \in RespawnTiles : CanOcupy(r) /\ MoveTo(h, r) /\ Facing(h, r)
          /\ ghosts' = ghosts \ {h} /\ blocked' = blocked \ {h} /\ rested' = rested \ {h}
     ELSE UNCHANGED <<tiles, position, orientation, ghosts, blocked, rested>>
  /\ UNCHANGED <<phase, pending, speed, quitting, slain, projectiles>>

\* The wait is over: the hero lives again on the respawn tile, or on the first
\* free one a random walk from it comes to.  Its turn goes on with its walk.
TryToUnblock(h) ==
  /\ phase = "heroes" /\ h \in pending /\ h \in rested
  /\ \E t \in FreeTiles, r \in RespawnTiles :
       /\ t = r \/ ~CanOcupy(r)
       /\ MoveTo(h, t) /\ Facing(h, t)
  /\ ghosts' = ghosts \ {h} /\ blocked' = blocked \ {h} /\ rested' = rested \ {h}
  /\ UNCHANGED <<phase, pending, speed, quitting, slain, projectiles>>

Walk(h) ==
  LET t == Plus(position[h], speed[h]) IN MoveTo(h, t) /\ Facing(h, t)

WalkAnyway(h) ==
  /\ Visits("heroes", h) /\ h \notin rested
  /\ Walk(h) \/ UNCHANGED <<tiles, position, orientation>>
  /\ UNCHANGED <<speed, ghosts, blocked, rested, quitting, slain, projectiles>>

\* Blocked heroes stay; for the others the time between two steps is over or not.
AutoMove(h) ==
  /\ Visits("heroes", h) /\ h \notin rested
  /\ \/ h \notin blocked /\ Walk(h)
     \/ UNCHANGED <<tiles, position, orientation>>
  /\ UNCHANGED <<speed, ghosts, blocked, rested, quitting, slain, projectiles>>

EndHeroes ==
  /\ pending = {}
  /\ Turn("heroes", "projectiles", DOMAIN projectiles)
  /\ UNCHANGED <<tiles, position, heroState, slain, projectiles>>

Flown(p) ==
  IF p.range = 0 THEN Kill(p)
  ELSE IF p.collided \/ ~p.alive THEN p
  ELSE LET q == Spend(Impact(p, Plus(p.at, p.orientation)))
       IN IF q.range = 0 THEN Kill(q) ELSE q

Flies(p) == p.range # 0 /\ ~p.collided /\ p.alive

\* Hit at most once: whoever was there, if both are still in the room.  A hero
\* may be spared because of its level; the dead are not hurt.
Hit(p) ==
  IF Here(p.attacker) /\ p.collided_entity \in HeroesHere \ ghosts
  THEN ghosts' \in {ghosts, ghosts \cup {p.collided_entity}} /\ UNCHANGED slain
  ELSE IF Here(p.attacker) /\ p.collided_entity \in MonstersHere \ slain
  THEN slain' \in {slain, slain \cup {p.collided_entity}} /\ UNCHANGED ghosts
  ELSE UNCHANGED <<ghosts, slain>>

ProjectileActs(i) ==
  /\ Visits("projectiles", i)
  /\ LET p == projectiles[i]
         q == Flown(p)
         marks == IF Flies(p) THEN MarksAfter(p, Plus(p.at, p.orientation))
                  ELSE has_projectile
     IN IF q.collided
        THEN /\ projectiles' = [projectiles EXCEPT ![i] = Kill(q)]
             /\ has_projectile' = marks \ {q.at}
             /\ Hit(q)
        ELSE /\ projectiles' = [projectiles EXCEPT ![i] = q]
             /\ has_projectile' = marks
             /\ UNCHANGED <<ghosts, slain>>
  /\ UNCHANGED <<entity_id, position, orientation, speed, blocked, rested, quitting>>

Spent == {i \in DOMAIN projectiles : ~projectiles[i].alive}

RemoveDeathProjectiles ==
  /\ phase = "projectiles" /\ pending = {}
  /\ phase' = "removal"
  /\ projectiles' = [i \in DOMAIN projectiles \ Spent |-> projectiles[i]]
  /\ has_projectile' = has_projectile \ {projectiles[i].at : i \in Spent}
  /\ UNCHANGED <<pending, entity_id, position, heroState, slain>>

Forget(hs) ==
  /\ ghosts' = ghosts \ hs /\ blocked' = blocked \ hs /\ rested' = rested \ hs
  /\ orientation' = [h \in Heroes |-> IF h \in hs THEN <<1, 0>> ELSE orientation[h]]
  /\ speed' = [h \in Heroes |-> IF h \in hs THEN <<0, 0>> ELSE speed[h]]

\* The loops of remove_death_entities() run without the mutex; a monster's id is
\* free for the next one, a hero that quit is gone for good.
RemoveDeathHero(h) ==
  /\ phase = "removal" /\ Here(h) /\ h \in quitting
  /\ EmptyTile(position[h])
  /\ position' = [position EXCEPT ![h] = Gone]
  /\ quitting' = quitting \ {h}
  /\ Forget({h})
  /\ UNCHANGED <<phase, pending, slain, projectiles>>

EndRemoval ==
  /\ phase = "removal" /\ HeroesHere \cap quitting = {} /\ phase' = "burial"
  /\ UNCHANGED <<pending, tiles, position, heroState, slain, projectiles>>

RemoveDeathMonster(m) ==
  /\ phase = "burial" /\ Here(m) /\ m \in slain
  /\ EmptyTile(position[m])
  /\ position' = [position EXCEPT ![m] = Elsewhere]
  /\ slain' = slain \ {m}
  /\ UNCHANGED <<phase, pending, heroState, projectiles>>

EndBurial ==
  /\ phase = "burial" /\ MonstersHere \cap slain = {} /\ phase' = "sleeping"
  /\ UNCHANGED <<pending, tiles, position, heroState, slain, projectiles>>

-----------------------------------------------------------------------------
(* Listener and receivers, while the mutex is free *)

\* Where a hero may be looking when it comes in.
Looks == (Speeds \cap Steps) \cup {<<1, 0>>}

Unlocked == phase \in {"sleeping", "removal", "burial"}

\* A login, or a hero from another room in whatever state it is.
EnterRoom(h) ==
  /\ Unlocked /\ position[h] = Elsewhere
  /\ \E t \in FreeTiles : OcupyTile(h, t) /\ position' = [position EXCEPT ![h] = t]
  /\ ghosts' \in {ghosts, ghosts \cup {h}}
  /\ blocked' \in {blocked, blocked \cup {h}} /\ UNCHANGED rested
  /\ \E d \in Speeds \cup {<<0, 0>>}, o \in Looks :
       /\ speed' = [speed EXCEPT ![h] = d]
       /\ orientation' = [orientation EXCEPT ![h] = o]
  /\ UNCHANGED <<phase, pending, quitting, slain, projectiles>>

LeaveRoom(h) ==
  /\ Unlocked /\ Here(h) /\ h \notin quitting
  /\ EmptyTile(position[h])
  /\ position' = [position EXCEPT ![h] = Elsewhere]
  /\ Forget({h})
  /\ UNCHANGED <<phase, pending, quitting, slain, projectiles>>

\* Time passes for a hero that waits.
WaitPasses(h) ==
  /\ h \in blocked \ rested
  /\ rested' = rested \cup {h}
  /\ UNCHANGED <<phase, pending, tiles, position, orientation, speed, ghosts, blocked,
                 quitting, slain, projectiles>>

-----------------------------------------------------------------------------

Commands ==
  \E h \in Heroes :
    \/ \E d \in Speeds : SetHeroSpeed(h, d)
    \/ \E r \in Ranges, i \in Projectiles : ThrowProjectile(h, r, i)
    \/ HeroRevive(h)
    \/ KillPlayer(h)

Room ==
  \/ BeginUpdate \/ EndCommands
  \/ \E m \in Monsters : MonsterActs(m)
  \/ EndMonsters
  \/ \E m \in Monsters : RespawnMonster(m)
  \/ EndRespawn
  \/ \E h \in Heroes : TryToUnblock(h) \/ AutoMove(h)
  \/ EndHeroes
  \/ \E i \in Projectiles : ProjectileActs(i)
  \/ RemoveDeathProjectiles
  \/ \E h \in Heroes : RemoveDeathHero(h)
  \/ EndRemoval
  \/ \E m \in Monsters : RemoveDeathMonster(m)
  \/ EndBurial

Others == \E h \in Heroes : EnterRoom(h) \/ LeaveRoom(h) \/ WaitPasses(h)

Next == Commands \/ Room \/ Others

\* The thread of the room runs, the timer of the projectiles comes due, and time
\* passes for a hero that waits.
Fairness ==
  /\ WF_vars(Room)
  /\ SF_vars(EndHeroes /\ pending' = DOMAIN projectiles)
  /\ \A h \in Heroes : WF_vars(WaitPasses(h))

Spec == Init /\ [][Next]_vars /\ Fairness

-----------------------------------------------------------------------------
(* Properties *)

\* A living thing stands where the map says it stands, and the map holds nobody
\* who is not there, whatever was moved, killed, removed or brought in; no tile
\* stays marked by a projectile that is gone.
CellsAgree ==
  /\ \A e \in Entities : Here(e) => entity_id[position[e]] = e
  /\ \A t \in Tiles : entity_id[t] # Nobody => position[entity_id[t]] = t
  /\ \A t \in has_projectile : \E i \in DOMAIN projectiles : projectiles[i].at = t

\* A hero that waits to revive does not move: neither with the speed it had when
\* it died nor with a command sent later.
BlockedStay ==
  [][\A h \in blocked \cap blocked' :
       position[h] \in Tiles /\ position'[h] \in Tiles => position'[h] = position[h]]_vars

\* Every projectile is removed, whatever it meets and even if its hero leaves: its
\* id is free again and again.
ProjectilesEnd == \A i \in Projectiles : []<>(i \notin DOMAIN projectiles)

\* A command to revive of a hero that waits already: Hero::block starts the wait again.
AskAgain(h) == HeroRevive(h) /\ h \in blocked

\* Every wait to revive ends, although the tile it ends on may be taken: each hero
\* is again and again one that does not wait, unless its player asks again for ever.
WaitsEnd == \A h \in Heroes : []<>(h \notin blocked) \/ []<><<AskAgain(h)>>_vars

=============================================================================
