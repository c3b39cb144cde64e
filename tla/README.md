# Argentum Online remake: verification project

TLA+ specifications of the server and the client of this repository, TLC
configurations that check them on small instances, and theorems that the TLA+
proof system checks for every instance. File and line references are to `src/`;
`PROJECT.json` maps each definition to the lines it models.

## 1. The system

A server process (`server/`) runs one world made of several rooms (maps); each
player runs a client process (`client/`). They talk over one TCP connection per
player: commands upwards, notifications downwards (`protocol/`, `net/`,
`common/`).

| Part | State it keeps | Operations | Talks to |
| --- | --- | --- | --- |
| Listener (`client_listener.cpp`, one thread) | `clients`, `game_rooms`, `queues_commands`, `entities_ids` | accept + login, `garbage_collector`, `stop_listening` (main thread) | rooms, message center, client handlers |
| Client handler (`client_handler.cpp`) | two threads of a client, its socket | constructor, destructor, `is_alive` | receiver, sender |
| Command receiver (`client_command_receiver.cpp`, one thread per client) | `alive`, `sent_quit`, `current_game_room`, `commands_queue` | read a command, change room, quit, lost connection | rooms (calls under their mutex), command queues, message center, socket |
| Notification sender (`client_notification_sender.cpp`, one thread per client) | its notification queue | pop and send, stop | message center, socket |
| Room (`model/argentum_game.cpp`, one thread per room) | `heroes`, `monsters`, `npcs`, `projectiles`, `drops`, `map`, `queues_notifications`, `commands_queue`, `alive` | `update`, `send_game_status`, `remove_death_entities`, the `hero_*` commands, add/remove hero and queue | everything below |
| Queues (`util/thread_safe_queue.h`) | items, `closed` | push, pop, close | every thread |
| Message center (`message_center.cpp`) | player name -> notification queue | add, remove, notify | notification queues |
| Persistence (`players_saver_sender.cpp`, two threads; `files_handler.cpp`) | queue of serializations, two files | save on quit, periodic save, load at login | rooms, serializer |
| Hero (`model/entities/hero.cpp`) and items (`model/items/`) | hp, mana, xp, level, gold, inventory, equipment, bank, ghost/meditating/blocked | attack, receive damage, equip, bank, buy, sell, pick up, drop, heal, revive | map, drops |
| Monsters, projectiles, map, drops (`model/entities/`, `model/map/`, `model/items/drops_manager.cpp`) | positions, occupied cells, targets | move, attack, respawn, hit, expire | heroes |
| Serializer (`model/serializer.cpp`) | - | game status and save records, to and from bytes | files handler, rooms |
| Command blocker (`command_blocker.cpp`) | last attack, last room change | `can_process` | receiver |
| Protocol and socket (`protocol/protocol.cpp`, `net/common_socket.cpp`) | a file descriptor | send and receive of a command or notification | both processes |
| Client, before the game (`client/lobby.cpp`, `main.cpp`) | name, resolution, race, class and map chosen | two screens that poll events, connection, handshake | server |
| Client, input (`event_handler.cpp`, `commands_sender.cpp`, `client.cpp`) | chat line, selected slot, queue of commands, queue of events | keys, clicks and chat, sender thread, joins | server, renderer |
| Client, view (`game_updater.cpp`, `protected_map.cpp`, `game.cpp`) | the map written and the map drawn, statuses known, animations, camera | updater thread, renderer (main thread) | server, pictures |
| Client, pictures (`playable_character.cpp`, `spell.cpp`, `animation.cpp`, `texture_manager.cpp`) | frames, equipment worn, spells, textures | load, update, draw | view |

### What is hard

* **Threads.** With R rooms and P players the server runs 4 + R + 2P threads.
  A room's mutex guards its heroes and queues while commands run, but
  `clear_heroes_effects` and `remove_death_entities` (argentum_game.cpp:513-514)
  run without it, the periodic saver copies `heroes` without it
  (players_saver_sender.cpp:40), `entities_ids` is one counter under as many
  mutexes as rooms, and half of the message center's entry points do not take
  its mutex (message_center.cpp:95-142).
* **Ownership.** A notification queue is created by the listener, written by
  rooms and the message center, read by the sender, and deleted by the
  listener. A hero is created by the listener under a room's mutex, carried
  between rooms by a receiver and deleted by a room.
* **Several critical sections per operation.** A login is three (hero, name,
  queue), a room change is three, a lost connection two.
* **Failure.** Connections drop at any moment; the server stops while threads
  are in the middle of any of the above; the process may die between two saves.

## 2. What makes each part correct

* Listener, handlers, receivers, senders, rooms: a hero is in one room, or on
  its way between two; every Quit meets its hero and is executed once; the hero
  is saved exactly when it goes; a queue is in the table of its hero's room;
  room changes, quits and collection end.
* Queues: first in first out; nothing is lost before a close; a consumer that
  waits is woken.
* Message center: a name leads to the queue of that player's session and to no
  deleted queue.
* Persistence: who comes back continues with the hero that left; one player's
  record never overwrites another's.
* Hero and items: items and gold are neither created nor destroyed by moving
  them between inventory, equipment, bank, drops and shops; limits hold; a
  ghost does nothing a ghost may not do; experience never decreases.
* World: one entity per cell, cells and positions agree, projectiles end.
* Entity ids: unique. Save records: what is read is what was written.
* Shutdown: every thread is joined and nothing deleted is used.
* Client view: what is drawn is what the server reported last; who leaves
  disappears; the map is the one of the hero's room.
* Client input: the server gets the commands in the order the player gave them;
  the slot that is used is the slot that is shown; closing the window ends the
  program.
* Pictures: every frame that is drawn is loaded and inside its image, and is the
  one of what the character wears and does.

## 3. The server

### Sessions and rooms: `GameRooms`, `PlayerSession`

`GameRooms` is the core: all interleavings of the listener thread, the two
threads of each client and the thread of each room, over the state they share.

| TLA+ | Code |
| --- | --- |
| `listener`, `clients`, `unchecked` | where the listener is in `run()`/`garbage_collector()`, and for which client |
| `receiver[s]` | where a receiver is: in its loop, inside `change_game_room()` (`travelling`, `arrived`), after a Quit (`closing`), between `alive = false` and the push of a lost client's Quit (`lost`), finished (`done`) |
| `current_game_room[s]`, `destination[s]` | the receiver's room, which also stands for its `commands_queue`, and the room it is changing to |
| `notifications_queue[s]` | life of the queue object: open, closed, deleted |
| `heroes[r]`, `queues_notifications[r]`, `commands_queue[r]` | the room's two maps and its queue of commands |
| `dead` | heroes with `alive == false` |
| `deaf` | connected clients that read nothing any more: a `send()` to them may never end |
| `loop[r]` | where the room's thread is in `run()`; `executing` is the part of `update()` that holds the mutex |
| `saves[s]`, `misread` | histories that no action reads: serializations pushed to the saver; deleted queues whose own Quit read `closed` from freed memory and kept the entry |

An action is a critical section or a step between two shared accesses: the
three critical sections of a room change are three actions, a lost connection
is two (`alive` is cleared before the Quit is pushed), `~ClientHandler` is
`StopSender`, `DeleteSender`, `DeleteReceiver`, and a room's tick is
`BeginUpdate`, one action per command, `EndUpdate`, the unprotected test of
`heroes.size()`, the status, and the unprotected removal of the dead.
`QuitCommand::execute` is one action, all of it under the mutex. Reading `closed`
of a queue that has been deleted has no defined outcome, so `ExecuteQuit` lets
each such entry be erased or stay. The `accept()` of the listener comes with the
login; who connects and leaves before it is in `Shutdown`.

Abstractions: commands other than Quit are one kind (`act`) because their
handlers ignore a hero that is not in the room; what they do to the hero belongs
to other modules. The contents of notification queues are left out. A session is
one connection, and names its hero and queue. `RemoveDeadHeroes` is one action
although the code runs it without the mutex: what a data race inside it would do
is not modelled.

`PlayerSession` is the promise to a player: outside, then in a room, sometimes
travelling, then asked to leave, saved, gone. `GameRooms` implements it under
the mapping `Promise` at the end of the module.

The collector deletes the queue of a lost client while the Quit of that client is
still on its way, and the room's table holds the queue until then. How long, and that
no other step leaves a deleted queue in a table, is `DeletedQueueAwaitsQuit`: until the
Quit is executed, and after it only if the clean-up of that very Quit found freed
memory that did not read as closed. It does not say that this is harmless: in the
meantime the room sends its status (section 6, `NoNotificationToDeadClients`).

* `rooms_safety`: two players, two rooms, two requests each. Two players are the
  least for one to be collected while another plays, and two requests allow a
  room change and back or a command left behind in the old room.
* `rooms_liveness`: one player with two rooms and two requests, against the
  liveness properties and `PlayerSession`. Fairness of one session's threads does
  not depend on another's, so one player is enough for its room changes and its
  Quit to end, and for the collector to get past it. The client may stop reading at
  any moment (`Unreliable`): room changes and Quits end all the same, and
  `ListenerAcceptsAgain` says that the listener gets back to `accept()` unless it is
  `HeldByClient`, in the join of a sender whose client stays connected and does not
  read. That is the one thing that holds it, and it holds it for ever.

Fairness: weak for rooms, whose threads are scheduled, and for what comes after a
send (`AfterSend`) only while the client reads (`s \notin deaf`). The listener
and the receivers wait for a room's mutex that is taken and released every tick,
so they need strong fairness: the room sleeps about 22 ms between ticks without
the mutex (argentum_game.cpp:518-521). Clients need not do anything.

Bounds: `MaxRequests`, commands plus room changes of a client; `Unreliable`, the
clients that may stop reading (none in the run for safety: a client that does not
read takes no step, and whoever takes none may be one that does not read).

Proved in `GameRoomsProofs`, for every set of sessions
and rooms and every `MaxRequests`, from `RoomsAssumption`: `TypeCorrect`,
`SessionsInvariant`, `OnePlace`, `RoomChangeIsSafe`, `QuitIsSafe`, `SavedOnce`,
`QueueNearHero`, `DeletedQueueIsQuitting`, `RoomsImplementPromise`. None of the
properties is inductive. That a Quit finds its hero, for instance, holds because
a receiver pushes to the room it is in, changes rooms only while its hero is
alive, and never after its Quit; and the hero is in that room because the room
removes only the dead. `SessionsInv` says this for one session at a time, as
`ListenerOk` and five conjuncts: `ConnectionOk` (which sessions have a room and a
receiver), `HeroAtHome` (the hero is in the room `Home(s)` and no other),
`QueueAtHome` (so is its queue, while the receiver is in its loop), `QueueLife`
(a queue is open while the receiver lives, deleted only after) and `QuitPending`
(between the Quit and its execution there is exactly one Quit, in that room;
`saves` counts the executions). There is one lemma per action and one step per
conjunct; `PendingAfterPush` and `PendingAfterPop` say what the queue of commands
holds after a push and a pop. The refinement proof shows the place of each hero
as a function of the state (`PlaceOfHero`), then that every action is the step of
`PlayerSession` it should be, or hidden.

### Names and queues: `MessageCenter`

`MessageCenter` follows the registry from player names to notification queues
(`message_center.cpp`) and everybody who changes it or looks a name up: the
listener adds a name at login, the receiver removes it after a Quit, the sender
removes it when it ends, the collector deletes the queue the name may still
lead to, and rooms and receivers send messages to names.

| TLA+ | Code |
| --- | --- |
| `players_notification_queues` | the map of that name; a queue is named by its session |
| `player_name[s]` | the name a session logged in with; two sessions may use one name |
| `notifications_queue[s]` | life of the queue: open, closed, deleted |
| `receiver[s]`, `sender[s]` | where the two threads of a client are, as far as the registry is concerned |
| `listener`, `clients`, `unchecked` | where the listener is in `run()` and `garbage_collector()` |
| `AddPlayer`, `RemovePlayer` | `add_player()` and `remove_player()`, one critical section each |
| `Notify`, `SendMessage` | a look-up and the push on what it finds, under the mutex |
| `found`, `FindUnlocked`, `PushUnlocked` | the same without it (message_center.cpp:95-142): the queue that was found, and the push, in two steps |
| `UnregisterAfterQuit` | the call the receiver makes before it clears `alive` |
| `Unwind` | the call the sender makes after its loop |

`player_name` stays set when a session ends, so that "a name only one session
has used" can be said.

* `center_registry`: three sessions under two names, each with one login, one end and
  one collection, interleaved freely. What a message under the mutex is pushed on exists
  (`RegisteredQueueExists`); who plays under a name of its own is registered
  (`RegisteredWhilePlaying`); an ended session's entry goes
  (`EndedSessionUnregistered`), if its client reads. Three sessions are the least for a
  name to be used again while a third client makes the listener collect.

Fairness: weak for the collector, for lost connections and rooms, and for senders and
receivers of the clients outside `Deaf`: the sender of a client that reads nothing may
be in a `send()` that never ends, and so may its receiver, with the answer to the Quit.

`RegisteredWhilePlaying` is about names of one session. Whoever comes back before its
old session ended loses its entry, and what is found without the mutex may be deleted
before the push: both are in section 6.

Proved in `MessageCenterProofs`, for every set of sessions and names, from
`CenterAssumption`: `CenterTypeCorrect`, `CenterInvariant`,
`NoDeletedQueueRegistered`, `OneNameOneEntry`. A registered queue exists because
its sender removes the name before the collector, which joins it, deletes the
queue; the invariant says this as what the stages of the sender, the receiver
and the listener have to agree on with the registry.

### Heroes on disk: `PlayersStorage`

`PlayersStorage` follows a hero from login to disk and back: memory, the queue
of serializations, the two savers, the two files, and crashes.

| TLA+ | Code |
| --- | --- |
| `heroes[s]`, `stage[s]` | the hero object of a session and whether it exists; a hero is a name and the moment of its last change |
| `players_serializations_queue` | the queue QuitCommand pushes on |
| `copied` | what is left of the periodic saver's `heroes_copy` |
| `task[t]` | the serialization each saver holds and will write |
| `operation` | the call to `save_player_status()` that holds the mutex, and the map of positions it holds |
| `players_positions`, `players_status` | the two files; a slot is a position divided by `DATA_SIZE` |
| `cut`, `left_with` | history: first records a crash cut, what players left with |

A save is up to three actions, because a crash can come between them: opening
the file of positions empties it (`StartSave`), it is written
(`WritePositions`), the record is written (`WriteRecord`). Everything else
waits for the mutex. A new name takes the slot after the last one. A record that
was never written reads as zeros, and so does its name. A crash keeps the files
only. A record fits in its slot as long as a name is not longer than about 130
letters: with the configured inventory (16) and bank (10) the rest takes about
70 of 200 bytes, and it is padded. So slots stand for positions. A hero that was
deleted after the periodic saver copied its pointer is read from freed memory:
the model lets it read what was there, or the process die (`Crash`).

* `storage_safety`: two sessions, each under either of two names (so the same
  player can return, or be there twice), one change of a hero, one crash. The slot
  of a name holds its own record unless a crash cut its first save
  (`SlotHoldsOwnRecord`), a login gets the player's own hero (`LoginGivesOwnHero`),
  a queued hero is written (`QueuedHeroesAreWritten`, once there are no more
  crashes). One change tells an old record from a new one, one crash at every step
  is every place a first save can be cut, and two names are the least to mix up.
* `storage_copied` (a violation, and a finding): the periodic saver holds a
  pointer to a deleted hero, against what players_saver_sender.cpp:46 tests for.

Fairness: weak for the saver that pops and for the two steps under the mutex;
strong for starting a save, because both savers compete for the mutex of the
files, which is free most of the time.

Proved in `PlayersStorageProofs`, for every set of sessions and names and any
number of changes and crashes, from `StorageAssumption`: `StorageTypeCorrect`,
`StorageInvariant`, `SlotsStayApart`, `SlotsHoldOwnRecords`, `LoginIsOwn`.
`SlotsApart` is nearly inductive: a new slot is after all others, but only if the
map of positions that a save holds in memory is apart too (`OperationOk`), and
the file is that map again, or empty. That a slot holds its own record needs,
besides, that between the two writes only one name (`WritingNew`) has a slot with
nothing of its own in it, and that a crash at that moment puts the name in `cut`.

### Items and gold: `HeroItems`

`HeroItems` follows every item and every coin of one room through the commands
of the players, deaths, revivals, room changes and exits.

| TLA+ | Code |
| --- | --- |
| `items[p]` | what a place holds: the inventory or bank of a hero (`Inventory::items`), a slot of its `Equipment`, the drop on a cell (`Drop::items`) |
| `allocated` | items created (`ItemFactory`) and not yet deleted |
| `missing[c]` | null pointers among the items of a drop |
| `gold[p]`, `issued` | `Inventory::gold`, `Drop::gold`; history: what entered the game less what left it |
| `level`, `ghosts`, `blocked`, `quitting` | `Hero::level` (which decides `max_safe_gold`), `ghost_mode`, `blocked`, `alive == false` |
| `position[h]` | a cell of the room, `Road` between `remove_hero_and_notification_queue()` and `add_existing_hero()`, or `Outside` |
| `phase` | where the room's thread is in `run()` |
| `late` | history: heroes that arrived after the status was sent, which the loop over the ghosts may have passed |

One tick is the commands, the monsters' attacks, the heroes' own moves and
revivals, the projectiles (all with the mutex), the status, the drops of the dead,
and the removal of the heroes that quit. Heroes enter and leave only while the
mutex is free, that is from the end of `update()` on: also in the middle of the
clean-up.

Abstractions. An item is itself rather than the id of its kind; which of two equal
items a command takes does not matter to any property. A drop is a set, so
`PickUpItem` may take any of its items where the code takes the last. Damage is
left out: a living hero may die whenever something hits heroes, and may gain a
level whenever its projectiles hit (or at the L key, at any time). Distances are
left out: a cell is next to a priest, a merchant, a banker, or not. The drops of
monsters and of ghosts are made in any order; they commute. There is one room: who
leaves it goes to `Road` with all it has, and may come back. Whoever enters is a
new hero with the items and gold of `setup_new_hero()`; a hero that comes back
with a record is in `HeroThings`. The loops over `heroes` that run without the
mutex are taken hero by hero, whole.

* `items`: one hero, two cells (a town with priest, merchant and banker, and the
  wild), a sword, a staff, a hood and a potion that cost one each, an inventory and a
  bank of one, a kit of one, two levels, gold up to 3. An inventory of one makes
  every purchase, pick-up and swap meet its limit; `SafeGold` 1 makes gold
  overflow; the places are all there is, so an item that is copied, forgotten or used
  after it is deleted shows as `ItemHasOneOwner`. `GoldIsConserved` adds up all the
  purses; `GoldWithinLimit` is what keeps the unsigned `gold_space_remaining()` from
  wrapping (`Wrapped` stands for the enormous value it would become);
  `SweptGhostsHoldNothing` says what the clean-up leaves to the ghosts. `Explored`
  keeps to several items with the gold of a new hero, or the gold of several
  monsters and null items with at most one item: moves of items and of gold only
  meet in prices. Two heroes share items and gold only through the floor, and
  what the floor holds may come from anywhere here; for any number of heroes there
  is the proof.

The run goes on to the null drop (section 6): the server then ends in the phase
`crashed`, which is why it does not check deadlock. A ghost that leaves the room
between the status and the clean-up is not emptied there: it keeps its items,
arrives in the next room as a ghost and drops them there, or revives with them.
`SweptGhostsHoldNothing` therefore excepts `late`.

Bounds: `MaxLevel`, `MaxGold` (gold in the room), `MaxMissing` (null items in a drop).

Proved in `HeroItemsProofs`, for all finite sets of heroes, cells and items and all
capacities, prices, levels and bounds, from `ItemsAssumption`:
`ItemsInvariant`, `ItemsTypeCorrect`, `OneOwner`, `CapacityHolds`,
`EquipmentStaysLegal`, `GoldStaysWithinLimit`, `GhostsAreSwept`, the action property
`GhostsGainNothing`, and `GoldInvariant`, `GoldStaysInTheGame`. The assumption says,
with the configuration (`cfg/entities/entities.json`), that a new hero's gold (200) is
at most its safe gold (400) and its kit (at most 4 items) fits its inventory (16). The
properties of the items need each other, and `ItemsInv` is their conjunction with
`NothingOutside`. A swap of equipment fits because a slot holds one item (`SwapFits`);
filling a hand loses no item because that hand is free or what it held was put away
first (`HandFacts`); a new hero's kit replaces nothing because whoever left took its
own with it. Moves are reduced to four lemmas about sets of items that go from a place
to another, are created, deleted or swapped (`TransferOwned` and the next three).
`OthersKeepItems` and `OthersKeepGold` confine each step to one hero, and
`OtherSteps`, `OtherGoldSteps`, `OtherMoveSteps` say what the remaining steps leave
alone.

`GoldIsConserved` is a fold over all purses, that is a recursive function on the parts
of a finite set. `SumsExist` shows that there is one, by taking a smallest part for
which there would not be; `TotalOfChanged` and `TotalOfPaid` say what one purse, or two,
that change do to the total. Each step then changes one purse by what it adds to
`issued`, or two by as much. It is inductive with `NoGoldOutside`: the gold a new hero
is given replaces none.

### The map and what moves on it: `World`

`World` follows one room's tiles and everything that stands on them or flies over
them: heroes, monsters, projectiles.

| TLA+ | Code |
| --- | --- |
| `entity_id`, `has_projectile` | `Tile::entity_id`, `Tile::has_projectile` |
| `position[e]` | `x_position`, `y_position` of a `BaseCharacter`; `Elsewhere` is another room, `Gone` a monster that was removed |
| `orientation`, `speed`, `ghosts`, `blocked`, `quitting` | fields of `Hero` |
| `rested` | heroes that wait to revive and whose wait is over |
| `slain` | monsters with `alive == false` |
| `projectiles` | `ArgentumGame::projectiles`, with position, range, collision and attacker of each |
| `phase`, `pending` | where the room's thread is in `run()`, and whom a loop of `update()` has still to visit |

`update()` holds the room's mutex from its commands to the removal of dead
projectiles. Its loops are taken entity by entity (`MonsterActs`, `TryToUnblock`,
`AutoMove`, `ProjectileActs`); who is visited next is any of `pending`, where the
code takes them by increasing id. Each loop is paced by a timer of its own and so is
due or not at each turn. After `update()` the dead heroes and the dead monsters are
removed one by one, without the mutex. `EnterRoom` and `LeaveRoom` are other threads:
they need `Unlocked`, and come also between two of those removals. Where a random
choice is made (respawn, tiles around a priest, evasion) the model takes any of
the outcomes; how many points a blow takes is left to `HeroLife`: it kills or
does not. Trees and npcs are `Fixed`. A command to revive of a hero that waits already
starts the wait again (hero.cpp:98-105): `rested` loses it.

* `world`: a hero, a monster and two projectiles in a corridor of five tiles, a
  priest, the town beside it and three more. A projectile needs three tiles to
  leave a hero, fly and hit; a corridor makes every move meet a neighbour or a
  border; a range of two is the least for a projectile to fly, to hit in flight and to
  run out after it flew; two projectiles are the least to meet each other. `CellsAgree`
  relates the two copies of every position and the marks of the projectiles; `BlockedStay`
  says that whoever waits to revive is not moved; `ProjectilesEnd` and `WaitsEnd` are
  liveness. A wait ends unless the player asks to revive again for ever, which the
  code lets it do: then it never lives.

Fairness: weak for the thread of the room; strong for the projectiles' loop being
due, because its timer expires again and again (argentum_game.cpp measures the time
since the last one); weak for `WaitPasses`, because time passes. `TryToUnblock` is part
of the room's thread and has none of its own: it is what the turn of a hero does whose
wait is over.

Bounds: the map, and the number of projectiles alive at once.

Proved in `WorldProofs`, for every map, every set of entities, and all ranges and
distances, from `WorldAssumption`: `WorldInvariant`, `WorldTypeCorrect`,
`MapAgrees`, `WaitingHeroesStay`. `CellsAgree` is inductive once it is known whose
turn a loop may still take: a monster or hero that is moved is in the room
(`PendingOk`). `WorldInv` adds the types (`PhaseType`, `MapType`, `HeroType`,
`ProjectileType`) and splits `CellsAgree` into `EntitiesOk` (positions) and
`MarksOk` (projectiles). `Moving` and its neighbours say what one move, one arrival
and one departure do to both; a projectile's mark is followed by `FlownMarks`.
Ranges are any natural numbers there.

### The life of a hero and its record: `HeroLife`, `HeroThings`

`HeroLife` is one hero: life, mana, experience, level, death, meditation, and the
record that outlives it between two sessions. `HeroThings` is what it carries, kind
by kind and in order: the 20 items, where each is worn, what is for sale, and how a
record keeps inventory, equipment and bank.

| TLA+ | Code |
| --- | --- |
| `current_hp`, `current_mana`, `level`, `experience`, `next_level_xp_limit`, `ghost_mode`, `meditating` | fields of `Hero` |
| `things` | inventory, equipment and bank, as lists of item ids |
| `record` | what `Serializer::serialize_hero` wrote; every number modulo `RecordLimit` |
| `UIntLimit` | the width of `unsigned int`: sums and differences wrap |
| `Climbed(l, x)` | the loop of `update_experience` that gives several levels |
| `Exchanged`, `Unequipped` | `use_item` and `unequip` with their swaps |

Who attacks, and where the hero stands, are left to the other modules: here a blow
may come at any moment, and a drop, a shop, a bank and a priest may be at hand.
Damage is one of `Damages`; evasion and critical blows are blows of 0 and of more. A
record is what a Quit writes: `Login` builds a hero of its level and fills it with the
rest, in the order of `Serializer`.

* `life`: seven levels, `UIntLimit` 32 and `RecordLimit` 16, foes of levels 1 and 3,
  blows of 0, 1 and 4, two items to trade, an inventory of three and a bank of one. As
  in the game from level 11 on, the limit of experience outgrows its field (18, at level
  6), and so may the gold of the bank (up to 16); and a foe far below makes the
  difference of levels wrap (`Worth`), which gives several levels at once.
  `LifeIsConsistent` relates life, ghost and meditation; `ExperienceBelowLimit` says
  that several levels due at once are all given, so that what is left is below the limit
  of the level, whatever limit a session brought back, and that the limit is the one of
  the level as long as it fits its field; `ReturnsAsItLeft` that a player finds its hero
  as it left it: no login has too little room for the items it makes again, which is
  where `Inventory::add_item` throws (inventory.cpp:26), what was worn is worn, and each
  number returns that fits its field (`Kept`: the code promises nothing of one that does
  not). `Explored` takes all belongings only at the first level with full life or dead,
  and all of life only with the kit, the staff in hand, a potion, or nothing, and from
  the third level on only at full life or dead: the two halves meet in death,
  meditation, potions and the staff, all of which stay in. `MaxLevel` bounds the levels,
  and with it, as in the code, the foes that teach something.

Proved in `WorldProofs` too (`World` and `HeroLife` share no variable), from
`LifeAssumption` (limits that grow, kits that fit the inventory), `ThingsAssumption` and
`RecordAssumption` (at the highest level life and mana fit their fields of the record,
and these are no wider than `unsigned int`; with the game's configuration that holds for
hundreds of levels). Gold, experience and its limit may outgrow their fields:

* `LifeStaysWithinLimits`, `TheLivingHaveLife`. `LifeIsConsistent` is not inductive: a
  cure, a revival or a new level leave some life because of the limits, which grow with
  the level (`PointsInLimits`), and a session does because of what its record holds
  (`RecordKeepsLife`).
* `ExperienceInvariant`, `LevelsFollowExperience`. `Climb` is a recursive function;
  `ClimbExists`, `ClimbUnfolds` and `ClimbReaches` show from the last level down that
  there is one and that it leaves less experience than the limit of the level it
  reaches. Limits that grow are needed for the command that gives a level for nothing
  (`LevelUp`), which keeps the experience.
* `RecordsAreKept`, `HeroesReturn`. Between two sessions the record is
  that of the hero that left (`RecordIsExact`, `CarryInv`). `WornAgainIs` says that an
  item that was worn goes through the inventory and leaves it as it was, which
  needs that a weapon and a staff are never both worn (`Tidy`); `ReversedBag` that the
  order a session turns around changes no count. `Login` has the guard `FitsOnTheWay`,
  where the code throws; that every record a Quit leaves satisfies it, so that it keeps
  nobody out, is part of what is proved (`Roomy`). `HeroesReturn` has no premise.

### How the server stops: `Shutdown`

`Shutdown` is `stop_listening()` on the main thread, step by step (kill, join and
delete each room; delete each handler, with its two joins; delete the queues; stop
and join the savers; close the socket; join the listener), while the listener,
rooms, receivers, senders and savers still run.

| TLA+ | Code |
| --- | --- |
| `main`, `here` | the statement of `stop_listening()` or of a destructor, and the room or client it is about |
| `room`, `commands`, `closed` | each room's thread and object, and its queue of commands |
| `listener`, `entering` | where the listener is, and with which client |
| `receiver`, `sender`, `in_room`, `sent_quit`, `open` | each client's threads and socket |
| `handlers`, `gone` | `ClientListener::clients`, and the handlers deleted (their pointers stay in the list) |
| `saver`, `periodic`, `copied` | the two savers |
| `fault` | who first used something deleted |

Deleted objects are not reset. A thread that uses one ends the model in `fault`,
which names who: nothing is said of what such a program does next.

* `shutdown`: two rooms and two clients that connect once each: one to be stopped
  and one to log in, change rooms, be collected or not read, meanwhile.
  `QueuesOutliveTheirUsers`: no command is pushed and no status is notified on a
  deleted queue. `StopEnds`: the stop ends, or meets one of three waits it names:
  `Spins` (a command was left in a closed queue, argentum_game.cpp:723),
  `WaitsForReader` (a sender is joined while its client does not read),
  `WaitsForLogin` (the listener is joined while somebody who connected is silent), or
  one of the five faults it does not exclude: a login, a room change, the periodic save
  or the collector that comes too late, and a login that does not come at all: who
  connects and leaves before it makes the listener read through a null pointer
  (`NoLogin`, client_listener.cpp:109), also when nobody stops the server.

Fairness: weak for every thread that can go on. Clients need not write, read or log in.

Proved in `ShutdownProofs`, for any number of rooms and clients, from
`ShutdownAssumption`: `StopIsOrdered`, `QueuesOutlive`, `StopTypeCorrect`. The
invariant says, of every state before a fault, that rooms go in their order and all
before the first handler (`RoomsInOrder`), that every receiver that runs still has
its handler in the list (`ReceiversListed`), that the queues go after all the
handlers (`QueuesFree`), and what the listener and the main thread hold of the list
meanwhile.

## 4. The client

### What it shows: `ClientView`

`ClientView` follows the statuses of one room from the room's thread to the map that
is drawn.

| TLA+ | Code |
| --- | --- |
| `place[h]` | the room of each hero |
| `queue`, `sending`, `socket` | the client's notification queue, what its sender has begun to write, what is on the socket |
| `telling` | the change of room that the receiver writes on the same socket |
| `new_map`, `background` | `GameUpdater` and `ProtectedMap`: the change of map to make, the map shown |
| `current_status`, `characters`, `items`, `affected` | statuses known, the map written, the animations of hits |
| `unseen` | history: what a status that changed the map knew already from the map before, and so did not draw |
| `fault` | two notifications written through each other, a pointer to a character that is not there, an iterator beyond the end |

A notification is two writes, its size and its contents (protocol.cpp:428-433), by
two threads without a lock. The updater applies a status as `ProtectedMap::map_writer`
does: add, update, count the animations down, remove. The client's own hero is in every
status and is like the others in it: it moves, turns, dresses, dies and is hit.

* `client_view`: the hero, another one, a drop and two rooms, one status in the queue
  and two writes on the wire: enough for a status of the old room to be behind or in
  the middle of a change of map. `ShownAsReported` says what is drawn against what was
  said: each character as the last status said, and all of them but the `unseen`, which
  are exactly those not drawn, until a status leaves them out; and only while there are
  some can the client follow a pointer to a missing character. `LeaversDisappear` and
  `MapFollowsHero` are liveness.

Fairness: weak for rooms and updater, strong for sender and receiver, which wait
for room in the socket.

Bounds: `QueueBound`, `WireBound`, and `NewsBound`, how much one status tells besides
who is there: here one entity turned, or one hit, or a drop. What one tells, the next
may take back, so that any two looks and hits meet over two statuses.

Proved in `ClientProofs`, for any sets of heroes, monsters, drops and rooms and any
bounds, from `ClientViewAssumption`: `ViewInvariant`, `ShownIsReported`.
`ShownAsReported` becomes inductive with what may be on the way between a room and the
screen (`OnTheWay`), and with `AnimationsOnDrawn`: an animation that is counted down is
on a character that is there. Which entities are not drawn is part of the statement, and
not an exception to it.

### What the player does: `ClientInput`, `Lobby`, `Client`

`ClientInput` goes from keys, clicks and chat (`event_handler.cpp`) through the
queue of commands and the sender to what the receiver of the server reads back,
with the renderer that draws the selection and rewrites the inventory, and the joins
of `client.cpp`. `Lobby` is the two screens before, with their nested loops that poll
events. `Client` composes them with the connection and the handshake.

| TLA+ | Code |
| --- | --- |
| `handler`, `clicked` | where `get_events()` is |
| `mouse_in`, `msg_length`, `message` | the chat's box, and the length of its line |
| `index`, `events` | `EventsQueue`, and the slot the handler has selected |
| `is_selected`, `item_selected` | what the renderer draws as selected |
| `inventory`, `shop` | what the renderer last wrote of the user interface |
| `commands`, `sender`, `wire`, `server`, `received` | the way of a command to the room |
| `lobby`, `get_text`, `need_letter`, `running`, `quit` | the loops of the lobby |
| `program` | where `main()` is |

A line of chat is one of `Lines`: what it becomes. `/depositar` and `/retirar` take a
number, which `std::stoi` may refuse (`EnterGold`, bound `MaxInt`) and the field
cuts (`Uint16`). `CommandBlocker` lets each attack and room change through or not.

* `client`: two slots with two equal items, a shop of one, two keys, three lines, two
  inputs after the lobby, two letters in a name, two of each choice. `OnlyTheNamedPlay`
  is the lobby's promise; `CommandsArriveInOrder` what the server is given;
  `SelectionIsShown` that the slot used is the slot shown; `QuitEndsClient` that a closed
  window ends the program, from the lobby, the connection or the game. `hurried` and
  `late` (histories) name the two cases the code does not cover. Two inputs are enough
  for a selection and its use, a command and a close, a chat and a close.

Fairness (`ProgramFairness`): weak for the handler and the lobby's loops, the
renderer, the sender, the updater and the server's receiver. What the player does is up
to it.

Proved in `ClientProofs`, for any inventory, lines, keys and number of inputs, from
`LobbyAssumption` and `ClientInputAssumption`:

* `LobbyInvariant`, `OnlyTheNamed`: whoever is past the first screen has a name or had
  one when the button was clicked (`NameInv`), said for each place of the nested loops.
* `ShownInvariant`, `SelectionShown`: there is at most one selection the renderer has
  not seen, and without one it draws the slot that is selected (`ShownInv`).
* `OrderInvariant`, `CommandsInOrder`: the queue ends where what was given ends
  (`QueueOfGiven`), what the sender and the socket hold is the last that was taken from
  it (`LastTaken`), and what the server received was given before that, in the same
  order (`KeptInOrder`).

### What is drawn: `Scene`, `Sprites`

`Sprites` has the textures loaded, what stands for what the server reports, and the
frames. `Scene` follows one entity (`cast`) and the camera through statuses:
`PlayableCharacter` with equipment, ghost and meditation, `Spell`, `Animation`, npcs,
drops, and `Game::update_map`.

| TLA+ | Code |
| --- | --- |
| `current_status`, `affected` | what `ProtectedMap` holds of the entity and of the animation on it |
| `ch` | the object of the character: position, direction, frames, clips, equipment, spell |
| `item` | the same of a drop |
| `map_piece`, `viewport` | the rectangles of `Game` |
| `loaded_dead`, `frozen` | history: a player loaded as a ghost; a hero that changed room with a spell on it |

A new object starts with whatever its memory held, where the constructor reads
fields before it sets them (playable_character.cpp:16). A rectangle nobody set is
`Garbage`.

* `scene`: seven casts of players (walking over a map little larger than the screen,
  hit, dressing, meditating, turning, a monster hit by anything, drops of each item) and
  each other monster and npc. `TileSize` 2, `MapSize` 8 and a screen of 6 keep the
  proportions the camera's arithmetic needs: a map larger than the screen, and a screen
  larger than a tile. The sizes of images are those of the files under `client/assets`.
  `CameraFollowsHero` and `GroundUnderCharacters` are the camera, `LooksAsReported`,
  `PicturesExist` and `SpellsAreCounted` the character.

Proved in `SceneProofs`, for any window, map, size of tile and cast, from
`SceneAssumption` and `ImageAssumption`: `SceneInvariant`, `SceneTypeCorrect`,
`HeroIsFollowed`, `GroundIsUnder`, `LooksFollowReports`, `PicturesAreLoaded`,
`SpellsAreShown`. `SceneInv` says what a character may look like after any statuses
(`CharacterOk`) and where the camera is (`CameraInv`). `ImageAssumption` says that the
images under `client/assets` are as large as the frames the code cuts from them; TLC
evaluates it for the sizes of the files.

## 5. What is proved, and what is only checked

| Module | Proved for every value of the constants | Only model-checked |
| --- | --- | --- |
| `GameRooms` | all its safety properties, `ImplementsPlayerSession` | `RoomChangeEnds`, `QuitRemovesHero`, `ListenerAcceptsAgain` |
| `MessageCenter` | `RegisteredQueueExists`, `RegisteredWhilePlaying` | `EndedSessionUnregistered` |
| `PlayersStorage` | `SlotHoldsOwnRecord`, `LoginGivesOwnHero` | `QueuedHeroesAreWritten` |
| `HeroItems` | all of its properties | - |
| `World` | `CellsAgree`, `BlockedStay` | `ProjectilesEnd`, `WaitsEnd` |
| `HeroLife` | `LifeIsConsistent`, `ExperienceBelowLimit`, `ReturnsAsItLeft` | - |
| `Shutdown` | `QueuesOutliveTheirUsers` | `StopEnds` |
| `ClientView` | `ShownAsReported` | `LeaversDisappear`, `MapFollowsHero` |
| `Client` | `OnlyTheNamedPlay`, `CommandsArriveInOrder`, `SelectionIsShown` | `QuitEndsClient` |
| `Scene` | all of its properties | - |

What is only model-checked is liveness: it rests on fairness and ENABLED, which the
proof system does not reason about here. Recursion is within reach where it is a
function on numbers or on parts of a finite set: what it computes is shown with a
smallest counterexample (`LeastElement`) in place of an induction rule, as in
`SumsExist` and `ClimbExists`. The assumptions of the proofs are the named ASSUMEs of
the modules, which every run evaluates for its constants.

`ClientProofs` and `WorldProofs` are each about two specifications that share no
variable and do not act on each other: their theorems are of one or of the other.

## 6. Findings, and what else the models show

The finding with a run is `storage_copied`. Six more statements are in the modules,
each quoted from the repository, which the models refute: to see the trace, add the
name to the INVARIANTs or PROPERTYs of the module's configuration.

| Statement | Says | What happens |
| --- | --- | --- |
| `HeroItems!DropsHoldItems` | a drop holds items | `hero_drop_item` drops what `remove_item` returns, which may be nothing (argentum_game.cpp:302): the next status ends the server |
| `MessageCenter!RegisteredAfterReturning` | message_center.h:50 | `emplace` leaves the old entry, and the end of the old session takes the new one away (message_center.cpp:11) |
| `PlayersStorage!ContinuesWithTheHeroItLeft` | who comes back continues | an older serialization of the periodic saver is written over the record of a Quit (players_saver_sender.cpp:51) |
| `GameRooms!NoNotificationToDeadClients` | argentum_game.h:91 | the collector deletes the queue of a lost client while its Quit is still in the room's queue of commands, and the room sends its status to that queue (argentum_game.cpp:536) |
| `MessageCenter!FoundQueueExists` | a queue that was found exists | from `send_inventory_is_full_message` on, names are looked up without the mutex (message_center.cpp:95-142): the sender may end and the collector delete the queue before the push |
| `ClientView!KnownEntitiesAreInTheMap` | protected_map.cpp:70 | after a change of map, a known entity is not in the map: it is not drawn, or a missing character is used (protected_map.cpp:36, game.cpp:91) |

The models also follow, without a statement of their own, what the code does in these
places:

* Items: the factory asks for `min_defense` and `max_defense`, the configuration says
  `minDefense` and `maxDefense` (item_factory.cpp:124), and `get_defense_bonus`
  assigns where it could add (equipment.cpp:35): `Defense` is zero for all. The deadly
  staff has no price (item_factory.cpp:116). Each login turns the order of inventory and
  bank around. The gold of a bank above 65535 wraps in the record (serializer.cpp:215).
* Life: a foe of a much lower level gives an enormous experience, as the difference is
  unsigned (hero.cpp:443; the run goes through it); a limit of experience that outgrew
  its field comes back as what is left of it (serializer.cpp:138), and the next blow gives
  a level too early; `heal` cures ghosts; `revive` next to a priest halves the life of the
  living; a dead player that keeps asking to revive never does (hero.cpp:102).
* Listener: a client that stays connected and reads nothing holds it for ever, once its
  receiver has ended and the collector joins its sender (client_handler.cpp:28-31); a
  client that leaves before its login ends the server (client_listener.cpp:109).
* Shutdown: `~ArgentumGame` waits for ever if a command was left in its queue; the
  listener may start a client while the list is deleted.
* Lobby and input: a name can be emptied by an event that waited when the button was
  clicked (lobby.cpp:435); closing the window in a box is noticed when a letter is
  typed (lobby.cpp:116); a handshake without an answer reads past the end
  (client.cpp:35); an amount too long for `std::stoi` ends the handler, and `play()`
  waits for it for ever (event_handler.cpp:335, client.cpp:60); two selections within
  one frame make the renderer disagree (game_renderer.cpp:45).
* Pictures: a player loaded as a ghost may be drawn with a frame nobody set
  (playable_character.cpp:296); a hero that changes room with a spell on it keeps its
  picture (protected_map.cpp:48).

## 7. Not modelled

* What a data race inside a standard container would do: `entities_ids`, the reads of
  the registry of names and of `heroes` without a mutex. The models interleave whole
  operations.
* The bytes of a message and the system calls of sockets. A receive gives a whole
  command or fails; the two writes of a notification are modelled where they can mix.
  What is cut by the width of a field is.
* The name `last_position`, names too long for a record, and an item both in a record
  and on the floor (a hero that dies in the tick of its Quit): `PlayersStorage`,
  `HeroItems` and `HeroLife` are not composed.
* Clocks: the intervals of `CommandBlocker`, of the timers and of the frames. What
  they hold back may happen at any turn or not.
* Rendering proper, fonts, layout, bars, sound and window of the client; the
  statuses of the hero for the bars and the shop.
* Code nobody calls: `unequip_weapon()` and its like (hero.cpp:189-240) and
  `hero_use_special()`.
* The vendored JSON library, build files and assets, but for the configured numbers
  and the sizes of images that are constants of the models.
