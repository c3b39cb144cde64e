--------------------------- MODULE PlayersStorage ---------------------------
(***************************************************************************)
(* How heroes are kept between sessions (files_handler.cpp,                *)
(* players_saver_sender.cpp, quit_command.cpp): two files, one mutex, a    *)
(* thread that writes the heroes that left and one that every minute       *)
(* writes those that play.                                                 *)
(*                                                                         *)
(* A hero is a name and the moment of its last change: all the properties  *)
(* ask is whose record a record is, and whether it is the newest. A slot   *)
(* is a position of players_status divided by DATA_SIZE: a record with the *)
(* configured inventory and bank is shorter than that.                     *)
(***************************************************************************)
EXTENDS Naturals, Sequences

CONSTANTS
  Sessions,    \* connections; each logs in once
  Names,       \* names players log in with
  NoName,      \* the empty name of the hero read from a record never written
  None,
  MaxChanges,  \* bound: changes to heroes
  MaxCrashes   \* bound: times the server dies

VARIABLES
  player_name,        \* name each session logged in with
  heroes,             \* what the memory of each session's hero holds
  stage,              \* whether that hero exists
  clock,              \* changes so far
  players_serializations_queue,
  copied,             \* heroes the periodic saver has still to serialize
  task,               \* the hero each saver is about to write, or None
  operation,          \* the call to save_player_status() that holds the mutex
  players_positions,  \* file: slot of each name, and the last slot given
  players_status,     \* file: the records
  cut,                \* names whose first record a crash cut (history)
  left_with,          \* the change each player left with (history)
  crashes

memory == <<player_name, heroes, stage, clock>>
savers == <<players_serializations_queue, copied, task>>
files == <<operation, players_positions, players_status>>
history == <<left_with, crashes>>
vars == <<memory, savers, files, cut, history>>

Keys == Names \cup {NoName}
Hero == [name : Keys, version : Nat]
Positions == [slot : [Keys -> Nat \cup {None}], last : Nat \cup {None}]
Threads == {"queue", "periodic"}
Steps == {"positions", "first record", "record"}
Operations == [by : Threads, step : Steps, positions : Positions]

ASSUME StorageAssumption ==
  /\ NoName \notin Names
  /\ None \notin Sessions \cup Keys \cup Nat \cup Operations
  /\ MaxChanges \in Nat /\ MaxCrashes \in Nat

TypeOK ==
  /\ player_name \in [Sessions -> Names \cup {None}]
  /\ heroes \in [Sessions -> Hero \cup {None}]
  /\ stage \in [Sessions -> {"none", "playing", "left", "deleted"}]
  /\ clock \in 0..MaxChanges
  /\ players_serializations_queue \in Seq(Hero)
  /\ copied \subseteq Sessions
  /\ task \in [Threads -> Hero \cup {None}]
  /\ operation \in Operations \cup {None}
  /\ players_positions \in Positions
  /\ DOMAIN players_status \subseteq Nat
  /\ \A p \in DOMAIN players_status : players_status[p] \in Hero
  /\ cut \subseteq Keys
  /\ left_with \in [Names -> Nat \cup {None}]
  /\ crashes \in 0..MaxCrashes

NoPositions == [slot |-> [k \in Keys |-> None], last |-> None]

Init ==
  /\ player_name = [s \in Sessions |-> None]
  /\ heroes = [s \in Sessions |-> None]
  /\ stage = [s \in Sessions |-> "none"]
  /\ clock = 0
  /\ players_serializations_queue = <<>>
  /\ copied = {}
  /\ task = [t \in Threads |-> None]
  /\ operation = None
  /\ players_positions = NoPositions
  /\ players_status = <<>>
  /\ cut = {}
  /\ left_with = [n \in Names |-> None]
  /\ crashes = 0

-----------------------------------------------------------------------------
(* Plausible slips, used to see that the properties notice them *)

\* last_position is not advanced.
SameSlot(positions) == IF positions.last = None THEN 0 ELSE positions.last

\* The map loses the names it had, and its last slot.
OnlyNewSlot(positions, k) ==
  [slot |-> [[j \in Keys |-> None] EXCEPT ![k] = SameSlot(positions)]]

\* The record is not written.
NoWrite(status, p, hero) == status

\* The record goes one slot too far.
WriteNext(status, p, hero) ==
  [q \in DOMAIN status \cup {p + 1} |-> IF q = p + 1 THEN hero ELSE status[q]]

-----------------------------------------------------------------------------
(* What the two files say *)

NewHero(n) == [name |-> n, version |-> 0]

\* A record that was never written reads as zeros.
RecordAt(p) ==
  IF p \in DOMAIN players_status THEN players_status[p] ELSE NewHero(NoName)

PlayerStatus(n) ==
  IF players_positions.slot[n] = None
  THEN NewHero(n)
  ELSE RecordAt(players_positions.slot[n])

\* The slot after the last one, or the first of the file.
NextSlot(positions) ==
  IF positions.last = None THEN 0 ELSE positions.last + 1

WithNewSlot(positions, k) ==
  [slot |-> [positions.slot EXCEPT ![k] = NextSlot(positions)],
   last |-> NextSlot(positions)]

Write(status, p, hero) ==
  [q \in DOMAIN status \cup {p} |-> IF q = p THEN hero ELSE status[q]]

Operation(t, step, positions) ==
  [by |-> t, step |-> step, positions |-> positions]

Loaded == {s \in Sessions : stage[s] \in {"playing", "left"}}

-----------------------------------------------------------------------------
(* Players *)

\* add_new_hero() reads the files under their mutex; a player with no record
\* gets a new hero.
Login(s, n) ==
  /\ stage[s] = "none"
  /\ operation = None
  /\ player_name' = [player_name EXCEPT ![s] = n]
  /\ heroes' = [heroes EXCEPT ![s] = PlayerStatus(n)]
  /\ stage' = [stage EXCEPT ![s] = "playing"]
  /\ UNCHANGED <<clock, savers, files, cut, history>>

\* Whatever happens to a hero while it plays.
Change(s) ==
  /\ stage[s] = "playing"
  /\ clock < MaxChanges
  /\ clock' = clock + 1
  /\ heroes' = [heroes EXCEPT ![s].version = clock']
  /\ UNCHANGED <<player_name, stage, savers, files, cut, history>>

\* QuitCommand serializes the hero and queues it for the saver.
Quit(s) ==
  /\ stage[s] = "playing"
  /\ stage' = [stage EXCEPT ![s] = "left"]
  /\ players_serializations_queue' =
       Append(players_serializations_queue, heroes[s])
  /\ left_with' = [left_with EXCEPT ![player_name[s]] = heroes[s].version]
  /\ UNCHANGED <<player_name, heroes, clock, copied, task, files, cut, crashes>>

\* At the end of its tick the room deletes the hero, and with it the memory
\* the periodic saver may still point to.
DeleteHero(s) ==
  /\ stage[s] = "left"
  /\ stage' = [stage EXCEPT ![s] = "deleted"]
  /\ UNCHANGED <<player_name, heroes, clock, savers, files, cut, history>>

-----------------------------------------------------------------------------
(* The two savers *)

PopSerialization ==
  /\ task["queue"] = None
  /\ players_serializations_queue # <<>>
  /\ task' = [task EXCEPT !["queue"] = Head(players_serializations_queue)]
  /\ players_serializations_queue' = Tail(players_serializations_queue)
  /\ UNCHANGED <<memory, copied, files, cut, history>>

\* The periodic saver copies the rooms' maps of heroes: pointers, and without
\* the rooms' mutexes.
CopyHeroes ==
  /\ task["periodic"] = None
  /\ copied = {}
  /\ copied' = Loaded
  /\ UNCHANGED <<memory, players_serializations_queue, task, files, cut, history>>

\* It then serializes each one. A hero deleted meanwhile is read from freed
\* memory: still what it was, or the process dies (Crash).
SerializeHero(s) ==
  /\ task["periodic"] = None
  /\ s \in copied
  /\ task' = [task EXCEPT !["periodic"] = heroes[s]]
  /\ copied' = copied \ {s}
  /\ UNCHANGED <<memory, players_serializations_queue, files, cut, history>>

-----------------------------------------------------------------------------
(* save_player_status(), by either saver, step by step: only a crash can   *)
(* come between its steps, since every other call waits for the mutex      *)

\* A known name goes straight to its record. A new one makes the handler
\* write all the positions again: opening the file empties it.
StartSave(t) ==
  /\ task[t] # None
  /\ operation = None
  /\ LET k == task[t].name IN
       \/ /\ players_positions.slot[k] # None
          /\ operation' = Operation(t, "record", players_positions)
          /\ UNCHANGED players_positions
       \/ /\ players_positions.slot[k] = None
          /\ operation' =
               Operation(t, "positions", WithNewSlot(players_positions, k))
          /\ players_positions' = NoPositions
  /\ UNCHANGED <<memory, savers, players_status, cut, history>>

WritePositions ==
  /\ operation # None
  /\ operation.step = "positions"
  /\ players_positions' = operation.positions
  /\ operation' = [operation EXCEPT !.step = "first record"]
  /\ UNCHANGED <<memory, savers, players_status, cut, history>>

WriteRecord ==
  /\ operation # None
  /\ operation.step \in {"first record", "record"}
  /\ LET hero == task[operation.by] IN
       /\ players_status' =
            Write(players_status, operation.positions.slot[hero.name], hero)
       /\ cut' = cut \ {hero.name}
  /\ task' = [task EXCEPT ![operation.by] = None]
  /\ operation' = None
  /\ UNCHANGED <<memory, players_serializations_queue, copied, players_positions,
                 history>>

\* The server dies and is started again: everything but the files is lost.
\* An orderly stop loses as much: stop() leaves the queued heroes unwritten.
Crash ==
  /\ crashes < MaxCrashes
  /\ crashes' = crashes + 1
  /\ stage' = [s \in Sessions |-> IF s \in Loaded THEN "deleted" ELSE stage[s]]
  /\ players_serializations_queue' = <<>>
  /\ copied' = {}
  /\ task' = [t \in Threads |-> None]
  /\ operation' = None
  /\ cut' = IF operation # None /\ operation.step = "first record"
            THEN cut \cup {task[operation.by].name}
            ELSE cut
  /\ left_with' = [n \in Names |-> None]
  /\ UNCHANGED <<player_name, heroes, clock, players_positions, players_status>>

-----------------------------------------------------------------------------
PlayerActs(s) ==
  \/ \E n \in Names : Login(s, n)
  \/ Change(s)
  \/ Quit(s)

Save == \E t \in Threads : StartSave(t)

Next ==
  \/ \E s \in Sessions : PlayerActs(s) \/ DeleteHero(s) \/ SerializeHero(s)
  \/ PopSerialization
  \/ CopyHeroes
  \/ Save
  \/ WritePositions
  \/ WriteRecord
  \/ Crash

\* Threads are scheduled. The mutex of the files is free most of the time: a
\* saver that waits for it gets it.
Fairness ==
  /\ WF_vars(PopSerialization)
  /\ \A t \in Threads : SF_vars(StartSave(t))
  /\ WF_vars(WritePositions)
  /\ WF_vars(WriteRecord)

Spec == Init /\ [][Next]_vars /\ Fairness

-----------------------------------------------------------------------------
(* Properties *)

\* No two names share a slot, and the next slot given is free, whatever the
\* order of first saves and crashes: a hero's record never overwrites another's.
Apart(positions) ==
  \A k \in Keys : positions.slot[k] # None =>
    /\ positions.last # None
    /\ positions.slot[k] <= positions.last
    /\ \A j \in Keys \ {k} : positions.slot[j] # positions.slot[k]

SlotsApart == Apart(players_positions)

Owned(positions, k) ==
  positions.slot[k] # None => RecordAt(positions.slot[k]).name = k

WritingFirst(k) ==
  /\ operation # None
  /\ operation.step = "first record"
  /\ task[operation.by].name = k

\* The slot of a name holds a record of that name as soon as its first save is
\* over, unless a crash cut that save between the two files.
SlotHoldsOwnRecord ==
  \A k \in Keys :
    k \notin cut /\ ~WritingFirst(k) => Owned(players_positions, k)

LogsIn(s) == stage[s] = "none" /\ stage'[s] = "playing"

\* A login never gives a player the hero of another, unless a crash cut that
\* player's first save.
LoginGivesOwnHero ==
  [][\A s \in Sessions :
       LogsIn(s) /\ player_name'[s] \notin cut =>
         heroes'[s].name = player_name'[s]]_vars

Stored(hero) ==
  \E p \in DOMAIN players_status : players_status[p] = hero

InQueue(hero) ==
  \E i \in DOMAIN players_serializations_queue :
    players_serializations_queue[i] = hero

\* A hero that left is written sooner or later, unless the server dies first.
QueuedHeroesAreWritten ==
  \A k \in Names, v \in 0..MaxChanges :
    LET hero == [name |-> k, version |-> v] IN
    (InQueue(hero) /\ crashes = MaxCrashes) ~> Stored(hero)

-----------------------------------------------------------------------------
(* The inductive invariant behind the safety properties *)

\* The call that holds the mutex has a hero to write and a slot for it that is
\* nobody else's; the file of positions is empty, or what the call read.
OperationOk ==
  operation # None =>
    /\ task[operation.by] # None
    /\ Apart(operation.positions)
    /\ operation.positions.slot[task[operation.by].name] # None
    /\ players_positions = IF operation.step = "positions"
                           THEN NoPositions
                           ELSE operation.positions

WritingNew(k) ==
  /\ operation # None
  /\ operation.step # "record"
  /\ task[operation.by].name = k

\* Every name that no crash has hurt owns the record in its slot, on disk and
\* in the positions a save holds in memory.
StorageInv ==
  /\ \A s \in Sessions :
       stage[s] # "none" => player_name[s] \in Names /\ heroes[s] \in Hero
  /\ \A s \in copied : stage[s] # "none"
  /\ SlotsApart
  /\ OperationOk
  /\ \A k \in Keys \ cut :
       ~WritingNew(k) =>
         /\ Owned(players_positions, k)
         /\ operation # None => Owned(operation.positions, k)

-----------------------------------------------------------------------------
(* What the documents say *)

\* players_saver_sender.cpp:46 says that the player may have disconnected, and
\* tests the pointer for null before it serializes: the heroes it still has to
\* serialize should exist.
CopiedHeroesExist == \A s \in copied : stage[s] # "deleted"

SaveOf(n) ==
  \/ \E i \in DOMAIN players_serializations_queue :
       players_serializations_queue[i].name = n
  \/ \E t \in Threads : task[t] # None /\ task[t].name = n

\* README.md:77 says that a returning player continues with its character: who
\* left, and whose saves are all done, should get the hero it left with.
ContinuesWithTheHeroItLeft ==
  [][\A s \in Sessions, n \in Names :
       /\ LogsIn(s) /\ player_name'[s] = n
       /\ left_with[n] # None
       /\ ~SaveOf(n)
       /\ \A r \in Loaded : player_name[r] # n
       => heroes'[s].version = left_with[n]]_vars
=============================================================================
