------------------------ MODULE PlayersStorageProofs ------------------------
(***************************************************************************)
(* Theorems about PlayersStorage for every set of sessions and names and   *)
(* every number of changes and crashes: whose record is in whose slot.     *)
(***************************************************************************)
EXTENDS PlayersStorage, SequenceTheorems, TLAPS

-----------------------------------------------------------------------------
(* The positions and the records *)

\* The slot given to a new name is a slot.
LEMMA NextSlotType ==
  ASSUME NEW positions \in Positions
  PROVE  NextSlot(positions) \in Nat
BY StorageAssumption DEF Positions, NextSlot

\* Giving a slot to a name changes that slot and the last one, and no other.
LEMMA NewSlot ==
  ASSUME NEW positions \in Positions, NEW k \in Keys
  PROVE  /\ WithNewSlot(positions, k) \in Positions
         /\ WithNewSlot(positions, k).last = NextSlot(positions)
         /\ WithNewSlot(positions, k).slot[k] = NextSlot(positions)
         /\ \A j \in Keys \ {k} :
              WithNewSlot(positions, k).slot[j] = positions.slot[j]
BY NextSlotType DEF WithNewSlot, Positions

\* The new slot is after all those given.
LEMMA NewSlotApart ==
  ASSUME NEW positions \in Positions, NEW k \in Keys,
         Apart(positions), positions.slot[k] = None
  PROVE  Apart(WithNewSlot(positions, k))
<1> DEFINE new == WithNewSlot(positions, k)
<1>1. /\ new.slot[k] = NextSlot(positions)
      /\ new.last = NextSlot(positions)
      /\ NextSlot(positions) \in Nat
      /\ \A j \in Keys \ {k} : new.slot[j] = positions.slot[j]
  BY NewSlot, NextSlotType
<1>2. ASSUME NEW j \in Keys \ {k}, positions.slot[j] # None
      PROVE  /\ positions.slot[j] \in Nat
             /\ positions.slot[j] < NextSlot(positions)
  <2>1. /\ positions.last # None
        /\ positions.slot[j] <= positions.last
        /\ positions.slot[j] \in Nat
        /\ positions.last \in Nat
    BY <1>2, StorageAssumption DEF Apart, Positions
  <2>2. NextSlot(positions) = positions.last + 1
    BY <2>1 DEF NextSlot
  <2>3. QED
    BY <2>1, <2>2
<1>3. ASSUME NEW i \in Keys, new.slot[i] # None
      PROVE  /\ new.last # None
             /\ new.slot[i] <= new.last
             /\ \A j \in Keys \ {i} : new.slot[j] # new.slot[i]
  <2>1. new.last # None
    BY <1>1, StorageAssumption
  <2>2. CASE i = k
    <3>1. ASSUME NEW j \in Keys \ {i} PROVE new.slot[j] # new.slot[i]
      <4>1. new.slot[j] = positions.slot[j] /\ new.slot[i] = NextSlot(positions)
        BY <1>1, <2>2
      <4>2. CASE positions.slot[j] = None
        BY <1>1, <4>1, <4>2, StorageAssumption
      <4>3. CASE positions.slot[j] # None
        BY <1>1, <1>2, <2>2, <4>1, <4>3
      <4>4. QED
        BY <4>2, <4>3
    <3>2. QED
      BY <1>1, <2>1, <2>2, <3>1
  <2>3. CASE i # k
    <3>1. /\ new.slot[i] = positions.slot[i]
          /\ positions.slot[i] # None
          /\ positions.slot[i] \in Nat
          /\ positions.slot[i] < NextSlot(positions)
      BY <1>1, <1>2, <1>3, <2>3
    <3>2. ASSUME NEW j \in Keys \ {i} PROVE new.slot[j] # new.slot[i]
      <4>1. CASE j = k
        BY <1>1, <3>1, <4>1
      <4>2. CASE j # k
        BY <1>1, <3>1, <4>2 DEF Apart
      <4>3. QED
        BY <4>1, <4>2
    <3>3. QED
      BY <1>1, <2>1, <3>1, <3>2
  <2>4. QED
    BY <2>2, <2>3
<1> HIDE DEF new
<1>4. QED
  BY <1>3 DEF Apart, new

\* An empty map of positions has nothing to mix up.
LEMMA NoPositionsApart ==
  /\ NoPositions \in Positions
  /\ Apart(NoPositions)
  /\ \A k \in Keys : NoPositions.slot[k] = None
BY DEF NoPositions, Positions, Apart

\* A record is a hero, written or not.
LEMMA RecordType ==
  ASSUME TypeOK, NEW p
  PROVE  RecordAt(p) \in Hero
<1>1. NewHero(NoName) \in Hero
  BY DEF NewHero, Hero, Keys
<1>2. QED
  BY <1>1 DEF RecordAt, TypeOK

\* What a login reads is a hero.
LEMMA PlayerStatusType ==
  ASSUME TypeOK, NEW n \in Names
  PROVE  PlayerStatus(n) \in Hero
<1>1. NewHero(n) \in Hero
  BY DEF NewHero, Hero, Keys
<1>2. QED
  BY <1>1, RecordType DEF PlayerStatus

-----------------------------------------------------------------------------
(* Types *)

LEMMA TypesKept ==
  ASSUME TypeOK, StorageInv, [Next]_vars
  PROVE  TypeOK'
<1> USE StorageAssumption DEF memory, savers, files, history
<1>1. ASSUME NEW s \in Sessions, NEW n \in Names, Login(s, n) PROVE TypeOK'
  BY <1>1, PlayerStatusType DEF Login, TypeOK
<1>2. ASSUME NEW s \in Sessions, Change(s) PROVE TypeOK'
  <2>1. heroes[s] \in Hero /\ clock' \in 0..MaxChanges /\ clock' \in Nat
    BY <1>2 DEF Change, StorageInv, TypeOK
  <2>2. [heroes[s] EXCEPT !.version = clock'] \in Hero
    BY <2>1 DEF Hero
  <2>3. heroes' \in [Sessions -> Hero \cup {None}]
    BY <1>2, <2>2 DEF Change, TypeOK
  <2>4. QED
    BY <1>2, <2>1, <2>3 DEF Change, TypeOK
<1>3. ASSUME NEW s \in Sessions, Quit(s) PROVE TypeOK'
  <2>1. heroes[s] \in Hero /\ player_name[s] \in Names
    BY <1>3 DEF Quit, StorageInv
  <2>2. players_serializations_queue' \in Seq(Hero)
    BY <1>3, <2>1 DEF Quit, TypeOK
  <2>3. left_with' \in [Names -> Nat \cup {None}]
    BY <1>3, <2>1 DEF Quit, TypeOK, Hero
  <2>4. QED
    BY <1>3, <2>2, <2>3 DEF Quit, TypeOK
<1>4. ASSUME NEW s \in Sessions, DeleteHero(s) PROVE TypeOK'
  BY <1>4 DEF DeleteHero, TypeOK
<1>5. CASE PopSerialization
  <2>1. /\ Head(players_serializations_queue) \in Hero
        /\ Tail(players_serializations_queue) \in Seq(Hero)
    BY <1>5, HeadTailProperties DEF PopSerialization, TypeOK
  <2>2. QED
    BY <1>5, <2>1 DEF PopSerialization, TypeOK
<1>6. CASE CopyHeroes
  BY <1>6 DEF CopyHeroes, TypeOK, Loaded
<1>7. ASSUME NEW s \in Sessions, SerializeHero(s) PROVE TypeOK'
  BY <1>7 DEF SerializeHero, TypeOK
<1>8. ASSUME NEW t \in Threads, StartSave(t) PROVE TypeOK'
  <2>1. task[t].name \in Keys
    BY <1>8 DEF StartSave, TypeOK, Hero
  <2> DEFINE given == WithNewSlot(players_positions, task[t].name)
  <2>2. players_positions \in Positions /\ given \in Positions
    BY <2>1, NewSlot DEF TypeOK
  <2>3. players_positions' \in Positions
    BY <1>8, <2>2, NoPositionsApart DEF StartSave
  <2>4. \/ operation' = Operation(t, "record", players_positions)
        \/ operation' = Operation(t, "positions", given)
    BY <1>8 DEF StartSave
  <2> HIDE DEF given
  <2>5. operation' \in Operations
    <3>1. CASE operation' = Operation(t, "record", players_positions)
      BY <2>2, <3>1 DEF Operation, Operations, Steps
    <3>2. CASE operation' = Operation(t, "positions", given)
      BY <2>2, <3>2 DEF Operation, Operations, Steps
    <3>3. QED
      BY <2>4, <3>1, <3>2
  <2>6. QED
    BY <1>8, <2>3, <2>5 DEF StartSave, TypeOK
<1>9. CASE WritePositions
  <2>1. operation \in Operations
    BY <1>9 DEF WritePositions, TypeOK
  <2>2. QED
    BY <1>9, <2>1 DEF WritePositions, TypeOK, Operations, Steps
<1>10. CASE WriteRecord
  <2>1. operation \in Operations
    BY <1>10 DEF WriteRecord, TypeOK
  <2>2. task[operation.by] \in Hero
    BY <1>10, <2>1 DEF WriteRecord, StorageInv, OperationOk, TypeOK, Operations
  <2>3. operation.positions.slot[task[operation.by].name] \in Nat
    BY <1>10, <2>1, <2>2
       DEF WriteRecord, StorageInv, OperationOk, Positions, Hero, Operations
  <2>4. PICK p \in Nat, hero \in Hero : players_status' = Write(players_status, p, hero)
    BY <1>10, <2>2, <2>3 DEF WriteRecord
  <2>5. /\ DOMAIN players_status' \subseteq Nat
        /\ \A q \in DOMAIN players_status' : players_status'[q] \in Hero
    BY <2>4 DEF Write, TypeOK
  <2>6. cut' \subseteq Keys /\ task' \in [Threads -> Hero \cup {None}]
    BY <1>10, <2>1 DEF WriteRecord, TypeOK
  <2>7. QED
    BY <1>10, <2>5, <2>6 DEF WriteRecord, TypeOK
<1>11. CASE Crash
  <2>1. cut' \subseteq Keys
    BY <1>11 DEF Crash, TypeOK, StorageInv, OperationOk, Hero, Operations
  <2>2. stage' \in [Sessions -> {"none", "playing", "left", "deleted"}]
    BY <1>11 DEF Crash, TypeOK
  <2>3. /\ players_serializations_queue' \in Seq(Hero)
        /\ left_with' \in [Names -> Nat \cup {None}]
        /\ task' \in [Threads -> Hero \cup {None}]
    <3>1. /\ players_serializations_queue' = <<>>
          /\ left_with' = [n \in Names |-> None]
          /\ task' = [t \in Threads |-> None]
      BY <1>11 DEF Crash
    <3>2. QED
      BY <3>1
  <2>4. crashes' \in 0..MaxCrashes
    <3>1. crashes < MaxCrashes /\ crashes' = crashes + 1 /\ crashes \in 0..MaxCrashes
      BY <1>11 DEF Crash, TypeOK
    <3>2. QED
      BY <3>1
  <2>5. QED
    BY <1>11, <2>1, <2>2, <2>3, <2>4 DEF Crash, TypeOK
<1>12. CASE UNCHANGED vars
  BY <1>12 DEF vars, TypeOK
<1>13. QED
  BY <1>1, <1>2, <1>3, <1>4, <1>5, <1>6, <1>7, <1>8, <1>9, <1>10, <1>11, <1>12
     DEF Next, PlayerActs, Save

-----------------------------------------------------------------------------
(* The parts of StorageInv *)

\* Who has logged in has a name and a hero, and only such heroes are copied.
LEMMA StartedKept ==
  ASSUME TypeOK, StorageInv, [Next]_vars
  PROVE  /\ \A s \in Sessions :
              stage'[s] # "none" => player_name'[s] \in Names /\ heroes'[s] \in Hero
         /\ \A s \in copied' : stage'[s] # "none"
<1> DEFINE Started ==
      /\ \A s \in Sessions :
           stage[s] # "none" => player_name[s] \in Names /\ heroes[s] \in Hero
      /\ \A s \in copied : stage[s] # "none"
<1> USE StorageAssumption DEF memory, savers, files, history
<1>0. Started
  BY DEF StorageInv
<1>1. ASSUME NEW s \in Sessions, NEW n \in Names, Login(s, n) PROVE Started'
  BY <1>0, <1>1, PlayerStatusType DEF Login, TypeOK
<1>2. ASSUME NEW s \in Sessions, Change(s) PROVE Started'
  <2>1. heroes'[s] \in Hero
    <3>1. heroes'[s] = [heroes[s] EXCEPT !.version = clock']
      BY <1>2 DEF Change, TypeOK
    <3>2. heroes[s] \in Hero /\ clock' \in Nat
      BY <1>0, <1>2 DEF Change, TypeOK
    <3>3. QED
      BY <3>1, <3>2 DEF Hero
  <2>2. QED
    BY <1>0, <1>2, <2>1 DEF Change, TypeOK
<1>3. ASSUME NEW s \in Sessions, Quit(s) PROVE Started'
  BY <1>0, <1>3 DEF Quit, TypeOK
<1>4. ASSUME NEW s \in Sessions, DeleteHero(s) PROVE Started'
  BY <1>0, <1>4 DEF DeleteHero, TypeOK
<1>5. CASE PopSerialization
  BY <1>0, <1>5 DEF PopSerialization
<1>6. CASE CopyHeroes
  BY <1>0, <1>6 DEF CopyHeroes, Loaded
<1>7. ASSUME NEW s \in Sessions, SerializeHero(s) PROVE Started'
  BY <1>0, <1>7 DEF SerializeHero
<1>8. ASSUME NEW t \in Threads, StartSave(t) PROVE Started'
  BY <1>0, <1>8 DEF StartSave
<1>9. CASE WritePositions
  BY <1>0, <1>9 DEF WritePositions
<1>10. CASE WriteRecord
  BY <1>0, <1>10 DEF WriteRecord
<1>11. CASE Crash
  BY <1>0, <1>11 DEF Crash, Loaded, TypeOK
<1>12. CASE UNCHANGED vars
  BY <1>0, <1>12 DEF vars
<1>13. Started'
  BY <1>1, <1>2, <1>3, <1>4, <1>5, <1>6, <1>7, <1>8, <1>9, <1>10, <1>11, <1>12
     DEF Next, PlayerActs, Save
<1>14. QED
  BY <1>13

\* Steps that leave the files and the mutex alone, and the task of the call
\* that holds it, leave the call as it was.
LEMMA OperationUntouched ==
  ASSUME SlotsApart, OperationOk,
         UNCHANGED <<operation, players_positions>>,
         operation # None => task'[operation.by] = task[operation.by]
  PROVE  SlotsApart' /\ OperationOk'
BY DEF SlotsApart, OperationOk, Apart

\* A saver takes a hero only when it has none, so never while it saves one.
LEMMA OperationKept ==
  ASSUME TypeOK, StorageInv, [Next]_vars
  PROVE  SlotsApart' /\ OperationOk'
<1> USE StorageAssumption DEF memory, savers, files, history
<1>0. SlotsApart /\ OperationOk
  BY DEF StorageInv
<1>1. ASSUME NEW s \in Sessions, NEW n \in Names, Login(s, n)
      PROVE  SlotsApart' /\ OperationOk'
  BY <1>0, <1>1, OperationUntouched DEF Login
<1>2. ASSUME NEW s \in Sessions, Change(s) PROVE SlotsApart' /\ OperationOk'
  BY <1>0, <1>2, OperationUntouched DEF Change
<1>3. ASSUME NEW s \in Sessions, Quit(s) PROVE SlotsApart' /\ OperationOk'
  BY <1>0, <1>3, OperationUntouched DEF Quit
<1>4. ASSUME NEW s \in Sessions, DeleteHero(s) PROVE SlotsApart' /\ OperationOk'
  BY <1>0, <1>4, OperationUntouched DEF DeleteHero
<1>5. CASE PopSerialization
  <2>1. operation # None => task'[operation.by] = task[operation.by]
    BY <1>0, <1>5 DEF PopSerialization, OperationOk, TypeOK
  <2>2. QED
    BY <1>0, <1>5, <2>1, OperationUntouched DEF PopSerialization
<1>6. CASE CopyHeroes
  BY <1>0, <1>6, OperationUntouched DEF CopyHeroes
<1>7. ASSUME NEW s \in Sessions, SerializeHero(s) PROVE SlotsApart' /\ OperationOk'
  <2>1. operation # None => task'[operation.by] = task[operation.by]
    BY <1>0, <1>7 DEF SerializeHero, OperationOk, TypeOK
  <2>2. QED
    BY <1>0, <1>7, <2>1, OperationUntouched DEF SerializeHero
<1>8. ASSUME NEW t \in Threads, StartSave(t) PROVE SlotsApart' /\ OperationOk'
  <2> DEFINE k == task[t].name
  <2>1. k \in Keys /\ task' = task /\ task[t] # None
    BY <1>8 DEF StartSave, TypeOK, Hero
  <2>2. CASE /\ players_positions.slot[k] # None
             /\ operation' = Operation(t, "record", players_positions)
             /\ UNCHANGED players_positions
    BY <1>0, <2>1, <2>2 DEF SlotsApart, OperationOk, Apart, Operation
  <2>3. CASE /\ players_positions.slot[k] = None
             /\ operation' =
                  Operation(t, "positions", WithNewSlot(players_positions, k))
             /\ players_positions' = NoPositions
    <3> DEFINE new == WithNewSlot(players_positions, k)
    <3>1. Apart(new) /\ new.slot[k] # None
      BY <1>0, <2>1, <2>3, NewSlotApart, NewSlot, NextSlotType
         DEF SlotsApart, TypeOK
    <3>2. /\ operation'.by = t
          /\ operation'.step = "positions"
          /\ operation'.positions = new
      BY <2>3 DEF Operation
    <3>3. SlotsApart'
      BY <2>3, NoPositionsApart DEF SlotsApart
    <3> HIDE DEF new
    <3>4. OperationOk'
      BY <2>1, <2>3, <3>1, <3>2 DEF OperationOk
    <3>5. QED
      BY <3>3, <3>4
  <2>4. QED
    BY <1>8, <2>2, <2>3 DEF StartSave
<1>9. CASE WritePositions
  <2>1. operation \in Operations
    BY <1>9 DEF WritePositions, TypeOK
  <2>2. /\ operation'.by = operation.by
        /\ operation'.step = "first record"
        /\ operation'.positions = operation.positions
        /\ players_positions' = operation.positions
        /\ task' = task
        /\ operation # None
    BY <1>9, <2>1 DEF WritePositions, Operations
  <2>3. QED
    BY <1>0, <2>2 DEF SlotsApart, OperationOk
<1>10. CASE WriteRecord
  BY <1>0, <1>10 DEF WriteRecord, SlotsApart, OperationOk, Apart
<1>11. CASE Crash
  BY <1>0, <1>11 DEF Crash, SlotsApart, OperationOk, Apart
<1>12. CASE UNCHANGED vars
  BY <1>0, <1>12, OperationUntouched DEF vars
<1>13. QED
  BY <1>1, <1>2, <1>3, <1>4, <1>5, <1>6, <1>7, <1>8, <1>9, <1>10, <1>11, <1>12
     DEF Next, PlayerActs, Save

\* What StorageInv says of the record of one name.
OwnRecord(k) ==
  ~WritingNew(k) =>
    /\ Owned(players_positions, k)
    /\ operation # None => Owned(operation.positions, k)

\* Steps that leave the files, the mutex and the task of the call that holds it
\* alone change nobody's record.
LEMMA OwnRecordUntouched ==
  ASSUME NEW k, OwnRecord(k),
         UNCHANGED <<operation, players_positions, players_status>>,
         operation # None => task'[operation.by] = task[operation.by]
  PROVE  OwnRecord(k)'
BY DEF OwnRecord, WritingNew, Owned, RecordAt

\* The record of a name that no crash has hurt stays its own.
LEMMA OwnRecordKept ==
  ASSUME TypeOK, StorageInv, [Next]_vars, NEW k \in Keys \ cut'
  PROVE  OwnRecord(k)'
<1> USE StorageAssumption DEF memory, savers, files, history
<1>0. /\ SlotsApart /\ OperationOk
      /\ k \notin cut => OwnRecord(k)
  BY DEF StorageInv, OwnRecord
<1>1. ASSUME NEW s \in Sessions, NEW n \in Names, Login(s, n) PROVE OwnRecord(k)'
  BY <1>0, <1>1, OwnRecordUntouched DEF Login
<1>2. ASSUME NEW s \in Sessions, Change(s) PROVE OwnRecord(k)'
  BY <1>0, <1>2, OwnRecordUntouched DEF Change
<1>3. ASSUME NEW s \in Sessions, Quit(s) PROVE OwnRecord(k)'
  BY <1>0, <1>3, OwnRecordUntouched DEF Quit
<1>4. ASSUME NEW s \in Sessions, DeleteHero(s) PROVE OwnRecord(k)'
  BY <1>0, <1>4, OwnRecordUntouched DEF DeleteHero
<1>5. CASE PopSerialization
  <2>1. operation # None => task'[operation.by] = task[operation.by]
    BY <1>0, <1>5 DEF PopSerialization, OperationOk, TypeOK
  <2>2. QED
    BY <1>0, <1>5, <2>1, OwnRecordUntouched DEF PopSerialization
<1>6. CASE CopyHeroes
  BY <1>0, <1>6, OwnRecordUntouched DEF CopyHeroes
<1>7. ASSUME NEW s \in Sessions, SerializeHero(s) PROVE OwnRecord(k)'
  <2>1. operation # None => task'[operation.by] = task[operation.by]
    BY <1>0, <1>7 DEF SerializeHero, OperationOk, TypeOK
  <2>2. QED
    BY <1>0, <1>7, <2>1, OwnRecordUntouched DEF SerializeHero
<1>8. ASSUME NEW t \in Threads, StartSave(t) PROVE OwnRecord(k)'
  <2> DEFINE name == task[t].name
  <2>1. /\ name \in Keys /\ task' = task /\ players_status' = players_status
        /\ Owned(players_positions, k)
    BY <1>0, <1>8 DEF StartSave, TypeOK, Hero, OwnRecord, WritingNew
  <2>2. CASE /\ operation' = Operation(t, "record", players_positions)
             /\ UNCHANGED players_positions
    BY <2>1, <2>2 DEF OwnRecord, Owned, RecordAt, Operation
  <2>3. CASE /\ operation' =
                  Operation(t, "positions", WithNewSlot(players_positions, name))
             /\ players_positions' = NoPositions
    <3> DEFINE new == WithNewSlot(players_positions, name)
    <3>1. /\ operation'.by = t
          /\ operation'.step = "positions"
          /\ operation'.positions = new
          /\ operation' # None => operation' # None
      BY <2>3 DEF Operation
    <3>2. Owned(players_positions, k)'
      BY <2>3, NoPositionsApart DEF Owned
    <3>3. CASE k = name
      <4>1. WritingNew(k)' \/ operation' = None
        BY <2>1, <3>1, <3>3 DEF WritingNew
      <4>2. QED
        BY <3>2, <4>1 DEF OwnRecord
    <3>4. CASE k # name
      <4>1. new.slot[k] = players_positions.slot[k]
        BY <2>1, <3>4, NewSlot DEF TypeOK
      <4> HIDE DEF new
      <4>2. Owned(operation.positions, k)'
        BY <2>1, <3>1, <4>1 DEF Owned, RecordAt
      <4>3. QED
        BY <3>2, <4>2 DEF OwnRecord
    <3>5. QED
      BY <3>3, <3>4
  <2>4. QED
    BY <1>8, <2>2, <2>3 DEF StartSave
<1>9. CASE WritePositions
  <2>1. operation \in Operations
    BY <1>9 DEF WritePositions, TypeOK
  <2>2. /\ operation'.by = operation.by
        /\ operation'.step = "first record"
        /\ operation'.positions = operation.positions
        /\ operation.step = "positions"
        /\ players_positions' = operation.positions
        /\ players_status' = players_status /\ task' = task /\ cut' = cut
        /\ operation # None
    BY <1>9, <2>1 DEF WritePositions, Operations
  <2>3. WritingNew(k) => WritingNew(k)' \/ operation' = None
    BY <2>2 DEF WritingNew
  <2>4. ASSUME ~WritingNew(k)
        PROVE  Owned(players_positions, k)' /\ Owned(operation.positions, k)'
    BY <1>0, <2>2, <2>4 DEF OwnRecord, Owned, RecordAt
  <2>5. operation' # None
    <3>1. operation' = [operation EXCEPT !.step = "first record"]
      BY <1>9 DEF WritePositions
    <3>2. operation' \in Operations
      BY <2>1, <3>1 DEF Operations, Steps
    <3>3. QED
      BY <3>2
  <2>6. QED
    BY <2>3, <2>4, <2>5 DEF OwnRecord
<1>10. CASE WriteRecord
  <2> DEFINE hero == task[operation.by]
             p == operation.positions.slot[hero.name]
  <2>1. /\ operation \in Operations
        /\ operation # None /\ operation.step # "positions"
    BY <1>10 DEF WriteRecord, TypeOK
  <2>2. /\ hero \in Hero
        /\ players_positions = operation.positions
        /\ players_positions \in Positions
    BY <1>0, <2>1 DEF OperationOk, TypeOK, Operations
  <2>3. p \in Nat /\ p = players_positions.slot[hero.name]
    BY <1>0, <2>1, <2>2 DEF OperationOk, Positions, Hero
  <2>4. /\ operation' = None
        /\ players_positions' = players_positions
        /\ players_status' = Write(players_status, p, hero)
        /\ cut' = cut \ {hero.name}
    BY <1>10 DEF WriteRecord
  <2> HIDE DEF hero, p
  <2>5. Owned(players_positions, k)'
    <3>1. CASE k = hero.name
      <4>1. p \in DOMAIN players_status' /\ players_status'[p] = hero
        BY <2>4 DEF Write
      <4>2. players_positions'.slot[k] = p
        BY <2>3, <2>4, <3>1
      <4>3. RecordAt(players_positions.slot[k])' = hero
        BY <4>1, <4>2 DEF RecordAt
      <4>4. QED
        BY <3>1, <4>3 DEF Owned
    <3>2. CASE k # hero.name
      <4>1. Owned(players_positions, k)
        BY <1>0, <2>4, <3>2 DEF OwnRecord, WritingNew, hero
      <4>2. players_positions.slot[k] # None => players_positions.slot[k] # p
        BY <1>0, <2>2, <2>3, <3>2 DEF SlotsApart, Apart, Hero, Keys
      <4>3. players_positions.slot[k] # None =>
              RecordAt(players_positions.slot[k])' = RecordAt(players_positions.slot[k])
        BY <2>3, <2>4, <4>2 DEF RecordAt, Write, NewHero
      <4>4. QED
        BY <2>4, <4>1, <4>3 DEF Owned
    <3>3. QED
      BY <3>1, <3>2
  <2>6. QED
    BY <2>4, <2>5 DEF OwnRecord
<1>11. CASE Crash
  <2>1. /\ operation' = None
        /\ players_positions' = players_positions
        /\ players_status' = players_status
        /\ cut \subseteq cut'
    BY <1>11 DEF Crash
  <2>2. Owned(players_positions, k)
    <3>1. CASE WritingNew(k)
      <4>1. operation \in Operations
        BY <3>1 DEF WritingNew, TypeOK
      <4>2. operation.step = "first record" => k \in cut'
        BY <1>11, <3>1 DEF Crash, WritingNew
      <4>3. operation.step = "positions"
        BY <3>1, <4>1, <4>2 DEF WritingNew, Steps, Operations
      <4>4. players_positions = NoPositions
        BY <1>0, <3>1, <4>3 DEF OperationOk, WritingNew
      <4>5. QED
        BY <4>4, NoPositionsApart DEF Owned
    <3>2. CASE ~WritingNew(k)
      BY <1>0, <2>1, <3>2 DEF OwnRecord
    <3>3. QED
      BY <3>1, <3>2
  <2>3. QED
    BY <2>1, <2>2 DEF OwnRecord, Owned, RecordAt
<1>12. CASE UNCHANGED vars
  BY <1>0, <1>12, OwnRecordUntouched DEF vars
<1>13. QED
  BY <1>1, <1>2, <1>3, <1>4, <1>5, <1>6, <1>7, <1>8, <1>9, <1>10, <1>11, <1>12
     DEF Next, PlayerActs, Save

-----------------------------------------------------------------------------
(* The theorems *)

\* The server starts with empty files, which mix nothing up.
LEMMA StorageInvInit == Init => TypeOK /\ StorageInv
<1> SUFFICES ASSUME Init PROVE TypeOK /\ StorageInv
  OBVIOUS
<1> USE StorageAssumption
<1>1. TypeOK
  BY NoPositionsApart DEF Init, TypeOK
<1>2. StorageInv
  BY NoPositionsApart DEF Init, StorageInv, SlotsApart, OperationOk, Owned
<1>3. QED
  BY <1>1, <1>2

\* Together the parts are inductive.
LEMMA StorageInvKept == TypeOK /\ StorageInv /\ [Next]_vars => TypeOK' /\ StorageInv'
<1> SUFFICES ASSUME TypeOK, StorageInv, [Next]_vars PROVE TypeOK' /\ StorageInv'
  OBVIOUS
<1>1. TypeOK'
  BY TypesKept
<1>2. \A k \in Keys \ cut' : OwnRecord(k)'
  BY OwnRecordKept
<1>3. StorageInv'
  BY StartedKept, OperationKept, <1>2 DEF StorageInv, OwnRecord
<1>4. QED
  BY <1>1, <1>3

\* The inductive invariant of the storage holds in every reachable state, for
\* any number of players, saves and crashes (save_player_status(),
\* files_handler.cpp:63-90).
THEOREM StorageInvariant == Spec => [](TypeOK /\ StorageInv)
<1>1. QED
  BY StorageInvInit, StorageInvKept, PTL DEF Spec

\* Every variable keeps its type (files_handler.cpp, players_saver_sender.cpp).
THEOREM StorageTypeCorrect == Spec => []TypeOK
BY StorageInvariant, PTL

\* No two names ever share a slot of the file of records
\* (files_handler.cpp:74-82).
THEOREM SlotsStayApart == Spec => []SlotsApart
<1>1. StorageInv => SlotsApart
  BY DEF StorageInv
<1>2. QED
  BY <1>1, StorageInvariant, PTL

\* The slot of a name holds a record of that name, unless a crash cut its first
\* save (files_handler.cpp:63-90).
THEOREM SlotsHoldOwnRecords == Spec => []SlotHoldsOwnRecord
<1>1. TypeOK /\ StorageInv => SlotHoldsOwnRecord
  <2> SUFFICES ASSUME TypeOK, StorageInv, NEW k \in Keys, k \notin cut, ~WritingFirst(k)
               PROVE  Owned(players_positions, k)
    BY DEF SlotHoldsOwnRecord
  <2>1. CASE WritingNew(k)
    <3>1. operation # None /\ operation.step = "positions"
      BY <2>1 DEF WritingNew, WritingFirst, TypeOK, Steps, Operations
    <3>2. players_positions = NoPositions
      BY <3>1 DEF StorageInv, OperationOk
    <3>3. QED
      BY <3>2, NoPositionsApart DEF Owned
  <2>2. CASE ~WritingNew(k)
    BY <2>2 DEF StorageInv
  <2>3. QED
    BY <2>1, <2>2
<1>2. QED
  BY <1>1, StorageInvariant, PTL

\* A login gives a player its own hero, unless a crash cut its first save
\* (get_player_status(), files_handler.cpp:92-120).
THEOREM LoginIsOwn == Spec => LoginGivesOwnHero
<1> DEFINE Own == \A s \in Sessions :
                    LogsIn(s) /\ player_name'[s] \notin cut =>
                      heroes'[s].name = player_name'[s]
<1>1. TypeOK /\ StorageInv /\ [Next]_vars => [Own]_vars
  <2> SUFFICES ASSUME TypeOK, StorageInv, Next, NEW s \in Sessions,
                      LogsIn(s), player_name'[s] \notin cut
               PROVE  heroes'[s].name = player_name'[s]
    OBVIOUS
  <2> USE DEF LogsIn, TypeOK
  <2>1. ASSUME NEW r \in Sessions, NEW n \in Names, Login(r, n)
        PROVE  heroes'[s].name = player_name'[s]
    <3>1. r = s
      BY <2>1 DEF Login
    <3>2. /\ operation = None /\ player_name'[s] = n
          /\ heroes'[s] = PlayerStatus(n)
      BY <2>1, <3>1 DEF Login
    <3>3. Owned(players_positions, n)
      BY <3>2 DEF StorageInv, WritingNew, Keys
    <3>4. PlayerStatus(n).name = n
      BY <3>3 DEF PlayerStatus, Owned, NewHero
    <3>5. QED
      BY <3>2, <3>4
  <2>2. stage'[s] # "playing" \/ \E r \in Sessions, n \in Names : Login(r, n)
    <3> USE DEF memory, savers, files, history
    <3>1. ASSUME NEW r \in Sessions, Change(r) \/ SerializeHero(r)
          PROVE  stage' = stage
      BY <3>1 DEF Change, SerializeHero
    <3>2. ASSUME NEW r \in Sessions, Quit(r) \/ DeleteHero(r)
          PROVE  stage'[s] # "playing"
      BY <3>2 DEF Quit, DeleteHero
    <3>3. ASSUME NEW t \in Threads, StartSave(t) PROVE stage' = stage
      BY <3>3 DEF StartSave
    <3>4. CASE PopSerialization \/ CopyHeroes \/ WritePositions \/ WriteRecord
      BY <3>4 DEF PopSerialization, CopyHeroes, WritePositions, WriteRecord
    <3>5. ASSUME Crash PROVE stage'[s] # "playing"
      BY <3>5 DEF Crash
    <3>6. QED
      BY <3>1, <3>2, <3>3, <3>4, <3>5 DEF Next, PlayerActs, Save
  <2>3. QED
    BY <2>1, <2>2
<1>2. QED
  BY <1>1, StorageInvariant, PTL DEF Spec, LoginGivesOwnHero
=============================================================================
