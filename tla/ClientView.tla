------------------------------ MODULE ClientView ------------------------------
(***************************************************************************)
(* What a client shows of the room its hero is in.                         *)
(*                                                                         *)
(* The room of hero Me reports its entities in status notifications.  They *)
(* wait in the queue of the client, its sender writes each on the socket   *)
(* in two writes, size and contents, and the client's updater applies it   *)
(* to the map it draws.  A change of room is told by the thread of the     *)
(* receiver, which writes on the same socket at once.                      *)
(***************************************************************************)
EXTENDS Integers, Sequences, FiniteSets, Functions

CONSTANTS
  Me,             \* the hero of the client
  Others,         \* other heroes
  Monsters, Drops,   \* of the first room
  Rooms, First,
  Lifetime,       \* updates an animation lasts
  QueueBound, WireBound,
  NewsBound,      \* bound: how much a status tells but who is there
  NoRoom

ASSUME ClientViewAssumption ==
  /\ Me \notin Others /\ First \in Rooms /\ NoRoom \notin Rooms
  /\ (Others \cup {Me}) \cap (Monsters \cup Drops) = {} /\ Monsters \cap Drops = {}
  /\ Lifetime \in Nat \ {0} /\ QueueBound \in Nat \ {0} /\ NewsBound \in Nat
  /\ WireBound \in Nat \ {0, 1}

VARIABLES
  place,          \* the room of each hero
  queue,          \* statuses the sender has not taken
  sending,        \* what the sender has begun to write
  telling,        \* the room the receiver has begun to tell, or is about to
  socket,           \* what is written and not read
  new_map,        \* a change of map the next status has to make, or NoRoom
  background,
  current_status, \* what the last statuses said of each entity
  characters, items,   \* what is drawn: write_map
  affected,       \* the animation left on each character hit
  unseen,         \* history: those a status that changed the map knew already
  fault

serverVars == <<place, queue, sending, telling>>
drawn == <<background, current_status, characters, items, affected>>
clientVars == <<new_map, drawn, unseen>>
viewVars == <<serverVars, socket, clientVars, fault>>

Heroes == Others \cup {Me}
Movers == Heroes \cup Monsters
Entities == Movers \cup Drops

\* How an entity looks in a status, as far as is_equal() tells: the position,
\* the orientation, the equipment and the ghost of it are one of two looks.
Looks == {"left", "right"}
EntityStatus == [look : Looks, hit : BOOLEAN]
Statuses(E) == [E -> EntityStatus]

AtRest == [look |-> "left", hit |-> FALSE]

\* What a status tells of its entities but that they are there and at rest.
News(s) ==
  {<<e, "right">> : e \in {x \in DOMAIN s : s[x].look = "right"}}
  \cup {<<e, "hit">> : e \in {x \in DOMAIN s : s[x].hit}}
  \cup {<<e, "lies">> : e \in DOMAIN s \cap Drops}

Status(s) == [kind |-> "status", of |-> s]
MapChange(r) == [kind |-> "map", of |-> r]
Size(n) == [part |-> "size", note |-> n]
Contents(n) == [part |-> "contents", note |-> n]

AnyStatus == UNION {Statuses(E \cup {Me}) : E \in SUBSET (Entities \ {Me})}
Notes == {Status(s) : s \in AnyStatus} \cup {MapChange(r) : r \in Rooms}

ViewTypeOK ==
  /\ place \in [Heroes -> Rooms]
  /\ queue \in Seq(AnyStatus) /\ Len(queue) <= QueueBound
  /\ sending \in Seq(Notes) /\ Len(sending) <= 1
  /\ telling \in [room : Rooms, at : {"done", "queue", "size", "contents"}]
  /\ socket \in Seq([part : {"size", "contents"}, note : Notes]) /\ Len(socket) <= WireBound
  /\ new_map \in Rooms \cup {NoRoom} /\ background \in Rooms
  /\ DOMAIN current_status \subseteq Entities
  /\ DOMAIN characters \subseteq Movers /\ items \subseteq Drops
  /\ DOMAIN affected \subseteq Movers
  /\ \A e \in DOMAIN affected : affected[e] \in -1 .. Lifetime
  /\ unseen \subseteq Movers
  /\ fault \in {"none", "garbled", "missing", "erased"}

ViewInit ==
  /\ place = [h \in Heroes |-> First]
  /\ queue = <<>> /\ sending = <<>> /\ telling = [room |-> First, at |-> "done"] /\ socket = <<>>
  /\ new_map = NoRoom /\ background = First
  /\ current_status = <<>> /\ characters = <<>> /\ items = {} /\ affected = <<>>
  /\ unseen = {} /\ fault = "none"

-----------------------------------------------------------------------------
(* The server *)

\* Whose statuses the room r makes: its heroes and, in the first room, monsters
\* and the drops that are not empty.
Reports(r) ==
  LET heroes == {h \in Heroes : place[h] = r} IN
    UNION {Statuses(heroes \cup E) :
             E \in IF r = First THEN {Monsters \cup D : D \in SUBSET Drops} ELSE {{}}}

\* The queue of the client is one of room r's.
Registered(r) == place[Me] = r /\ telling.at # "queue"

\* A turn of a room: its entities have moved, have been hit, and all is reported.
\* A drop is never hit and lies where it lies; the others, the hero of the client
\* among them, may have moved, turned, dressed, died or been hit since the last turn.
SendGameStatus(r) ==
  /\ Registered(r) /\ Len(queue) < QueueBound
  /\ \E s \in Reports(r) :
       /\ \A d \in Drops \cap DOMAIN s : s[d] = AtRest
       /\ Cardinality(News(s)) <= NewsBound
       /\ queue' = Append(queue, s)
  /\ UNCHANGED <<place, sending, telling, socket, clientVars, fault>>

\* Another player changes its room.
OtherChanges(h, r) ==
  /\ place[h] # r /\ place' = [place EXCEPT ![h] = r]
  /\ UNCHANGED <<queue, sending, telling, socket, clientVars, fault>>

\* (mutant) The notification made before the room is assigned.
ToldBeforeAssigned(r) ==
  /\ telling.at = "done" /\ place[Me] # r
  /\ place' = [place EXCEPT ![Me] = r]
  /\ telling' = [room |-> place[Me], at |-> "queue"]
  /\ UNCHANGED <<queue, sending, socket, clientVars, fault>>

\* The receiver of Me takes hero and queue out of the old room and gives the new
\* one the hero first; the queue follows, and then the client is told.
ChangeGameRoom(r) ==
  /\ telling.at = "done" /\ place[Me] # r
  /\ place' = [place EXCEPT ![Me] = r]
  /\ telling' = [room |-> r, at |-> "queue"]
  /\ UNCHANGED <<queue, sending, socket, clientVars, fault>>

AddNotificationQueue ==
  /\ telling.at = "queue"
  /\ telling' = [telling EXCEPT !.at = "size"]
  /\ UNCHANGED <<place, queue, sending, socket, clientVars, fault>>

Write(part) == Len(socket) < WireBound /\ socket' = Append(socket, part)

TellSize ==
  /\ telling.at = "size"
  /\ Write(Size(MapChange(telling.room)))
  /\ telling' = [telling EXCEPT !.at = "contents"]
  /\ UNCHANGED <<place, queue, sending, clientVars, fault>>

TellContents ==
  /\ telling.at = "contents"
  /\ Write(Contents(MapChange(telling.room)))
  /\ telling' = [telling EXCEPT !.at = "done"]
  /\ UNCHANGED <<place, queue, sending, clientVars, fault>>

SendSize ==
  /\ sending = <<>> /\ queue # <<>>
  /\ sending' = <<Status(Head(queue))>> /\ queue' = Tail(queue)
  /\ Write(Size(Status(Head(queue))))
  /\ UNCHANGED <<place, telling, clientVars, fault>>

SendContents ==
  /\ sending # <<>> /\ Write(Contents(sending[1])) /\ sending' = <<>>
  /\ UNCHANGED <<place, queue, telling, clientVars, fault>>

-----------------------------------------------------------------------------
(* The client *)

Without(f, S) == Restrict(f, DOMAIN f \ S)
With(f, g) == [x \in DOMAIN f \cup DOMAIN g |-> IF x \in DOMAIN g THEN g[x] ELSE f[x]]

\* The status knows the entity and it is not an item.
Known(next) == (DOMAIN next \cap DOMAIN current_status) \ Drops

Changed(next) == {e \in Known(next) : current_status[e] # next[e].look}

\* What a change of map leaves of the characters: the hero of the client.
Kept == IF new_map = NoRoom THEN characters ELSE Restrict(characters, DOMAIN characters \cap {Me})

\* The changed are updated, the unknown loaded.
Updated(next) ==
  With(Kept, [e \in Changed(next) \cup (DOMAIN next \ (Known(next) \cup Drops)) |->
                next[e].look])

\* (mutant) The animations of the old map kept.
AnimationsKept(next) ==
  LET hit == {e \in DOMAIN next : next[e].hit /\ (e \in DOMAIN affected => affected[e] = 0)}
  IN With(affected, [e \in hit |-> Lifetime])

\* An animation begins where none is under way.
Begun(next) ==
  LET left == IF new_map = NoRoom THEN affected ELSE <<>>
      hit == {e \in DOMAIN next : next[e].hit /\ (e \in DOMAIN left => left[e] = 0)}
  IN With(left, [e \in hit |-> Lifetime])

\* (mutant) An animation that is over is never forgotten.
NeverForgotten(animations) ==
  [e \in DOMAIN animations |-> IF animations[e] = -1 THEN -1 ELSE animations[e] - 1]

\* A turn of it passes, or it is over and forgotten.
Passed(animations) ==
  [e \in {x \in DOMAIN animations : animations[x] # -1} |-> animations[e] - 1]

\* A pointer that is not in the map is followed: to update what is not drawn, or
\* to show an animation on it.
Missing(next) ==
  \/ ~ (Changed(next) \subseteq DOMAIN Kept)
  \/ \E e \in DOMAIN Begun(next) : Begun(next)[e] >= 0 /\ e \notin DOMAIN Updated(next)

\* An element is erased under the iterator that then goes on.
Erases(next) == \E e \in DOMAIN Begun(next) : Begun(next)[e] = -1

\* Known entities the status leaves out, and no animation keeps.
Absent(next) ==
  DOMAIN current_status \ (DOMAIN next \cup DOMAIN Passed(Begun(next)))

\* Whom the old map's statuses know: a change of map takes them off the drawing, and
\* then leaves them off, as known and unchanged.  The client's own hero stays on it.
Met(next) == IF new_map = NoRoom THEN {} ELSE Known(next) \ {Me}

MapWriter(next) ==
  /\ background' = IF new_map = NoRoom THEN background ELSE new_map
  /\ new_map' = NoRoom
  /\ characters' = Without(Updated(next), Absent(next))
  /\ items' = ((IF new_map = NoRoom THEN items ELSE {}) \cup (DOMAIN next \cap Drops))
                \ Absent(next)
  /\ affected' = Passed(Begun(next))
  /\ current_status' = Without(With(current_status, [e \in DOMAIN next |-> next[e].look]),
                             Absent(next))
  /\ unseen' = (unseen \cup Met(next)) \ Absent(next)
  /\ fault' \in IF Missing(next) THEN {"missing"}
                ELSE IF Erases(next) THEN {"none", "erased"} ELSE {"none"}

\* recv() of the size, and of as many bytes as it says.
ReceiveNotification(n) ==
  /\ Len(socket) >= 2 /\ n = socket[1].note /\ socket[2] = Contents(n)
  /\ socket' = SubSeq(socket, 3, Len(socket))

ReceiveStatus ==
  /\ socket # <<>> /\ socket[1].note.kind = "status"
  /\ ReceiveNotification(socket[1].note) /\ MapWriter(socket[1].note.of)
  /\ UNCHANGED serverVars

ReceiveMapChange ==
  /\ socket # <<>> /\ socket[1].note.kind = "map"
  /\ ReceiveNotification(socket[1].note) /\ new_map' = socket[1].note.of
  /\ UNCHANGED <<serverVars, drawn, unseen, fault>>

\* Two notifications written through each other.
ReceiveGarbled ==
  /\ Len(socket) >= 2 /\ socket[2] # Contents(socket[1].note)
  /\ fault' = "garbled"
  /\ UNCHANGED <<serverVars, socket, clientVars>>

-----------------------------------------------------------------------------

Sound == fault = "none"

Room(r) == Sound /\ SendGameStatus(r)
Receiver == Sound /\ (AddNotificationQueue \/ TellSize \/ TellContents)
Sender == Sound /\ (SendSize \/ SendContents)
Updater == Sound /\ (ReceiveStatus \/ ReceiveMapChange \/ ReceiveGarbled)
Players ==
  /\ Sound
  /\ \E r \in Rooms : ChangeGameRoom(r) \/ \E h \in Others : OtherChanges(h, r)

ViewNext == (\E r \in Rooms : Room(r)) \/ Receiver \/ Sender \/ Updater \/ Players

\* The rooms take their turns, the threads of the client's handler write as long
\* as there is place for it, and the updater reads what is written.
Fairness ==
  /\ WF_viewVars(\E r \in Rooms : Room(r)) /\ SF_viewVars(Receiver) /\ WF_viewVars(Updater)
  /\ SF_viewVars(Sender)

ViewSpec == ViewInit /\ [][ViewNext]_viewVars /\ Fairness

-----------------------------------------------------------------------------
(* Properties *)

\* What is drawn is what the last statuses said, each character at its place, whoever
\* moves, is hit, leaves, comes back or changes room, the client's own hero included.
\* The exceptions are those the statuses of the old map knew when a status changed the
\* map, which are not forgotten (protected_map.cpp:36): exactly they are not drawn, until
\* a status leaves them out, and only they can make the client follow a pointer to a
\* character that is not drawn.
ShownAsReported ==
  /\ items = DOMAIN current_status \cap Drops
  /\ \A e \in DOMAIN characters :
       e \in DOMAIN current_status /\ characters[e] = current_status[e]
  /\ fault = "missing" => unseen # {}
  /\ fault # "missing" => DOMAIN characters = DOMAIN current_status \ (Drops \cup unseen)

\* "Chequeamos si dicha entidad ya existia dentro del mapa" (protected_map.cpp:70):
\* an entity that is found among the statuses is in the map.
KnownEntitiesAreInTheMap == DOMAIN current_status \ Drops \subseteq DOMAIN characters

\* Who has gone to another room disappears, even when it was hit and an animation
\* is kept for it, unless the two meet again or the client has ended.
LeaversDisappear ==
  \A h \in Others :
    place[h] # place[Me] ~> (h \notin DOMAIN characters \/ place[h] = place[Me] \/ ~ Sound)

\* The map drawn becomes the one of the room the hero is in: a change told past
\* the queue is not undone by what the queue still holds.
MapFollowsHero ==
  \A r \in Rooms :
    place[Me] = r ~> (background = r \/ place[Me] # r \/ ~ Sound)

=============================================================================
