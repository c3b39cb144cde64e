------------------------------ MODULE GameRooms ------------------------------
(***************************************************************************)
(* Sessions, heroes and rooms of the server.                               *)
(*                                                                         *)
(* One thread accepts clients (ClientListener::run), two threads serve     *)
(* each client (ClientCommandReceiver::run, ClientNotificationSender::run) *)
(* and one thread runs each room (ArgentumGame::run).  They share, per     *)
(* room, the map of heroes, the map of notification queues and the queue   *)
(* of commands.  The room's mutex protects the first two while the room    *)
(* executes commands, but not while it removes the dead heroes.            *)
(*                                                                         *)
(* A session is one connection; it also names the hero (the entity id it   *)
(* was given) and the notification queue the listener created for it.      *)
(* What a command other than Quit does to the hero, and what the monsters  *)
(* and projectiles do in update(), is the business of other modules and    *)
(* leaves the state here unchanged.                                        *)
(*                                                                         *)
(* A client need not read what it is sent: the thread that sends to it may *)
(* then wait for ever in send() (client_notification_sender.cpp:41).       *)
(***************************************************************************)
EXTENDS Naturals, Sequences

CONSTANTS Sessions,     \* connections a run of the server accepts
          Rooms,        \* indices of game_rooms, one ArgentumGame each
          MaxRequests,  \* bound: commands and room changes a client sends
          Unreliable,   \* bound: connections whose clients may stop reading
          NoRoom,       \* a receiver not yet created has no room
          NoSession     \* the listener is not busy with any session

ASSUME RoomsAssumption == /\ NoRoom \notin Rooms
                          /\ NoSession \notin Sessions
                          /\ MaxRequests \in Nat
                          /\ Unreliable \subseteq Sessions

VARIABLES
  listener,              \* what the listener thread does next, and for whom
  clients,               \* ClientListener::clients
  unchecked,             \* clients the garbage collector has yet to look at
  receiver,              \* where each receiver thread is in its loop
  sender,                \* whether each sender thread is running
  deaf,                  \* clients that are connected and no longer read
  requests,              \* requests each client has sent (bounded)
  current_game_room,     \* the receiver's room, and so its commands_queue
  destination,           \* the room a travelling hero is being moved to
  notifications_queue,   \* life of each session's notification queue
  loop,                  \* what each room's thread does next
  heroes,                \* ArgentumGame::heroes, per room
  dead,                  \* heroes with alive = false
  queues_notifications,  \* ArgentumGame::queues_notifications, per room
  commands_queue,        \* each room's ThreadSafeQueue<Command*>
  saves,                 \* serializations pushed to the players' saver
  misread                \* history: is_closed() of their deleted queue gave false

listenerVars == <<listener, clients, unchecked>>
clientVars   == <<receiver, sender, deaf, requests, current_game_room,
                  destination>>
roomVars     == <<loop, heroes, dead, queues_notifications, commands_queue>>
records      == <<saves, misread>>
vars == <<listenerVars, clientVars, notifications_queue, roomVars, records>>

-----------------------------------------------------------------------------
(* Types *)

\* Any command whose handler ignores a hero that is not in the room, and Quit,
\* whose handler does not.
CommandKinds == {"act", "quit"}
Commands == [kind : CommandKinds, uid : Sessions]
Command(k, s) == [kind |-> k, uid |-> s]

\* The listener is between two sessions, or busy with one.
FreeSteps == {"accept", "collect"}
BusySteps == {"register", "spawn", "join_sender", "join_receiver"}
ReceiverSteps == {"none", "running", "travelling", "arrived", "closing",
                  "lost", "done"}
QueueStates   == {"none", "open", "closed", "deleted"}
LoopSteps     == {"update", "executing", "status", "sending", "cleanup"}

TypeOK ==
  /\ listener \in [step : FreeSteps, client : {NoSession}]
                 \cup [step : BusySteps, client : Sessions]
  /\ clients \in SUBSET Sessions
  /\ unchecked \in SUBSET Sessions
  /\ receiver \in [Sessions -> ReceiverSteps]
  /\ sender \in [Sessions -> {"none", "running", "done"}]
  /\ deaf \in SUBSET Sessions
  /\ requests \in [Sessions -> 0..MaxRequests]
  /\ current_game_room \in [Sessions -> Rooms \cup {NoRoom}]
  /\ destination \in [Sessions -> Rooms \cup {NoRoom}]
  /\ notifications_queue \in [Sessions -> QueueStates]
  /\ loop \in [Rooms -> LoopSteps]
  /\ heroes \in [Rooms -> SUBSET Sessions]
  /\ dead \in SUBSET Sessions
  /\ queues_notifications \in [Rooms -> SUBSET Sessions]
  /\ commands_queue \in [Rooms -> Seq(Commands)]
  /\ saves \in [Sessions -> Nat]
  /\ misread \in SUBSET Sessions

Init ==
  /\ listener = [step |-> "accept", client |-> NoSession]
  /\ clients = {}
  /\ unchecked = {}
  /\ receiver = [s \in Sessions |-> "none"]
  /\ sender = [s \in Sessions |-> "none"]
  /\ deaf = {}
  /\ requests = [s \in Sessions |-> 0]
  /\ current_game_room = [s \in Sessions |-> NoRoom]
  /\ destination = [s \in Sessions |-> NoRoom]
  /\ notifications_queue = [s \in Sessions |-> "none"]
  /\ loop = [r \in Rooms |-> "update"]
  /\ heroes = [r \in Rooms |-> {}]
  /\ dead = {}
  /\ queues_notifications = [r \in Rooms |-> {}]
  /\ commands_queue = [r \in Rooms |-> <<>>]
  /\ saves = [s \in Sessions |-> 0]
  /\ misread = {}

-----------------------------------------------------------------------------
(* Helpers *)

\* The room's thread holds the mutex from the first command of update() to the
\* end of update().  The other critical sections are one action each.
Locked(r) == loop[r] = "executing"

\* Not the code: a receiver in the middle of a room change counted as stopped.
IsAliveUnlessOnTheRoad(s) == receiver[s] \in {"running", "closing"}

\* ClientHandler::is_alive: the flag the receiver clears when it stops.
IsAlive(s) == receiver[s] \in {"running", "travelling", "arrived", "closing"}

\* Queues whose Notification queue object was deleted with its sender.
Deleted == {s \in Sessions : notifications_queue[s] = "deleted"}

Push(r, k, s) ==
  commands_queue' = [commands_queue EXCEPT ![r] = Append(@, Command(k, s))]

\* Not the code: an erase forgotten.
NoHeroErased(r, s) == heroes
NoQueueErased(r, s) == queues_notifications

\* The entries of a room's two maps.
WithHero(r, s) == [heroes EXCEPT ![r] = @ \cup {s}]
WithoutHero(r, s) == [heroes EXCEPT ![r] = @ \ {s}]
WithQueue(r, s) == [queues_notifications EXCEPT ![r] = @ \cup {s}]
WithoutQueue(r, s) == [queues_notifications EXCEPT ![r] = @ \ {s}]

\* Not the code: a receiver that keeps its old room's queue of commands.
SameRoom(s) == current_game_room[s]

\* change_game_room() ends with commands_queue and current_game_room those of
\* the new room.
RoomAfterChange(s) == destination[s]

\* Not the code: a receiver that goes on reading after the client's Quit.
KeepReading == "running"

\* After a Quit the receiver clears alive and leaves its loop.
StepAfterQuit == "done"

\* Not the code: stop() without close(), kill_player() caught and ignored.
LeaveOpen(s) == notifications_queue
Spared(s) == dead

Closed(s) == [notifications_queue EXCEPT ![s] = "closed"]

\* kill_player() clears the hero's alive flag.
Killed(s) == dead \cup {s}

\* Not the code: a listener that loses the client it is busy with.
GotoNobody(step, s) == listener' = [step |-> step, client |-> NoSession]

Goto(step, s) == listener' = [step |-> step, client |-> s]

-----------------------------------------------------------------------------
(* The listener thread: ClientListener::run and garbage_collector *)

\* accept(), the login command, then add_new_hero() under the room's mutex.
\* The notification queue was created just before.
AddNewHero(s, r) ==
  /\ listener.step = "accept"
  /\ current_game_room[s] = NoRoom
  /\ ~Locked(r)
  /\ Goto("register", s)
  /\ notifications_queue' = [notifications_queue EXCEPT ![s] = "open"]
  /\ current_game_room' = [current_game_room EXCEPT ![s] = r]
  /\ heroes' = WithHero(r, s)
  /\ UNCHANGED <<clients, unchecked, receiver, sender, deaf, requests, destination,
                 loop, dead, queues_notifications, commands_queue, records>>

\* add_notification_queue() of the login's room.
RegisterNewQueue ==
  LET s == listener.client
      r == current_game_room[s]
  IN  /\ listener.step = "register"
      /\ ~Locked(r)
      /\ Goto("spawn", s)
      /\ queues_notifications' = WithQueue(r, s)
      /\ UNCHANGED <<clients, unchecked, clientVars, notifications_queue,
                     loop, heroes, dead, commands_queue, records>>

\* new ClientHandler starts the sender and the receiver; garbage_collector()
\* then walks the whole list of clients.
StartClient ==
  LET s == listener.client
  IN  /\ listener.step = "spawn"
      /\ Goto("collect", NoSession)
      /\ receiver' = [receiver EXCEPT ![s] = "running"]
      /\ sender' = [sender EXCEPT ![s] = "running"]
      /\ clients' = clients \cup {s}
      /\ unchecked' = clients \cup {s}
      /\ UNCHANGED <<deaf, requests, current_game_room, destination,
                     notifications_queue, roomVars, records>>

SkipLiveClient(s) ==
  /\ listener.step = "collect"
  /\ s \in unchecked
  /\ IsAlive(s)
  /\ unchecked' = unchecked \ {s}
  /\ UNCHANGED <<listener, clients, clientVars, notifications_queue, roomVars,
                 records>>

\* ~ClientHandler, first line: sender->stop() closes the queue.
StopSender(s) ==
  /\ listener.step = "collect"
  /\ s \in unchecked
  /\ ~IsAlive(s)
  /\ Goto("join_sender", s)
  /\ unchecked' = unchecked \ {s}
  /\ notifications_queue' = Closed(s)
  /\ UNCHANGED <<clients, clientVars, roomVars, records>>

\* delete sender: joins its thread, then deletes the queue.
DeleteSender ==
  LET s == listener.client
  IN  /\ listener.step = "join_sender"
      /\ sender[s] = "done"
      /\ Goto("join_receiver", s)
      /\ notifications_queue' = [notifications_queue EXCEPT ![s] = "deleted"]
      /\ UNCHANGED <<clients, unchecked, clientVars, roomVars, records>>

\* The socket is closed and delete receiver joins the receiver's thread.
DeleteReceiver ==
  LET s == listener.client
  IN  /\ listener.step = "join_receiver"
      /\ receiver[s] = "done"
      /\ Goto("collect", NoSession)
      /\ clients' = clients \ {s}
      /\ UNCHANGED <<unchecked, clientVars, notifications_queue, roomVars,
                     records>>

EndCollection ==
  /\ listener.step = "collect"
  /\ unchecked = {}
  /\ Goto("accept", NoSession)
  /\ UNCHANGED <<clients, unchecked, clientVars, notifications_queue, roomVars,
                 records>>

-----------------------------------------------------------------------------
(* The receiver threads: ClientCommandReceiver::run *)

\* A command other than Quit and the room change.
ReceiveCommand(s) ==
  /\ receiver[s] = "running"
  /\ requests[s] < MaxRequests
  /\ requests' = [requests EXCEPT ![s] = @ + 1]
  /\ Push(current_game_room[s], "act", s)
  /\ UNCHANGED <<listenerVars, receiver, sender, deaf, current_game_room,
                 destination, notifications_queue, loop, heroes, dead,
                 queues_notifications, records>>

\* change_game_room(), in three critical sections: the old room forgets the
\* hero and its queue, the new room takes the hero, then its queue.
LeaveRoom(s, r) ==
  LET old == current_game_room[s]
  IN  /\ receiver[s] = "running"
      /\ requests[s] < MaxRequests
      /\ r # old
      /\ ~Locked(old)
      /\ requests' = [requests EXCEPT ![s] = @ + 1]
      /\ receiver' = [receiver EXCEPT ![s] = "travelling"]
      /\ destination' = [destination EXCEPT ![s] = r]
      /\ heroes' = WithoutHero(old, s)
      /\ queues_notifications' = WithoutQueue(old, s)
      /\ UNCHANGED <<listenerVars, sender, deaf, current_game_room,
                     notifications_queue, loop, dead, commands_queue, records>>

AddExistingHero(s) ==
  LET new == destination[s]
  IN  /\ receiver[s] = "travelling"
      /\ ~Locked(new)
      /\ receiver' = [receiver EXCEPT ![s] = "arrived"]
      /\ heroes' = WithHero(new, s)
      /\ UNCHANGED <<listenerVars, sender, deaf, requests, current_game_room,
                     destination, notifications_queue, loop, dead,
                     queues_notifications, commands_queue, records>>

\* The last critical section; the receiver then adopts the new room's queue of
\* commands, which no other thread reads.
AddExistingQueue(s) ==
  LET new == destination[s]
  IN  /\ receiver[s] = "arrived"
      /\ ~Locked(new)
      /\ receiver' = [receiver EXCEPT ![s] = "running"]
      /\ current_game_room' =
           [current_game_room EXCEPT ![s] = RoomAfterChange(s)]
      /\ queues_notifications' = WithQueue(new, s)
      /\ UNCHANGED <<listenerVars, sender, deaf, requests, destination,
                     notifications_queue, loop, heroes, dead, commands_queue,
                     records>>

\* The client asks to quit: the command is pushed like any other and the
\* receiver then answers, forgets the player's name and stops.
ReceiveQuit(s) ==
  /\ receiver[s] = "running"
  /\ receiver' = [receiver EXCEPT ![s] = "closing"]
  /\ Push(current_game_room[s], "quit", s)
  /\ UNCHANGED <<listenerVars, sender, deaf, requests, current_game_room,
                 destination, notifications_queue, loop, heroes, dead,
                 queues_notifications, records>>

StopAfterQuit(s) ==
  /\ receiver[s] = "closing"
  /\ receiver' = [receiver EXCEPT ![s] = StepAfterQuit]
  /\ UNCHANGED <<listenerVars, sender, deaf, requests, current_game_room,
                 destination, notifications_queue, roomVars, records>>

\* The connection is lost: alive is cleared before the Quit is pushed, and what
\* was blocked in a send() of it fails.
LoseConnection(s) ==
  /\ receiver[s] = "running"
  /\ receiver' = [receiver EXCEPT ![s] = "lost"]
  /\ deaf' = deaf \ {s}
  /\ UNCHANGED <<listenerVars, sender, requests, current_game_room,
                 destination, notifications_queue, roomVars, records>>

QuitForLostClient(s) ==
  /\ receiver[s] = "lost"
  /\ receiver' = [receiver EXCEPT ![s] = "done"]
  /\ Push(current_game_room[s], "quit", s)
  /\ UNCHANGED <<listenerVars, sender, deaf, requests, current_game_room,
                 destination, notifications_queue, loop, heroes, dead,
                 queues_notifications, records>>

\* From now on the client reads nothing it is sent, though it may go on sending:
\* what is sent to it fills the buffers of the connection, and send() blocks.
StopReading(s) ==
  /\ s \in Unreliable \ deaf
  /\ receiver[s] \in {"running", "travelling", "arrived", "closing"}
  /\ deaf' = deaf \cup {s}
  /\ UNCHANGED <<listenerVars, receiver, sender, requests, current_game_room,
                 destination, notifications_queue, roomVars, records>>

(* The sender threads: ClientNotificationSender::run leaves its loop when the
   queue is closed, whatever is left in it, once the send() it may be in ends. *)
SenderStops(s) ==
  /\ sender[s] = "running"
  /\ notifications_queue[s] = "closed"
  /\ sender' = [sender EXCEPT ![s] = "done"]
  /\ UNCHANGED <<listenerVars, receiver, deaf, requests, current_game_room,
                 destination, notifications_queue, roomVars, records>>

-----------------------------------------------------------------------------
(* The rooms' threads: ArgentumGame::run *)

Advance(r, from, to) ==
  /\ loop[r] = from
  /\ loop' = [loop EXCEPT ![r] = to]

\* update() takes the mutex.
BeginUpdate(r) ==
  /\ Advance(r, "update", "executing")
  /\ UNCHANGED <<listenerVars, clientVars, notifications_queue, heroes, dead,
                 queues_notifications, commands_queue, records>>

\* A command of a hero that is elsewhere is caught (out_of_range) and dropped.
ExecuteAct(r) ==
  /\ Locked(r)
  /\ commands_queue[r] # <<>>
  /\ Head(commands_queue[r]).kind = "act"
  /\ commands_queue' = [commands_queue EXCEPT ![r] = Tail(@)]
  /\ UNCHANGED <<listenerVars, clientVars, notifications_queue, loop, heroes,
                 dead, queues_notifications, records>>

\* QuitCommand::execute: get_hero_by_id() (an exception nobody catches if the
\* hero is elsewhere), the save, stop_notification_queue(),
\* clean_notifications_queues() and kill_player().  is_closed() on a queue that
\* was deleted reads freed memory, so the entry may stay.
ExecuteQuit(r) ==
  /\ Locked(r)
  /\ commands_queue[r] # <<>>
  /\ Head(commands_queue[r]).kind = "quit"
  /\ LET s == Head(commands_queue[r]).uid
     IN  /\ s \in heroes[r]
         /\ saves' = [saves EXCEPT ![s] = @ + 1]
         /\ notifications_queue' =
              IF s \in queues_notifications[r] \ Deleted
              THEN Closed(s)
              ELSE notifications_queue
         /\ \E stale \in SUBSET (queues_notifications[r] \cap Deleted) :
              /\ queues_notifications' =
                   [queues_notifications EXCEPT ![r] =
                      {q \in @ \ Deleted : notifications_queue'[q] # "closed"}
                        \cup stale]
              /\ misread' = misread \cup (stale \cap {s})
         /\ dead' = Killed(s)
  /\ commands_queue' = [commands_queue EXCEPT ![r] = Tail(@)]
  /\ UNCHANGED <<listenerVars, clientVars, loop, heroes>>

\* Not the code: an update that waits for a hero and keeps the mutex meanwhile.
EndUpdateOfHeroes(r) ==
  /\ commands_queue[r] = <<>> /\ loop[r] = "executing"
  /\ loop' = [loop EXCEPT ![r] = IF heroes[r] = {} THEN @ ELSE "status"]
  /\ UNCHANGED <<listenerVars, clientVars, notifications_queue, heroes, dead,
                 queues_notifications, commands_queue, records>>

\* No command left: the rest of update() runs and releases the mutex.
EndUpdate(r) ==
  /\ commands_queue[r] = <<>>
  /\ Advance(r, "executing", "status")
  /\ UNCHANGED <<listenerVars, clientVars, notifications_queue, heroes, dead,
                 queues_notifications, commands_queue, records>>

\* send_game_status() looks at heroes.size() before it takes the mutex.
LookForHeroes(r) ==
  /\ Advance(r, "status", IF heroes[r] = {} THEN "cleanup" ELSE "sending")
  /\ UNCHANGED <<listenerVars, clientVars, notifications_queue, heroes, dead,
                 queues_notifications, commands_queue, records>>

\* It then pushes the status on every queue of queues_notifications, closed or
\* not.  What the queues hold is left out.
SendGameStatus(r) ==
  /\ Advance(r, "sending", "cleanup")
  /\ UNCHANGED <<listenerVars, clientVars, notifications_queue, heroes, dead,
                 queues_notifications, commands_queue, records>>

\* clear_heroes_effects() and remove_death_entities(), without the mutex.  The
\* races of this step with the critical sections of other threads are not
\* given an outcome here: it is one action.
RemoveDeadHeroes(r) ==
  /\ Advance(r, "cleanup", "update")
  /\ heroes' = [heroes EXCEPT ![r] = @ \ dead]
  /\ UNCHANGED <<listenerVars, clientVars, notifications_queue, dead,
                 queues_notifications, commands_queue, records>>

-----------------------------------------------------------------------------
ListenerNext ==
  \/ RegisterNewQueue
  \/ StartClient
  \/ \E s \in Sessions : SkipLiveClient(s) \/ StopSender(s)
  \/ DeleteSender
  \/ DeleteReceiver
  \/ EndCollection

\* What the receiver does on its own once it has read a request.
ReceiverContinues(s) ==
  \/ AddExistingHero(s)
  \/ AddExistingQueue(s)
  \/ QuitForLostClient(s)

\* What a thread does once what it was sending has been sent.
AfterSend(s) == StopAfterQuit(s) \/ SenderStops(s)

ClientActs(s) ==
  \/ \E r \in Rooms : AddNewHero(s, r)
  \/ ReceiveCommand(s)
  \/ \E r \in Rooms : LeaveRoom(s, r)
  \/ ReceiveQuit(s)
  \/ LoseConnection(s)
  \/ StopReading(s)

RoomNext(r) ==
  \/ BeginUpdate(r)
  \/ ExecuteAct(r)
  \/ ExecuteQuit(r)
  \/ EndUpdate(r)
  \/ LookForHeroes(r)
  \/ SendGameStatus(r)
  \/ RemoveDeadHeroes(r)

Next ==
  \/ ListenerNext
  \/ \E s \in Sessions : ClientActs(s) \/ ReceiverContinues(s) \/ AfterSend(s)
  \/ \E r \in Rooms : RoomNext(r)

Spec == Init /\ [][Next]_vars

\* Every thread keeps running.  A thread that waits for a room's mutex gets it
\* although the room takes the mutex again every tick (strong fairness): the
\* room sleeps between ticks without it.  Clients may stay silent for ever, and
\* what is sent to a client ends only if the client reads.
Fairness ==
  /\ SF_vars(ListenerNext)
  /\ \A s \in Sessions : SF_vars(ReceiverContinues(s))
  /\ \A s \in Sessions : WF_vars(s \notin deaf /\ AfterSend(s))
  /\ \A r \in Rooms : WF_vars(RoomNext(r))

FairSpec == Spec /\ Fairness

-----------------------------------------------------------------------------
(* Safety *)

RoomsOf(s) == {r \in Rooms : s \in heroes[r]}

\* A hero is never in two rooms, and is in none only before its login, while
\* its receiver carries it between two critical sections of the room change,
\* or after its room removed it (change_game_room, remove_death_heroes).
HeroInOnePlace ==
  \A s \in Sessions :
    /\ \A r1, r2 \in RoomsOf(s) : r1 = r2
    /\ RoomsOf(s) = {} =>
         \/ current_game_room[s] = NoRoom
         \/ receiver[s] = "travelling"
         \/ s \in dead

\* When the receiver asks its room for the hero and its queue,
\* remove_hero_and_notification_queue() dereferences both finds unchecked:
\* both are there, although Quits of other sessions clean that table.
RoomChangeFindsHeroAndQueue ==
  \A s \in Sessions :
    receiver[s] = "running" =>
      /\ s \in heroes[current_game_room[s]]
      /\ s \in queues_notifications[current_game_room[s]]
      /\ notifications_queue[s] = "open"

Pending(k, s, r) ==
  {i \in DOMAIN commands_queue[r] : commands_queue[r][i] = Command(k, s)}

\* A Quit waits in the room that holds its hero, so get_hero_by_id() does not
\* throw out of the room's thread, and there is at most one of them.
QuitFindsItsHero ==
  \A s \in Sessions, r \in Rooms :
    /\ Pending("quit", s, r) # {} => s \in heroes[r] /\ s \notin dead
    /\ \A i, j \in Pending("quit", s, r) : i = j

\* A hero is handed to the saver exactly once, when it is killed: never by a
\* session that plays on, never twice for a client that quits and then drops.
SavedOnceWhenKilled ==
  \A s \in Sessions : saves[s] = IF s \in dead THEN 1 ELSE 0

\* The entry of a queue that still exists is in the room of its hero: game
\* status is never sent to a client from a room its hero has left.
QueueStaysWithHero ==
  \A r \in Rooms :
    \A s \in queues_notifications[r] \ Deleted : s \in heroes[r]

\* The collector deletes the queue of a client whose receiver stopped, without
\* the room's mutex.  A room may have a deleted queue in its table until the Quit
\* of that client, already pushed to this room or about to be, is executed; after
\* that only if the clean-up of that very Quit read freed memory and did not find
\* the queue closed (argentum_game.cpp:556).  No room change, other Quit or other
\* room leaves one behind.
DeletedQueueAwaitsQuit ==
  \A s \in Deleted, r \in Rooms :
    s \in queues_notifications[r] =>
      \/ receiver[s] = "lost" /\ current_game_room[s] = r
      \/ Pending("quit", s, r) # {}
      \/ s \in misread

\* "remueve colas de notificaciones para no notificar a clientes meurtos"
\* (argentum_game.h:91): no room is about to push on a deleted queue.  It is not so:
\* a room sends its status between the deletion and the Quit.
NoNotificationToDeadClients ==
  \A r \in Rooms : loop[r] = "sending" => queues_notifications[r] \cap Deleted = {}

-----------------------------------------------------------------------------
(* The inductive invariant behind these properties *)

OnTheRoad(s) == receiver[s] = "travelling"

\* The room whose map holds the hero, if any does.
Home(s) == IF receiver[s] \in {"travelling", "arrived"} THEN destination[s]
                                                       ELSE current_game_room[s]

ConnectionOk(s) ==
  /\ current_game_room[s] = NoRoom =>
       receiver[s] = "none" /\ notifications_queue[s] = "none"
  /\ receiver[s] \in {"travelling", "arrived"} => destination[s] \in Rooms
  /\ receiver[s] = "none" =>
       /\ s \notin clients
       /\ current_game_room[s] # NoRoom =>
            listener.step \in {"register", "spawn"} /\ listener.client = s

HeroAtHome(s) ==
  /\ \A r \in Rooms : s \in heroes[r] =>
       r = Home(s) /\ current_game_room[s] # NoRoom /\ ~OnTheRoad(s)
  /\ current_game_room[s] # NoRoom /\ ~OnTheRoad(s) /\ s \notin dead =>
       s \in heroes[Home(s)]

QueueAtHome(s) ==
  /\ \A r \in Rooms : s \in queues_notifications[r] =>
       /\ r = current_game_room[s]
       /\ receiver[s] \notin {"travelling", "arrived"}
       /\ s \in dead => s \in Deleted \cap misread
  /\ \/ receiver[s] = "running"
     \/ listener.step = "spawn" /\ listener.client = s
     => s \in queues_notifications[current_game_room[s]]

QueueLife(s) ==
  /\ receiver[s] \in {"none", "running", "travelling", "arrived"} =>
       current_game_room[s] = NoRoom \/ notifications_queue[s] = "open"
  /\ s \in Deleted => receiver[s] \in {"lost", "done"}

QuitPending(s) ==
  /\ \A r \in Rooms : \A i \in Pending("quit", s, r) :
       /\ r = current_game_room[s]
       /\ receiver[s] \in {"closing", "done"}
       /\ s \notin dead
       /\ \A j \in Pending("quit", s, r) : i = j
  /\ receiver[s] \in {"closing", "done"} /\ s \notin dead =>
       Pending("quit", s, current_game_room[s]) # {}
  /\ s \in dead => receiver[s] \in {"closing", "done"}
  /\ saves[s] = IF s \in dead THEN 1 ELSE 0

ListenerOk ==
  LET c == listener.client
  IN  /\ listener.step \in {"register", "spawn"} =>
           current_game_room[c] \in Rooms /\ receiver[c] = "none"
      /\ listener.step \in {"join_sender", "join_receiver"} =>
           c \in clients \ unchecked /\ receiver[c] \in {"lost", "done"}
      /\ unchecked \subseteq clients
      /\ clients \cap Deleted # {} =>
           listener.step = "join_receiver" /\ clients \cap Deleted = {c}

SessionOk(s) ==
  /\ ConnectionOk(s)
  /\ HeroAtHome(s)
  /\ QueueAtHome(s)
  /\ QueueLife(s)
  /\ QuitPending(s)

\* Where each hero, each queue and each Quit must be at every step of every
\* thread: each property above follows from it, and every step preserves it.
SessionsInv == ListenerOk /\ \A s \in Sessions : SessionOk(s)

-----------------------------------------------------------------------------
(* What the rooms promise to a player *)

Place(s) ==
  IF RoomsOf(s) # {} THEN CHOOSE r \in Rooms : s \in heroes[r]
  ELSE IF current_game_room[s] = NoRoom THEN "outside"
  ELSE IF receiver[s] = "travelling" THEN "travelling"
  ELSE "gone"

Promise == INSTANCE PlayerSession WITH
  Outside <- "outside", Travelling <- "travelling", Gone <- "gone",
  place <- [s \in Sessions |-> Place(s)],
  leaving <- {s \in Sessions : receiver[s] \in {"closing", "lost", "done"}},
  saved <- dead

\* The threads of the server implement the promise to each player.
ImplementsPlayerSession == Promise!Spec

\* A room change that began ends with the hero in a room.
RoomChangeEnds == Promise!NobodyTravelsForEver

\* A player that quits, or whose connection is lost, leaves the world.
QuitRemovesHero == Promise!WhoeverLeavesIsGone

\* The listener joins the sender of a client that does not read; the socket is
\* closed only after that (client_handler.cpp:30).
HeldByClient ==
  /\ listener.step = "join_sender"
  /\ listener.client \in deaf /\ sender[listener.client] = "running"

\* The listener gets back to accept() again and again, or is held for ever by the
\* sender of a client that stays connected and does not read: no other thread it
\* waits for, and no mutex, keeps it.
ListenerAcceptsAgain == []<>(listener.step = "accept") \/ <>[]HeldByClient

=============================================================================
