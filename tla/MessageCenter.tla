---------------------------- MODULE MessageCenter ----------------------------
(***************************************************************************)
(* The registry that leads from a player's name to the queue of its        *)
(* notifications (message_center.cpp), and the threads that write it: the  *)
(* listener at login, a receiver after a Quit, a sender when it ends.      *)
(*                                                                         *)
(* A session is one connection and its queue. Several sessions may bear    *)
(* the same name, one after the other or together: the server does not     *)
(* refuse a second login. Rooms appear only as the thread that closes the  *)
(* queue of whoever sent a Quit, and as the threads that send messages:    *)
(* about half of these look a name up and push without the center's mutex. *)
(* GameRooms has the rest of the rooms.                                    *)
(***************************************************************************)
EXTENDS Naturals

CONSTANTS Sessions,  \* connections a run of the server accepts
          Names,     \* names that players log in with
          Deaf,      \* connections whose clients may read nothing they are sent
          None       \* no session, no name

ASSUME CenterAssumption ==
  None \notin Sessions /\ None \notin Names /\ Deaf \subseteq Sessions

VARIABLES
  listener,             \* where ClientListener::run() is, and for which client
  unchecked,            \* clients garbage_collector() has still to look at
  player_name,          \* name each session logged in with
  receiver,             \* where ClientCommandReceiver::run() is
  sender,               \* life of the ClientNotificationSender
  notifications_queue,  \* life of the session's queue
  players_notification_queues, \* the registry: name -> session whose queue it is
  found                 \* queue found without the mutex and not yet pushed on

vars == <<listener, unchecked, player_name, receiver, sender,
          notifications_queue, players_notification_queues, found>>

At(step, s) == [at |-> step, client |-> s]
Accepting == At("accept", None)

TypeOK ==
  /\ listener \in [at : {"accept", "starting", "collecting", "joining", "closing"},
                   client : Sessions \cup {None}]
  /\ unchecked \subseteq Sessions
  /\ player_name \in [Sessions -> Names \cup {None}]
  /\ receiver \in [Sessions -> {"none", "reading", "quitting", "lost", "done"}]
  /\ sender \in [Sessions -> {"none", "running", "done", "deleted"}]
  /\ notifications_queue \in [Sessions -> {"none", "open", "closed", "deleted"}]
  /\ players_notification_queues \in [Names -> Sessions \cup {None}]
  /\ found \in Sessions \cup {None}

Init ==
  /\ listener = Accepting
  /\ unchecked = {}
  /\ player_name = [s \in Sessions |-> None]
  /\ receiver = [s \in Sessions |-> "none"]
  /\ sender = [s \in Sessions |-> "none"]
  /\ notifications_queue = [s \in Sessions |-> "none"]
  /\ players_notification_queues = [n \in Names |-> None]
  /\ found = None

-----------------------------------------------------------------------------
(* Plausible slips, used to see that the properties notice them *)

\* remove_player() does not erase.
KeepEntry(registry, n) == registry

\* add_player() tests the entry the wrong way round.
AddIfPresent(registry, n, s) ==
  IF registry[n] # None THEN [registry EXCEPT ![n] = s] ELSE registry

\* close() is forgotten.
LeaveOpen(queue) == queue

-----------------------------------------------------------------------------
(* The operations of the registry. *)

\* emplace() leaves an entry that is already there as it is.
AddPlayer(registry, n, s) ==
  IF registry[n] = None THEN [registry EXCEPT ![n] = s] ELSE registry

RemovePlayer(registry, n) == [registry EXCEPT ![n] = None]

\* send_message(): the queues the text for dst is pushed on, one or none.
SendMessage(registry, dst) == {q \in Sessions : registry[dst] = q}

\* The entry points that hold the mutex of the center from the look-up to the push
\* make a text and send it to one player; a ghost is not told of the damage it
\* received.
Notify(registry, dst, silent) == IF silent THEN {} ELSE SendMessage(registry, dst)

\* close() of a queue that is already closed changes nothing.
Close(queue) == IF queue = "open" THEN "closed" ELSE queue

IsAlive(s) == receiver[s] \in {"reading", "quitting"}

\* The receiver pushes the Quit before it unregisters the player.
QuitPushed(s) == receiver[s] \in {"quitting", "done"}

-----------------------------------------------------------------------------
(* The listener *)

\* A client logs in: its queue is created and registered under its name.
RegisterNewPlayer(s, n) ==
  /\ listener = Accepting
  /\ player_name[s] = None
  /\ player_name' = [player_name EXCEPT ![s] = n]
  /\ notifications_queue' = [notifications_queue EXCEPT ![s] = "open"]
  /\ players_notification_queues' = AddPlayer(players_notification_queues, n, s)
  /\ listener' = At("starting", s)
  /\ UNCHANGED <<unchecked, receiver, sender, found>>

\* ClientHandler starts both threads and the collector visits every client.
StartClient(s) ==
  /\ listener = At("starting", s)
  /\ receiver' = [receiver EXCEPT ![s] = "reading"]
  /\ sender' = [sender EXCEPT ![s] = "running"]
  /\ unchecked' = {t \in Sessions : sender'[t] \in {"running", "done"}}
  /\ listener' = At("collecting", None)
  /\ UNCHANGED <<player_name, notifications_queue, players_notification_queues,
                 found>>

SkipLiveClient(s) ==
  /\ listener = At("collecting", None)
  /\ s \in unchecked
  /\ IsAlive(s)
  /\ unchecked' = unchecked \ {s}
  /\ UNCHANGED <<listener, player_name, receiver, sender, notifications_queue,
                 players_notification_queues, found>>

\* ~ClientHandler closes the queue and empties it, then waits for the sender.
StopSender(s) ==
  /\ listener = At("collecting", None)
  /\ s \in unchecked
  /\ ~IsAlive(s)
  /\ notifications_queue' = [notifications_queue EXCEPT ![s] = Close(@)]
  /\ unchecked' = unchecked \ {s}
  /\ listener' = At("joining", s)
  /\ UNCHANGED <<player_name, receiver, sender, players_notification_queues,
                 found>>

DeleteSender(s) ==
  /\ listener = At("joining", s)
  /\ sender[s] = "done"
  /\ sender' = [sender EXCEPT ![s] = "deleted"]
  /\ notifications_queue' = [notifications_queue EXCEPT ![s] = "deleted"]
  /\ listener' = At("closing", s)
  /\ UNCHANGED <<unchecked, player_name, receiver, players_notification_queues,
                 found>>

DeleteReceiver(s) ==
  /\ listener = At("closing", s)
  /\ receiver[s] = "done"
  /\ listener' = At("collecting", None)
  /\ UNCHANGED <<unchecked, player_name, receiver, sender, notifications_queue,
                 players_notification_queues, found>>

EndCollection ==
  /\ listener = At("collecting", None)
  /\ unchecked = {}
  /\ listener' = Accepting
  /\ UNCHANGED <<unchecked, player_name, receiver, sender, notifications_queue,
                 players_notification_queues, found>>

-----------------------------------------------------------------------------
(* The two threads of a client, and the room that runs its Quit *)

Receives(s, from, to) ==
  /\ receiver[s] = from
  /\ receiver' = [receiver EXCEPT ![s] = to]
  /\ UNCHANGED <<listener, unchecked, player_name, sender, notifications_queue,
                 found>>

ReceiveQuit(s) ==
  /\ Receives(s, "reading", "quitting")
  /\ UNCHANGED players_notification_queues

UnregisterAfterQuit(s) ==
  /\ Receives(s, "quitting", "done")
  /\ players_notification_queues' =
       RemovePlayer(players_notification_queues, player_name[s])

\* The connection drops: alive is false before the Quit is pushed, and the
\* receiver does not unregister the player.
LoseConnection(s) ==
  /\ Receives(s, "reading", "lost")
  /\ UNCHANGED players_notification_queues

QuitForLostClient(s) ==
  /\ Receives(s, "lost", "done")
  /\ UNCHANGED players_notification_queues

ExecuteQuit(s) ==
  /\ QuitPushed(s)
  /\ notifications_queue[s] = "open"
  /\ notifications_queue' = [notifications_queue EXCEPT ![s] = Close(@)]
  /\ UNCHANGED <<listener, unchecked, player_name, receiver, sender,
                 players_notification_queues, found>>

\* The sender, once the send() it may be in ends, finds its queue closed and unregisters its player's name.
SenderStops(s) ==
  /\ sender[s] = "running"
  /\ notifications_queue[s] = "closed"
  /\ sender' = [sender EXCEPT ![s] = "done"]
  /\ players_notification_queues' =
       RemovePlayer(players_notification_queues, player_name[s])
  /\ UNCHANGED <<listener, unchecked, player_name, receiver, notifications_queue,
                 found>>

-----------------------------------------------------------------------------
(* The senders without the mutex: send_inventory_is_full_message() and those   *)
(* that follow it, up to send_not_enough_gold_message()                        *)

FindUnlocked(n) ==
  /\ found = None
  /\ found' \in SendMessage(players_notification_queues, n)
  /\ UNCHANGED <<listener, unchecked, player_name, receiver, sender,
                 notifications_queue, players_notification_queues>>

\* The push, wherever the pointer leads by now.
PushUnlocked ==
  /\ found # None
  /\ found' = None
  /\ UNCHANGED <<listener, unchecked, player_name, receiver, sender,
                 notifications_queue, players_notification_queues>>

-----------------------------------------------------------------------------
Accept == \E s \in Sessions, n \in Names : RegisterNewPlayer(s, n)

Collect ==
  \/ \E s \in Sessions :
       \/ StartClient(s)
       \/ SkipLiveClient(s)
       \/ StopSender(s)
       \/ DeleteSender(s)
       \/ DeleteReceiver(s)
  \/ EndCollection

ClientActs(s) == ReceiveQuit(s) \/ LoseConnection(s)

Unwind(s) ==
  \/ UnregisterAfterQuit(s)
  \/ QuitForLostClient(s)
  \/ ExecuteQuit(s)
  \/ SenderStops(s)

Tell == PushUnlocked \/ \E n \in Names : FindUnlocked(n)

Next == Accept \/ Collect \/ Tell \/ \E s \in Sessions : ClientActs(s) \/ Unwind(s)

\* Threads are scheduled; nobody has to connect, to quit or to drop. The two threads
\* of a client that reads nothing may be in a send() that never ends: the sender with
\* its queue, the receiver with its answer to the Quit.
Fairness ==
  /\ WF_vars(Collect)
  /\ \A s \in Sessions :
       /\ WF_vars(QuitForLostClient(s))
       /\ WF_vars(ExecuteQuit(s))
  /\ \A s \in Sessions \ Deaf :
       /\ WF_vars(UnregisterAfterQuit(s))
       /\ WF_vars(SenderStops(s))

Spec == Init /\ [][Next]_vars /\ Fairness

-----------------------------------------------------------------------------
(* Properties *)

Registered(s) ==
  \E n \in Names : player_name[s] = n /\ players_notification_queues[n] = s
Playing(s) == receiver[s] = "reading"
NameUsedOnce(s) == \A t \in Sessions \ {s} : player_name[t] # player_name[s]

\* A name never leads to a queue that has been deleted, whoever logs in under
\* which names: notify_error(), send_private_message() and the other senders
\* that hold the mutex push on a queue that exists. (FoundQueueExists has the others.)
RegisteredQueueExists ==
  \A n \in Names, silent \in BOOLEAN :
    \A q \in Notify(players_notification_queues, n, silent) :
      notifications_queue[q] \in {"open", "closed"}

\* Messages for a player that never logged in twice reach its queue for as
\* long as it plays: nobody else's Quit, lost connection or collection
\* unregisters it.
RegisteredWhilePlaying ==
  \A s \in Sessions :
    Playing(s) /\ NameUsedOnce(s) => Registered(s)

\* The entry of a session that has ended goes, even when its connection was lost
\* and its receiver did not unregister it, and even when the listener is held for
\* ever by the sender of a client that does not read; its own client has to read.
EndedSessionUnregistered ==
  \A s \in Sessions \ Deaf :
    (receiver[s] = "done" /\ Registered(s)) ~> ~Registered(s)

-----------------------------------------------------------------------------
(* The inductive invariant behind the safety properties *)

\* Before its login a session has nothing; from then on it has a queue.
LoggedIn(s) ==
  /\ player_name[s] = None =>
       sender[s] = "none" /\ receiver[s] = "none" /\ notifications_queue[s] = "none"
  /\ player_name[s] # None => notifications_queue[s] # "none"
  /\ listener = At("starting", s) => player_name[s] # None /\ sender[s] = "none"

\* Both threads start together; the queue is open until the Quit, and is
\* deleted only with its sender.
Threads(s) ==
  /\ sender[s] = "none" <=> receiver[s] = "none"
  /\ s \in unchecked => sender[s] # "none"
  /\ (player_name[s] # None /\ receiver[s] \in {"none", "reading"}) =>
       notifications_queue[s] = "open"
  /\ sender[s] = "done" => receiver[s] # "reading"
  /\ notifications_queue[s] = "deleted" => sender[s] = "deleted"

\* A session is registered under its own name, never after its sender ended,
\* and all the time while it plays if the name was used once.
Entry(s) ==
  /\ \A n \in Names :
       players_notification_queues[n] = s =>
         player_name[s] = n /\ sender[s] \notin {"done", "deleted"}
  /\ (/\ player_name[s] # None
      /\ receiver[s] \in {"none", "reading"}
      /\ NameUsedOnce(s)) => Registered(s)

\* Every session is in the state its login, its threads and its entry agree
\* on: the three facts that the safety properties of the registry rest on.
CenterInv == \A s \in Sessions : LoggedIn(s) /\ Threads(s) /\ Entry(s)

-----------------------------------------------------------------------------
(* What is not so *)

\* The senders that look a name up without the mutex (message_center.cpp:95-142) push
\* on a queue that exists: between the look-up and the push the sender may end, and
\* the collector delete the queue.
FoundQueueExists == found # None => notifications_queue[found] \in {"open", "closed"}

\* message_center.h:50 says that the registry maps the player's name to its
\* queue. A player whose earlier sessions are all over and collected should be
\* registered while it plays; add_player() and remove_player() do not keep it.
RegisteredAfterReturning ==
  \A s \in Sessions :
    /\ Playing(s)
    /\ \A t \in Sessions \ {s} :
         player_name[t] = player_name[s] => sender[t] = "deleted"
    => Registered(s)
=============================================================================
