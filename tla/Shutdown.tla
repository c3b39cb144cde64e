------------------------------- MODULE Shutdown -------------------------------
(***************************************************************************)
(* How the server stops.                                                   *)
(*                                                                         *)
(* stop_listening() runs on the main thread while rooms, receivers,        *)
(* senders, the two savers and the listener still run: it joins and        *)
(* deletes them one after the other.  Deleted objects are not reset, so a  *)
(* thread that comes late uses one: fault keeps who did, and nothing is    *)
(* said of what such a program does next.                                  *)
(***************************************************************************)
EXTENDS Integers, FiniteSets

CONSTANTS NRooms, Clients   \* a client connects once

Rooms == 1 .. NRooms

ASSUME ShutdownAssumption == NRooms \in Nat \ {0}

VARIABLES
  main,           \* the step of stop_listening(), and then of the destructors
  here,           \* the room or client that step is about
  room,           \* each room and its thread
  commands,       \* clients with a command in each room's queue
  closed,         \* rooms whose queue of commands is closed
  listener, entering,
  receiver, in_room, sent_quit,
  sender,
  open,           \* clients whose socket nobody has closed
  handlers,       \* ClientListener::clients
  gone,           \* handlers deleted
  saver,
  periodic, copied,
  fault

roomVars == <<room, commands, closed>>
clientVars == <<receiver, in_room, sent_quit, sender, open>>
listVars == <<listener, entering, handlers, gone>>
saverVars == <<saver, periodic, copied>>
vars == <<main, here, roomVars, clientVars, listVars, saverVars, fault>>

Nobody == 0

MainSteps ==
  {"serving", "kill", "join", "drain", "client", "join sender",
   "join receiver", "savers", "join saver", "join periodic", "socket",
   "join listener", "ended"}

Callers == {"none", "login", "room change", "periodic save", "collected", "command",
            "notification", "no login"}

TypeOK ==
  /\ main \in MainSteps /\ here \in Rooms \cup Clients \cup {Nobody}
  /\ room \in [Rooms -> {"running", "killed", "ended", "deleted"}]
  /\ commands \in [Rooms -> SUBSET Clients] /\ closed \subseteq Rooms
  /\ listener \in {"accepting", "receiving", "entered", "collecting", "joining", "ended"}
  /\ entering \in Clients \cup {Nobody}
  /\ receiver \in [Clients -> {"none", "checking", "receiving", "ended"}]
  /\ in_room \in [Clients -> Rooms] /\ sent_quit \subseteq Clients
  /\ sender \in [Clients -> {"none", "waiting", "sending", "stopped", "ended"}]
  /\ open \subseteq Clients
  /\ handlers \subseteq Clients /\ gone \subseteq Clients
  /\ saver \in {"running", "closed", "ended"}
  /\ periodic \in {"sleeping", "copied", "stopped", "ended"} /\ copied \subseteq Clients
  /\ fault \in Callers

Init ==
  /\ main = "serving" /\ here = Nobody
  /\ room = [r \in Rooms |-> "running"] /\ commands = [r \in Rooms |-> {}]
  /\ closed = {}
  /\ listener = "accepting" /\ entering = Nobody
  /\ receiver = [c \in Clients |-> "none"] /\ in_room = [c \in Clients |-> 1]
  /\ sent_quit = {} /\ sender = [c \in Clients |-> "none"]
  /\ open = {} /\ handlers = {} /\ gone = {}
  /\ saver = "running" /\ periodic = "sleeping" /\ copied = {}
  /\ fault = "none"

Deleted(r) == room[r] = "deleted"
QueuesDeleted == main \in {"savers", "join saver", "join periodic", "socket",
                           "join listener", "ended"}

\* The room of a player that left has executed its Quit.
Executed(c) == c \in sent_quit /\ c \notin commands[in_room[c]]

\* The clients a room still has in its tables.
Playing(r) == {c \in handlers \cup gone : in_room[c] = r /\ ~ Executed(c)}

\* ~ClientHandler has closed the queue of notifications of a client.
Stopping(c) == \/ main \in {"join sender", "join receiver"} /\ here = c
               \/ listener = "joining" /\ entering = c

\* Who uses what is deleted spoils the program.
Uses(caller, isDeleted) == fault' = IF isDeleted THEN caller ELSE fault

-----------------------------------------------------------------------------
(* The main thread *)

Go(from, to) == main = from /\ main' = to

Stop ==
  /\ Go("serving", "kill") /\ here' = 1
  /\ UNCHANGED <<roomVars, clientVars, listVars, saverVars, fault>>

Kill ==
  /\ Go("kill", "join")
  /\ room' = [room EXCEPT ![here] = "killed"]
  /\ UNCHANGED <<here, commands, closed, clientVars, listVars, saverVars, fault>>

\* join(), and the destructor up to the closing of the queue.
JoinRoom ==
  /\ Go("join", "drain") /\ room[here] = "ended"
  /\ room' = [room EXCEPT ![here] = "deleted"]
  /\ closed' = closed \cup {here}
  /\ UNCHANGED <<here, commands, clientVars, listVars, saverVars, fault>>

\* pop() of a closed queue gives nothing: with a command left the loop of the
\* destructor does not end.
Drain ==
  /\ main = "drain" /\ commands[here] = {}
  /\ IF here < NRooms THEN main' = "kill" /\ here' = here + 1
     ELSE main' = "client" /\ here' = Nobody
  /\ UNCHANGED <<roomVars, clientVars, listVars, saverVars, fault>>

\* ~ClientHandler: the sender's queue is closed and emptied, the receiver told.
StopClient(c) ==
  /\ Go("client", "join sender") /\ here' = c
  /\ c \in handlers \ gone
  /\ Uses("login", listener \in {"collecting", "joining"})
  /\ sender' = [sender EXCEPT ![c] = IF @ = "waiting" THEN "stopped" ELSE @]
  /\ UNCHANGED <<roomVars, receiver, in_room, sent_quit, open, listVars, saverVars>>

JoinSender ==
  /\ Go("join sender", "join receiver")
  /\ sender[here] = "ended"
  /\ open' = open \ {here}
  /\ UNCHANGED <<here, roomVars, receiver, in_room, sent_quit, sender,
                 listVars, saverVars, fault>>

\* (mutant) The receiver deleted without a join.
ReceiverNotJoined ==
  /\ Go("join receiver", "client") /\ here' = Nobody
  /\ gone' = gone \cup {here}
  /\ UNCHANGED <<roomVars, clientVars, listener, entering, handlers, saverVars, fault>>

JoinReceiver ==
  /\ Go("join receiver", "client") /\ here' = Nobody
  /\ receiver[here] = "ended"
  /\ gone' = gone \cup {here}
  /\ UNCHANGED <<roomVars, clientVars, listener, entering, handlers, saverVars, fault>>

DeleteQueues ==
  /\ Go("client", "savers") /\ handlers \subseteq gone
  /\ UNCHANGED <<here, roomVars, clientVars, listVars, saverVars, fault>>

\* (mutant) The queue of the first saver is left open.
SaverLeftWaiting ==
  /\ Go("savers", "join saver")
  /\ periodic' = IF periodic = "sleeping" THEN "stopped" ELSE periodic
  /\ UNCHANGED <<here, saver, copied, roomVars, clientVars, listVars, fault>>

\* Both savers are told; the destructor of the first one closes its queue.
StopSavers ==
  /\ Go("savers", "join saver")
  /\ saver' = IF saver = "ended" THEN saver ELSE "closed"
  /\ periodic' = IF periodic = "sleeping" THEN "stopped" ELSE periodic
  /\ UNCHANGED <<here, copied, roomVars, clientVars, listVars, fault>>

JoinSaver ==
  /\ Go("join saver", "join periodic") /\ saver = "ended"
  /\ UNCHANGED <<here, roomVars, clientVars, listVars, saverVars, fault>>

JoinPeriodic ==
  /\ Go("join periodic", "socket") /\ periodic = "ended"
  /\ UNCHANGED <<here, roomVars, clientVars, listVars, saverVars, fault>>

CloseSocket ==
  /\ Go("socket", "join listener")
  /\ UNCHANGED <<here, roomVars, clientVars, listVars, saverVars, fault>>

\* ~ClientListener, once Server::run() has returned.
JoinListener ==
  /\ Go("join listener", "ended") /\ listener = "ended"
  /\ UNCHANGED <<here, roomVars, clientVars, listVars, saverVars, fault>>

Main ==
  \/ Kill \/ JoinRoom \/ Drain
  \/ \E c \in Clients : StopClient(c)
  \/ JoinSender \/ JoinReceiver \/ DeleteQueues
  \/ StopSavers \/ JoinSaver \/ JoinPeriodic \/ CloseSocket \/ JoinListener

-----------------------------------------------------------------------------
(* The rooms *)

\* One turn: every command is executed, a Quit with a save and the end of its
\* player's notifications; the status goes to the others.  The queue of a client
\* collected before its Quit is executed is closed and written all the same.
Update(r) ==
  /\ room[r] \in {"running", "killed"}
  /\ LET quits == commands[r] \cap sent_quit IN
       sender' = [c \in Clients |->
                    IF sender[c] # "waiting" THEN sender[c]
                    ELSE IF c \in quits THEN "stopped"
                    ELSE IF c \in Playing(r) THEN "sending" ELSE "waiting"]
  /\ commands' = [commands EXCEPT ![r] = {}]
  /\ fault' = IF Playing(r) \cap gone \cap handlers # {} THEN "notification"
              ELSE IF Playing(r) \cap gone # {} THEN "collected" ELSE fault
  /\ UNCHANGED <<main, here, room, closed, receiver, in_room, sent_quit, open,
                 listVars, saver, periodic, copied>>

RoomEnds(r) ==
  /\ room[r] = "killed" /\ room' = [room EXCEPT ![r] = "ended"]
  /\ UNCHANGED <<main, here, commands, closed, clientVars, listVars, saverVars, fault>>

-----------------------------------------------------------------------------
(* A client's threads *)

\* The top of the receiver's loop; a player that has sent a Quit has ended it.
Check(c) ==
  /\ receiver[c] = "checking"
  /\ Uses("command", QueuesDeleted)
  /\ LET over == \/ c \in sent_quit \/ in_room[c] \in closed
                 \/ Stopping(c)
     IN receiver' = [receiver EXCEPT ![c] = IF over THEN "ended" ELSE "receiving"]
  /\ UNCHANGED <<main, here, roomVars, in_room, sent_quit, sender, open,
                 listVars, saverVars>>

Push(c) ==
  /\ commands' = [commands EXCEPT ![in_room[c]] = @ \cup {c}]
  /\ Uses("command", QueuesDeleted)

Receives(c) ==
  /\ receiver[c] = "receiving" /\ receiver' = [receiver EXCEPT ![c] = "checking"]
  /\ UNCHANGED <<main, here, room, closed, sender, listVars, saverVars>>

ReceiveCommand(c) ==
  /\ Receives(c) /\ c \in open
  /\ Push(c)
  /\ UNCHANGED <<in_room, sent_quit, open>>

ReceiveQuit(c) ==
  /\ Receives(c) /\ c \in open
  /\ Push(c) /\ sent_quit' = sent_quit \cup {c}
  /\ UNCHANGED <<in_room, open>>

\* The connection is lost, or closed by the main thread.
ReceiveNothing(c) ==
  /\ Receives(c)
  /\ IF in_room[c] \in closed THEN UNCHANGED <<commands, sent_quit, fault>>
     ELSE Push(c) /\ sent_quit' = sent_quit \cup {c}
  /\ UNCHANGED <<in_room, open>>

ReceiveChange(c, r) ==
  /\ Receives(c) /\ c \in open
  /\ r # in_room[c]
  /\ in_room' = [in_room EXCEPT ![c] = r]
  /\ Uses("room change", Deleted(in_room[c]) \/ Deleted(r))
  /\ UNCHANGED <<commands, sent_quit, open>>

\* A closed queue ends the thread.
SenderEnds(c) ==
  /\ sender[c] = "stopped" /\ sender' = [sender EXCEPT ![c] = "ended"]
  /\ UNCHANGED <<main, here, roomVars, receiver, in_room, sent_quit, open, listVars,
                 saverVars, fault>>

\* send() returns when the client reads; with another notification in the queue
\* it is called again.
Sent(c) ==
  /\ sender[c] = "sending"
  /\ sender' = [sender EXCEPT ![c] =
                  IF Stopping(c) \/ Executed(c) THEN "stopped" ELSE "waiting"]
  /\ UNCHANGED <<main, here, roomVars, receiver, in_room, sent_quit, open,
                 listVars, saverVars, fault>>

-----------------------------------------------------------------------------
(* The listener and the savers *)

Accept(c) ==
  /\ listener = "accepting" /\ main \notin {"join listener", "ended"}
  /\ c \notin handlers \cup gone
  /\ listener' = "receiving" /\ entering' = c
  /\ UNCHANGED <<main, here, roomVars, clientVars, handlers, gone, saverVars, fault>>

Login(r) ==
  /\ listener = "receiving" /\ listener' = "entered"
  /\ in_room' = [in_room EXCEPT ![entering] = r]
  /\ Uses("login", Deleted(r))
  /\ UNCHANGED <<main, here, roomVars, receiver, sent_quit, sender, open,
                 entering, handlers, gone, saverVars>>

\* Who connected leaves before its login: receive_command() gives nothing, whose fields
\* are read all the same.
NoLogin ==
  /\ listener = "receiving" /\ fault' = "no login"
  /\ UNCHANGED <<main, here, roomVars, clientVars, listVars, saverVars>>

\* The main thread deletes the rooms first and then walks the list of clients.
LateForList == main \notin {"serving", "kill", "join", "drain"}

\* The queue joins the room and the handler the list.
StartClient ==
  /\ listener = "entered" /\ listener' = "collecting"
  /\ LET c == entering IN
       /\ Uses("login", Deleted(in_room[c]) \/ LateForList)
       /\ receiver' = [receiver EXCEPT ![c] = "checking"]
       /\ sender' = [sender EXCEPT ![c] = "waiting"]
       /\ open' = open \cup {c} /\ handlers' = handlers \cup {c}
  /\ entering' = Nobody
  /\ UNCHANGED <<main, here, roomVars, in_room, sent_quit, gone, saverVars>>

\* The listener deletes the handlers whose receiver is over, as the main thread
\* does with the rest.
Collect ==
  /\ listener = "collecting" /\ Uses("login", LateForList)
  /\ \/ \E c \in handlers :
          /\ receiver[c] = "ended"
          /\ listener' = "joining" /\ entering' = c
          /\ sender' = [sender EXCEPT ![c] = IF @ = "waiting" THEN "stopped" ELSE @]
     \/ /\ \A c \in handlers : receiver[c] # "ended"
        /\ listener' = "accepting"
        /\ UNCHANGED <<entering, sender>>
  /\ UNCHANGED <<main, here, roomVars, receiver, in_room, sent_quit, open, handlers, gone,
                 saverVars>>

Collected ==
  /\ listener = "joining" /\ sender[entering] = "ended"
  /\ listener' = "collecting" /\ entering' = Nobody
  /\ open' = open \ {entering} /\ handlers' = handlers \ {entering}
  /\ gone' = gone \cup {entering}
  /\ Uses("login", LateForList)
  /\ UNCHANGED <<main, here, roomVars, receiver, in_room, sent_quit, sender, saverVars>>

ListenerEnds ==
  /\ listener = "accepting" /\ main = "join listener"
  /\ listener' = "ended"
  /\ UNCHANGED <<main, here, roomVars, clientVars, entering, handlers, gone, saverVars, fault>>

\* A closed queue ends the saver although saves may be waiting in it.
SaverEnds ==
  /\ saver = "closed" /\ saver' = "ended"
  /\ UNCHANGED <<main, here, roomVars, clientVars, listVars, periodic, copied, fault>>

\* The periodic saver wakes up, copies the heroes of the rooms that are alive
\* and then writes them.
CopyHeroes ==
  /\ periodic = "sleeping" /\ periodic' = "copied"
  /\ copied' = UNION {Playing(r) : r \in {q \in Rooms : room[q] = "running"}}
  /\ Uses("periodic save", \E r \in Rooms : Deleted(r))
  /\ UNCHANGED <<main, here, roomVars, clientVars, listVars, saver>>

SaveCopied ==
  /\ periodic = "copied" /\ copied' = {}
  /\ periodic' = IF main \in {"join saver", "join periodic"} THEN "stopped" ELSE "sleeping"
  /\ Uses("periodic save", \E c \in copied : Deleted(in_room[c]))
  /\ UNCHANGED <<main, here, roomVars, clientVars, listVars, saver>>

PeriodicEnds ==
  /\ periodic = "stopped" /\ periodic' = "ended"
  /\ UNCHANGED <<main, here, roomVars, clientVars, listVars, saver, copied, fault>>

-----------------------------------------------------------------------------

Sound == fault = "none"

MainStep == Sound /\ Main
RoomStep(r) == Sound /\ (Update(r) \/ RoomEnds(r))
ReceiverStep(c) == Sound /\ (Check(c) \/ (c \notin open /\ ReceiveNothing(c)))
Input(c) == Sound /\ (ReceiveCommand(c) \/ ReceiveQuit(c) \/ ReceiveNothing(c)
                        \/ \E r \in Rooms : ReceiveChange(c, r))
SenderStep(c) == Sound /\ SenderEnds(c)
ListenerStep == Sound /\ (StartClient \/ Collect \/ Collected \/ ListenerEnds)
SaverStep == Sound /\ SaverEnds
PeriodicStep == Sound /\ (SaveCopied \/ PeriodicEnds)

Others ==
  /\ Sound
  /\ \/ Stop \/ CopyHeroes \/ NoLogin
     \/ \E c \in Clients : Sent(c) \/ Accept(c)
     \/ \E r \in Rooms : Login(r)

Next ==
  \/ MainStep \/ ListenerStep \/ SaverStep \/ PeriodicStep \/ Others
  \/ \E r \in Rooms : RoomStep(r)
  \/ \E c \in Clients : ReceiverStep(c) \/ Input(c) \/ SenderStep(c)

\* Threads that can go on do; nobody has to write, read or log in.
Fairness ==
  /\ WF_vars(MainStep) /\ WF_vars(ListenerStep)
  /\ WF_vars(SaverStep) /\ WF_vars(PeriodicStep)
  /\ \A r \in Rooms : WF_vars(Sound /\ RoomEnds(r))
  /\ \A c \in Clients : WF_vars(ReceiverStep(c)) /\ WF_vars(SenderStep(c))

Spec == Init /\ [][Next]_vars /\ Fairness

-----------------------------------------------------------------------------
(* Properties *)

\* The order of the stop protects the queues: whatever is interleaved, a command
\* is pushed and a status notified only on queues the main thread has not deleted
\* (client_listener.cpp:58: rooms, then clients, then queues).  Logins, room
\* changes, the periodic save and the collector have no such protection, nor has the
\* listener from a client that leaves before its login.
QueuesOutliveTheirUsers == fault \notin {"command", "notification"}

\* The destructor that waits for a closed queue to be empty.
Spins == main = "drain" /\ commands[here] # {}
\* A sender joined while its client does not read, before its socket is closed.
WaitsForReader == \/ main = "join sender" /\ sender[here] = "sending"
                  \/ listener = "joining" /\ sender[entering] = "sending"
\* The listener joined while somebody that connected has not sent its login.
WaitsForLogin == main = "join listener" /\ listener = "receiving"

\* A stop, which nothing undoes, ends, or spins, or waits for a client, or meets one
\* of those faults, of a latecomer or of a login that did not come: the joins never
\* wait for each other, and every blocked thread is woken.
StopEnds == []<>(\/ main \in {"serving", "ended"}
                 \/ Spins \/ WaitsForReader \/ WaitsForLogin \/ ~Sound)

=============================================================================
