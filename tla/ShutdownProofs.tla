---------------------------- MODULE ShutdownProofs ----------------------------
(***************************************************************************)
(* The order in which stop_listening() deletes things protects the queues, *)
(* for any number of rooms and clients.  A step taken after a fault says   *)
(* nothing, so the invariant is about the states before the first one.     *)
(***************************************************************************)
EXTENDS Shutdown, TLAPS

Active(c) == receiver[c] \in {"checking", "receiving"}

\* A receiver that runs has a handler in the list.
ReceiversListed == \A c \in Clients : Active(c) => c \in handlers /\ c \notin gone

\* The queues go when every handler of the list is deleted.
QueuesFree == QueuesDeleted => handlers \subseteq gone

EnteringIsNew == listener \in {"receiving", "entered"}
                   => entering \in Clients /\ entering \notin handlers \cup gone

JoiningIsOver == listener = "joining" => /\ entering \in handlers
                                         /\ receiver[entering] = "ended"

\* The main thread deletes a handler of the list, and alone.
StoppedIsListed == main \in {"join sender", "join receiver"}
                     => /\ here \in handlers
                        /\ listener \notin {"collecting", "joining"}

\* The rooms go in their order, and all before the first handler.
RoomsInOrder ==
  /\ main \in {"kill", "join"}
       => here \in Rooms /\ \A r \in Rooms : r < here => room[r] = "deleted"
  /\ main = "drain"
       => here \in Rooms /\ \A r \in Rooms : r <= here => room[r] = "deleted"
  /\ LateForList => \A r \in Rooms : room[r] = "deleted"

\* Only the main thread leaves a deleted handler in the list.
ListedLosses == gone \cap handlers # {} => LateForList

Ordered == /\ ReceiversListed /\ QueuesFree /\ EnteringIsNew /\ JoiningIsOver
           /\ StoppedIsListed /\ RoomsInOrder /\ ListedLosses

ShutdownInv == TypeOK /\ QueuesOutliveTheirUsers /\ (Sound => Ordered)

-----------------------------------------------------------------------------

LEMMA InitOrdered == Init => ShutdownInv
BY ShutdownAssumption
   DEF Init, ShutdownInv, TypeOK, MainSteps, Callers, QueuesOutliveTheirUsers, Ordered,
       ReceiversListed, QueuesFree, EnteringIsNew, JoiningIsOver, StoppedIsListed,
       RoomsInOrder, ListedLosses, Active, QueuesDeleted, LateForList, Rooms, Nobody

Kept == TypeOK' /\ QueuesOutliveTheirUsers' /\ (Sound' => Ordered')

\* The main thread's own steps.
LEMMA MainKeeps == ASSUME TypeOK, Ordered, Sound, Main PROVE Kept
<1> USE DEF Kept, Sound, TypeOK, QueuesOutliveTheirUsers, Ordered,
       ReceiversListed, QueuesFree, EnteringIsNew, JoiningIsOver, StoppedIsListed,
       ListedLosses, Active, QueuesDeleted, LateForList, Go,
       roomVars, clientVars, listVars, saverVars
<1>1. CASE Kill
  BY <1>1, SMTT(30) DEF Kill, RoomsInOrder, Rooms, MainSteps
<1>2. CASE JoinRoom
  BY <1>2, SMTT(30) DEF JoinRoom, RoomsInOrder, Rooms, MainSteps
<1>3. CASE Drain
  <2>1. here \in Rooms /\ \A r \in Rooms : r <= here => room[r] = "deleted"
    BY <1>3 DEF Drain, RoomsInOrder
  <2>2. CASE here < NRooms
    BY <1>3, <2>1, <2>2, ShutdownAssumption, SMTT(30)
       DEF Drain, RoomsInOrder, Rooms, MainSteps
  <2>3. CASE ~ here < NRooms
    BY <1>3, <2>1, <2>3, ShutdownAssumption, SMTT(30)
       DEF Drain, RoomsInOrder, Rooms, Nobody, MainSteps
  <2> QED BY <2>2, <2>3
<1>4. ASSUME NEW c \in Clients, StopClient(c) PROVE Kept
  <2>1. main = "client" /\ main' = "join sender" /\ here' = c /\ c \in handlers \ gone
    BY <1>4 DEF StopClient
  <2>2. UNCHANGED <<roomVars, receiver, in_room, sent_quit, open, listVars, saverVars>>
    BY <1>4 DEF StopClient
  <2>3. sender' \in [Clients -> {"none", "waiting", "sending", "stopped", "ended"}]
    BY <1>4 DEF StopClient
  <2>4. /\ fault' \in {"none", "login"}
        /\ fault' = "none" => listener \notin {"collecting", "joining"}
    BY <1>4 DEF StopClient, Uses
  <2>5. TypeOK'
    BY <2>1, <2>2, <2>3, <2>4 DEF MainSteps, Callers
  <2>6. Sound' => Ordered'
    BY <2>1, <2>2, <2>4 DEF RoomsInOrder
  <2> QED BY <2>4, <2>5, <2>6
<1>5. CASE JoinSender
  <2>1. TypeOK'
    BY <1>5 DEF JoinSender, MainSteps
  <2>2. Ordered'
    BY <1>5 DEF JoinSender, RoomsInOrder
  <2> QED BY <1>5, <2>1, <2>2 DEF JoinSender
<1>6. CASE JoinReceiver
  <2>1. TypeOK'
    BY <1>6 DEF JoinReceiver, MainSteps, Nobody
  <2>2. Ordered'
    BY <1>6 DEF JoinReceiver, RoomsInOrder
  <2> QED BY <1>6, <2>1, <2>2 DEF JoinReceiver
<1>7. CASE DeleteQueues
  BY <1>7, SMTT(30) DEF DeleteQueues, RoomsInOrder, MainSteps
<1>8. CASE StopSavers
  <2>1. TypeOK'
    BY <1>8 DEF StopSavers, MainSteps
  <2>2. Ordered'
    BY <1>8 DEF StopSavers, RoomsInOrder
  <2> QED BY <1>8, <2>1, <2>2 DEF StopSavers
<1>9. CASE JoinSaver \/ JoinPeriodic \/ CloseSocket \/ JoinListener
  <2>1. /\ QueuesDeleted /\ QueuesDeleted' /\ main' \in MainSteps
        /\ UNCHANGED <<here, roomVars, clientVars, listVars, saverVars, fault>>
    BY <1>9 DEF JoinSaver, JoinPeriodic, CloseSocket, JoinListener, MainSteps
  <2>2. TypeOK' /\ QueuesOutliveTheirUsers'
    BY <2>1
  <2>3. Ordered'
    BY <2>1 DEF RoomsInOrder
  <2> QED BY <2>2, <2>3
<1> QED BY <1>1, <1>2, <1>3, <1>4, <1>5, <1>6, <1>7, <1>8, <1>9 DEF Main

LEMMA RoomKeeps ==
  ASSUME TypeOK, Ordered, Sound, NEW r \in Rooms, Update(r) \/ RoomEnds(r)
  PROVE  Kept
<1> USE DEF Kept, Sound, TypeOK, QueuesOutliveTheirUsers, Ordered,
       ReceiversListed, QueuesFree, EnteringIsNew, JoiningIsOver, StoppedIsListed,
       ListedLosses, Active, QueuesDeleted, LateForList,
       roomVars, clientVars, listVars, saverVars
<1>1. CASE Update(r)
  <2>1. /\ UNCHANGED <<main, here, room, closed, receiver, in_room, sent_quit, open,
                       listVars, saver, periodic, copied>>
        /\ room[r] \in {"running", "killed"}
    BY <1>1 DEF Update
  <2>2. gone \cap handlers = {}
    BY <2>1 DEF RoomsInOrder
  <2>3. Playing(r) \cap gone \cap handlers = {}
    BY <2>2
  <2>4. fault' \in {"none", "collected"}
    BY <1>1, <2>3 DEF Update
  <2>5. /\ sender' \in [Clients -> {"none", "waiting", "sending", "stopped", "ended"}]
        /\ commands' \in [Rooms -> SUBSET Clients]
    BY <1>1, Zenon DEF Update
  <2>6. TypeOK'
    BY <2>1, <2>4, <2>5 DEF Callers
  <2>7. Ordered'
    BY <2>1 DEF RoomsInOrder
  <2> QED BY <2>4, <2>6, <2>7
<1>2. CASE RoomEnds(r)
  <2>1. /\ room[r] = "killed" /\ room' = [room EXCEPT ![r] = "ended"]
        /\ UNCHANGED <<main, here, commands, closed, clientVars, listVars, saverVars, fault>>
    BY <1>2 DEF RoomEnds
  <2>2. TypeOK'
    BY <2>1
  <2>3. \A q \in Rooms : room[q] = "deleted" => room'[q] = "deleted"
    BY <2>1
  <2>4. Ordered'
    BY <2>1, <2>3 DEF RoomsInOrder
  <2> QED BY <2>1, <2>2, <2>4
<1> QED BY <1>1, <1>2

\* The threads of a client.  A receiver that runs shows that the queues are there.
LEMMA ClientKeeps ==
  ASSUME TypeOK, Ordered, Sound, NEW c \in Clients,
         \/ Check(c) \/ ReceiveCommand(c) \/ ReceiveQuit(c) \/ ReceiveNothing(c)
         \/ \E r \in Rooms : ReceiveChange(c, r)
         \/ SenderEnds(c) \/ Sent(c)
  PROVE  Kept
<1> USE DEF Sound, TypeOK, QueuesOutliveTheirUsers
<1>1. Active(c) => ~ QueuesDeleted
  BY DEF Ordered, ReceiversListed, QueuesFree
<1> DEFINE Rest == UNCHANGED <<main, here, room, closed, listVars, saverVars>>
           Step == /\ receiver' \in [Clients -> {"none", "checking", "receiving", "ended"}]
                   /\ \A d \in Clients : /\ Active(d)' => Active(d)
                                         /\ receiver[d] = "ended" => receiver'[d] = "ended"
<1>2. ASSUME Rest, Step PROVE Ordered'
  <2>1. ReceiversListed'
    BY <1>2 DEF Ordered, ReceiversListed, listVars
  <2>2. QueuesFree' /\ EnteringIsNew' /\ StoppedIsListed' /\ RoomsInOrder' /\ ListedLosses'
    BY <1>2 DEF Ordered, QueuesFree, EnteringIsNew, StoppedIsListed, RoomsInOrder,
                ListedLosses, QueuesDeleted, LateForList, listVars
  <2>3. JoiningIsOver'
    BY <1>2 DEF Ordered, JoiningIsOver, listVars
  <2> QED BY <2>1, <2>2, <2>3 DEF Ordered
<1>3. CASE Check(c)
  <2>1. Rest /\ Step /\ UNCHANGED <<commands, in_room, sent_quit, sender, open>>
    BY <1>3 DEF Check, Active, roomVars
  <2>2. fault' = "none"
    BY <1>1, <1>3 DEF Check, Uses, Active
  <2>3. TypeOK'
    BY <2>1, <2>2 DEF Callers, listVars, saverVars
  <2> QED BY <1>2, <2>1, <2>2, <2>3 DEF Kept
<1>4. ASSUME Receives(c), commands' \in [Rooms -> SUBSET Clients],
             in_room' \in [Clients -> Rooms], sent_quit' \subseteq Clients, open' = open,
             fault' \in {"none", "room change"}
      PROVE  Kept
  <2>1. Rest /\ Step /\ sender' = sender
    BY <1>4 DEF Receives, Active
  <2>2. TypeOK'
    BY <1>4, <2>1 DEF Callers, listVars, saverVars
  <2> QED BY <1>2, <1>4, <2>1, <2>2 DEF Kept
<1>5. ASSUME Receives(c), Push(c)
      PROVE  commands' \in [Rooms -> SUBSET Clients] /\ fault' = "none"
  BY <1>1, <1>5 DEF Receives, Push, Uses, Active
<1>6. CASE ReceiveCommand(c)
  BY <1>4, <1>5, <1>6 DEF ReceiveCommand
<1>7. CASE ReceiveQuit(c)
  BY <1>4, <1>5, <1>7 DEF ReceiveQuit
<1>8. CASE ReceiveNothing(c)
  BY <1>4, <1>5, <1>8 DEF ReceiveNothing
<1>9. ASSUME NEW r \in Rooms, ReceiveChange(c, r) PROVE Kept
  BY <1>4, <1>9 DEF ReceiveChange, Uses
<1>10. CASE SenderEnds(c) \/ Sent(c)
  <2>1. /\ UNCHANGED <<main, here, roomVars, receiver, in_room, sent_quit, open, listVars,
                       saverVars, fault>>
        /\ sender' \in [Clients -> {"none", "waiting", "sending", "stopped", "ended"}]
    BY <1>10 DEF SenderEnds, Sent
  <2>2. Rest /\ Step
    BY <2>1 DEF Active, roomVars
  <2>3. TypeOK'
    BY <2>1 DEF roomVars, listVars, saverVars
  <2> QED BY <1>2, <2>1, <2>2, <2>3 DEF Kept
<1> QED BY <1>3, <1>6, <1>7, <1>8, <1>9, <1>10

LEMMA ListenerKeeps ==
  ASSUME TypeOK, Ordered, Sound,
         \/ StartClient \/ Collect \/ Collected \/ ListenerEnds
         \/ \E c \in Clients : Accept(c)
         \/ \E r \in Rooms : Login(r)
  PROVE  Kept
<1> USE DEF Kept, Sound, TypeOK, QueuesOutliveTheirUsers, Ordered,
       ReceiversListed, QueuesFree, EnteringIsNew, JoiningIsOver, StoppedIsListed,
       ListedLosses, Active, QueuesDeleted, Uses,
       roomVars, clientVars, listVars, saverVars
<1>1. CASE StartClient
  <2>1. /\ listener = "entered" /\ listener' = "collecting"
        /\ handlers' = handlers \cup {entering} /\ open' = open \cup {entering}
        /\ receiver' = [receiver EXCEPT ![entering] = "checking"]
        /\ sender' = [sender EXCEPT ![entering] = "waiting"] /\ entering' = Nobody
        /\ UNCHANGED <<main, here, roomVars, in_room, sent_quit, gone, saverVars>>
        /\ fault' \in {"none", "login"} /\ (fault' = "none" => ~ LateForList)
    BY <1>1 DEF StartClient
  <2>2. entering \in Clients /\ entering \notin handlers \cup gone
    BY <2>1
  <2>3. TypeOK'
    BY <2>1, <2>2 DEF Callers, Nobody
  <2>4. ASSUME Sound' PROVE Ordered'
    <3>1. ~ LateForList /\ ~ LateForList'
      BY <2>1, <2>4 DEF LateForList
    <3>2. ReceiversListed'
      BY <2>1, <2>2
    <3>3. main \notin {"join sender", "join receiver"} /\ ~ QueuesDeleted
      BY <3>1 DEF LateForList
    <3>4. RoomsInOrder'
      BY <2>1, <3>1 DEF RoomsInOrder
    <3>5. ListedLosses'
      BY <2>1, <2>2, <3>1
    <3> QED BY <2>1, <3>1, <3>2, <3>3, <3>4, <3>5
  <2> QED BY <2>1, <2>3, <2>4
<1>2. CASE Collect
  <2>1. /\ listener = "collecting"
        /\ UNCHANGED <<main, here, roomVars, receiver, in_room, sent_quit, open, handlers,
                       gone, saverVars>>
        /\ fault' \in {"none", "login"} /\ (fault' = "none" => ~ LateForList)
    BY <1>2 DEF Collect
  <2>2. ASSUME Sound' PROVE ~ LateForList /\ main \notin {"join sender", "join receiver"}
    BY <2>1, <2>2 DEF LateForList
  <2>3. ReceiversListed' /\ QueuesFree' /\ RoomsInOrder' /\ ListedLosses'
    BY <2>1 DEF LateForList, RoomsInOrder
  <2>4. ASSUME NEW c \in handlers, receiver[c] = "ended", listener' = "joining",
               entering' = c,
               sender' = [sender EXCEPT ![c] = IF @ = "waiting" THEN "stopped" ELSE @]
        PROVE  Kept
    <3>1. TypeOK'
      BY <2>1, <2>4 DEF Callers
    <3> QED BY <2>1, <2>2, <2>3, <2>4, <3>1
  <2>5. ASSUME listener' = "accepting", UNCHANGED <<entering, sender>>
        PROVE  Kept
    <3>1. TypeOK'
      BY <2>1, <2>5 DEF Callers
    <3> QED BY <2>1, <2>2, <2>3, <2>5, <3>1
  <2> QED BY <1>2, <2>4, <2>5 DEF Collect
<1>3. CASE Collected
  <2>1. /\ listener = "joining" /\ listener' = "collecting" /\ entering' = Nobody
        /\ open' = open \ {entering} /\ handlers' = handlers \ {entering}
        /\ gone' = gone \cup {entering}
        /\ UNCHANGED <<main, here, roomVars, receiver, in_room, sent_quit, sender, saverVars>>
        /\ fault' \in {"none", "login"} /\ (fault' = "none" => ~ LateForList)
    BY <1>3 DEF Collected
  <2>2. entering \in handlers /\ receiver[entering] = "ended"
    BY <2>1
  <2>3. TypeOK'
    BY <2>1, <2>2 DEF Callers, Nobody
  <2>4. ASSUME Sound' PROVE Ordered'
    <3>1. ~ LateForList /\ ~ LateForList' /\ main \notin {"join sender", "join receiver"}
      BY <2>1, <2>4 DEF LateForList
    <3>2. ReceiversListed'
      BY <2>1, <2>2
    <3>3. RoomsInOrder' /\ ListedLosses'
      BY <2>1, <3>1 DEF RoomsInOrder, LateForList
    <3> QED BY <2>1, <3>1, <3>2, <3>3
  <2> QED BY <2>1, <2>3, <2>4
<1>4. CASE ListenerEnds
  <2>1. /\ listener = "accepting" /\ listener' = "ended"
        /\ UNCHANGED <<main, here, roomVars, clientVars, entering, handlers, gone, saverVars,
                       fault>>
    BY <1>4 DEF ListenerEnds
  <2>2. TypeOK'
    BY <2>1
  <2>3. Ordered'
    BY <2>1 DEF RoomsInOrder, LateForList
  <2> QED BY <2>1, <2>2, <2>3
<1>5. ASSUME NEW c \in Clients, Accept(c) PROVE Kept
  <2>1. /\ listener = "accepting" /\ listener' = "receiving" /\ entering' = c
        /\ c \notin handlers \cup gone
        /\ UNCHANGED <<main, here, roomVars, clientVars, handlers, gone, saverVars, fault>>
    BY <1>5 DEF Accept
  <2>2. TypeOK'
    BY <2>1
  <2>3. Ordered'
    BY <2>1 DEF RoomsInOrder, LateForList
  <2> QED BY <2>1, <2>2, <2>3
<1>6. ASSUME NEW r \in Rooms, Login(r) PROVE Kept
  <2>1. /\ listener = "receiving" /\ listener' = "entered"
        /\ in_room' \in [Clients -> Rooms] /\ fault' \in {"none", "login"}
        /\ UNCHANGED <<main, here, roomVars, receiver, sent_quit, sender, open,
                       entering, handlers, gone, saverVars>>
    BY <1>6 DEF Login
  <2>2. TypeOK'
    BY <2>1 DEF Callers
  <2>3. Ordered'
    BY <2>1 DEF RoomsInOrder, LateForList
  <2> QED BY <2>1, <2>2, <2>3
<1> QED BY <1>1, <1>2, <1>3, <1>4, <1>5, <1>6

\* The savers touch nothing the invariant speaks of, and Stop begins with the first room.
LEMMA SaversKeep ==
  ASSUME TypeOK, Ordered, Sound,
         SaverEnds \/ CopyHeroes \/ SaveCopied \/ PeriodicEnds
  PROVE  Kept
<1>1. /\ UNCHANGED <<main, here, roomVars, clientVars, listVars>>
      /\ fault' \in {"none", "periodic save"}
      /\ saver' \in {"running", "closed", "ended"}
      /\ periodic' \in {"sleeping", "copied", "stopped", "ended"}
  BY DEF TypeOK, Sound, Uses, SaverEnds, CopyHeroes, SaveCopied, PeriodicEnds
<1>2. copied' \subseteq Clients
  <2>1. \A r \in Rooms : Playing(r) \subseteq Clients
    BY DEF TypeOK, Playing
  <2>2. CASE CopyHeroes
    BY <2>1, <2>2 DEF CopyHeroes
  <2>3. CASE SaverEnds \/ SaveCopied \/ PeriodicEnds
    BY <2>3 DEF TypeOK, SaverEnds, SaveCopied, PeriodicEnds
  <2> QED BY <2>2, <2>3
<1>3. TypeOK' /\ QueuesOutliveTheirUsers'
  BY <1>1, <1>2 DEF TypeOK, QueuesOutliveTheirUsers, Callers, roomVars, clientVars, listVars
<1>4. Ordered'
  BY <1>1 DEF Ordered, ReceiversListed, QueuesFree, EnteringIsNew, JoiningIsOver,
              StoppedIsListed, RoomsInOrder, ListedLosses, Active, QueuesDeleted,
              LateForList, roomVars, clientVars, listVars
<1> QED BY <1>3, <1>4 DEF Kept

\* After a fault nothing is said.
LEMMA NoLoginKeeps == ASSUME TypeOK, NoLogin PROVE Kept
BY DEF NoLogin, Kept, Sound, TypeOK, Callers, QueuesOutliveTheirUsers, roomVars, clientVars,
       listVars, saverVars

LEMMA StopKeeps == ASSUME TypeOK, Ordered, Sound, Stop PROVE Kept
BY ShutdownAssumption, SMTT(30)
   DEF Stop, Kept, Sound, TypeOK, QueuesOutliveTheirUsers, Ordered, ReceiversListed,
       QueuesFree, EnteringIsNew, JoiningIsOver, StoppedIsListed, RoomsInOrder,
       ListedLosses, Active, QueuesDeleted, LateForList, Go, Rooms, MainSteps,
       roomVars, clientVars, listVars, saverVars

LEMMA NextKeeps == ShutdownInv /\ [Next]_vars => ShutdownInv'
<1> SUFFICES ASSUME ShutdownInv, [Next]_vars PROVE ShutdownInv'
  OBVIOUS
<1>1. CASE UNCHANGED vars
  <2>1. TypeOK'
    BY <1>1 DEF ShutdownInv, TypeOK, vars, roomVars, clientVars, listVars, saverVars
  <2>2. Sound' => Sound /\ Ordered'
    BY <1>1 DEF ShutdownInv, Sound, Ordered, ReceiversListed, QueuesFree, EnteringIsNew,
                JoiningIsOver, StoppedIsListed, RoomsInOrder, ListedLosses, Active,
                QueuesDeleted, LateForList, vars, roomVars, clientVars, listVars
  <2> QED BY <1>1, <2>1, <2>2 DEF ShutdownInv, QueuesOutliveTheirUsers, vars
<1>2. CASE Next
  <2> SUFFICES Kept
    BY DEF Kept, ShutdownInv
  <2>1. Sound /\ TypeOK /\ Ordered
    BY <1>2 DEF ShutdownInv, Next, MainStep, RoomStep, ReceiverStep, Input, SenderStep,
                ListenerStep, SaverStep, PeriodicStep, Others
  <2>2. CASE MainStep
    BY <2>1, <2>2, MainKeeps DEF MainStep
  <2>3. CASE ListenerStep
    BY <2>1, <2>3, ListenerKeeps DEF ListenerStep
  <2>4. CASE SaverStep \/ PeriodicStep
    BY <2>1, <2>4, SaversKeep DEF SaverStep, PeriodicStep
  <2>5. CASE Others
    <3>1. CASE Stop \/ CopyHeroes \/ NoLogin
      BY <2>1, <3>1, StopKeeps, SaversKeep, NoLoginKeeps
    <3>2. ASSUME NEW c \in Clients, Sent(c) \/ Accept(c) PROVE Kept
      BY <2>1, <3>2, ClientKeeps, ListenerKeeps
    <3>3. ASSUME NEW r \in Rooms, Login(r) PROVE Kept
      BY <2>1, <3>3, ListenerKeeps
    <3> QED BY <2>5, <3>1, <3>2, <3>3 DEF Others
  <2>6. ASSUME NEW r \in Rooms, RoomStep(r) PROVE Kept
    BY <2>1, <2>6, RoomKeeps DEF RoomStep
  <2>7. ASSUME NEW c \in Clients, ReceiverStep(c) \/ Input(c) \/ SenderStep(c) PROVE Kept
    BY <2>1, <2>7, ClientKeeps DEF ReceiverStep, Input, SenderStep
  <2> QED BY <1>2, <2>2, <2>3, <2>4, <2>5, <2>6, <2>7 DEF Next
<1> QED BY <1>1, <1>2

-----------------------------------------------------------------------------

\* In every state of every stop, for any number of rooms and clients: the types
\* hold, no receiver or room has used a deleted queue, and until some other thread
\* has used something deleted, the rooms go in their order, the handlers after
\* them and the queues after those (ClientListener::stop_listening).
THEOREM StopIsOrdered == Spec => []ShutdownInv
<1>1. Init => ShutdownInv
  BY InitOrdered
<1> QED BY <1>1, NextKeeps, PTL DEF Spec

\* Whatever the threads interleave with the stop, a command is pushed and a status
\* notified only on queues that are still there (client_listener.cpp:58).
THEOREM QueuesOutlive == Spec => []QueuesOutliveTheirUsers
<1>1. ShutdownInv => QueuesOutliveTheirUsers
  BY DEF ShutdownInv
<1> QED BY <1>1, StopIsOrdered, PTL

\* Every variable of the stop keeps its type.
THEOREM StopTypeCorrect == Spec => []TypeOK
<1>1. ShutdownInv => TypeOK
  BY DEF ShutdownInv
<1> QED BY <1>1, StopIsOrdered, PTL

=============================================================================
