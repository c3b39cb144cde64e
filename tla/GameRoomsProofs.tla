--------------------------- MODULE GameRoomsProofs ---------------------------
(***************************************************************************)
(* Theorems about GameRooms for every set of sessions and rooms and every  *)
(* number of requests: types, the invariant SessionsInv, the safety        *)
(* properties it implies, and the refinement of PlayerSession.             *)
(***************************************************************************)
EXTENDS GameRooms, SequenceTheorems, TLAPS

\* Most actions leave this pair alone.
USE DEF records

-----------------------------------------------------------------------------
(* Types *)

\* Pushing a command on a room's queue leaves a queue of commands.
LEMMA PushType ==
  ASSUME NEW f \in [Rooms -> Seq(Commands)], NEW r,
         NEW k \in CommandKinds, NEW s \in Sessions
  PROVE  [f EXCEPT ![r] = Append(@, Command(k, s))] \in [Rooms -> Seq(Commands)]
<1>1. Command(k, s) \in Commands
  BY DEF Command, Commands
<1>2. ASSUME NEW q \in Rooms
      PROVE  [f EXCEPT ![r] = Append(@, Command(k, s))][q] \in Seq(Commands)
  <2>1. f[q] \in Seq(Commands) /\ Append(f[q], Command(k, s)) \in Seq(Commands)
    BY <1>1
  <2>2. QED
    BY <2>1
<1>3. QED
  BY <1>2

\* A client that may still send a request is within its bound after it.
LEMMA RequestsType ==
  ASSUME NEW f \in [Sessions -> 0..MaxRequests], NEW s \in Sessions,
         f[s] < MaxRequests
  PROVE  [f EXCEPT ![s] = @ + 1] \in [Sessions -> 0..MaxRequests]
<1>1. f[s] + 1 \in 0..MaxRequests
  BY RoomsAssumption
<1>2. QED
  BY <1>1

\* The command at the head of a queue names a session.
LEMMA HeadType ==
  ASSUME TypeOK, NEW r \in Rooms, commands_queue[r] # <<>>
  PROVE  /\ Head(commands_queue[r]) \in Commands
         /\ Head(commands_queue[r]).uid \in Sessions
<1>1. Head(commands_queue[r]) \in Commands
  BY HeadTailProperties DEF TypeOK
<1>2. QED
  BY <1>1 DEF Commands

\* One step of the thread that accepts and collects clients keeps the types.
LEMMA ListenerTypes == TypeOK /\ ListenerNext => TypeOK'
<1> SUFFICES ASSUME TypeOK, ListenerNext PROVE TypeOK'
  OBVIOUS
<1> USE DEF TypeOK, FreeSteps, BusySteps, QueueStates, clientVars, roomVars,
            Goto
<1>1. CASE RegisterNewQueue
  BY <1>1 DEF RegisterNewQueue, WithQueue
<1>2. CASE StartClient
  BY <1>2 DEF StartClient, ReceiverSteps
<1>3. CASE DeleteSender
  BY <1>3 DEF DeleteSender
<1>4. CASE DeleteReceiver
  BY <1>4 DEF DeleteReceiver
<1>5. CASE EndCollection
  BY <1>5 DEF EndCollection
<1>6. ASSUME NEW s \in Sessions, SkipLiveClient(s) PROVE TypeOK'
  BY <1>6 DEF SkipLiveClient
<1>7. ASSUME NEW s \in Sessions, StopSender(s) PROVE TypeOK'
  BY <1>7 DEF StopSender, Closed
<1>8. QED
  BY <1>1, <1>2, <1>3, <1>4, <1>5, <1>6, <1>7 DEF ListenerNext

\* So does one step of a client's threads.
LEMMA ClientTypes ==
  ASSUME TypeOK, NEW s \in Sessions,
         ClientActs(s) \/ ReceiverContinues(s) \/ AfterSend(s)
  PROVE  TypeOK'
<1> USE RoomsAssumption DEF TypeOK, ReceiverSteps, listenerVars, roomVars
<1>1. ASSUME NEW r \in Rooms, AddNewHero(s, r) PROVE TypeOK'
  BY <1>1 DEF AddNewHero, WithHero, Goto, BusySteps, QueueStates
<1>2. CASE ReceiveCommand(s)
  <2>1. commands_queue' \in [Rooms -> Seq(Commands)]
    BY <1>2, PushType DEF ReceiveCommand, Push, CommandKinds
  <2>2. requests' \in [Sessions -> 0..MaxRequests]
    BY <1>2, RequestsType DEF ReceiveCommand
  <2>3. QED
    BY <1>2, <2>1, <2>2 DEF ReceiveCommand
<1>3. ASSUME NEW r \in Rooms, LeaveRoom(s, r) PROVE TypeOK'
  <2>1. requests' \in [Sessions -> 0..MaxRequests]
    BY <1>3, RequestsType DEF LeaveRoom
  <2>2. /\ heroes' \in [Rooms -> SUBSET Sessions]
        /\ queues_notifications' \in [Rooms -> SUBSET Sessions]
    BY <1>3 DEF LeaveRoom, WithoutHero, WithoutQueue
  <2>3. QED
    BY <1>3, <2>1, <2>2 DEF LeaveRoom
<1>4. CASE AddExistingHero(s)
  BY <1>4 DEF AddExistingHero, WithHero
<1>5. CASE AddExistingQueue(s)
  BY <1>5 DEF AddExistingQueue, WithQueue, RoomAfterChange
<1>6. CASE ReceiveQuit(s)
  BY <1>6, PushType DEF ReceiveQuit, Push, CommandKinds
<1>7. CASE StopAfterQuit(s)
  BY <1>7 DEF StopAfterQuit, StepAfterQuit
<1>8. CASE LoseConnection(s)
  BY <1>8 DEF LoseConnection
<1>9. CASE QuitForLostClient(s)
  BY <1>9, PushType DEF QuitForLostClient, Push, CommandKinds
<1>10. CASE SenderStops(s)
  BY <1>10 DEF SenderStops
<1>11. CASE StopReading(s)
  BY <1>11 DEF StopReading
<1>12. QED
  BY <1>1, <1>2, <1>3, <1>4, <1>5, <1>6, <1>7, <1>8, <1>9, <1>10, <1>11
  DEF ClientActs, ReceiverContinues, AfterSend

\* And one step of a room.
LEMMA RoomTypes ==
  ASSUME TypeOK, NEW r \in Rooms, RoomNext(r)
  PROVE  TypeOK'
<1> USE DEF TypeOK, LoopSteps, listenerVars, clientVars
<1>1. CASE BeginUpdate(r)
  BY <1>1 DEF BeginUpdate, Advance
<1>2. CASE ExecuteAct(r)
  BY <1>2 DEF ExecuteAct
<1>3. CASE ExecuteQuit(r)
  <2>1. PICK s \in Sessions : s = Head(commands_queue[r]).uid
    BY <1>3, HeadType DEF ExecuteQuit
  <2>2. commands_queue' \in [Rooms -> Seq(Commands)]
    BY <1>3 DEF ExecuteQuit
  <2>3. queues_notifications' \in [Rooms -> SUBSET Sessions]
    BY <1>3 DEF ExecuteQuit
  <2>4. notifications_queue' \in [Sessions -> QueueStates]
    BY <1>3, <2>1 DEF ExecuteQuit, Closed, QueueStates
  <2>5. /\ saves' \in [Sessions -> Nat]
        /\ dead' \in SUBSET Sessions /\ misread' \in SUBSET Sessions
    BY <1>3, <2>1 DEF ExecuteQuit, Killed
  <2>6. QED
    BY <1>3, <2>2, <2>3, <2>4, <2>5 DEF ExecuteQuit
<1>4. CASE EndUpdate(r)
  BY <1>4 DEF EndUpdate, Advance
<1>5. CASE LookForHeroes(r)
  BY <1>5 DEF LookForHeroes, Advance
<1>6. CASE SendGameStatus(r)
  BY <1>6 DEF SendGameStatus, Advance
<1>7. CASE RemoveDeadHeroes(r)
  BY <1>7 DEF RemoveDeadHeroes, Advance
<1>8. QED
  BY <1>1, <1>2, <1>3, <1>4, <1>5, <1>6, <1>7 DEF RoomNext

\* The initial values have their types.
LEMMA InitTypes == Init => TypeOK
BY RoomsAssumption
DEF Init, TypeOK, FreeSteps, ReceiverSteps, QueueStates, LoopSteps

\* And so does one step of the server.
LEMMA NextTypes == TypeOK /\ [Next]_vars => TypeOK'
<1>1. ASSUME TypeOK, UNCHANGED vars PROVE TypeOK'
  BY <1>1 DEF TypeOK, vars, listenerVars, clientVars, roomVars
<1>2. QED
  BY <1>1, ListenerTypes, ClientTypes, RoomTypes DEF Next

\* Every variable keeps its type in every behaviour of the server's threads.
THEOREM TypeCorrect == Spec => []TypeOK
BY InitTypes, NextTypes, PTL DEF Spec

-----------------------------------------------------------------------------
(* Quits in the rooms' queues *)

\* A pushed command is pending in its room, behind what was there.
LEMMA PendingAfterPush ==
  ASSUME TypeOK, NEW r \in Rooms, NEW k \in CommandKinds, NEW s \in Sessions,
         Push(r, k, s),
         NEW l \in CommandKinds, NEW t \in Sessions, NEW q \in Rooms
  PROVE  Pending(l, t, q)' =
           Pending(l, t, q) \cup (IF q = r /\ l = k /\ t = s
                                  THEN {Len(commands_queue[r]) + 1} ELSE {})
<1>1. commands_queue[r] \in Seq(Commands)
  BY DEF TypeOK
<1>2. /\ Command(k, s) \in Commands
      /\ Command(k, s) = Command(l, t) <=> k = l /\ s = t
  BY DEF Command, Commands
<1>3. commands_queue'[q] = IF q = r THEN Append(commands_queue[r], Command(k, s))
                                    ELSE commands_queue[q]
  BY DEF Push, TypeOK
<1>4. CASE q # r
  BY <1>3, <1>4 DEF Pending
<1>5. CASE q = r
  <2> DEFINE n == Len(commands_queue[r])
  <2>1. n \in Nat
    BY <1>1
  <2>2. /\ DOMAIN commands_queue'[q] = 1..n+1
        /\ DOMAIN commands_queue[q] = 1..n
    BY <1>1, <1>2, <1>3, <1>5
  <2>3. \A i \in 1..n : commands_queue'[q][i] = commands_queue[q][i]
    BY <1>1, <1>2, <1>3, <1>5
  <2>4. commands_queue'[q][n+1] = Command(k, s)
    BY <1>1, <1>2, <1>3, <1>5
  <2>5. QED
    BY <1>2, <1>5, <2>1, <2>2, <2>3, <2>4 DEF Pending
<1>6. QED
  BY <1>4, <1>5

\* When a room takes a command the ones behind it move up.
LEMMA PendingAfterPop ==
  ASSUME TypeOK, NEW r \in Rooms, commands_queue[r] # <<>>,
         commands_queue' = [commands_queue EXCEPT ![r] = Tail(@)],
         NEW l \in CommandKinds, NEW t \in Sessions, NEW q \in Rooms
  PROVE  Pending(l, t, q)' = IF q = r
                             THEN {i \in Nat \ {0} : i + 1 \in Pending(l, t, q)}
                             ELSE Pending(l, t, q)
<1>1. commands_queue[r] \in Seq(Commands)
  BY DEF TypeOK
<1>2. commands_queue'[q] = IF q = r THEN Tail(commands_queue[r])
                                    ELSE commands_queue[q]
  BY DEF TypeOK
<1>3. CASE q # r
  BY <1>2, <1>3 DEF Pending
<1>4. CASE q = r
  <2> DEFINE n == Len(commands_queue[r])
  <2>1. n \in Nat \ {0}
    BY <1>1
  <2>2. /\ Tail(commands_queue[r]) \in Seq(Commands)
        /\ Len(Tail(commands_queue[r])) = n - 1
        /\ \A i \in 1..Len(Tail(commands_queue[r])) :
             Tail(commands_queue[r])[i] = commands_queue[r][i+1]
    BY <1>1, HeadTailProperties
  <2>3. \A x \in Seq(Commands) : DOMAIN x = 1..Len(x)
    OBVIOUS
  <2>4. /\ DOMAIN commands_queue'[q] = 1..n-1
        /\ DOMAIN commands_queue[q] = 1..n
    BY <1>1, <1>2, <1>4, <2>2, <2>3
  <2>5. \A i \in 1..n-1 : commands_queue'[q][i] = commands_queue[q][i+1]
    BY <1>1, <1>2, <1>4, <2>2
  <2>6. QED
    BY <1>4, <2>1, <2>4, <2>5 DEF Pending
<1>5. QED
  BY <1>3, <1>4

\* What QuitPending says of a session is kept by a room that takes a command
\* which is not that session's Quit.
LEMMA QuitKeptByPop ==
  ASSUME TypeOK, NEW r \in Rooms, commands_queue[r] # <<>>,
         commands_queue' = [commands_queue EXCEPT ![r] = Tail(@)],
         NEW t \in Sessions, ConnectionOk(t), QuitPending(t),
         1 \notin Pending("quit", t, r),
         UNCHANGED <<receiver, current_game_room>>,
         t \in dead' <=> t \in dead,
         saves'[t] = saves[t]
  PROVE  QuitPending(t)'
<1>1. \A q \in Rooms :
        Pending("quit", t, q)' = IF q = r
                                 THEN {i \in Nat \ {0} :
                                         i + 1 \in Pending("quit", t, q)}
                                 ELSE Pending("quit", t, q)
  BY PendingAfterPop DEF CommandKinds
<1>2. ASSUME NEW q \in Rooms, NEW i \in Pending("quit", t, q)'
      PROVE  /\ q = current_game_room[t]
             /\ receiver[t] \in {"closing", "done"}
             /\ t \notin dead
             /\ \A j \in Pending("quit", t, q)' : i = j
  BY <1>1 DEF QuitPending
<1>3. ASSUME current_game_room[t] \in Rooms,
             Pending("quit", t, current_game_room[t]) # {}
      PROVE  Pending("quit", t, current_game_room[t])' # {}
  <2>1. CASE current_game_room[t] # r
    BY <1>1, <1>3, <2>1
  <2>2. CASE current_game_room[t] = r
    <3>1. PICK i \in Pending("quit", t, r) : TRUE
      BY <1>3, <2>2
    <3>2. Pending("quit", t, r) \subseteq Nat \ {0}
      BY DEF Pending, TypeOK
    <3>3. i \in Nat \ {0, 1}
      BY <3>1, <3>2
    <3>4. i - 1 \in Pending("quit", t, r)'
      BY <1>1, <3>1, <3>3
    <3>5. QED
      BY <2>2, <3>4
  <2>3. QED
    BY <2>1, <2>2
<1>4. receiver[t] \in {"closing", "done"} => current_game_room[t] \in Rooms
  BY DEF ConnectionOk, TypeOK
<1>5. QED
  BY <1>2, <1>3, <1>4 DEF QuitPending

\* Nothing is said of the acts: pushing one keeps QuitPending.
LEMMA QuitKeptByPush ==
  ASSUME TypeOK, NEW r \in Rooms, NEW k \in CommandKinds, NEW s \in Sessions,
         Push(r, k, s),
         NEW t \in Sessions, QuitPending(t), t # s \/ k # "quit",
         receiver'[t] = receiver[t],
         UNCHANGED <<current_game_room, dead, saves>>,
         receiver[t] \in {"closing", "done"} => current_game_room[t] \in Rooms
  PROVE  QuitPending(t)'
<1>1. "quit" \in CommandKinds
  BY DEF CommandKinds
<1>2. ASSUME NEW q \in Rooms
      PROVE  Pending("quit", t, q)' = Pending("quit", t, q)
  <2>1. Pending("quit", t, q)' =
          Pending("quit", t, q) \cup (IF q = r /\ "quit" = k /\ t = s
                                     THEN {Len(commands_queue[r]) + 1} ELSE {})
    BY <1>1, PendingAfterPush
  <2>2. QED
    BY <2>1
<1>3. QED
  BY <1>2 DEF QuitPending

\* A Quit pushed by a receiver that had pushed none is pending, and alone.
LEMMA QuitPushed ==
  ASSUME TypeOK, NEW s \in Sessions, QuitPending(s),
         current_game_room[s] \in Rooms, Push(current_game_room[s], "quit", s),
         receiver[s] \notin {"closing", "done"},
         receiver'[s] \in {"closing", "done"},
         UNCHANGED <<current_game_room, dead, saves>>
  PROVE  QuitPending(s)'
<1>1. \A q \in Rooms : Pending("quit", s, q) = {}
  BY DEF QuitPending
<1>2. \A q \in Rooms :
        Pending("quit", s, q)' = IF q = current_game_room[s]
                                 THEN {Len(commands_queue[q]) + 1} ELSE {}
  BY <1>1, PendingAfterPush DEF CommandKinds
<1>3. s \notin dead
  BY DEF QuitPending
<1>4. QED
  BY <1>2, <1>3 DEF QuitPending

\* Queues that do not change have the same commands pending.
LEMMA PendingFrame ==
  ASSUME UNCHANGED commands_queue
  PROVE  \A k, s, r : Pending(k, s, r)' = Pending(k, s, r)
BY DEF Pending

-----------------------------------------------------------------------------
(* SessionsInv is inductive: one lemma per action that can disturb it *)

\* A server that has accepted nobody satisfies it.
LEMMA InitInv == Init => SessionsInv
BY RoomsAssumption
DEF Init, SessionsInv, ListenerOk, SessionOk, ConnectionOk, HeroAtHome, Home,
    OnTheRoad, QueueAtHome, QueueLife, QuitPending, Pending, Deleted

\* Steps of threads that only move their own program counter.
LEMMA FrameInv ==
  ASSUME SessionsInv,
         UNCHANGED <<listener, clients, unchecked, receiver, current_game_room,
                     destination, notifications_queue, heroes, dead,
                     queues_notifications, commands_queue, records>>
  PROVE  SessionsInv'
<1>1. \A k, s, r : Pending(k, s, r)' = Pending(k, s, r)
  BY PendingFrame
<1>2. Deleted' = Deleted /\ \A s \in Sessions : Home(s)' = Home(s)
  BY DEF Deleted, Home
<1>3. ListenerOk'
  BY <1>2 DEF SessionsInv, ListenerOk
<1>4. ASSUME NEW t \in Sessions PROVE SessionOk(t)'
  <2>1. SessionOk(t)
    BY DEF SessionsInv
  <2>2. ConnectionOk(t)'
    BY <2>1 DEF SessionOk, ConnectionOk
  <2>3. HeroAtHome(t)'
    BY <1>2, <2>1 DEF SessionOk, HeroAtHome, OnTheRoad
  <2>4. QueueAtHome(t)'
    BY <1>2, <2>1 DEF SessionOk, QueueAtHome
  <2>5. QueueLife(t)'
    BY <1>2, <2>1 DEF SessionOk, QueueLife
  <2>6. QuitPending(t)'
    BY <1>1, <2>1 DEF SessionOk, QuitPending
  <2>7. QED
    BY <2>2, <2>3, <2>4, <2>5, <2>6 DEF SessionOk
<1>5. QED
  BY <1>3, <1>4 DEF SessionsInv

\* The new hero's queue joins the room the hero is in.
LEMMA RegisterNewQueueInv ==
  ASSUME TypeOK, SessionsInv, RegisterNewQueue
  PROVE  SessionsInv'
<1> USE DEF TypeOK, FreeSteps, SessionsInv, SessionOk, RegisterNewQueue,
            WithQueue, clientVars, Goto
<1>1. ListenerOk'
  BY DEF ListenerOk, Deleted
<1>2. ASSUME NEW t \in Sessions PROVE SessionOk(t)'
  <2>1. ConnectionOk(t)'
    BY <1>2, RoomsAssumption DEF ConnectionOk
  <2>2. HeroAtHome(t)'
    BY <1>2, RoomsAssumption DEF HeroAtHome, Home, OnTheRoad
  <2>3. QueueAtHome(t)'
    <3>1. PICK s \in Sessions, r \in Rooms :
            /\ s = listener.client /\ r = current_game_room[s]
            /\ receiver[s] = "none" /\ s \notin dead
      BY DEF ListenerOk, QuitPending
    <3>2. queues_notifications' =
            [queues_notifications EXCEPT ![r] = @ \cup {s}]
      BY <3>1
    <3>3. CASE t = s
      BY <3>1, <3>2, <3>3 DEF QueueAtHome
    <3>4. CASE t # s
      BY <3>1, <3>2, <3>4 DEF QueueAtHome, Deleted
    <3>5. QED
      BY <3>3, <3>4
  <2>4. QueueLife(t)'
    BY <1>2, RoomsAssumption DEF QueueLife, Deleted
  <2>5. QuitPending(t)'
    <3>1. \A k, u, q : Pending(k, u, q)' = Pending(k, u, q)
      BY PendingFrame
    <3>2. QED
      BY <1>2, <3>1, RoomsAssumption DEF QuitPending
  <2>6. QED
    BY <2>1, <2>2, <2>3, <2>4, <2>5
<1>3. QED
  BY <1>1, <1>2

\* A client starts with its hero in the room and its queue in the table.
LEMMA StartClientInv ==
  ASSUME TypeOK, SessionsInv, StartClient
  PROVE  SessionsInv'
<1> USE DEF TypeOK, FreeSteps, SessionsInv, SessionOk, StartClient, roomVars,
            Goto
<1>1. ListenerOk'
  <2>1. PICK s \in Sessions :
          s = listener.client /\ notifications_queue[s] = "open"
    BY RoomsAssumption DEF ListenerOk, QueueLife
  <2>2. clients \cap Deleted = {}
    BY DEF ListenerOk
  <2>3. QED
    BY <2>1, <2>2 DEF ListenerOk, Deleted
<1>2. ASSUME NEW t \in Sessions PROVE SessionOk(t)'
  <2>1. ConnectionOk(t)'
    BY <1>2, RoomsAssumption DEF ConnectionOk, ListenerOk
  <2>2. HeroAtHome(t)'
    BY <1>2, RoomsAssumption DEF HeroAtHome, Home, OnTheRoad, ListenerOk
  <2>3. QueueAtHome(t)'
    BY <1>2, RoomsAssumption DEF QueueAtHome, Deleted
  <2>4. QueueLife(t)'
    BY <1>2, RoomsAssumption DEF QueueLife, Deleted, ListenerOk
  <2>5. QuitPending(t)'
    <3>1. \A k, u, q : Pending(k, u, q)' = Pending(k, u, q)
      BY PendingFrame
    <3>2. QED
      BY <1>2, <3>1, RoomsAssumption DEF QuitPending, ListenerOk
  <2>6. QED
    BY <2>1, <2>2, <2>3, <2>4, <2>5
<1>3. QED
  BY <1>1, <1>2

\* Only the queue of a client whose receiver stopped is deleted.
LEMMA DeleteSenderInv ==
  ASSUME TypeOK, SessionsInv, DeleteSender
  PROVE  SessionsInv'
<1> USE DEF SessionsInv, SessionOk, DeleteSender, clientVars, roomVars, Goto
<1>1. ListenerOk'
  BY DEF ListenerOk, Deleted
<1>2. ASSUME NEW t \in Sessions PROVE SessionOk(t)'
  <2>1. ConnectionOk(t)'
    BY <1>2, RoomsAssumption DEF ConnectionOk, ListenerOk
  <2>2. HeroAtHome(t)'
    BY <1>2, RoomsAssumption DEF HeroAtHome, Home, OnTheRoad
  <2>3. QueueAtHome(t)'
    BY <1>2, RoomsAssumption DEF QueueAtHome, Deleted
  <2>4. QueueLife(t)'
    BY <1>2, RoomsAssumption DEF QueueLife, Deleted, ListenerOk
  <2>5. QuitPending(t)'
    <3>1. \A k, u, q : Pending(k, u, q)' = Pending(k, u, q)
      BY PendingFrame
    <3>2. QED
      BY <1>2, <3>1, RoomsAssumption DEF QuitPending
  <2>6. QED
    BY <2>1, <2>2, <2>3, <2>4, <2>5
<1>3. QED
  BY <1>1, <1>2

\* The listener forgets the client whose queue it deleted.
LEMMA DeleteReceiverInv ==
  ASSUME TypeOK, SessionsInv, DeleteReceiver
  PROVE  SessionsInv'
<1> USE DEF SessionsInv, SessionOk, DeleteReceiver, clientVars, roomVars, Goto
<1>1. ListenerOk'
  BY DEF ListenerOk, Deleted
<1>2. ASSUME NEW t \in Sessions PROVE SessionOk(t)'
  <2>1. ConnectionOk(t)'
    BY <1>2, RoomsAssumption DEF ConnectionOk
  <2>2. HeroAtHome(t)'
    BY <1>2, RoomsAssumption DEF HeroAtHome, Home, OnTheRoad
  <2>3. QueueAtHome(t)'
    BY <1>2, RoomsAssumption DEF QueueAtHome, Deleted
  <2>4. QueueLife(t)'
    BY <1>2, RoomsAssumption DEF QueueLife, Deleted
  <2>5. QuitPending(t)'
    <3>1. \A k, u, q : Pending(k, u, q)' = Pending(k, u, q)
      BY PendingFrame
    <3>2. QED
      BY <1>2, <3>1, RoomsAssumption DEF QuitPending
  <2>6. QED
    BY <2>1, <2>2, <2>3, <2>4, <2>5
<1>3. QED
  BY <1>1, <1>2

\* The listener goes back to accept with no client half collected.
LEMMA EndCollectionInv ==
  ASSUME TypeOK, SessionsInv, EndCollection
  PROVE  SessionsInv'
<1> USE DEF SessionsInv, SessionOk, EndCollection, clientVars, roomVars, Goto
<1>1. ListenerOk'
  BY DEF ListenerOk, Deleted
<1>2. ASSUME NEW t \in Sessions PROVE SessionOk(t)'
  <2>1. ConnectionOk(t)'
    BY <1>2, RoomsAssumption DEF ConnectionOk
  <2>2. HeroAtHome(t)'
    BY <1>2, RoomsAssumption DEF HeroAtHome, Home, OnTheRoad
  <2>3. QueueAtHome(t)'
    BY <1>2, RoomsAssumption DEF QueueAtHome, Deleted
  <2>4. QueueLife(t)'
    BY <1>2, RoomsAssumption DEF QueueLife, Deleted
  <2>5. QuitPending(t)'
    <3>1. \A k, u, q : Pending(k, u, q)' = Pending(k, u, q)
      BY PendingFrame
    <3>2. QED
      BY <1>2, <3>1, RoomsAssumption DEF QuitPending
  <2>6. QED
    BY <2>1, <2>2, <2>3, <2>4, <2>5
<1>3. QED
  BY <1>1, <1>2

\* A client that is alive is left alone.
LEMMA SkipLiveClientInv ==
  ASSUME TypeOK, SessionsInv, NEW s \in Sessions, SkipLiveClient(s)
  PROVE  SessionsInv'
<1> USE DEF SessionsInv, SessionOk, SkipLiveClient, clientVars, roomVars
<1>1. ListenerOk'
  BY DEF ListenerOk, Deleted
<1>2. ASSUME NEW t \in Sessions PROVE SessionOk(t)'
  <2>1. ConnectionOk(t)'
    BY <1>2, RoomsAssumption DEF ConnectionOk
  <2>2. HeroAtHome(t)'
    BY <1>2, RoomsAssumption DEF HeroAtHome, Home, OnTheRoad
  <2>3. QueueAtHome(t)'
    BY <1>2, RoomsAssumption DEF QueueAtHome, Deleted
  <2>4. QueueLife(t)'
    BY <1>2, RoomsAssumption DEF QueueLife, Deleted
  <2>5. QuitPending(t)'
    <3>1. \A k, u, q : Pending(k, u, q)' = Pending(k, u, q)
      BY PendingFrame
    <3>2. QED
      BY <1>2, <3>1, RoomsAssumption DEF QuitPending
  <2>6. QED
    BY <2>1, <2>2, <2>3, <2>4, <2>5
<1>3. QED
  BY <1>1, <1>2

\* A client is collected only once its receiver cleared its alive flag.
LEMMA StopSenderInv ==
  ASSUME TypeOK, SessionsInv, NEW s \in Sessions, StopSender(s)
  PROVE  SessionsInv'
<1> USE DEF TypeOK, ReceiverSteps, SessionsInv, SessionOk, StopSender, Closed,
            IsAlive, clientVars, roomVars, Goto
<1>1. ListenerOk'
  BY DEF ListenerOk, Deleted, ConnectionOk
<1>2. ASSUME NEW t \in Sessions PROVE SessionOk(t)'
  <2>1. ConnectionOk(t)'
    BY <1>2, RoomsAssumption DEF ConnectionOk, ListenerOk
  <2>2. HeroAtHome(t)'
    BY <1>2, RoomsAssumption DEF HeroAtHome, Home, OnTheRoad
  <2>3. QueueAtHome(t)'
    BY <1>2, RoomsAssumption DEF QueueAtHome, Deleted, ListenerOk
  <2>4. QueueLife(t)'
    BY <1>2, RoomsAssumption DEF QueueLife, Deleted, ConnectionOk
  <2>5. QuitPending(t)'
    <3>1. \A k, u, q : Pending(k, u, q)' = Pending(k, u, q)
      BY PendingFrame
    <3>2. QED
      BY <1>2, <3>1, RoomsAssumption DEF QuitPending
  <2>6. QED
    BY <2>1, <2>2, <2>3, <2>4, <2>5
<1>3. QED
  BY <1>1, <1>2

\* A session's hero enters one room, and no other has it.
LEMMA AddNewHeroInv ==
  ASSUME TypeOK, SessionsInv, NEW s \in Sessions, NEW r \in Rooms,
         AddNewHero(s, r)
  PROVE  SessionsInv'
<1> USE DEF TypeOK, SessionsInv, SessionOk, AddNewHero, WithHero, Goto
<1>1. ListenerOk'
  BY DEF ListenerOk, Deleted, ConnectionOk
<1>2. ASSUME NEW t \in Sessions PROVE SessionOk(t)'
  <2>1. ConnectionOk(t)'
    BY <1>2, RoomsAssumption DEF ConnectionOk
  <2>2. HeroAtHome(t)'
    BY <1>2, RoomsAssumption DEF HeroAtHome, Home, OnTheRoad, ConnectionOk
  <2>3. QueueAtHome(t)'
    BY <1>2, RoomsAssumption DEF QueueAtHome, Deleted, ConnectionOk
  <2>4. QueueLife(t)'
    BY <1>2, RoomsAssumption DEF QueueLife, Deleted
  <2>5. QuitPending(t)'
    <3>1. \A k, u, q : Pending(k, u, q)' = Pending(k, u, q)
      BY PendingFrame
    <3>2. CASE t = s
      <4>1. receiver[t] = "none"
        BY <3>2 DEF ConnectionOk
      <4>2. QED
        BY <1>2, <3>1, <3>2, <4>1 DEF QuitPending
    <3>3. CASE t # s
      BY <1>2, <3>1, <3>3 DEF QuitPending
    <3>4. QED
      BY <3>2, <3>3
  <2>6. QED
    BY <2>1, <2>2, <2>3, <2>4, <2>5
<1>3. QED
  BY <1>1, <1>2

\* The room forgets the hero and its queue in the same critical section.
LEMMA LeaveRoomInv ==
  ASSUME TypeOK, SessionsInv, NEW s \in Sessions, NEW r \in Rooms,
         LeaveRoom(s, r)
  PROVE  SessionsInv'
<1> USE DEF TypeOK, SessionsInv, SessionOk, LeaveRoom, WithoutHero,
            WithoutQueue, listenerVars
<1>1. ListenerOk'
  BY DEF ListenerOk, Deleted
<1>2. ASSUME NEW t \in Sessions PROVE SessionOk(t)'
  <2>1. ConnectionOk(t)'
    BY <1>2, RoomsAssumption DEF ConnectionOk
  <2>2. HeroAtHome(t)'
    BY <1>2, RoomsAssumption DEF HeroAtHome, Home, OnTheRoad
  <2>3. QueueAtHome(t)'
    BY <1>2, RoomsAssumption DEF QueueAtHome, Deleted, ListenerOk
  <2>4. QueueLife(t)'
    BY <1>2, RoomsAssumption DEF QueueLife, Deleted
  <2>5. QuitPending(t)'
    <3>1. \A k, u, q : Pending(k, u, q)' = Pending(k, u, q)
      BY PendingFrame
    <3>2. QED
      BY <1>2, <3>1, RoomsAssumption DEF QuitPending
  <2>6. QED
    BY <2>1, <2>2, <2>3, <2>4, <2>5
<1>3. QED
  BY <1>1, <1>2

\* The hero arrives in the room it travels to.
LEMMA AddExistingHeroInv ==
  ASSUME TypeOK, SessionsInv, NEW s \in Sessions, AddExistingHero(s)
  PROVE  SessionsInv'
<1> USE DEF TypeOK, SessionsInv, SessionOk, AddExistingHero, WithHero,
            listenerVars
<1>1. ListenerOk'
  BY DEF ListenerOk, Deleted
<1>2. ASSUME NEW t \in Sessions PROVE SessionOk(t)'
  <2>1. ConnectionOk(t)'
    BY <1>2, RoomsAssumption DEF ConnectionOk
  <2>2. HeroAtHome(t)'
    BY <1>2, RoomsAssumption DEF HeroAtHome, Home, OnTheRoad, ConnectionOk
  <2>3. QueueAtHome(t)'
    BY <1>2, RoomsAssumption DEF QueueAtHome, Deleted
  <2>4. QueueLife(t)'
    BY <1>2, RoomsAssumption DEF QueueLife, Deleted
  <2>5. QuitPending(t)'
    <3>1. \A k, u, q : Pending(k, u, q)' = Pending(k, u, q)
      BY PendingFrame
    <3>2. QED
      BY <1>2, <3>1, RoomsAssumption DEF QuitPending
  <2>6. QED
    BY <2>1, <2>2, <2>3, <2>4, <2>5
<1>3. QED
  BY <1>1, <1>2

\* The queue follows the hero; the receiver is then in that room.
LEMMA AddExistingQueueInv ==
  ASSUME TypeOK, SessionsInv, NEW s \in Sessions, AddExistingQueue(s)
  PROVE  SessionsInv'
<1> USE DEF TypeOK, SessionsInv, SessionOk, AddExistingQueue, WithQueue,
            RoomAfterChange, listenerVars
<1>1. ListenerOk'
  BY DEF ListenerOk, Deleted
<1>2. ASSUME NEW t \in Sessions PROVE SessionOk(t)'
  <2>1. ConnectionOk(t)'
    BY <1>2, RoomsAssumption DEF ConnectionOk
  <2>2. HeroAtHome(t)'
    BY <1>2, RoomsAssumption DEF HeroAtHome, Home, OnTheRoad, ConnectionOk
  <2>3. QueueAtHome(t)'
    <3>1. PICK r \in Rooms : r = destination[s]
      BY DEF ConnectionOk
    <3>2. /\ queues_notifications' =
               [queues_notifications EXCEPT ![r] = @ \cup {s}]
          /\ current_game_room' = [current_game_room EXCEPT ![s] = r]
      BY <3>1
    <3>3. CASE t = s
      <4>1. s \notin dead /\ \A q \in Rooms : s \notin queues_notifications[q]
        BY DEF QuitPending, QueueAtHome
      <4>2. /\ current_game_room'[s] = r /\ receiver'[s] = "running"
            /\ s \notin dead'
            /\ \A q \in Rooms : s \in queues_notifications'[q] <=> q = r
        BY <3>1, <3>2, <4>1
      <4>3. QED
        BY <3>1, <3>3, <4>2 DEF QueueAtHome
    <3>4. CASE t # s
      BY <3>1, <3>2, <3>4 DEF QueueAtHome, Deleted
    <3>5. QED
      BY <3>3, <3>4
  <2>4. QueueLife(t)'
    BY <1>2, RoomsAssumption DEF QueueLife, Deleted, ConnectionOk
  <2>5. QuitPending(t)'
    <3>1. \A k, u, q : Pending(k, u, q)' = Pending(k, u, q)
      BY PendingFrame
    <3>2. CASE t = s
      BY <1>2, <3>1, <3>2 DEF QuitPending
    <3>3. CASE t # s
      BY <1>2, <3>1, <3>3 DEF QuitPending
    <3>4. QED
      BY <3>2, <3>3
  <2>6. QED
    BY <2>1, <2>2, <2>3, <2>4, <2>5
<1>3. QED
  BY <1>1, <1>2

\* The receiver stops with its Quit still due.
LEMMA StopAfterQuitInv ==
  ASSUME TypeOK, SessionsInv, NEW s \in Sessions, StopAfterQuit(s)
  PROVE  SessionsInv'
<1> USE DEF SessionsInv, SessionOk, StopAfterQuit, StepAfterQuit, listenerVars,
            roomVars
<1>1. ListenerOk'
  BY DEF ListenerOk, Deleted
<1>2. ASSUME NEW t \in Sessions PROVE SessionOk(t)'
  <2>1. ConnectionOk(t)'
    BY <1>2, RoomsAssumption DEF ConnectionOk
  <2>2. HeroAtHome(t)'
    BY <1>2, RoomsAssumption DEF HeroAtHome, Home, OnTheRoad
  <2>3. QueueAtHome(t)'
    BY <1>2, RoomsAssumption DEF QueueAtHome, Deleted
  <2>4. QueueLife(t)'
    BY <1>2, RoomsAssumption DEF QueueLife, Deleted
  <2>5. QuitPending(t)'
    <3>1. \A k, u, q : Pending(k, u, q)' = Pending(k, u, q)
      BY PendingFrame
    <3>2. QED
      BY <1>2, <3>1, RoomsAssumption DEF QuitPending
  <2>6. QED
    BY <2>1, <2>2, <2>3, <2>4, <2>5
<1>3. QED
  BY <1>1, <1>2

\* A lost client's receiver has yet to push its Quit.
LEMMA LoseConnectionInv ==
  ASSUME TypeOK, SessionsInv, NEW s \in Sessions, LoseConnection(s)
  PROVE  SessionsInv'
<1> USE DEF SessionsInv, SessionOk, LoseConnection, listenerVars, roomVars
<1>1. ListenerOk'
  BY DEF ListenerOk, Deleted
<1>2. ASSUME NEW t \in Sessions PROVE SessionOk(t)'
  <2>1. ConnectionOk(t)'
    BY <1>2, RoomsAssumption DEF ConnectionOk
  <2>2. HeroAtHome(t)'
    BY <1>2, RoomsAssumption DEF HeroAtHome, Home, OnTheRoad
  <2>3. QueueAtHome(t)'
    BY <1>2, RoomsAssumption DEF QueueAtHome, Deleted
  <2>4. QueueLife(t)'
    BY <1>2, RoomsAssumption DEF QueueLife, Deleted
  <2>5. QuitPending(t)'
    <3>1. \A k, u, q : Pending(k, u, q)' = Pending(k, u, q)
      BY PendingFrame
    <3>2. QED
      BY <1>2, <3>1, RoomsAssumption DEF QuitPending
  <2>6. QED
    BY <2>1, <2>2, <2>3, <2>4, <2>5
<1>3. QED
  BY <1>1, <1>2

\* A room drops heroes whose Quit it has executed, and no other.
LEMMA RemoveDeadHeroesInv ==
  ASSUME TypeOK, SessionsInv, NEW r \in Rooms, RemoveDeadHeroes(r)
  PROVE  SessionsInv'
<1> USE DEF SessionsInv, SessionOk, RemoveDeadHeroes, listenerVars, clientVars
<1>1. ListenerOk'
  BY DEF ListenerOk, Deleted
<1>2. ASSUME NEW t \in Sessions PROVE SessionOk(t)'
  <2>1. ConnectionOk(t)'
    BY <1>2, RoomsAssumption DEF ConnectionOk
  <2>2. HeroAtHome(t)'
    BY <1>2, RoomsAssumption DEF HeroAtHome, Home, OnTheRoad
  <2>3. QueueAtHome(t)'
    BY <1>2, RoomsAssumption DEF QueueAtHome, Deleted
  <2>4. QueueLife(t)'
    BY <1>2, RoomsAssumption DEF QueueLife, Deleted
  <2>5. QuitPending(t)'
    <3>1. \A k, u, q : Pending(k, u, q)' = Pending(k, u, q)
      BY PendingFrame
    <3>2. QED
      BY <1>2, <3>1, RoomsAssumption DEF QuitPending
  <2>6. QED
    BY <2>1, <2>2, <2>3, <2>4, <2>5
<1>3. QED
  BY <1>1, <1>2

\* The steps that push or take commands.
LEMMA ReceiveCommandInv ==
  ASSUME TypeOK, SessionsInv, NEW s \in Sessions, ReceiveCommand(s)
  PROVE  SessionsInv'
<1>1. /\ UNCHANGED <<listener, clients, unchecked, receiver, sender,
                     current_game_room, destination, notifications_queue,
                     heroes, dead, queues_notifications, records>>
      /\ receiver[s] = "running" /\ SessionOk(s)
  BY DEF ReceiveCommand, SessionsInv, listenerVars
<1>2. current_game_room[s] \in Rooms /\ Push(current_game_room[s], "act", s)
  BY <1>1 DEF ReceiveCommand, SessionOk, ConnectionOk, TypeOK
<1>3. ListenerOk'
  BY <1>1 DEF SessionsInv, ListenerOk, Deleted
<1>4. ASSUME NEW t \in Sessions PROVE SessionOk(t)'
  <2>1. SessionOk(t)
    BY DEF SessionsInv
  <2>2. ConnectionOk(t)' /\ QueueLife(t)'
    BY <1>1, <2>1 DEF SessionOk, ConnectionOk, QueueLife, Deleted
  <2>3. HeroAtHome(t)' /\ QueueAtHome(t)'
    BY <1>1, <2>1
    DEF SessionOk, HeroAtHome, Home, OnTheRoad, QueueAtHome, Deleted
  <2>4. receiver[t] \in {"closing", "done"} => current_game_room[t] \in Rooms
    BY <2>1 DEF SessionOk, ConnectionOk, TypeOK
  <2>5. QuitPending(t)'
    BY <1>1, <1>2, <2>1, <2>4, QuitKeptByPush DEF SessionOk, CommandKinds
  <2>6. QED
    BY <2>2, <2>3, <2>5 DEF SessionOk
<1>5. QED
  BY <1>3, <1>4 DEF SessionsInv

\* The receiver of a client that quits, or is lost, pushes its only Quit.
LEMMA ReceiveQuitInv ==
  ASSUME TypeOK, SessionsInv, NEW s \in Sessions,
         ReceiveQuit(s) \/ QuitForLostClient(s)
  PROVE  SessionsInv'
<1>1. /\ UNCHANGED <<listener, clients, unchecked, sender, current_game_room,
                     destination, notifications_queue, heroes, dead,
                     queues_notifications, records>>
      /\ \/ receiver[s] = "running" /\ receiver'[s] = "closing"
         \/ receiver[s] = "lost" /\ receiver'[s] = "done"
      /\ \A t \in Sessions \ {s} : receiver'[t] = receiver[t]
      /\ SessionOk(s)
  BY DEF ReceiveQuit, QuitForLostClient, SessionsInv, listenerVars, TypeOK
<1>2. current_game_room[s] \in Rooms /\ Push(current_game_room[s], "quit", s)
  BY <1>1 DEF ReceiveQuit, QuitForLostClient, SessionOk, ConnectionOk, TypeOK
<1>3. ListenerOk'
  <2>1. ListenerOk /\ Deleted' = Deleted
    BY <1>1 DEF SessionsInv, Deleted
  <2>2. QED
    BY <1>1, <2>1 DEF ListenerOk, TypeOK, BusySteps, FreeSteps
<1>4. ASSUME NEW t \in Sessions PROVE SessionOk(t)'
  <2>1. SessionOk(t) /\ Deleted' = Deleted
    BY <1>1 DEF SessionsInv, Deleted
  <2>2. ConnectionOk(t)'
    BY <1>1, <2>1 DEF SessionOk, ConnectionOk
  <2>3. QueueLife(t)'
    BY <1>1, <2>1 DEF SessionOk, QueueLife
  <2>4. HeroAtHome(t)'
    BY <1>1, <2>1 DEF SessionOk, HeroAtHome, Home, OnTheRoad
  <2>5. QueueAtHome(t)'
    BY <1>1, <2>1 DEF SessionOk, QueueAtHome
  <2>6. receiver[t] \in {"closing", "done"} => current_game_room[t] \in Rooms
    BY <2>1 DEF SessionOk, ConnectionOk, TypeOK
  <2>7. QuitPending(t)'
    <3>1. CASE t = s
      BY <1>1, <1>2, <3>1, QuitPushed DEF SessionOk
    <3>2. CASE t # s
      BY <1>1, <1>2, <2>1, <2>6, <3>2, QuitKeptByPush DEF SessionOk, CommandKinds
    <3>3. QED
      BY <3>1, <3>2
  <2>8. QED
    BY <2>2, <2>3, <2>4, <2>5, <2>7 DEF SessionOk
<1>5. QED
  BY <1>3, <1>4 DEF SessionsInv

\* A command taken from a queue disturbs no Quit.
LEMMA ExecuteActInv ==
  ASSUME TypeOK, SessionsInv, NEW r \in Rooms, ExecuteAct(r)
  PROVE  SessionsInv'
<1>1. UNCHANGED <<listener, clients, unchecked, receiver, current_game_room,
                  destination, notifications_queue, heroes, dead,
                  queues_notifications, records>>
  BY DEF ExecuteAct, listenerVars, clientVars
<1>2. /\ commands_queue[r] # <<>>
      /\ commands_queue' = [commands_queue EXCEPT ![r] = Tail(@)]
      /\ commands_queue[r][1].kind = "act"
  BY DEF ExecuteAct, TypeOK
<1>3. ListenerOk'
  BY <1>1 DEF SessionsInv, ListenerOk, Deleted
<1>4. ASSUME NEW t \in Sessions PROVE SessionOk(t)'
  <2>1. SessionOk(t)
    BY DEF SessionsInv
  <2>2. ConnectionOk(t)' /\ QueueLife(t)'
    BY <1>1, <2>1 DEF SessionOk, ConnectionOk, QueueLife, Deleted
  <2>3. HeroAtHome(t)' /\ QueueAtHome(t)'
    BY <1>1, <2>1
    DEF SessionOk, HeroAtHome, Home, OnTheRoad, QueueAtHome, Deleted
  <2>4. 1 \notin Pending("quit", t, r)
    BY <1>2 DEF Pending, Command
  <2>5. QuitPending(t)'
    BY <1>1, <1>2, <2>1, <2>4, QuitKeptByPop DEF SessionOk
  <2>6. QED
    BY <2>2, <2>3, <2>5 DEF SessionOk
<1>5. QED
  BY <1>3, <1>4 DEF SessionsInv

\* The Quit a room takes is that of a hero it holds, alive: afterwards the hero
\* is dead and saved once, its queue closed, and no Quit of it is left.
LEMMA ExecuteQuitInv ==
  ASSUME TypeOK, SessionsInv, NEW r \in Rooms, ExecuteQuit(r)
  PROVE  SessionsInv'
<1>1. PICK s \in Sessions : /\ s = Head(commands_queue[r]).uid
                            /\ 1 \in Pending("quit", s, r)
  <2>1. /\ Head(commands_queue[r]) \in Commands
        /\ Head(commands_queue[r]) = commands_queue[r][1]
        /\ 1 \in DOMAIN commands_queue[r]
    BY DEF ExecuteQuit, TypeOK
  <2>2. QED
    BY <2>1 DEF Pending, Commands, Command, ExecuteQuit
<1>2. /\ r = current_game_room[s]
      /\ receiver[s] \in {"closing", "done"}
      /\ s \notin dead
      /\ \A i \in Pending("quit", s, r) : i = 1
  BY <1>1 DEF SessionsInv, SessionOk, QuitPending
<1>3. /\ UNCHANGED <<listener, clients, unchecked, receiver, current_game_room,
                     destination, heroes>>
      /\ dead' = dead \cup {s}
      /\ saves' = [saves EXCEPT ![s] = @ + 1]
      /\ commands_queue[r] # <<>>
      /\ commands_queue' = [commands_queue EXCEPT ![r] = Tail(@)]
  BY <1>1 DEF ExecuteQuit, Killed, clientVars, listenerVars
<1>4. /\ \A t \in Sessions \ {s} :
           notifications_queue'[t] = notifications_queue[t]
      /\ \/ notifications_queue'[s] = notifications_queue[s]
         \/ /\ notifications_queue[s] # "deleted"
            /\ notifications_queue'[s] = "closed"
      /\ s \in queues_notifications[r] \ Deleted =>
           notifications_queue'[s] = "closed"
  <2>1. CASE s \in queues_notifications[r] \ Deleted
    <3>1. notifications_queue' = [notifications_queue EXCEPT ![s] = "closed"]
      BY <1>1, <2>1 DEF ExecuteQuit, Closed
    <3>2. notifications_queue[s] # "deleted"
      BY <1>1, <2>1 DEF Deleted
    <3>3. QED
      BY <1>1, <3>1, <3>2 DEF TypeOK
  <2>2. CASE s \notin queues_notifications[r] \ Deleted
    <3>1. notifications_queue' = notifications_queue
      BY <1>1, <2>2 DEF ExecuteQuit
    <3>2. QED
      BY <2>2, <3>1
  <2>3. QED
    BY <2>1, <2>2
<1>5. Deleted' = Deleted
  BY <1>1, <1>4 DEF Deleted
<1>6. /\ \A q \in Rooms : queues_notifications'[q] \subseteq queues_notifications[q]
      /\ \A q \in Rooms : \A t \in queues_notifications[q] :
           notifications_queue[t] = "open" /\ t # s =>
             t \in queues_notifications'[q]
      /\ s \in queues_notifications'[r] => s \in Deleted \cap misread'
      /\ misread \subseteq misread' /\ misread' \subseteq misread \cup {s}
  <2>1. PICK stale \in SUBSET (queues_notifications[r] \cap Deleted) :
          queues_notifications' =
            [queues_notifications EXCEPT ![r] =
               {q \in @ \ Deleted : notifications_queue'[q] # "closed"}
                 \cup stale]
          /\ misread' = misread \cup (stale \cap {s})
    BY <1>1 DEF ExecuteQuit
  <2>2. queues_notifications'[r] =
          {q \in queues_notifications[r] \ Deleted :
             notifications_queue'[q] # "closed"} \cup stale
    BY <2>1 DEF TypeOK
  <2>3. \A q \in Rooms \ {r} :
          queues_notifications'[q] = queues_notifications[q]
    BY <2>1 DEF TypeOK
  <2>4. queues_notifications[r] \subseteq Sessions
    BY DEF TypeOK
  <2>5. /\ misread \subseteq misread' /\ misread' \subseteq misread \cup {s}
        /\ s \in stale => s \in Deleted \cap misread'
    BY <2>1
  <2>6. /\ \A q \in Rooms :
             queues_notifications'[q] \subseteq queues_notifications[q]
        /\ \A q \in Rooms : \A t \in queues_notifications[q] :
             notifications_queue[t] = "open" /\ t # s =>
               t \in queues_notifications'[q]
        /\ s \in queues_notifications'[r] => s \in stale
    BY <1>1, <1>4, <2>2, <2>3, <2>4 DEF Deleted
  <2>7. QED
    BY <2>5, <2>6
<1>7. ListenerOk'
  BY <1>3, <1>5 DEF SessionsInv, ListenerOk
<1>8. ASSUME NEW t \in Sessions PROVE SessionOk(t)'
  <2>1. /\ ConnectionOk(t) /\ HeroAtHome(t) /\ QueueAtHome(t)
        /\ QueueLife(t) /\ QuitPending(t)
    BY DEF SessionsInv, SessionOk
  <2>2. ConnectionOk(t)'
    BY <1>2, <1>3, <1>4, <2>1 DEF ConnectionOk
  <2>3. HeroAtHome(t)'
    BY <1>3, <2>1 DEF HeroAtHome, Home, OnTheRoad
  <2>4. QueueLife(t)'
    BY <1>2, <1>3, <1>4, <2>1 DEF QueueLife, Deleted
  <2>5. QueueAtHome(t)'
    <3>1. CASE t = s
      <4>1. ~(listener.step = "spawn" /\ listener.client = s)
        BY <1>2 DEF ListenerOk, SessionsInv
      <4>2. \A q \in Rooms : s \in queues_notifications'[q] =>
              s \in queues_notifications[q] /\ s \in Deleted' \cap misread'
        BY <1>2, <1>5, <1>6, <2>1, <3>1 DEF QueueAtHome
      <4>3. QED
        BY <1>2, <1>3, <2>1, <3>1, <4>1, <4>2 DEF QueueAtHome
    <3>2. CASE t # s
      <4>1. (t \in dead' <=> t \in dead) /\ (t \in misread' <=> t \in misread)
        BY <1>3, <1>6, <3>2
      <4>2. \A q \in Rooms :
              /\ t \in queues_notifications'[q] => t \in queues_notifications[q]
              /\ notifications_queue[t] = "open" /\ t \in queues_notifications[q]
                   => t \in queues_notifications'[q]
        BY <1>6, <3>2
      <4>3. ASSUME \/ receiver[t] = "running"
                   \/ (listener.step = "spawn" /\ listener.client = t)
            PROVE  notifications_queue[t] = "open" /\ current_game_room[t] \in Rooms
        <5>1. current_game_room[t] \in Rooms \cup {NoRoom}
          BY DEF TypeOK
        <5>2. receiver[t] \in {"none", "running"} /\ current_game_room[t] \in Rooms
          BY <2>1, <4>3, <5>1 DEF ConnectionOk, SessionsInv, ListenerOk
        <5>3. QED
          BY <2>1, <5>2, RoomsAssumption DEF QueueLife
      <4>4. QED
        BY <1>3, <1>5, <2>1, <4>1, <4>2, <4>3 DEF QueueAtHome
    <3>3. QED
      BY <3>1, <3>2
  <2>6. QuitPending(t)'
    <3>1. CASE t = s
      <4>1. \A q \in Rooms : Pending("quit", s, q)' = {}
        <5>1. \A q \in Rooms :
                Pending("quit", s, q)' = IF q = r
                                         THEN {i \in Nat \ {0} :
                                                 i + 1 \in Pending("quit", s, q)}
                                         ELSE Pending("quit", s, q)
          BY <1>3, PendingAfterPop DEF CommandKinds
        <5>2. \A q \in Rooms \ {r} : Pending("quit", s, q) = {}
          BY <1>2, <2>1, <3>1 DEF QuitPending
        <5>3. \A i \in Nat \ {0} : i + 1 \notin Pending("quit", s, r)
          BY <1>2
        <5>4. QED
          BY <5>1, <5>2, <5>3
      <4>2. saves'[s] = 1
        <5>1. saves[s] = 0 /\ saves \in [Sessions -> Nat]
          BY <1>2, <2>1, <3>1 DEF QuitPending, TypeOK
        <5>2. QED
          BY <1>3, <5>1
      <4>3. s \in dead' /\ receiver'[s] \in {"closing", "done"}
        BY <1>2, <1>3
      <4>4. QED
        BY <3>1, <4>1, <4>2, <4>3 DEF QuitPending
    <3>2. CASE t # s
      <4>1. 1 \notin Pending("quit", t, r)
        BY <1>1, <3>2 DEF Pending, Command
      <4>2. saves'[t] = saves[t] /\ (t \in dead' <=> t \in dead)
        BY <1>3, <3>2 DEF TypeOK
      <4>3. QED
        BY <1>3, <2>1, <4>1, <4>2, QuitKeptByPop
    <3>3. QED
      BY <3>1, <3>2
  <2>7. QED
    BY <2>2, <2>3, <2>4, <2>5, <2>6 DEF SessionOk
<1>9. QED
  BY <1>7, <1>8 DEF SessionsInv

\* Every step of every thread keeps it.
LEMMA NextInv == TypeOK /\ SessionsInv /\ [Next]_vars => SessionsInv'
<1> SUFFICES ASSUME TypeOK, SessionsInv, [Next]_vars PROVE SessionsInv'
  OBVIOUS
<1>1. CASE ListenerNext
  BY <1>1, RegisterNewQueueInv, StartClientInv, DeleteSenderInv,
     DeleteReceiverInv, EndCollectionInv, SkipLiveClientInv, StopSenderInv
  DEF ListenerNext
<1>2. ASSUME NEW s \in Sessions, ClientActs(s) PROVE SessionsInv'
  <2>1. CASE StopReading(s)
    BY <2>1, FrameInv DEF StopReading, listenerVars, roomVars
  <2>2. QED
    BY <1>2, <2>1, AddNewHeroInv, ReceiveCommandInv, LeaveRoomInv,
       ReceiveQuitInv, LoseConnectionInv
    DEF ClientActs
<1>3. ASSUME NEW s \in Sessions, ReceiverContinues(s) PROVE SessionsInv'
  BY <1>3, AddExistingHeroInv, AddExistingQueueInv, ReceiveQuitInv
  DEF ReceiverContinues
<1>4. ASSUME NEW s \in Sessions, AfterSend(s) PROVE SessionsInv'
  BY <1>4, FrameInv, StopAfterQuitInv
  DEF AfterSend, SenderStops, listenerVars, roomVars
<1>5. ASSUME NEW r \in Rooms, RoomNext(r) PROVE SessionsInv'
  <2>1. CASE BeginUpdate(r) \/ EndUpdate(r) \/ LookForHeroes(r)
             \/ SendGameStatus(r)
    BY <2>1, FrameInv
    DEF BeginUpdate, EndUpdate, LookForHeroes, SendGameStatus, Advance,
        listenerVars, clientVars
  <2>2. QED
    BY <1>5, <2>1, ExecuteActInv, ExecuteQuitInv, RemoveDeadHeroesInv
    DEF RoomNext
<1>6. CASE UNCHANGED vars
  BY <1>6, FrameInv DEF vars, listenerVars, clientVars, roomVars
<1>7. QED
  BY <1>1, <1>2, <1>3, <1>4, <1>5, <1>6 DEF Next

\* Heroes, queues and Quits are where SessionsInv says at every step of every
\* thread of client_listener.cpp, client_command_receiver.cpp and
\* argentum_game.cpp.
THEOREM SessionsInvariant == Spec => [](TypeOK /\ SessionsInv)
BY InitTypes, NextTypes, InitInv, NextInv, PTL DEF Spec

-----------------------------------------------------------------------------
(* What follows from it *)

\* change_game_room() never leaves a hero in two rooms or in none for good.
THEOREM OnePlace == Spec => []HeroInOnePlace
<1>1. TypeOK /\ SessionsInv => HeroInOnePlace
  <2> SUFFICES ASSUME TypeOK, SessionsInv, NEW s \in Sessions
               PROVE  /\ \A r1, r2 \in RoomsOf(s) : r1 = r2
                      /\ RoomsOf(s) = {} => \/ current_game_room[s] = NoRoom
                                            \/ receiver[s] = "travelling"
                                            \/ s \in dead
    BY DEF HeroInOnePlace
  <2>1. ConnectionOk(s) /\ HeroAtHome(s)
    BY DEF SessionsInv, SessionOk
  <2>2. current_game_room[s] # NoRoom => Home(s) \in Rooms
    BY <2>1 DEF ConnectionOk, Home, TypeOK
  <2>3. QED
    BY <2>1, <2>2 DEF HeroAtHome, RoomsOf, OnTheRoad
<1>2. QED
  BY <1>1, SessionsInvariant, PTL

\* remove_hero_and_notification_queue() finds the hero and the queue it erases.
THEOREM RoomChangeIsSafe == Spec => []RoomChangeFindsHeroAndQueue
<1>1. TypeOK /\ SessionsInv => RoomChangeFindsHeroAndQueue
  <2> SUFFICES ASSUME TypeOK, SessionsInv,
                      NEW s \in Sessions, receiver[s] = "running"
               PROVE  /\ s \in heroes[current_game_room[s]]
                      /\ s \in queues_notifications[current_game_room[s]]
                      /\ notifications_queue[s] = "open"
    BY DEF RoomChangeFindsHeroAndQueue
  <2>1. SessionOk(s)
    BY DEF SessionsInv
  <2>2. current_game_room[s] # NoRoom /\ s \notin dead
    BY <2>1 DEF SessionOk, ConnectionOk, QuitPending
  <2>3. QED
    BY <2>1, <2>2
    DEF SessionOk, HeroAtHome, Home, OnTheRoad, QueueAtHome, QueueLife
<1>2. QED
  BY <1>1, SessionsInvariant, PTL

\* get_hero_by_id() of QuitCommand::execute never throws, and no Quit is doubled.
THEOREM QuitIsSafe == Spec => []QuitFindsItsHero
<1>1. TypeOK /\ SessionsInv => QuitFindsItsHero
  <2> SUFFICES ASSUME TypeOK, SessionsInv, NEW s \in Sessions, NEW r \in Rooms,
                      NEW i \in Pending("quit", s, r)
               PROVE  /\ s \in heroes[r] /\ s \notin dead
                      /\ \A j \in Pending("quit", s, r) : i = j
    BY DEF QuitFindsItsHero
  <2>1. SessionOk(s)
    BY DEF SessionsInv
  <2>2. /\ r = current_game_room[s]
        /\ receiver[s] \in {"closing", "done"}
        /\ s \notin dead
        /\ \A j \in Pending("quit", s, r) : i = j
    BY <2>1 DEF SessionOk, QuitPending
  <2>3. QED
    BY <2>1, <2>2, RoomsAssumption DEF SessionOk, HeroAtHome, Home, OnTheRoad
<1>2. QED
  BY <1>1, SessionsInvariant, PTL

\* Every hero is saved when it is killed, and only then.
THEOREM SavedOnce == Spec => []SavedOnceWhenKilled
<1>1. SessionsInv => SavedOnceWhenKilled
  BY DEF SessionsInv, SessionOk, QuitPending, SavedOnceWhenKilled
<1>2. QED
  BY <1>1, SessionsInvariant, PTL

\* A queue that still exists is in the table of its hero's room.
THEOREM QueueNearHero == Spec => []QueueStaysWithHero
<1>1. TypeOK /\ SessionsInv => QueueStaysWithHero
  <2> SUFFICES ASSUME TypeOK, SessionsInv, NEW r \in Rooms,
                      NEW s \in queues_notifications[r] \ Deleted
               PROVE  s \in heroes[r]
    BY DEF QueueStaysWithHero
  <2>1. s \in Sessions
    BY DEF TypeOK
  <2>2. SessionOk(s)
    BY <2>1 DEF SessionsInv
  <2>3. /\ r = current_game_room[s] /\ s \notin dead
        /\ receiver[s] \notin {"travelling", "arrived"}
    BY <2>2 DEF SessionOk, QueueAtHome
  <2>4. QED
    BY <2>2, <2>3, RoomsAssumption DEF SessionOk, HeroAtHome, Home, OnTheRoad
<1>2. QED
  BY <1>1, SessionsInvariant, PTL

\* A deleted queue is in a room's table only while that client's Quit is due
\* there, or after a Quit whose clean-up misread that freed queue.
THEOREM DeletedQueueIsQuitting == Spec => []DeletedQueueAwaitsQuit
<1>1. TypeOK /\ SessionsInv => DeletedQueueAwaitsQuit
  <2> SUFFICES ASSUME TypeOK, SessionsInv, NEW s \in Deleted, NEW r \in Rooms,
                      s \in queues_notifications[r]
               PROVE  \/ receiver[s] = "lost" /\ current_game_room[s] = r
                      \/ Pending("quit", s, r) # {}
                      \/ s \in misread
    BY DEF DeletedQueueAwaitsQuit
  <2>1. SessionOk(s)
    BY DEF SessionsInv, Deleted
  <2>2. r = current_game_room[s] /\ receiver[s] \in {"lost", "done"}
    BY <2>1 DEF SessionOk, QueueAtHome, QueueLife
  <2>3. s \in dead => s \in misread
    BY <2>1 DEF SessionOk, QueueAtHome
  <2>4. receiver[s] = "done" /\ s \notin dead => Pending("quit", s, r) # {}
    BY <2>1, <2>2 DEF SessionOk, QuitPending
  <2>5. s \in dead \/ receiver[s] = "lost" \/ receiver[s] = "done"
    BY <2>2
  <2>6. QED
    BY <2>2, <2>3, <2>4, <2>5
<1>2. QED
  BY <1>1, SessionsInvariant, PTL

-----------------------------------------------------------------------------
(* The refinement: the threads of the server implement PlayerSession. *)

\* The hero's place, read off the threads' state.
PlaceKnown ==
  \A s \in Sessions :
    /\ \A r \in Rooms : s \in heroes[r] => Place(s) = r
    /\ (\A r \in Rooms : s \notin heroes[r]) =>
         Place(s) = IF current_game_room[s] = NoRoom THEN "outside"
                    ELSE IF receiver[s] = "travelling" THEN "travelling"
                    ELSE "gone"

\* The invariant determines the place of every hero.
LEMMA PlaceOfHero == TypeOK /\ SessionsInv => PlaceKnown
<1> SUFFICES ASSUME TypeOK, SessionsInv, NEW s \in Sessions
             PROVE  /\ \A r \in Rooms : s \in heroes[r] => Place(s) = r
                    /\ (\A r \in Rooms : s \notin heroes[r]) =>
                         Place(s) = IF current_game_room[s] = NoRoom
                                    THEN "outside"
                                    ELSE IF receiver[s] = "travelling"
                                    THEN "travelling" ELSE "gone"
  BY DEF PlaceKnown
<1>1. ASSUME NEW r \in Rooms, s \in heroes[r] PROVE Place(s) = r
  <2>1. HeroAtHome(s)
    BY DEF SessionsInv, SessionOk
  <2>2. \A q \in Rooms : s \in heroes[q] <=> q = r
    BY <1>1, <2>1 DEF HeroAtHome
  <2>3. QED
    BY <2>2 DEF Place, RoomsOf
<1>2. QED
  BY <1>1 DEF Place, RoomsOf

\* A step that leaves these alone is not visible in the promise.
LEMMA HiddenStep ==
  ASSUME UNCHANGED <<heroes, current_game_room, receiver, dead>>
  PROVE  UNCHANGED Promise!vars
BY DEF Promise!vars, Place, RoomsOf

\* A session whose hero stays where it is.
LEMMA PlaceFrame ==
  ASSUME PlaceKnown, PlaceKnown', NEW s \in Sessions,
         \A r \in Rooms : s \in heroes'[r] <=> s \in heroes[r],
         \/ \E r \in Rooms : s \in heroes[r]
         \/ /\ current_game_room'[s] = NoRoom <=> current_game_room[s] = NoRoom
            /\ receiver'[s] = "travelling" <=> receiver[s] = "travelling"
  PROVE  Place(s)' = Place(s)
BY DEF PlaceKnown

\* At the start every player is outside.
LEMMA InitImplements == Init => Promise!Init
BY DEF Init, Promise!Init, Place, RoomsOf

\* A login is an Enter.
LEMMA EnterImplements ==
  ASSUME TypeOK, SessionsInv, PlaceKnown, PlaceKnown',
         NEW s \in Sessions, NEW r \in Rooms, AddNewHero(s, r)
  PROVE  Promise!Enter(s, r)
<1>1. /\ current_game_room[s] = NoRoom
      /\ \A q \in Rooms : s \notin heroes[q]
  BY DEF AddNewHero, SessionsInv, SessionOk, HeroAtHome
<1>2. Place(s) = "outside"
  BY <1>1 DEF PlaceKnown
<1>3. s \in heroes'[r] /\ Place(s)' = r
  BY DEF AddNewHero, WithHero, TypeOK, PlaceKnown
<1>4. ASSUME NEW t \in Sessions, t # s PROVE Place(t)' = Place(t)
  BY <1>4, PlaceFrame DEF AddNewHero, WithHero, TypeOK
<1>5. UNCHANGED <<receiver, dead>>
  BY DEF AddNewHero
<1>6. QED
  BY <1>2, <1>3, <1>4, <1>5 DEF Promise!Enter, Promise!Move

\* The hero of a receiver in its loop is in the receiver's room and no other.
LEMMA HeroOfRunning ==
  ASSUME TypeOK, SessionsInv, NEW s \in Sessions, receiver[s] = "running"
  PROVE  /\ current_game_room[s] \in Rooms
         /\ s \in heroes[current_game_room[s]]
         /\ \A q \in Rooms : s \in heroes[q] => q = current_game_room[s]
<1>1. ConnectionOk(s) /\ HeroAtHome(s) /\ QuitPending(s)
  BY DEF SessionsInv, SessionOk
<1>2. current_game_room[s] \in Rooms /\ s \notin dead
  BY <1>1 DEF ConnectionOk, QuitPending, TypeOK
<1>3. Home(s) = current_game_room[s] /\ ~OnTheRoad(s)
  BY DEF Home, OnTheRoad
<1>4. QED
  BY <1>1, <1>2, <1>3, RoomsAssumption DEF HeroAtHome

\* Leaving the old room is a Depart.
LEMMA DepartImplements ==
  ASSUME TypeOK, SessionsInv, PlaceKnown, PlaceKnown',
         NEW s \in Sessions, NEW r \in Rooms, LeaveRoom(s, r)
  PROVE  Promise!Depart(s)
<1>1. /\ receiver[s] = "running"
      /\ receiver' = [receiver EXCEPT ![s] = "travelling"]
      /\ UNCHANGED <<current_game_room, dead>>
  BY DEF LeaveRoom
<1>2. PICK old \in Rooms : /\ old = current_game_room[s]
                           /\ s \in heroes[old]
                           /\ \A q \in Rooms : s \in heroes[q] => q = old
  BY <1>1, HeroOfRunning
<1>3. heroes' = [heroes EXCEPT ![old] = @ \ {s}]
  BY <1>2 DEF LeaveRoom, WithoutHero
<1>4. Place(s) \in Rooms
  BY <1>2 DEF PlaceKnown
<1>5. Place(s)' = "travelling"
  <2>1. \A q \in Rooms : s \notin heroes'[q]
    BY <1>2, <1>3 DEF TypeOK
  <2>2. receiver'[s] = "travelling" /\ current_game_room'[s] # NoRoom
    BY <1>1, <1>2, RoomsAssumption DEF TypeOK
  <2>3. QED
    BY <2>1, <2>2 DEF PlaceKnown
<1>6. ASSUME NEW t \in Sessions, t # s PROVE Place(t)' = Place(t)
  BY <1>1, <1>3, <1>6, PlaceFrame DEF TypeOK
<1>7. {t \in Sessions : receiver'[t] \in {"closing", "lost", "done"}}
        = {t \in Sessions : receiver[t] \in {"closing", "lost", "done"}}
  BY <1>1 DEF TypeOK
<1>8. QED
  BY <1>1, <1>4, <1>5, <1>6, <1>7 DEF Promise!Depart, Promise!Move

\* Reaching the new room is an Arrive.
LEMMA ArriveImplements ==
  ASSUME TypeOK, SessionsInv, PlaceKnown, PlaceKnown',
         NEW s \in Sessions, AddExistingHero(s)
  PROVE  \E r \in Rooms : Promise!Arrive(s, r)
<1>1. PICK r \in Rooms : r = destination[s]
  BY DEF AddExistingHero, SessionsInv, SessionOk, ConnectionOk
<1>2. /\ receiver[s] = "travelling"
      /\ receiver' = [receiver EXCEPT ![s] = "arrived"]
      /\ heroes' = [heroes EXCEPT ![r] = @ \cup {s}]
      /\ UNCHANGED <<current_game_room, dead>>
  BY <1>1 DEF AddExistingHero, WithHero
<1>3. Place(s) = "travelling"
  <2>1. current_game_room[s] # NoRoom /\ \A q \in Rooms : s \notin heroes[q]
    BY <1>2 DEF SessionsInv, SessionOk, ConnectionOk, HeroAtHome, OnTheRoad
  <2>2. QED
    BY <1>2, <2>1 DEF PlaceKnown
<1>4. s \in heroes'[r] /\ Place(s)' = r
  BY <1>2 DEF TypeOK, PlaceKnown
<1>5. ASSUME NEW t \in Sessions, t # s PROVE Place(t)' = Place(t)
  BY <1>2, <1>5, PlaceFrame DEF TypeOK
<1>6. {t \in Sessions : receiver'[t] \in {"closing", "lost", "done"}}
        = {t \in Sessions : receiver[t] \in {"closing", "lost", "done"}}
  BY <1>2 DEF TypeOK
<1>7. QED
  BY <1>2, <1>3, <1>4, <1>5, <1>6 DEF Promise!Arrive, Promise!Move

\* The queue's move is not visible: the hero has arrived.
LEMMA SettleImplements ==
  ASSUME TypeOK, SessionsInv, PlaceKnown, PlaceKnown',
         NEW s \in Sessions, AddExistingQueue(s)
  PROVE  UNCHANGED Promise!vars
<1>1. PICK r \in Rooms : /\ r = destination[s]
                         /\ s \in heroes[r]
  BY DEF AddExistingQueue, SessionsInv, SessionOk, ConnectionOk, HeroAtHome,
         Home, OnTheRoad, QuitPending
<1>2. /\ receiver[s] = "arrived"
      /\ receiver' = [receiver EXCEPT ![s] = "running"]
      /\ current_game_room' = [current_game_room EXCEPT ![s] = r]
      /\ UNCHANGED <<heroes, dead>>
  BY <1>1 DEF AddExistingQueue, RoomAfterChange
<1>3. ASSUME NEW t \in Sessions PROVE Place(t)' = Place(t)
  BY <1>1, <1>2, PlaceFrame DEF TypeOK
<1>4. {t \in Sessions : receiver'[t] \in {"closing", "lost", "done"}}
        = {t \in Sessions : receiver[t] \in {"closing", "lost", "done"}}
  BY <1>2 DEF TypeOK
<1>5. QED
  BY <1>2, <1>3, <1>4 DEF Promise!vars

\* A Quit read, or a connection lost, is the end of the player's session.
LEMMA AskImplements ==
  ASSUME TypeOK, SessionsInv, PlaceKnown, PlaceKnown',
         NEW s \in Sessions, ReceiveQuit(s) \/ LoseConnection(s)
  PROVE  Promise!AskToLeave(s)
<1>1. PICK step \in {"closing", "lost"} :
        receiver' = [receiver EXCEPT ![s] = step]
  BY DEF ReceiveQuit, LoseConnection
<1>2. receiver[s] = "running" /\ UNCHANGED <<current_game_room, heroes, dead>>
  BY DEF ReceiveQuit, LoseConnection, roomVars
<1>3. Place(s) \in Rooms
  <2>1. current_game_room[s] \in Rooms /\ s \in heroes[current_game_room[s]]
    BY <1>2, HeroOfRunning
  <2>2. QED
    BY <2>1 DEF PlaceKnown
<1>4. ASSUME NEW t \in Sessions PROVE Place(t)' = Place(t)
  BY <1>1, <1>2, PlaceFrame DEF TypeOK
<1>5. {t \in Sessions : receiver'[t] \in {"closing", "lost", "done"}}
        = {t \in Sessions : receiver[t] \in {"closing", "lost", "done"}}
            \cup {s}
  BY <1>1 DEF TypeOK
<1>6. QED
  BY <1>2, <1>3, <1>4, <1>5 DEF Promise!AskToLeave

\* The receiver's last step, after which nothing is left of the session there.
LEMMA StopImplements ==
  ASSUME TypeOK, SessionsInv, PlaceKnown, PlaceKnown',
         NEW s \in Sessions, StopAfterQuit(s) \/ QuitForLostClient(s)
  PROVE  UNCHANGED Promise!vars
<1>1. /\ receiver[s] \in {"closing", "lost"}
      /\ receiver' = [receiver EXCEPT ![s] = "done"]
      /\ UNCHANGED <<current_game_room, heroes, dead>>
  BY DEF StopAfterQuit, StepAfterQuit, QuitForLostClient, roomVars
<1>2. ASSUME NEW t \in Sessions PROVE Place(t)' = Place(t)
  BY <1>1, PlaceFrame DEF TypeOK
<1>3. {t \in Sessions : receiver'[t] \in {"closing", "lost", "done"}}
        = {t \in Sessions : receiver[t] \in {"closing", "lost", "done"}}
  BY <1>1 DEF TypeOK
<1>4. QED
  BY <1>1, <1>2, <1>3 DEF Promise!vars

\* Starting the client's threads is not visible.
LEMMA StartImplements ==
  ASSUME TypeOK, SessionsInv, PlaceKnown, PlaceKnown', StartClient
  PROVE  UNCHANGED Promise!vars
<1>1. PICK s \in Sessions : s = listener.client /\ receiver[s] = "none"
  BY DEF StartClient, SessionsInv, ListenerOk, TypeOK, FreeSteps
<1>2. /\ receiver' = [receiver EXCEPT ![s] = "running"]
      /\ UNCHANGED <<current_game_room, heroes, dead>>
  BY <1>1 DEF StartClient, roomVars
<1>3. ASSUME NEW t \in Sessions PROVE Place(t)' = Place(t)
  BY <1>1, <1>2, PlaceFrame DEF TypeOK
<1>4. {t \in Sessions : receiver'[t] \in {"closing", "lost", "done"}}
        = {t \in Sessions : receiver[t] \in {"closing", "lost", "done"}}
  BY <1>1, <1>2 DEF TypeOK
<1>5. QED
  BY <1>2, <1>3, <1>4 DEF Promise!vars

\* The execution of a Quit saves the hero.
LEMMA SaveImplements ==
  ASSUME TypeOK, SessionsInv, PlaceKnown, PlaceKnown',
         NEW r \in Rooms, ExecuteQuit(r)
  PROVE  \E s \in Sessions : Promise!Save(s)
<1>1. PICK s \in Sessions : /\ s = Head(commands_queue[r]).uid
                            /\ Head(commands_queue[r]) = Command("quit", s)
  BY HeadType DEF ExecuteQuit, Commands, Command
<1>2. s \in heroes[r] /\ dead' = dead \cup {s}
  BY <1>1 DEF ExecuteQuit, Killed
<1>3. 1 \in Pending("quit", s, r)
  BY <1>1 DEF ExecuteQuit, Pending, TypeOK
<1>4. receiver[s] \in {"closing", "done"} /\ s \notin dead
  BY <1>3 DEF SessionsInv, SessionOk, QuitPending
<1>5. Place(s) \in Rooms
  BY <1>2 DEF PlaceKnown
<1>6. UNCHANGED <<heroes, current_game_room, receiver>>
  BY DEF ExecuteQuit, clientVars
<1>7. ASSUME NEW t \in Sessions PROVE Place(t)' = Place(t)
  BY <1>6, PlaceFrame
<1>8. QED
  BY <1>2, <1>4, <1>5, <1>6, <1>7 DEF Promise!Save

\* The room's cleanup takes the saved heroes it holds out of the world.
LEMMA LeaveImplements ==
  ASSUME TypeOK, SessionsInv, PlaceKnown, PlaceKnown',
         NEW r \in Rooms, RemoveDeadHeroes(r)
  PROVE  Promise!Leave(r) \/ UNCHANGED Promise!vars
<1> DEFINE S == heroes[r] \cap dead
<1>1. /\ heroes' = [heroes EXCEPT ![r] = @ \ dead]
      /\ UNCHANGED <<current_game_room, receiver, dead>>
  BY DEF RemoveDeadHeroes, clientVars
<1>2. ASSUME NEW t \in S PROVE t \in Sessions /\ Place(t) = r /\ Place(t)' = "gone"
  <2>1. t \in Sessions
    BY DEF TypeOK
  <2>2. HeroAtHome(t) /\ QuitPending(t)
    BY <2>1 DEF SessionsInv, SessionOk
  <2>3. \A q \in Rooms : t \notin heroes'[q]
    BY <1>1, <2>2 DEF HeroAtHome, TypeOK
  <2>4. current_game_room[t] # NoRoom /\ receiver[t] # "travelling"
    BY <2>2 DEF HeroAtHome, OnTheRoad
  <2>5. QED
    BY <1>1, <2>1, <2>3, <2>4 DEF PlaceKnown
<1>3. ASSUME NEW t \in Sessions \ S PROVE Place(t)' = Place(t)
  <2>1. \A q \in Rooms : t \in heroes'[q] <=> t \in heroes[q]
    BY <1>1 DEF TypeOK
  <2>2. QED
    BY <1>1, <2>1, PlaceFrame
<1>4. CASE S = {}
  BY <1>1, <1>3, <1>4 DEF Promise!vars
<1>5. CASE S # {}
  BY <1>1, <1>2, <1>3, <1>5 DEF Promise!Leave
<1>6. QED
  BY <1>4, <1>5

\* Every step of a thread is a step of the promise or stutters.
LEMMA NextImplements ==
  TypeOK /\ SessionsInv /\ PlaceKnown /\ PlaceKnown' /\ [Next]_vars =>
    [Promise!Next]_Promise!vars
<1> SUFFICES ASSUME TypeOK, SessionsInv, PlaceKnown, PlaceKnown', [Next]_vars
             PROVE  [Promise!Next]_Promise!vars
  OBVIOUS
<1>1. CASE ListenerNext
  <2>1. CASE RegisterNewQueue
    BY <2>1, HiddenStep DEF RegisterNewQueue, clientVars
  <2>2. CASE DeleteSender \/ DeleteReceiver \/ EndCollection
    BY <2>2, HiddenStep
    DEF DeleteSender, DeleteReceiver, EndCollection, clientVars, roomVars
  <2>3. ASSUME NEW s \in Sessions, SkipLiveClient(s) \/ StopSender(s)
        PROVE  UNCHANGED Promise!vars
    BY <2>3, HiddenStep DEF SkipLiveClient, StopSender, clientVars, roomVars
  <2>4. QED
    BY <1>1, <2>1, <2>2, <2>3, StartImplements DEF ListenerNext
<1>2. ASSUME NEW s \in Sessions, ClientActs(s)
      PROVE  [Promise!Next]_Promise!vars
  <2>1. CASE ReceiveCommand(s) \/ StopReading(s)
    BY <2>1, HiddenStep DEF ReceiveCommand, StopReading, roomVars
  <2>2. QED
    BY <1>2, <2>1, EnterImplements, DepartImplements, AskImplements
    DEF ClientActs, Promise!Next
<1>3. ASSUME NEW s \in Sessions, ReceiverContinues(s)
      PROVE  [Promise!Next]_Promise!vars
  BY <1>3, ArriveImplements, SettleImplements, StopImplements
  DEF ReceiverContinues, Promise!Next
<1>4. ASSUME NEW s \in Sessions, AfterSend(s) PROVE UNCHANGED Promise!vars
  BY <1>4, StopImplements, HiddenStep DEF AfterSend, SenderStops, roomVars
<1>5. ASSUME NEW r \in Rooms, RoomNext(r)
      PROVE  [Promise!Next]_Promise!vars
  <2>1. CASE BeginUpdate(r) \/ EndUpdate(r) \/ LookForHeroes(r)
             \/ SendGameStatus(r) \/ ExecuteAct(r)
    BY <2>1, HiddenStep
    DEF BeginUpdate, EndUpdate, LookForHeroes, SendGameStatus, ExecuteAct,
        clientVars
  <2>2. QED
    BY <1>5, <2>1, SaveImplements, LeaveImplements DEF RoomNext, Promise!Next
<1>6. CASE UNCHANGED vars
  BY <1>6, HiddenStep DEF vars, clientVars, roomVars
<1>7. QED
  BY <1>1, <1>2, <1>3, <1>4, <1>5, <1>6 DEF Next

\* The threads of the server keep the promise PlayerSession makes to a player.
THEOREM RoomsImplementPromise == Spec => ImplementsPlayerSession
BY SessionsInvariant, PlaceOfHero, InitImplements, NextImplements, PTL
DEF Spec, ImplementsPlayerSession, Promise!Spec

================================================================================
