------------------------- MODULE MessageCenterProofs -------------------------
(***************************************************************************)
(* Theorems about MessageCenter for every set of sessions and names.       *)
(***************************************************************************)
EXTENDS MessageCenter, TLAPS

\* The operations of the registry return a registry.
LEMMA RegistryType ==
  ASSUME NEW registry \in [Names -> Sessions \cup {None}],
         NEW n \in Names, NEW s \in Sessions
  PROVE  /\ AddPlayer(registry, n, s) \in [Names -> Sessions \cup {None}]
         /\ RemovePlayer(registry, n) \in [Names -> Sessions \cup {None}]
BY DEF AddPlayer, RemovePlayer

\* What an entry is after add_player(): the new one, or what it was.
LEMMA Added ==
  ASSUME NEW registry \in [Names -> Sessions \cup {None}],
         NEW n \in Names, NEW s \in Sessions, NEW m \in Names
  PROVE  AddPlayer(registry, n, s)[m] =
           IF m = n /\ registry[n] = None THEN s ELSE registry[m]
BY DEF AddPlayer

\* What an entry is after remove_player().
LEMMA Removed ==
  ASSUME NEW registry \in [Names -> Sessions \cup {None}],
         NEW n \in Names, NEW m \in Names
  PROVE  RemovePlayer(registry, n)[m] = IF m = n THEN None ELSE registry[m]
BY DEF RemovePlayer

\* A session that has started has a name.
LEMMA NameKnown ==
  ASSUME TypeOK, CenterInv, NEW s \in Sessions, receiver[s] # "none"
  PROVE  player_name[s] \in Names
BY CenterAssumption DEF TypeOK, CenterInv, LoggedIn

-----------------------------------------------------------------------------
(* Types *)

\* Every step keeps the types; the senders and receivers that unregister a
\* name have one, which is what CenterInv adds.
LEMMA TypesKept ==
  ASSUME TypeOK, CenterInv, [Next]_vars
  PROVE  TypeOK'
<1> USE DEF TypeOK, At
<1>1. ASSUME NEW s \in Sessions, NEW n \in Names, RegisterNewPlayer(s, n)
      PROVE  TypeOK'
  BY <1>1, RegistryType DEF RegisterNewPlayer
<1>2. ASSUME NEW s \in Sessions, StartClient(s) PROVE TypeOK'
  BY <1>2 DEF StartClient
<1>3. ASSUME NEW s \in Sessions, SkipLiveClient(s) PROVE TypeOK'
  BY <1>3 DEF SkipLiveClient
<1>4. ASSUME NEW s \in Sessions, StopSender(s) PROVE TypeOK'
  BY <1>4 DEF StopSender, Close
<1>5. ASSUME NEW s \in Sessions, DeleteSender(s) PROVE TypeOK'
  BY <1>5 DEF DeleteSender
<1>6. ASSUME NEW s \in Sessions, DeleteReceiver(s) PROVE TypeOK'
  BY <1>6 DEF DeleteReceiver
<1>7. CASE EndCollection
  BY <1>7 DEF EndCollection, Accepting
<1>8. ASSUME NEW s \in Sessions, ClientActs(s) PROVE TypeOK'
  BY <1>8 DEF ClientActs, ReceiveQuit, LoseConnection, Receives
<1>9. ASSUME NEW s \in Sessions, UnregisterAfterQuit(s) PROVE TypeOK'
  <2>1. player_name[s] \in Names
    BY <1>9, NameKnown DEF UnregisterAfterQuit, Receives
  <2>2. QED
    BY <1>9, <2>1, RegistryType DEF UnregisterAfterQuit, Receives
<1>10. ASSUME NEW s \in Sessions, QuitForLostClient(s) PROVE TypeOK'
  BY <1>10 DEF QuitForLostClient, Receives
<1>11. ASSUME NEW s \in Sessions, ExecuteQuit(s) PROVE TypeOK'
  BY <1>11 DEF ExecuteQuit, Close
<1>12. ASSUME NEW s \in Sessions, SenderStops(s) PROVE TypeOK'
  <2>1. player_name[s] \in Names
    BY <1>12, NameKnown DEF SenderStops, CenterInv, Threads
  <2>2. QED
    BY <1>12, <2>1, RegistryType DEF SenderStops
<1>13. CASE Tell \/ UNCHANGED vars
  BY <1>13 DEF Tell, FindUnlocked, PushUnlocked, SendMessage, vars
<1>14. QED
  BY <1>1, <1>2, <1>3, <1>4, <1>5, <1>6, <1>7, <1>8, <1>9, <1>10, <1>11, <1>12,
     <1>13 DEF Next, Accept, Collect, Unwind

-----------------------------------------------------------------------------
(* The three parts of CenterInv, for any session t *)

\* What a step does to whether a session is logged in.
LEMMA LoggedInKept ==
  ASSUME TypeOK, CenterInv, [Next]_vars, NEW t \in Sessions
  PROVE  LoggedIn(t)'
<1> USE DEF LoggedIn, At
<1>0. LoggedIn(t) /\ Threads(t)
  BY DEF CenterInv
<1>1. ASSUME NEW s \in Sessions, NEW n \in Names, RegisterNewPlayer(s, n)
      PROVE  LoggedIn(t)'
  BY <1>0, <1>1, CenterAssumption DEF RegisterNewPlayer, TypeOK, Accepting
<1>2. ASSUME NEW s \in Sessions, StartClient(s) PROVE LoggedIn(t)'
  BY <1>0, <1>2 DEF StartClient, TypeOK
<1>3. ASSUME NEW s \in Sessions, SkipLiveClient(s) PROVE LoggedIn(t)'
  BY <1>0, <1>3 DEF SkipLiveClient
<1>4. ASSUME NEW s \in Sessions, StopSender(s) PROVE LoggedIn(t)'
  BY <1>0, <1>4 DEF StopSender, Close, TypeOK
<1>5. ASSUME NEW s \in Sessions, DeleteSender(s) PROVE LoggedIn(t)'
  BY <1>0, <1>5 DEF DeleteSender, TypeOK
<1>6. ASSUME NEW s \in Sessions, DeleteReceiver(s) PROVE LoggedIn(t)'
  BY <1>0, <1>6 DEF DeleteReceiver
<1>7. CASE EndCollection
  BY <1>0, <1>7 DEF EndCollection, Accepting
<1>8. ASSUME NEW s \in Sessions, ClientActs(s) PROVE LoggedIn(t)'
  BY <1>0, <1>8 DEF ClientActs, ReceiveQuit, LoseConnection, Receives, TypeOK
<1>9. ASSUME NEW s \in Sessions, UnregisterAfterQuit(s) PROVE LoggedIn(t)'
  BY <1>0, <1>9 DEF UnregisterAfterQuit, Receives, TypeOK
<1>10. ASSUME NEW s \in Sessions, QuitForLostClient(s) PROVE LoggedIn(t)'
  BY <1>0, <1>10 DEF QuitForLostClient, Receives, TypeOK
<1>11. ASSUME NEW s \in Sessions, ExecuteQuit(s) PROVE LoggedIn(t)'
  BY <1>0, <1>11 DEF ExecuteQuit, Close, TypeOK
<1>12. ASSUME NEW s \in Sessions, SenderStops(s) PROVE LoggedIn(t)'
  BY <1>0, <1>12 DEF SenderStops, TypeOK
<1>13. CASE Tell \/ UNCHANGED vars
  BY <1>0, <1>13 DEF Tell, FindUnlocked, PushUnlocked, vars
<1>14. QED
  BY <1>1, <1>2, <1>3, <1>4, <1>5, <1>6, <1>7, <1>8, <1>9, <1>10, <1>11, <1>12,
     <1>13 DEF Next, Accept, Collect, Unwind

\* What a step does to the two threads of a session and its queue.
LEMMA ThreadsKept ==
  ASSUME TypeOK, CenterInv, [Next]_vars, NEW t \in Sessions
  PROVE  Threads(t)'
<1> USE DEF Threads, At
<1>0. LoggedIn(t) /\ Threads(t)
  BY DEF CenterInv
<1>1. ASSUME NEW s \in Sessions, NEW n \in Names, RegisterNewPlayer(s, n)
      PROVE  Threads(t)'
  BY <1>0, <1>1 DEF RegisterNewPlayer, TypeOK, LoggedIn
<1>2. ASSUME NEW s \in Sessions, StartClient(s) PROVE Threads(t)'
  <2>1. LoggedIn(s) /\ Threads(s)
    BY DEF CenterInv
  <2>2. QED
    BY <1>0, <1>2, <2>1 DEF StartClient, TypeOK, LoggedIn
<1>3. ASSUME NEW s \in Sessions, SkipLiveClient(s) PROVE Threads(t)'
  BY <1>0, <1>3 DEF SkipLiveClient
<1>4. ASSUME NEW s \in Sessions, StopSender(s) PROVE Threads(t)'
  BY <1>0, <1>4 DEF StopSender, Close, IsAlive, TypeOK
<1>5. ASSUME NEW s \in Sessions, DeleteSender(s) PROVE Threads(t)'
  BY <1>0, <1>5 DEF DeleteSender, TypeOK
<1>6. ASSUME NEW s \in Sessions, DeleteReceiver(s) PROVE Threads(t)'
  BY <1>0, <1>6 DEF DeleteReceiver
<1>7. CASE EndCollection
  BY <1>0, <1>7 DEF EndCollection
<1>8. ASSUME NEW s \in Sessions, ClientActs(s) PROVE Threads(t)'
  BY <1>0, <1>8 DEF ClientActs, ReceiveQuit, LoseConnection, Receives, TypeOK
<1>9. ASSUME NEW s \in Sessions, UnregisterAfterQuit(s) PROVE Threads(t)'
  BY <1>0, <1>9 DEF UnregisterAfterQuit, Receives, TypeOK
<1>10. ASSUME NEW s \in Sessions, QuitForLostClient(s) PROVE Threads(t)'
  BY <1>0, <1>10 DEF QuitForLostClient, Receives, TypeOK
<1>11. ASSUME NEW s \in Sessions, ExecuteQuit(s) PROVE Threads(t)'
  BY <1>0, <1>11 DEF ExecuteQuit, QuitPushed, Close, TypeOK
<1>12. ASSUME NEW s \in Sessions, SenderStops(s) PROVE Threads(t)'
  BY <1>0, <1>12, CenterAssumption DEF SenderStops, TypeOK, LoggedIn
<1>13. CASE Tell \/ UNCHANGED vars
  BY <1>0, <1>13 DEF Tell, FindUnlocked, PushUnlocked, vars
<1>14. QED
  BY <1>1, <1>2, <1>3, <1>4, <1>5, <1>6, <1>7, <1>8, <1>9, <1>10, <1>11, <1>12,
     <1>13 DEF Next, Accept, Collect, Unwind

\* An entry stays good when names, senders and the registry stay, and no
\* receiver goes back to its loop.
LEMMA EntryUntouched ==
  ASSUME NEW s \in Sessions, Entry(s),
         UNCHANGED <<player_name, players_notification_queues>>,
         sender'[s] \in {"done", "deleted"} => sender[s] \in {"done", "deleted"},
         receiver'[s] \in {"none", "reading"} => receiver[s] \in {"none", "reading"}
  PROVE  Entry(s)'
BY DEF Entry, Registered, NameUsedOnce

\* A session whose name another one unregisters has not used it alone.
LEMMA EntryAfterRemoval ==
  ASSUME TypeOK, CenterInv, NEW s \in Sessions, NEW t \in Sessions,
         player_name[s] \in Names,
         UNCHANGED player_name,
         players_notification_queues' =
           RemovePlayer(players_notification_queues, player_name[s]),
         receiver'[s] \notin {"none", "reading"},
         t # s => sender'[t] = sender[t] /\ receiver'[t] = receiver[t]
  PROVE  Entry(t)'
<1>1. ASSUME NEW n \in Names, players_notification_queues'[n] = t
      PROVE  /\ player_name'[t] = n
             /\ t # s
             /\ sender'[t] \notin {"done", "deleted"}
  <2>1. n # player_name[s] /\ players_notification_queues[n] = t
    BY <1>1, Removed, CenterAssumption DEF TypeOK
  <2>2. QED
    BY <2>1 DEF CenterInv, Entry
<1>2. ASSUME player_name'[t] # None, receiver'[t] \in {"none", "reading"},
             NameUsedOnce(t)'
      PROVE  Registered(t)'
  <2>1. t # s
    BY <1>2
  <2>2. NameUsedOnce(t) /\ player_name[t] # player_name[s]
    BY <1>2, <2>1 DEF NameUsedOnce
  <2>3. Registered(t)
    BY <1>2, <2>1, <2>2 DEF CenterInv, Entry
  <2>4. PICK n \in Names : player_name[t] = n /\ players_notification_queues[n] = t
    BY <2>3 DEF Registered
  <2>5. players_notification_queues'[n] = t
    BY <2>2, <2>4, Removed DEF TypeOK
  <2>6. QED
    BY <2>4, <2>5 DEF Registered
<1>3. QED
  BY <1>1, <1>2 DEF Entry

\* What a step does to the entry of a session.
LEMMA EntryKept ==
  ASSUME TypeOK, CenterInv, [Next]_vars, NEW t \in Sessions
  PROVE  Entry(t)'
<1>0. LoggedIn(t) /\ Threads(t) /\ Entry(t)
  BY DEF CenterInv
<1>1. ASSUME NEW s \in Sessions, NEW n \in Names, RegisterNewPlayer(s, n)
      PROVE  Entry(t)'
  <2> USE DEF RegisterNewPlayer
  <2>0. LoggedIn(s) /\ Entry(s)
    BY DEF CenterInv
  <2>1. player_name'[s] = n /\ sender[s] = "none" /\ n # None
    BY <1>1, <2>0, CenterAssumption DEF TypeOK, LoggedIn
  <2>2. ASSUME NEW m \in Names, players_notification_queues'[m] = t
        PROVE  player_name'[t] = m /\ sender'[t] \notin {"done", "deleted"}
    <3>1. CASE players_notification_queues[m] = t
      <4>1. player_name[t] = m /\ sender[t] \notin {"done", "deleted"}
        BY <1>0, <3>1 DEF Entry
      <4>2. t # s
        BY <1>1, <4>1, CenterAssumption
      <4>3. QED
        BY <1>1, <4>1, <4>2 DEF TypeOK
    <3>2. CASE players_notification_queues[m] # t
      <4>1. t = s /\ m = n
        BY <1>1, <2>2, <3>2, Added DEF TypeOK
      <4>2. QED
        BY <1>1, <2>1, <4>1
    <3>3. QED
      BY <3>1, <3>2
  <2>3. ASSUME player_name'[t] # None, receiver'[t] \in {"none", "reading"},
               NameUsedOnce(t)'
        PROVE  Registered(t)'
    <3>1. CASE t = s
      <4>1. players_notification_queues[n] = None
        <5>1. SUFFICES ASSUME players_notification_queues[n] # None PROVE FALSE
          OBVIOUS
        <5>2. PICK u \in Sessions : players_notification_queues[n] = u
          BY <5>1 DEF TypeOK
        <5>3. player_name[u] = n
          BY <5>2 DEF CenterInv, Entry
        <5>4. u # s /\ player_name'[u] = n
          BY <1>1, <5>3, CenterAssumption DEF TypeOK
        <5>5. QED
          BY <2>1, <2>3, <3>1, <5>4 DEF NameUsedOnce
      <4>2. players_notification_queues'[n] = s
        BY <1>1, <4>1, Added DEF TypeOK
      <4>3. QED
        BY <2>1, <3>1, <4>2 DEF Registered
    <3>2. CASE t # s
      <4>1. player_name'[t] = player_name[t] /\ receiver'[t] = receiver[t]
        BY <1>1, <3>2 DEF TypeOK
      <4>2. \A u \in Sessions \ {t} : player_name[u] # player_name[t]
        <5>1. ASSUME NEW u \in Sessions \ {t}
              PROVE  player_name[u] # player_name[t]
          <6>1. player_name'[u] # player_name'[t]
            BY <2>3 DEF NameUsedOnce
          <6>2. CASE u = s
            BY <1>1, <2>3, <4>1, <6>2
          <6>3. CASE u # s
            BY <1>1, <4>1, <6>1, <6>3 DEF TypeOK
          <6>4. QED
            BY <6>2, <6>3
        <5>2. QED
          BY <5>1
      <4>3. Registered(t)
        BY <1>0, <2>3, <4>1, <4>2 DEF Entry, NameUsedOnce
      <4>4. PICK m \in Names :
              player_name[t] = m /\ players_notification_queues[m] = t
        BY <4>3 DEF Registered
      <4>5. players_notification_queues'[m] = t
        BY <1>1, <4>4, Added, CenterAssumption DEF TypeOK
      <4>6. QED
        BY <4>1, <4>4, <4>5 DEF Registered
    <3>3. QED
      BY <3>1, <3>2
  <2>4. QED
    BY <2>2, <2>3 DEF Entry
<1>2. ASSUME NEW s \in Sessions, StartClient(s) PROVE Entry(t)'
  <2>1. receiver[s] = "none"
    BY <1>2 DEF StartClient, CenterInv, LoggedIn, Threads
  <2>2. sender'[t] \in {"done", "deleted"} => sender[t] \in {"done", "deleted"}
    BY <1>2 DEF StartClient, TypeOK
  <2>3. receiver'[t] \in {"none", "reading"} => receiver[t] \in {"none", "reading"}
    BY <1>2, <2>1 DEF StartClient, TypeOK
  <2>4. QED
    BY <1>0, <1>2, <2>2, <2>3, EntryUntouched DEF StartClient
<1>3. ASSUME NEW s \in Sessions, SkipLiveClient(s) PROVE Entry(t)'
  BY <1>0, <1>3, EntryUntouched DEF SkipLiveClient
<1>4. ASSUME NEW s \in Sessions, StopSender(s) PROVE Entry(t)'
  BY <1>0, <1>4, EntryUntouched DEF StopSender
<1>5. ASSUME NEW s \in Sessions, DeleteSender(s) PROVE Entry(t)'
  BY <1>0, <1>5, EntryUntouched DEF DeleteSender, TypeOK
<1>6. ASSUME NEW s \in Sessions, DeleteReceiver(s) PROVE Entry(t)'
  BY <1>0, <1>6, EntryUntouched DEF DeleteReceiver
<1>7. CASE EndCollection
  BY <1>0, <1>7, EntryUntouched DEF EndCollection
<1>8. ASSUME NEW s \in Sessions, ClientActs(s) PROVE Entry(t)'
  BY <1>0, <1>8, EntryUntouched
     DEF ClientActs, ReceiveQuit, LoseConnection, Receives, TypeOK
<1>9. ASSUME NEW s \in Sessions, UnregisterAfterQuit(s) PROVE Entry(t)'
  <2>1. player_name[s] \in Names
    BY <1>9, NameKnown DEF UnregisterAfterQuit, Receives
  <2>2. receiver'[s] = "done" /\ (t # s => receiver'[t] = receiver[t])
    BY <1>9 DEF UnregisterAfterQuit, Receives, TypeOK
  <2>3. QED
    BY <1>9, <2>1, <2>2, EntryAfterRemoval DEF UnregisterAfterQuit, Receives
<1>10. ASSUME NEW s \in Sessions, QuitForLostClient(s) PROVE Entry(t)'
  BY <1>0, <1>10, EntryUntouched DEF QuitForLostClient, Receives, TypeOK
<1>11. ASSUME NEW s \in Sessions, ExecuteQuit(s) PROVE Entry(t)'
  BY <1>0, <1>11, EntryUntouched DEF ExecuteQuit
<1>12. ASSUME NEW s \in Sessions, SenderStops(s) PROVE Entry(t)'
  <2>1. receiver[s] # "none" /\ receiver[s] # "reading"
    BY <1>12, CenterAssumption DEF SenderStops, CenterInv, Threads, LoggedIn
  <2>2. player_name[s] \in Names
    BY <2>1, NameKnown
  <2>3. sender'[t] = sender[t] \/ t = s
    BY <1>12 DEF SenderStops, TypeOK
  <2>4. QED
    BY <1>12, <2>1, <2>2, <2>3, EntryAfterRemoval DEF SenderStops
<1>13. CASE Tell \/ UNCHANGED vars
  BY <1>0, <1>13, EntryUntouched DEF Tell, FindUnlocked, PushUnlocked, vars
<1>14. QED
  BY <1>1, <1>2, <1>3, <1>4, <1>5, <1>6, <1>7, <1>8, <1>9, <1>10, <1>11, <1>12,
     <1>13 DEF Next, Accept, Collect, Unwind

-----------------------------------------------------------------------------
(* The theorems *)

LEMMA CenterInvInit ==
  ASSUME Init
  PROVE  TypeOK /\ CenterInv
BY CenterAssumption
   DEF Init, TypeOK, CenterInv, LoggedIn, Threads, Entry, Accepting, At

LEMMA CenterInvKept ==
  ASSUME TypeOK, CenterInv, [Next]_vars
  PROVE  TypeOK' /\ CenterInv'
BY TypesKept, LoggedInKept, ThreadsKept, EntryKept DEF CenterInv

\* Every session is, for ever, in the state its login, its threads and its
\* entry agree on, whatever the logins, quits and lost connections.
THEOREM CenterInvariant == Spec => [](TypeOK /\ CenterInv)
<1>1. Init => TypeOK /\ CenterInv
  BY CenterInvInit
<1>2. TypeOK /\ CenterInv /\ [Next]_vars => (TypeOK /\ CenterInv)'
  BY CenterInvKept
<1>3. QED
  BY <1>1, <1>2, PTL DEF Spec

\* The registry never leads to a deleted queue: senders that hold the mutex of the
\* center from the look-up to the push always push on a queue that exists.
THEOREM NoDeletedQueueRegistered == Spec => []RegisteredQueueExists
<1>1. TypeOK /\ CenterInv => RegisteredQueueExists
  <2>1. SUFFICES ASSUME TypeOK, CenterInv, NEW n \in Names, NEW silent \in BOOLEAN,
                        NEW s \in Notify(players_notification_queues, n, silent)
                 PROVE  notifications_queue[s] \in {"open", "closed"}
    BY DEF RegisteredQueueExists
  <2>2. s \in Sessions /\ players_notification_queues[n] = s
    BY <2>1 DEF Notify, SendMessage
  <2>3. player_name[s] # None /\ sender[s] # "deleted"
    BY <2>1, <2>2, CenterAssumption DEF CenterInv, Entry
  <2>4. notifications_queue[s] \notin {"none", "deleted"}
    BY <2>1, <2>2, <2>3 DEF CenterInv, LoggedIn, Threads
  <2>5. QED
    BY <2>1, <2>2, <2>4 DEF TypeOK
<1>2. QED
  BY <1>1, CenterInvariant, PTL

\* A player whose name was used once is registered for as long as it plays.
THEOREM OneNameOneEntry == Spec => []RegisteredWhilePlaying
<1>1. TypeOK /\ CenterInv => RegisteredWhilePlaying
  BY DEF RegisteredWhilePlaying, Playing, CenterInv, LoggedIn, Entry
<1>2. QED
  BY <1>1, CenterInvariant, PTL

\* The variables of the center keep their types.
THEOREM CenterTypeCorrect == Spec => []TypeOK
BY CenterInvariant, PTL
=============================================================================
