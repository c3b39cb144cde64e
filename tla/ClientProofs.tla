------------------------------ MODULE ClientProofs ------------------------------
(***************************************************************************)
(* Theorems about the client: about its program, for every lobby,          *)
(* inventory and number of inputs, and about which entities it shows       *)
(* (ClientView), for any sets of heroes, monsters, drops and rooms and any *)
(* bounds of the queue and the socket.  The two share no variable.         *)
(***************************************************************************)
EXTENDS Client, ClientView, SequenceTheorems, TLAPS

-----------------------------------------------------------------------------
(* The lobby *)

\* The screen to log in and its boxes: the events that decide whether there is a name.
LoggingIn == {"log in", "left"} \cup L!Boxes
Named == user_name # 0 \/ late

\* Whoever is past the first screen has a name, or had one when the button was
\* clicked; and so has who is about to leave it without closing the window.
NameInv ==
  /\ lobby \in LoggingIn => running \/ quit \/ Named
  /\ lobby = "left" => ~running
  /\ lobby \in {"selection", "selected", "play"} => Named
  /\ lobby = "play" => ~quit

LobbyInv == L!TypeOK /\ NameInv


\* There is room for a letter.
LEMMA RoomForALetter == MaxInput \in Int /\ 0 < MaxInput
BY LobbyAssumption

\* The boxes are empty at first.
LEMMA LobbyTypesInit == L!Init => L!TypeOK
<1> SUFFICES ASSUME L!Init PROVE L!TypeOK
  OBVIOUS
<1>1. user_name \in 0 .. MaxInput /\ pass \in 0 .. MaxInput
  <2>1. 0 \in 0 .. MaxInput
    BY RoomForALetter
  <2>2. QED
    BY <2>1 DEF L!Init
<1>2. lobby \in {"log in", "left", "selection", "selected", "play", "closed"} \cup L!Boxes
  BY DEF L!Init
<1>3. /\ running \in BOOLEAN /\ quit \in BOOLEAN /\ late \in BOOLEAN
      /\ mouse \in L!Places /\ get_text \in L!Boxes \cup {"none"} /\ need_letter \in BOOLEAN
      /\ screen \in L!Sizes /\ full_screen \in BOOLEAN
  BY DEF L!Init, L!Places, L!Sizes
<1>4. race \in RacesOffered /\ class \in ClassesOffered /\ map \in MapsOffered
  BY LobbyAssumption DEF L!Init
<1>5. QED
  BY <1>1, <1>2, <1>3, <1>4 DEF L!TypeOK

\* Nobody has written a name, and nobody plays.
LEMMA LobbyInit == L!Init => LobbyInv
BY LobbyTypesInit DEF LobbyInv, L!Init, NameInv, LoggingIn, L!Boxes

\* What is typed stays within its length.
LEMMA EditLength ==
  ASSUME L!TypeOK, L!Backspace \/ L!TypeLetter
  PROVE  \E length \in 0 .. MaxInput : L!Edit(length)
<1>1. L!Text \in 0 .. MaxInput
  BY DEF L!TypeOK, L!Text
<1>2. CASE L!Backspace
  <2>1. L!Text - 1 \in 0 .. MaxInput
    BY <1>1, <1>2, RoomForALetter DEF L!Backspace
  <2>2. QED
    BY <1>2, <2>1 DEF L!Backspace
<1>3. CASE L!TypeLetter
  <2>1. L!Text + 1 \in 0 .. MaxInput
    BY <1>1, <1>3, RoomForALetter DEF L!TypeLetter
  <2>2. QED
    BY <1>3, <2>1 DEF L!TypeLetter
<1>4. QED
  BY <1>2, <1>3

\* Every click and key of the lobby keeps the types of its boxes and screens.
LEMMA LobbyTypes ==
  ASSUME L!TypeOK, L!Next PROVE L!TypeOK'
<1> USE DEF L!boxVars, L!screenVars, L!chosen
<1>1. ASSUME NEW p \in L!Places, L!ClickLogIn(p) \/ L!ClickTyping(p) PROVE L!TypeOK'
  <2>1. CASE L!ClickLogIn(p)
    BY <2>1 DEF L!TypeOK, L!Boxes, L!Places, L!Sizes, L!ClickLogIn, L!Clicked, L!TypesNext,
                L!LogInEvent
  <2>2. CASE L!ClickTyping(p)
    BY <2>2 DEF L!TypeOK, L!Boxes, L!Places, L!Sizes, L!ClickTyping, L!Clicked, L!LogInEvent
  <2>3. QED
    BY <1>1, <2>1, <2>2
<1>2. CASE L!OtherLogIn
  BY <1>2 DEF L!TypeOK, L!Boxes, L!Places, L!Sizes, L!OtherLogIn, L!TypesNext, L!LogInEvent
<1>3. ASSUME NEW length \in 0 .. MaxInput, L!Edit(length) PROVE L!TypeOK'
  BY <1>3 DEF L!TypeOK, L!Edit
<1>4. CASE L!CloseTyping \/ L!TypingDrained
  <2>1. CASE L!CloseTyping
    BY <2>1 DEF L!TypeOK, L!CloseTyping, L!Box, L!Typing
  <2>2. CASE L!TypingDrained
    BY <2>2 DEF L!TypeOK, L!TypingDrained
  <2>3. QED
    BY <1>4, <2>1, <2>2
<1>5. CASE L!CloseLogIn \/ L!LogInDrained
  <2>1. CASE L!CloseLogIn
    BY <2>1 DEF L!TypeOK, L!CloseLogIn
  <2>2. CASE L!LogInDrained
    BY <2>2 DEF L!TypeOK, L!LogInDrained
  <2>3. QED
    BY <1>5, <2>1, <2>2
<1>6. CASE L!Choose \/ L!ClickPlay
  BY <1>6 DEF L!TypeOK, L!Choose, L!ClickPlay, L!Selecting
<1>7. CASE L!CloseSelection \/ L!SelectionDrained
  BY <1>7 DEF L!TypeOK, L!CloseSelection, L!SelectionDrained, L!Selecting
<1>8. CASE L!StartLobby
  BY <1>8 DEF L!TypeOK, L!StartLobby
<1>9. QED
  BY <1>1, <1>2, <1>3, <1>4, <1>5, <1>6, <1>7, <1>8, EditLength
  DEF L!Next, L!PlayerEvents, L!LobbyStep

\* A name that is there when the button is clicked may go, and then is late.
LEMMA LobbyKeepsNames ==
  ASSUME LobbyInv, L!Next PROVE LobbyInv'
<1> USE DEF LobbyInv, NameInv, Named, LoggingIn, L!Boxes, L!boxVars, L!chosen
<1>1. L!TypeOK' /\ NameInv /\ L!TypeOK
  BY LobbyTypes DEF LobbyInv
<1>2. ASSUME NEW p \in L!Places, L!ClickLogIn(p) \/ L!ClickTyping(p) PROVE NameInv'
  <2>1. CASE L!ClickLogIn(p)
    BY <1>1, <2>1 DEF L!TypeOK, L!ClickLogIn, L!Clicked, L!TypesNext, L!LogInEvent
  <2>2. CASE L!ClickTyping(p)
    BY <1>1, <2>2 DEF L!TypeOK, L!ClickTyping, L!Clicked, L!LogInEvent, L!Typing
  <2>3. QED
    BY <1>2, <2>1, <2>2
<1>3. CASE L!OtherLogIn
  BY <1>1, <1>3 DEF L!TypeOK, L!OtherLogIn, L!TypesNext, L!LogInEvent
<1>4. ASSUME NEW length \in 0 .. MaxInput, L!Edit(length) PROVE NameInv'
  BY <1>1, <1>4 DEF L!TypeOK, L!Edit, L!Typing
<1>5. CASE L!CloseTyping \/ L!TypingDrained
  BY <1>1, <1>5 DEF L!TypeOK, L!CloseTyping, L!TypingDrained, L!Box, L!Typing
<1>6. CASE L!CloseLogIn \/ L!LogInDrained
  BY <1>1, <1>6 DEF L!TypeOK, L!CloseLogIn, L!LogInDrained
<1>7. CASE L!Choose \/ L!ClickPlay \/ L!CloseSelection \/ L!SelectionDrained
  BY <1>1, <1>7 DEF L!TypeOK, L!Choose, L!ClickPlay, L!CloseSelection, L!SelectionDrained,
                    L!Selecting
<1>8. CASE L!StartLobby
  BY <1>1, <1>8 DEF L!TypeOK, L!StartLobby
<1>9. QED
  BY <1>1, <1>2, <1>3, <1>4, <1>5, <1>6, <1>7, <1>8, EditLength
  DEF L!Next, L!PlayerEvents, L!LobbyStep

-----------------------------------------------------------------------------
(* The program *)

\* The lobby's state while the game begins: what is left of it is fresh.
LEMMA HandshakeKeepsNames ==
  ASSUME DoHandshake PROVE LobbyInv'
<1>1. user_name' \in 0 .. MaxInput /\ pass' \in 0 .. MaxInput
  <2>1. 0 \in 0 .. MaxInput /\ 1 \in 0 .. MaxInput
    BY RoomForALetter
  <2>2. QED
    BY <2>1 DEF DoHandshake
<1>2. L!TypeOK'
  BY <1>1, LobbyAssumption DEF DoHandshake, L!TypeOK, L!Places, L!Sizes
<1>3. NameInv'
  <2>1. Named'
    <3>1. 1 # 0
      OBVIOUS
    <3>2. QED
      BY <3>1 DEF DoHandshake, Named
  <2>2. lobby' = "play" /\ ~quit'
    BY DEF DoHandshake
  <2>3. QED
    BY <2>1, <2>2 DEF NameInv
<1>4. QED
  BY <1>2, <1>3 DEF LobbyInv

\* While the game runs, the lobby is as it was left.
LEMMA LobbyFrame ==
  ASSUME LobbyInv, UNCHANGED lobbyVars PROVE LobbyInv'
BY DEF LobbyInv, lobbyVars, L!TypeOK, NameInv, Named, LoggingIn

\* A step of the program is one of the lobby, or begins the game, or leaves the
\* lobby's state alone.
LEMMA ProgramKeepsNames ==
  ASSUME LobbyInv, [ProgramNext]_programVars PROVE LobbyInv'
<1>1. CASE L!Next
  BY <1>1, LobbyKeepsNames
<1>2. CASE DoHandshake
  BY <1>2, HandshakeKeepsNames
<1>3. CASE UNCHANGED lobbyVars
  BY <1>3, LobbyFrame
<1>4. QED
  BY <1>1, <1>2, <1>3
  DEF ProgramNext, Main, InLobby, L!Next, Connect, Shaken, Unanswered, Playing, programVars

\* What the lobby knows of the name, over its two screens and the game (lobby.cpp).
THEOREM LobbyInvariant == ProgramSpec => []LobbyInv
<1>1. ProgramInit => LobbyInv
  BY LobbyInit DEF ProgramInit
<1>2. LobbyInv /\ [ProgramNext]_programVars => LobbyInv'
  BY ProgramKeepsNames
<1>3. QED
  BY <1>1, <1>2, PTL DEF ProgramSpec

\* Nobody plays who closed the window, with a name too long, or without one that was
\* there when the button was clicked.
THEOREM OnlyTheNamed == ProgramSpec => []OnlyTheNamedPlay
<1>1. LobbyInv => OnlyTheNamedPlay
  BY RoomForALetter DEF LobbyInv, L!TypeOK, NameInv, Named, OnlyTheNamedPlay
<1>2. QED
  BY <1>1, LobbyInvariant, PTL

-----------------------------------------------------------------------------
(* The selected slot *)

Events == {"select", "volume", "message", "quit"}
Pending == {i \in DOMAIN events : events[i] = "select"}

\* While nobody hurries at most one selection waits to be shown; it takes the
\* place of another slot, or of none; and when none waits, the two threads agree.
ShownInv ==
  /\ events \in Seq(Events) /\ hurried \in BOOLEAN /\ is_selected \in BOOLEAN
  /\ ~hurried =>
       /\ \A i, j \in Pending : i = j
       /\ Pending = {} => Shown = index
       /\ Pending # {} => (index = NoSlot \/ Shown # index)

selection == <<index, events, hurried, is_selected, item_selected>>

\* What a step that selects nothing may do with the events: add one of another kind.
Adds(e) == events' = Append(events, e) /\ UNCHANGED <<index, hurried, is_selected, item_selected>>

\* An event of another kind changes no slot, and is on no selection's way.
LEMMA AddedShows ==
  ASSUME ShownInv, NEW e \in Events \ {"select"}, Adds(e) PROVE ShownInv'
<1>1. events' \in Seq(Events)
  BY DEF ShownInv, Adds
<1>2. Pending' = Pending
  BY DEF ShownInv, Adds, Pending
<1>3. Shown' = Shown
  BY DEF Adds, Shown
<1>4. QED
  BY <1>1, <1>2, <1>3 DEF ShownInv, Adds

\* Nor does a step of the receiver, of the sender or of the server.
LEMMA IdleShows ==
  ASSUME ShownInv, UNCHANGED selection PROVE ShownInv'
BY DEF ShownInv, selection, Pending, Shown

\* A selection of another slot, or of none.
LEMMA SelectShows ==
  ASSUME ShownInv, NEW slot, slot = NoSlot \/ slot # index, Select(slot),
         UNCHANGED <<is_selected, item_selected>>
  PROVE  ShownInv'
<1>1. events' \in Seq(Events)
  BY DEF ShownInv, Select, Events
<1>2. Pending' = Pending \cup {Len(events) + 1}
  BY DEF ShownInv, Select, Pending
<1>3. hurried' = (hurried \/ Pending # {})
  BY DEF Select, Pending
<1>4. Shown' = Shown /\ index' = slot
  BY DEF Select, Shown
<1>5. QED
  BY <1>1, <1>2, <1>3, <1>4 DEF ShownInv

\* The selected item is thrown away, from the box of the chat too.
LEMMA DropShows ==
  ASSUME ShownInv, EnterDrop PROVE ShownInv'
<1>1. UNCHANGED <<is_selected, item_selected>>
  BY DEF EnterDrop, Enter, renderVars
<1>2. CASE Selected.item # None /\ ~Selected.equipped
  <2>1. events' = events \o <<"select", "message">> /\ index' = NoSlot
    BY <1>2 DEF EnterDrop
  <2>2. events' \in Seq(Events)
    BY <2>1 DEF ShownInv, Events
  <2>3. Pending' = Pending \cup {Len(events) + 1}
    BY <2>1 DEF ShownInv, Pending
  <2>4. hurried' = (hurried \/ Pending # {})
    BY <1>2 DEF EnterDrop, Pending
  <2>5. hurried' \in BOOLEAN /\ is_selected' \in BOOLEAN
    BY <1>1, <2>4 DEF ShownInv
  <2>6. ~hurried' => Pending' = {Len(events) + 1}
    BY <2>3, <2>4
  <2>7. QED
    BY <2>1, <2>2, <2>5, <2>6 DEF ShownInv
<1>3. CASE ~(Selected.item # None /\ ~Selected.equipped)
  <2>1. Adds("message")
    BY <1>1, <1>3 DEF EnterDrop, Adds
  <2>2. QED
    BY <2>1, AddedShows DEF Events
<1>4. QED
  BY <1>2, <1>3

\* The renderer shows a selection where the handler has made it.
LEMMA FrameShows ==
  ASSUME ShownInv, Frame PROVE ShownInv'
<1>1. UNCHANGED <<index, hurried>>
  BY DEF Frame, NoInput
<1>2. CASE events = <<>>
  <2>1. UNCHANGED selection
    BY <1>1, <1>2 DEF Frame, selection
  <2>2. QED
    BY <2>1, IdleShows
<1>3. CASE events # <<>> /\ Head(events) # "select"
  <2>1. events' = Tail(events) /\ UNCHANGED <<is_selected, item_selected>>
    BY <1>3 DEF Frame
  <2>2. events' \in Seq(Events) /\ Shown' = Shown
    BY <1>3, <2>1 DEF ShownInv, Shown
  <2>3. Pending' = {i \in 1 .. Len(events) - 1 : i + 1 \in Pending}
    BY <1>3, <2>1 DEF ShownInv, Pending
  <2>4. Pending \subseteq 2 .. Len(events)
    BY <1>3 DEF ShownInv, Pending
  <2>5. Pending' = {} <=> Pending = {}
    <3>1. ASSUME NEW i \in Pending PROVE i - 1 \in Pending'
      BY <2>3, <2>4 DEF ShownInv
    <3>2. QED
      BY <2>3, <3>1
  <2>6. ASSUME ~hurried, NEW i \in Pending', NEW j \in Pending' PROVE i = j
    <3>1. i + 1 \in Pending /\ j + 1 \in Pending /\ i \in Int /\ j \in Int
      BY <2>3
    <3>2. i + 1 = j + 1
      BY <2>6, <3>1 DEF ShownInv
    <3>3. QED
      BY <3>1, <3>2
  <2>7. QED
    BY <1>1, <2>1, <2>2, <2>5, <2>6 DEF ShownInv
<1>4. CASE events # <<>> /\ Head(events) = "select"
  <2>1. /\ events' = Tail(events)
        /\ is_selected' = ~(is_selected /\ index = item_selected) /\ item_selected' = index
    BY <1>4 DEF Frame
  <2>2. events' \in Seq(Events) /\ is_selected' \in BOOLEAN
    BY <1>4, <2>1 DEF ShownInv
  <2>3. 1 \in Pending
    BY <1>4 DEF ShownInv, Pending
  <2>4. Pending' = {} \/ hurried
    <3>1. ASSUME ~hurried, NEW i \in Pending' PROVE FALSE
      <4>1. i \in Int /\ i >= 1 /\ i + 1 \in Pending
        BY <1>4, <2>1 DEF ShownInv, Pending
      <4>2. i + 1 = 1
        BY <2>3, <3>1, <4>1 DEF ShownInv
      <4>3. QED
        BY <4>1, <4>2
    <3>2. QED
      BY <3>1
  <2>5. ~hurried => Shown' = index
    BY <2>1, <2>3 DEF ShownInv, Shown
  <2>6. QED
    BY <1>1, <2>2, <2>4, <2>5 DEF ShownInv
<1>5. QED
  BY <1>2, <1>3, <1>4

\* What the handler treats of a click on the inventory.
LEMMA SelectItemShows ==
  ASSUME ShownInv, SelectItem PROVE ShownInv'
<1>1. UNCHANGED <<is_selected, item_selected>>
  BY DEF SelectItem, renderVars
<1>2. \/ clicked # index /\ Select(clicked)
      \/ Select(NoSlot)
      \/ SelectNothing
  BY DEF SelectItem
<1>3. CASE SelectNothing
  BY <1>1, <1>3, IdleShows DEF SelectNothing, queueVars, selection
<1>4. QED
  BY <1>1, <1>2, <1>3, SelectShows

\* Every other step of the client adds an event that selects nothing, or none.
LEMMA OthersAdd ==
  ASSUME [Next]_vars
  PROVE  \/ \E e \in Events \ {"select"} : Adds(e)
         \/ UNCHANGED selection
         \/ Select(NoSlot) /\ UNCHANGED <<is_selected, item_selected>>
         \/ EnterDrop \/ SelectItem \/ Frame
<1> USE DEF Input, SelectNothing, queueVars, renderVars, selection, Adds, Events
<1>1. ASSUME NEW c \in Pressed, PressKey(c) PROVE UNCHANGED selection
  BY <1>1 DEF PressKey
<1>2. CASE PressVolumeKey
  BY <1>2 DEF PressVolumeKey
<1>3. CASE PressDrop
  BY <1>3 DEF PressDrop, Throw
<1>4. CASE ClickShop \/ ClickChat \/ ClickOutside
  BY <1>4 DEF ClickShop, ClickChat, ClickOutside
<1>5. ASSUME NEW s \in InventorySlots, ClickInventory(s) PROVE UNCHANGED selection
  BY <1>5 DEF ClickInventory
<1>6. CASE TypeCharacter \/ DeleteCharacter \/ CloseWindow
  BY <1>6 DEF TypeCharacter, DeleteCharacter, CloseWindow
<1>7. ASSUME NEW cs \in Lines, EnterCommand(cs) PROVE Adds("message")
  BY <1>7 DEF EnterCommand, Enter
<1>8. ASSUME NEW kind \in GoldKinds, NEW n \in Amounts, EnterGold(kind, n)
      PROVE  Adds("message") \/ UNCHANGED selection
  BY <1>8 DEF EnterGold, Enter
<1>9. CASE TradeItem \/ LeaveChat \/ EndEvents
  BY <1>9 DEF TradeItem, LeaveChat, EndEvents
<1>10. CASE SendCommand \/ UpdaterEnds \/ ReceiveCommand \/ Lose
  BY <1>10 DEF SendCommand, UpdaterEnds, ReceiveCommand, Lose, NoInput
<1>11. CASE UNCHANGED vars
  BY <1>11 DEF vars
<1>12. QED
  BY <1>1, <1>2, <1>3, <1>4, <1>5, <1>6, <1>7, <1>8, <1>9, <1>10, <1>11
  DEF Next, PlayerActs, HandlerStep

\* Whoever acts, the slot drawn or about to be drawn is the one used.
LEMMA ShownStep ==
  ASSUME ShownInv, [Next]_vars PROVE ShownInv'
BY OthersAdd, AddedShows, IdleShows, SelectShows, DropShows, SelectItemShows, FrameShows

\* No slot is selected at first, and none is drawn.
LEMMA ShownInit == Init => ShownInv
<1> SUFFICES ASSUME Init PROVE ShownInv
  OBVIOUS
<1>1. events \in Seq(Events) /\ Pending = {}
  BY DEF Init, Pending
<1>2. hurried \in BOOLEAN /\ is_selected \in BOOLEAN /\ Shown = index
  BY DEF Init, Shown
<1>3. QED
  BY <1>1, <1>2 DEF ShownInv

\* The steps of the program as those of the player's client.
LEMMA ProgramStep ==
  ASSUME [ProgramNext]_programVars
  PROVE  \/ [Next]_vars
         \/ UNCHANGED <<handlerVars, queueVars, uiVars, is_running, commandVars, renderVars,
                        sendVars, updater, received, hurried>> /\ server' = "closed"
BY DEF ProgramNext, Main, InLobby, Connect, Shaken, Unanswered, Playing, Next, programVars

\* Until the player is hurried at most one selection is on its way to the renderer, and
\* when none is, the slot drawn is the slot used (game_renderer.cpp:45).
THEOREM ShownInvariant == ProgramSpec => []ShownInv
<1>1. ProgramInit => ShownInv
  BY ShownInit DEF ProgramInit
<1>2. ShownInv /\ [ProgramNext]_programVars => ShownInv'
  BY ProgramStep, ShownStep, IdleShows DEF queueVars, renderVars, selection
<1>3. QED
  BY <1>1, <1>2, PTL DEF ProgramSpec

\* The slot drawn is the slot used once the renderer has taken every event, whatever the
\* player and the server do meanwhile.
THEOREM SelectionShown == ProgramSpec => []SelectionIsShown
<1>1. ShownInv => SelectionIsShown
  BY DEF ShownInv, Pending, SelectionIsShown
<1>2. QED
  BY <1>1, ShownInvariant, PTL

-----------------------------------------------------------------------------
(* The way of the commands *)

\* A list of what it holds.
Listed(s) == s \in Seq({s[i] : i \in DOMAIN s})

\* A command as the protocol lays it out.
LaidOut(c) == Listed(c) /\ c[1] \in Kinds /\ Len(c) = 1 + Layout(c[1])
OfCommands(cs) == Listed(cs) /\ \A i \in DOMAIN cs : LaidOut(cs[i])

LEMMA SequencesAreListed == ASSUME NEW S, NEW s \in Seq(S) PROVE Listed(s)
<1> DEFINE T == {s[i] : i \in DOMAIN s}
<1>1. Len(s) \in Nat /\ DOMAIN s = 1 .. Len(s)
  BY LenProperties
<1>2. \A i \in 1 .. Len(s) : s[i] \in T
  BY <1>1
<1> HIDE DEF T
<1>3. SubSeq(s, 1, Len(s)) \in Seq(T)
  BY <1>1, <1>2, SubSeqProperties
<1>4. SubSeq(s, 1, Len(s)) = s
  BY SubSeqFull
<1> QED  BY <1>3, <1>4 DEF Listed, T

LEMMA ListedConcat ==
  ASSUME NEW s, Listed(s), NEW t, Listed(t)
  PROVE  /\ Listed(s \o t) /\ Len(s \o t) = Len(s) + Len(t)
         /\ \A i \in 1 .. Len(s) : (s \o t)[i] = s[i]
         /\ \A i \in 1 .. Len(t) : (s \o t)[Len(s) + i] = t[i]
<1> DEFINE S == {s[i] : i \in DOMAIN s} \cup {t[i] : i \in DOMAIN t}
<1>1. s \in Seq(S) /\ t \in Seq(S)
  BY DEF Listed
<1> HIDE DEF S
<1>2. /\ s \o t \in Seq(S) /\ Len(s \o t) = Len(s) + Len(t)
      /\ \A i \in 1 .. Len(s) : (s \o t)[i] = s[i]
      /\ \A i \in 1 .. Len(t) : (s \o t)[Len(s) + i] = t[i]
  BY <1>1
<1>3. Listed(s \o t)
  BY <1>2, SequencesAreListed
<1> QED  BY <1>2, <1>3

LEMMA ShortLists ==
  /\ Listed(<<>>) /\ Len(<<>>) = 0
  /\ \A a : Listed(<<a>>) /\ Len(<<a>>) = 1
  /\ \A a, b : Listed(<<a, b>>) /\ Len(<<a, b>>) = 2
  /\ \A a, b, c : Listed(<<a, b, c>>) /\ Len(<<a, b, c>>) = 3
BY DEF Listed

LEMMA CommandsAreLaidOut ==
  ASSUME NEW k \in Kinds, NEW args, Listed(args), Len(args) = Layout(k)
  PROVE  LaidOut(Command(k, args))
<1>1. Listed(<<k>>) /\ Len(<<k>>) = 1 /\ <<k>>[1] = k
  BY ShortLists
<1>2. Listed(<<k>> \o args) /\ Len(<<k>> \o args) = 1 + Len(args) /\ (<<k>> \o args)[1] = k
  BY <1>1, ListedConcat
<1> QED  BY <1>2 DEF LaidOut, Command

LEMMA Layouts ==
  /\ Layout("use") = 3 /\ Layout("message") = 2
  /\ \A k \in ItemKinds \cup GoldKinds \cup {"move", "room"} : Layout(k) = 1
  /\ \A k \in Kinds \ (ItemKinds \cup GoldKinds \cup {"move", "room", "use", "message"}) : Layout(k) = 0
  /\ \A k \in Kinds : Layout(k) \in Nat
BY DEF Layout, ItemKinds, GoldKinds, Kinds

LEMMA FewCommands ==
  ASSUME NEW a, LaidOut(a), NEW b, LaidOut(b)
  PROVE  OfCommands(<<>>) /\ OfCommands(<<a>>) /\ OfCommands(<<a, b>>)
BY DEF OfCommands, Listed

LEMMA SentWhole ==
  ASSUME NEW c, LaidOut(c)
  PROVE  /\ Sent(c) # <<>> /\ Sent(c)[1] = c[1]
         /\ SubSeq(Sent(c), 1, 1 + Layout(Sent(c)[1])) = Sent(c)
         /\ SubSeq(Sent(c), 2 + Layout(Sent(c)[1]), Len(Sent(c))) = <<>>
<1> DEFINE s == Sent(c)
<1>1. c[1] \in Kinds /\ Layout(c[1]) \in Nat
  <2>1. c[1] \in Kinds
    BY DEF LaidOut
  <2> QED  BY <2>1, Layouts
<1>2. Listed(s) /\ Len(s) = 1 + Layout(c[1]) /\ s[1] = c[1]
  <2>1. CASE c[1] \in GoldKinds
    <3>1. s = <<c[1], c[2] % Uint16>>
      BY <1>1, <2>1 DEF Sent
    <3> DEFINE n == c[2] % Uint16
    <3> HIDE DEF n
    <3>2. s = <<c[1], n>>
      BY <3>1 DEF n
    <3>3. Listed(<<c[1], n>>) /\ Len(<<c[1], n>>) = 2 /\ <<c[1], n>>[1] = c[1]
      BY ShortLists
    <3>4. Layout(c[1]) = 1
      BY <2>1, Layouts
    <3> QED  BY <3>2, <3>3, <3>4
  <2>2. CASE c[1] \notin GoldKinds
    BY <1>1, <2>2 DEF Sent, LaidOut
  <2> QED  BY <2>1, <2>2
<1> HIDE DEF s
<1>3. s # <<>>
  BY <1>1, <1>2
<1>4. SubSeq(s, 1, Len(s)) = s /\ SubSeq(s, Len(s) + 1, Len(s)) = <<>>
  BY <1>2 DEF Listed
<1>5. Len(s) + 1 = 2 + Layout(c[1])
  BY <1>1, <1>2
<1>6. s # <<>> /\ s[1] = c[1] /\ SubSeq(s, 1, 1 + Layout(s[1])) = s
      /\ SubSeq(s, 2 + Layout(s[1]), Len(s)) = <<>>
  BY <1>2, <1>3, <1>4, <1>5
<1> QED  BY <1>6 DEF s

\* The commands the sender has taken, and those the receiver has read or lost.
taken == Len(given) - Len(commands)
heard == IF wire = <<>> THEN taken ELSE taken - 1

QueueOfGiven ==
  /\ OfCommands(given) /\ Listed(commands) /\ Len(commands) <= Len(given)
  /\ \A i \in 1 .. Len(commands) : commands[i] = given[taken + i]

\* The sender has taken nothing after a Quit, and the wire holds the last it took.
LastTaken ==
  /\ \A n \in 1 .. taken : given[n] = Quit => n = taken /\ sender # "running"
  /\ wire # <<>> => taken >= 1 /\ wire = Sent(given[taken])

\* While the server plays, all it heard is kept but what it may refuse.
AllHeard(kept) ==
  server = "playing" =>
    \A n \in 1 .. heard : given[n][1] \in Blockable \/ \E j \in DOMAIN kept : kept[j] = n

KeptInOrder == \E kept \in [DOMAIN received -> 1 .. heard] : Answers(kept) /\ AllHeard(kept)

OrderInv == QueueOfGiven /\ LastTaken /\ Listed(received) /\ KeptInOrder

orderVars == <<given, commands, sender, wire, server, received>>

LEMMA ListLengths ==
  ASSUME NEW s, Listed(s) PROVE Len(s) \in Nat /\ DOMAIN s = 1 .. Len(s)
BY LenProperties DEF Listed

LEMMA Counts == ASSUME OrderInv PROVE
  /\ Len(given) \in Nat /\ Len(commands) \in Nat /\ Len(received) \in Nat
  /\ DOMAIN given = 1 .. Len(given) /\ DOMAIN received = 1 .. Len(received)
  /\ taken \in 0 .. Len(given) /\ heard \in 0 .. taken
<1>1. Listed(given) /\ Listed(commands) /\ Listed(received)
  BY DEF OrderInv, QueueOfGiven, OfCommands
<1>2. Len(given) \in Nat /\ DOMAIN given = 1 .. Len(given)
  BY <1>1, ListLengths
<1>3. Len(commands) \in Nat
  BY <1>1, ListLengths
<1>4. Len(received) \in Nat /\ DOMAIN received = 1 .. Len(received)
  BY <1>1, ListLengths
<1>5. Len(commands) <= Len(given) /\ (wire # <<>> => taken >= 1)
  BY DEF OrderInv, QueueOfGiven, LastTaken
<1>6. taken \in 0 .. Len(given)
  BY <1>2, <1>3, <1>5 DEF taken
<1>7. heard \in 0 .. taken
  <2> HIDE DEF taken
  <2>1. taken \in Int /\ 0 <= taken
    BY <1>2, <1>6
  <2>2. CASE wire = <<>>
    BY <2>1, <2>2 DEF heard
  <2>3. CASE wire # <<>>
    BY <1>5, <2>1, <2>3 DEF heard
  <2> QED  BY <2>2, <2>3
<1> QED  BY <1>2, <1>3, <1>4, <1>6, <1>7

LEMMA OrderInit == Init => OrderInv
<1> SUFFICES ASSUME Init PROVE OrderInv
  OBVIOUS
<1>1. given = <<>> /\ commands = <<>> /\ received = <<>> /\ wire = <<>>
  BY DEF Init
<1>2. OfCommands(<<>>) /\ Listed(<<>>) /\ Len(<<>>) = 0 /\ DOMAIN <<>> = {}
  BY ShortLists DEF OfCommands
<1>3. taken = 0 /\ heard = 0
  BY <1>1, <1>2 DEF taken, heard
<1>4. QueueOfGiven /\ LastTaken /\ Listed(received)
  BY <1>1, <1>2, <1>3 DEF QueueOfGiven, LastTaken
<1>5. <<>> \in [DOMAIN received -> 1 .. heard] /\ Answers(<<>>) /\ AllHeard(<<>>)
  BY <1>1, <1>2, <1>3 DEF Answers, AllHeard
<1> QED  BY <1>4, <1>5 DEF OrderInv, KeptInOrder

\* Who plays only adds to the queue.
LEMMA GiveKeeps ==
  ASSUME OrderInv, NEW cs, OfCommands(cs), Give(cs), UNCHANGED <<sender, wire, server, received>>
  PROVE  OrderInv'
<1>1. /\ given' = given \o cs /\ commands' = commands \o cs
      /\ Listed(given) /\ Listed(commands) /\ Listed(cs)
  BY DEF Give, OrderInv, QueueOfGiven, OfCommands
<1>2. /\ Listed(given') /\ Len(given') = Len(given) + Len(cs)
      /\ \A i \in 1 .. Len(given) : given'[i] = given[i]
      /\ \A i \in 1 .. Len(cs) : given'[Len(given) + i] = cs[i]
  BY <1>1, ListedConcat
<1>3. /\ Listed(commands') /\ Len(commands') = Len(commands) + Len(cs)
      /\ \A i \in 1 .. Len(commands) : commands'[i] = commands[i]
      /\ \A i \in 1 .. Len(cs) : commands'[Len(commands) + i] = cs[i]
  BY <1>1, ListedConcat
<1>4. /\ Len(cs) \in Nat /\ DOMAIN cs = 1 .. Len(cs)
      /\ Len(given') \in Nat /\ DOMAIN given' = 1 .. Len(given')
  BY <1>1, <1>2, ListLengths
<1>5. taken' = taken /\ heard' = heard
  BY <1>2, <1>3, <1>4, Counts DEF taken, heard
<1>6. \A n \in 1 .. taken : given'[n] = given[n]
  BY <1>2, Counts
<1>7. QueueOfGiven'
  <2>1. ASSUME NEW i \in 1 .. Len(given') PROVE LaidOut(given'[i])
    <3>1. CASE i <= Len(given)
      BY <1>2, <3>1, Counts DEF OrderInv, QueueOfGiven, OfCommands
    <3>2. CASE ~(i <= Len(given))
      <4>1. i - Len(given) \in 1 .. Len(cs) /\ given'[Len(given) + (i - Len(given))] = cs[i - Len(given)]
        BY <1>2, <1>4, <3>2, Counts
      <4> QED  BY <1>4, <4>1, Counts DEF OfCommands
    <3> QED  BY <3>1, <3>2
  <2>2. ASSUME NEW i \in 1 .. Len(commands') PROVE commands'[i] = given'[taken + i]
    <3>1. CASE i <= Len(commands)
      <4>1. i \in 1 .. Len(commands) /\ taken + i \in 1 .. Len(given)
        BY <1>3, <3>1, Counts DEF taken
      <4>2. commands'[i] = commands[i]
        BY <1>3, <4>1
      <4>3. given'[taken + i] = given[taken + i]
        BY <1>2, <4>1
      <4>4. commands[i] = given[taken + i]
        BY <4>1 DEF OrderInv, QueueOfGiven
      <4> QED  BY <4>2, <4>3, <4>4
    <3>2. CASE ~(i <= Len(commands))
      <4> DEFINE j == i - Len(commands)
      <4>1. j \in 1 .. Len(cs) /\ i = Len(commands) + j /\ taken + i = Len(given) + j
        BY <1>3, <1>4, <3>2, Counts DEF taken
      <4> HIDE DEF j
      <4>2. commands'[i] = cs[j]
        BY <1>3, <4>1
      <4>3. given'[taken + i] = cs[j]
        BY <1>2, <4>1
      <4> QED  BY <4>2, <4>3
    <3> QED  BY <3>1, <3>2
  <2>3. Len(commands') <= Len(given')
    BY <1>2, <1>3, <1>4, Counts DEF OrderInv, QueueOfGiven
  <2> QED  BY <1>2, <1>3, <1>4, <1>5, <2>1, <2>2, <2>3 DEF QueueOfGiven, OfCommands
<1>8. LastTaken'
  <2>1. wire # <<>> => taken \in 1 .. taken /\ wire = Sent(given[taken])
    BY Counts DEF OrderInv, LastTaken
  <2> QED  BY <1>5, <1>6, <2>1 DEF OrderInv, LastTaken
<1>9. PICK kept \in [1 .. Len(received) -> 1 .. heard] : Answers(kept) /\ AllHeard(kept)
  BY Counts DEF OrderInv, KeptInOrder
<1>10. \A i \in 1 .. Len(received) : kept[i] \in 1 .. heard /\ kept[i] \in 1 .. taken
  BY <1>9, Counts
<1>11. Answers(kept)' /\ AllHeard(kept)'
  <2>1. \A n \in 1 .. heard : given'[n] = given[n]
    BY <1>6, Counts
  <2>2. DOMAIN kept = 1 .. Len(received)
    BY <1>9
  <2>3. \A i \in DOMAIN kept : given'[kept[i]] = given[kept[i]]
    BY <1>6, <1>10, <2>2
  <2>4. \A i \in DOMAIN kept : \A n \in 1 .. (kept[i] - 1) : given'[n] = given[n]
    <3> SUFFICES ASSUME NEW i \in DOMAIN kept, NEW n \in 1 .. (kept[i] - 1)
                 PROVE  given'[n] = given[n]
      OBVIOUS
    <3>1. n \in 1 .. taken
      BY <1>10, <2>2, Counts
    <3> QED  BY <1>6, <3>1
  <2>5. Answers(kept)'
    BY <1>9, <2>3, <2>4 DEF Answers
  <2>6. AllHeard(kept)'
    BY <1>5, <1>9, <2>1 DEF AllHeard
  <2> QED  BY <2>5, <2>6
<1>12. KeptInOrder'
  <2>1. kept \in [DOMAIN received' -> 1 .. heard']
    BY <1>5, <1>9, Counts
  <2> QED  BY <1>11, <2>1 DEF KeptInOrder
<1> QED  BY <1>7, <1>8, <1>12 DEF OrderInv

LEMMA ListedTail ==
  ASSUME NEW s, Listed(s), s # <<>>
  PROVE  /\ Listed(Tail(s)) /\ Len(s) >= 1 /\ Len(Tail(s)) = Len(s) - 1 /\ Head(s) = s[1]
         /\ \A i \in 1 .. (Len(s) - 1) : Tail(s)[i] = s[i + 1]
<1> DEFINE S == {s[i] : i \in DOMAIN s}
<1>1. s \in Seq(S)
  BY DEF Listed
<1> HIDE DEF S
<1>2. /\ Tail(s) \in Seq(S) /\ Len(s) >= 1 /\ Len(Tail(s)) = Len(s) - 1 /\ Head(s) = s[1]
      /\ \A i \in 1 .. (Len(s) - 1) : Tail(s)[i] = s[i + 1]
  BY <1>1
<1>3. Listed(Tail(s))
  BY <1>2, SequencesAreListed
<1> QED  BY <1>2, <1>3

\* A step of the others.
LEMMA OthersKeep == ASSUME OrderInv, UNCHANGED orderVars PROVE OrderInv'
BY DEF OrderInv, orderVars, QueueOfGiven, LastTaken, KeptInOrder, Answers, AllHeard, taken, heard

\* What the receiver never reads counts as heard once the connection is closed.
LEMMA CloseKeeps ==
  ASSUME OrderInv, server' = "closed", wire' \in {<<>>, wire},
         UNCHANGED <<given, commands, sender, received>>
  PROVE  OrderInv'
<1>1. taken' = taken
  BY DEF taken
<1>2. heard' \in Int /\ heard <= heard' /\ heard \in Int
  BY <1>1, Counts DEF heard
<1>3. PICK kept \in [DOMAIN received -> 1 .. heard] : Answers(kept)
  BY DEF OrderInv, KeptInOrder
<1>4. kept \in [DOMAIN received' -> 1 .. heard']
  BY <1>2, <1>3
<1>5. Answers(kept)' /\ AllHeard(kept)'
  BY <1>3 DEF Answers, AllHeard
<1>6. KeptInOrder'
  BY <1>4, <1>5 DEF KeptInOrder
<1>7. QueueOfGiven' /\ LastTaken'
  BY <1>1 DEF OrderInv, QueueOfGiven, LastTaken
<1> QED  BY <1>6, <1>7 DEF OrderInv

LEMMA SendKeeps == ASSUME OrderInv, SendCommand PROVE OrderInv'
<1>1. /\ commands # <<>> /\ wire = <<>> /\ sender = "running"
      /\ commands' = Tail(commands)
      /\ wire' = IF server = "playing" THEN Sent(Head(commands)) ELSE <<>>
      /\ sender' = IF Head(commands) = Quit THEN "done" ELSE "running"
      /\ UNCHANGED <<given, server, received>>
  BY DEF SendCommand, endVars
<1>2. Listed(commands) /\ Listed(given)
  BY DEF OrderInv, QueueOfGiven, OfCommands
<1>3. /\ Listed(commands') /\ Len(commands) >= 1 /\ Len(commands') = Len(commands) - 1
      /\ Head(commands) = commands[1]
      /\ \A i \in 1 .. (Len(commands) - 1) : commands'[i] = commands[i + 1]
  BY <1>1, <1>2, ListedTail
<1>4. taken' = taken + 1 /\ taken + 1 \in 1 .. Len(given)
  BY <1>1, <1>3, Counts DEF taken
<1>5. Head(commands) = given[taken + 1] /\ LaidOut(given[taken + 1])
  <2>1. commands[1] = given[taken + 1]
    BY <1>3, Counts DEF OrderInv, QueueOfGiven
  <2> QED  BY <1>3, <1>4, <2>1, Counts DEF OrderInv, QueueOfGiven, OfCommands
<1>6. Sent(given[taken + 1]) # <<>>
  <2> DEFINE c == given[taken + 1]
  <2>1. LaidOut(c)
    BY <1>5
  <2> HIDE DEF c
  <2>2. Sent(c) # <<>>
    BY <2>1, SentWhole
  <2> QED  BY <2>2 DEF c
<1>7. heard = taken /\ heard' = (IF server = "playing" THEN taken ELSE taken + 1)
  BY <1>1, <1>4, <1>5, <1>6, Counts DEF heard
<1>8. QueueOfGiven'
  <2>1. ASSUME NEW i \in 1 .. Len(commands') PROVE commands'[i] = given'[taken' + i]
    <3>1. i \in 1 .. (Len(commands) - 1) /\ i + 1 \in 1 .. Len(commands)
      BY <1>3, Counts
    <3>2. commands'[i] = commands[i + 1]
      BY <1>3, <3>1
    <3>3. commands[i + 1] = given[taken + (i + 1)]
      BY <3>1 DEF OrderInv, QueueOfGiven
    <3>4. taken + (i + 1) = taken' + i
      BY <1>4, <3>1, Counts
    <3> QED  BY <1>1, <3>2, <3>3, <3>4
  <2>2. Len(commands') <= Len(given')
    BY <1>1, <1>3, Counts DEF OrderInv, QueueOfGiven
  <2> QED  BY <1>1, <1>3, <2>1, <2>2 DEF OrderInv, QueueOfGiven
<1>9. LastTaken'
  <2>1. ASSUME NEW n \in 1 .. (taken + 1), given[n] = Quit
        PROVE  n = taken + 1 /\ sender' # "running"
    <3>1. CASE n \in 1 .. taken
      BY <1>1, <2>1, <3>1 DEF OrderInv, LastTaken
    <3>2. CASE n = taken + 1
      BY <1>1, <1>5, <2>1, <3>2
    <3> QED  BY <3>1, <3>2, Counts
  <2>2. wire' # <<>> => taken + 1 >= 1 /\ wire' = Sent(given[taken + 1])
    BY <1>1, <1>5, Counts
  <2> QED  BY <1>1, <1>4, <2>1, <2>2 DEF LastTaken
<1>10. PICK kept \in [DOMAIN received -> 1 .. heard] : Answers(kept) /\ AllHeard(kept)
  BY DEF OrderInv, KeptInOrder
<1>11. kept \in [DOMAIN received' -> 1 .. heard']
  BY <1>1, <1>7, <1>10, Counts
<1>12. Answers(kept)'
  BY <1>1, <1>10 DEF Answers
<1>13. AllHeard(kept)'
  BY <1>1, <1>7, <1>10 DEF AllHeard
<1>14. KeptInOrder'
  BY <1>11, <1>12, <1>13 DEF KeptInOrder
<1> QED  BY <1>1, <1>8, <1>9, <1>14 DEF OrderInv

\* The receiver reads what the sender took last, and nothing before it was a Quit.
LEMMA ReceiveKeeps == ASSUME OrderInv, ReceiveCommand PROVE OrderInv'
<1> DEFINE c == given[taken]
<1>1. /\ server = "playing" /\ wire # <<>>
      /\ wire' = SubSeq(wire, 2 + Layout(wire[1]), Len(wire))
      /\ UNCHANGED <<given, commands, sender>>
  BY DEF ReceiveCommand, NoInput, commandVars
<1>2. /\ taken \in 1 .. Len(given) /\ wire = Sent(c) /\ LaidOut(c)
      /\ heard \in Nat /\ taken = heard + 1 /\ taken' = taken
  <2>1. taken \in 1 .. Len(given) /\ wire = Sent(c)
    BY <1>1, Counts DEF OrderInv, LastTaken
  <2>2. LaidOut(c)
    BY <2>1, Counts DEF OrderInv, QueueOfGiven, OfCommands
  <2>3. heard \in Nat /\ taken = heard + 1 /\ taken' = taken
    BY <1>1, <2>1, Counts DEF heard, taken
  <2> QED  BY <2>1, <2>2, <2>3
<1> HIDE DEF c
<1>3. wire[1] = c[1] /\ Read = wire /\ wire' = <<>>
  BY <1>1, <1>2, SentWhole DEF Read
<1>4. heard' = taken
  BY <1>2, <1>3 DEF heard
<1>5. QueueOfGiven' /\ LastTaken'
  BY <1>1, <1>2, <1>3 DEF OrderInv, QueueOfGiven, LastTaken
<1>6. PICK kept \in [DOMAIN received -> 1 .. heard] : Answers(kept) /\ AllHeard(kept)
  BY DEF OrderInv, KeptInOrder
<1>7. \A n \in 1 .. heard :
        /\ given[n] # Quit
        /\ given[n][1] \in Blockable \/ \E j \in DOMAIN kept : kept[j] = n
  <2> SUFFICES ASSUME NEW n \in 1 .. heard
               PROVE  /\ given[n] # Quit
                      /\ given[n][1] \in Blockable \/ \E j \in DOMAIN kept : kept[j] = n
    OBVIOUS
  <2>1. n \in 1 .. taken /\ n # taken
    BY <1>2
  <2> QED  BY <1>1, <1>6, <2>1 DEF OrderInv, LastTaken, AllHeard
<1>8. CASE received' = Append(received, Read)
  <2> DEFINE m == Len(received)
             longer == [i \in 1 .. (m + 1) |-> IF i <= m THEN kept[i] ELSE taken]
  <2>1. m \in Nat /\ DOMAIN received = 1 .. m /\ Listed(received)
    BY Counts DEF OrderInv
  <2>2. /\ Listed(received') /\ Len(received') = m + 1
        /\ \A i \in 1 .. m : received'[i] = received[i]
        /\ received'[m + 1] = Sent(c)
    <3> DEFINE S == {received[i] : i \in DOMAIN received} \cup {Sent(c)}
    <3>1. received \in Seq(S) /\ Sent(c) \in S /\ received' = Append(received, Sent(c))
      BY <1>2, <1>3, <1>8, <2>1 DEF Listed
    <3> HIDE DEF S
    <3>2. /\ received' \in Seq(S) /\ Len(received') = m + 1
          /\ \A i \in 1 .. m : received'[i] = received[i]
          /\ received'[m + 1] = Sent(c)
      BY <2>1, <3>1
    <3>3. Listed(received')
      BY <3>2, SequencesAreListed
    <3> QED  BY <3>2, <3>3
  <2>3. DOMAIN received' = 1 .. (m + 1)
    BY <2>2, ListLengths
  <2>4. PICK more \in [1 .. (m + 1) -> 1 .. taken] :
          /\ \A i \in 1 .. m : kept[i] \in 1 .. heard /\ more[i] = kept[i]
          /\ more[m + 1] = taken /\ DOMAIN more = 1 .. (m + 1) /\ DOMAIN kept = 1 .. m
    <3>1. /\ \A i \in 1 .. m : kept[i] \in 1 .. heard /\ longer[i] = kept[i]
          /\ longer[m + 1] = taken /\ DOMAIN longer = 1 .. (m + 1) /\ DOMAIN kept = 1 .. m
      BY <1>6, <2>1
    <3>2. longer \in [1 .. (m + 1) -> 1 .. taken]
      BY <1>2, <2>1, <3>1
    <3> QED  BY <3>1, <3>2
  <2>5. more \in [DOMAIN received' -> 1 .. heard']
    BY <1>4, <2>3, <2>4
  <2> HIDE DEF m, longer
  <2>6. \A n : (\E j \in DOMAIN kept : kept[j] = n) => \E j \in DOMAIN more : more[j] = n
    BY <2>1, <2>4
  <2>7. ASSUME NEW i \in 1 .. (m + 1) PROVE received'[i] = Sent(given[more[i]])
    <3>1. CASE i = m + 1
      BY <2>2, <2>4, <3>1 DEF c
    <3>2. CASE i \in 1 .. m
      BY <1>6, <2>2, <2>4, <3>2 DEF Answers
    <3> QED  BY <2>1, <3>1, <3>2
  <2>8. ASSUME NEW i \in 1 .. (m + 1), NEW j \in 1 .. (m + 1), i < j PROVE more[i] < more[j]
    <3>1. i \in 1 .. m
      BY <2>1, <2>8
    <3>2. CASE j = m + 1
      BY <1>2, <2>4, <3>1, <3>2
    <3>3. CASE j \in 1 .. m
      BY <1>6, <2>4, <2>8, <3>1, <3>3 DEF Answers
    <3> QED  BY <2>1, <3>2, <3>3
  <2>9. ASSUME NEW i \in 1 .. (m + 1), NEW n \in 1 .. (more[i] - 1)
        PROVE  /\ given[n] # Quit
               /\ given[n][1] \in Blockable \/ \E j \in DOMAIN more : more[j] = n
    <3>1. n \in 1 .. heard
      <4>1. CASE i = m + 1
        BY <1>2, <2>4, <4>1
      <4>2. CASE i \in 1 .. m
        BY <1>2, <2>4, <4>2
      <4> QED  BY <2>1, <4>1, <4>2
    <3> QED  BY <1>7, <2>6, <3>1
  <2>10. Answers(more)'
    BY <1>1, <2>4, <2>7, <2>8, <2>9 DEF Answers
  <2>11. AllHeard(more)'
    <3>1. ASSUME NEW n \in 1 .. taken
          PROVE  given[n][1] \in Blockable \/ \E j \in DOMAIN more : more[j] = n
      <4>1. CASE n = taken
        BY <2>1, <2>4, <4>1
      <4>2. CASE n \in 1 .. heard
        BY <1>7, <2>6, <4>2
      <4> QED  BY <1>2, <4>1, <4>2
    <3> QED  BY <1>1, <1>4, <3>1 DEF AllHeard
  <2> QED  BY <1>5, <2>2, <2>5, <2>10, <2>11 DEF OrderInv, KeptInOrder
<1>9. CASE wire[1] \in Blockable /\ UNCHANGED received
  <2>1. kept \in [DOMAIN received' -> 1 .. heard']
    BY <1>2, <1>4, <1>6, <1>9
  <2>2. Answers(kept)'
    BY <1>1, <1>6, <1>9 DEF Answers
  <2>3. AllHeard(kept)'
    <3>1. ASSUME NEW n \in 1 .. taken
          PROVE  given[n][1] \in Blockable \/ \E j \in DOMAIN kept : kept[j] = n
      <4>1. CASE n = taken
        BY <1>3, <1>9, <4>1 DEF c
      <4>2. CASE n \in 1 .. heard
        BY <1>7, <4>2
      <4> QED  BY <1>2, <4>1, <4>2
    <3> QED  BY <1>1, <1>4, <3>1 DEF AllHeard
  <2> QED  BY <1>5, <1>9, <2>1, <2>2, <2>3 DEF OrderInv, KeptInOrder
<1> QED  BY <1>8, <1>9 DEF ReceiveCommand

\* A command without arguments, and one with one.
LEMMA CommandOfNone ==
  ASSUME NEW k \in Kinds \ (ItemKinds \cup GoldKinds \cup {"move", "room", "use", "message"})
  PROVE  LaidOut(Command(k, <<>>))
BY ShortLists, Layouts, CommandsAreLaidOut

LEMMA CommandOfOne ==
  ASSUME NEW k \in ItemKinds \cup GoldKinds \cup {"move", "room"}, NEW a
  PROVE  LaidOut(Command(k, <<a>>))
<1>1. k \in Kinds /\ Layout(k) = 1
  BY Layouts DEF Kinds, ItemKinds, GoldKinds
<1>2. Listed(<<a>>) /\ Len(<<a>>) = 1
  BY ShortLists
<1> QED  BY <1>1, <1>2, CommandsAreLaidOut

LEMMA CommandOfThree == ASSUME NEW a, NEW b, NEW c PROVE LaidOut(Command("use", <<a, b, c>>))
<1>1. "use" \in Kinds /\ Layout("use") = 3
  BY Layouts DEF Kinds
<1>2. Listed(<<a, b, c>>) /\ Len(<<a, b, c>>) = 3
  BY ShortLists
<1> QED  BY <1>1, <1>2, CommandsAreLaidOut

LEMMA CommandOfTwo == ASSUME NEW a, NEW b PROVE LaidOut(Command("message", <<a, b>>))
<1>1. "message" \in Kinds /\ Layout("message") = 2
  BY Layouts DEF Kinds
<1>2. Listed(<<a, b>>) /\ Len(<<a, b>>) = 2
  BY ShortLists
<1> QED  BY <1>1, <1>2, CommandsAreLaidOut

LEMMA QuitAndList == LaidOut(Quit) /\ LaidOut(List)
<1>1. /\ "quit" \in Kinds \ (ItemKinds \cup GoldKinds \cup {"move", "room", "use", "message"})
      /\ "list" \in Kinds \ (ItemKinds \cup GoldKinds \cup {"move", "room", "use", "message"})
  BY DEF Kinds, ItemKinds, GoldKinds
<1> QED  BY <1>1, CommandOfNone DEF Quit, List

LEMMA PressedAreLaidOut == \A c \in Pressed : LaidOut(c)
<1>1. \A k \in {"attack", "take", "meditate", "level up", "revive", "heal"} :
        LaidOut(Command(k, <<>>))
  <2>1. {"attack", "take", "meditate", "level up", "revive", "heal"}
          \subseteq Kinds \ (ItemKinds \cup GoldKinds \cup {"move", "room", "use", "message"})
    BY DEF Kinds, ItemKinds, GoldKinds
  <2> QED  BY <2>1, CommandOfNone
<1>2. \A a : LaidOut(Command("move", <<a>>)) /\ LaidOut(Command("room", <<a>>))
  BY CommandOfOne
<1> QED  BY <1>1, <1>2, ClientInputAssumption DEF Keys

LEMMA OneCommand == ASSUME NEW a, LaidOut(a) PROVE OfCommands(<<>>) /\ OfCommands(<<a>>)
BY FewCommands

LEMMA TwoCommands == ASSUME NEW a, LaidOut(a) PROVE OfCommands(<<a, List>>)
BY FewCommands, QuitAndList

LEMMA LinesAreCommands == \A cs \in Lines : OfCommands(cs)
<1>1. OfCommands(<<>>)
  BY OneCommand, QuitAndList
<1>2. OfCommands(<<Command("message", <<"name", "text">>)>>)
  BY OneCommand, CommandOfTwo
<1>3. \A k \in {"meditate", "heal", "revive", "list", "take"} : OfCommands(<<Command(k, <<>>)>>)
  <2>1. {"meditate", "heal", "revive", "list", "take"}
          \subseteq Kinds \ (ItemKinds \cup GoldKinds \cup {"move", "room", "use", "message"})
    BY DEF Kinds, ItemKinds, GoldKinds
  <2> QED  BY <2>1, CommandOfNone, OneCommand
<1>4. \A text : \A cs \in ItemOrders(text) : OfCommands(cs)
  <2> SUFFICES ASSUME NEW text, NEW cs \in ItemOrders(text) PROVE OfCommands(cs)
    OBVIOUS
  <2>1. \A k \in ItemKinds : \A a : OfCommands(<<Command(k, <<a>>)>>)
                                   /\ OfCommands(<<Command(k, <<a>>), List>>)
    BY CommandOfOne, OneCommand, TwoCommands
  <2>2. PICK k \in ItemKinds : \/ cs = <<Command(k, <<ItemNamed(text)>>), List>>
                               \/ cs = <<Command(k, <<ItemNamed(text)>>)>>
    BY DEF ItemOrders, ItemKinds
  <2> QED  BY <2>1, <2>2
<1> QED  BY <1>1, <1>2, <1>3, <1>4, ClientInputAssumption DEF Typed

\* What a step of the event handler does to the queue of the sender.
Gives(cs) == OfCommands(cs) /\ Give(cs)
OthersOf == <<sender, wire, server, received>>

LEMMA Selects ==
  ASSUME SelectItem \/ TradeItem \/ ClickShop
  PROVE  UNCHANGED OthersOf /\ (UNCHANGED commandVars \/ \E cs : Gives(cs))
<1>1. UNCHANGED OthersOf
  BY DEF SelectItem, TradeItem, ClickShop, Input, sendVars, endVars, OthersOf
<1>2. CASE SelectItem
  <2> DEFINE a == ItemOf(inventory[clicked].item)
             c == Command("use", <<a, clicked, inventory[clicked].equipped>>)
  <2>1. OfCommands(<<c>>)
    BY CommandOfThree, OneCommand
  <2>2. GiveNothing \/ Give(<<c>>)
    BY <1>2 DEF SelectItem, SelectNothing
  <2> HIDE DEF c
  <2> QED  BY <1>1, <2>1, <2>2 DEF Gives, GiveNothing
<1>3. CASE TradeItem
  <2> DEFINE a == ItemOf(inventory[clicked].item)
  <2>1. GiveNothing \/ Give(<<Command("bank item", <<a>>), List>>) \/ Give(<<Command("sell", <<a>>)>>)
    BY <1>3 DEF TradeItem
  <2> HIDE DEF a
  <2>2. OfCommands(<<Command("bank item", <<a>>), List>>) /\ OfCommands(<<Command("sell", <<a>>)>>)
    BY CommandOfOne, OneCommand, TwoCommands DEF ItemKinds
  <2> QED  BY <1>1, <2>1, <2>2 DEF Gives, GiveNothing
<1>4. CASE ClickShop
  <2> DEFINE a == ItemOf(shop.item)
  <2>1. GiveNothing \/ Give(<<Command("unbank item", <<a>>), List>>) \/ Give(<<Command("buy", <<a>>)>>)
    BY <1>4 DEF ClickShop
  <2> HIDE DEF a
  <2>2. OfCommands(<<Command("unbank item", <<a>>), List>>) /\ OfCommands(<<Command("buy", <<a>>)>>)
    BY CommandOfOne, OneCommand, TwoCommands DEF ItemKinds
  <2> QED  BY <1>1, <2>1, <2>2 DEF Gives, GiveNothing
<1> QED  BY <1>2, <1>3, <1>4

LEMMA Throws ==
  ASSUME PressDrop \/ EnterDrop
  PROVE  UNCHANGED OthersOf /\ (UNCHANGED commandVars \/ \E cs : Gives(cs))
<1>1. UNCHANGED OthersOf
  BY DEF PressDrop, EnterDrop, Input, Enter, sendVars, endVars, OthersOf
<1>2. GiveNothing \/ Give(Dropped)
  BY DEF PressDrop, EnterDrop, Throw
<1>3. OfCommands(Dropped)
  <2> DEFINE a == ItemOf(Selected.item)
  <2>1. Dropped = <<>> \/ Dropped = <<Command("drop", <<a>>)>>
    BY DEF Dropped
  <2> HIDE DEF a
  <2>2. OfCommands(<<>>) /\ OfCommands(<<Command("drop", <<a>>)>>)
    BY CommandOfOne, OneCommand DEF ItemKinds
  <2> QED  BY <2>1, <2>2
<1> QED  BY <1>1, <1>2, <1>3 DEF Gives, GiveNothing

LEMMA Enters ==
  ASSUME \/ \E c \in Pressed : PressKey(c)
         \/ \E cs \in Lines : EnterCommand(cs)
         \/ \E kind \in GoldKinds, n \in Amounts : EnterGold(kind, n)
         \/ CloseWindow
  PROVE  UNCHANGED OthersOf /\ (UNCHANGED commandVars \/ \E cs : Gives(cs))
<1>1. UNCHANGED OthersOf
  BY DEF PressKey, EnterCommand, EnterGold, CloseWindow, Input, Enter, sendVars, endVars, OthersOf
<1>2. CASE \E c \in Pressed : PressKey(c)
  <2>1. PICK c \in Pressed : Give(<<c>>)
    BY <1>2 DEF PressKey
  <2>2. OfCommands(<<c>>)
    BY PressedAreLaidOut, OneCommand
  <2> QED  BY <1>1, <2>1, <2>2 DEF Gives
<1>3. CASE \E cs \in Lines : EnterCommand(cs)
  <2>1. PICK cs \in Lines : Give(cs)
    BY <1>3 DEF EnterCommand
  <2> QED  BY <1>1, <2>1, LinesAreCommands DEF Gives
<1>4. CASE \E kind \in GoldKinds, n \in Amounts : EnterGold(kind, n)
  <2>1. PICK kind \in GoldKinds, n \in Amounts : EnterGold(kind, n)
    BY <1>4
  <2>2. GiveNothing \/ Give(<<Command(kind, <<n>>), List>>)
    BY <2>1 DEF EnterGold
  <2>3. OfCommands(<<Command(kind, <<n>>), List>>)
    BY CommandOfOne, TwoCommands
  <2> QED  BY <1>1, <2>2, <2>3 DEF Gives, GiveNothing
<1>5. CASE CloseWindow
  <2>1. Give(<<Quit>>)
    BY <1>5 DEF CloseWindow
  <2>2. OfCommands(<<Quit>>)
    BY QuitAndList, OneCommand
  <2> QED  BY <1>1, <2>1, <2>2 DEF Gives
<1> QED  BY <1>2, <1>3, <1>4, <1>5

LEMMA OrderStep == ASSUME OrderInv, [Next]_vars PROVE OrderInv'
<1> DEFINE Giving == UNCHANGED OthersOf /\ (UNCHANGED commandVars \/ \E cs : Gives(cs))
<1>1. CASE Giving
  <2>1. CASE UNCHANGED commandVars
    <3>1. UNCHANGED orderVars
      BY <1>1, <2>1 DEF OthersOf, commandVars, orderVars
    <3> QED  BY <3>1, OthersKeep
  <2>2. CASE \E cs : Gives(cs)
    <3>1. PICK cs : Gives(cs)
      BY <2>2
    <3>2. UNCHANGED OthersOf
      BY <1>1
    <3> QED  BY <3>1, <3>2, GiveKeeps DEF Gives, OthersOf
  <2> QED  BY <1>1, <2>1, <2>2
<1>2. CASE Lose
  <2>1. server' = "closed" /\ wire' = <<>> /\ UNCHANGED <<given, commands, sender, received>>
    BY <1>2 DEF Lose, NoInput, commandVars
  <2> QED  BY <2>1, CloseKeeps
<1>3. CASE UNCHANGED orderVars
  BY <1>3, OthersKeep
<1>4. PlayerActs \/ HandlerStep => Giving \/ UNCHANGED orderVars
  <2>1. PlayerActs => Giving \/ UNCHANGED orderVars
    <3>1. CASE PressVolumeKey \/ ClickChat \/ ClickOutside \/ TypeCharacter \/ DeleteCharacter
      BY <3>1 DEF PressVolumeKey, ClickChat, ClickOutside, TypeCharacter, DeleteCharacter, Input,
                  GiveNothing, commandVars, sendVars, endVars, orderVars
    <3>2. CASE \E s \in InventorySlots : ClickInventory(s)
      BY <3>2 DEF ClickInventory, Input, GiveNothing, commandVars, sendVars, endVars, orderVars
    <3> QED  BY <3>1, <3>2, Selects, Throws, Enters DEF PlayerActs
  <2>2. HandlerStep => Giving \/ UNCHANGED orderVars
    <3>1. CASE LeaveChat \/ EndEvents
      BY <3>1 DEF LeaveChat, EndEvents, GiveNothing, commandVars, sendVars, endVars, orderVars
    <3> QED  BY <3>1, Selects DEF HandlerStep
  <2> QED  BY <2>1, <2>2
<1>5. Frame \/ UpdaterEnds \/ UNCHANGED vars => UNCHANGED orderVars
  <2>1. Frame => UNCHANGED orderVars
    BY DEF Frame, NoInput, commandVars, sendVars, endVars, orderVars
  <2>2. UpdaterEnds => UNCHANGED orderVars
    BY DEF UpdaterEnds, NoInput, commandVars, sendVars, orderVars
  <2>3. UNCHANGED vars => UNCHANGED orderVars
    BY DEF vars, commandVars, sendVars, endVars, orderVars
  <2> QED  BY <2>1, <2>2, <2>3
<1> HIDE DEF Giving
<1> QED  BY <1>1, <1>2, <1>3, <1>4, <1>5, SendKeeps, ReceiveKeeps DEF Next

LEMMA KeptAnswers == OrderInv => CommandsArriveInOrder
<1> SUFFICES ASSUME OrderInv PROVE CommandsArriveInOrder
  OBVIOUS
<1>1. PICK kept \in [DOMAIN received -> 1 .. heard] : Answers(kept)
  BY DEF OrderInv, KeptInOrder
<1>2. kept \in [DOMAIN received -> DOMAIN given]
  <2>1. \A n \in 1 .. heard : n \in DOMAIN given
    BY Counts
  <2> QED  BY <1>1, <2>1
<1> QED  BY <1>1, <1>2 DEF CommandsArriveInOrder

\* A lobby and a handshake leave the commands alone, and an answer that does not come
\* closes the connection.
LEMMA ProgramOrderStep == ASSUME OrderInv, [ProgramNext]_programVars PROVE OrderInv'
<1>1. CASE [Next]_vars
  BY <1>1, OrderStep
<1>2. CASE /\ UNCHANGED <<handlerVars, queueVars, uiVars, is_running, commandVars, renderVars,
                          sendVars, updater, received, hurried>>
           /\ server' = "closed"
  <2>1. wire' = wire /\ UNCHANGED <<given, commands, sender, received>>
    BY <1>2 DEF commandVars, sendVars
  <2> QED  BY <1>2, <2>1, CloseKeeps
<1> QED  BY <1>1, <1>2, ProgramStep

\* Each command given is still in the queue, or on the wire, or kept for the room, or
\* refused or lost; the queue and what is kept are in the order of the player, nothing is
\* sent after a Quit, and until the connection is closed nothing else is lost.
THEOREM OrderInvariant == ProgramSpec => []OrderInv
<1>1. ProgramInit => OrderInv
  BY OrderInit DEF ProgramInit
<1>2. OrderInv /\ [ProgramNext]_programVars => OrderInv'
  BY ProgramOrderStep
<1> QED  BY <1>1, <1>2, PTL DEF ProgramSpec

\* What the room is given is what the player did, in its order, nothing after a Quit and
\* nothing missing before it but what may be refused (client_command_receiver.cpp:36).
THEOREM CommandsInOrder == ProgramSpec => []CommandsArriveInOrder
BY KeptAnswers, OrderInvariant, PTL

-----------------------------------------------------------------------------
(* The map it shows *)

\* A status as the room makes it: a drop is never hit.
Reported ==
  {s \in UNION {Statuses(E) : E \in SUBSET Entities} :
     \A d \in Drops \cap DOMAIN s : ~s[d].hit}
ReportedNotes == {Status(s) : s \in Reported} \cup {MapChange(r) : r \in Rooms}

\* What is on its way to the client.
OnTheWay ==
  /\ place \in [Heroes -> Rooms] /\ telling.room \in Rooms
  /\ DOMAIN telling = {"room", "at"}
  /\ queue \in Seq(Reported)
  /\ sending \in Seq(ReportedNotes)
  /\ socket \in Seq([part : {"size", "contents"}, note : ReportedNotes])

\* Each animation is left on a character that is drawn, and has a life to count down.
AnimationsOnDrawn ==
  \A e \in DOMAIN affected : e \in DOMAIN characters /\ affected[e] \in Int /\ affected[e] >= -1

\* Whom a change of map left undrawn is still known.  Animations are on characters that
\* are drawn until a pointer that is not there is followed, which ends the client.
ViewInv ==
  /\ OnTheWay
  /\ unseen \subseteq DOMAIN current_status
  /\ ShownAsReported
  /\ fault # "missing" => AnimationsOnDrawn

-----------------------------------------------------------------------------
(* Maps of entities *)

\* What is inserted into a map is found there, and the rest is as it was.
LEMMA WithPoint ==
  ASSUME NEW f, NEW g
  PROVE  /\ DOMAIN With(f, g) = DOMAIN f \cup DOMAIN g
         /\ \A x \in DOMAIN With(f, g) : With(f, g)[x] = IF x \in DOMAIN g THEN g[x] ELSE f[x]
BY DEF With

\* What is erased from a map is gone, and the rest is as it was.
LEMMA WithoutPoint ==
  ASSUME NEW f, NEW S
  PROVE  /\ DOMAIN Without(f, S) = DOMAIN f \ S
         /\ \A x \in DOMAIN f \ S : Without(f, S)[x] = f[x]
BY DEF Without, Restrict

\* Who is hit and has no animation left begins one (MapWriter).
LEMMA BegunPoint ==
  ASSUME NEW next
  PROVE  LET left == IF new_map = NoRoom THEN affected ELSE <<>>
             hit == {e \in DOMAIN next : next[e].hit /\ (e \in DOMAIN left => left[e] = 0)}
         IN /\ DOMAIN Begun(next) = DOMAIN left \cup hit
            /\ \A e \in hit : Begun(next)[e] = Lifetime
            /\ \A e \in DOMAIN left \ hit : Begun(next)[e] = left[e]
<1> DEFINE left == IF new_map = NoRoom THEN affected ELSE <<>>
           hit == {e \in DOMAIN next : next[e].hit /\ (e \in DOMAIN left => left[e] = 0)}
           new == [e \in hit |-> Lifetime]
<1>1. Begun(next) = With(left, new)
  BY DEF Begun
<1>2. DOMAIN new = hit /\ \A e \in hit : new[e] = Lifetime
  OBVIOUS
<1> HIDE DEF left, hit, new
<1>3. /\ DOMAIN Begun(next) = DOMAIN left \cup hit
      /\ \A e \in hit : Begun(next)[e] = Lifetime
      /\ \A e \in DOMAIN left \ hit : Begun(next)[e] = left[e]
  <2>1. /\ DOMAIN With(left, new) = DOMAIN left \cup DOMAIN new
        /\ \A x \in DOMAIN left \cup DOMAIN new :
             With(left, new)[x] = IF x \in DOMAIN new THEN new[x] ELSE left[x]
    BY WithPoint
  <2> QED  BY <1>1, <1>2, <2>1
<1> QED  BY <1>3 DEF left, hit

\* Each animation has one update less, and none is left after the last.
LEMMA PassedPoint ==
  ASSUME NEW f
  PROVE  /\ DOMAIN Passed(f) = {x \in DOMAIN f : f[x] # -1}
         /\ \A e \in DOMAIN Passed(f) : Passed(f)[e] = f[e] - 1
BY DEF Passed

\* A cleared map holds nothing.
LEMMA EmptyDomain == DOMAIN <<>> = {}
OBVIOUS

\* What a status makes of what is drawn.
LEMMA MapWriterDraws ==
  ASSUME ViewInv, NEW next \in Reported, MapWriter(next), fault = "none"
  PROVE  /\ unseen' \subseteq DOMAIN current_status'
         /\ ShownAsReported'
         /\ fault' # "missing" => AnimationsOnDrawn'
<1> DEFINE left == IF new_map = NoRoom THEN affected ELSE <<>>
           hit == {e \in DOMAIN next : next[e].hit /\ (e \in DOMAIN left => left[e] = 0)}
           met == Changed(next) \cup (DOMAIN next \ (Known(next) \cup Drops))
           begun == Begun(next)
           absent == Absent(next)
           drawnNext == Updated(next)
           looks == [e \in DOMAIN next |-> next[e].look]
           lost == unseen \cup Met(next)
<1>0. Lifetime \in Nat
  BY ClientViewAssumption
<1>1. /\ unseen' = lost \ absent
      /\ characters' = Without(drawnNext, absent)
      /\ items' = ((IF new_map = NoRoom THEN items ELSE {}) \cup (DOMAIN next \cap Drops)) \ absent
      /\ affected' = Passed(begun)
      /\ current_status' = Without(With(current_status, looks), absent)
      /\ fault' \in IF Missing(next) THEN {"missing"}
                    ELSE IF Erases(next) THEN {"none", "erased"} ELSE {"none"}
  BY DEF MapWriter
<1>2. /\ DOMAIN characters = DOMAIN current_status \ (Drops \cup unseen)
      /\ unseen \subseteq DOMAIN current_status
      /\ items = DOMAIN current_status \cap Drops
      /\ \A e \in DOMAIN characters : characters[e] = current_status[e]
      /\ AnimationsOnDrawn
  BY DEF ViewInv, ShownAsReported
<1>3. \A e \in DOMAIN next : next[e].hit => e \notin Drops
  BY DEF Reported
<1>4. /\ Known(next) = (DOMAIN next \cap DOMAIN current_status) \ Drops
      /\ Changed(next) = {e \in Known(next) : current_status[e] # next[e].look}
  BY DEF Known, Changed
<1>5. /\ new_map = NoRoom => Kept = characters
      /\ new_map # NoRoom => DOMAIN Kept = DOMAIN characters \cap {Me}
      /\ \A e \in DOMAIN Kept : e \in DOMAIN characters /\ Kept[e] = characters[e]
  BY DEF Kept, Restrict
<1>6. /\ Known(next) \subseteq DOMAIN Kept \cup lost
      /\ lost \subseteq DOMAIN current_status
      /\ DOMAIN next \cap lost \cap DOMAIN Kept = {}
  BY <1>2, <1>4, <1>5 DEF Met
<1>7. /\ DOMAIN drawnNext = DOMAIN Kept \cup met
      /\ \A e \in DOMAIN drawnNext : drawnNext[e] = IF e \in met THEN next[e].look ELSE Kept[e]
  <2> DEFINE new == [e \in met |-> next[e].look]
  <2>1. drawnNext = With(Kept, new)
    BY DEF Updated
  <2>2. DOMAIN new = met /\ \A e \in met : new[e] = next[e].look
    OBVIOUS
  <2> HIDE DEF new, met, drawnNext
  <2>3. /\ DOMAIN With(Kept, new) = DOMAIN Kept \cup DOMAIN new
        /\ \A x \in DOMAIN With(Kept, new) :
             With(Kept, new)[x] = IF x \in DOMAIN new THEN new[x] ELSE Kept[x]
    BY WithPoint
  <2> QED  BY <2>1, <2>2, <2>3
<1>8. /\ DOMAIN begun = DOMAIN left \cup hit
      /\ \A e \in DOMAIN begun : begun[e] = IF e \in hit THEN Lifetime ELSE left[e]
  BY BegunPoint
<1>9. \A e \in DOMAIN left : e \in DOMAIN Kept /\ left[e] \in Int /\ left[e] >= -1
  BY <1>2, <1>5, EmptyDomain DEF AnimationsOnDrawn
<1>10. \A e \in DOMAIN begun : begun[e] \in Int /\ begun[e] >= -1
  BY <1>0, <1>8, <1>9
<1>11. \A e \in DOMAIN begun : e \in DOMAIN drawnNext \/ e \in DOMAIN next \cap lost
  BY <1>3, <1>4, <1>6, <1>7, <1>8, <1>9
<1>12. Missing(next) => DOMAIN next \cap lost # {}
  <2>1. Changed(next) \subseteq DOMAIN Kept \/ DOMAIN next \cap lost # {}
    BY <1>4, <1>6
  <2> QED  BY <1>11, <2>1 DEF Missing
<1>13. /\ fault' = "missing" => Missing(next)
       /\ fault' # "missing" => ~Missing(next)
  BY <1>1
<1>14. /\ DOMAIN affected' = {e \in DOMAIN begun : begun[e] # -1}
       /\ \A e \in DOMAIN affected' : affected'[e] = begun[e] - 1
  BY <1>1, PassedPoint
<1>15. absent = DOMAIN current_status \ (DOMAIN next \cup DOMAIN affected')
  BY <1>1 DEF Absent
<1>16. /\ DOMAIN characters' = DOMAIN drawnNext \ absent
       /\ \A e \in DOMAIN characters' : characters'[e] = drawnNext[e]
  <2> HIDE DEF drawnNext, absent
  <2>1. /\ DOMAIN Without(drawnNext, absent) = DOMAIN drawnNext \ absent
        /\ \A x \in DOMAIN drawnNext \ absent : Without(drawnNext, absent)[x] = drawnNext[x]
    BY WithoutPoint
  <2> QED  BY <1>1, <2>1
<1>17. /\ DOMAIN current_status' = (DOMAIN current_status \cup DOMAIN next) \ absent
       /\ \A e \in DOMAIN current_status' :
            current_status'[e] = IF e \in DOMAIN next THEN next[e].look ELSE current_status[e]
  <2>1. DOMAIN looks = DOMAIN next /\ \A e \in DOMAIN next : looks[e] = next[e].look
    OBVIOUS
  <2> HIDE DEF looks
  <2>2. /\ DOMAIN With(current_status, looks) = DOMAIN current_status \cup DOMAIN next
        /\ \A e \in DOMAIN current_status \cup DOMAIN next :
             With(current_status, looks)[e] = IF e \in DOMAIN next THEN next[e].look
                                              ELSE current_status[e]
    BY <2>1, WithPoint
  <2> DEFINE all == With(current_status, looks)
  <2> HIDE DEF all, absent
  <2>3. /\ DOMAIN Without(all, absent) = DOMAIN all \ absent
        /\ \A x \in DOMAIN all \ absent : Without(all, absent)[x] = all[x]
    BY WithoutPoint
  <2>4. current_status' = Without(all, absent)
    BY <1>1 DEF all
  <2>5. /\ DOMAIN all = DOMAIN current_status \cup DOMAIN next
        /\ \A e \in DOMAIN current_status \cup DOMAIN next :
             all[e] = IF e \in DOMAIN next THEN next[e].look ELSE current_status[e]
    BY <2>2 DEF all
  <2> QED  BY <2>3, <2>4, <2>5
<1> HIDE DEF left, hit, begun, absent, drawnNext, looks
<1>18. new_map # NoRoom => DOMAIN affected' \subseteq DOMAIN next
  BY <1>8, <1>14, EmptyDomain DEF left, hit
<1>19. items' = DOMAIN current_status' \cap Drops
  <2>1. CASE new_map = NoRoom
    BY <1>1, <1>2, <1>17, <2>1
  <2>2. CASE new_map # NoRoom
    BY <1>1, <1>2, <1>15, <1>17, <1>18, <2>2
  <2> QED  BY <2>1, <2>2
<1>20. ASSUME NEW e \in DOMAIN characters'
       PROVE  e \in DOMAIN current_status' /\ characters'[e] = current_status'[e]
  <2>1. e \notin absent /\ characters'[e] = drawnNext[e] /\ e \in DOMAIN Kept \cup met
    BY <1>7, <1>16
  <2>2. CASE e \in met
    <3>1. e \in DOMAIN next
      BY <1>4, <2>2
    <3> QED  BY <1>7, <1>16, <1>17, <2>1, <2>2, <3>1
  <2>3. CASE e \notin met
    <3>1. e \in DOMAIN Kept /\ drawnNext[e] = Kept[e] /\ Kept[e] = current_status[e]
          /\ e \in DOMAIN current_status \ Drops
      BY <1>2, <1>5, <1>7, <1>16, <2>1, <2>3
    <3>2. e \in DOMAIN next => current_status[e] = next[e].look
      BY <1>4, <2>3, <3>1
    <3> QED  BY <1>17, <2>1, <3>1, <3>2
  <2> QED  BY <2>2, <2>3
<1>21. fault' = "missing" => unseen' # {}
  <2>1. DOMAIN next \cap absent = {}
    BY <1>15
  <2> HIDE DEF lost
  <2> QED  BY <1>1, <1>12, <1>13, <2>1
<1>22. ASSUME fault' # "missing"
       PROVE  DOMAIN characters' = DOMAIN current_status' \ (Drops \cup unseen')
  <2>1. Changed(next) \subseteq DOMAIN Kept
    BY <1>13, <1>22 DEF Missing
  <2>2. DOMAIN drawnNext = DOMAIN Kept \cup (DOMAIN next \ (DOMAIN current_status \cup Drops))
    BY <1>4, <1>7, <2>1
  <2>3. CASE new_map = NoRoom
    <3>1. lost = unseen /\ DOMAIN Kept = DOMAIN current_status \ (Drops \cup unseen)
      BY <1>2, <1>5, <2>3 DEF Met
    <3> HIDE DEF lost
    <3> QED  BY <1>1, <1>2, <1>16, <1>17, <2>2, <3>1
  <2>4. CASE new_map # NoRoom
    <3>1. lost = unseen \cup (((DOMAIN next \cap DOMAIN current_status) \ Drops) \ {Me})
      BY <1>4, <2>4 DEF Met
    <3>2. DOMAIN Kept = (DOMAIN current_status \ (Drops \cup unseen)) \cap {Me}
      BY <1>2, <1>5, <2>4
    <3>3. absent = DOMAIN current_status \ DOMAIN next
      BY <1>15, <1>18, <2>4
    <3> HIDE DEF lost
    <3> QED  BY <1>1, <1>2, <1>16, <1>17, <2>2, <3>1, <3>2, <3>3
  <2> QED  BY <2>3, <2>4
<1>23. ASSUME fault' # "missing" PROVE AnimationsOnDrawn'
  <2> SUFFICES ASSUME NEW e \in DOMAIN affected'
               PROVE  e \in DOMAIN characters' /\ affected'[e] \in Int /\ affected'[e] >= -1
    BY DEF AnimationsOnDrawn
  <2>1. e \notin absent /\ e \in DOMAIN begun /\ begun[e] # -1
    BY <1>14, <1>15
  <2>2. begun[e] \in Int /\ begun[e] >= 0 /\ affected'[e] = begun[e] - 1
    BY <1>10, <1>14, <2>1
  <2>3. e \in DOMAIN drawnNext
    BY <1>13, <1>23, <2>1, <2>2 DEF Missing, begun, drawnNext
  <2> QED  BY <1>16, <2>1, <2>2, <2>3
<1>24. unseen' \subseteq DOMAIN current_status'
  <2> HIDE DEF lost
  <2> QED  BY <1>1, <1>6, <1>17
<1> QED  BY <1>19, <1>20, <1>21, <1>22, <1>23, <1>24 DEF ShownAsReported

\* What the room reports is about entities, and never hits a drop (notifications).
LEMMA RoomsReport ==
  ASSUME OnTheWay, NEW r \in Rooms, SendGameStatus(r)
  PROVE  queue' \in Seq(Reported)
<1>1. PICK s \in Reports(r) :
        /\ \A d \in Drops \cap DOMAIN s : s[d] = AtRest
        /\ queue' = Append(queue, s)
  BY DEF SendGameStatus
<1>2. \E E \in SUBSET Entities : s \in Statuses(E)
  BY DEF Reports, Entities, Movers
<1>3. s \in Reported
  BY <1>1, <1>2 DEF Reported, AtRest
<1> QED  BY <1>1, <1>3 DEF OnTheWay

\* Only statuses of the room and changes of map are on their way.
LEMMA NotesOnTheWay ==
  ASSUME OnTheWay, [ViewNext]_viewVars
  PROVE  OnTheWay'
<1> DEFINE Parts == [part : {"size", "contents"}, note : ReportedNotes]
<1>1. \A n \in ReportedNotes : Size(n) \in Parts /\ Contents(n) \in Parts
  BY DEF Size, Contents
<1>2. \A n \in ReportedNotes : <<n>> \in Seq(ReportedNotes)
  OBVIOUS
<1>3. /\ \A s \in Reported : Status(s) \in ReportedNotes
      /\ \A r \in Rooms : MapChange(r) \in ReportedNotes
  BY DEF ReportedNotes
<1>4. place \in [Heroes -> Rooms] /\ telling.room \in Rooms /\ DOMAIN telling = {"room", "at"}
      /\ queue \in Seq(Reported) /\ sending \in Seq(ReportedNotes) /\ socket \in Seq(Parts)
  BY DEF OnTheWay
<1> HIDE DEF Parts
<1>5. ASSUME NEW r \in Rooms, SendGameStatus(r) PROVE OnTheWay'
  BY <1>4, <1>5, RoomsReport DEF SendGameStatus, OnTheWay, Parts
<1>6. ASSUME NEW r \in Rooms, ChangeGameRoom(r) PROVE OnTheWay'
  BY <1>4, <1>6 DEF ChangeGameRoom, OnTheWay, Parts
<1>7. ASSUME NEW h \in Others, NEW r \in Rooms, OtherChanges(h, r) PROVE OnTheWay'
  BY <1>4, <1>7 DEF OtherChanges, OnTheWay, Parts, Heroes
<1>8. CASE AddNotificationQueue
  BY <1>4, <1>8 DEF AddNotificationQueue, OnTheWay, Parts
<1>9. CASE TellSize
  BY <1>1, <1>3, <1>4, <1>9 DEF TellSize, Write, OnTheWay, Parts
<1>10. CASE TellContents
  BY <1>1, <1>3, <1>4, <1>10 DEF TellContents, Write, OnTheWay, Parts
<1>11. CASE SendSize
  BY <1>1, <1>2, <1>3, <1>4, <1>11 DEF SendSize, Write, OnTheWay, Parts
<1>12. CASE SendContents
  BY <1>1, <1>4, <1>12 DEF SendContents, Write, OnTheWay, Parts
<1>13. CASE Updater
  <2>1. CASE socket' = socket
    BY <1>4, <1>13, <2>1 DEF Updater, ReceiveStatus, ReceiveMapChange, ReceiveGarbled, serverVars,
                            OnTheWay, Parts
  <2>2. CASE socket' # socket
    <3>1. socket' = SubSeq(socket, 3, Len(socket)) /\ Len(socket) >= 2 /\ UNCHANGED serverVars
      BY <1>13, <2>2 DEF Updater, ReceiveStatus, ReceiveMapChange, ReceiveGarbled,
                         ReceiveNotification
    <3>2. socket' \in Seq(Parts)
      BY <1>4, <3>1
    <3> QED  BY <1>4, <3>1, <3>2 DEF serverVars, OnTheWay, Parts
  <2> QED  BY <2>1, <2>2
<1>14. CASE UNCHANGED viewVars
  BY <1>4, <1>14 DEF viewVars, serverVars, OnTheWay, Parts
<1> QED  BY <1>5, <1>6, <1>7, <1>8, <1>9, <1>10, <1>11, <1>12, <1>13, <1>14
         DEF ViewNext, Room, Receiver, Sender, Players

\* At first nothing is on its way and nothing is drawn.
LEMMA InitShows == ViewInit => ViewInv
<1> SUFFICES ASSUME ViewInit PROVE ViewInv
  OBVIOUS
<1>1. OnTheWay
  BY ClientViewAssumption DEF ViewInit, OnTheWay
<1>2. ShownAsReported /\ AnimationsOnDrawn
  BY EmptyDomain DEF ViewInit, ShownAsReported, AnimationsOnDrawn
<1> QED  BY <1>1, <1>2 DEF ViewInit, ViewInv

\* Only the updater touches what is drawn, and only by applying what was reported.
LEMMA ViewKeeps == ASSUME ViewInv, [ViewNext]_viewVars PROVE ViewInv'
<1>1. OnTheWay /\ OnTheWay'
  BY NotesOnTheWay DEF ViewInv
<1>2. CASE Sound /\ ReceiveStatus
  <2>1. PICK next \in Reported : MapWriter(next)
    <3>1. socket # <<>> /\ socket[1].note.kind = "status" /\ MapWriter(socket[1].note.of)
      BY <1>2 DEF ReceiveStatus
    <3>2. socket[1].note \in ReportedNotes
      <4> DEFINE Parts == [part : {"size", "contents"}, note : ReportedNotes]
      <4>1. socket \in Seq(Parts)
        BY <1>1 DEF OnTheWay
      <4> HIDE DEF Parts
      <4>2. socket[1] \in Parts
        BY <3>1, <4>1
      <4> QED  BY <4>2 DEF Parts
    <3>3. socket[1].note.of \in Reported
      BY <3>1, <3>2 DEF ReportedNotes, Status, MapChange
    <3> QED  BY <3>1, <3>3
  <2>2. /\ unseen' \subseteq DOMAIN current_status' /\ ShownAsReported'
        /\ fault' # "missing" => AnimationsOnDrawn'
    BY <1>2, <2>1, MapWriterDraws DEF Sound
  <2> QED  BY <1>1, <2>2 DEF ViewInv
<1>3. CASE /\ UNCHANGED <<drawn, unseen>>
           /\ fault' = fault \/ (Sound /\ fault' = "garbled")
  BY <1>1, <1>3 DEF ViewInv, drawn, ShownAsReported, AnimationsOnDrawn, Sound
<1>4. \/ Sound /\ ReceiveStatus
      \/ UNCHANGED <<drawn, unseen>> /\ (fault' = fault \/ (Sound /\ fault' = "garbled"))
  BY DEF ViewNext, viewVars, clientVars, Room, Receiver, Sender, Updater, Players, SendGameStatus,
         ChangeGameRoom, OtherChanges, AddNotificationQueue, TellSize, TellContents, SendSize,
         SendContents, ReceiveMapChange, ReceiveGarbled
<1> QED  BY <1>2, <1>3, <1>4

\* What is on its way to the client is what its room reported, and what is drawn is what
\* was said last of everybody but those a change of map left undrawn, who are still known
\* (ProtectedMap::map_writer).
THEOREM ViewInvariant == ViewSpec => []ViewInv
BY InitShows, ViewKeeps, PTL DEF ViewSpec

\* Whatever the order in which the room, the receiver and the sender write, and whatever
\* happens to the heroes, the client's own included, the characters and drops drawn are
\* those of the last statuses, as they were reported, but exactly those the statuses of
\* the old map knew when a status changed the map (protected_map.cpp:36).
THEOREM ShownIsReported == ViewSpec => []ShownAsReported
<1>1. ViewInv => ShownAsReported
  BY DEF ViewInv, ShownAsReported
<1> QED  BY ViewInvariant, <1>1, PTL

=============================================================================
