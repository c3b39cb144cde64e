------------------------------ MODULE ClientInput ------------------------------
(***************************************************************************)
(* What a player does with keyboard and mouse, on its way to the server.   *)
(*                                                                         *)
(* The event handler turns it into commands for the sender and events for  *)
(* the renderer; the renderer tells the handler what the inventory and the *)
(* shop hold; the receiver of the server reads the commands back from the  *)
(* bytes and hands them to the room.                                       *)
(***************************************************************************)
EXTENDS Integers, Sequences, SequencesExt

CONSTANTS
  InventorySlots, \* of the inventory; the shop has one
  Items,          \* bound: the items that these may hold
  Pressed, Lines, \* bounds: the keys and the lines the player enters
  UIs,            \* what the server may say they hold
  Amounts,        \* of gold, as typed
  MaxInt,         \* the largest std::stoi() reads
  Uint16,         \* 2^16
  MaxMessage,     \* MAX_MSG_LENGTH
  MaxInputs       \* what the player does before it leaves

Pictures == INSTANCE Sprites

\* No picture, and no item.
None == Pictures!Null
Dummy == 0

NoSlot == -1
Textures == {Pictures!ItemTexture(i) : i \in Items}
Cells == [item : Textures \cup {None}, equipped : BOOLEAN]

ShopStatus == [open : BOOLEAN, type : {"bank", "market"}, item : Textures \cup {None}]

-----------------------------------------------------------------------------
(* Commands *)

\* A command and what is sent of it after its number.
Command(kind, args) == <<kind>> \o args

\* Those the protocol sends and receives, in the order of their numbers.
Kinds ==
  {"login", "quit", "move", "attack", "take", "use", "room", "drop", "message",
   "bank item", "unbank item", "bank gold", "unbank gold", "list", "buy", "sell",
   "meditate", "level up", "revive", "heal"}
ItemKinds == {"drop", "bank item", "unbank item", "buy", "sell"}
GoldKinds == {"bank gold", "unbank gold"}
Blockable == {"attack", "room"}

Layout(kind) ==
  CASE kind = "use" -> 3
    [] kind = "message" -> 2
    [] kind \in ItemKinds \cup GoldKinds \cup {"move", "room"} -> 1
    [] OTHER -> 0

Quit == Command("quit", <<>>)
List == Command("list", <<>>)

\* What a player calls each item.
Names ==
  <<"escudo de tortuga", "escudo de hierro", "capucha", "casco de hierro", "sombrero magico",
    "armadura de cuero", "armadura de plata", "tunica azul", "pocion de vida",
    "pocion de mana", "espada", "hacha", "martillo", "arco simple", "arco compuesto",
    "vara de fresno", "baculo nudoso", "baculo engarzado", "laud elfico",
    "baculo mortifero">>

\* get_item_t(): the item of a name, and of a picture, or none.
ItemNamed(text) ==
  IF \E i \in DOMAIN Names : Names[i] = text
  THEN CHOOSE i \in DOMAIN Names : Names[i] = text ELSE Dummy
ItemOf(texture) ==
  IF \E i \in Pictures!ItemIds : Pictures!ItemTexture(i) = texture
  THEN CHOOSE i \in Pictures!ItemIds : Pictures!ItemTexture(i) = texture ELSE Dummy

\* The keys of one command: movements, attack, room, meditation and so on.
Keys ==
  {Command(kind, <<>>) : kind \in {"attack", "take", "meditate", "level up", "revive", "heal"}}
    \cup {Command("move", <<d>>) : d \in {"up", "down", "left", "right", "stop"}}
    \cup {Command("room", <<n>>) : n \in 1 .. 4}

\* What a line typed in the chat is: an order, an order about an item by its name, a
\* message, or nothing.  A name that no item has is not sent.
ItemOrders(text) ==
  IF ItemNamed(text) = Dummy THEN {}
  ELSE {<<Command(kind, <<ItemNamed(text)>>), List>> : kind \in {"bank item", "unbank item"}}
         \cup {<<Command(kind, <<ItemNamed(text)>>)>> : kind \in {"buy", "sell"}}
Typed ==
  {<<>>, <<Command("message", <<"name", "text">>)>>}
    \cup {<<Command(kind, <<>>)>> : kind \in {"meditate", "heal", "revive", "list", "take"}}
    \cup UNION {ItemOrders(Names[i]) : i \in DOMAIN Names}

ASSUME ClientInputAssumption ==
  /\ InventorySlots \subseteq Nat /\ Items \subseteq Pictures!ItemIds
  /\ Pressed \subseteq Keys /\ Lines \subseteq Typed
  /\ UIs \subseteq [inventory : [InventorySlots -> Cells], shop : ShopStatus]
  /\ Amounts \subseteq Nat /\ MaxInt \in Nat /\ Uint16 \in Nat \ {0}
  /\ MaxMessage \in Nat \ {0} /\ MaxInputs \in Nat

VARIABLES
  handler,        \* where the event handler is
  clicked,        \* the slot whose click it is about to treat
  mouse_in,       \* the last click was in the box of the chat
  msg_length, message,
  inputs,         \* how much the player has done
  index,          \* the slot selected
  inventory, shop,   \* what the renderer wrote last
  events,
  is_running,
  commands, sender, wire,
  renderer, is_selected, item_selected,
  updater, server,
  given,          \* history: the commands pushed
  received,       \* history: those the receiver made for the room
  hurried         \* history: a slot selected before the last one was shown

chatVars == <<mouse_in, msg_length, message>>
handlerVars == <<handler, clicked, chatVars, inputs>>
queueVars == <<index, events>>
uiVars == <<inventory, shop>>
commandVars == <<commands, given>>
renderVars == <<renderer, is_selected, item_selected>>
sendVars == <<sender, wire>>
endVars == <<updater, server, received>>
vars == <<handlerVars, queueVars, uiVars, is_running, commandVars, renderVars, sendVars,
          endVars, hurried>>

Init ==
  /\ handler = "looping" /\ clicked = NoSlot
  /\ mouse_in = FALSE /\ msg_length = 0 /\ message = 0 /\ inputs = 0
  /\ index = NoSlot /\ events = <<>>
  /\ inventory = [s \in InventorySlots |-> [item |-> None, equipped |-> FALSE]]
  /\ shop = [open |-> FALSE, type |-> "market", item |-> None]
  /\ is_running = TRUE
  /\ commands = <<>> /\ given = <<>> /\ sender = "running" /\ wire = <<>>
  /\ renderer = "running" /\ is_selected = FALSE /\ item_selected = NoSlot
  /\ updater = "running" /\ server = "playing" /\ received = <<>>
  /\ hurried = FALSE

Selected == IF index \in InventorySlots THEN inventory[index] ELSE [item |-> None, equipped |-> FALSE]

Give(cs) == commands' = commands \o cs /\ given' = given \o cs
GiveNothing == UNCHANGED commandVars

\* EVENT_SELECT_ITEM with the slot that is selected now.
Select(slot) ==
  /\ index' = slot /\ events' = Append(events, "select")
  /\ hurried' = (hurried \/ \E i \in DOMAIN events : events[i] = "select")

SelectNothing == UNCHANGED <<queueVars, hurried>>

Input(mode) ==
  /\ handler = mode /\ inputs < MaxInputs /\ inputs' = inputs + 1
  /\ UNCHANGED <<uiVars, is_running, renderVars, sendVars, endVars>>

-----------------------------------------------------------------------------
(* Keyboard and mouse *)

PressKey(c) ==
  /\ Input("looping") /\ Give(<<c>>)
  /\ SelectNothing /\ UNCHANGED <<handler, clicked, chatVars>>

PressVolumeKey ==
  /\ Input("looping") /\ events' = Append(events, "volume")
  /\ GiveNothing /\ UNCHANGED <<handler, clicked, chatVars, index, hurried>>

\* The item whose picture is thrown away; gold and the like are no item.
Dropped ==
  IF ItemOf(Selected.item) = Dummy THEN <<>>
  ELSE <<Command("drop", <<ItemOf(Selected.item)>>)>>

\* (mutant) The renderer is not told.
ThrowUntold ==
  IF Selected.item # None /\ ~ Selected.equipped
  THEN /\ index' = NoSlot /\ UNCHANGED <<events, hurried>>
       /\ Give(Dropped)
  ELSE SelectNothing /\ GiveNothing

\* The selected item is thrown away, unless it is equipped.
Throw ==
  IF Selected.item # None /\ ~ Selected.equipped
  THEN Select(NoSlot) /\ Give(Dropped)
  ELSE SelectNothing /\ GiveNothing

PressDrop == Input("looping") /\ Throw /\ UNCHANGED <<handler, clicked, chatVars>>

\* is_shop_open() decides what the click is for; the shop may have changed when
\* it is treated.
ClickInventory(s) ==
  /\ Input("looping") /\ clicked' = s
  /\ handler' = IF shop.open THEN "trading" ELSE "selecting"
  /\ GiveNothing /\ SelectNothing /\ UNCHANGED chatVars

SelectItem ==
  /\ handler = "selecting" /\ handler' = "looping" /\ clicked' = NoSlot
  /\ IF inventory[clicked].item # None /\ clicked # index
     THEN Select(clicked) /\ GiveNothing
     ELSE IF clicked = index
     THEN /\ Select(NoSlot)
          /\ Give(<<Command("use", <<ItemOf(inventory[clicked].item), clicked,
                                     inventory[clicked].equipped>>)>>)
     ELSE SelectNothing /\ GiveNothing
  /\ UNCHANGED <<chatVars, inputs, uiVars, is_running, renderVars, sendVars, endVars>>

TradeItem ==
  /\ handler = "trading" /\ handler' = "looping" /\ clicked' = NoSlot
  /\ LET cell == inventory[clicked] IN
       IF ItemOf(cell.item) = Dummy \/ cell.equipped \/ ~ shop.open THEN GiveNothing
       ELSE IF shop.type = "bank" THEN Give(<<Command("bank item", <<ItemOf(cell.item)>>), List>>)
       ELSE Give(<<Command("sell", <<ItemOf(cell.item)>>)>>)
  /\ SelectNothing
  /\ UNCHANGED <<chatVars, inputs, uiVars, is_running, renderVars, sendVars, endVars>>

ClickShop ==
  /\ Input("looping")
  /\ IF shop.item = None \/ ~ shop.open THEN GiveNothing
     ELSE IF shop.type = "bank" THEN Give(<<Command("unbank item", <<ItemOf(shop.item)>>), List>>)
     ELSE Give(<<Command("buy", <<ItemOf(shop.item)>>)>>)
  /\ SelectNothing /\ UNCHANGED <<handler, clicked, chatVars>>

ClickChat ==
  /\ handler = "looping" /\ handler' = "typing" /\ mouse_in' = TRUE /\ msg_length' = 0
  /\ GiveNothing /\ SelectNothing
  /\ UNCHANGED <<clicked, message, inputs, uiVars, is_running, renderVars, sendVars, endVars>>

ClickOutside ==
  /\ handler = "typing" /\ mouse_in' \in BOOLEAN
  /\ UNCHANGED <<handler, clicked, msg_length, message, inputs, uiVars, is_running,
                 renderVars, sendVars, endVars>>
  /\ GiveNothing /\ SelectNothing

TypeCharacter ==
  /\ Input("typing") /\ msg_length < MaxMessage
  /\ message' = message + 1 /\ msg_length' = message + 1
  /\ events' = Append(events, "message")
  /\ GiveNothing /\ UNCHANGED <<handler, clicked, mouse_in, index, hurried>>

DeleteCharacter ==
  /\ Input("typing") /\ msg_length # 0
  /\ message' = message - 1 /\ msg_length' = message - 1
  /\ events' = Append(events, "message")
  /\ GiveNothing /\ UNCHANGED <<handler, clicked, mouse_in, index, hurried>>

Enter ==
  /\ handler = "typing" /\ msg_length # 0
  /\ message' = 0 /\ msg_length' = 0
  /\ UNCHANGED <<clicked, mouse_in, inputs, uiVars, is_running, renderVars, sendVars, endVars>>

\* What is typed is a command, or nothing at all.
EnterCommand(cs) ==
  /\ Enter /\ Give(cs)
  /\ events' = Append(events, "message") /\ UNCHANGED <<handler, index, hurried>>

EnterDrop ==
  /\ Enter /\ handler' = handler
  /\ IF Selected.item # None /\ ~ Selected.equipped
     THEN /\ index' = NoSlot /\ events' = events \o <<"select", "message">>
          /\ hurried' = (hurried \/ \E i \in DOMAIN events : events[i] = "select")
          /\ Give(Dropped)
     ELSE /\ events' = Append(events, "message") /\ GiveNothing
          /\ UNCHANGED <<index, hurried>>

\* An amount of gold; a number too long for std::stoi() ends get_events().
EnterGold(kind, n) ==
  /\ Enter
  /\ IF n <= MaxInt
     THEN /\ Give(<<Command(kind, <<n>>), List>>) /\ handler' = handler
          /\ events' = Append(events, "message")
     ELSE /\ handler' = "dead" /\ GiveNothing /\ UNCHANGED events
  /\ UNCHANGED <<index, hurried>>

\* (mutant) The renderer is not told to end.
CloseQuietly ==
  /\ handler \in {"looping", "typing"} /\ Quit \notin {given[i] : i \in DOMAIN given}
  /\ is_running' = FALSE /\ Give(<<Quit>>)
  /\ handler' = IF handler = "looping" THEN "done" ELSE handler
  /\ mouse_in' \in IF handler = "looping" THEN {mouse_in} ELSE BOOLEAN
  /\ UNCHANGED <<clicked, msg_length, message, inputs, queueVars, uiVars, renderVars, sendVars,
                 endVars, hurried>>

\* The window is closed (once, a bound): in the chat, the handler goes on until a
\* click outside.
CloseWindow ==
  /\ handler \in {"looping", "typing"} /\ Quit \notin {given[i] : i \in DOMAIN given}
  /\ is_running' = FALSE /\ Give(<<Quit>>)
  /\ events' = Append(events, "quit")
  /\ handler' = IF handler = "looping" THEN "done" ELSE handler
  /\ mouse_in' \in IF handler = "looping" THEN {mouse_in} ELSE BOOLEAN
  /\ UNCHANGED <<clicked, msg_length, message, inputs, index, uiVars, renderVars, sendVars,
                 endVars, hurried>>

LeaveChat ==
  /\ handler = "typing" /\ ~ mouse_in /\ handler' = "looping"
  /\ GiveNothing /\ SelectNothing
  /\ UNCHANGED <<clicked, chatVars, inputs, uiVars, is_running, renderVars, sendVars, endVars>>

\* No event is left.
EndEvents ==
  /\ handler = "looping" /\ ~ is_running /\ handler' = "done"
  /\ GiveNothing /\ SelectNothing
  /\ UNCHANGED <<clicked, chatVars, inputs, uiVars, is_running, renderVars, sendVars, endVars>>

-----------------------------------------------------------------------------
(* Renderer, sender and updater *)

NoInput == UNCHANGED <<handlerVars, is_running, commandVars, hurried>>

\* Each frame treats one event, if there is one, and tells the handler what the
\* inventory and the shop hold.  A selection is drawn at the slot selected now.
Frame ==
  /\ renderer = "running"
  /\ IF events = <<>> THEN UNCHANGED <<events, renderer, is_selected, item_selected>>
     ELSE /\ events' = Tail(events)
          /\ renderer' = IF Head(events) = "quit" THEN "done" ELSE "running"
          /\ IF Head(events) = "select"
             THEN /\ is_selected' = ~ (is_selected /\ index = item_selected)
                  /\ item_selected' = index
             ELSE UNCHANGED <<is_selected, item_selected>>
  /\ \E ui \in UIs : inventory' = ui.inventory /\ shop' = ui.shop
  /\ NoInput /\ UNCHANGED <<index, sendVars, endVars>>

\* Of an amount of gold two bytes are sent.  The wire is bounded to a command; what
\* is sent to a closed connection is lost.
Sent(c) ==
  IF c[1] \notin Kinds THEN <<>>
  ELSE IF c[1] \in GoldKinds THEN <<c[1], c[2] % Uint16>> ELSE c

\* (mutant) The newest command first.
SendNewest ==
  /\ sender = "running" /\ commands # <<>> /\ wire = <<>>
  /\ commands' = Front(commands)
  /\ wire' = IF server = "playing" THEN Sent(Last(commands)) ELSE <<>>
  /\ sender' = IF Last(commands) = Quit THEN "done" ELSE "running"
  /\ UNCHANGED <<handlerVars, queueVars, uiVars, is_running, given, renderVars, endVars, hurried>>

SendCommand ==
  /\ sender = "running" /\ commands # <<>> /\ wire = <<>>
  /\ commands' = Tail(commands) /\ wire' = IF server = "playing" THEN Sent(Head(commands)) ELSE <<>>
  /\ sender' = IF Head(commands) = Quit THEN "done" ELSE "running"
  /\ UNCHANGED <<handlerVars, queueVars, uiVars, is_running, given, renderVars, endVars, hurried>>

\* A notification after the end, or none any more, ends the updater.
UpdaterEnds ==
  /\ updater = "running" /\ updater' = "done"
  /\ ~ is_running \/ server = "closed"
  /\ NoInput /\ UNCHANGED <<queueVars, uiVars, renderVars, sendVars, server, received>>

-----------------------------------------------------------------------------
(* The receiver of the server *)

Read == SubSeq(wire, 1, 1 + Layout(wire[1]))

\* Attacks and changes of room that come too soon are not processed.
ReceiveCommand ==
  /\ server = "playing" /\ wire # <<>>
  /\ wire' = SubSeq(wire, 2 + Layout(wire[1]), Len(wire))
  /\ \/ received' = Append(received, Read)
     \/ wire[1] \in Blockable /\ UNCHANGED received
  /\ server' = IF wire[1] = "quit" THEN "closed" ELSE "playing"
  /\ NoInput /\ UNCHANGED <<queueVars, uiVars, renderVars, sender, updater>>

\* The server stops or the connection is lost.
Lose ==
  /\ server = "playing" /\ server' = "closed" /\ wire' = <<>>
  /\ NoInput /\ UNCHANGED <<queueVars, uiVars, renderVars, sender, updater, received>>

-----------------------------------------------------------------------------

PlayerActs ==
  \/ \E c \in Pressed : PressKey(c)
  \/ PressVolumeKey \/ PressDrop \/ ClickShop \/ ClickChat \/ ClickOutside
  \/ \E s \in InventorySlots : ClickInventory(s)
  \/ TypeCharacter \/ DeleteCharacter \/ EnterDrop \/ CloseWindow
  \/ \E cs \in Lines : EnterCommand(cs)
  \/ \E kind \in GoldKinds, n \in Amounts : EnterGold(kind, n)

HandlerStep == SelectItem \/ TradeItem \/ LeaveChat \/ EndEvents

Next ==
  \/ PlayerActs \/ HandlerStep \/ Frame \/ SendCommand \/ UpdaterEnds
  \/ ReceiveCommand \/ Lose

TypeOK ==
  /\ handler \in {"looping", "selecting", "trading", "typing", "dead", "done"}
  /\ clicked \in InventorySlots \cup {NoSlot} /\ mouse_in \in BOOLEAN
  /\ msg_length \in 0 .. MaxInputs /\ message \in 0 .. MaxInputs /\ inputs \in 0 .. MaxInputs
  /\ index \in InventorySlots \cup {NoSlot} /\ events \in Seq({"select", "volume", "message", "quit"})
  /\ inventory \in [InventorySlots -> Cells] /\ shop.open \in BOOLEAN /\ is_running \in BOOLEAN
  /\ sender \in {"running", "done"} /\ renderer \in {"running", "done"}
  /\ is_selected \in BOOLEAN /\ item_selected \in InventorySlots \cup {NoSlot}
  /\ updater \in {"running", "done"} /\ server \in {"playing", "closed"}
  /\ hurried \in BOOLEAN

-----------------------------------------------------------------------------
(* Properties *)

\* Which command given each command received is: as it is sent, in the order of the
\* player, nothing after the first Quit although the chat goes on, and nothing missing
\* in between but attacks and changes of room.
Answers(kept) ==
  /\ \A i \in DOMAIN kept : received[i] = Sent(given[kept[i]])
  /\ \A i, j \in DOMAIN kept : i < j => kept[i] < kept[j]
  /\ \A i \in DOMAIN kept : \A n \in 1 .. (kept[i] - 1) :
       /\ given[n] # Quit
       /\ given[n][1] \in Blockable \/ \E j \in DOMAIN kept : kept[j] = n

\* The room is given what the player did, in its order, with amounts of gold modulo
\* 2^16.
CommandsArriveInOrder == \E kept \in [DOMAIN received -> DOMAIN given] : Answers(kept)

\* The slot drawn as selected, once the renderer has treated every event, is the
\* slot a key or a second click would use: the two threads count the same clicks, as
\* long as each selection was shown before the next (game_renderer.cpp:45).
Shown == IF is_selected THEN item_selected ELSE NoSlot
SelectionIsShown ==
  (~ hurried /\ "select" \notin {events[i] : i \in DOMAIN events}) => Shown = index

\* play() has joined every thread.
Ended ==
  /\ handler \in {"dead", "done"} /\ ~ is_running
  /\ renderer = "done" /\ sender = "done" /\ updater = "done"

=============================================================================
