--------------------------------- MODULE Lobby ---------------------------------
(***************************************************************************)
(* The two screens before the game: the one to log in, with a name, a      *)
(* password and a resolution, and the one to choose a character.           *)
(*                                                                         *)
(* Events are polled one by one; which come and how many, the player       *)
(* decides.  What was clicked is tested again after each event, and a box  *)
(* that is typed in polls events of its own, until one letter has been     *)
(* typed or deleted or the mouse has left the box.                         *)
(***************************************************************************)
EXTENDS Integers

CONSTANTS
  RacesOffered, ClassesOffered, MapsOffered,
  MaxInput           \* MAX_USER_INPUT

VARIABLES
  lobby,             \* the loop that polls events, or what comes after it
  running, quit,
  mouse,             \* where the last click was
  get_text,          \* the box to type in
  need_letter,
  user_name, pass,   \* how many letters
  screen, full_screen,
  race, class, map,
  late               \* history: the log in went on after its button was clicked

boxVars == <<mouse, get_text, need_letter>>
screenVars == <<screen, full_screen>>
chosen == <<race, class, map>>
lobbyVars == <<lobby, running, quit, boxVars, user_name, pass, screenVars, chosen, late>>

Boxes == {"user", "password"}
Sizes == {"800x600", "1024x768"}
Places == Boxes \cup Sizes \cup {"fs", "login", "elsewhere"}

\* The player is typing and has not left the box.
Typing == lobby \in Boxes

Init ==
  /\ lobby = "log in" /\ running = TRUE /\ quit = FALSE
  /\ mouse = "elsewhere" /\ get_text = "none" /\ need_letter = FALSE
  /\ user_name = 0 /\ pass = 0
  /\ screen = "800x600" /\ full_screen = FALSE
  /\ race = "human" /\ class = "warrior" /\ map = "grass"
  /\ late = FALSE

-----------------------------------------------------------------------------
(* To log in *)

\* An event of the first screen; quit and the button are final, but the queue is not
\* empty yet.
LogInEvent ==
  /\ late' = (late \/ ~running)
  /\ UNCHANGED <<quit, user_name, pass, chosen>>

\* check_mouse_click_login()
Clicked(p) ==
  /\ mouse' = p
  /\ get_text' = IF p \in Boxes THEN p ELSE "none"
  /\ screen' = IF p \in Sizes THEN p ELSE screen
  /\ full_screen' = IF p \in Sizes THEN FALSE ELSE full_screen \/ p = "fs"
  /\ running' = (running /\ ~(p = "login" /\ user_name # 0))

\* After any event the box to type in polls, if the last click was there.
TypesNext ==
  IF get_text' \in Boxes /\ mouse' = get_text'
  THEN lobby' = get_text' /\ need_letter' = TRUE
  ELSE UNCHANGED <<lobby, need_letter>>

ClickLogIn(p) == lobby = "log in" /\ Clicked(p) /\ TypesNext /\ LogInEvent

\* Keys and movements do nothing, letters neither.
OtherLogIn ==
  /\ lobby = "log in" /\ get_text \in Boxes
  /\ UNCHANGED <<mouse, get_text, screenVars, running>>
  /\ TypesNext /\ LogInEvent

CloseLogIn ==
  /\ lobby = "log in" /\ lobby' = "left" /\ quit' = TRUE /\ running' = FALSE
  /\ UNCHANGED <<boxVars, user_name, pass, screenVars, chosen, late>>

LogInDrained ==
  /\ lobby = "log in" /\ ~running /\ lobby' = "left"
  /\ UNCHANGED <<running, quit, boxVars, user_name, pass, screenVars, chosen, late>>

\* While a box is typed in, its loop goes on after a click elsewhere until no event
\* is left.
ClickTyping(p) ==
  /\ Typing /\ Clicked(p) /\ LogInEvent
  /\ UNCHANGED <<lobby, need_letter>>

\* A letter more, or less, of what is typed.
Edit(length) ==
  /\ Typing /\ need_letter' = FALSE
  /\ IF lobby = "user" THEN user_name' = length /\ UNCHANGED pass
     ELSE pass' = length /\ UNCHANGED user_name
  /\ late' = (late \/ ~running)
  /\ UNCHANGED <<lobby, running, quit, mouse, get_text, screenVars, chosen>>

Text == IF lobby = "user" THEN user_name ELSE pass
Backspace == Text # 0 /\ Edit(Text - 1)
TypeLetter == Text < MaxInput /\ Edit(Text + 1)

Box(m) == IF need_letter /\ m = lobby THEN lobby ELSE "log in"

\* The window is closed with the mouse anywhere, in the box too.
CloseTyping ==
  /\ Typing /\ quit' = TRUE /\ running' = FALSE
  /\ \E p \in Places : mouse' = p /\ lobby' = Box(p)
  /\ UNCHANGED <<get_text, need_letter, user_name, pass, screenVars, chosen, late>>

TypingDrained ==
  /\ Typing /\ Box(mouse) # lobby /\ lobby' = "log in"
  /\ UNCHANGED <<running, quit, boxVars, user_name, pass, screenVars, chosen, late>>

-----------------------------------------------------------------------------
(* To choose a character *)

Selecting ==
  /\ lobby = "selection"
  /\ UNCHANGED <<boxVars, user_name, pass, screenVars, late>>

Choose ==
  /\ Selecting
  /\ \/ race' \in RacesOffered /\ UNCHANGED <<class, map>>
     \/ class' \in ClassesOffered /\ UNCHANGED <<race, map>>
     \/ map' \in MapsOffered /\ UNCHANGED <<race, class>>
  /\ UNCHANGED <<lobby, running, quit>>

ClickPlay == Selecting /\ running' = FALSE /\ UNCHANGED <<lobby, quit, chosen>>

CloseSelection ==
  /\ Selecting /\ lobby' = "selected" /\ quit' = TRUE /\ running' = FALSE
  /\ UNCHANGED chosen

SelectionDrained ==
  /\ Selecting /\ ~running /\ lobby' = "selected" /\ UNCHANGED <<running, quit, chosen>>

\* (mutant) A character that was chosen is played.
StartChosen ==
  \/ /\ lobby = "left"
     /\ IF quit THEN lobby' = "closed" /\ UNCHANGED running
        ELSE lobby' = "selection" /\ running' = TRUE
     /\ UNCHANGED <<quit, boxVars, user_name, pass, screenVars, chosen, late>>
  \/ /\ lobby = "selected" /\ lobby' = "play"
     /\ UNCHANGED <<running, quit, boxVars, user_name, pass, screenVars, chosen, late>>

\* Each screen is shown, and the game played, unless the window was closed.
StartLobby ==
  \/ /\ lobby = "left"
     /\ IF quit THEN lobby' = "closed" /\ UNCHANGED running
        ELSE lobby' = "selection" /\ running' = TRUE
     /\ UNCHANGED <<quit, boxVars, user_name, pass, screenVars, chosen, late>>
  \/ /\ lobby = "selected" /\ lobby' = (IF quit THEN "closed" ELSE "play")
     /\ UNCHANGED <<running, quit, boxVars, user_name, pass, screenVars, chosen, late>>

-----------------------------------------------------------------------------

PlayerEvents ==
  \/ \E p \in Places : ClickLogIn(p) \/ ClickTyping(p)
  \/ OtherLogIn \/ CloseLogIn \/ Backspace \/ TypeLetter \/ CloseTyping
  \/ Choose \/ ClickPlay \/ CloseSelection

LobbyStep == LogInDrained \/ TypingDrained \/ SelectionDrained \/ StartLobby

Next == PlayerEvents \/ LobbyStep

TypeOK ==
  /\ lobby \in {"log in", "left", "selection", "selected", "play", "closed"} \cup Boxes
  /\ running \in BOOLEAN /\ quit \in BOOLEAN /\ late \in BOOLEAN
  /\ mouse \in Places /\ get_text \in Boxes \cup {"none"} /\ need_letter \in BOOLEAN
  /\ user_name \in 0 .. MaxInput /\ pass \in 0 .. MaxInput
  /\ screen \in Sizes /\ full_screen \in BOOLEAN
  /\ race \in RacesOffered /\ class \in ClassesOffered /\ map \in MapsOffered

=============================================================================
