--------------------------------- MODULE Client ---------------------------------
(***************************************************************************)
(* The program of a player, from the lobby to its end: the lobby, the      *)
(* connection, the handshake that logs in, and then the threads of the     *)
(* game.                                                                   *)
(***************************************************************************)
EXTENDS ClientInput

CONSTANTS RacesOffered, ClassesOffered, MapsOffered, MaxInput

ASSUME LobbyAssumption ==
  /\ "human" \in RacesOffered /\ "warrior" \in ClassesOffered /\ "grass" \in MapsOffered
  /\ MaxInput \in Nat \ {0}

VARIABLES lobby, running, quit, mouse, get_text, need_letter, user_name, pass,
          screen, full_screen, race, class, map, late,
          program      \* "lobby", "connecting", "shaking hands", "playing" or "closed"

L == INSTANCE Lobby

lobbyVars == <<lobby, running, quit, mouse, get_text, need_letter, user_name, pass, screen,
               full_screen, race, class, map, late>>
programVars == <<vars, lobbyVars, program>>

ProgramInit == Init /\ L!Init /\ program = "lobby"

InLobby(Step) ==
  /\ program = "lobby" /\ Step
  /\ program' = CASE lobby' = "play" -> "connecting" [] lobby' = "closed" -> "closed"
                  [] OTHER -> "lobby"
  /\ UNCHANGED vars

\* A connection that fails ends the program; one that does not has the window
\* resized and the name, race, class and map sent.
Connect ==
  /\ program = "connecting" /\ program' \in {"shaking hands", "closed"}
  /\ UNCHANGED <<vars, lobbyVars>>

\* The answer is the number of the hero and its map; what was chosen is not read
\* again, and forgotten here.
DoHandshake ==
  /\ program = "shaking hands" /\ program' = "playing"
  /\ lobby' = "play" /\ running' = FALSE /\ quit' = FALSE
  /\ mouse' = "elsewhere" /\ get_text' = "none" /\ need_letter' = FALSE
  /\ user_name' = 1 /\ pass' = 0 /\ screen' = "800x600" /\ full_screen' = FALSE
  /\ race' = "human" /\ class' = "warrior" /\ map' = "grass" /\ late' = FALSE

\* Without an answer, or one cut short, what is read as its number is beyond the end
\* of what was received: the program ends there, or plays without a server.
Shaken == DoHandshake /\ UNCHANGED vars
Unanswered ==
  \/ /\ DoHandshake /\ server' = "closed"
     /\ UNCHANGED <<handlerVars, queueVars, uiVars, is_running, commandVars, renderVars,
                    sendVars, updater, received, hurried>>
  \/ /\ program = "shaking hands" /\ program' = "closed" /\ UNCHANGED <<vars, lobbyVars>>

Playing == program = "playing" /\ UNCHANGED <<lobbyVars, program>>

\* main(), but for what the player does.
Main ==
  \/ InLobby(L!LobbyStep) \/ Connect \/ Shaken \/ Unanswered
  \/ Playing /\ HandlerStep

ProgramNext == InLobby(L!PlayerEvents) \/ Main \/ (Playing /\ Next)

\* The lobby gets to the end of the events that wait, a connection is made or
\* refused and answered or lost, the threads go on, and a server that is there reads;
\* what the player does is up to it.
ProgramFairness ==
  /\ WF_programVars(Main)
  /\ WF_programVars(Playing /\ Frame)
  /\ WF_programVars(Playing /\ SendCommand)
  /\ WF_programVars(Playing /\ UpdaterEnds)
  /\ WF_programVars(Playing /\ ReceiveCommand)

ProgramSpec == ProgramInit /\ [][ProgramNext]_programVars /\ ProgramFairness

-----------------------------------------------------------------------------
(* Properties *)

\* Nobody plays who closed the window, in whatever of the nested loops that poll,
\* nor with a name too long or without one; but the events that waited when the
\* button was clicked may still delete it (lobby.cpp:435).
OnlyTheNamedPlay ==
  lobby = "play" => ~quit /\ user_name <= MaxInput /\ (user_name # 0 \/ late)

ProgramEnded == program = "closed" \/ (program = "playing" /\ Ended)
InABox == handler = "typing" \/ (program = "lobby" /\ L!Typing)

\* When the window is closed, in the lobby or in the game, the program ends,
\* connected or not, unless the player stays in the box it types in, or comes back
\* to it (lobby.cpp:116, event_handler.cpp:234).
QuitEndsClient == (quit \/ ~is_running) ~> (ProgramEnded \/ InABox)

=============================================================================
