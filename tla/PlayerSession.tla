---------------------------- MODULE PlayerSession ----------------------------
(***************************************************************************)
(* What the server promises a player, whatever its threads do: the hero is *)
(* in one place at a time, changes rooms by leaving one and arriving in    *)
(* another, and once the player asks to leave (or is lost) it goes for     *)
(* good, from the room it is in, and is handed to the saver exactly then.  *)
(* GameRooms implements this.                                              *)
(***************************************************************************)
CONSTANTS Sessions, Rooms, Outside, Travelling, Gone

\* What an instance gives these constants; MCGameRooms checks it of its own.
PlacesDiffer ==
  /\ {Outside, Travelling, Gone} \cap Rooms = {}
  /\ Outside # Travelling /\ Travelling # Gone /\ Outside # Gone

VARIABLES place,    \* where each session's hero is
          leaving,  \* the sessions that are over for the player
          saved     \* the sessions whose hero was handed to the saver

vars == <<place, leaving, saved>>

Init ==
  /\ place = [s \in Sessions |-> Outside]
  /\ leaving = {}
  /\ saved = {}

Move(s, to) == place' = [place EXCEPT ![s] = to]

Enter(s, r) ==
  /\ place[s] = Outside
  /\ Move(s, r)
  /\ UNCHANGED <<leaving, saved>>

Depart(s) ==
  /\ place[s] \in Rooms
  /\ s \notin leaving
  /\ Move(s, Travelling)
  /\ UNCHANGED <<leaving, saved>>

Arrive(s, r) ==
  /\ place[s] = Travelling
  /\ Move(s, r)
  /\ UNCHANGED <<leaving, saved>>

AskToLeave(s) ==
  /\ place[s] \in Rooms
  /\ leaving' = leaving \cup {s}
  /\ UNCHANGED <<place, saved>>

Save(s) ==
  /\ place[s] \in Rooms
  /\ s \in leaving \ saved
  /\ saved' = saved \cup {s}
  /\ UNCHANGED <<place, leaving>>

\* A room drops together the heroes it finds dead.
Leave(r) ==
  \E S \in SUBSET saved :
    /\ S # {}
    /\ \A s \in S : place[s] = r
    /\ place' = [s \in Sessions |-> IF s \in S THEN Gone ELSE place[s]]
    /\ UNCHANGED <<leaving, saved>>

Next ==
  \/ \E s \in Sessions :
       \/ \E r \in Rooms : Enter(s, r) \/ Arrive(s, r)
       \/ Depart(s)
       \/ AskToLeave(s)
       \/ Save(s)
  \/ \E r \in Rooms : Leave(r)

Spec == Init /\ [][Next]_vars

-----------------------------------------------------------------------------
\* A hero that left a room reaches one, and a player that asked to leave is
\* eventually gone.
NobodyTravelsForEver ==
  \A s \in Sessions : place[s] = Travelling ~> place[s] \in Rooms
WhoeverLeavesIsGone ==
  \A s \in Sessions : s \in leaving ~> place[s] = Gone

=============================================================================
