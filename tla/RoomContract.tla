---------------------------- MODULE RoomContract ----------------------------
(***************************************************************************)
(* What a room promises the hub, whatever happens to its rounds: how its   *)
(* phase and its set of connections may change.  Room implements it (see   *)
(* Room!Contract), and the rooms of Hub are made of it.                    *)
(***************************************************************************)
CONSTANTS
  Clients,  \* connection objects
  UserOf    \* the user each was authenticated as

VARIABLES
  phase,    \* "waiting", "active" (countdown, round or pause) or "finished"
  members   \* the connections in the room

Init == phase = "waiting" /\ \E c \in Clients : members = {c}

\* Nobody joins once the room has left "waiting".
Join(c) ==
  /\ phase = "waiting"
  /\ members' = members \cup {c}
  /\ UNCHANGED phase

\* A start, or a round: the room may be played again after it was finished.
Play ==
  /\ phase' = "active"
  /\ UNCHANGED members

End ==
  /\ phase # "waiting"
  /\ phase' = "finished"
  /\ UNCHANGED members

\* Leaving may finish the game, and only leaving finishes it before its start.
Leave(c) ==
  /\ members' = members \ {c}
  /\ phase' \in {phase, "finished"}

\* A returning user's connection takes the place of exactly one of its own.
Swap(old, new) ==
  /\ phase # "finished"
  /\ old \in members /\ new \notin members
  /\ UserOf[old] = UserOf[new]
  /\ members' = (members \ {old}) \cup {new}
  /\ UNCHANGED phase

Next ==
  \/ Play \/ End
  \/ \E c \in Clients : Join(c) \/ Leave(c)
  \/ \E old, new \in Clients : Swap(old, new)

Spec == Init /\ [][Next]_<<phase, members>>
=============================================================================
