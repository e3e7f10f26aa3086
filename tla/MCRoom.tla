------------------------------- MODULE MCRoom -------------------------------
(* Small instances of Room: two users, Ann with two connections, Bob with one. *)
EXTENDS Room

CONSTANTS ann, annAgain, bob, Ann, Bob, t1, t2

OwnerOf  == [c \in Clients |-> IF c = bob THEN Bob ELSE Ann]
TwoWords == <<t1, t2>>
\* Solo players may ask twice: a restart in the middle of a game or after it.
Starts   == [m \in Modes |-> IF m = "solo" THEN 2 ELSE 1]
=============================================================================
