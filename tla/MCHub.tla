------------------------------- MODULE MCHub --------------------------------
(* Small instances of Hub: Ann with two connections (two tabs, or a reload), Bob. *)
EXTENDS Hub

CONSTANTS ann, annAgain, bob, Ann, Bob

OwnerOf == [c \in Clients |-> IF c = bob THEN Bob ELSE Ann]
=============================================================================
