SPECIFICATION Spec
CONSTANTS
  Messages <- Sendable
  MaxAttempts = 1
  Losses = {}
  MaxSends = 2
  MaxForgotten = 1
  Kinds = {"solo", "duel", "create", "enter"}
  TotalRounds = 2
  MaxGames = 2
  MaxBehind = 1
INVARIANTS
  TypeOK
  NoStray
  InOrder
  HungUpIsQuiet
  
  OneHitPerRound
PROPERTIES
  LateJoinsWereHasty
  
\* A game may be over, or the attempts used up, and nothing is left to ask for.
CHECK_DEADLOCK FALSE
