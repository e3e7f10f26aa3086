SPECIFICATION Spec
CONSTANTS
  Messages <- Sendable
  MaxAttempts = 1
  Losses = {}
  MaxSends = 2
  MaxForgotten = 1
  Kinds = {"solo", "duel", "create", "enter"}
  TotalRounds = 1
  MaxGames = 2
  MaxBehind = 1
INVARIANTS
  ReadyIsMine
\* A game may be over, or the attempts used up, and nothing is left to ask for.
CHECK_DEADLOCK FALSE
