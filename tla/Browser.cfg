SPECIFICATION FairSpec
CONSTANTS
  Messages = {m}
  MaxAttempts = 2
  Losses = {"none", "expired", "garbled"}
  MaxSends = 1
  MaxForgotten = 1
  Accounts = {ann, bob}
  NoOne = NoOne
  MaxPages = 3
  MaxLogins = 2
INVARIANTS
  
  
  
  MissionFits
  AlwaysAWayBack
PROPERTIES
  QueueDrains
  SignedInLeavesLogin
  LoadingEnds
\* A tab that React has given up waits for the player.
CHECK_DEADLOCK FALSE
