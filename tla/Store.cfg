SPECIFICATION FairSpec
CONSTANTS
  Pods = {p1, p2}
  Users = {ann}
  NoUser = NoUser
  Times = {0, 1, 3}
  MaxGames = 2
  MaxExits = 2
INVARIANTS
  SchemaBeforeService
  
PROPERTIES
  PodsComeUp
\* The games may be over while all pods serve.
CHECK_DEADLOCK FALSE
