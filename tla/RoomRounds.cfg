SPECIFICATION FairSpec
CONSTANTS
  ann = ann
  annAgain = annAgain
  bob = bob
  Ann = Ann
  Bob = Bob
  t1 = t1
  t2 = t2
  NoUser = NoUser
  Clients = {ann, bob}
  Users = {Ann, Bob}
  UserOf <- OwnerOf
  Modes = {"solo", "duel", "battle"}
  Creator = ann
  Targets = {t1, t2}
  Vocabs <- TwoWords
  TotalRounds = 2
  MaxPlayers = 2
  MaxStarts <- Starts
INVARIANTS
  TypeOK
  NoStall
  RoundInRange
  AnswersWithinRounds
  SoleScorer

  
  
\* A finished room that everybody left does nothing more.
CHECK_DEADLOCK FALSE
