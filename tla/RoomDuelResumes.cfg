SPECIFICATION Spec
CONSTANTS
  ann = ann
  annAgain = annAgain
  bob = bob
  Ann = Ann
  Bob = Bob
  t1 = t1
  t2 = t2
  NoUser = NoUser
  Clients = {ann, bob}
  Users = {Ann, Bob}
  UserOf <- OwnerOf
  Modes = {"duel"}
  Creator = ann
  Targets = {t1, t2}
  Vocabs <- TwoWords
  TotalRounds = 1
  MaxPlayers = 2
  MaxStarts <- Starts
PROPERTIES
  DuelOverIsFinal
\* A finished room that everybody left does nothing more.
CHECK_DEADLOCK FALSE
