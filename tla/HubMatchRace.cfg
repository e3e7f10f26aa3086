SPECIFICATION Spec
CONSTANTS
  ann = ann
  annAgain = annAgain
  bob = bob
  Ann = Ann
  Bob = Bob
  NoClient = NoClient
  Clients = {ann, bob}
  Users = {Ann, Bob}
  UserOf <- OwnerOf
  Buckets = {"A1"}
  MaxRooms = 1
  MaxDropped = 1
  MaxMessages = 4
INVARIANTS
  MatchSeatsGuest
\* All connections may be gone, and nothing is left to do.
CHECK_DEADLOCK FALSE
