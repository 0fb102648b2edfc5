SPECIFICATION FairSpec
CONSTANTS
  alice = alice
  bob = bob
  None = None
  Users = {alice}
  MaxConns = 2
  MaxReqs = 3
  MaxChats = 2
CHECK_DEADLOCK FALSE
INVARIANTS
  TypeOK
  ShownOnce
  MenuMeansLoggedIn
  LostOnlyInLineBuf
PROPERTIES
  FirstLoginProceeds
