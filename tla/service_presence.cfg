SPECIFICATION FairSpec
CONSTANTS
  n1 = n1
  n2 = n2
  alice = alice
  bob = bob
  carol = carol
  c1 = c1
  c2 = c2
  c3 = c3
  None = None
  Servers <- TwoServers
  Conns <- ThreeConns
  ServerOf <- TwoAndOne
  Users = {alice}
  Groups <- NoGroups
  LoginAs <- Anyone
  MaxMsgs = 0
  MaxCrashes = 1
  Stoppable = {}
  Outcomes <- Reliable
CHECK_DEADLOCK FALSE
INVARIANTS
  MapHoldsLiveSessions
  OnlineHasOwner
PROPERTIES
  LeavingShows
