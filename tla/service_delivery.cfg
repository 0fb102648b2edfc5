SPECIFICATION FairSpec
CONSTANTS
  n1 = n1
  n2 = n2
  alice = alice
  bob = bob
  carol = carol
  c1 = c1
  c2 = c2
  c3 = c3
  None = None
  Servers <- TwoServers
  Conns <- TwoConns
  ServerOf <- OnePerServer
  Users = {alice, bob}
  Groups <- AllInOneGroup
  LoginAs <- EitherToBob
  MaxMsgs = 1
  MaxCrashes = 1
  Stoppable = {n2}
  Outcomes <- Reliable
CHECK_DEADLOCK FALSE

  
PROPERTIES
  LeavingShows
  OnlineDelivery
