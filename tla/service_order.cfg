SPECIFICATION Spec
CONSTANTS
  n1 = n1
  n2 = n2
  alice = alice
  bob = bob
  carol = carol
  c1 = c1
  c2 = c2
  c3 = c3
  None = None
  Servers <- TwoServers
  Conns <- TwoConns
  ServerOf <- OnePerServer
  Users = {alice, bob, carol}
  Groups <- AllInOneGroup
  LoginAs <- Anyone
  MaxMsgs = 2
  MaxCrashes = 1
  Stoppable = {}
  Outcomes = {TRUE, FALSE}
SYMMETRY SymmetricUsers
CHECK_DEADLOCK FALSE
INVARIANTS
  FifoPerRoute
