SPECIFICATION Spec
CONSTANTS
  n1 = n1
  n2 = n2
  alice = alice
  bob = bob
  carol = carol
  c1 = c1
  c2 = c2
  c3 = c3
  None = None
  Servers <- OneServer
  Conns <- ThreeConns
  ServerOf <- AllOnOne
  Users = {alice, bob}
  Groups <- AllInOneGroup
  LoginAs <- Anyone
  MaxMsgs = 1
  MaxCrashes = 0
  Stoppable = {}
  Outcomes <- Reliable
CHECK_DEADLOCK FALSE
INVARIANTS
  AbsentMembersStored
