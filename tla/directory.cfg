SPECIFICATION Spec
CONSTANTS
  alice = alice
  bob = bob
  carol = carol
  None = None
  Users <- ThreeUsers
  Conns <- ThreeUsers
  UserOf <- OwnConn
  Befriends <- AliceAndBob
  MaxGroups = 2
  Outcomes = {TRUE}
CHECK_DEADLOCK FALSE
INVARIANTS
  TypeOK
  OneOwner
  FriendsMutual

  
