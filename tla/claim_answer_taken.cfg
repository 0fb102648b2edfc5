SPECIFICATION Spec
CONSTANTS
  alice = alice
  bob = bob
  None = None
  Users = {alice}
  MaxConns = 2
  MaxReqs = 3
  MaxChats = 2
CHECK_DEADLOCK FALSE
INVARIANT
  AnswersReachMain
