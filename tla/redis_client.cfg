SPECIFICATION FairSpec
CONSTANTS
  server = server
  io1 = io1
  io2 = io2
  alice = alice
  bob = bob
  Node = server
  Callers <- Threads
  Channels <- Users
  Exclusive <- Alice
  MaxCalls = 2
  MaxOutages = 1
  MaxPosts = 1
CHECK_DEADLOCK FALSE
INVARIANTS
  TypeOK
  WantedIsSubscribed
PROPERTIES
  SubscriptionsRestored
  
