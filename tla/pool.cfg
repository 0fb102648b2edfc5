SPECIFICATION FairSpec
CONSTANTS
  t1 = t1
  t2 = t2
  t3 = t3
  t4 = t4
  Threads <- FourThreads
  InitSize = 2
  MaxSize = 3
INVARIANTS
  TypeOK
  Conserved
  NoLostWakeup
PROPERTIES
  ImplementsResourcePool
  NobodyForgotten
