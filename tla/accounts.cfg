SPECIFICATION Spec
CONSTANTS
  c1 = c1
  c2 = c2
  d1 = d1
  d2 = d2
  al = al
  bob = bob
  nobody = nobody
  longer = longer
  good = good
  short = short
  blank = blank
  None = None
  Conns <- Clients
  DbConns <- Pool
  InitQueue <- Opened
  Names = {al, bob, nobody, longer}
  Pwds = {good, short, blank}
  NameLength <- LengthOf
  PwdLength <- PwdLengthOf
  MaxReqs = 3
SYMMETRY Symmetry
CHECK_DEADLOCK FALSE
INVARIANTS
  TypeOK
  RegisteredIsOwn
  
  NoOrphans
