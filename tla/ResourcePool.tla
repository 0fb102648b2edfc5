---------------------------- MODULE ResourcePool ----------------------------
(***************************************************************************)
(* What a pool of database connections promises its callers, with none of  *)
(* the queueing and waiting of the implementation: a connection is opened  *)
(* only when no open one is idle, it is lent to one thread at a time, and  *)
(* it goes back to the idle ones when its borrower is done.                *)
(***************************************************************************)
CONSTANTS
  Threads,  \* the threads that borrow connections
  Conns,    \* the connections the pool may ever open
  None      \* "borrows nothing", not one of Conns

VARIABLES
  idle,     \* the open connections nobody borrows
  lent      \* lent[t]: the connection thread t borrows, or None

vars == <<idle, lent>>

Opened == idle \cup {lent[t] : t \in {s \in Threads : lent[s] # None}}

\* The pool opens its first connections before anyone borrows.
Init ==
  /\ idle \in SUBSET Conns
  /\ lent = [t \in Threads |-> None]

Lend(t) ==
  /\ lent[t] = None
  /\ \E k \in idle :
       /\ idle' = idle \ {k}
       /\ lent' = [lent EXCEPT ![t] = k]

Open(t) ==
  /\ lent[t] = None
  /\ idle = {}
  /\ \E k \in Conns \ Opened : lent' = [lent EXCEPT ![t] = k]
  /\ UNCHANGED idle

Return(t) ==
  /\ lent[t] # None
  /\ idle' = idle \cup {lent[t]}
  /\ lent' = [lent EXCEPT ![t] = None]

Next == \E t \in Threads : Lend(t) \/ Open(t) \/ Return(t)

Spec == Init /\ [][Next]_vars
=============================================================================
