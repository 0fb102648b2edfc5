--------------------------- MODULE ConnectionPool ---------------------------
(***************************************************************************)
(* The MySQL connection pool (src/server/db/connectionpool.cpp) and the    *)
(* handle every model class borrows a connection through (db.cpp).         *)
(*                                                                         *)
(* Every method of the pool runs under _mtx, so one critical section is    *)
(* one action; the wait on _cv releases the mutex, so waiting, being       *)
(* notified and rechecking the predicate are actions of their own.  A      *)
(* MySQL object takes its connection in its constructor and gives it back  *)
(* in its destructor, and no function of the server has two of them alive, *)
(* so a thread holds at most one connection.                               *)
(***************************************************************************)
EXTENDS Integers, Sequences, FiniteSets

CONSTANTS
  Threads,   \* the threads that run database code: IO loops, Redis observer
  InitSize,  \* _initSize: how many connections init() tries to open
  MaxSize    \* _maxSize

ASSUME PoolAssumption ==
  /\ IsFiniteSet(Threads)
  /\ InitSize \in Nat \ {0}
  /\ MaxSize \in Nat
  /\ InitSize <= MaxSize

VARIABLES
  connQueue,     \* _connQueue: the idle connections, oldest first
  currentCount,  \* _currentCount: connections opened so far, never decreased
  held,          \* held[t]: _conn of the MySQL object of thread t, or None
  waiting,       \* the threads blocked in _cv.wait
  woken          \* notified (or spuriously woken), not yet back in the lock

vars == <<connQueue, currentCount, held, waiting, woken>>

\* Connections are named by the order they were opened in.
Conns == 1..MaxSize
None  == 0

Idle == {connQueue[i] : i \in DOMAIN connQueue}
Running(t) == t \notin waiting \cup woken

-----------------------------------------------------------------------------
\* init(): each of the InitSize attempts may fail; main gives up when none
\* succeeded.
Init ==
  /\ currentCount \in 1..InitSize
  /\ connQueue = [i \in 1..currentCount |-> i]
  /\ held = [t \in Threads |-> None]
  /\ waiting = {}
  /\ woken = {}

Pop(t) ==
  /\ connQueue # <<>>
  /\ held' = [held EXCEPT ![t] = Head(connQueue)]
  /\ connQueue' = Tail(connQueue)

\* getConnection, a connection is idle.
GetIdle(t) ==
  /\ Running(t) /\ held[t] = None
  /\ Pop(t)
  /\ UNCHANGED <<currentCount, waiting, woken>>

\* Faulty variant: off by one at the limit.
GetNewPastMax(t) ==
  /\ Running(t) /\ held[t] = None
  /\ connQueue = <<>> /\ currentCount <= MaxSize
  /\ currentCount' = currentCount + 1
  /\ held' = [held EXCEPT ![t] = currentCount']
  /\ UNCHANGED <<connQueue, waiting, woken>>

\* Faulty variant: _currentCount is not increased.
GetNewUncounted(t) ==
  /\ Running(t) /\ held[t] = None
  /\ connQueue = <<>> /\ currentCount < MaxSize
  /\ currentCount' = currentCount
  /\ held' = [held EXCEPT ![t] = currentCount + 1]
  /\ UNCHANGED <<connQueue, waiting, woken>>

\* getConnection, none is idle, the pool is below its limit and
\* createConnection succeeds.
GetNew(t) ==
  /\ Running(t) /\ held[t] = None
  /\ connQueue = <<>> /\ currentCount < MaxSize
  /\ currentCount' = currentCount + 1
  /\ held' = [held EXCEPT ![t] = currentCount']
  /\ UNCHANGED <<connQueue, waiting, woken>>

\* getConnection, none is idle, and the pool is full or createConnection
\* fails: that failure falls through to the same wait, so below the limit
\* this action stands for the failure.
GetWait(t) ==
  /\ Running(t) /\ held[t] = None
  /\ connQueue = <<>>
  /\ waiting' = waiting \cup {t}
  /\ UNCHANGED <<connQueue, currentCount, held, woken>>

\* The predicate of _cv.wait holds once the thread is back in the lock.
WakeAndPop(t) ==
  /\ t \in woken
  /\ Pop(t)
  /\ woken' = woken \ {t}
  /\ UNCHANGED <<currentCount, waiting>>

\* Another thread took the connection first: the predicate sends it back.
WakeAndWait(t) ==
  /\ t \in woken
  /\ connQueue = <<>>
  /\ woken' = woken \ {t}
  /\ waiting' = waiting \cup {t}
  /\ UNCHANGED <<connQueue, currentCount, held>>

\* A condition variable may wake a thread nobody notified.
SpuriousWake(t) ==
  /\ t \in waiting
  /\ waiting' = waiting \ {t}
  /\ woken' = woken \cup {t}
  /\ UNCHANGED <<connQueue, currentCount, held>>

\* notify_one: wakes one of the waiting threads, if there is one.
NotifyOne ==
  IF waiting = {}
  THEN UNCHANGED <<waiting, woken>>
  ELSE \E t \in waiting : waiting' = waiting \ {t} /\ woken' = woken \cup {t}

\* Faulty variant: notifies only when the queue was empty.
ReleaseOnlyIfEmpty(t) ==
  /\ held[t] # None
  /\ connQueue' = Append(connQueue, held[t])
  /\ held' = [held EXCEPT ![t] = None]
  /\ IF connQueue = <<>> THEN NotifyOne ELSE UNCHANGED <<waiting, woken>>
  /\ UNCHANGED currentCount

\* Faulty variant: the MySQL object keeps _conn.
ReleaseAndKeep(t) ==
  /\ held[t] # None
  /\ held[t] \notin Idle
  /\ connQueue' = Append(connQueue, held[t])
  /\ NotifyOne
  /\ UNCHANGED <<held, currentCount>>

\* ~MySQL -> close -> releaseConnection.
Release(t) ==
  /\ held[t] # None
  /\ connQueue' = Append(connQueue, held[t])
  /\ held' = [held EXCEPT ![t] = None]
  /\ NotifyOne
  /\ UNCHANGED currentCount

Next ==
  \E t \in Threads :
    \/ GetIdle(t) \/ GetNew(t) \/ GetWait(t)
    \/ WakeAndPop(t) \/ WakeAndWait(t) \/ SpuriousWake(t)
    \/ Release(t)

Spec == Init /\ [][Next]_vars

\* A borrower finishes its statement and returns the connection, and a woken
\* thread gets the mutex.  Nothing says that a thread ever calls again.
Fairness ==
  \A t \in Threads :
    WF_vars(Release(t)) /\ WF_vars(WakeAndPop(t)) /\ WF_vars(WakeAndWait(t))

FairSpec == Spec /\ Fairness

-----------------------------------------------------------------------------
TypeOK ==
  /\ connQueue \in Seq(Conns)
  /\ currentCount \in Conns
  /\ held \in [Threads -> Conns \cup {None}]
  /\ waiting \in SUBSET Threads
  /\ woken \in SUBSET Threads

\* Each connection ever opened is in exactly one place: once in _connQueue, or
\* in the hands of one thread.  It is what makes handing out raw MYSQL*
\* pointers safe: two threads on one MYSQL* corrupt each other's results, and
\* a connection in no place shrinks the pool for good.
Conserved ==
  /\ \A i, j \in DOMAIN connQueue : connQueue[i] = connQueue[j] => i = j
  /\ \A s, t \in Threads : held[s] = held[t] /\ held[s] # None => s = t
  /\ \A t \in Threads : held[t] \notin Idle
  /\ Idle \cup ({held[t] : t \in Threads} \ {None}) = 1..currentCount

\* No wakeup is lost: while some thread sleeps in _cv.wait, every idle
\* connection has a woken thread on its way to it.  One notify_one per
\* releaseConnection is enough for this whatever the order in which released
\* connections are taken by newcomers and by woken threads.
NoLostWakeup ==
  waiting # {} => Len(connQueue) <= Cardinality(woken)

Takes(t) == held[t] = None /\ held'[t] # None

\* The pool never stalls: a thread blocked in getConnection is served, unless
\* other threads go on taking connections for ever.  (That exception is real:
\* the mutex and notify_one are not fair, so a thread may be overtaken without
\* limit.)
NobodyForgotten ==
  \A t \in Threads :
    \/ (t \in waiting \cup woken) ~> (held[t] # None)
    \/ []<><<\E s \in Threads \ {t} : Takes(s)>>_vars

\* The pool is a ResourcePool: the queue, the counter and the waiting are
\* ways of doing what that module promises.
Abstract == INSTANCE ResourcePool WITH idle <- Idle, lent <- held

ImplementsResourcePool == Abstract!Spec
=============================================================================
