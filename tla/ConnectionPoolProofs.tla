------------------------ MODULE ConnectionPoolProofs ------------------------
(***************************************************************************)
(* What holds of the connection pool for any number of threads and any     *)
(* limit: its invariants, and that it implements ResourcePool.             *)
(***************************************************************************)
EXTENDS ConnectionPool, FiniteSetTheorems, TLAPS

\* Ranges of sequences, by the two ends that the pool works at.
LEMMA PopFacts ==
  ASSUME NEW S, NEW q \in Seq(S), q # <<>>
  PROVE  /\ Head(q) \in S /\ Tail(q) \in Seq(S)
         /\ Len(q) \in Nat /\ Len(q) > 0 /\ Len(Tail(q)) = Len(q) - 1
         /\ Head(q) = q[1]
         /\ DOMAIN q = 1..Len(q) /\ DOMAIN Tail(q) = 1..(Len(q) - 1)
         /\ \A i \in DOMAIN Tail(q) : i + 1 \in DOMAIN q /\ Tail(q)[i] = q[i + 1]
  OBVIOUS

LEMMA PushFacts ==
  ASSUME NEW S, NEW q \in Seq(S), NEW x \in S
  PROVE  /\ Append(q, x) \in Seq(S)
         /\ Len(q) \in Nat /\ Len(Append(q, x)) = Len(q) + 1
         /\ DOMAIN q = 1..Len(q) /\ DOMAIN Append(q, x) = 1..(Len(q) + 1)
         /\ \A i \in DOMAIN q : Append(q, x)[i] = q[i]
         /\ Append(q, x)[Len(q) + 1] = x
  OBVIOUS

Elements(q)  == {q[i] : i \in DOMAIN q}
Repeats(q)   == \E i, j \in DOMAIN q : q[i] = q[j] /\ i # j

LEMMA PopElements ==
  ASSUME NEW S, NEW q \in Seq(S), q # <<>>, ~Repeats(q)
  PROVE  /\ Elements(Tail(q)) = Elements(q) \ {Head(q)}
         /\ Head(q) \in Elements(q)
         /\ ~Repeats(Tail(q))
<1> DEFINE n == Len(q)
<1>1. /\ n \in Nat /\ n > 0 /\ Head(q) = q[1]
      /\ DOMAIN q = 1..n /\ DOMAIN Tail(q) = 1..(n - 1)
      /\ \A i \in DOMAIN Tail(q) : i + 1 \in DOMAIN q /\ Tail(q)[i] = q[i + 1]
  BY PopFacts
<1>2. \A i, j \in 1..n : q[i] = q[j] => i = j
  BY <1>1 DEF Repeats
<1>3. ~Repeats(Tail(q))
  <2> SUFFICES ASSUME NEW i \in 1..(n - 1), NEW j \in 1..(n - 1),
                      Tail(q)[i] = Tail(q)[j]
               PROVE  i = j
    BY <1>1 DEF Repeats
  <2>1. i + 1 \in 1..n /\ j + 1 \in 1..n /\ q[i + 1] = q[j + 1]
    BY <1>1
  <2> QED BY <1>1, <1>2, <2>1
<1>4. ASSUME NEW x \in Elements(Tail(q)) PROVE x \in Elements(q) \ {Head(q)}
  <2>1. PICK i \in 1..(n - 1) : x = Tail(q)[i]
    BY <1>1, <1>4 DEF Elements
  <2>2. i + 1 \in 1..n /\ x = q[i + 1] /\ i + 1 # 1
    BY <1>1, <2>1
  <2>3. x # q[1]
    BY <1>1, <1>2, <2>2
  <2> QED BY <1>1, <2>2, <2>3 DEF Elements
<1>5. ASSUME NEW x \in Elements(q) \ {Head(q)} PROVE x \in Elements(Tail(q))
  <2>1. PICK i \in 1..n : x = q[i]
    BY <1>1, <1>5 DEF Elements
  <2>2. i # 1
    BY <1>1, <1>5, <2>1
  <2>3. i - 1 \in 1..(n - 1) /\ Tail(q)[i - 1] = q[(i - 1) + 1] /\ (i - 1) + 1 = i
    BY <1>1, <2>2
  <2>4. x = Tail(q)[i - 1]
    BY <2>1, <2>3
  <2> QED BY <1>1, <2>3, <2>4 DEF Elements
<1>6. Head(q) \in Elements(q)
  BY <1>1 DEF Elements
<1> QED BY <1>3, <1>4, <1>5, <1>6

LEMMA PushElements ==
  ASSUME NEW S, NEW q \in Seq(S), NEW x \in S, ~Repeats(q), x \notin Elements(q)
  PROVE  /\ Elements(Append(q, x)) = Elements(q) \cup {x}
         /\ ~Repeats(Append(q, x))
<1> DEFINE n == Len(q)
           r == Append(q, x)
<1>1. /\ n \in Nat /\ DOMAIN q = 1..n /\ DOMAIN r = 1..(n + 1)
      /\ \A i \in 1..n : r[i] = q[i]
      /\ r[n + 1] = x
  BY PushFacts
<1>2. \A i \in 1..(n + 1) : i \in 1..n \/ i = n + 1
  BY <1>1
<1> HIDE DEF n, r
<1>3. Elements(r) = Elements(q) \cup {x}
  <2>1. ASSUME NEW y \in Elements(r) PROVE y \in Elements(q) \cup {x}
    BY <1>1, <1>2, <2>1 DEF Elements
  <2>2. ASSUME NEW y \in Elements(q) PROVE y \in Elements(r)
    <3>1. PICK i \in 1..n : y = q[i]
      BY <1>1, <2>2 DEF Elements
    <3>2. i \in 1..(n + 1) /\ r[i] = y
      BY <1>1, <3>1
    <3> QED BY <1>1, <3>2 DEF Elements
  <2>3. x \in Elements(r)
    <3>1. n + 1 \in 1..(n + 1)
      BY <1>1
    <3> QED BY <1>1, <3>1 DEF Elements
  <2> QED BY <2>1, <2>2, <2>3
<1>4. ~Repeats(r)
  <2> SUFFICES ASSUME NEW i \in 1..(n + 1), NEW j \in 1..(n + 1), r[i] = r[j]
               PROVE  i = j
    BY <1>1 DEF Repeats
  <2>1. \A k \in 1..n : q[k] # x
    BY <1>1 DEF Elements
  <2>2. \A k, l \in 1..n : q[k] = q[l] => k = l
    BY <1>1 DEF Repeats
  <2> QED BY <1>1, <1>2, <2>1, <2>2
<1> QED BY <1>3, <1>4 DEF r

-----------------------------------------------------------------------------
\* A thread that is blocked holds no connection, and is either asleep or woken.
Blocked ==
  /\ waiting \cap woken = {}
  /\ \A t \in waiting \cup woken : held[t] = None

\* Conserved and NoLostWakeup are not inductive by themselves: a woken thread
\* that held a connection would drop it, and a thread that was asleep and
\* woken at once could be notified without one more thread being woken.
IInv == TypeOK /\ Blocked /\ Conserved /\ NoLostWakeup

LEMMA ConservedElements ==
  TypeOK => (Conserved <=> /\ ~Repeats(connQueue)
                           /\ \A s, t \in Threads :
                                held[s] = held[t] /\ held[s] # None => s = t
                           /\ \A t \in Threads : held[t] \notin Elements(connQueue)
                           /\ Elements(connQueue) \cup ({held[t] : t \in Threads} \ {None})
                                = 1..currentCount)
  BY DEF Conserved, Repeats, Elements, Idle

\* The conjuncts of Conserved with the range of the queue as a set.
ConservedIn(idle) ==
  /\ \A s, t \in Threads : held[s] = held[t] /\ held[s] # None => s = t
  /\ \A t \in Threads : held[t] \notin idle
  /\ idle \cup ({held[t] : t \in Threads} \ {None}) = 1..currentCount

LEMMA InitInv == Init => IInv
<1> SUFFICES ASSUME Init PROVE IInv
  OBVIOUS
<1>1. /\ currentCount \in 1..InitSize /\ currentCount \in Conns
      /\ connQueue = [i \in 1..currentCount |-> i]
      /\ held = [t \in Threads |-> None] /\ waiting = {} /\ woken = {}
  BY PoolAssumption DEF Init, Conns
<1>2. connQueue \in Seq(Conns)
  <2>1. currentCount \in Nat /\ \A i \in 1..currentCount : i \in Conns
    BY <1>1, PoolAssumption DEF Conns
  <2> QED BY <1>1, <2>1
<1>3. TypeOK
  BY <1>1, <1>2 DEF TypeOK
<1>4. Blocked
  BY <1>1 DEF Blocked
<1>5. Conserved
  <2>1. DOMAIN connQueue = 1..currentCount /\ \A i \in 1..currentCount : connQueue[i] = i
    BY <1>1
  <2>2. Idle = 1..currentCount
    BY <2>1 DEF Idle
  <2>3. {held[t] : t \in Threads} \ {None} = {}
    BY <1>1
  <2>4. \A t \in Threads : held[t] \notin Idle
    BY <1>1, <2>2 DEF None, Conns
  <2> QED BY <1>1, <2>1, <2>2, <2>3, <2>4 DEF Conserved
<1>6. NoLostWakeup
  BY <1>1 DEF NoLostWakeup
<1> QED BY <1>3, <1>4, <1>5, <1>6 DEF IInv

LEMMA TypeStep == TypeOK /\ [Next]_vars => TypeOK'
<1> SUFFICES ASSUME TypeOK, [Next]_vars PROVE TypeOK'
  OBVIOUS
<1> USE DEF TypeOK
<1>1. CASE UNCHANGED vars
  BY <1>1 DEF vars
<1>2. ASSUME NEW t \in Threads, Pop(t)
      PROVE  connQueue' \in Seq(Conns) /\ held' \in [Threads -> Conns \cup {None}]
  BY <1>2, PopFacts DEF Pop
<1>3. ASSUME NEW t \in Threads, GetIdle(t) PROVE TypeOK'
  BY <1>2, <1>3 DEF GetIdle
<1>4. ASSUME NEW t \in Threads, GetNew(t) PROVE TypeOK'
  BY <1>4, PoolAssumption DEF GetNew, Conns
<1>5. ASSUME NEW t \in Threads, GetWait(t) PROVE TypeOK'
  BY <1>5 DEF GetWait
<1>6. ASSUME NEW t \in Threads, WakeAndPop(t) PROVE TypeOK'
  BY <1>2, <1>6 DEF WakeAndPop
<1>7. ASSUME NEW t \in Threads, WakeAndWait(t) PROVE TypeOK'
  BY <1>7 DEF WakeAndWait
<1>8. ASSUME NEW t \in Threads, SpuriousWake(t) PROVE TypeOK'
  BY <1>8 DEF SpuriousWake
<1>9. ASSUME NEW t \in Threads, Release(t) PROVE TypeOK'
  <2>1. held[t] \in Conns
    BY <1>9 DEF Release
  <2>2. connQueue' \in Seq(Conns)
    BY <1>9, <2>1, PushFacts DEF Release
  <2>3. waiting' \in SUBSET Threads /\ woken' \in SUBSET Threads
    BY <1>9 DEF Release, NotifyOne
  <2> QED BY <1>9, <2>2, <2>3 DEF Release
<1> QED BY <1>1, <1>3, <1>4, <1>5, <1>6, <1>7, <1>8, <1>9 DEF Next

LEMMA BlockedStep == TypeOK /\ Blocked /\ [Next]_vars => Blocked'
<1> SUFFICES ASSUME TypeOK, Blocked, [Next]_vars PROVE Blocked'
  OBVIOUS
<1> USE DEF TypeOK, Blocked
<1>1. CASE UNCHANGED vars
  BY <1>1 DEF vars
<1>2. ASSUME NEW t \in Threads, GetIdle(t) PROVE Blocked'
  BY <1>2 DEF GetIdle, Pop, Running
<1>3. ASSUME NEW t \in Threads, GetNew(t) PROVE Blocked'
  BY <1>3 DEF GetNew, Running
<1>4. ASSUME NEW t \in Threads, GetWait(t) PROVE Blocked'
  BY <1>4 DEF GetWait, Running
<1>5. ASSUME NEW t \in Threads, WakeAndPop(t) PROVE Blocked'
  BY <1>5 DEF WakeAndPop, Pop
<1>6. ASSUME NEW t \in Threads, WakeAndWait(t) PROVE Blocked'
  BY <1>6 DEF WakeAndWait
<1>7. ASSUME NEW t \in Threads, SpuriousWake(t) PROVE Blocked'
  BY <1>7 DEF SpuriousWake
<1>8. ASSUME NEW t \in Threads, Release(t) PROVE Blocked'
  <2>1. t \notin waiting \cup woken
    BY <1>8 DEF Release
  <2>2. waiting' \cup woken' = waiting \cup woken /\ waiting' \cap woken' = {}
    BY <1>8 DEF Release, NotifyOne
  <2> QED BY <1>8, <2>1, <2>2 DEF Release
<1> QED BY <1>1, <1>2, <1>3, <1>4, <1>5, <1>6, <1>7, <1>8 DEF Next

\* What the four kinds of step do to the places of the connections.
LEMMA Taken ==
  ASSUME TypeOK, Conserved, NEW t \in Threads, held[t] = None,
         Pop(t), currentCount' = currentCount
  PROVE  Conserved' /\ Idle' = Idle \ {Head(connQueue)} /\ Head(connQueue) \in Idle
<1> DEFINE h == Head(connQueue)
<1>1. /\ ~Repeats(connQueue) /\ ConservedIn(Elements(connQueue))
      /\ Idle = Elements(connQueue) /\ Idle' = Elements(connQueue')
  BY DEF Conserved, ConservedIn, Repeats, Elements, Idle
<1>2. /\ connQueue \in Seq(Conns) /\ connQueue # <<>> /\ connQueue' = Tail(connQueue)
      /\ held' = [held EXCEPT ![t] = h] /\ h \in Conns /\ h # None
      /\ held \in [Threads -> Conns \cup {None}]
  <2>1. connQueue \in Seq(Conns) /\ connQueue # <<>>
    BY DEF TypeOK, Pop
  <2>2. h \in Conns
    BY <2>1, PopFacts
  <2>3. h # None
    BY <2>2 DEF Conns, None
  <2> QED BY <2>1, <2>2, <2>3 DEF TypeOK, Pop
<1>3. /\ Elements(connQueue') = Elements(connQueue) \ {h}
      /\ h \in Elements(connQueue) /\ ~Repeats(connQueue')
  BY <1>1, <1>2, PopElements
<1> HIDE DEF h
<1>4. \A s \in Threads : held'[s] = IF s = t THEN h ELSE held[s]
  BY <1>2
<1>5. \A r, s \in Threads : held'[r] = held'[s] /\ held'[r] # None => r = s
  BY <1>1, <1>3, <1>4 DEF ConservedIn
<1>6. \A s \in Threads : held'[s] \notin Elements(connQueue')
  BY <1>1, <1>3, <1>4 DEF ConservedIn
<1>7. {held'[s] : s \in Threads} \ {None} = ({held[s] : s \in Threads} \ {None}) \cup {h}
  BY <1>2, <1>4
<1>8. Elements(connQueue') \cup ({held'[s] : s \in Threads} \ {None}) = 1..currentCount'
  BY <1>1, <1>3, <1>7 DEF ConservedIn
<1>9. \A i, j \in DOMAIN connQueue' : connQueue'[i] = connQueue'[j] => i = j
  BY <1>3 DEF Repeats
<1> QED BY <1>1, <1>3, <1>5, <1>6, <1>8, <1>9 DEF Conserved, h

LEMMA Opened ==
  ASSUME TypeOK, Conserved, NEW t \in Threads, GetNew(t)
  PROVE  /\ Conserved' /\ Idle = {} /\ Idle' = {}
         /\ currentCount' \in Conns
         /\ currentCount' \notin {held[s] : s \in Threads}
<1>1. /\ held[t] = None /\ connQueue = <<>> /\ connQueue' = connQueue
      /\ currentCount \in Nat /\ currentCount' = currentCount + 1
      /\ currentCount' \in Conns /\ currentCount' # None
      /\ held' = [held EXCEPT ![t] = currentCount']
      /\ held \in [Threads -> Conns \cup {None}]
  BY PoolAssumption DEF GetNew, TypeOK, Conns, None
<1>2. Idle = {} /\ Idle' = {}
  BY <1>1 DEF Idle
<1>3. {held[s] : s \in Threads} \ {None} = 1..currentCount
  BY <1>2 DEF Conserved
<1>4. currentCount' \notin {held[s] : s \in Threads}
  BY <1>1, <1>3
<1>5. \A s \in Threads : held'[s] = IF s = t THEN currentCount' ELSE held[s]
  BY <1>1
<1>6. \A r, s \in Threads : held'[r] = held'[s] /\ held'[r] # None => r = s
  BY <1>4, <1>5 DEF Conserved
<1>7. {held'[s] : s \in Threads} \ {None} = 1..currentCount'
  <2>1. {held'[s] : s \in Threads} \ {None}
          = ({held[s] : s \in Threads} \ {None}) \cup {currentCount'}
    BY <1>1, <1>5
  <2>2. (1..currentCount) \cup {currentCount'} = 1..currentCount'
    BY <1>1
  <2> QED BY <1>3, <2>1, <2>2
<1>8. \A i, j \in DOMAIN connQueue' : connQueue'[i] = connQueue'[j] => i = j
  BY <1>1
<1> QED BY <1>1, <1>2, <1>4, <1>6, <1>7, <1>8 DEF Conserved

LEMMA Returned ==
  ASSUME TypeOK, Conserved, NEW t \in Threads, Release(t)
  PROVE  Conserved' /\ Idle' = Idle \cup {held[t]}
<1> DEFINE k == held[t]
<1>1. /\ ~Repeats(connQueue) /\ ConservedIn(Elements(connQueue))
      /\ Idle = Elements(connQueue) /\ Idle' = Elements(connQueue')
  BY DEF Conserved, ConservedIn, Repeats, Elements, Idle
<1>2. /\ connQueue \in Seq(Conns) /\ connQueue' = Append(connQueue, k)
      /\ held' = [held EXCEPT ![t] = None] /\ k \in Conns /\ k # None
      /\ held \in [Threads -> Conns \cup {None}]
      /\ currentCount' = currentCount
  BY DEF TypeOK, Release
<1>3. k \notin Elements(connQueue)
  BY <1>1 DEF ConservedIn
<1>4. Elements(connQueue') = Elements(connQueue) \cup {k} /\ ~Repeats(connQueue')
  BY <1>1, <1>2, <1>3, PushElements
<1>5. \A s \in Threads : held'[s] = IF s = t THEN None ELSE held[s]
  BY <1>2
<1>6. None \notin Elements(connQueue')
  <2>1. None \notin 1..currentCount
    BY DEF None
  <2> QED BY <1>1, <1>2, <1>4, <2>1 DEF ConservedIn
<1>7. \A s \in Threads : held'[s] \notin Elements(connQueue')
  BY <1>1, <1>2, <1>4, <1>5, <1>6 DEF ConservedIn
<1>8. {held'[s] : s \in Threads} \ {None} = ({held[s] : s \in Threads} \ {None}) \ {k}
  <2>1. \A s \in Threads : held[s] = k => s = t
    BY <1>1, <1>2 DEF ConservedIn
  <2> QED BY <1>2, <1>5, <2>1
<1>9. Elements(connQueue') \cup ({held'[s] : s \in Threads} \ {None}) = 1..currentCount'
  BY <1>1, <1>2, <1>4, <1>8 DEF ConservedIn
<1>10. \A r, s \in Threads : held'[r] = held'[s] /\ held'[r] # None => r = s
  BY <1>1, <1>5 DEF ConservedIn
<1>11. \A i, j \in DOMAIN connQueue' : connQueue'[i] = connQueue'[j] => i = j
  BY <1>4 DEF Repeats
<1> QED BY <1>1, <1>4, <1>7, <1>9, <1>10, <1>11 DEF Conserved

LEMMA ConservedStep == TypeOK /\ Blocked /\ Conserved /\ [Next]_vars => Conserved'
<1> SUFFICES ASSUME TypeOK, Blocked, Conserved, [Next]_vars PROVE Conserved'
  OBVIOUS
<1>1. ASSUME UNCHANGED <<connQueue, currentCount, held>> PROVE Conserved'
  BY <1>1 DEF Conserved, Idle
<1>2. CASE UNCHANGED vars
  BY <1>1, <1>2 DEF vars
<1>3. ASSUME NEW t \in Threads, GetIdle(t) PROVE Conserved'
  BY <1>3, Taken DEF GetIdle
<1>4. ASSUME NEW t \in Threads, GetNew(t) PROVE Conserved'
  BY <1>4, Opened
<1>5. ASSUME NEW t \in Threads, GetWait(t) PROVE Conserved'
  BY <1>1, <1>5 DEF GetWait
<1>6. ASSUME NEW t \in Threads, WakeAndPop(t) PROVE Conserved'
  BY <1>6, Taken DEF WakeAndPop, Blocked
<1>7. ASSUME NEW t \in Threads, WakeAndWait(t) PROVE Conserved'
  BY <1>1, <1>7 DEF WakeAndWait
<1>8. ASSUME NEW t \in Threads, SpuriousWake(t) PROVE Conserved'
  BY <1>1, <1>8 DEF SpuriousWake
<1>9. ASSUME NEW t \in Threads, Release(t) PROVE Conserved'
  BY <1>9, Returned
<1> QED BY <1>2, <1>3, <1>4, <1>5, <1>6, <1>7, <1>8, <1>9 DEF Next

LEMMA WakeupStep ==
  TypeOK /\ Blocked /\ NoLostWakeup /\ [Next]_vars => NoLostWakeup'
<1> SUFFICES ASSUME TypeOK, Blocked, NoLostWakeup, [Next]_vars, waiting' # {}
             PROVE  Len(connQueue') <= Cardinality(woken')
  BY DEF NoLostWakeup
<1>1. /\ IsFiniteSet(waiting) /\ IsFiniteSet(woken) /\ Cardinality(woken) \in Nat
      /\ waiting \subseteq Threads /\ woken \subseteq Threads
      /\ connQueue \in Seq(Conns) /\ Len(connQueue) \in Nat
  <2>1. waiting \subseteq Threads /\ woken \subseteq Threads
    BY DEF TypeOK
  <2>2. IsFiniteSet(waiting) /\ IsFiniteSet(woken)
    BY <2>1, PoolAssumption, FS_Subset
  <2> QED BY <2>1, <2>2, FS_CardinalityType DEF TypeOK
<1>2. ASSUME NEW t \in Threads, t \notin woken
      PROVE  Cardinality(woken \cup {t}) = Cardinality(woken) + 1
  BY <1>1, <1>2, FS_AddElement
<1>3. ASSUME NEW t \in Threads, Pop(t) PROVE Len(connQueue') = Len(connQueue) - 1
  BY <1>1, <1>3, PopFacts DEF Pop
<1>4. CASE UNCHANGED vars
  BY <1>4 DEF vars, NoLostWakeup
<1>5. ASSUME NEW t \in Threads, GetIdle(t) PROVE Len(connQueue') <= Cardinality(woken')
  BY <1>1, <1>3, <1>5 DEF GetIdle, NoLostWakeup
<1>6. ASSUME NEW t \in Threads, GetNew(t) PROVE Len(connQueue') <= Cardinality(woken')
  BY <1>6 DEF GetNew, NoLostWakeup
<1>7. ASSUME NEW t \in Threads, connQueue = <<>>, connQueue' = connQueue
      PROVE  Len(connQueue') = 0
  BY <1>7
<1>8. ASSUME NEW t \in Threads, GetWait(t) PROVE Len(connQueue') <= Cardinality(woken')
  BY <1>1, <1>7, <1>8 DEF GetWait
<1>9. ASSUME NEW t \in Threads, WakeAndPop(t) PROVE Len(connQueue') <= Cardinality(woken')
  <2>1. Cardinality(woken \ {t}) = Cardinality(woken) - 1
    BY <1>1, <1>9, FS_RemoveElement DEF WakeAndPop
  <2> QED BY <1>1, <1>3, <1>9, <2>1 DEF WakeAndPop, NoLostWakeup
<1>10. ASSUME NEW t \in Threads, WakeAndWait(t) PROVE Len(connQueue') <= Cardinality(woken')
  <2>1. IsFiniteSet(woken') /\ Cardinality(woken') \in Nat
    BY <1>1, <1>10, FS_Subset, FS_CardinalityType DEF WakeAndWait
  <2> QED BY <1>7, <1>10, <2>1 DEF WakeAndWait
<1>11. ASSUME NEW t \in Threads, SpuriousWake(t) PROVE Len(connQueue') <= Cardinality(woken')
  <2>1. t \notin woken /\ waiting # {} /\ woken' = woken \cup {t} /\ connQueue' = connQueue
    BY <1>11 DEF SpuriousWake, Blocked
  <2> QED BY <1>1, <1>2, <2>1 DEF NoLostWakeup
<1>12. ASSUME NEW t \in Threads, Release(t) PROVE Len(connQueue') <= Cardinality(woken')
  <2>1. Len(connQueue') = Len(connQueue) + 1
    BY <1>1, <1>12, PushFacts DEF Release, TypeOK
  <2>2. waiting # {}
    BY <1>12 DEF Release, NotifyOne
  <2>3. PICK s \in waiting : woken' = woken \cup {s}
    BY <1>12, <2>2 DEF Release, NotifyOne
  <2>4. s \in Threads /\ s \notin woken
    BY <1>1 DEF Blocked
  <2> QED BY <1>1, <1>2, <2>1, <2>2, <2>3, <2>4 DEF NoLostWakeup
<1> QED BY <1>4, <1>5, <1>6, <1>8, <1>9, <1>10, <1>11, <1>12 DEF Next

LEMMA Invariance == Spec => []IInv
<1>1. IInv /\ [Next]_vars => IInv'
  BY TypeStep, BlockedStep, ConservedStep, WakeupStep DEF IInv
<1> QED BY InitInv, <1>1, PTL DEF Spec

\* connectionpool.cpp: the queue, the counter and the MySQL handles keep their
\* types; in particular _currentCount never passes _maxSize.
THEOREM PoolTypeOK == Spec => []TypeOK
  BY Invariance, PTL DEF IInv

\* connectionpool.cpp: every connection ever opened is idle once or lent to one
\* thread, whatever the threads do.
THEOREM PoolConserved == Spec => []Conserved
  BY Invariance, PTL DEF IInv

\* connectionpool.cpp: one notify_one per returned connection loses no wakeup.
THEOREM PoolNoLostWakeup == Spec => []NoLostWakeup
  BY Invariance, PTL DEF IInv

-----------------------------------------------------------------------------
(* The pool implements ResourcePool.                                       *)

LEMMA AbstractInit == Init => Abstract!Init
<1> SUFFICES ASSUME Init PROVE Abstract!Init
  OBVIOUS
<1>1. Idle \in SUBSET Conns
  <2>1. IInv
    BY InitInv
  <2>2. connQueue \in Seq(Conns) /\ DOMAIN connQueue = 1..Len(connQueue)
    BY <2>1 DEF IInv, TypeOK
  <2> QED BY <2>2 DEF Idle
<1> QED BY <1>1 DEF Init, Abstract!Init

LEMMA AbstractStep == IInv /\ [Next]_vars => [Abstract!Next]_(Abstract!vars)
<1> SUFFICES ASSUME IInv, [Next]_vars
             PROVE  Abstract!Next \/ UNCHANGED Abstract!vars
  OBVIOUS
<1> USE DEF IInv
<1>1. ASSUME UNCHANGED <<connQueue, held>> PROVE UNCHANGED Abstract!vars
  BY <1>1 DEF Abstract!vars, Idle
<1>2. ASSUME NEW t \in Threads, held[t] = None, Pop(t), currentCount' = currentCount
      PROVE  Abstract!Lend(t)
  BY <1>2, Taken DEF Abstract!Lend, Pop
<1>3. CASE UNCHANGED vars
  BY <1>1, <1>3 DEF vars
<1>4. ASSUME NEW t \in Threads, GetIdle(t) PROVE Abstract!Next
  BY <1>2, <1>4 DEF GetIdle, Abstract!Next
<1>5. ASSUME NEW t \in Threads, GetNew(t) PROVE Abstract!Next
  <2>1. /\ Idle = {} /\ Idle' = {} /\ currentCount' \in Conns
        /\ currentCount' \notin {held[s] : s \in Threads}
    BY <1>5, Opened
  <2>2. currentCount' \in Conns \ Abstract!Opened
    BY <2>1 DEF Abstract!Opened
  <2>3. held[t] = None /\ held' = [held EXCEPT ![t] = currentCount']
    BY <1>5 DEF GetNew
  <2> QED BY <2>1, <2>2, <2>3 DEF Abstract!Open, Abstract!Next
<1>6. ASSUME NEW t \in Threads, GetWait(t) PROVE UNCHANGED Abstract!vars
  BY <1>1, <1>6 DEF GetWait
<1>7. ASSUME NEW t \in Threads, WakeAndPop(t) PROVE Abstract!Next
  BY <1>2, <1>7 DEF WakeAndPop, Blocked, Abstract!Next
<1>8. ASSUME NEW t \in Threads, WakeAndWait(t) PROVE UNCHANGED Abstract!vars
  BY <1>1, <1>8 DEF WakeAndWait
<1>9. ASSUME NEW t \in Threads, SpuriousWake(t) PROVE UNCHANGED Abstract!vars
  BY <1>1, <1>9 DEF SpuriousWake
<1>10. ASSUME NEW t \in Threads, Release(t) PROVE Abstract!Next
  BY <1>10, Returned DEF Release, Abstract!Return, Abstract!Next
<1> QED BY <1>3, <1>4, <1>5, <1>6, <1>7, <1>8, <1>9, <1>10 DEF Next

\* connectionpool.cpp and db.cpp together do what ResourcePool promises: a
\* connection is lent to one thread at a time, and opened only when none is
\* idle.
THEOREM PoolImplementsResourcePool == Spec => ImplementsResourcePool
  BY AbstractInit, AbstractStep, Invariance, PTL
  DEF Spec, ImplementsResourcePool, Abstract!Spec
=============================================================================
