---------------------------- MODULE AccountsProofs ----------------------------
(***************************************************************************)
(* What holds of registration and login for any number of clients, pooled  *)
(* connections and requests: a connection to the database serves one       *)
(* handler at a time, and so the id that REGISTER_OK brings is that of the *)
(* account that was asked for; and when a connection breaks, only what     *)
(* comes over it may be wrong, and only an INSERT under way on it makes an *)
(* account that nobody hears of.                                           *)
(***************************************************************************)
EXTENDS Accounts, TLAPS

Types ==
  /\ queue \in Seq(DbConns) /\ broken \subseteq DbConns
  /\ user \in Seq(Rows \cup {None})
  /\ insertId \in [DbConns -> Nat]
  /\ reqs \in Seq(Requests) /\ Len(reqs) <= MaxReqs
  /\ answers \in [1..MaxReqs -> [errno : Errnos, id : Nat, via : DbConns \cup {None}]]
  /\ pc \in [Conns -> {"idle", "borrow", "reg", "login", "insert_id", "release", "answer"}]
  /\ db \in [Conns -> DbConns \cup {None}]
  /\ job \in [Conns -> 0..MaxReqs] /\ got \in [Conns -> Nat]

\* A connection to the database is in one place only.
Lent ==
  /\ \A i, j \in DOMAIN queue : queue[i] = queue[j] => i = j
  /\ \A c \in Conns : Holds(c) =>
       /\ db[c] \in DbConns /\ \A i \in DOMAIN queue : queue[i] # db[c]
       /\ \A e \in Conns \ {c} : Holds(e) => db[e] # db[c]

\* Each running handler has a request of its own that nobody has answered.
Handling ==
  /\ \A c \in Conns : pc[c] # "idle" =>
       /\ job[c] \in 1..Len(reqs) /\ answers[job[c]] = Unanswered
       /\ \A e \in Conns \ {c} : pc[e] # "idle" => job[e] # job[c]
  /\ \A n \in 1..MaxReqs : n > Len(reqs) => answers[n] = Unanswered
  /\ \A c \in Conns :
       /\ pc[c] \in {"reg", "insert_id"} => Request(c).kind = "reg"
       /\ pc[c] = "login" => Request(c).kind = "login"
       /\ pc[c] \notin {"release", "answer"} => got[c] = 0

\* The id that a registration has made and not yet answered, 0 for none.
Made(c) ==
  IF pc[c] = "insert_id" THEN insertId[db[c]]
  ELSE IF pc[c] \in {"release", "answer"} /\ Request(c).kind = "reg" THEN got[c]
  ELSE 0

Owned ==
  \A c \in Conns : Made(c) # 0 =>
    /\ Made(c) \in DOMAIN user /\ user[Made(c)] = Row(c)
    /\ \A n \in 1..MaxReqs : answers[n].errno = "REGISTER_OK" => answers[n].id # Made(c)
    /\ \A e \in Conns \ {c} : Made(e) # Made(c)

IInv == Types /\ Lent /\ Handling /\ Owned /\ RegisteredIsOwn

\* What a handler has been told by the database, or by a broken connection.
Informed(c) ==
  /\ Request(c).kind = "login" /\ Request(c).known => IsRow(Request(c).id)
  /\ pc[c] = "insert_id" => Taken(Request(c).name)
  /\ pc[c] \in {"release", "answer"} =>
       /\ Request(c).kind = "reg" /\ got[c] = 0 =>
            Taken(Request(c).name) \/ db[c] \in broken
       /\ Request(c).kind = "login" /\ got[c] = 0 =>
            ~Request(c).known \/ db[c] \in broken
       /\ Request(c).kind = "login" /\ got[c] # 0 =>
            got[c] = Request(c).id /\ IsRow(got[c])

Told == \A c \in Conns : pc[c] # "idle" => Informed(c)

\* The INSERT went through, but its connection broke before the result came.
Unheard(c) ==
  /\ pc[c] \in {"release", "answer"} /\ Request(c).kind = "reg"
  /\ got[c] = 0 /\ db[c] \in broken

\* Where the knowledge of an account is.
KnownTo(id) ==
  \/ \E n \in 1..MaxReqs : answers[n].errno = "REGISTER_OK" /\ answers[n].id = id
  \/ \E c \in Conns : Made(c) = id
  \/ \E c \in Conns : Unheard(c) /\ Request(c).name = user[id].name
  \/ \E n \in 1..MaxReqs :
       /\ answers[n].errno = "REGISTER_USER_EXISTS" /\ answers[n].via \in broken
       /\ reqs[n].name = user[id].name

NoneLost == \A id \in DOMAIN user : IsRow(id) => KnownTo(id)

Honesty == IInv /\ Told /\ OnlyBrokenLies /\ NoneLost

-----------------------------------------------------------------------------
LEMMA InitAccounts == Init => IInv
<1> SUFFICES ASSUME Init PROVE IInv
  OBVIOUS
<1> USE AccountsAssumption DEF Init
<1>1. Unanswered \in [errno : Errnos, id : Nat, via : DbConns \cup {None}]
      /\ Unanswered.errno # "REGISTER_OK"
  BY DEF Unanswered, Errnos
<1>2. Types
  BY <1>1 DEF Types
<1>3. Lent
  BY DEF Lent, Holds
<1>4. Handling
  BY DEF Handling
<1>5. Owned
  BY DEF Owned, Made
<1>6. RegisteredIsOwn
  BY <1>1 DEF RegisteredIsOwn, IsRow, Winners
<1> QED BY <1>2, <1>3, <1>4, <1>5, <1>6 DEF IInv

-----------------------------------------------------------------------------
(* Types                                                                   *)

LEMMA VerdictType ==
  ASSUME NEW r \in Requests
  PROVE  Verdict(r) # "valid" => Verdict(r) \in Errnos \ {"REGISTER_OK"}
  BY DEF Verdict, Errnos

\* What a running handler can rely on.
LEMMA RequestType ==
  ASSUME Types, Handling, NEW c \in Conns, pc[c] # "idle"
  PROVE  /\ Request(c) \in Requests
         /\ Request(c).kind = "reg" => Row(c) \in Rows
         /\ Request(c).kind = "login" => Request(c).id \in 1..MaxReqs
         /\ Request(c).kind \in {"reg", "login"}
<1>1. reqs \in Seq(Requests) /\ job[c] \in 1..Len(reqs)
  BY DEF Types, Handling
<1>2. Request(c) \in Requests
  <2>1. \A S, s, i : s \in Seq(S) /\ i \in 1..Len(s) => s[i] \in S
    OBVIOUS
  <2> QED BY <1>1, <2>1 DEF Request
<1>3. \/ Request(c) \in [kind : {"reg"}, name : Names, pwd : Pwds]
      \/ Request(c) \in [kind : {"login"}, id : 1..MaxReqs, pwd : Pwds, known : BOOLEAN]
  BY <1>2 DEF Requests
<1> QED BY <1>2, <1>3 DEF Row, Rows

LEMMA RegTypes ==
  ASSUME Types, NEW c \in Conns, NEW name \in Names, NEW pwd \in Pwds, Reg(c, name, pwd)
  PROVE  Types'
<1> USE AccountsAssumption DEF Types
<1> DEFINE r == [kind |-> "reg", name |-> name, pwd |-> pwd]
<1>1. r \in Requests
  BY DEF Requests
<1>2. reqs' = Append(reqs, r) /\ Len(reqs) < MaxReqs
  BY DEF Reg
<1>3. reqs' \in Seq(Requests) /\ Len(reqs') <= MaxReqs /\ Len(reqs) + 1 \in 1..MaxReqs
  BY <1>1, <1>2
<1>4. UNCHANGED <<queue, broken, user, insertId, db, got>>
  BY DEF Reg
<1>5. CASE Verdict(r) = "valid"
  <2>1. pc' = [pc EXCEPT ![c] = "borrow"] /\ job' = [job EXCEPT ![c] = Len(reqs) + 1]
        /\ answers' = answers
    BY <1>5 DEF Reg
  <2> QED BY <1>3, <1>4, <2>1
<1>6. CASE Verdict(r) # "valid"
  <2>1. answers' = [answers EXCEPT ![Len(reqs) + 1].errno = Verdict(r)]
        /\ UNCHANGED <<pc, job>>
    BY <1>6 DEF Reg
  <2>2. Verdict(r) \in Errnos
    BY <1>1, <1>6, VerdictType
  <2> HIDE DEF r
  <2> QED BY <1>3, <1>4, <2>1, <2>2
<1> QED BY <1>5, <1>6

LEMMA LoginTypes ==
  ASSUME Types, NEW c \in Conns, NEW id \in 1..MaxReqs, NEW pwd \in Pwds, Login(c, id, pwd)
  PROVE  Types'
<1> USE AccountsAssumption
<1> DEFINE r == [kind |-> "login", id |-> id, pwd |-> pwd, known |-> IsRow(id)]
<1>1. r \in Requests
  <2>1. IsRow(id) \in BOOLEAN
    BY DEF IsRow
  <2>2. r \in [kind : {"login"}, id : 1..MaxReqs, pwd : Pwds, known : BOOLEAN]
    BY <2>1
  <2> QED BY <2>2 DEF Requests
<1>2. reqs' = Append(reqs, r) /\ Len(reqs) < MaxReqs
  BY DEF Login
<1> HIDE DEF r
<1>3. reqs' \in Seq(Requests) /\ Len(reqs') <= MaxReqs /\ Len(reqs) + 1 \in 1..MaxReqs
  BY <1>1, <1>2 DEF Types
<1>4. /\ pc' = [pc EXCEPT ![c] = "borrow"] /\ job' = [job EXCEPT ![c] = Len(reqs) + 1]
      /\ UNCHANGED <<queue, broken, user, insertId, answers, db, got>>
  BY DEF Login
<1>5. /\ pc' \in [Conns -> {"idle", "borrow", "reg", "login", "insert_id", "release", "answer"}]
      /\ job' \in [Conns -> 0..MaxReqs]
  BY <1>3, <1>4 DEF Types
<1> QED BY <1>3, <1>4, <1>5 DEF Types

LEMMA HandlerTypes ==
  ASSUME Types, Lent, Handling, NEW c \in Conns, Handler(c) \/ InsertUnheard(c)
  PROVE  Types'
<1> USE AccountsAssumption
<1>1. ASSUME Borrow(c) PROVE Types'
  <2>1. Request(c).kind \in {"reg", "login"}
    BY <1>1, RequestType DEF Borrow
  <2>2. /\ queue # <<>> /\ db' = [db EXCEPT ![c] = Head(queue)] /\ queue' = Tail(queue)
        /\ pc' = [pc EXCEPT ![c] = Request(c).kind]
        /\ UNCHANGED <<broken, user, insertId, reqs, answers, job, got>>
    BY <1>1 DEF Borrow
  <2>3. queue' \in Seq(DbConns) /\ Head(queue) \in DbConns
    BY <2>2 DEF Types
  <2>4. db' \in [Conns -> DbConns \cup {None}]
    BY <2>2, <2>3 DEF Types
  <2>5. pc' \in [Conns -> {"idle", "borrow", "reg", "login", "insert_id", "release", "answer"}]
    BY <2>1, <2>2 DEF Types
  <2> QED BY <2>2, <2>3, <2>4, <2>5 DEF Types
<1>2. ASSUME Insert(c) \/ InsertUnheard(c) PROVE Types'
  <2>0. pc[c] = "reg"
    BY <1>2 DEF Insert, InsertUnheard
  <2>1. Row(c) \in Rows /\ db[c] \in DbConns
    <3>1. Request(c).kind = "reg"
      BY <2>0 DEF Handling
    <3> QED BY <2>0, <3>1, RequestType DEF Lent, Holds
  <2>2. user' = Append(user, None) \/ user' = Append(user, Row(c))
    BY <1>2 DEF Insert, InsertUnheard
  <2>3. user' \in Seq(Rows \cup {None})
    <3>1. \A S, s, e : s \in Seq(S) /\ e \in S => Append(s, e) \in Seq(S)
      OBVIOUS
    <3>2. user \in Seq(Rows \cup {None})
      BY DEF Types
    <3>3. None \in Rows \cup {None} /\ Row(c) \in Rows \cup {None}
      BY <2>1
    <3>4. /\ Append(user, None) \in Seq(Rows \cup {None})
          /\ Append(user, Row(c)) \in Seq(Rows \cup {None})
      BY <3>1, <3>2, <3>3, Zenon
    <3> QED BY <2>2, <3>4, Zenon
  <2>4. Len(user) + 1 \in Nat
    BY DEF Types
  <2>5. insertId' = insertId \/ insertId' = [insertId EXCEPT ![db[c]] = Len(user) + 1]
    BY <1>2 DEF Insert, InsertUnheard
  <2>6. \/ pc' = [pc EXCEPT ![c] = "release"]
        \/ pc' = [pc EXCEPT ![c] = "insert_id"]
    BY <1>2 DEF Insert, InsertUnheard
  <2>7. broken' = broken \/ broken' = broken \cup {db[c]}
    BY <1>2 DEF Insert, InsertUnheard
  <2>8. UNCHANGED <<queue, reqs, answers, job, db, got>>
    BY <1>2 DEF Insert, InsertUnheard
  <2>9. insertId' \in [DbConns -> Nat]
    BY <2>1, <2>4, <2>5 DEF Types
  <2>10. pc' \in [Conns -> {"idle", "borrow", "reg", "login", "insert_id", "release", "answer"}]
    BY <2>6 DEF Types
  <2>11. broken' \subseteq DbConns
    BY <2>1, <2>7 DEF Types
  <2> QED BY <2>3, <2>8, <2>9, <2>10, <2>11 DEF Types
<1>3. ASSUME InsertId(c) \/ StatementFails(c) PROVE Types'
  <2>1. db[c] \in DbConns
    BY <1>3 DEF InsertId, StatementFails, Lent, Holds
  <2> QED BY <1>3, <2>1 DEF InsertId, StatementFails, Types
<1>4. ASSUME Query(c) PROVE Types'
  <2>1. Request(c).id \in Nat
    BY <1>4, RequestType DEF Query, Handling
  <2> QED BY <1>4, <2>1 DEF Query, Types
<1>5. ASSUME Release(c) PROVE Types'
  <2>1. db[c] \in DbConns
    BY <1>5 DEF Release, Lent, Holds
  <2> QED BY <1>5, <2>1 DEF Release, Types
<1>6. ASSUME Answer(c) PROVE Types'
  <2>1. Errno(c) \in Errnos
    BY DEF Errno, Errnos
  <2>2. [errno |-> Errno(c), id |-> got[c], via |-> db[c]]
          \in [errno : Errnos, id : Nat, via : DbConns \cup {None}]
    BY <2>1 DEF Types
  <2>3. answers' \in [1..MaxReqs -> [errno : Errnos, id : Nat, via : DbConns \cup {None}]]
    BY <1>6, <2>2 DEF Answer, Types
  <2>4. /\ pc' = [pc EXCEPT ![c] = "idle"] /\ job' = [job EXCEPT ![c] = 0]
        /\ db' = [db EXCEPT ![c] = None] /\ got' = [got EXCEPT ![c] = 0]
        /\ UNCHANGED <<queue, broken, user, insertId, reqs>>
    BY <1>6 DEF Answer
  <2> QED BY <2>3, <2>4 DEF Types
<1> QED BY <1>1, <1>2, <1>3, <1>4, <1>5, <1>6 DEF Handler

LEMMA TypesStep ==
  ASSUME Types, Lent, Handling, Next
  PROVE  Types'
<1>1. ASSUME NEW d \in DbConns, Break(d) PROVE Types'
  BY <1>1 DEF Break, Types
<1> QED BY <1>1, RegTypes, LoginTypes, HandlerTypes DEF Next

-----------------------------------------------------------------------------
(* One handler per connection to the database                              *)

LEMMA LentStays ==
  ASSUME Types, Lent, UNCHANGED <<queue, db>>, NEW c \in Conns, NEW step,
         pc' = [pc EXCEPT ![c] = step],
         step \in {"reg", "login", "insert_id", "release"} => Holds(c)
  PROVE  Lent'
<1>1. \A d \in Conns : Holds(d)' => Holds(d)
  BY DEF Types, Holds
<1> QED BY <1>1 DEF Lent

LEMMA LentOfBorrow ==
  ASSUME Types, Lent, NEW c \in Conns, Borrow(c)
  PROVE  Lent'
<1>1. queue \in Seq(DbConns) /\ queue # <<>> /\ queue' = Tail(queue) /\ pc[c] = "borrow"
  BY DEF Types, Borrow
<1>2. /\ 1 \in DOMAIN queue /\ Head(queue) = queue[1] /\ queue[1] \in DbConns
      /\ \A i \in DOMAIN queue' : i + 1 \in DOMAIN queue /\ queue'[i] = queue[i + 1]
                                  /\ i + 1 # 1 /\ i \in Nat
  BY <1>1
<1>3. \A d \in Conns : db'[d] = IF d = c THEN queue[1] ELSE db[d]
  BY <1>2 DEF Types, Borrow
<1>4. \A d \in Conns : d # c => (Holds(d)' <=> Holds(d))
  BY DEF Types, Borrow, Holds
<1>5. ASSUME NEW i \in DOMAIN queue', NEW j \in DOMAIN queue', queue'[i] = queue'[j]
      PROVE  i = j
  <2>1. i + 1 = j + 1
    BY <1>2, <1>5 DEF Lent
  <2> QED BY <1>2, <2>1
<1>6. \A i \in DOMAIN queue' : queue'[i] # queue[1]
  BY <1>2 DEF Lent
<1>7. \A d \in Conns : d # c /\ Holds(d) => /\ db[d] # queue[1] /\ db[d] \in DbConns
                                            /\ \A i \in DOMAIN queue' : queue'[i] # db[d]
  BY <1>2 DEF Lent
<1>8. ASSUME NEW d \in Conns, Holds(d)'
      PROVE  /\ db'[d] \in DbConns /\ \A i \in DOMAIN queue' : queue'[i] # db'[d]
             /\ \A e \in Conns \ {d} : Holds(e)' => db'[e] # db'[d]
  <2>1. CASE d = c
    BY <1>2, <1>3, <1>4, <1>6, <1>7, <2>1
  <2>2. CASE d # c
    BY <1>3, <1>4, <1>7, <1>8, <2>2 DEF Lent
  <2> QED BY <2>1, <2>2
<1> QED BY <1>5, <1>8 DEF Lent

LEMMA LentOfRelease ==
  ASSUME Types, Lent, NEW c \in Conns, Release(c)
  PROVE  Lent'
<1>1. /\ queue \in Seq(DbConns) /\ db[c] \in DbConns /\ Holds(c)
      /\ queue' = Append(queue, db[c]) /\ UNCHANGED db
  BY DEF Types, Release, Lent, Holds
<1>2. \A d \in Conns : Holds(d)' <=> d # c /\ Holds(d)
  BY DEF Types, Release, Holds
<1>3. \A i \in DOMAIN queue' : \/ i \in DOMAIN queue /\ queue'[i] = queue[i]
                               \/ i = Len(queue) + 1 /\ queue'[i] = db[c]
  BY <1>1
<1>4. ASSUME NEW i \in DOMAIN queue', NEW j \in DOMAIN queue', queue'[i] = queue'[j]
      PROVE  i = j
  BY <1>1, <1>3, <1>4 DEF Lent
<1>5. ASSUME NEW d \in Conns, Holds(d)'
      PROVE  /\ db'[d] \in DbConns /\ \A i \in DOMAIN queue' : queue'[i] # db'[d]
             /\ \A e \in Conns \ {d} : Holds(e)' => db'[e] # db'[d]
  BY <1>1, <1>2, <1>3, <1>5 DEF Lent
<1> QED BY <1>4, <1>5 DEF Lent

LEMMA LentStep ==
  ASSUME Types, Lent, Next
  PROVE  Lent'
<1>1. ASSUME NEW c \in Conns, NEW name \in Names, NEW pwd \in Pwds, Reg(c, name, pwd)
      PROVE  Lent'
  <2>1. UNCHANGED <<queue, db>> /\ (pc' = [pc EXCEPT ![c] = "borrow"] \/ pc' = pc)
    BY <1>1 DEF Reg
  <2> QED BY <2>1, LentStays DEF Lent, Holds
<1>2. ASSUME NEW c \in Conns, NEW id \in 1..MaxReqs, NEW pwd \in Pwds, Login(c, id, pwd)
      PROVE  Lent'
  BY <1>2, LentStays DEF Login
<1>3. ASSUME NEW c \in Conns,
             Insert(c) \/ InsertUnheard(c) \/ InsertId(c) \/ Query(c) \/ StatementFails(c)
      PROVE  Lent'
  <2>1. /\ UNCHANGED <<queue, db>> /\ Holds(c)
        /\ pc' = [pc EXCEPT ![c] = "release"] \/ pc' = [pc EXCEPT ![c] = "insert_id"]
    BY <1>3 DEF Insert, InsertUnheard, InsertId, Query, StatementFails, Holds
  <2> QED BY <2>1, LentStays
<1>4. ASSUME NEW c \in Conns, Answer(c) PROVE Lent'
  <2>1. \A d \in Conns : Holds(d)' => Holds(d) /\ db'[d] = db[d]
    BY <1>4 DEF Answer, Types, Holds
  <2>2. queue' = queue
    BY <1>4 DEF Answer
  <2> QED BY <2>1, <2>2 DEF Lent
<1>5. ASSUME NEW d \in DbConns, Break(d) PROVE Lent'
  BY <1>5 DEF Break, Lent, Holds
<1> QED BY <1>1, <1>2, <1>3, <1>4, <1>5, LentOfBorrow, LentOfRelease DEF Next, Handler

-----------------------------------------------------------------------------
(* One answer per request                                                  *)

\* A handler goes on to its next statement.
LEMMA HandlingGoes ==
  ASSUME Types, Handling, NEW c \in Conns, NEW step,
         pc[c] # "idle", step # "idle", pc' = [pc EXCEPT ![c] = step],
         UNCHANGED <<reqs, answers, job>>,
         step \in {"reg", "insert_id"} => Request(c).kind = "reg",
         step = "login" => Request(c).kind = "login",
         \A d \in Conns : d # c => got'[d] = got[d],
         step \notin {"release", "answer"} => got'[c] = 0
  PROVE  Handling'
<1>1. \A d \in Conns : pc'[d] = IF d = c THEN step ELSE pc[d]
  BY DEF Types
<1>2. \A d \in Conns : Request(d)' = Request(d) /\ job'[d] = job[d]
  BY DEF Request
<1> QED BY <1>1, <1>2 DEF Handling

\* A request comes; a handler takes it up, or it is answered at once.
LEMMA HandlingStarts ==
  ASSUME Types, Handling, NEW c \in Conns, NEW r,
         pc[c] = "idle", Len(reqs) < MaxReqs, reqs' = Append(reqs, r), UNCHANGED got,
         \/ /\ pc' = [pc EXCEPT ![c] = "borrow"]
            /\ job' = [job EXCEPT ![c] = Len(reqs) + 1]
            /\ answers' = answers
         \/ /\ UNCHANGED <<pc, job>>
            /\ \A n \in 1..MaxReqs : n # Len(reqs) + 1 => answers'[n] = answers[n]
  PROVE  Handling'
<1>1. /\ Len(reqs) \in Nat /\ Len(reqs') = Len(reqs) + 1 /\ MaxReqs \in Nat
      /\ \A i \in 1..Len(reqs) : reqs'[i] = reqs[i] /\ i # Len(reqs) + 1
                                 /\ i \in 1..Len(reqs') /\ i \in 1..MaxReqs
  BY AccountsAssumption DEF Types
<1>2. \A d \in Conns :
        \/ pc'[d] = pc[d] /\ job'[d] = job[d]
        \/ d = c /\ pc'[d] = "borrow" /\ job'[d] = Len(reqs) + 1
  BY DEF Types
<1>3. \A d \in Conns : pc[d] # "idle" =>
        /\ pc'[d] = pc[d] /\ job'[d] = job[d] /\ Request(d)' = Request(d)
        /\ answers'[job[d]] = answers[job[d]]
  BY <1>1, <1>2 DEF Handling, Request
<1>4. \A n \in 1..MaxReqs : n > Len(reqs') => n > Len(reqs) /\ answers'[n] = answers[n]
  BY <1>1
<1>5. \A d \in Conns : pc'[d] # "idle" =>
        \/ pc[d] # "idle"
        \/ d = c /\ pc'[d] = "borrow" /\ job'[d] = Len(reqs) + 1
           /\ answers'[Len(reqs) + 1] = Unanswered
  <2>1. Len(reqs) + 1 \in 1..MaxReqs /\ Len(reqs) + 1 > Len(reqs)
    BY <1>1
  <2> QED BY <1>2, <2>1 DEF Handling, Types
<1>6. ASSUME NEW d \in Conns, pc'[d] # "idle"
      PROVE  /\ job'[d] \in 1..Len(reqs') /\ answers'[job'[d]] = Unanswered
             /\ \A e \in Conns \ {d} : pc'[e] # "idle" => job'[e] # job'[d]
  <2>1. Len(reqs) + 1 \in 1..Len(reqs')
    BY <1>1
  <2> QED BY <1>1, <1>3, <1>5, <1>6, <2>1 DEF Handling
<1>7. ASSUME NEW d \in Conns
      PROVE  /\ pc'[d] \in {"reg", "insert_id"} => Request(d)'.kind = "reg"
             /\ pc'[d] = "login" => Request(d)'.kind = "login"
             /\ pc'[d] \notin {"release", "answer"} => got'[d] = 0
  BY <1>2, <1>3, <1>5 DEF Handling
<1> QED BY <1>4, <1>6, <1>7 DEF Handling

LEMMA HandlingOfAnswer ==
  ASSUME Types, Handling, NEW c \in Conns, Answer(c)
  PROVE  Handling'
<1>1. \A d \in Conns : /\ d # c => pc'[d] = pc[d] /\ job'[d] = job[d] /\ got'[d] = got[d]
                       /\ d = c => pc'[d] = "idle" /\ got'[d] = 0
  BY DEF Types, Answer
<1>2. reqs' = reqs /\ pc[c] # "idle" /\ MaxReqs \in Nat
      /\ \A n \in 1..MaxReqs : n # job[c] => answers'[n] = answers[n]
  BY AccountsAssumption DEF Types, Answer
<1>3. \A d \in Conns : d # c => Request(d)' = Request(d)
  BY <1>1, <1>2 DEF Request
<1>4. ASSUME NEW d \in Conns, pc'[d] # "idle"
      PROVE  /\ job'[d] \in 1..Len(reqs') /\ answers'[job'[d]] = Unanswered
             /\ \A e \in Conns \ {d} : pc'[e] # "idle" => job'[e] # job'[d]
  <2>1. d # c /\ pc[d] # "idle" /\ job'[d] = job[d]
    BY <1>1, <1>4
  <2>2. job[d] \in 1..Len(reqs) /\ job[d] # job[c] /\ answers[job[d]] = Unanswered
    BY <1>2, <2>1 DEF Handling
  <2>3. job[d] \in 1..MaxReqs
    BY <1>2, <2>2 DEF Types
  <2> QED BY <1>1, <1>2, <2>1, <2>2, <2>3 DEF Handling
<1>5. ASSUME NEW n \in 1..MaxReqs, n > Len(reqs') PROVE answers'[n] = Unanswered
  <2>1. job[c] \in 1..Len(reqs)
    BY <1>2 DEF Handling
  <2>2. n # job[c]
    BY <1>2, <1>5, <2>1 DEF Types
  <2> QED BY <1>2, <1>5, <2>2 DEF Handling
<1> QED BY <1>1, <1>3, <1>4, <1>5 DEF Handling

LEMMA HandlingStep ==
  ASSUME Types, Handling, Next
  PROVE  Handling'
<1>1. ASSUME NEW c \in Conns, NEW name \in Names, NEW pwd \in Pwds, Reg(c, name, pwd)
      PROVE  Handling'
  <2>1. \/ /\ pc' = [pc EXCEPT ![c] = "borrow"]
           /\ job' = [job EXCEPT ![c] = Len(reqs) + 1]
           /\ answers' = answers
        \/ /\ UNCHANGED <<pc, job>>
           /\ \A n \in 1..MaxReqs : n # Len(reqs) + 1 => answers'[n] = answers[n]
    BY <1>1 DEF Reg, Types
  <2> QED BY <1>1, <2>1, HandlingStarts DEF Reg
<1>2. ASSUME NEW c \in Conns, NEW id \in 1..MaxReqs, NEW pwd \in Pwds, Login(c, id, pwd)
      PROVE  Handling'
  BY <1>2, HandlingStarts DEF Login
<1>3. ASSUME NEW c \in Conns, Borrow(c) PROVE Handling'
  <2>1. pc[c] = "borrow" /\ got'[c] = 0 /\ got' = got
        /\ pc' = [pc EXCEPT ![c] = Request(c).kind] /\ UNCHANGED <<reqs, answers, job>>
    BY <1>3 DEF Borrow, Handling
  <2>2. Request(c).kind \in {"reg", "login"}
    BY <2>1, RequestType
  <2> QED BY <2>1, <2>2, HandlingGoes
<1>4. ASSUME NEW c \in Conns, Insert(c) \/ InsertUnheard(c) PROVE Handling'
  <2>1. /\ pc[c] = "reg" /\ got' = got /\ UNCHANGED <<reqs, answers, job>>
        /\ pc' = [pc EXCEPT ![c] = "release"] \/ pc' = [pc EXCEPT ![c] = "insert_id"]
    BY <1>4 DEF Insert, InsertUnheard
  <2>2. Request(c).kind = "reg" /\ got[c] = 0
    BY <2>1 DEF Handling
  <2> QED BY <2>1, <2>2, HandlingGoes
<1>5. ASSUME NEW c \in Conns,
             InsertId(c) \/ Query(c) \/ StatementFails(c) \/ Release(c)
      PROVE  Handling'
  <2>1. /\ pc[c] # "idle" /\ UNCHANGED <<reqs, answers, job>>
        /\ pc' = [pc EXCEPT ![c] = "release"] \/ pc' = [pc EXCEPT ![c] = "answer"]
        /\ \A d \in Conns : d # c => got'[d] = got[d]
    BY <1>5 DEF InsertId, Query, StatementFails, Release, Types
  <2> QED BY <2>1, HandlingGoes
<1>6. ASSUME NEW d \in DbConns, Break(d) PROVE Handling'
  BY <1>6 DEF Break, Handling, Request
<1> QED BY <1>1, <1>2, <1>3, <1>4, <1>5, <1>6, HandlingOfAnswer DEF Next, Handler

-----------------------------------------------------------------------------
(* Every id has one owner                                                  *)

\* A step that makes no id and announces none.
LEMMA OwnersStay ==
  ASSUME Types, Owned, RegisteredIsOwn,
         user' = user,
         \A n \in 1..MaxReqs : answers'[n].errno = "REGISTER_OK" =>
           answers'[n] = answers[n] /\ reqs'[n] = reqs[n],
         \A d \in Conns : Made(d)' # 0 => Made(d)' = Made(d) /\ Row(d)' = Row(d)
  PROVE  (Owned /\ RegisteredIsOwn)'
<1>1. Owned'
  BY DEF Owned
<1>2. RegisteredIsOwn'
  BY DEF RegisteredIsOwn, IsRow, Winners
<1> QED BY <1>1, <1>2

\* What a connection whose handler does not move has made.
LEMMA MadeStays ==
  ASSUME NEW d \in Conns, pc'[d] = pc[d], got'[d] = got[d], job'[d] = job[d],
         pc[d] # "idle" => Request(d)' = Request(d),
         pc[d] = "insert_id" => insertId'[db'[d]] = insertId[db[d]]
  PROVE  Made(d)' = Made(d) /\ (pc[d] # "idle" => Row(d)' = Row(d))
  BY DEF Made, Row

\* An INSERT changes the mysql_insert_id of its own connection only.
LEMMA OthersBesideInsert ==
  ASSUME Types, Lent, NEW c \in Conns, Insert(c) \/ InsertUnheard(c), NEW d \in Conns, d # c
  PROVE  /\ Made(d)' = Made(d) /\ (Made(d) # 0 => Row(d)' = Row(d))
         /\ Request(d)' = Request(d)
<1>1. pc[c] = "reg" /\ UNCHANGED <<reqs, answers, job, db, got>> /\ Holds(c)
  BY DEF Insert, InsertUnheard, Holds
<1>2. pc'[d] = pc[d] /\ Request(d)' = Request(d)
  BY <1>1 DEF Insert, InsertUnheard, Types, Request
<1>3. pc[d] = "insert_id" => insertId'[db'[d]] = insertId[db[d]]
  <2>1. pc[d] = "insert_id" => db[d] # db[c] /\ db[d] \in DbConns
    BY <1>1 DEF Lent, Holds
  <2>2. insertId' = insertId \/ \E v : insertId' = [insertId EXCEPT ![db[c]] = v]
    BY DEF Insert, InsertUnheard
  <2> QED BY <1>1, <2>1, <2>2 DEF Types
<1>4. Made(d) # 0 => pc[d] # "idle"
  BY DEF Made
<1> QED BY <1>1, <1>2, <1>3, <1>4, MadeStays

\* The new row of a registration has a new id, that of no other account.
LEMMA OwnersOfInsert ==
  ASSUME Types, Lent, Handling, Owned, RegisteredIsOwn, NEW c \in Conns,
         Insert(c) \/ InsertUnheard(c)
  PROVE  (Owned /\ RegisteredIsOwn)'
<1> DEFINE id == Len(user) + 1
<1>1. /\ pc[c] = "reg" /\ UNCHANGED <<reqs, answers, job, db, got>>
      /\ got[c] = 0 /\ Request(c).kind = "reg" /\ Request(c)' = Request(c)
      /\ db[c] \in DbConns /\ Holds(c)
  BY DEF Insert, InsertUnheard, Handling, Request, Lent, Holds
<1>2. PICK row : /\ user' = Append(user, row)
                 /\ \/ row = None
                    \/ row = Row(c) /\ ~Taken(Request(c).name)
  BY DEF Insert, InsertUnheard
<1>3. /\ user \in Seq(Rows \cup {None}) /\ Row(c) \in Rows /\ None \notin Rows
      /\ Row(c)' = Row(c) /\ Row(c).name = Request(c).name
  BY <1>1, RequestType, AccountsAssumption DEF Types, Row, Rows
<1>4. /\ DOMAIN user = 1..Len(user) /\ DOMAIN user' = 1..id
      /\ id \notin DOMAIN user /\ id \in DOMAIN user' /\ id # 0 /\ id \in Nat
      /\ user'[id] = row
      /\ \A i \in DOMAIN user : i \in DOMAIN user' /\ user'[i] = user[i]
      /\ \A i \in DOMAIN user' : i \in DOMAIN user \/ i = id
  BY <1>2, <1>3
<1> HIDE DEF id
<1>5. \A d \in Conns : d # c => Made(d)' = Made(d) /\ (Made(d) # 0 => Row(d)' = Row(d))
  BY OthersBesideInsert
<1>6. Made(c)' = 0 \/ (Made(c)' = id /\ row = Row(c))
  <2>1. CASE pc'[c] = "release"
    BY <1>1, <2>1 DEF Made
  <2>2. CASE pc'[c] # "release"
    <3>1. Insert(c) /\ ~Taken(Request(c).name) /\ pc'[c] = "insert_id"
      BY <1>1, <2>2 DEF Insert, InsertUnheard, Types
    <3>2. insertId'[db'[c]] = id /\ user' = Append(user, Row(c))
      BY <1>1, <3>1 DEF Insert, Types, id
    <3>3. row = Row(c)
      BY <1>3, <1>4, <3>2 DEF id
    <3> QED BY <3>1, <3>2, <3>3 DEF Made
  <2> QED BY <2>1, <2>2
<1>7. \A n \in 1..MaxReqs : answers[n].errno = "REGISTER_OK" => answers[n].id \in DOMAIN user
  BY DEF RegisteredIsOwn, IsRow
<1>8. \A d \in Conns : Made(d) # 0 => Made(d) \in DOMAIN user
  BY DEF Owned
<1>9. Owned'
  <2> SUFFICES ASSUME NEW d \in Conns, Made(d)' # 0
               PROVE  /\ Made(d)' \in DOMAIN user' /\ user'[Made(d)'] = Row(d)'
                      /\ \A n \in 1..MaxReqs : answers'[n].errno = "REGISTER_OK" =>
                           answers'[n].id # Made(d)'
                      /\ \A e \in Conns \ {d} : Made(e)' # Made(d)'
    BY DEF Owned
  <2>1. CASE d = c
    BY <1>1, <1>3, <1>4, <1>5, <1>6, <1>7, <1>8, <2>1
  <2>2. CASE d # c
    BY <1>1, <1>3, <1>4, <1>5, <1>6, <1>8, <2>2 DEF Owned
  <2> QED BY <2>1, <2>2
<1>10. RegisteredIsOwn'
  <2>1. \A n \in 1..MaxReqs : answers'[n].errno = "REGISTER_OK" =>
          /\ answers'[n].id \in DOMAIN user' /\ user'[answers'[n].id] # None
          /\ user'[answers'[n].id] = [name |-> reqs'[n].name, pwd |-> reqs'[n].pwd]
    BY <1>1, <1>4, <1>7 DEF RegisteredIsOwn, IsRow
  <2>2. ASSUME NEW i \in DOMAIN user', NEW n \in 1..MaxReqs, NEW m \in 1..MaxReqs,
               answers'[n].errno = "REGISTER_OK", answers'[n].id = i,
               answers'[m].errno = "REGISTER_OK", answers'[m].id = i
        PROVE  n = m
    BY <1>1, <1>7, <2>2 DEF RegisteredIsOwn, Winners
  <2>3. ASSUME NEW i \in DOMAIN user', NEW j \in DOMAIN user',
               user'[i] # None, user'[j] # None, user'[i].name = user'[j].name
        PROVE  i = j
    <3>1. \A k \in DOMAIN user : user[k] # None /\ row # None => user[k].name # row.name
      BY <1>2, <1>3 DEF Taken, IsRow
    <3> QED BY <1>4, <2>3, <3>1 DEF RegisteredIsOwn, IsRow
  <2> QED BY <2>1, <2>2, <2>3 DEF RegisteredIsOwn, IsRow, Winners
<1> QED BY <1>9, <1>10

\* The id that is announced was made by the handler that announces it.
LEMMA OwnersOfAnswer ==
  ASSUME Types, Handling, Owned, RegisteredIsOwn, NEW c \in Conns, Answer(c)
  PROVE  (Owned /\ RegisteredIsOwn)'
<1> DEFINE n0 == job[c]
<1>1. /\ pc[c] = "answer" /\ UNCHANGED <<user, reqs, insertId>>
      /\ n0 \in 1..Len(reqs) /\ n0 \in 1..MaxReqs /\ Request(c) = reqs[n0]
  BY AccountsAssumption DEF Answer, Handling, Types, Request
<1>2. /\ answers'[n0].errno = Errno(c) /\ answers'[n0].id = got[c]
      /\ \A n \in 1..MaxReqs : n # n0 => answers'[n] = answers[n]
  BY <1>1 DEF Answer, Types
<1>3. Errno(c) = "REGISTER_OK" => Made(c) = got[c] /\ Made(c) # 0
  BY <1>1 DEF Errno, Made
<1>4. Made(c)' = 0 /\ \A d \in Conns : d # c => Made(d)' = Made(d)
                                             /\ (Made(d) # 0 => Row(d)' = Row(d))
  <2>1. pc'[c] = "idle"
    BY DEF Answer, Types
  <2>2. ASSUME NEW d \in Conns, d # c
        PROVE  Made(d)' = Made(d) /\ (Made(d) # 0 => Row(d)' = Row(d))
    <3>1. pc'[d] = pc[d] /\ got'[d] = got[d] /\ job'[d] = job[d] /\ db'[d] = db[d]
      BY <2>2 DEF Answer, Types
    <3>2. Request(d)' = Request(d)
      BY <1>1, <3>1 DEF Request
    <3>3. Made(d) # 0 => pc[d] # "idle"
      BY DEF Made
    <3> QED BY <1>1, <3>1, <3>2, <3>3, MadeStays
  <2> QED BY <2>1, <2>2 DEF Made
<1> HIDE DEF n0
<1>5. Owned'
  <2> SUFFICES ASSUME NEW d \in Conns, Made(d)' # 0
               PROVE  /\ Made(d)' \in DOMAIN user' /\ user'[Made(d)'] = Row(d)'
                      /\ \A n \in 1..MaxReqs : answers'[n].errno = "REGISTER_OK" =>
                           answers'[n].id # Made(d)'
                      /\ \A e \in Conns \ {d} : Made(e)' # Made(d)'
    BY DEF Owned
  <2>1. d # c /\ Made(d)' = Made(d) /\ Row(d)' = Row(d)
    BY <1>4
  <2>2. Errno(c) = "REGISTER_OK" => got[c] # Made(d)
    BY <1>3, <2>1 DEF Owned
  <2>3. \A n \in 1..MaxReqs : answers'[n].errno = "REGISTER_OK" => answers'[n].id # Made(d)
    BY <1>2, <2>1, <2>2 DEF Owned
  <2> QED BY <1>1, <1>4, <2>1, <2>3 DEF Owned
<1>6. RegisteredIsOwn'
  <2>1. ASSUME Errno(c) = "REGISTER_OK"
        PROVE  /\ got[c] \in DOMAIN user
               /\ user[got[c]] = [name |-> reqs[n0].name, pwd |-> reqs[n0].pwd]
               /\ user[got[c]] # None
               /\ \A n \in 1..MaxReqs : answers[n].errno = "REGISTER_OK" => answers[n].id # got[c]
    <3>1. /\ got[c] \in DOMAIN user /\ user[got[c]] = Row(c)
          /\ \A n \in 1..MaxReqs : answers[n].errno = "REGISTER_OK" => answers[n].id # got[c]
      BY <1>3, <2>1 DEF Owned
    <3>2. Request(c).kind = "reg"
      BY <2>1 DEF Errno
    <3>3. Row(c) \in Rows /\ None \notin Rows
      BY <1>1, <3>2, RequestType, AccountsAssumption DEF Rows
    <3> QED BY <1>1, <3>1, <3>3 DEF Row
  <2>2. ASSUME NEW n \in 1..MaxReqs, answers'[n].errno = "REGISTER_OK"
        PROVE  /\ answers'[n].id \in DOMAIN user' /\ user'[answers'[n].id] # None
               /\ user'[answers'[n].id] = [name |-> reqs'[n].name, pwd |-> reqs'[n].pwd]
               /\ \A m \in 1..MaxReqs :
                    answers'[m].errno = "REGISTER_OK" /\ answers'[m].id = answers'[n].id
                      => n = m
    <3>1. CASE n = n0
      BY <1>1, <1>2, <2>1, <2>2, <3>1
    <3>2. CASE n # n0
      <4>1. answers'[n] = answers[n] /\ answers[n].errno = "REGISTER_OK"
        BY <1>2, <2>2, <3>2
      <4>2. answers[n].id \in DOMAIN user
        BY <4>1 DEF RegisteredIsOwn, IsRow
      <4>3. \A m \in 1..MaxReqs :
              answers'[m].errno = "REGISTER_OK" /\ answers'[m].id = answers'[n].id
                => n = m
        BY <1>2, <2>1, <4>1, <4>2 DEF RegisteredIsOwn, Winners
      <4> QED BY <1>1, <4>1, <4>3 DEF RegisteredIsOwn, IsRow
    <3> QED BY <3>1, <3>2
  <2>3. \A i, j \in DOMAIN user' :
          user'[i] # None /\ user'[j] # None /\ user'[i].name = user'[j].name => i = j
    BY <1>1 DEF RegisteredIsOwn, IsRow
  <2>4. \A n \in 1..MaxReqs : answers'[n].errno = "REGISTER_OK" =>
          /\ answers'[n].id \in DOMAIN user' /\ user'[answers'[n].id] # None
          /\ user'[answers'[n].id] = [name |-> reqs'[n].name, pwd |-> reqs'[n].pwd]
    BY <2>2
  <2>5. ASSUME NEW id \in DOMAIN user', NEW n \in Winners(id)', NEW m \in Winners(id)'
        PROVE  n = m
    <3>1. /\ n \in 1..MaxReqs /\ answers'[n].errno = "REGISTER_OK" /\ answers'[n].id = id
          /\ m \in 1..MaxReqs /\ answers'[m].errno = "REGISTER_OK" /\ answers'[m].id = id
      BY <2>5 DEF Winners
    <3> QED BY <2>2, <3>1
  <2> QED BY <2>3, <2>4, <2>5 DEF RegisteredIsOwn, IsRow
<1> QED BY <1>5, <1>6

LEMMA OwnersStep ==
  ASSUME Types, Lent, Handling, Owned, RegisteredIsOwn, Next
  PROVE  (Owned /\ RegisteredIsOwn)'
<1>1. ASSUME NEW c \in Conns, NEW r,
             pc[c] = "idle", pc'[c] \in {"idle", "borrow"}, reqs' = Append(reqs, r),
             UNCHANGED <<user, insertId, db, got>>,
             \A d \in Conns : d # c => pc'[d] = pc[d] /\ job'[d] = job[d],
             \A n \in 1..MaxReqs : \/ answers'[n] = answers[n]
                                   \/ answers'[n].errno # "REGISTER_OK"
      PROVE  (Owned /\ RegisteredIsOwn)'
  <2>1. \A i \in 1..Len(reqs) : reqs'[i] = reqs[i]
    BY <1>1 DEF Types
  <2>2. \A n \in 1..MaxReqs : answers[n].errno = "REGISTER_OK" => n \in 1..Len(reqs)
    <3>1. Unanswered.errno # "REGISTER_OK"
      BY DEF Unanswered
    <3>2. Len(reqs) \in Nat /\ MaxReqs \in Nat
      BY AccountsAssumption DEF Types
    <3> QED BY <3>1, <3>2 DEF Handling
  <2>3. \A d \in Conns : Made(d)' # 0 => Made(d)' = Made(d) /\ Row(d)' = Row(d)
    <3> SUFFICES ASSUME NEW d \in Conns, Made(d)' # 0
                 PROVE  Made(d)' = Made(d) /\ Row(d)' = Row(d)
      OBVIOUS
    <3>1. d # c
      BY <1>1 DEF Made
    <3>2. pc'[d] = pc[d] /\ job'[d] = job[d] /\ pc[d] # "idle"
      BY <1>1, <3>1 DEF Made
    <3>3. Request(d)' = Request(d)
      BY <2>1, <3>2 DEF Request, Handling
    <3> QED BY <1>1, <3>2, <3>3, MadeStays
  <2> QED BY <1>1, <2>1, <2>2, <2>3, OwnersStay
<1>2. ASSUME NEW c \in Conns, NEW name \in Names, NEW pwd \in Pwds, Reg(c, name, pwd)
      PROVE  (Owned /\ RegisteredIsOwn)'
  <2> DEFINE r == [kind |-> "reg", name |-> name, pwd |-> pwd]
  <2>1. Verdict(r) # "valid" => Verdict(r) # "REGISTER_OK"
    <3>1. r \in Requests
      BY DEF Requests
    <3> QED BY <3>1, VerdictType
  <2>2. \/ answers' = answers
        \/ Verdict(r) # "valid"
           /\ answers' = [answers EXCEPT ![Len(reqs) + 1].errno = Verdict(r)]
    BY <1>2 DEF Reg
  <2> HIDE DEF r
  <2>3. \A n \in 1..MaxReqs : \/ answers'[n] = answers[n]
                              \/ answers'[n].errno # "REGISTER_OK"
    BY <2>1, <2>2 DEF Types
  <2>4. /\ pc[c] = "idle" /\ pc'[c] \in {"idle", "borrow"} /\ reqs' = Append(reqs, r)
        /\ UNCHANGED <<user, insertId, db, got>>
        /\ \A d \in Conns : d # c => pc'[d] = pc[d] /\ job'[d] = job[d]
    BY <1>2 DEF Reg, Types, r
  <2> QED BY <1>1, <2>3, <2>4
<1>3. ASSUME NEW c \in Conns, NEW id \in 1..MaxReqs, NEW pwd \in Pwds, Login(c, id, pwd)
      PROVE  (Owned /\ RegisteredIsOwn)'
  <2>1. /\ pc[c] = "idle" /\ pc'[c] \in {"idle", "borrow"}
        /\ \E r : reqs' = Append(reqs, r)
        /\ UNCHANGED <<user, insertId, db, got, answers>>
        /\ \A d \in Conns : d # c => pc'[d] = pc[d] /\ job'[d] = job[d]
    BY <1>3 DEF Login, Types
  <2> QED BY <1>1, <2>1
<1>4. ASSUME NEW c \in Conns,
             Borrow(c) \/ InsertId(c) \/ Query(c) \/ StatementFails(c) \/ Release(c)
      PROVE  (Owned /\ RegisteredIsOwn)'
  <2>1. /\ UNCHANGED <<user, reqs, answers, job, insertId>>
        /\ \A d \in Conns : Request(d)' = Request(d) /\ Row(d)' = Row(d)
    BY <1>4 DEF Borrow, InsertId, Query, StatementFails, Release, Request, Row
  <2>2. \A d \in Conns : d # c => pc'[d] = pc[d] /\ got'[d] = got[d] /\ db'[d] = db[d]
    BY <1>4 DEF Borrow, InsertId, Query, StatementFails, Release, Types
  <2>3. \A d \in Conns : d # c => Made(d)' = Made(d)
    BY <2>1, <2>2 DEF Made
  <2>4. Made(c)' = Made(c) \/ Made(c)' = 0
    <3>1. ASSUME Borrow(c) PROVE Made(c)' = 0
      <4>1. pc[c] = "borrow" /\ pc'[c] = Request(c).kind
        BY <3>1 DEF Borrow, Types
      <4>2. Request(c).kind \in {"reg", "login"}
        BY <4>1, RequestType
      <4> QED BY <4>1, <4>2 DEF Made
    <3>2. ASSUME InsertId(c) PROVE Made(c)' = Made(c)
      <4>1. pc[c] = "insert_id" /\ pc'[c] = "release" /\ got'[c] = insertId[db[c]]
        BY <3>2 DEF InsertId, Types
      <4>2. Request(c).kind = "reg"
        BY <4>1 DEF Handling
      <4> QED BY <2>1, <4>1, <4>2 DEF Made
    <3>3. ASSUME Query(c) PROVE Made(c)' = 0
      <4>1. pc[c] = "login" /\ pc'[c] = "release"
        BY <3>3 DEF Query, Types
      <4>2. Request(c).kind = "login"
        BY <4>1 DEF Handling
      <4> QED BY <2>1, <4>1, <4>2 DEF Made
    <3>4. ASSUME StatementFails(c) PROVE Made(c)' = 0
      <4>1. pc[c] \in {"reg", "login"} /\ pc'[c] = "release" /\ got'[c] = got[c]
        BY <3>4 DEF StatementFails, Types
      <4>2. got[c] = 0
        BY <4>1 DEF Handling
      <4> QED BY <4>1, <4>2 DEF Made
    <3>5. ASSUME Release(c) PROVE Made(c)' = Made(c)
      <4>1. pc[c] = "release" /\ pc'[c] = "answer" /\ got'[c] = got[c]
        BY <3>5 DEF Release, Types
      <4> QED BY <2>1, <4>1 DEF Made
    <3> QED BY <1>4, <3>1, <3>2, <3>3, <3>4, <3>5
  <2> QED BY <2>1, <2>3, <2>4, OwnersStay
<1>5. ASSUME NEW d \in DbConns, Break(d) PROVE (Owned /\ RegisteredIsOwn)'
  <2>1. /\ UNCHANGED <<user, reqs, answers>>
        /\ \A c \in Conns : Made(c)' = Made(c) /\ Row(c)' = Row(c)
    BY <1>5 DEF Break, Made, Row, Request
  <2> QED BY <2>1, OwnersStay
<1> QED BY <1>2, <1>3, <1>4, <1>5, OwnersOfInsert, OwnersOfAnswer DEF Next, Handler

-----------------------------------------------------------------------------
LEMMA AccountsStep == IInv /\ [Next]_vars => IInv'
<1> SUFFICES ASSUME IInv, [Next]_vars PROVE IInv'
  OBVIOUS
<1>1. CASE Next
  BY <1>1, TypesStep, LentStep, HandlingStep, OwnersStep DEF IInv
<1>2. CASE UNCHANGED vars
  BY <1>2
     DEF vars, IInv, Types, Lent, Holds, Handling, Request, Owned, Made, Row,
         RegisteredIsOwn, IsRow, Winners
<1> QED BY <1>1, <1>2

\* The types of the tables, handlers and answers, and that two handlers never
\* use one connection of the pool at the same time, broken or not.
THEOREM AccountsTypeOK == Spec => []TypeOK
<1>1. IInv => TypeOK
  BY DEF IInv, Types, Lent, TypeOK
<1> QED BY <1>1, InitAccounts, AccountsStep, PTL DEF Spec

\* REGISTER_OK brings the id of an account with the name and password that
\* were asked for, nobody else is given that id, and no name has two accounts:
\* for any number of clients that register at once, on connections that break.
THEOREM AccountsRegisteredIsOwn == Spec => []RegisteredIsOwn
<1>1. IInv => RegisteredIsOwn
  BY DEF IInv
<1> QED BY <1>1, InitAccounts, AccountsStep, PTL DEF Spec

-----------------------------------------------------------------------------
(* Answers that did not come over a broken connection are true             *)

\* What no step undoes: rows, broken connections, and requests stay.
Grows ==
  /\ \A id \in DOMAIN user : id \in DOMAIN user' /\ user'[id] = user[id]
  /\ broken \subseteq broken'
  /\ \A n \in 1..Len(reqs) : n \in 1..Len(reqs') /\ reqs'[n] = reqs[n]

LEMMA GrowsStep ==
  ASSUME Types, Next
  PROVE  Grows
<1>1. user' = user \/ \E row : user' = Append(user, row)
  BY DEF Next, Handler, Reg, Login, Borrow, Insert, InsertUnheard, InsertId, Query,
         StatementFails, Release, Answer, Break
<1>2. reqs' = reqs \/ \E r : reqs' = Append(reqs, r)
  BY DEF Next, Handler, Reg, Login, Borrow, Insert, InsertUnheard, InsertId, Query,
         StatementFails, Release, Answer, Break
<1>3. broken \subseteq broken'
  BY DEF Next, Handler, Reg, Login, Borrow, Insert, InsertUnheard, InsertId, Query,
         StatementFails, Release, Answer, Break
<1>4. user \in Seq(Rows \cup {None}) /\ reqs \in Seq(Requests)
  BY DEF Types
<1>5. \A n \in 1..Len(reqs) : n \in 1..Len(reqs') /\ reqs'[n] = reqs[n]
  <2>1. ASSUME NEW r, reqs' = Append(reqs, r)
        PROVE  \A n \in 1..Len(reqs) : n \in 1..Len(reqs') /\ reqs'[n] = reqs[n]
    BY <1>4, <2>1
  <2> QED BY <1>2, <2>1
<1>6. \A id \in DOMAIN user : id \in DOMAIN user' /\ user'[id] = user[id]
  <2>1. ASSUME NEW row, user' = Append(user, row)
        PROVE  \A id \in DOMAIN user : id \in DOMAIN user' /\ user'[id] = user[id]
    BY <1>4, <2>1
  <2> QED BY <1>1, <2>1
<1> QED BY <1>3, <1>5, <1>6 DEF Grows

LEMMA RowsStay ==
  ASSUME Grows
  PROVE  /\ \A id : IsRow(id) => IsRow(id)' /\ user'[id] = user[id]
         /\ \A name : Taken(name) => Taken(name)'
<1>1. \A id : IsRow(id) => IsRow(id)' /\ user'[id] = user[id]
  BY DEF Grows, IsRow
<1>2. ASSUME NEW name, Taken(name) PROVE Taken(name)'
  <2>1. PICK id \in DOMAIN user : IsRow(id) /\ user[id].name = name
    BY <1>2 DEF Taken
  <2>2. id \in DOMAIN user' /\ IsRow(id)' /\ user'[id].name = name
    BY <1>1, <2>1 DEF Grows
  <2> QED BY <2>2 DEF Taken
<1> QED BY <1>1, <1>2

\* What a handler knows stays true while others move.
LEMMA InformedStays ==
  ASSUME Types, Handling, Grows, NEW d \in Conns, pc[d] # "idle", Informed(d),
         pc'[d] = pc[d], job'[d] = job[d], got'[d] = got[d], db'[d] = db[d]
  PROVE  Informed(d)' /\ Request(d)' = Request(d)
<1>1. Request(d)' = Request(d)
  BY DEF Request, Handling, Grows
<1>2. PICK r : r = Request(d)
  OBVIOUS
<1>3. r.kind = "login" /\ r.known => IsRow(r.id)'
  BY <1>2, RowsStay DEF Informed
<1>4. Taken(r.name) => Taken(r.name)'
  BY RowsStay
<1>5. IsRow(got[d]) => IsRow(got[d])'
  <2>1. PICK g : g = got[d]
    OBVIOUS
  <2> QED BY <2>1, RowsStay DEF IsRow
<1>6. broken \subseteq broken'
  BY DEF Grows
<1>7. IsRow(Request(d).id)' <=> IsRow(r.id)'
  BY <1>1, <1>2 DEF IsRow
<1>8. Taken(Request(d).name)' <=> Taken(r.name)'
  BY <1>1, <1>2 DEF Taken
<1> QED BY <1>1, <1>2, <1>3, <1>4, <1>5, <1>6, <1>7, <1>8 DEF Informed
\* A handler that has just begun knows nothing but the request itself.
LEMMA InformedOfStart ==
  ASSUME Types, Handling, NEW c \in Conns, NEW r,
         pc[c] = "idle", pc'[c] = "borrow", reqs' = Append(reqs, r),
         job'[c] = Len(reqs) + 1, user' = user,
         r.kind = "login" /\ r.known => IsRow(r.id)
  PROVE  Informed(c)'
<1>1. Request(c)' = r
  BY DEF Types, Request
<1>2. r.kind = "login" /\ r.known => IsRow(r.id)'
  BY DEF IsRow
<1>3. IsRow(Request(c).id)' <=> IsRow(r.id)'
  BY <1>1 DEF IsRow
<1> QED BY <1>1, <1>2, <1>3 DEF Informed

\* The statements of a handler, its borrowing and its releasing.
LEMMA InformedMoves ==
  ASSUME Types, Lent, Handling, Told, Grows, NEW c \in Conns,
         Borrow(c) \/ Insert(c) \/ InsertUnheard(c) \/ InsertId(c) \/ Query(c)
           \/ StatementFails(c) \/ Release(c)
  PROVE  Informed(c)'
<1>1. /\ pc[c] # "idle" /\ UNCHANGED <<reqs, answers, job>>
      /\ Request(c)' = Request(c) /\ Informed(c)
  BY DEF Borrow, Insert, InsertUnheard, InsertId, Query, StatementFails, Release, Request, Told
<1>2. PICK r : r = Request(c)
  OBVIOUS
<1>3. r.kind \in {"reg", "login"}
  BY <1>1, <1>2, RequestType
<1>4. /\ r.kind = "login" /\ r.known => IsRow(r.id)'
      /\ Taken(r.name) => Taken(r.name)'
      /\ broken \subseteq broken'
  BY <1>1, <1>2, RowsStay DEF Informed, Grows
<1>5. /\ IsRow(Request(c).id)' <=> IsRow(r.id)'
      /\ Taken(Request(c).name)' <=> Taken(r.name)'
  BY <1>1, <1>2 DEF IsRow, Taken
<1>6. SUFFICES
        /\ pc'[c] = "insert_id" => Taken(r.name)'
        /\ pc'[c] \in {"release", "answer"} =>
             /\ r.kind = "reg" /\ got'[c] = 0 => Taken(r.name)' \/ db'[c] \in broken'
             /\ r.kind = "login" /\ got'[c] = 0 => ~r.known \/ db'[c] \in broken'
             /\ r.kind = "login" /\ got'[c] # 0 => got'[c] = r.id /\ IsRow(r.id)'
  <2>1. got'[c] = r.id => (IsRow(got[c])' <=> IsRow(r.id)')
    BY DEF IsRow
  <2> QED BY <1>1, <1>2, <1>4, <1>5, <2>1 DEF Informed
<1>7. CASE Borrow(c)
  <2>1. pc'[c] \in {"reg", "login"}
    BY <1>2, <1>3, <1>7 DEF Borrow, Types
  <2> QED BY <2>1
<1>8. CASE Insert(c) \/ InsertUnheard(c)
  <2>1. r.kind = "reg" /\ pc[c] = "reg"
    BY <1>2, <1>8 DEF Insert, InsertUnheard, Handling
  <2>2. ASSUME user' = Append(user, Row(c)) PROVE Taken(r.name)'
    <3>1. user \in Seq(Rows \cup {None}) /\ Row(c) \in Rows /\ None \notin Rows
      BY <1>1, <1>2, <2>1, RequestType, AccountsAssumption DEF Types, Rows
    <3>2. PICK row : row = Row(c) /\ row # None /\ row.name = r.name
      BY <1>2, <3>1 DEF Row
    <3>3. Len(user) + 1 \in DOMAIN user' /\ user'[Len(user) + 1] = row
      BY <2>2, <3>1, <3>2
    <3> QED BY <3>2, <3>3 DEF Taken, IsRow
  <2>3. \/ Taken(r.name)
        \/ user' = Append(user, Row(c))
    BY <1>2, <1>8 DEF Insert, InsertUnheard
  <2>4. Taken(r.name)'
    BY <1>4, <2>2, <2>3
  <2> QED BY <2>1, <2>4
<1>9. CASE InsertId(c)
  <2>1. r.kind = "reg" /\ Taken(r.name) /\ pc'[c] = "release"
    BY <1>1, <1>2, <1>9 DEF InsertId, Handling, Informed, Types
  <2> QED BY <1>4, <2>1
<1>10. CASE Query(c)
  <2>1. r.kind = "login" /\ pc'[c] = "release"
    BY <1>2, <1>10 DEF Query, Handling, Types
  <2>2. got'[c] = IF IsRow(r.id) THEN r.id ELSE 0
    BY <1>2, <1>10 DEF Query, Types
  <2>3. r.id \in 1..MaxReqs
    BY <1>1, <1>2, <2>1, RequestType
  <2>4. IsRow(r.id) => IsRow(r.id)' /\ r.id # 0
    BY <2>3, RowsStay
  <2>5. r.known => IsRow(r.id)
    BY <1>1, <1>2, <2>1 DEF Informed
  <2> QED BY <2>1, <2>2, <2>4, <2>5
<1>11. CASE StatementFails(c)
  <2>1. db'[c] \in broken' /\ got'[c] = 0 /\ pc'[c] = "release"
    BY <1>11 DEF StatementFails, Handling, Types
  <2> QED BY <2>1
<1>12. CASE Release(c)
  <2>1. pc[c] = "release" /\ pc'[c] = "answer" /\ got'[c] = got[c] /\ db'[c] = db[c]
    BY <1>12 DEF Release, Types
  <2>2. ASSUME r.kind = "login", got[c] # 0 PROVE got[c] = r.id /\ IsRow(r.id)'
    <3>1. got[c] = r.id /\ IsRow(got[c])
      BY <1>1, <1>2, <2>1, <2>2 DEF Informed
    <3>2. IsRow(r.id)
      BY <3>1
    <3> QED BY <3>1, <3>2, RowsStay
  <2>3. /\ r.kind = "reg" /\ got[c] = 0 => Taken(r.name) \/ db[c] \in broken
        /\ r.kind = "login" /\ got[c] = 0 => ~r.known \/ db[c] \in broken
    BY <1>1, <1>2, <2>1 DEF Informed
  <2> QED BY <1>4, <2>1, <2>2, <2>3
<1> QED BY <1>7, <1>8, <1>9, <1>10, <1>11, <1>12

LEMMA ToldStep ==
  ASSUME Types, Lent, Handling, Told, Next
  PROVE  Told'
<1>0. Grows
  BY GrowsStep
<1>1. ASSUME NEW c \in Conns,
             \A d \in Conns : d # c => /\ pc'[d] = pc[d] /\ job'[d] = job[d]
                                      /\ got'[d] = got[d] /\ db'[d] = db[d],
             pc'[c] = "idle" \/ Informed(c)'
      PROVE  Told'
  <2>1. ASSUME NEW d \in Conns, pc'[d] # "idle", d # c PROVE Informed(d)'
    BY <1>0, <1>1, <2>1, InformedStays DEF Told
  <2> QED BY <1>1, <2>1 DEF Told
<1>2. ASSUME NEW c \in Conns, NEW name \in Names, NEW pwd \in Pwds, Reg(c, name, pwd)
      PROVE  Told'
  <2> DEFINE r == [kind |-> "reg", name |-> name, pwd |-> pwd]
  <2>1. /\ pc[c] = "idle" /\ reqs' = Append(reqs, r) /\ user' = user
        /\ \/ pc'[c] = "idle"
           \/ pc'[c] = "borrow" /\ job'[c] = Len(reqs) + 1
        /\ \A d \in Conns : d # c => /\ pc'[d] = pc[d] /\ job'[d] = job[d]
                                     /\ got'[d] = got[d] /\ db'[d] = db[d]
    BY <1>2 DEF Reg, Types
  <2>2. r.kind # "login"
    OBVIOUS
  <2> HIDE DEF r
  <2> QED BY <1>1, <2>1, <2>2, InformedOfStart
<1>3. ASSUME NEW c \in Conns, NEW id \in 1..MaxReqs, NEW pwd \in Pwds, Login(c, id, pwd)
      PROVE  Told'
  <2>1. PICK r : /\ reqs' = Append(reqs, r)
                 /\ r = [kind |-> "login", id |-> id, pwd |-> pwd, known |-> IsRow(id)]
    BY <1>3 DEF Login
  <2>2. /\ pc[c] = "idle" /\ user' = user /\ pc'[c] = "borrow" /\ job'[c] = Len(reqs) + 1
        /\ \A d \in Conns : d # c => /\ pc'[d] = pc[d] /\ job'[d] = job[d]
                                     /\ got'[d] = got[d] /\ db'[d] = db[d]
    BY <1>3 DEF Login, Types
  <2>3. r.kind = "login" /\ r.known => IsRow(r.id)
    BY <2>1
  <2> QED BY <1>1, <2>1, <2>2, <2>3, InformedOfStart
<1>4. ASSUME NEW c \in Conns,
             Borrow(c) \/ Insert(c) \/ InsertUnheard(c) \/ InsertId(c) \/ Query(c)
               \/ StatementFails(c) \/ Release(c)
      PROVE  Told'
  <2>1. \A d \in Conns : d # c => /\ pc'[d] = pc[d] /\ job'[d] = job[d]
                                  /\ got'[d] = got[d] /\ db'[d] = db[d]
    BY <1>4 DEF Borrow, Insert, InsertUnheard, InsertId, Query, StatementFails, Release, Types
  <2>2. Informed(c)'
    BY <1>0, <1>4, InformedMoves
  <2> QED BY <1>1, <2>1, <2>2
<1>5. ASSUME NEW c \in Conns, Answer(c) PROVE Told'
  <2>1. /\ \A d \in Conns : d # c => /\ pc'[d] = pc[d] /\ job'[d] = job[d]
                                     /\ got'[d] = got[d] /\ db'[d] = db[d]
        /\ pc'[c] = "idle"
    BY <1>5 DEF Answer, Types
  <2> QED BY <1>1, <2>1
<1>6. ASSUME NEW d \in DbConns, Break(d) PROVE Told'
  <2>1. ASSUME NEW c \in Conns, pc'[c] # "idle" PROVE Informed(c)'
    BY <1>0, <1>6, <2>1, InformedStays DEF Break, Told
  <2> QED BY <2>1 DEF Told
<1> QED BY <1>2, <1>3, <1>4, <1>5, <1>6 DEF Next, Handler
LEMMA LiesStep ==
  ASSUME Types, Handling, Told, OnlyBrokenLies, Next
  PROVE  OnlyBrokenLies'
<1> DEFINE True(a, r) ==
      /\ a.errno = "REGISTER_USER_EXISTS" => Taken(r.name) \/ a.via \in broken
      /\ a.errno = "LOGIN_USER_NOT_EXIST" => ~r.known \/ a.via \in broken
      /\ a.errno = "LOGIN_WRONG_PASSWORD" => IsRow(r.id) /\ user[r.id].pwd # r.pwd
      /\ a.errno = "LOGIN_OK" => IsRow(r.id) /\ user[r.id].pwd = r.pwd
<1>0. Grows
  BY GrowsStep
<1>1. ASSUME NEW a, NEW r, True(a, r) PROVE True(a, r)'
  BY <1>0, <1>1, RowsStay DEF Grows
<1>2. ASSUME NEW n \in 1..MaxReqs, answers'[n] = answers[n]
      PROVE  True(answers[n], reqs[n])'
  <2>1. CASE n \in 1..Len(reqs)
    <3>1. PICK a, r : a = answers[n] /\ r = reqs[n]
      OBVIOUS
    <3>2. True(a, r)
      BY <3>1 DEF OnlyBrokenLies
    <3>3. True(a, r)'
      BY <1>1, <3>2
    <3>4. a = answers'[n] /\ r = reqs'[n]
      BY <1>0, <1>2, <2>1, <3>1 DEF Grows
    <3> QED BY <3>3, <3>4 DEF IsRow, Taken
  <2>2. CASE n \notin 1..Len(reqs)
    <3>1. n > Len(reqs)
      BY <2>2, AccountsAssumption DEF Types
    <3>2. answers'[n].errno = "none"
      BY <1>2, <3>1 DEF Handling, Unanswered
    <3> QED BY <3>2
  <2> QED BY <2>1, <2>2
<1>3. ASSUME NEW n \in 1..MaxReqs,
             answers'[n].errno \notin {"REGISTER_USER_EXISTS", "LOGIN_USER_NOT_EXIST",
                                      "LOGIN_WRONG_PASSWORD", "LOGIN_OK"}
      PROVE  True(answers[n], reqs[n])'
  BY <1>3
<1>4. SUFFICES ASSUME NEW n \in 1..MaxReqs PROVE True(answers[n], reqs[n])'
  BY DEF OnlyBrokenLies
<1> HIDE DEF True
<1>5. ASSUME NEW c \in Conns, NEW name \in Names, NEW pwd \in Pwds, Reg(c, name, pwd)
      PROVE  True(answers[n], reqs[n])'
  <2> DEFINE r == [kind |-> "reg", name |-> name, pwd |-> pwd]
  <2>1. \/ answers' = answers
        \/ answers' = [answers EXCEPT ![Len(reqs) + 1].errno = Verdict(r)]
    BY <1>5 DEF Reg
  <2>2. Verdict(r) \notin {"REGISTER_USER_EXISTS", "LOGIN_USER_NOT_EXIST",
                          "LOGIN_WRONG_PASSWORD", "LOGIN_OK"}
    BY DEF Verdict
  <2> HIDE DEF r
  <2>3. \/ answers'[n] = answers[n]
        \/ answers'[n].errno = Verdict(r)
    BY <2>1 DEF Types
  <2> QED BY <1>2, <1>3, <2>2, <2>3
<1>6. ASSUME NEW c \in Conns, Answer(c)
      PROVE  True(answers[n], reqs[n])'
  <2>1. CASE n # job[c]
    BY <1>2, <1>6, <2>1 DEF Answer, Types
  <2>2. CASE n = job[c]
    <3>1. /\ pc[c] = "answer" /\ UNCHANGED <<reqs, user, broken>> /\ reqs'[n] = Request(c)
          /\ answers'[n].errno = Errno(c) /\ answers'[n].via = db[c]
      BY <1>6, <2>2 DEF Answer, Types, Request
    <3>2. PICK r : r = Request(c)
      OBVIOUS
    <3>3. Informed(c) /\ r.kind \in {"reg", "login"}
      BY <3>1, <3>2, RequestType DEF Told
    <3>4. CASE r.kind = "reg"
      <4>1. got[c] = 0 => Taken(r.name) \/ db[c] \in broken
        BY <3>1, <3>2, <3>3, <3>4 DEF Informed
      <4>2. Errno(c) = IF got[c] # 0 THEN "REGISTER_OK" ELSE "REGISTER_USER_EXISTS"
        BY <3>2, <3>4 DEF Errno
      <4> QED BY <3>1, <3>2, <4>1, <4>2 DEF True, Taken, IsRow
    <3>5. CASE r.kind = "login"
      <4>1. /\ got[c] = 0 => ~r.known \/ db[c] \in broken
            /\ got[c] # 0 => got[c] = r.id /\ IsRow(r.id)
        BY <3>1, <3>2, <3>3, <3>5 DEF Informed, IsRow
      <4>2. Errno(c) = IF got[c] = 0 THEN "LOGIN_USER_NOT_EXIST"
                       ELSE IF user[got[c]].pwd # r.pwd THEN "LOGIN_WRONG_PASSWORD"
                       ELSE "LOGIN_OK"
        BY <3>2, <3>5 DEF Errno
      <4> QED BY <3>1, <3>2, <4>1, <4>2 DEF True, IsRow
    <3> QED BY <3>3, <3>4, <3>5
  <2> QED BY <2>1, <2>2
<1>7. CASE answers' = answers
  BY <1>2, <1>7
<1> QED BY <1>5, <1>6, <1>7 DEF Next, Handler, Login, Borrow, Insert, InsertUnheard,
         InsertId, Query, StatementFails, Release, Break
-----------------------------------------------------------------------------
(* Every account is known to somebody                                      *)

\* Who knows of an account goes on knowing of it.
LEMMA KnownStays ==
  ASSUME Types, Handling, Grows, NEW id \in DOMAIN user, KnownTo(id),
         \A n \in 1..MaxReqs : answers[n].errno # "none" => answers'[n] = answers[n],
         \A c \in Conns : Made(c) = id => Made(c)' = id,
         \A c \in Conns : Unheard(c) => Unheard(c)' /\ Request(c)' = Request(c)
  PROVE  KnownTo(id)'
<1>1. user'[id] = user[id] /\ broken \subseteq broken'
  BY DEF Grows
<1>2. \A n \in 1..MaxReqs : answers[n].errno # "none" => reqs'[n] = reqs[n]
  <2>1. \A n \in 1..MaxReqs : answers[n].errno # "none" => n \in 1..Len(reqs)
    BY AccountsAssumption DEF Types, Handling, Unanswered
  <2> QED BY <2>1 DEF Grows
<1>3. CASE \E n \in 1..MaxReqs : answers[n].errno = "REGISTER_OK" /\ answers[n].id = id
  BY <1>3 DEF KnownTo
<1>4. CASE \E c \in Conns : Made(c) = id
  BY <1>4 DEF KnownTo
<1>5. CASE \E c \in Conns : Unheard(c) /\ Request(c).name = user[id].name
  BY <1>1, <1>5 DEF KnownTo
<1>6. CASE \E n \in 1..MaxReqs :
             /\ answers[n].errno = "REGISTER_USER_EXISTS" /\ answers[n].via \in broken
             /\ reqs[n].name = user[id].name
  BY <1>1, <1>2, <1>6 DEF KnownTo
<1> QED BY <1>3, <1>4, <1>5, <1>6 DEF KnownTo

\* The answer hands on what its handler knows.
LEMMA KnownOfAnswer ==
  ASSUME Types, Handling, Grows, NEW c \in Conns, Answer(c), NEW id \in DOMAIN user,
         KnownTo(id)
  PROVE  KnownTo(id)'
<1> DEFINE n0 == job[c]
<1>1. /\ pc[c] = "answer" /\ UNCHANGED <<user, reqs, insertId, broken>>
      /\ n0 \in 1..MaxReqs /\ Request(c) = reqs[n0] /\ answers[n0] = Unanswered
      /\ answers'[n0] = [errno |-> Errno(c), id |-> got[c], via |-> db[c]]
      /\ \A n \in 1..MaxReqs : n # n0 => answers'[n] = answers[n]
  BY AccountsAssumption DEF Answer, Handling, Types, Request
<1>2. ASSUME NEW d \in Conns, d # c
      PROVE  /\ Made(d)' = Made(d) /\ Request(d)' = Request(d)
             /\ Unheard(d) => Unheard(d)'
  <2>1. pc'[d] = pc[d] /\ got'[d] = got[d] /\ job'[d] = job[d] /\ db'[d] = db[d]
    BY <1>2 DEF Answer, Types
  <2> QED BY <1>1, <2>1 DEF Made, Request, Unheard
<1>3. Unanswered.errno \notin {"REGISTER_OK", "REGISTER_USER_EXISTS"}
  BY DEF Unanswered
<1> HIDE DEF n0
<1>4. CASE Made(c) = id
  <2>1. 0 \notin DOMAIN user
    BY DEF Types
  <2>2. Request(c).kind = "reg" /\ got[c] = id /\ id # 0
    BY <1>1, <1>4, <2>1 DEF Made
  <2>3. answers'[n0].errno = "REGISTER_OK" /\ answers'[n0].id = id
    BY <1>1, <2>2 DEF Errno
  <2> QED BY <1>1, <2>3 DEF KnownTo
<1>5. CASE Unheard(c) /\ Request(c).name = user[id].name
  <2>1. answers'[n0].errno = "REGISTER_USER_EXISTS" /\ answers'[n0].via \in broken
    BY <1>1, <1>5 DEF Unheard, Errno
  <2> QED BY <1>1, <1>5, <2>1 DEF KnownTo
<1>6. CASE \E d \in Conns \ {c} : Made(d) = id
  BY <1>2, <1>6 DEF KnownTo
<1>7. CASE \E d \in Conns \ {c} : Unheard(d) /\ Request(d).name = user[id].name
  BY <1>1, <1>2, <1>7 DEF KnownTo
<1>8. CASE \E n \in 1..MaxReqs : answers[n].errno = "REGISTER_OK" /\ answers[n].id = id
  BY <1>1, <1>3, <1>8 DEF KnownTo
<1>9. CASE \E n \in 1..MaxReqs :
             /\ answers[n].errno = "REGISTER_USER_EXISTS" /\ answers[n].via \in broken
             /\ reqs[n].name = user[id].name
  BY <1>1, <1>3, <1>9 DEF KnownTo
<1> QED BY <1>4, <1>5, <1>6, <1>7, <1>8, <1>9 DEF KnownTo
\* A new account is known to the handler that made it.
LEMMA KnownOfInsert ==
  ASSUME Types, Lent, Handling, NoneLost, Grows, NEW c \in Conns,
         Insert(c) \/ InsertUnheard(c)
  PROVE  NoneLost'
<1>1. /\ pc[c] = "reg" /\ UNCHANGED <<reqs, answers, job, db, got>>
      /\ got[c] = 0 /\ Request(c).kind = "reg" /\ Request(c)' = Request(c)
      /\ db[c] \in DbConns
  BY DEF Insert, InsertUnheard, Handling, Request, Lent, Holds
<1>2. PICK row : /\ user' = Append(user, row)
                 /\ row = None \/ (row = Row(c) /\ ~Taken(Request(c).name))
  BY DEF Insert, InsertUnheard
<1>3. user \in Seq(Rows \cup {None}) /\ Row(c) \in Rows /\ None \notin Rows
  BY <1>1, RequestType, AccountsAssumption DEF Types, Rows
<1>4. PICK new : /\ new = Len(user) + 1
                 /\ \A id \in DOMAIN user' : id \in DOMAIN user \/ id = new
                 /\ \A id \in DOMAIN user : user'[id] = user[id]
                 /\ user'[new] = row /\ 0 \notin DOMAIN user
  BY <1>2, <1>3
<1>5. ASSUME NEW id \in DOMAIN user, IsRow(id) PROVE KnownTo(id)'
  <2>1. \A d \in Conns : Made(d) = id => Made(d)' = id
    <3>1. Made(c) = 0
      BY <1>1 DEF Made
    <3> QED BY <1>4, <3>1, OthersBesideInsert
  <2>2. \A d \in Conns : Unheard(d) => Unheard(d)' /\ Request(d)' = Request(d)
    <3>1. ASSUME NEW d \in Conns, Unheard(d)
          PROVE  d # c /\ pc'[d] = pc[d] /\ Request(d)' = Request(d)
      BY <1>1, <3>1 DEF Unheard, Insert, InsertUnheard, Types, Request
    <3> QED BY <1>1, <3>1 DEF Unheard, Grows
  <2> QED BY <1>1, <1>5, <2>1, <2>2, KnownStays DEF NoneLost
<1>6. ASSUME IsRow(new)' PROVE KnownTo(new)'
  <2>1. row = Row(c) /\ user' = Append(user, Row(c)) /\ ~Taken(Request(c).name)
    BY <1>2, <1>4, <1>6 DEF IsRow
  <2>2. user'[new].name = Request(c).name
    BY <1>4, <2>1 DEF Row
  <2>3. CASE Insert(c)
    <3>1. pc'[c] = "insert_id" /\ insertId'[db'[c]] = new
      BY <1>1, <1>4, <2>1, <2>3 DEF Insert, Types
    <3>2. Made(c)' = new
      BY <3>1 DEF Made
    <3> QED BY <3>2 DEF KnownTo
  <2>4. CASE InsertUnheard(c)
    <3>1. Unheard(c)'
      BY <1>1, <2>4 DEF InsertUnheard, Unheard, Types
    <3> QED BY <1>1, <2>2, <3>1 DEF KnownTo
  <2> QED BY <2>3, <2>4
<1> QED BY <1>4, <1>5, <1>6 DEF NoneLost, IsRow
LEMMA NoneLostStep ==
  ASSUME Types, Lent, Handling, Owned, NoneLost, Next
  PROVE  NoneLost'
<1>0. Grows
  BY GrowsStep
<1>1. ASSUME user' = user,
             \A n \in 1..MaxReqs : answers[n].errno # "none" => answers'[n] = answers[n],
             \A d \in Conns : Made(d) # 0 => Made(d)' = Made(d),
             \A d \in Conns : Unheard(d) => Unheard(d)' /\ Request(d)' = Request(d)
      PROVE  NoneLost'
  <2>1. ASSUME NEW id \in DOMAIN user, IsRow(id) PROVE KnownTo(id)'
    <3>1. KnownTo(id) /\ id # 0
      BY <2>1 DEF NoneLost, Types
    <3> QED BY <1>0, <1>1, <3>1, KnownStays
  <2> QED BY <1>1, <2>1 DEF NoneLost, IsRow
<1>2. ASSUME NEW c \in Conns, NEW r, pc[c] = "idle", reqs' = Append(reqs, r),
             Len(reqs) < MaxReqs, UNCHANGED <<user, insertId, broken, db, got>>,
             \A d \in Conns : d # c => pc'[d] = pc[d] /\ job'[d] = job[d],
             \A n \in 1..MaxReqs : n # Len(reqs) + 1 => answers'[n] = answers[n]
      PROVE  NoneLost'
  <2>1. \A n \in 1..MaxReqs : answers[n].errno # "none" => answers'[n] = answers[n]
    BY <1>2 DEF Handling, Unanswered, Types
  <2>2. ASSUME NEW d \in Conns, pc[d] # "idle"
        PROVE  d # c /\ pc'[d] = pc[d] /\ job'[d] = job[d] /\ Request(d)' = Request(d)
    BY <1>0, <1>2, <2>2 DEF Request, Handling, Grows
  <2>3. \A d \in Conns : Made(d) # 0 => Made(d)' = Made(d)
    BY <1>2, <2>2 DEF Made
  <2>4. \A d \in Conns : Unheard(d) => Unheard(d)' /\ Request(d)' = Request(d)
    BY <1>2, <2>2 DEF Unheard
  <2> QED BY <1>1, <1>2, <2>1, <2>3, <2>4
<1>3. ASSUME NEW c \in Conns, NEW name \in Names, NEW pwd \in Pwds, Reg(c, name, pwd)
      PROVE  NoneLost'
  <2>1. /\ pc[c] = "idle" /\ \E r : reqs' = Append(reqs, r)
        /\ Len(reqs) < MaxReqs /\ UNCHANGED <<user, insertId, broken, db, got>>
        /\ \A d \in Conns : d # c => pc'[d] = pc[d] /\ job'[d] = job[d]
        /\ \A n \in 1..MaxReqs : n # Len(reqs) + 1 => answers'[n] = answers[n]
    BY <1>3 DEF Reg, Types
  <2> QED BY <1>2, <2>1
<1>4. ASSUME NEW c \in Conns, NEW id \in 1..MaxReqs, NEW pwd \in Pwds, Login(c, id, pwd)
      PROVE  NoneLost'
  <2>1. /\ pc[c] = "idle" /\ \E r : reqs' = Append(reqs, r)
        /\ Len(reqs) < MaxReqs /\ UNCHANGED <<user, insertId, broken, db, got, answers>>
        /\ \A d \in Conns : d # c => pc'[d] = pc[d] /\ job'[d] = job[d]
    BY <1>4 DEF Login, Types
  <2> QED BY <1>2, <2>1
<1>5. ASSUME NEW c \in Conns,
             Borrow(c) \/ InsertId(c) \/ Query(c) \/ StatementFails(c) \/ Release(c)
      PROVE  NoneLost'
  <2>1. /\ UNCHANGED <<user, reqs, answers, job, insertId, broken>>
        /\ \A d \in Conns : Request(d)' = Request(d)
        /\ \A d \in Conns : d # c => pc'[d] = pc[d] /\ got'[d] = got[d] /\ db'[d] = db[d]
    BY <1>5 DEF Borrow, InsertId, Query, StatementFails, Release, Request, Types
  <2>2. Made(c) # 0 => Made(c)' = Made(c)
    <3>1. CASE InsertId(c)
      <4>1. pc[c] = "insert_id" /\ pc'[c] = "release" /\ got'[c] = insertId[db[c]]
        BY <3>1 DEF InsertId, Types
      <4>2. Request(c).kind = "reg"
        BY <4>1 DEF Handling
      <4> QED BY <2>1, <4>1, <4>2 DEF Made
    <3>2. CASE Release(c)
      <4>1. pc[c] = "release" /\ pc'[c] = "answer" /\ got'[c] = got[c]
        BY <3>2 DEF Release, Types
      <4> QED BY <2>1, <4>1 DEF Made
    <3>3. CASE Borrow(c) \/ Query(c) \/ StatementFails(c)
      BY <3>3 DEF Borrow, Query, StatementFails, Made
    <3> QED BY <1>5, <3>1, <3>2, <3>3
  <2>3. Unheard(c) => Unheard(c)'
    BY <1>5 DEF Borrow, InsertId, Query, StatementFails, Release, Unheard, Request, Types
  <2>4. ASSUME NEW d \in Conns, d # c
        PROVE  Made(d)' = Made(d) /\ (Unheard(d) => Unheard(d)')
    BY <2>1, <2>4 DEF Made, Unheard
  <2> QED BY <1>1, <2>1, <2>2, <2>3, <2>4
<1>6. ASSUME NEW d \in DbConns, Break(d) PROVE NoneLost'
  <2>1. \A c \in Conns : Made(c)' = Made(c) /\ Request(c)' = Request(c)
    BY <1>6 DEF Break, Made, Request
  <2>2. \A c \in Conns : Unheard(c) => Unheard(c)'
    BY <1>6, <2>1 DEF Break, Unheard
  <2> QED BY <1>1, <1>6, <2>1, <2>2 DEF Break
<1>7. ASSUME NEW c \in Conns, Answer(c) PROVE NoneLost'
  <2>1. ASSUME NEW id \in DOMAIN user, IsRow(id) PROVE KnownTo(id)'
    BY <1>0, <1>7, <2>1, KnownOfAnswer DEF NoneLost
  <2>2. user' = user
    BY <1>7 DEF Answer
  <2> QED BY <2>1, <2>2 DEF NoneLost, IsRow
<1> QED BY <1>0, <1>3, <1>4, <1>5, <1>6, <1>7, KnownOfInsert DEF Next, Handler

-----------------------------------------------------------------------------
LEMMA HonestyStep == Honesty /\ [Next]_vars => Honesty'
<1> SUFFICES ASSUME Honesty, [Next]_vars PROVE Honesty'
  OBVIOUS
<1>1. CASE Next
  BY <1>1, AccountsStep, ToldStep, LiesStep, NoneLostStep DEF Honesty, IInv
<1>2. CASE UNCHANGED vars
  <2>1. IInv'
    BY <1>2, AccountsStep DEF Honesty
  <2>2. (Told /\ OnlyBrokenLies)'
    BY <1>2 DEF vars, Honesty, Told, Informed, OnlyBrokenLies, Request, Taken, IsRow
  <2>3. NoneLost'
    BY <1>2 DEF vars, Honesty, NoneLost, KnownTo, Made, Unheard, Request, IsRow
  <2> QED BY <2>1, <2>2, <2>3 DEF Honesty
<1> QED BY <1>1, <1>2

LEMMA InitHonesty == Init => Honesty
<1> SUFFICES ASSUME Init PROVE Honesty
  OBVIOUS
<1>1. OnlyBrokenLies
  BY DEF Init, OnlyBrokenLies, Unanswered
<1>2. Told /\ NoneLost
  BY DEF Init, Told, NoneLost, IsRow
<1> QED BY <1>1, <1>2, InitAccounts DEF Honesty

\* An answer that did not come over a broken connection is true: a name that is
\* said to exist does, a user that is said not to exist did not when the login
\* came, and a password is right or wrong as login says; whatever other
\* connections broke, and whoever registered meanwhile.
THEOREM AccountsOnlyBrokenLies == Spec => []OnlyBrokenLies
<1>1. Honesty => OnlyBrokenLies
  BY DEF Honesty
<1> QED BY <1>1, InitHonesty, HonestyStep, PTL DEF Spec

\* Every account is one that somebody was told of or will be, unless its INSERT
\* lost the connection before the result came.
THEOREM AccountsNoOrphans == Spec => []NoOrphans
<1>1. Honesty => NoOrphans
  <2> SUFFICES ASSUME Honesty, NEW id \in DOMAIN user, IsRow(id)
               PROVE  \/ \E n \in 1..MaxReqs :
                           answers[n].errno = "REGISTER_OK" /\ answers[n].id = id
                      \/ \E c \in Conns :
                           /\ pc[c] \in {"insert_id", "release", "answer"}
                           /\ Request(c).kind = "reg" /\ Request(c).name = user[id].name
                      \/ \E n \in 1..MaxReqs :
                           /\ answers[n].errno = "REGISTER_USER_EXISTS"
                           /\ answers[n].via \in broken
                           /\ reqs[n].name = user[id].name
    BY DEF NoOrphans
  <2>1. KnownTo(id) /\ id # 0
    BY DEF Honesty, IInv, NoneLost, Types
  <2>2. ASSUME NEW c \in Conns, Made(c) = id
        PROVE  /\ pc[c] \in {"insert_id", "release", "answer"}
               /\ Request(c).kind = "reg" /\ Request(c).name = user[id].name
    <3>1. pc[c] \in {"insert_id", "release", "answer"} /\ Request(c).kind = "reg"
      BY <2>1, <2>2 DEF Made, Honesty, IInv, Handling
    <3>2. user[id] = Row(c)
      BY <2>1, <2>2 DEF Honesty, IInv, Owned
    <3> QED BY <3>1, <3>2 DEF Row
  <2> QED BY <2>1, <2>2 DEF KnownTo, Unheard
<1> QED BY <1>1, InitHonesty, HonestyStep, PTL DEF Spec
=============================================================================
