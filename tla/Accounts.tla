------------------------------- MODULE Accounts -------------------------------
(***************************************************************************)
(* Registration and the checks of a login: ChatService::reg, the first two *)
(* steps of ChatService::login, and UserModel::insert and query, on pooled *)
(* connections to the database that may break.                             *)
(*                                                                         *)
(* ConnectionPool::releaseConnection puts a broken connection back into    *)
(* the queue, nothing tests or replaces it, and MySQL is not told to       *)
(* reconnect: every statement on it fails from then on.  Opening           *)
(* connections and waiting for one are the module ConnectionPool.          *)
(*                                                                         *)
(* The table user is a sequence, an id is a place in it: AUTO_INCREMENT    *)
(* uses up an id also for an INSERT that the UNIQUE name refuses, so there *)
(* are gaps.  A password stands for all that hash alike.                   *)
(***************************************************************************)
EXTENDS Naturals, Sequences

CONSTANTS
  Conns,       \* clients' connections, a handler at a time on each
  DbConns,     \* the connections of the pool
  InitQueue,   \* the order they were opened in
  Names, Pwds,
  NameLength, PwdLength,
  MaxReqs,     \* bound: requests
  None

ASSUME AccountsAssumption ==
  /\ InitQueue \in Seq(DbConns)
  /\ \A i, j \in DOMAIN InitQueue : InitQueue[i] = InitQueue[j] => i = j
  /\ NameLength \in [Names -> Nat] /\ PwdLength \in [Pwds -> Nat]
  /\ MaxReqs \in Nat /\ None \notin DbConns /\ None \notin [name : Names, pwd : Pwds]

VARIABLES
  queue,    \* idle connections, the next one first
  broken,   \* connections that broke
  user,     \* the table: user[id] is a row, or None for a gap
  insertId, \* per connection: what mysql_insert_id returns
  reqs,     \* the requests, in the order they came
  answers,  \* their answers
  pc,       \* per client: the next step of its handler
  job,      \* its request
  db,       \* the connection it holds
  got       \* the id of the row it inserted or read, 0 for none

vars == <<queue, broken, user, insertId, reqs, answers, pc, job, db, got>>

Rows     == [name : Names, pwd : Pwds]
Requests == [kind : {"reg"}, name : Names, pwd : Pwds]
       \cup [kind : {"login"}, id : 1..MaxReqs, pwd : Pwds, known : BOOLEAN]

Unanswered == [errno |-> "none", id |-> 0, via |-> None]

Errnos == {"none", "REGISTER_OK", "REGISTER_USER_EXISTS", "REGISTER_NAME_EMPTY",
           "REGISTER_NAME_TOO_LONG", "REGISTER_PWD_EMPTY", "REGISTER_PWD_TOO_SHORT",
           "LOGIN_OK", "LOGIN_USER_NOT_EXIST", "LOGIN_WRONG_PASSWORD"}

Init ==
  /\ queue = InitQueue /\ broken = {}
  /\ user = <<>> /\ insertId = [d \in DbConns |-> 0]
  /\ reqs = <<>> /\ answers = [n \in 1..MaxReqs |-> Unanswered]
  /\ pc = [c \in Conns |-> "idle"]
  /\ job = [c \in Conns |-> 0]
  /\ db = [c \in Conns |-> None]
  /\ got = [c \in Conns |-> 0]

-----------------------------------------------------------------------------
IsRow(id) == id \in DOMAIN user /\ user[id] # None
Taken(name) == \E id \in DOMAIN user : IsRow(id) /\ user[id].name = name

\* The checks of reg, in their order.
Verdict(r) ==
  CASE NameLength[r.name] = 0  -> "REGISTER_NAME_EMPTY"
    [] NameLength[r.name] > 20 -> "REGISTER_NAME_TOO_LONG"
    [] NameLength[r.name] \in 1..20 /\ PwdLength[r.pwd] = 0 -> "REGISTER_PWD_EMPTY"
    [] NameLength[r.name] \in 1..20 /\ PwdLength[r.pwd] \in 1..5 -> "REGISTER_PWD_TOO_SHORT"
    [] OTHER -> "valid"

\* A registration that the checks refuse is answered at once.
Reg(c, name, pwd) ==
  /\ pc[c] = "idle" /\ Len(reqs) < MaxReqs
  /\ LET r == [kind |-> "reg", name |-> name, pwd |-> pwd] IN
     /\ reqs' = Append(reqs, r)
     /\ IF Verdict(r) = "valid"
        THEN /\ pc' = [pc EXCEPT ![c] = "borrow"]
             /\ job' = [job EXCEPT ![c] = Len(reqs) + 1]
             /\ UNCHANGED answers
        ELSE /\ answers' = [answers EXCEPT ![Len(reqs) + 1].errno = Verdict(r)]
             /\ UNCHANGED <<pc, job>>
  /\ UNCHANGED <<queue, broken, user, insertId, db, got>>

\* "known" remembers whether the account existed when the request came.
Login(c, id, pwd) ==
  /\ pc[c] = "idle" /\ Len(reqs) < MaxReqs
  /\ reqs' = Append(reqs, [kind |-> "login", id |-> id, pwd |-> pwd, known |-> IsRow(id)])
  /\ pc' = [pc EXCEPT ![c] = "borrow"]
  /\ job' = [job EXCEPT ![c] = Len(reqs) + 1]
  /\ UNCHANGED <<queue, broken, user, insertId, answers, db, got>>

Request(c) == reqs[job[c]]

\* Faulty variant: the connection stays in the queue.
BorrowAndLeave(c) ==
  /\ pc[c] = "borrow" /\ queue # <<>>
  /\ db' = [db EXCEPT ![c] = Head(queue)]
  /\ pc' = [pc EXCEPT ![c] = Request(c).kind]
  /\ UNCHANGED <<queue, broken, user, insertId, reqs, answers, job, got>>

\* The constructor of MySQL.
Borrow(c) ==
  /\ pc[c] = "borrow" /\ queue # <<>>
  /\ db' = [db EXCEPT ![c] = Head(queue)]
  /\ queue' = Tail(queue)
  /\ pc' = [pc EXCEPT ![c] = Request(c).kind]
  /\ UNCHANGED <<broken, user, insertId, reqs, answers, job, got>>

Row(c) == [name |-> Request(c).name, pwd |-> Request(c).pwd]

\* Faulty variant: the result of the INSERT is turned round.
InsertInverted(c) ==
  /\ pc[c] = "reg" /\ db[c] \notin broken
  /\ IF Taken(Request(c).name)
     THEN /\ user' = Append(user, None)
          /\ pc' = [pc EXCEPT ![c] = "insert_id"]
          /\ UNCHANGED insertId
     ELSE /\ user' = Append(user, Row(c))
          /\ insertId' = [insertId EXCEPT ![db[c]] = Len(user) + 1]
          /\ pc' = [pc EXCEPT ![c] = "release"]
  /\ UNCHANGED <<queue, broken, reqs, answers, job, db, got>>

\* UserModel::insert on a connection that works.
Insert(c) ==
  /\ pc[c] = "reg" /\ db[c] \notin broken
  /\ IF Taken(Request(c).name)
     THEN /\ user' = Append(user, None)
          /\ pc' = [pc EXCEPT ![c] = "release"]
          /\ UNCHANGED insertId
     ELSE /\ user' = Append(user, Row(c))
          /\ insertId' = [insertId EXCEPT ![db[c]] = Len(user) + 1]
          /\ pc' = [pc EXCEPT ![c] = "insert_id"]
  /\ UNCHANGED <<queue, broken, reqs, answers, job, db, got>>

\* The connection breaks after the INSERT and before its result: the row is
\* there, and update says that it failed.
InsertUnheard(c) ==
  /\ pc[c] = "reg" /\ db[c] \notin broken /\ ~Taken(Request(c).name)
  /\ user' = Append(user, Row(c))
  /\ broken' = broken \cup {db[c]}
  /\ pc' = [pc EXCEPT ![c] = "release"]
  /\ UNCHANGED <<queue, insertId, reqs, answers, job, db, got>>

\* mysql_insert_id, with the connection still held.
InsertId(c) ==
  /\ pc[c] = "insert_id"
  /\ got' = [got EXCEPT ![c] = insertId[db[c]]]
  /\ pc' = [pc EXCEPT ![c] = "release"]
  /\ UNCHANGED <<queue, broken, user, insertId, reqs, answers, job, db>>

\* Faulty variant: a missing row is not told from the one read before.
QueryKeepsOld(c) ==
  /\ pc[c] = "login" /\ db[c] \notin broken
  /\ got' = [got EXCEPT ![c] = IF IsRow(Request(c).id) THEN Request(c).id
                               ELSE IF user # <<>> THEN 1 ELSE 0]
  /\ pc' = [pc EXCEPT ![c] = "release"]
  /\ UNCHANGED <<queue, broken, user, insertId, reqs, answers, job, db>>

\* UserModel::query.  Rows never change, so the row is known by its id.
Query(c) ==
  /\ pc[c] = "login" /\ db[c] \notin broken
  /\ got' = [got EXCEPT ![c] = IF IsRow(Request(c).id) THEN Request(c).id ELSE 0]
  /\ pc' = [pc EXCEPT ![c] = "release"]
  /\ UNCHANGED <<queue, broken, user, insertId, reqs, answers, job, db>>

\* Either statement on a broken connection: false, or no row.
StatementFails(c) ==
  /\ pc[c] \in {"reg", "login"} /\ db[c] \in broken
  /\ pc' = [pc EXCEPT ![c] = "release"]
  /\ UNCHANGED <<queue, broken, user, insertId, reqs, answers, job, db, got>>

\* The destructor of MySQL, whatever the connection is like.
Release(c) ==
  /\ pc[c] = "release"
  /\ queue' = Append(queue, db[c])
  /\ pc' = [pc EXCEPT ![c] = "answer"]
  /\ UNCHANGED <<broken, user, insertId, reqs, answers, job, db, got>>

\* Whatever made an INSERT fail, reg says that the name exists; whatever made
\* a SELECT fail, login says that the user does not.
Errno(c) ==
  IF Request(c).kind = "reg"
  THEN IF got[c] # 0 THEN "REGISTER_OK" ELSE "REGISTER_USER_EXISTS"
  ELSE IF got[c] = 0 THEN "LOGIN_USER_NOT_EXIST"
  ELSE IF user[got[c]].pwd # Request(c).pwd THEN "LOGIN_WRONG_PASSWORD"
  ELSE "LOGIN_OK"

Answer(c) ==
  /\ pc[c] = "answer"
  /\ answers' = [answers EXCEPT
       ![job[c]] = [errno |-> Errno(c), id |-> got[c], via |-> db[c]]]
  /\ pc' = [pc EXCEPT ![c] = "idle"]
  /\ job' = [job EXCEPT ![c] = 0]
  /\ db' = [db EXCEPT ![c] = None]
  /\ got' = [got EXCEPT ![c] = 0]
  /\ UNCHANGED <<queue, broken, user, insertId, reqs>>

\* The database server drops a connection, or restarts.
Break(d) ==
  /\ d \notin broken
  /\ broken' = broken \cup {d}
  /\ UNCHANGED <<queue, user, insertId, reqs, answers, pc, job, db, got>>

-----------------------------------------------------------------------------
Handler(c) ==
  \/ Borrow(c) \/ Insert(c) \/ InsertId(c) \/ Query(c)
  \/ StatementFails(c) \/ Release(c) \/ Answer(c)

Next ==
  \/ \E c \in Conns :
       \/ \E name \in Names, pwd \in Pwds : Reg(c, name, pwd)
       \/ \E id \in 1..MaxReqs, pwd \in Pwds : Login(c, id, pwd)
       \/ Handler(c)
       \/ InsertUnheard(c)
  \/ \E d \in DbConns : Break(d)

Spec == Init /\ [][Next]_vars

-----------------------------------------------------------------------------
(* Properties                                                              *)

Holds(c) == pc[c] \in {"reg", "login", "insert_id", "release"}

\* Types; and a connection to the database serves one handler at a time.
TypeOK ==
  /\ queue \in Seq(DbConns) /\ broken \subseteq DbConns
  /\ user \in Seq(Rows \cup {None})
  /\ insertId \in [DbConns -> Nat]
  /\ reqs \in Seq(Requests)
  /\ answers \in [1..MaxReqs -> [errno : Errnos, id : Nat, via : DbConns \cup {None}]]
  /\ pc \in [Conns -> {"idle", "borrow", "reg", "login", "insert_id", "release", "answer"}]
  /\ db \in [Conns -> DbConns \cup {None}]
  /\ job \in [Conns -> 0..MaxReqs] /\ got \in [Conns -> Nat]
  /\ \A c \in Conns : Holds(c) =>
       /\ db[c] \in DbConns /\ \A i \in DOMAIN queue : queue[i] # db[c]
       /\ \A e \in Conns \ {c} : Holds(e) => db[e] # db[c]

Winners(id) == {n \in 1..MaxReqs : answers[n].errno = "REGISTER_OK" /\ answers[n].id = id}

\* However registrations interleave on the pooled connections, REGISTER_OK
\* brings the id of an account with the name and password that were asked for,
\* nobody else is given that id, and no name has two accounts.
RegisteredIsOwn ==
  /\ \A n \in 1..MaxReqs : answers[n].errno = "REGISTER_OK" =>
       /\ IsRow(answers[n].id)
       /\ user[answers[n].id] = [name |-> reqs[n].name, pwd |-> reqs[n].pwd]
  /\ \A id \in DOMAIN user : \A n, m \in Winners(id) : n = m
  /\ \A i, j \in DOMAIN user :
       IsRow(i) /\ IsRow(j) /\ user[i].name = user[j].name => i = j

\* The harm of a broken connection is done to those who borrow it: an answer
\* that did not come over one is true, though others did, and though
\* registrations went on meanwhile.  And nobody gets in with a wrong password.
OnlyBrokenLies ==
  \A n \in 1..MaxReqs : LET a == answers[n] r == reqs[n] IN
    /\ a.errno = "REGISTER_USER_EXISTS" => Taken(r.name) \/ a.via \in broken
    /\ a.errno = "LOGIN_USER_NOT_EXIST" => ~r.known \/ a.via \in broken
    /\ a.errno = "LOGIN_WRONG_PASSWORD" => IsRow(r.id) /\ user[r.id].pwd # r.pwd
    /\ a.errno = "LOGIN_OK" => IsRow(r.id) /\ user[r.id].pwd = r.pwd

\* A name is taken by an account that somebody was told of, or soon will be;
\* only a connection that broke under the INSERT leaves one that nobody knows.
NoOrphans ==
  \A id \in DOMAIN user : IsRow(id) =>
    \/ \E n \in 1..MaxReqs : answers[n].errno = "REGISTER_OK" /\ answers[n].id = id
    \/ \E c \in Conns :
         /\ pc[c] \in {"insert_id", "release", "answer"}
         /\ Request(c).kind = "reg" /\ Request(c).name = user[id].name
    \/ \E n \in 1..MaxReqs :
         /\ answers[n].errno = "REGISTER_USER_EXISTS" /\ answers[n].via \in broken
         /\ reqs[n].name = user[id].name
=============================================================================
