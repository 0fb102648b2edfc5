----------------------------- MODULE ChatService -----------------------------
(***************************************************************************)
(* The message service of a cluster of chat servers: login with takeover   *)
(* of an older session, presence, one-to-one and group messages, storing   *)
(* and pushing offline messages, the end of a connection, and the start    *)
(* and death of a server (src/server/chatservice.cpp, chatserver.cpp and   *)
(* main.cpp).  Redis and the database are the modules Redis and Tables.    *)
(*                                                                         *)
(* A connection belongs to one of the four IO loops of its server, which   *)
(* runs its handlers one at a time; pc[c] says how far the handler of c    *)
(* has come.  Handlers of different connections interleave at every lock   *)
(* of _connMutex, SQL statement, Redis command and send, and with the      *)
(* Redis observer thread.  (Two connections of one loop do not interleave, *)
(* but any two may be on different loops.)                                 *)
(*                                                                         *)
(* A request that is refused (unknown user, wrong password) changes no     *)
(* state and is left out.  The client sends one request at a time, logs in *)
(* once per connection, and chats only after LOGIN_OK.                     *)
(***************************************************************************)
EXTENDS Naturals, Sequences, FiniteSets

CONSTANTS
  Servers,     \* the server processes
  Conns,       \* the TCP connections, each used once
  ServerOf,    \* ServerOf[c]: the server that connection c goes to
  Users,       \* the registered users
  Groups,      \* the groups, each as the set of its members
  LoginAs,     \* bound: LoginAs[c], the users who may log in on connection c
  MaxMsgs,     \* bound: how many chat messages are sent
  MaxCrashes,  \* bound: how often a server process ends
  Stoppable,   \* bound: the servers that somebody may stop
  Outcomes,    \* how a database write or a PUBLISH may end: {TRUE} or BOOLEAN
  None         \* no user, no connection, no message in hand

Msgs == 1..MaxMsgs

ASSUME ServiceAssumption ==
  /\ ServerOf \in [Conns -> Servers]
  /\ Groups \subseteq SUBSET Users
  /\ LoginAs \in [Conns -> SUBSET Users]
  /\ MaxMsgs \in Nat /\ MaxCrashes \in Nat /\ Stoppable \subseteq Servers
  /\ Outcomes \subseteq BOOLEAN /\ TRUE \in Outcomes
  /\ None \notin Users \cup Conns

VARIABLES
  alive,     \* alive[n]: the process of server n runs
  stopping,  \* stopping[n]: its main loop has ended
  crashes,   \* how many processes are gone
  status,    \* status[c]: state of the TCP connection, as the server sees it
  user,      \* user[c]: who logged in on c, or None
  pc,        \* pc[c]: the next step of the handler of c
  connMap,   \* connMap[n]: _userConnMap of server n, None where no entry is
  rows,      \* rows[c]: the local offlineMsgs of login
  unpushed,  \* unpushed[c]: those of rows[c] the push loop has yet to send
  job,       \* job[c]: the locals of oneChat and groupChat
  hand,      \* hand[n]: a message the observer of n has yet to store, or None
  sent,      \* the chat messages sent so far: their sender and recipients
  inbox,     \* inbox[c]: the chat messages sent to the client of c
  pipe, subs, bus,   \* Redis
  dbState, offline   \* the database

tcpVars   == <<alive, stopping, crashes, status>>
loginVars == <<user, rows, unpushed>>
chatVars  == <<job, sent>>
redisVars == <<pipe, subs, bus>>
dbVars    == <<dbState, offline>>

vars == <<tcpVars, loginVars, pc, connMap, chatVars, hand, inbox, redisVars,
          dbVars>>

Relay == [to : Users, msg : Msgs]

Broker == INSTANCE Redis WITH Channels <- Users, Payloads <- Relay
Table  == INSTANCE Tables

\* up: both directions open.  half: the server called shutdown(), it still
\* reads from the client but drops what it is told to send.  lost: the peer
\* closed; what the server sends from then on is lost.
Statuses == {"none", "up", "half", "lost"}

LoginSteps == {"kick", "setOnline", "insert", "subscribe", "query", "push",
               "remove", "ack"}
ChatSteps  == {"lookup", "send"}
CloseSteps == {"check", "unsubscribe", "setOffline"}
\* fresh: before the login.  ready: logged in, no handler runs.  refused: the
\* login ran, but its LOGIN_OK did not reach the client.  closed: the close
\* callback has run.  gone: the server died.
Steps == {"fresh", "ready", "refused", "closed", "gone"}
           \cup LoginSteps \cup ChatSteps \cup CloseSteps

NoJob  == [msg |-> 0, left |-> {}, to |-> None, conn |-> None]
Copies == [msg : Msgs, via : {"direct", "relay", "offline"}, node : Servers]

LastMsg == Len(sent)

-----------------------------------------------------------------------------
Init ==
  /\ alive = [n \in Servers |-> FALSE]
  /\ stopping = [n \in Servers |-> FALSE]
  /\ crashes = 0
  /\ status = [c \in Conns |-> "none"]
  /\ user = [c \in Conns |-> None]
  /\ pc = [c \in Conns |-> "fresh"]
  /\ connMap = [n \in Servers |-> [u \in Users |-> None]]
  /\ rows = [c \in Conns |-> {}]
  /\ unpushed = [c \in Conns |-> {}]
  /\ job = [c \in Conns |-> NoJob]
  /\ hand = [n \in Servers |-> None]
  /\ sent = <<>>
  /\ inbox = [c \in Conns |-> <<>>]
  /\ Broker!Init
  /\ Table!Init

At(c, step) == pc[c] = step /\ alive[ServerOf[c]]
Goto(c, step) == pc' = [pc EXCEPT ![c] = step]

\* conn->send: dropped unless the connection is connected.
Deliver(c, copy) ==
  inbox' = IF status[c] = "up"
           THEN [inbox EXCEPT ![c] = Append(@, copy)]
           ELSE inbox

\* What the map of c's server holds for u.
Mapped(c, u) == connMap[ServerOf[c]][u]
SetMapped(c, u, d) == connMap' = [connMap EXCEPT ![ServerOf[c]][u] = d]

-----------------------------------------------------------------------------
(* The environment: processes start and die, clients come and go.          *)

\* Faulty variant: no reset() at the start.
StartWithoutReset(n) ==
  /\ ~alive[n]
  /\ alive' = [alive EXCEPT ![n] = TRUE]
  /\ UNCHANGED <<stopping, crashes, status, loginVars, pc, connMap, chatVars, hand,
                 inbox, redisVars, dbVars>>

\* main(): reset() is cluster wide, whoever is online on other servers.
Start(n) ==
  /\ ~alive[n]
  /\ alive' = [alive EXCEPT ![n] = TRUE]
  /\ \E ok \in Outcomes : Table!ResetAllStateToOffline(ok)
  /\ UNCHANGED <<stopping, crashes, status, loginVars, pc, connMap, chatVars, hand,
                 inbox, redisVars>>

\* SIGINT: the main loop returns and accepts nobody any more, and reset() runs
\* again, cluster wide, while the IO loops still serve their connections.  The
\* server object is destroyed after that.  It closes the connections it gets
\* to (PeerClose), and the process is gone (Crash).
Stop(n) ==
  /\ n \in Stoppable
  /\ alive[n] /\ ~stopping[n]
  /\ crashes < MaxCrashes
  /\ stopping' = [stopping EXCEPT ![n] = TRUE]
  /\ \E ok \in Outcomes : Table!ResetAllStateToOffline(ok)
  /\ UNCHANGED <<alive, crashes, status, loginVars, pc, connMap, chatVars, hand,
                 inbox, redisVars>>

\* The process is killed: its memory and its connections are gone, and what it
\* wrote to the database stays.
Crash(n) ==
  /\ alive[n]
  /\ crashes < MaxCrashes
  /\ crashes' = crashes + 1
  /\ alive' = [alive EXCEPT ![n] = FALSE]
  /\ stopping' = [stopping EXCEPT ![n] = FALSE]
  /\ LET cut == {c \in Conns : ServerOf[c] = n /\ status[c] # "none"} IN
     /\ status' = [c \in Conns |-> IF c \in cut THEN "lost" ELSE status[c]]
     /\ pc' = [c \in Conns |-> IF c \in cut THEN "gone" ELSE pc[c]]
  /\ connMap' = [connMap EXCEPT ![n] = [u \in Users |-> None]]
  /\ hand' = [hand EXCEPT ![n] = None]
  /\ Broker!Disconnect(n)
  /\ UNCHANGED <<loginVars, chatVars, inbox, dbVars>>

Connect(c) ==
  /\ status[c] = "none"
  /\ alive[ServerOf[c]] /\ ~stopping[ServerOf[c]]
  /\ status' = [status EXCEPT ![c] = "up"]
  /\ UNCHANGED <<alive, stopping, crashes, loginVars, pc, connMap, chatVars, hand, inbox,
                 redisVars, dbVars>>

\* The client logs out, quits or loses its network.  The server notices when
\* no handler of the connection runs any more (CloseErase).
PeerClose(c) ==
  /\ status[c] \in {"up", "half"}
  /\ status' = [status EXCEPT ![c] = "lost"]
  /\ UNCHANGED <<alive, stopping, crashes, loginVars, pc, connMap, chatVars, hand, inbox,
                 redisVars, dbVars>>

-----------------------------------------------------------------------------
(* login                                                                   *)

\* The user exists and the password is right.  The request may be read after
\* its sender has closed the connection.
Login(c, u) ==
  /\ At(c, "fresh") /\ status[c] # "none"
  /\ u \in LoginAs[c]
  /\ user' = [user EXCEPT ![c] = u]
  /\ Goto(c, "kick")
  /\ UNCHANGED <<tcpVars, rows, unpushed, connMap, chatVars, hand, inbox,
                 redisVars, dbVars>>

\* Faulty variant: the old session is shut down and not erased.
LoginKickLeavesEntry(c) ==
  /\ At(c, "kick")
  /\ LET old == Mapped(c, user[c]) IN
     IF old = None
     THEN UNCHANGED status
     ELSE status' = [status EXCEPT ![old] = IF @ = "up" THEN "half" ELSE @]
  /\ Goto(c, "setOnline")
  /\ UNCHANGED <<alive, stopping, crashes, connMap, loginVars, chatVars, hand, inbox,
                 redisVars, dbVars>>

\* Step 3: an older session on this server is shut down and forgotten.
LoginKick(c) ==
  /\ At(c, "kick")
  /\ LET old == Mapped(c, user[c]) IN
     IF old = None
     THEN UNCHANGED <<status, connMap>>
     ELSE /\ status' = [status EXCEPT ![old] = IF @ = "up" THEN "half" ELSE @]
          /\ SetMapped(c, user[c], None)
  /\ Goto(c, "setOnline")
  /\ UNCHANGED <<alive, stopping, crashes, loginVars, chatVars, hand, inbox, redisVars,
                 dbVars>>

\* Step 4.
LoginSetOnline(c) ==
  /\ At(c, "setOnline")
  /\ \E ok \in Outcomes : Table!UpdateState(user[c], "online", ok)
  /\ Goto(c, "insert")
  /\ UNCHANGED <<tcpVars, loginVars, connMap, chatVars, hand, inbox, redisVars>>

\* Step 5: unordered_map::insert leaves an entry that is already there.
LoginInsert(c) ==
  /\ At(c, "insert")
  /\ IF Mapped(c, user[c]) = None
     THEN SetMapped(c, user[c], c)
     ELSE UNCHANGED connMap
  /\ Goto(c, "subscribe")
  /\ UNCHANGED <<tcpVars, loginVars, chatVars, hand, inbox, redisVars, dbVars>>

LoginSubscribe(c) ==
  /\ At(c, "subscribe")
  /\ Broker!Subscribe(ServerOf[c], user[c])
  /\ Goto(c, "query")
  /\ UNCHANGED <<tcpVars, loginVars, connMap, chatVars, hand, inbox, dbVars>>

\* Step 6: a query that fails returns no rows, and an empty result skips the
\* pushing and the removal.
LoginQuery(c) ==
  /\ At(c, "query")
  /\ \E ok \in Outcomes :
       LET found == IF ok THEN Table!RowsFor(user[c]) ELSE {} IN
       /\ rows' = [rows EXCEPT ![c] = found]
       /\ unpushed' = [unpushed EXCEPT ![c] = found]
       /\ Goto(c, IF found = {} THEN "ack" ELSE "push")
  /\ UNCHANGED <<tcpVars, user, connMap, chatVars, hand, inbox, redisVars,
                 dbVars>>

LoginPush(c) ==
  /\ At(c, "push")
  /\ \E r \in unpushed[c] :
       /\ Deliver(c, [msg |-> r.msg, via |-> "offline", node |-> r.node])
       /\ unpushed' = [unpushed EXCEPT ![c] = @ \ {r}]
  /\ Goto(c, IF unpushed'[c] = {} THEN "remove" ELSE "push")
  /\ UNCHANGED <<tcpVars, user, rows, connMap, chatVars, hand, redisVars, dbVars>>

LoginRemove(c) ==
  /\ At(c, "remove")
  /\ \E ok \in Outcomes : Table!RemoveRowsFor(user[c], ok)
  /\ Goto(c, "ack")
  /\ UNCHANGED <<tcpVars, loginVars, connMap, chatVars, hand, inbox, redisVars>>

\* Step 7: LOGIN_OK.
LoginAck(c) ==
  /\ At(c, "ack")
  /\ Goto(c, IF status[c] = "up" THEN "ready" ELSE "refused")
  /\ UNCHANGED <<tcpVars, loginVars, connMap, chatVars, hand, inbox, redisVars,
                 dbVars>>

-----------------------------------------------------------------------------
(* clientCloseException, called when the server notices that c was closed  *)

\* Every entry for the connection; there is at most one.
EntriesOf(c) == {u \in Users : Mapped(c, u) = c}

CloseErase(c) ==
  /\ At(c, "fresh") \/ At(c, "ready") \/ At(c, "refused")
  /\ status[c] = "lost"
  /\ \/ /\ EntriesOf(c) = {}
        /\ Goto(c, "closed")
        /\ UNCHANGED connMap
     \/ \E u \in EntriesOf(c) : SetMapped(c, u, None) /\ Goto(c, "check")
  /\ UNCHANGED <<tcpVars, loginVars, chatVars, hand, inbox, redisVars, dbVars>>

CloseCheck(c) ==
  /\ At(c, "check")
  /\ Goto(c, IF Mapped(c, user[c]) # None THEN "closed" ELSE "unsubscribe")
  /\ UNCHANGED <<tcpVars, loginVars, connMap, chatVars, hand, inbox, redisVars,
                 dbVars>>

\* Faulty variant: the handler returns after unsubscribing.
CloseForgetsState(c) ==
  /\ At(c, "unsubscribe")
  /\ Broker!Unsubscribe(ServerOf[c], user[c])
  /\ Goto(c, "closed")
  /\ UNCHANGED <<tcpVars, loginVars, connMap, chatVars, hand, inbox, dbVars>>

CloseUnsubscribe(c) ==
  /\ At(c, "unsubscribe")
  /\ Broker!Unsubscribe(ServerOf[c], user[c])
  /\ Goto(c, "setOffline")
  /\ UNCHANGED <<tcpVars, loginVars, connMap, chatVars, hand, inbox, dbVars>>

CloseSetOffline(c) ==
  /\ At(c, "setOffline")
  /\ \E ok \in Outcomes : Table!UpdateState(user[c], "offline", ok)
  /\ Goto(c, "closed")
  /\ UNCHANGED <<tcpVars, loginVars, connMap, chatVars, hand, inbox, redisVars>>

-----------------------------------------------------------------------------
(* oneChat and groupChat: per recipient a lookup under the lock, and then, *)
(* outside of it, a forward or a publish                                   *)

Chat(c, recipients) ==
  /\ At(c, "ready") /\ LastMsg < MaxMsgs
  /\ recipients # {}
  /\ sent' = Append(sent, [from |-> c, to |-> recipients])
  /\ job' = [job EXCEPT ![c] = [NoJob EXCEPT !.msg = LastMsg + 1,
                                             !.left = recipients]]
  /\ Goto(c, "lookup")
  /\ UNCHANGED <<tcpVars, loginVars, connMap, hand, inbox, redisVars, dbVars>>

OneChat(c) == \E u \in Users : Chat(c, {u})

GroupChat(c) == \E g \in Groups : Chat(c, g \ {user[c]})

ChatLookup(c) ==
  /\ At(c, "lookup")
  /\ \E u \in job[c].left :
       job' = [job EXCEPT ![c] = [msg |-> job[c].msg, left |-> job[c].left \ {u},
                                  to |-> u, conn |-> Mapped(c, u)]]
  /\ Goto(c, "send")
  /\ UNCHANGED <<tcpVars, loginVars, connMap, sent, hand, inbox, redisVars,
                 dbVars>>

NextRecipient(c) == Goto(c, IF job[c].left = {} THEN "ready" ELSE "lookup")

ChatForward(c) ==
  /\ At(c, "send") /\ job[c].conn # None
  /\ Deliver(job[c].conn,
             [msg |-> job[c].msg, via |-> "direct", node |-> ServerOf[c]])
  /\ NextRecipient(c)
  /\ UNCHANGED <<tcpVars, loginVars, connMap, chatVars, hand, redisVars, dbVars>>

\* Faulty variant: redisJs["to"] is not set.
ChatPublishUnaddressed(c) ==
  /\ At(c, "send") /\ job[c].conn = None
  /\ Broker!Publish(job[c].to, [to |-> None, msg |-> job[c].msg])
  /\ NextRecipient(c)
  /\ UNCHANGED <<tcpVars, loginVars, connMap, chatVars, hand, inbox, dbVars>>

\* Faulty variant: the channel is the sender's.
ChatPublishToSender(c) ==
  /\ At(c, "send") /\ job[c].conn = None
  /\ Broker!Publish(user[c], [to |-> job[c].to, msg |-> job[c].msg])
  /\ NextRecipient(c)
  /\ UNCHANGED <<tcpVars, loginVars, connMap, chatVars, hand, inbox, dbVars>>

ChatPublish(c) ==
  /\ At(c, "send") /\ job[c].conn = None
  /\ \E ok \in Outcomes :
       IF ok THEN Broker!Publish(job[c].to, [to |-> job[c].to, msg |-> job[c].msg])
             ELSE UNCHANGED redisVars
  /\ NextRecipient(c)
  /\ UNCHANGED <<tcpVars, loginVars, connMap, chatVars, hand, inbox, dbVars>>

-----------------------------------------------------------------------------
(* The Redis observer thread of server n: handleRedisMessage               *)

\* Faulty variant: the return after the send is missing.
ObserveAndStore(n) ==
  /\ alive[n] /\ hand[n] = None
  /\ Broker!Receive(n)
  /\ LET item == Head(bus[n])
         d == connMap[n][item.to]
     IN  /\ IF d # None
            THEN Deliver(d, [msg |-> item.msg, via |-> "relay", node |-> n])
            ELSE UNCHANGED inbox
         /\ hand' = [hand EXCEPT ![n] = item]
  /\ UNCHANGED <<tcpVars, loginVars, pc, connMap, chatVars, dbVars>>

\* The lookup and the send are one critical section.
Observe(n) ==
  /\ alive[n] /\ hand[n] = None
  /\ Broker!Receive(n)
  /\ LET item == Head(bus[n])
         d == connMap[n][item.to]
     IN  IF d # None
         THEN /\ Deliver(d, [msg |-> item.msg, via |-> "relay", node |-> n])
              /\ UNCHANGED hand
         ELSE /\ hand' = [hand EXCEPT ![n] = item]
              /\ UNCHANGED inbox
  /\ UNCHANGED <<tcpVars, loginVars, pc, connMap, chatVars, dbVars>>

\* Outside the lock: the recipient may have logged in meanwhile.
Store(n) ==
  /\ alive[n] /\ hand[n] # None
  /\ \E ok \in Outcomes :
       Table!InsertRow([to |-> hand[n].to, msg |-> hand[n].msg, node |-> n], ok)
  /\ hand' = [hand EXCEPT ![n] = None]
  /\ UNCHANGED <<tcpVars, loginVars, pc, connMap, chatVars, inbox, redisVars>>

RedisServes(n) ==
  /\ Broker!Serve(n)
  /\ UNCHANGED <<tcpVars, loginVars, pc, connMap, chatVars, hand, inbox, dbVars>>

-----------------------------------------------------------------------------
LoginStep(c) ==
  \/ LoginKick(c) \/ LoginSetOnline(c) \/ LoginInsert(c) \/ LoginSubscribe(c)
  \/ LoginQuery(c) \/ LoginPush(c) \/ LoginRemove(c) \/ LoginAck(c)

CloseStep(c) ==
  CloseErase(c) \/ CloseCheck(c) \/ CloseUnsubscribe(c) \/ CloseSetOffline(c)

ChatStep(c) == ChatLookup(c) \/ ChatForward(c) \/ ChatPublish(c)

HandlerStep(c) == LoginStep(c) \/ CloseStep(c) \/ ChatStep(c)

ObserverStep(n) == Observe(n) \/ Store(n)

Next ==
  \/ \E n \in Servers :
       Start(n) \/ Stop(n) \/ Crash(n) \/ ObserverStep(n) \/ RedisServes(n)
  \/ \E c \in Conns :
       \/ Connect(c) \/ PeerClose(c)
       \/ \E u \in Users : Login(c, u)
       \/ OneChat(c) \/ GroupChat(c)
       \/ HandlerStep(c)

Spec == Init /\ [][Next]_vars

\* Every IO loop and the observer thread keep running, and Redis keeps
\* serving.  Nothing makes a client connect, ask or leave, or a server start.
Fairness ==
  /\ \A c \in Conns : WF_vars(HandlerStep(c))
  /\ \A n \in Servers : WF_vars(ObserverStep(n)) /\ WF_vars(RedisServes(n))

FairSpec == Spec /\ Fairness

-----------------------------------------------------------------------------
(* Properties                                                              *)

Range(f) == {f[x] : x \in DOMAIN f}

TypeOK ==
  /\ alive \in [Servers -> BOOLEAN]
  /\ stopping \in [Servers -> BOOLEAN]
  /\ crashes \in 0..MaxCrashes
  /\ status \in [Conns -> Statuses]
  /\ user \in [Conns -> Users \cup {None}]
  /\ pc \in [Conns -> Steps]
  /\ connMap \in [Servers -> [Users -> Conns \cup {None}]]
  /\ rows \in [Conns -> SUBSET Table!Rows]
  /\ unpushed \in [Conns -> SUBSET Table!Rows]
  /\ job \in [Conns -> [msg : Msgs \cup {0}, left : SUBSET Users,
                        to : Users \cup {None}, conn : Conns \cup {None}]]
  /\ hand \in [Servers -> Relay \cup {None}]
  /\ sent \in Seq([from : Conns, to : SUBSET Users])
  /\ Len(sent) <= MaxMsgs
  /\ inbox \in [Conns -> Seq(Copies)]
  /\ Broker!TypeOK
  /\ Table!TypeOK

\* The steps of a connection that _userConnMap may refer to: after the insert
\* of its login, before the erase of its close.
MappedSteps == {"subscribe", "query", "push", "remove", "ack",
                "ready", "refused"} \cup ChatSteps

\* Whatever a server's _userConnMap refers to is a connection of that server
\* whose login for that very user has run and whose close callback has not,
\* and never one that was kicked.  So a message that is looked up for a user
\* goes to nobody else, and a session that was taken over or has ended leaves
\* no entry behind, however logins and closes of one user interleave.
MapHoldsLiveSessions ==
  \A n \in Servers, u \in Users :
    LET c == connMap[n][u] IN
    c # None => /\ alive[n]
                /\ ServerOf[c] = n
                /\ user[c] = u
                /\ pc[c] \in MappedSteps
                /\ status[c] \in {"up", "lost"}

\* The connections that answer for u being online in the database: mapped,
\* between their kick and their insert, between their erase and their
\* setOffline, or cut by the death of a server that has not come back.
Answers(c, u) ==
  /\ user[c] = u
  /\ \/ Mapped(c, u) = c
     \/ pc[c] \in {"setOnline", "insert"} \cup CloseSteps
     \/ pc[c] = "gone" /\ ~alive[ServerOf[c]]

\* No ghost: a user the database calls online has a session, or a handler that
\* will settle the matter is still running, or a server died and has not been
\* restarted.  This is what every close must achieve although it decides in
\* three critical sections and two writes, with logins of the same user in
\* between.  It needs the writes of the state column to succeed.
OnlineHasOwner ==
  \A u \in Users :
    dbState[u] = "online" => \E c \in Conns : Answers(c, u)

\* A client is only sent messages that somebody addressed to its user.
NoMisdelivery ==
  \A c \in Conns : \A copy \in Range(inbox[c]) :
    copy.msg \in 1..LastMsg /\ user[c] \in sent[copy.msg].to

Delivered == UNION {{c} \X DOMAIN inbox[c] : c \in Conns}
CopyOf(x) == inbox[x[1]][x[2]]
Via(x)    == CopyOf(x).via

CopiesAt(n, u, m) ==
  {x \in Delivered : user[x[1]] = u /\ CopyOf(x).msg = m /\ CopyOf(x).node = n}

\* Each server disposes of a message to a user in one way only: it gives it to
\* one session, or stores it, and never both; a second copy from the same
\* server can only be the same stored row, pushed to another session.  And
\* a message that the sender's server forwarded directly is handled by no
\* other server.
OneDisposal ==
  \A u \in Users, m \in 1..LastMsg :
    /\ \A n \in Servers : \A x, y \in CopiesAt(n, u, m) :
         x # y => /\ Via(x) = "offline" /\ Via(y) = "offline"
                  /\ x[1] # y[1]
    /\ \A n \in Servers :
         [to |-> u, msg |-> m, node |-> n] \in offline =>
           \A x \in CopiesAt(n, u, m) : Via(x) = "offline"
    /\ \A n, p \in Servers :
         (\E x \in CopiesAt(n, u, m) : Via(x) = "direct") /\ n # p
           => CopiesAt(p, u, m) = {}

\* Two messages of one sender that reach a client by the same live route come
\* in the order they were sent.  (Nothing of the kind holds across routes.)
FifoPerRoute ==
  \A c \in Conns : \A i, j \in DOMAIN inbox[c] :
    LET a == inbox[c][i]
        b == inbox[c][j]
    IN  /\ i < j /\ a.via = b.via /\ a.via # "offline"
        /\ sent[a.msg].from = sent[b.msg].from
        => a.msg < b.msg

\* c is the only session of its user, connected, and Redis has its server
\* subscribed to the user's channel.
Settled(c) ==
  /\ status[c] = "up" /\ user[c] # None
  /\ Mapped(c, user[c]) = c
  /\ user[c] \in subs[ServerOf[c]]
  /\ \A n \in Servers \ {ServerOf[c]} : connMap[n][user[c]] = None

Owes(s, m, u) == pc[s] = "lookup" /\ job[s].msg = m /\ u \in job[s].left

Got(c, m) == \E copy \in Range(inbox[c]) : copy.msg = m

\* A message that a handler has yet to send to a user reaches the one settled
\* session of that user, wherever it is, unless that session is disturbed or
\* the sender's server dies.
OnlineDelivery ==
  \A s, c \in Conns, m \in Msgs :
    (Owes(s, m, user[c]) /\ Settled(c))
      ~> (Got(c, m) \/ ~Settled(c) \/ pc[s] = "gone")

\* Once every session of a user has ended, the database comes to say offline,
\* unless the user comes back or a server died and has not been restarted.
LeavingShows ==
  \A u \in Users :
    (\A c \in Conns : user[c] = u => status[c] = "lost")
      ~> \/ dbState[u] = "offline"
         \/ \E c \in Conns : user[c] = u /\ status[c] # "lost"
         \/ \E n \in Servers : ~alive[n]
=============================================================================
