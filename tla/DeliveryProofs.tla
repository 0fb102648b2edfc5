---------------------------- MODULE DeliveryProofs ----------------------------
(***************************************************************************)
(* Who gets a message, and in what order, for any number of servers,       *)
(* connections, users and messages, whatever is lost or fails.             *)
(*                                                                         *)
(* NoMisdelivery.  A message passes from its sender's handler to an inbox  *)
(* directly, or through bus and hand, or through those, the table and the  *)
(* handler of a login.  The invariant says of each of these places that    *)
(* what is there was addressed to whom it names, and of each handler with  *)
(* a connection or rows in its hands that they are that user's.            *)
(*                                                                         *)
(* FifoPerRoute is in the second part.                                     *)
(***************************************************************************)
EXTENDS ChatServiceProofs

\* log records that m was addressed to u.
Addressed(log, m, u) == m \in 1..Len(log) /\ u \in log[m].to

\* The connection that a lookup found was mapped, so its login has run, and
\* its user never changes again, though the lock was released meanwhile.
JobsAddressed ==
  \A c \in Conns :
    /\ pc[c] \in ChatSteps => \A u \in job[c].left : Addressed(sent, job[c].msg, u)
    /\ pc[c] = "send" => Addressed(sent, job[c].msg, job[c].to)
    /\ pc[c] = "send" /\ job[c].conn # None =>
         user[job[c].conn] = job[c].to /\ pc[job[c].conn] # "fresh"

RelayAddressed ==
  /\ \A n \in Servers : \A i \in DOMAIN bus[n] : Addressed(sent, bus[n][i].msg, bus[n][i].to)
  /\ \A n \in Servers : hand[n] # None => Addressed(sent, hand[n].msg, hand[n].to)

RowsAddressed ==
  /\ \A r \in offline : Addressed(sent, r.msg, r.to)
  /\ \A c \in Conns : \A r \in unpushed[c] : r.to = user[c] /\ Addressed(sent, r.msg, r.to)

InboxAddressed ==
  /\ \A c \in Conns : \A i \in DOMAIN inbox[c] : Addressed(sent, inbox[c][i].msg, user[c])
  /\ \A c \in Conns : pc[c] = "fresh" => inbox[c] = <<>> /\ unpushed[c] = {}

DInv == JobsAddressed /\ RelayAddressed /\ RowsAddressed /\ InboxAddressed


-----------------------------------------------------------------------------
(* What the handlers leave alone                                           *)

LEMMA LoginEffect ==
  ASSUME TInv, NEW c \in Conns, LoginStep(c) \/ \E u \in Users : Login(c, u)
  PROVE  /\ UNCHANGED <<sent, job, bus, hand>>
         /\ \E step \in LoginSteps \cup {"ready", "refused"} : Goto(c, step)
<1> USE DEF LoginSteps, loginVars, chatVars, redisVars
<1>1. ASSUME NEW u \in Users, Login(c, u)
      PROVE  UNCHANGED <<sent, job, bus, hand>> /\ Goto(c, "kick")
  BY <1>1 DEF Login
<1>2. ASSUME LoginKick(c) PROVE UNCHANGED <<sent, job, bus, hand>> /\ Goto(c, "setOnline")
  BY <1>2 DEF LoginKick
<1>3. ASSUME LoginSetOnline(c) PROVE UNCHANGED <<sent, job, bus, hand>> /\ Goto(c, "insert")
  BY <1>3 DEF LoginSetOnline
<1>4. ASSUME LoginInsert(c) PROVE UNCHANGED <<sent, job, bus, hand>> /\ Goto(c, "subscribe")
  BY <1>4 DEF LoginInsert
<1>5. ASSUME LoginSubscribe(c) PROVE UNCHANGED <<sent, job, bus, hand>> /\ Goto(c, "query")
  BY <1>5 DEF LoginSubscribe, Broker!Subscribe
<1>6. ASSUME LoginQuery(c)
      PROVE  /\ UNCHANGED <<sent, job, bus, hand>>
             /\ \E step \in {"ack", "push"} : Goto(c, step)
  BY <1>6 DEF LoginQuery
<1>7. ASSUME LoginPush(c)
      PROVE  /\ UNCHANGED <<sent, job, bus, hand>>
             /\ \E step \in {"remove", "push"} : Goto(c, step)
  BY <1>7 DEF LoginPush
<1>8. ASSUME LoginRemove(c) PROVE UNCHANGED <<sent, job, bus, hand>> /\ Goto(c, "ack")
  BY <1>8 DEF LoginRemove
<1>9. ASSUME LoginAck(c)
      PROVE  /\ UNCHANGED <<sent, job, bus, hand>>
             /\ \E step \in {"ready", "refused"} : Goto(c, step)
  BY <1>9 DEF LoginAck
<1> QED BY <1>1, <1>2, <1>3, <1>4, <1>5, <1>6, <1>7, <1>8, <1>9 DEF LoginStep

LEMMA CloseEffect ==
  ASSUME TInv, NEW c \in Conns, CloseStep(c)
  PROVE  /\ UNCHANGED <<sent, job, bus, hand, user, unpushed, offline, inbox>>
         /\ \E step \in CloseSteps \cup {"closed"} : Goto(c, step)
<1> USE DEF CloseSteps, loginVars, chatVars, redisVars, dbVars
<1>1. CASE CloseErase(c)
  BY <1>1 DEF CloseErase
<1>2. CASE CloseCheck(c)
  BY <1>2 DEF CloseCheck
<1>3. CASE CloseUnsubscribe(c)
  BY <1>3 DEF CloseUnsubscribe, Broker!Unsubscribe
<1>4. CASE CloseSetOffline(c)
  BY <1>4 DEF CloseSetOffline, Table!UpdateState
<1> QED BY <1>1, <1>2, <1>3, <1>4 DEF CloseStep

\* A message once sent stays as it was.
LEMMA SentGrows ==
  ASSUME TInv, Next
  PROVE  \A m \in 1..Len(sent) : m \in 1..Len(sent') /\ sent'[m] = sent[m]
<1>0. sent \in Seq([from : Conns, to : SUBSET Users])
  BY DEF TInv, TypeOK
<1>1. ASSUME NEW entry, sent' = Append(sent, entry)
      PROVE  \A m \in 1..Len(sent) : m \in 1..Len(sent') /\ sent'[m] = sent[m]
  BY <1>0, <1>1
<1>2. ASSUME NEW n \in Servers,
             Start(n) \/ Stop(n) \/ Crash(n) \/ ObserverStep(n) \/ RedisServes(n)
      PROVE  UNCHANGED sent
  BY <1>2 DEF Start, Stop, Crash, ObserverStep, Observe, Store, RedisServes, chatVars
<1>3. ASSUME NEW c \in Conns, Connect(c) \/ PeerClose(c) \/ ChatStep(c)
      PROVE  UNCHANGED sent
  BY <1>3 DEF Connect, PeerClose, ChatStep, ChatLookup, ChatForward, ChatPublish, chatVars
<1>4. ASSUME NEW c \in Conns, OneChat(c) \/ GroupChat(c)
      PROVE  \E entry : sent' = Append(sent, entry)
  BY <1>4 DEF OneChat, GroupChat, Chat
<1>5. sent' = sent \/ \E entry : sent' = Append(sent, entry)
  BY <1>2, <1>3, <1>4, LoginEffect, CloseEffect DEF Next, HandlerStep
<1> QED BY <1>1, <1>5

LEMMA AddressedStays ==
  ASSUME TInv, Next, NEW m, NEW u, Addressed(sent, m, u)
  PROVE  Addressed(sent', m, u)
  BY SentGrows DEF Addressed

\* The user of a connection is set once, by its login.
LEMMA UserStays ==
  ASSUME TInv, Next, NEW d \in Conns, pc[d] # "fresh"
  PROVE  user'[d] = user[d] /\ pc'[d] # "fresh"
<1> USE DEF loginVars
<1>0. pc \in [Conns -> Steps] /\ user \in [Conns -> Users \cup {None}]
  BY DEF TInv, TypeOK
<1>1. ASSUME NEW n \in Servers, Start(n) \/ Stop(n) \/ ObserverStep(n) \/ RedisServes(n)
      PROVE  UNCHANGED <<user, pc>>
  BY <1>1 DEF Start, Stop, ObserverStep, Observe, Store, RedisServes
<1>2. ASSUME NEW n \in Servers, Crash(n)
      PROVE  user'[d] = user[d] /\ pc'[d] # "fresh"
  BY <1>0, <1>2 DEF Crash
<1>3. ASSUME NEW c \in Conns, Connect(c) \/ PeerClose(c)
      PROVE  UNCHANGED <<user, pc>>
  BY <1>3 DEF Connect, PeerClose
<1>4. ASSUME NEW c \in Conns, NEW u \in Users, Login(c, u)
      PROVE  user'[d] = user[d] /\ pc'[d] # "fresh"
  BY <1>0, <1>4 DEF Login, At, Goto
<1>5. ASSUME NEW c \in Conns, LoginStep(c)
      PROVE  user' = user /\ \E step \in Steps \ {"fresh"} : Goto(c, step)
  BY <1>5 DEF LoginStep, LoginKick, LoginSetOnline, LoginInsert, LoginSubscribe,
              LoginQuery, LoginPush, LoginRemove, LoginAck, Steps, LoginSteps
<1>6. ASSUME NEW c \in Conns, CloseStep(c)
      PROVE  user' = user /\ \E step \in Steps \ {"fresh"} : Goto(c, step)
  BY <1>6, CloseEffect DEF Steps, CloseSteps
<1>7. ASSUME NEW c \in Conns, ChatStep(c) \/ OneChat(c) \/ GroupChat(c)
      PROVE  user' = user /\ \E step \in Steps \ {"fresh"} : Goto(c, step)
  BY <1>7 DEF ChatStep, ChatLookup, ChatForward, ChatPublish, NextRecipient,
              OneChat, GroupChat, Chat, Steps, ChatSteps
<1>8. ASSUME NEW c \in Conns, user' = user, \E step \in Steps \ {"fresh"} : Goto(c, step)
      PROVE  user'[d] = user[d] /\ pc'[d] # "fresh"
  BY <1>0, <1>8 DEF Goto
<1>9. UNCHANGED <<user, pc>> => user'[d] = user[d] /\ pc'[d] # "fresh"
  OBVIOUS
<1> QED BY <1>1, <1>2, <1>3, <1>4, <1>5, <1>6, <1>7, <1>8, <1>9 DEF Next, HandlerStep

-----------------------------------------------------------------------------
(* The handlers that send                                                  *)

LEMMA JobsKeep ==
  ASSUME TInv, Next, JobsAddressed, UNCHANGED job,
         NEW d \in Conns,
         pc'[d] \in ChatSteps => pc[d] \in ChatSteps,
         pc'[d] = "send" => pc[d] = "send"
  PROVE  /\ pc'[d] \in ChatSteps => \A u \in job'[d].left : Addressed(sent', job'[d].msg, u)
         /\ pc'[d] = "send" => Addressed(sent', job'[d].msg, job'[d].to)
         /\ pc'[d] = "send" /\ job'[d].conn # None =>
              user'[job'[d].conn] = job'[d].to /\ pc'[job'[d].conn] # "fresh"
<1>1. job[d].conn \in Conns \cup {None}
  BY DEF TInv, TypeOK
<1>2. ASSUME pc'[d] \in ChatSteps, NEW u \in job[d].left PROVE Addressed(sent', job[d].msg, u)
  BY <1>2, AddressedStays DEF JobsAddressed
<1>3. ASSUME pc'[d] = "send" PROVE Addressed(sent', job[d].msg, job[d].to)
  BY <1>3, AddressedStays DEF JobsAddressed
<1>4. ASSUME pc'[d] = "send", job[d].conn # None
      PROVE  user'[job[d].conn] = job[d].to /\ pc'[job[d].conn] # "fresh"
  BY <1>1, <1>4, UserStays DEF JobsAddressed
<1> QED BY <1>2, <1>3, <1>4

\* A new message: its recipients are those it was recorded with.
LEMMA JobsOfChat ==
  ASSUME TInv, Next, JobsAddressed, NEW c \in Conns, NEW recipients \in SUBSET Users,
         Chat(c, recipients)
  PROVE  JobsAddressed'
<1>1. job \in [Conns -> [msg : Msgs \cup {0}, left : SUBSET Users,
                         to : Users \cup {None}, conn : Conns \cup {None}]]
      /\ pc \in [Conns -> Steps]
  BY DEF TInv, TypeOK
<1>2. sent' = Append(sent, [from |-> c, to |-> recipients]) /\ Goto(c, "lookup")
  BY DEF Chat
<1>3. /\ job'[c].msg = LastMsg + 1 /\ job'[c].left = recipients
      /\ \A d \in Conns : d # c => job'[d] = job[d]
  BY <1>1 DEF Chat, NoJob
<1>4. \A u \in recipients : Addressed(sent', LastMsg + 1, u)
  <2>1. sent \in Seq([from : Conns, to : SUBSET Users])
    BY DEF TInv, TypeOK
  <2>2. Len(sent') = Len(sent) + 1 /\ sent'[Len(sent) + 1].to = recipients
    BY <1>2, <2>1
  <2>3. LastMsg + 1 \in 1..Len(sent')
    BY <2>1, <2>2 DEF LastMsg
  <2> QED BY <2>2, <2>3 DEF Addressed, LastMsg
<1>5. \A d \in Conns : pc'[d] = IF d = c THEN "lookup" ELSE pc[d]
  BY <1>1, <1>2 DEF Goto
<1>6. SUFFICES ASSUME NEW d \in Conns
      PROVE  /\ pc'[d] \in ChatSteps => \A u \in job'[d].left : Addressed(sent', job'[d].msg, u)
             /\ pc'[d] = "send" => Addressed(sent', job'[d].msg, job'[d].to)
             /\ pc'[d] = "send" /\ job'[d].conn # None =>
                  user'[job'[d].conn] = job'[d].to /\ pc'[job'[d].conn] # "fresh"
  BY DEF JobsAddressed
<1>7. CASE d = c
  <2>1. pc'[d] # "send"
    BY <1>5, <1>7
  <2>2. \A u \in job'[d].left : Addressed(sent', job'[d].msg, u)
    <3> SUFFICES ASSUME NEW u \in job'[d].left PROVE Addressed(sent', job'[d].msg, u)
      OBVIOUS
    <3>1. u \in recipients
      BY <1>3, <1>7
    <3>2. Addressed(sent', LastMsg + 1, u)
      BY <1>4, <3>1
    <3> QED BY <1>3, <1>7, <3>2 DEF Addressed
  <2> QED BY <2>1, <2>2
<1>8. CASE d # c
  <2>1. job'[d] = job[d] /\ pc'[d] = pc[d]
    BY <1>3, <1>5, <1>8
  <2>2. job[d].conn \in Conns \cup {None}
    BY <1>1
  <2>3. ASSUME pc[d] \in ChatSteps, NEW u \in job[d].left PROVE Addressed(sent', job[d].msg, u)
    BY <2>3, AddressedStays DEF JobsAddressed
  <2>4. ASSUME pc[d] = "send" PROVE Addressed(sent', job[d].msg, job[d].to)
    BY <2>4, AddressedStays DEF JobsAddressed
  <2>5. ASSUME pc[d] = "send", job[d].conn # None
        PROVE  user'[job[d].conn] = job[d].to /\ pc'[job[d].conn] # "fresh"
    BY <2>2, <2>5, UserStays DEF JobsAddressed
  <2> QED BY <2>1, <2>3, <2>4, <2>5 DEF Addressed
<1> QED BY <1>7, <1>8

\* What a lookup finds is a connection of the recipient, for good.
LEMMA JobsOfLookup ==
  ASSUME TInv, SInv, Next, JobsAddressed, NEW c \in Conns, ChatLookup(c)
  PROVE  JobsAddressed'
<1>1. job \in [Conns -> [msg : Msgs \cup {0}, left : SUBSET Users,
                         to : Users \cup {None}, conn : Conns \cup {None}]]
      /\ pc \in [Conns -> Steps]
  BY DEF TInv, TypeOK
<1>2. At(c, "lookup") /\ Goto(c, "send") /\ UNCHANGED <<sent, user>>
  BY DEF ChatLookup, loginVars
<1>3. PICK u \in job[c].left :
        job' = [job EXCEPT ![c] = [msg |-> job[c].msg, left |-> job[c].left \ {u},
                                   to |-> u, conn |-> Mapped(c, u)]]
  BY DEF ChatLookup
<1>4. /\ job'[c] = [msg |-> job[c].msg, left |-> job[c].left \ {u},
                    to |-> u, conn |-> Mapped(c, u)]
      /\ \A d \in Conns : d # c => job'[d] = job[d]
  BY <1>1, <1>3
<1>5. \A d \in Conns : pc'[d] = IF d = c THEN "send" ELSE pc[d]
  BY <1>1, <1>2 DEF Goto
<1>6. \A v \in job[c].left : Addressed(sent', job[c].msg, v)
  BY <1>2, AddressedStays DEF JobsAddressed, At, ChatSteps
<1>7. ASSUME Mapped(c, u) # None
      PROVE  user'[Mapped(c, u)] = u /\ pc'[Mapped(c, u)] # "fresh"
  <2>1. u \in Users
    BY <1>1, <1>3
  <2>2. Mapped(c, u) \in Conns /\ ServerOf[c] \in Servers
    BY <1>7, <2>1, MappedType DEF TInv
  <2>3. user[Mapped(c, u)] = u /\ pc[Mapped(c, u)] \in MappedSteps
    BY <1>7, <2>1, <2>2 DEF SInv, MapHoldsLiveSessions, Mapped
  <2> QED BY <2>2, <2>3, UserStays DEF MappedSteps, ChatSteps
<1> SUFFICES ASSUME NEW d \in Conns
    PROVE  /\ pc'[d] \in ChatSteps => \A v \in job'[d].left : Addressed(sent', job'[d].msg, v)
           /\ pc'[d] = "send" => Addressed(sent', job'[d].msg, job'[d].to)
           /\ pc'[d] = "send" /\ job'[d].conn # None =>
                user'[job'[d].conn] = job'[d].to /\ pc'[job'[d].conn] # "fresh"
  BY DEF JobsAddressed
<1>8. CASE d = c
  BY <1>3, <1>4, <1>6, <1>7, <1>8
<1>9. CASE d # c
  <2>1. job'[d] = job[d] /\ pc'[d] = pc[d]
    BY <1>4, <1>5, <1>9
  <2>2. job[d].conn \in Conns \cup {None}
    BY <1>1
  <2>3. ASSUME pc[d] \in ChatSteps, NEW v \in job[d].left PROVE Addressed(sent', job[d].msg, v)
    BY <2>3, AddressedStays DEF JobsAddressed
  <2>4. ASSUME pc[d] = "send" PROVE Addressed(sent', job[d].msg, job[d].to)
    BY <2>4, AddressedStays DEF JobsAddressed
  <2>5. ASSUME pc[d] = "send", job[d].conn # None
        PROVE  user'[job[d].conn] = job[d].to /\ pc'[job[d].conn] # "fresh"
    BY <2>2, <2>5, UserStays DEF JobsAddressed
  <2> QED BY <2>1, <2>3, <2>4, <2>5
<1> QED BY <1>8, <1>9

LEMMA JobsStep ==
  ASSUME TInv, SInv, Next, JobsAddressed
  PROVE  JobsAddressed'
<1>1. pc \in [Conns -> Steps]
  BY DEF TInv, TypeOK
<1>2. ASSUME UNCHANGED job,
             \A d \in Conns : pc'[d] \in ChatSteps =>
               pc'[d] = pc[d] \/ (pc[d] = "send" /\ pc'[d] # "send")
      PROVE  JobsAddressed'
  BY <1>2, JobsKeep DEF JobsAddressed, ChatSteps
<1>3. ASSUME NEW n \in Servers, Start(n) \/ Stop(n) \/ ObserverStep(n) \/ RedisServes(n)
      PROVE  UNCHANGED <<job, pc>>
  BY <1>3 DEF Start, Stop, ObserverStep, Observe, Store, RedisServes, chatVars
<1>4. ASSUME NEW n \in Servers, Crash(n)
      PROVE  UNCHANGED job /\ \A d \in Conns : pc'[d] \in ChatSteps => pc'[d] = pc[d]
  BY <1>4 DEF Crash, chatVars, ChatSteps
<1>5. ASSUME NEW c \in Conns, Connect(c) \/ PeerClose(c)
      PROVE  UNCHANGED <<job, pc>>
  BY <1>5 DEF Connect, PeerClose, chatVars
<1>6. ASSUME NEW c \in Conns, LoginStep(c) \/ CloseStep(c) \/ \E u \in Users : Login(c, u)
      PROVE  UNCHANGED job /\ \A d \in Conns : pc'[d] \in ChatSteps => pc'[d] = pc[d]
  BY <1>1, <1>6, LoginEffect, CloseEffect
     DEF Goto, ChatSteps, LoginSteps, CloseSteps
<1>7. ASSUME NEW c \in Conns, OneChat(c) \/ GroupChat(c)
      PROVE  JobsAddressed'
  <2>1. ASSUME NEW u \in Users, Chat(c, {u}) PROVE JobsAddressed'
    BY <2>1, JobsOfChat
  <2>2. ASSUME NEW g \in Groups, Chat(c, g \ {user[c]}) PROVE JobsAddressed'
    <3>1. g \ {user[c]} \in SUBSET Users
      BY ServiceAssumption
    <3> QED BY <2>2, <3>1, JobsOfChat
  <2> QED BY <1>7, <2>1, <2>2 DEF OneChat, GroupChat
<1>8. ASSUME NEW c \in Conns, ChatForward(c) \/ ChatPublish(c)
      PROVE  /\ UNCHANGED job
             /\ \A d \in Conns : pc'[d] \in ChatSteps =>
                  pc'[d] = pc[d] \/ (pc[d] = "send" /\ pc'[d] # "send")
  <2>1. UNCHANGED job /\ pc[c] = "send" /\ \E step \in {"ready", "lookup"} : Goto(c, step)
    BY <1>8 DEF ChatForward, ChatPublish, NextRecipient, At, chatVars
  <2> QED BY <1>1, <2>1 DEF Goto
<1>9. ASSUME UNCHANGED <<job, pc>> PROVE JobsAddressed'
  BY <1>2, <1>9
<1>10. ASSUME NEW c \in Conns, ChatStep(c) PROVE JobsAddressed'
  BY <1>2, <1>8, <1>10, JobsOfLookup DEF ChatStep
<1> QED BY <1>2, <1>3, <1>4, <1>5, <1>6, <1>7, <1>9, <1>10 DEF Next, HandlerStep

-----------------------------------------------------------------------------
(* Messages on their way through Redis                                     *)

LEMMA RelayKeep ==
  ASSUME TInv, Next, RelayAddressed, NEW n \in Servers
  PROVE  /\ \A i \in DOMAIN bus[n] : Addressed(sent', bus[n][i].msg, bus[n][i].to)
         /\ hand[n] # None => Addressed(sent', hand[n].msg, hand[n].to)
  BY AddressedStays DEF RelayAddressed

LEMMA RelayOfPublish ==
  ASSUME TInv, Next, RelayAddressed, JobsAddressed, NEW c \in Conns, ChatPublish(c)
  PROVE  RelayAddressed'
<1> DEFINE item == [to |-> job[c].to, msg |-> job[c].msg]
<1>1. hand' = hand /\ pc[c] = "send"
  BY DEF ChatPublish, At
<1>2. bus \in [Servers -> Seq(Relay)]
  BY DEF TInv, TypeOK, Broker!TypeOK
<1>3. item \in Relay
  BY <1>1 DEF Relay, TInv, HandlerOK, ChatSteps
<1>4. Addressed(sent', item.msg, item.to)
  BY <1>1, AddressedStays DEF JobsAddressed
<1>5. \/ bus' = bus
      \/ Broker!Publish(job[c].to, item)
  BY DEF ChatPublish, redisVars
<1> HIDE DEF item
<1>6. \A n \in Servers : bus'[n] = bus[n] \/ bus'[n] = Append(bus[n], item)
  BY <1>2, <1>5 DEF Broker!Publish
<1>7. ASSUME NEW n \in Servers, NEW i \in DOMAIN bus'[n]
      PROVE  Addressed(sent', bus'[n][i].msg, bus'[n][i].to)
  <2>1. CASE bus'[n] = bus[n]
    BY <1>7, <2>1, RelayKeep
  <2>2. CASE bus'[n] = Append(bus[n], item)
    <3>1. bus[n] \in Seq(Relay)
      BY <1>2
    <3>2. (i \in DOMAIN bus[n] /\ bus'[n][i] = bus[n][i]) \/ bus'[n][i] = item
      BY <1>3, <1>7, <2>2, <3>1
    <3> QED BY <1>4, <3>2, RelayKeep
  <2> QED BY <1>6, <2>1, <2>2
<1> QED BY <1>1, <1>7, RelayKeep DEF RelayAddressed

LEMMA RelayOfObserve ==
  ASSUME TInv, Next, RelayAddressed, NEW n \in Servers, Observe(n)
  PROVE  RelayAddressed'
<1>1. bus \in [Servers -> Seq(Relay)] /\ hand \in [Servers -> Relay \cup {None}]
  BY DEF TInv, TypeOK, Broker!TypeOK
<1>2. bus[n] # <<>> /\ bus' = [bus EXCEPT ![n] = Tail(bus[n])]
  BY DEF Observe, Broker!Receive
<1>3. hand' = hand \/ hand' = [hand EXCEPT ![n] = Head(bus[n])]
  BY DEF Observe
<1>4. bus[n] \in Seq(Relay) /\ 1 \in DOMAIN bus[n] /\ Head(bus[n]) = bus[n][1]
  BY <1>1, <1>2
<1>5. ASSUME NEW p \in Servers, NEW i \in DOMAIN bus'[p]
      PROVE  Addressed(sent', bus'[p][i].msg, bus'[p][i].to)
  <2>1. CASE p = n
    <3>1. bus'[p] = Tail(bus[n])
      BY <1>1, <1>2, <2>1
    <3>2. i + 1 \in DOMAIN bus[n] /\ bus'[p][i] = bus[n][i + 1]
      BY <1>4, <1>5, <3>1
    <3> QED BY <3>2, RelayKeep
  <2>2. CASE p # n
    BY <1>1, <1>2, <1>5, <2>2, RelayKeep
  <2> QED BY <2>1, <2>2
<1>6. ASSUME NEW p \in Servers, hand'[p] # None
      PROVE  Addressed(sent', hand'[p].msg, hand'[p].to)
  <2>1. hand'[p] = hand[p] \/ (p = n /\ hand'[p] = bus[n][1])
    BY <1>1, <1>3, <1>4
  <2> QED BY <1>4, <1>6, <2>1, RelayKeep
<1> QED BY <1>5, <1>6 DEF RelayAddressed

LEMMA RelayStep ==
  ASSUME TInv, Next, RelayAddressed, JobsAddressed
  PROVE  RelayAddressed'
<1> USE DEF chatVars, redisVars
<1>1. ASSUME UNCHANGED <<bus, hand>> PROVE RelayAddressed'
  BY <1>1, RelayKeep DEF RelayAddressed
<1>2. ASSUME NEW n \in Servers, Start(n) \/ Stop(n) \/ RedisServes(n)
      PROVE  UNCHANGED <<bus, hand>>
  BY <1>2 DEF Start, Stop, RedisServes, Broker!Serve
<1>3. ASSUME NEW n \in Servers, Crash(n) \/ Store(n) PROVE RelayAddressed'
  <2>1. bus \in [Servers -> Seq(Relay)] /\ hand \in [Servers -> Relay \cup {None}]
    BY DEF TInv, TypeOK, Broker!TypeOK
  <2>2. /\ hand' = [hand EXCEPT ![n] = None]
        /\ bus' = bus \/ bus' = [bus EXCEPT ![n] = <<>>]
    BY <1>3 DEF Crash, Store, Broker!Disconnect
  <2>3. \A p \in Servers : /\ bus'[p] = bus[p] \/ bus'[p] = <<>>
                           /\ hand'[p] = hand[p] \/ hand'[p] = None
    BY <2>1, <2>2
  <2> QED BY <2>3, RelayKeep DEF RelayAddressed
<1>4. ASSUME NEW c \in Conns,
             Connect(c) \/ PeerClose(c) \/ ChatLookup(c) \/ ChatForward(c)
               \/ OneChat(c) \/ GroupChat(c)
      PROVE  UNCHANGED <<bus, hand>>
  BY <1>4 DEF Connect, PeerClose, ChatLookup, ChatForward, OneChat, GroupChat, Chat
<1>5. ASSUME NEW c \in Conns, LoginStep(c) \/ CloseStep(c) \/ \E u \in Users : Login(c, u)
      PROVE  UNCHANGED <<bus, hand>>
  BY <1>5, LoginEffect, CloseEffect
<1>6. ASSUME NEW c \in Conns, ChatStep(c) PROVE RelayAddressed'
  BY <1>1, <1>4, <1>6, RelayOfPublish DEF ChatStep
<1>7. ASSUME NEW n \in Servers, ObserverStep(n) PROVE RelayAddressed'
  BY <1>3, <1>7, RelayOfObserve DEF ObserverStep
<1> QED BY <1>1, <1>2, <1>3, <1>4, <1>5, <1>6, <1>7 DEF Next, HandlerStep

-----------------------------------------------------------------------------
(* Stored messages                                                         *)

LEMMA RowsShrink ==
  ASSUME TInv, Next, RowsAddressed, InboxAddressed,
         offline' \subseteq offline,
         \A d \in Conns : unpushed'[d] \subseteq unpushed[d]
  PROVE  RowsAddressed'
<1>1. ASSUME NEW r \in offline' PROVE Addressed(sent', r.msg, r.to)
  BY <1>1, AddressedStays DEF RowsAddressed
<1>2. ASSUME NEW d \in Conns, NEW r \in unpushed'[d]
      PROVE  r.to = user'[d] /\ Addressed(sent', r.msg, r.to)
  BY <1>2, AddressedStays, UserStays DEF RowsAddressed, InboxAddressed
<1> QED BY <1>1, <1>2 DEF RowsAddressed

LEMMA RowsOfStore ==
  ASSUME TInv, Next, RowsAddressed, InboxAddressed, RelayAddressed,
         NEW n \in Servers, Store(n)
  PROVE  RowsAddressed'
<1> DEFINE row == [to |-> hand[n].to, msg |-> hand[n].msg, node |-> n]
<1>1. hand[n] # None /\ UNCHANGED <<unpushed, user, pc>>
  BY DEF Store, loginVars
<1>2. Addressed(sent', row.msg, row.to)
  BY <1>1, AddressedStays DEF RelayAddressed
<1>3. offline' = offline \/ offline' = offline \cup {row}
  BY DEF Store, Table!InsertRow
<1> HIDE DEF row
<1>4. ASSUME NEW r \in offline' PROVE Addressed(sent', r.msg, r.to)
  BY <1>2, <1>3, <1>4, AddressedStays DEF RowsAddressed
<1>5. ASSUME NEW d \in Conns, NEW r \in unpushed'[d]
      PROVE  r.to = user'[d] /\ Addressed(sent', r.msg, r.to)
  BY <1>1, <1>5, AddressedStays DEF RowsAddressed
<1> QED BY <1>4, <1>5 DEF RowsAddressed

\* What a login reads are rows of its user.
LEMMA RowsOfQuery ==
  ASSUME TInv, Next, RowsAddressed, InboxAddressed, NEW c \in Conns, LoginQuery(c)
  PROVE  RowsAddressed'
<1>1. unpushed \in [Conns -> SUBSET Table!Rows]
  BY DEF TInv, TypeOK
<1>2. UNCHANGED <<user, sent, offline>>
  BY DEF LoginQuery, chatVars, dbVars
<1>3. PICK found \in SUBSET Table!RowsFor(user[c]) : unpushed' = [unpushed EXCEPT ![c] = found]
  <2>1. \/ unpushed' = [unpushed EXCEPT ![c] = Table!RowsFor(user[c])]
        \/ unpushed' = [unpushed EXCEPT ![c] = {}]
    BY DEF LoginQuery
  <2> QED BY <2>1
<1>4. \A d \in Conns : unpushed'[d] = IF d = c THEN found ELSE unpushed[d]
  BY <1>1, <1>3
<1> QED BY <1>2, <1>3, <1>4 DEF RowsAddressed, Table!RowsFor

LEMMA RowsStep ==
  ASSUME TInv, Next, RowsAddressed, InboxAddressed, RelayAddressed
  PROVE  RowsAddressed'
<1> USE DEF loginVars, dbVars
<1>0. unpushed \in [Conns -> SUBSET Table!Rows]
  BY DEF TInv, TypeOK
<1>1. ASSUME UNCHANGED <<offline, unpushed>> PROVE RowsAddressed'
  BY <1>1, RowsShrink
<1>2. ASSUME NEW n \in Servers, Start(n) \/ Stop(n) \/ Crash(n) \/ Observe(n) \/ RedisServes(n)
      PROVE  UNCHANGED <<offline, unpushed>>
  BY <1>2 DEF Start, Stop, Crash, Observe, RedisServes, Table!ResetAllStateToOffline
<1>3. ASSUME NEW c \in Conns,
             Connect(c) \/ PeerClose(c) \/ OneChat(c) \/ GroupChat(c)
      PROVE  UNCHANGED <<offline, unpushed>>
  BY <1>3 DEF Connect, PeerClose, OneChat, GroupChat, Chat
<1>4. ASSUME NEW c \in Conns, CloseStep(c) \/ ChatStep(c) \/ \E u \in Users : Login(c, u)
      PROVE  UNCHANGED <<offline, unpushed>>
  <2>1. CASE ChatStep(c)
    BY <2>1 DEF ChatStep, ChatLookup, ChatForward, ChatPublish
  <2> QED BY <1>4, <2>1, CloseEffect DEF Login
<1>5. ASSUME NEW c \in Conns, LoginStep(c) PROVE RowsAddressed'
  <2>1. ASSUME LoginRemove(c) PROVE offline' \subseteq offline /\ unpushed' = unpushed
    BY <2>1 DEF LoginRemove, Table!RemoveRowsFor
  <2>2. ASSUME LoginPush(c)
        PROVE  offline' = offline /\ \A d \in Conns : unpushed'[d] \subseteq unpushed[d]
    BY <1>0, <2>2 DEF LoginPush
  <2>3. ASSUME \/ LoginKick(c) \/ LoginSetOnline(c) \/ LoginInsert(c)
               \/ LoginSubscribe(c) \/ LoginAck(c)
        PROVE  UNCHANGED <<offline, unpushed>>
    BY <2>3 DEF LoginKick, LoginSetOnline, LoginInsert, LoginSubscribe, LoginAck,
                Table!UpdateState
  <2> QED BY <1>1, <1>5, <2>1, <2>2, <2>3, RowsShrink, RowsOfQuery DEF LoginStep
<1>6. ASSUME NEW n \in Servers, ObserverStep(n) PROVE RowsAddressed'
  BY <1>1, <1>2, <1>6, RowsOfStore DEF ObserverStep
<1> QED BY <1>1, <1>2, <1>3, <1>4, <1>5, <1>6 DEF Next, HandlerStep

-----------------------------------------------------------------------------
(* Inboxes                                                                 *)

LEMMA InboxKeep ==
  ASSUME TInv, Next, InboxAddressed, NEW d \in Conns
  PROVE  /\ \A i \in DOMAIN inbox[d] : Addressed(sent', inbox[d][i].msg, user'[d])
         /\ pc'[d] = "fresh" => pc[d] = "fresh" /\ inbox[d] = <<>> /\ unpushed[d] = {}
  BY AddressedStays, UserStays DEF InboxAddressed

LEMMA InboxSame ==
  ASSUME TInv, Next, InboxAddressed, inbox' = inbox,
         \A d \in Conns : pc'[d] = "fresh" => unpushed'[d] = unpushed[d]
  PROVE  InboxAddressed'
  BY InboxKeep DEF InboxAddressed

LEMMA InboxOfDeliver ==
  ASSUME TInv, Next, InboxAddressed, NEW c \in Conns, NEW copy \in Copies,
         Deliver(c, copy), pc[c] # "fresh", Addressed(sent, copy.msg, user[c]),
         \A d \in Conns : pc'[d] = "fresh" => unpushed'[d] = unpushed[d]
  PROVE  InboxAddressed'
<1>1. inbox \in [Conns -> Seq(Copies)]
  BY DEF TInv, TypeOK
<1>2. \A d \in Conns : /\ d # c => inbox'[d] = inbox[d]
                       /\ inbox'[d] = inbox[d] \/ inbox'[d] = Append(inbox[d], copy)
  BY <1>1 DEF Deliver
<1>3. Addressed(sent', copy.msg, user'[c])
  BY AddressedStays, UserStays
<1>4. ASSUME NEW d \in Conns, NEW i \in DOMAIN inbox'[d]
      PROVE  Addressed(sent', inbox'[d][i].msg, user'[d])
  <2>1. (i \in DOMAIN inbox[d] /\ inbox'[d][i] = inbox[d][i]) \/ (d = c /\ inbox'[d][i] = copy)
    <3>1. CASE inbox'[d] = inbox[d]
      BY <3>1, <1>4
    <3>2. CASE d = c /\ inbox'[d] = Append(inbox[d], copy)
      <4>1. inbox[d] \in Seq(Copies)
        BY <1>1
      <4> QED BY <3>2, <4>1, <1>4
    <3> QED BY <3>1, <3>2, <1>2
  <2> QED BY <1>3, <2>1, InboxKeep
<1>5. ASSUME NEW d \in Conns, pc'[d] = "fresh" PROVE inbox'[d] = <<>> /\ unpushed'[d] = {}
  BY <1>2, <1>5, InboxKeep
<1> QED BY <1>4, <1>5 DEF InboxAddressed

LEMMA InboxOfObserve ==
  ASSUME TInv, SInv, Next, InboxAddressed, RelayAddressed, NEW n \in Servers, Observe(n)
  PROVE  InboxAddressed'
<1> DEFINE item == Head(bus[n])
           d == connMap[n][item.to]
<1>1. bus[n] \in Seq(Relay) /\ bus[n] # <<>> /\ unpushed' = unpushed
  BY DEF TInv, TypeOK, Broker!TypeOK, Observe, Broker!Receive, loginVars
<1>2. item \in Relay /\ item = bus[n][1] /\ 1 \in DOMAIN bus[n]
  BY <1>1
<1>3. item.to \in Users /\ item.msg \in Msgs /\ Addressed(sent, item.msg, item.to)
  BY <1>2 DEF Relay, RelayAddressed
<1>4. CASE d # None
  <2>1. d \in Conns
    BY <1>3, <1>4 DEF TInv, TypeOK
  <2>2. user[d] = item.to /\ pc[d] # "fresh"
    BY <1>3, <1>4 DEF SInv, MapHoldsLiveSessions, MappedSteps, ChatSteps
  <2>3. Deliver(d, [msg |-> item.msg, via |-> "relay", node |-> n])
    BY <1>4 DEF Observe
  <2>4. [msg |-> item.msg, via |-> "relay", node |-> n] \in Copies
    BY <1>3 DEF Copies
  <2> QED BY <1>1, <1>3, <2>1, <2>2, <2>3, <2>4, InboxOfDeliver
<1>5. CASE d = None
  BY <1>1, <1>5, InboxSame DEF Observe
<1> QED BY <1>4, <1>5

LEMMA InboxOfForward ==
  ASSUME TInv, Next, InboxAddressed, JobsAddressed, NEW c \in Conns, ChatForward(c)
  PROVE  InboxAddressed'
<1>1. pc[c] = "send" /\ job[c].conn # None /\ unpushed' = unpushed
  BY DEF ChatForward, At, loginVars
<1>2. job[c].conn \in Conns /\ job[c].msg \in Msgs /\ ServerOf[c] \in Servers
  BY <1>1, ServiceAssumption DEF TInv, TypeOK, HandlerOK, ChatSteps
<1>3. Addressed(sent, job[c].msg, user[job[c].conn]) /\ pc[job[c].conn] # "fresh"
  BY <1>1 DEF JobsAddressed
<1>4. [msg |-> job[c].msg, via |-> "direct", node |-> ServerOf[c]] \in Copies
  BY <1>2 DEF Copies
<1> QED BY <1>1, <1>2, <1>3, <1>4, InboxOfDeliver DEF ChatForward

LEMMA InboxOfPush ==
  ASSUME TInv, Next, InboxAddressed, RowsAddressed, NEW c \in Conns, LoginPush(c)
  PROVE  InboxAddressed'
<1>1. unpushed \in [Conns -> SUBSET Table!Rows] /\ pc \in [Conns -> Steps]
  BY DEF TInv, TypeOK
<1>2. PICK r \in unpushed[c] :
        /\ Deliver(c, [msg |-> r.msg, via |-> "offline", node |-> r.node])
        /\ unpushed' = [unpushed EXCEPT ![c] = unpushed[c] \ {r}]
  BY DEF LoginPush
<1>3. pc[c] = "push" /\ \E step \in {"remove", "push"} : Goto(c, step)
  BY DEF LoginPush, At
<1>4. \A d \in Conns : pc'[d] = "fresh" => unpushed'[d] = unpushed[d]
  BY <1>1, <1>2, <1>3 DEF Goto
<1>5. [msg |-> r.msg, via |-> "offline", node |-> r.node] \in Copies
  BY <1>1, <1>2 DEF Copies, Table!Rows
<1>6. Addressed(sent, r.msg, user[c])
  BY <1>2 DEF RowsAddressed
<1> QED BY <1>2, <1>3, <1>4, <1>5, <1>6, InboxOfDeliver

LEMMA InboxStep ==
  ASSUME TInv, SInv, Next, DInv
  PROVE  InboxAddressed'
<1> USE DEF loginVars
<1>0. InboxAddressed /\ RowsAddressed /\ RelayAddressed /\ JobsAddressed
  BY DEF DInv
<1>1. ASSUME UNCHANGED <<inbox, unpushed>> PROVE InboxAddressed'
  BY <1>0, <1>1, InboxSame
<1>2. ASSUME NEW n \in Servers, Start(n) \/ Stop(n) \/ Crash(n) \/ Store(n) \/ RedisServes(n)
      PROVE  UNCHANGED <<inbox, unpushed>>
  BY <1>2 DEF Start, Stop, Crash, Store, RedisServes
<1>3. ASSUME NEW c \in Conns,
             \/ Connect(c) \/ PeerClose(c) \/ OneChat(c) \/ GroupChat(c)
             \/ ChatLookup(c) \/ ChatPublish(c) \/ CloseStep(c)
             \/ \E u \in Users : Login(c, u)
      PROVE  UNCHANGED <<inbox, unpushed>>
  BY <1>3, CloseEffect
     DEF Connect, PeerClose, OneChat, GroupChat, Chat, ChatLookup, ChatPublish, Login
<1>4. ASSUME NEW c \in Conns, LoginStep(c) PROVE InboxAddressed'
  <2>1. ASSUME LoginQuery(c) PROVE InboxAddressed'
    <3>1. unpushed \in [Conns -> SUBSET Table!Rows] /\ pc \in [Conns -> Steps]
      BY DEF TInv, TypeOK
    <3>2. /\ inbox' = inbox
          /\ \E found : unpushed' = [unpushed EXCEPT ![c] = found]
          /\ \E step \in {"ack", "push"} : Goto(c, step)
      BY <2>1 DEF LoginQuery
    <3>3. \A d \in Conns : pc'[d] = "fresh" => unpushed'[d] = unpushed[d]
      BY <3>1, <3>2 DEF Goto
    <3> QED BY <1>0, <3>2, <3>3, InboxSame
  <2>2. ASSUME \/ LoginKick(c) \/ LoginSetOnline(c) \/ LoginInsert(c)
               \/ LoginSubscribe(c) \/ LoginRemove(c) \/ LoginAck(c)
        PROVE  UNCHANGED <<inbox, unpushed>>
    BY <2>2 DEF LoginKick, LoginSetOnline, LoginInsert, LoginSubscribe, LoginRemove, LoginAck
  <2> QED BY <1>0, <1>1, <1>4, <2>1, <2>2, InboxOfPush DEF LoginStep
<1>5. ASSUME NEW c \in Conns, ChatStep(c) PROVE InboxAddressed'
  BY <1>0, <1>1, <1>3, <1>5, InboxOfForward DEF ChatStep
<1>6. ASSUME NEW n \in Servers, ObserverStep(n) PROVE InboxAddressed'
  BY <1>0, <1>1, <1>2, <1>6, InboxOfObserve DEF ObserverStep
<1> QED BY <1>1, <1>2, <1>3, <1>4, <1>5, <1>6 DEF Next, HandlerStep

-----------------------------------------------------------------------------
LEMMA InitAddressed == Init => DInv
  BY DEF Init, Broker!Init, Table!Init, NoJob, DInv, JobsAddressed, RelayAddressed,
         RowsAddressed, InboxAddressed, ChatSteps

LEMMA DeliveryStep == TInv /\ SInv /\ DInv /\ [Next]_vars => DInv'
<1> SUFFICES ASSUME TInv, SInv, DInv, [Next]_vars PROVE DInv'
  OBVIOUS
<1>1. CASE Next
  BY <1>1, JobsStep, RelayStep, RowsStep, InboxStep DEF DInv
<1>2. CASE UNCHANGED vars
  BY <1>2
     DEF vars, tcpVars, loginVars, chatVars, redisVars, dbVars, DInv, JobsAddressed,
         RelayAddressed, RowsAddressed, InboxAddressed
<1> QED BY <1>1, <1>2

LEMMA AddressedNotMisdelivered == DInv => NoMisdelivery
  BY DEF DInv, InboxAddressed, NoMisdelivery, Range, Addressed, LastMsg

\* Whatever a client is sent was addressed to the user who logged in on its
\* connection: across lookups whose lock is released before the send, Redis,
\* the offline table and takeovers, and whatever writes and publishes fail.
THEOREM ServiceNoMisdelivery == Spec => []NoMisdelivery
<1>1. Init => TInv /\ SInv /\ DInv
  BY InitTypes, InitSessions, InitAddressed
<1>2. TInv /\ SInv /\ DInv /\ [Next]_vars => (TInv /\ SInv /\ DInv)'
  BY ServiceStep, DeliveryStep
<1>3. TInv /\ SInv /\ DInv => NoMisdelivery
  BY AddressedNotMisdelivered
<1> QED BY <1>1, <1>2, <1>3, PTL DEF Spec

-----------------------------------------------------------------------------
(* Order per live route: FifoPerRoute                                      *)
(*                                                                         *)
(* A sender's handler works at its latest message, once per recipient.  So *)
(* what has left the handler for a user is older than what it has yet to   *)
(* send to that user.  The invariant says this of what is in bus and in    *)
(* the inboxes, and that bus and the inboxes are in order.                 *)

\* The sender of m has nothing of m left to send to u.
Past(log, at, jobs, m, u) ==
  LET s == log[m].from IN
  at[s] \in ChatSteps /\ jobs[s].msg = m =>
    u \notin jobs[s].left /\ (at[s] = "send" => jobs[s].to # u)

\* Of one sender, m before k.
InOrder(log, m, k) == log[m].from = log[k].from => m < k

\* A handler works at the last message of its client, and has taken the
\* recipient it serves off its list.
Latest(log, at, jobs, s) ==
  at[s] \in ChatSteps =>
    /\ jobs[s].msg \in 1..Len(log) /\ log[jobs[s].msg].from = s
    /\ \A m \in 1..Len(log) : log[m].from = s => m <= jobs[s].msg
    /\ at[s] = "send" => jobs[s].to \notin jobs[s].left

JobsLatest == \A s \in Conns : Latest(sent, pc, job, s)

BusPast ==
  \A n \in Servers : \A i \in DOMAIN bus[n] :
    Past(sent, pc, job, bus[n][i].msg, bus[n][i].to)

BusOrdered ==
  \A n \in Servers : \A i, j \in DOMAIN bus[n] :
    i < j /\ bus[n][i].to = bus[n][j].to => InOrder(sent, bus[n][i].msg, bus[n][j].msg)

InboxPast ==
  \A c \in Conns : \A i \in DOMAIN inbox[c] :
    inbox[c][i].via # "offline" => Past(sent, pc, job, inbox[c][i].msg, user[c])

InboxBeforeBus ==
  \A c \in Conns : \A i \in DOMAIN inbox[c], j \in DOMAIN bus[ServerOf[c]] :
    inbox[c][i].via = "relay" /\ bus[ServerOf[c]][j].to = user[c] =>
      InOrder(sent, inbox[c][i].msg, bus[ServerOf[c]][j].msg)

\* FifoPerRoute, said with InOrder.
InboxOrdered ==
  \A c \in Conns : \A i, j \in DOMAIN inbox[c] :
    i < j /\ inbox[c][i].via = inbox[c][j].via /\ inbox[c][i].via # "offline" =>
      InOrder(sent, inbox[c][i].msg, inbox[c][j].msg)

OInv == JobsLatest /\ BusPast /\ BusOrdered /\ InboxPast /\ InboxBeforeBus /\ InboxOrdered

-----------------------------------------------------------------------------
(* The handlers of the senders                                             *)

\* What a step may do to the handler of s: it is not sending; it goes on with
\* its message; or it has just got the newest one.
Moves(s) ==
  \/ pc'[s] \notin ChatSteps
  \/ /\ pc[s] \in ChatSteps /\ job'[s].msg = job[s].msg
     /\ job'[s].left \subseteq job[s].left
     /\ pc'[s] = "send" =>
          \/ pc[s] = "send" /\ job'[s] = job[s]
          \/ job'[s].to \in job[s].left /\ job'[s].to \notin job'[s].left
     /\ \A m \in 1..Len(sent') : sent'[m].from = s => m \in 1..Len(sent)
  \/ /\ pc'[s] = "lookup"
     /\ Len(sent') = Len(sent) + 1 /\ sent'[Len(sent')].from = s
     /\ job'[s].msg = Len(sent')

\* The handlers that a step leaves alone, or that it only takes to their next
\* recipient or out of the chat.
LEMMA MovesOfRest ==
  ASSUME sent' = sent, NEW s \in Conns, job'[s] = job[s],
         pc'[s] = pc[s] \/ pc'[s] \notin ChatSteps
         \/ (pc[s] = "send" /\ pc'[s] = "lookup")
  PROVE  Moves(s)
  BY DEF Moves, ChatSteps

LEMMA MovesOfChat ==
  ASSUME TInv, NEW c \in Conns, NEW recipients \in SUBSET Users, Chat(c, recipients)
  PROVE  \A s \in Conns : Moves(s)
<1>1. job \in [Conns -> [msg : Msgs \cup {0}, left : SUBSET Users,
                         to : Users \cup {None}, conn : Conns \cup {None}]]
      /\ pc \in [Conns -> Steps] /\ sent \in Seq([from : Conns, to : SUBSET Users])
  BY DEF TInv, TypeOK
<1>2. sent' = Append(sent, [from |-> c, to |-> recipients]) /\ Goto(c, "lookup")
  BY DEF Chat
<1>3. /\ job'[c].msg = LastMsg + 1
      /\ \A d \in Conns : d # c => job'[d] = job[d]
  BY <1>1 DEF Chat, NoJob
<1>4. \A d \in Conns : pc'[d] = IF d = c THEN "lookup" ELSE pc[d]
  BY <1>1, <1>2 DEF Goto
<1>5. /\ Len(sent') = Len(sent) + 1 /\ sent'[Len(sent')].from = c
      /\ \A m \in 1..Len(sent') : m \in 1..Len(sent) \/ m = Len(sent')
  BY <1>1, <1>2
<1> SUFFICES ASSUME NEW s \in Conns PROVE Moves(s)
  OBVIOUS
<1>6. CASE s = c
  BY <1>3, <1>4, <1>5, <1>6 DEF Moves, LastMsg
<1>7. CASE s # c
  <2>1. job'[s] = job[s] /\ pc'[s] = pc[s]
    BY <1>3, <1>4, <1>7
  <2>2. \A m \in 1..Len(sent') : sent'[m].from = s => m \in 1..Len(sent)
    BY <1>5, <1>7
  <2>3. CASE pc[s] \in ChatSteps
    BY <2>1, <2>2, <2>3 DEF Moves
  <2>4. CASE pc[s] \notin ChatSteps
    BY <2>1, <2>4 DEF Moves
  <2> QED BY <2>3, <2>4
<1> QED BY <1>6, <1>7

LEMMA MovesOfLookup ==
  ASSUME TInv, NEW c \in Conns, ChatLookup(c)
  PROVE  \A s \in Conns : Moves(s)
<1>1. job \in [Conns -> [msg : Msgs \cup {0}, left : SUBSET Users,
                         to : Users \cup {None}, conn : Conns \cup {None}]]
      /\ pc \in [Conns -> Steps]
  BY DEF TInv, TypeOK
<1>2. At(c, "lookup") /\ Goto(c, "send") /\ sent' = sent
  BY DEF ChatLookup
<1>3. PICK u \in job[c].left :
        job' = [job EXCEPT ![c] = [msg |-> job[c].msg, left |-> job[c].left \ {u},
                                   to |-> u, conn |-> Mapped(c, u)]]
  BY DEF ChatLookup
<1>4. /\ job'[c].msg = job[c].msg /\ job'[c].left = job[c].left \ {u} /\ job'[c].to = u
      /\ \A d \in Conns : d # c => job'[d] = job[d]
  BY <1>1, <1>3
<1>5. pc[c] = "lookup" /\ \A d \in Conns : pc'[d] = IF d = c THEN "send" ELSE pc[d]
  BY <1>1, <1>2 DEF Goto, At
<1>6. Moves(c)
  BY <1>2, <1>3, <1>4, <1>5 DEF Moves, ChatSteps
<1> QED BY <1>2, <1>4, <1>5, <1>6, MovesOfRest

LEMMA HandlersMove ==
  ASSUME TInv, Next
  PROVE  \A s \in Conns : Moves(s)
<1>0. pc \in [Conns -> Steps]
  BY DEF TInv, TypeOK
<1>1. ASSUME UNCHANGED <<sent, job>>,
             \A s \in Conns : \/ pc'[s] = pc[s] \/ pc'[s] \notin ChatSteps
                              \/ (pc[s] = "send" /\ pc'[s] = "lookup")
      PROVE  \A s \in Conns : Moves(s)
  BY <1>1, MovesOfRest
<1>2. ASSUME NEW n \in Servers, Start(n) \/ Stop(n) \/ ObserverStep(n) \/ RedisServes(n)
      PROVE  UNCHANGED <<sent, job, pc>>
  BY <1>2 DEF Start, Stop, ObserverStep, Observe, Store, RedisServes, chatVars
<1>3. ASSUME NEW n \in Servers, Crash(n)
      PROVE  UNCHANGED <<sent, job>> /\ \A s \in Conns : pc'[s] = pc[s] \/ pc'[s] = "gone"
  BY <1>3 DEF Crash, chatVars
<1>4. ASSUME NEW c \in Conns, Connect(c) \/ PeerClose(c)
      PROVE  UNCHANGED <<sent, job, pc>>
  BY <1>4 DEF Connect, PeerClose, chatVars
<1>5. ASSUME NEW c \in Conns, LoginStep(c) \/ CloseStep(c) \/ \E u \in Users : Login(c, u)
      PROVE  /\ UNCHANGED <<sent, job>>
             /\ \A s \in Conns : pc'[s] = pc[s] \/ pc'[s] \notin ChatSteps
  BY <1>0, <1>5, LoginEffect, CloseEffect DEF Goto, ChatSteps, LoginSteps, CloseSteps
<1>6. ASSUME NEW c \in Conns, ChatForward(c) \/ ChatPublish(c)
      PROVE  /\ UNCHANGED <<sent, job>>
             /\ \A s \in Conns : \/ pc'[s] = pc[s] \/ pc'[s] \notin ChatSteps
                                 \/ (pc[s] = "send" /\ pc'[s] = "lookup")
  <2>1. pc[c] = "send" /\ NextRecipient(c) /\ UNCHANGED <<sent, job>>
    BY <1>6 DEF ChatForward, ChatPublish, At, chatVars
  <2>2. \A s \in Conns : pc'[s] = pc[s] \/ (s = c /\ pc'[s] \in {"ready", "lookup"})
    BY <1>0, <2>1 DEF NextRecipient, Goto
  <2> QED BY <2>1, <2>2 DEF ChatSteps
<1>7. ASSUME NEW c \in Conns, OneChat(c) \/ GroupChat(c)
      PROVE  \A s \in Conns : Moves(s)
  <2>1. PICK to \in SUBSET Users : Chat(c, to)
    BY <1>7, ServiceAssumption DEF OneChat, GroupChat
  <2> QED BY <2>1, MovesOfChat
<1>8. "gone" \notin ChatSteps
  BY DEF ChatSteps
<1> QED BY <1>1, <1>2, <1>3, <1>4, <1>5, <1>6, <1>7, <1>8, MovesOfLookup
        DEF Next, HandlerStep, ChatStep

LEMMA LatestStays ==
  ASSUME TInv, Next, JobsLatest
  PROVE  JobsLatest'
<1> SUFFICES ASSUME NEW s \in Conns, pc'[s] \in ChatSteps
             PROVE  /\ job'[s].msg \in 1..Len(sent') /\ sent'[job'[s].msg].from = s
                    /\ \A m \in 1..Len(sent') : sent'[m].from = s => m <= job'[s].msg
                    /\ pc'[s] = "send" => job'[s].to \notin job'[s].left
  BY DEF JobsLatest, Latest
<1>1. Moves(s)
  BY HandlersMove
<1>2. sent \in Seq([from : Conns, to : SUBSET Users])
  BY DEF TInv, TypeOK
<1>3. CASE /\ pc'[s] = "lookup"
           /\ Len(sent') = Len(sent) + 1 /\ sent'[Len(sent')].from = s
           /\ job'[s].msg = Len(sent')
  BY <1>2, <1>3
<1>4. CASE /\ pc[s] \in ChatSteps /\ job'[s].msg = job[s].msg
           /\ pc'[s] = "send" =>
                \/ pc[s] = "send" /\ job'[s] = job[s]
                \/ job'[s].to \in job[s].left /\ job'[s].to \notin job'[s].left
           /\ \A m \in 1..Len(sent') : sent'[m].from = s => m \in 1..Len(sent)
  <2>1. /\ job[s].msg \in 1..Len(sent) /\ sent[job[s].msg].from = s
        /\ \A m \in 1..Len(sent) : sent[m].from = s => m <= job[s].msg
        /\ pc[s] = "send" => job[s].to \notin job[s].left
    BY <1>4 DEF JobsLatest, Latest
  <2> QED BY <1>4, <2>1, SentGrows
<1> QED BY <1>1, <1>3, <1>4 DEF Moves

\* What has left its handler stays gone.
LEMMA PastStays ==
  ASSUME TInv, Next, JobsLatest, NEW m \in 1..Len(sent), NEW u, sent[m].from \in Conns,
         Past(sent, pc, job, m, u)
  PROVE  Past(sent', pc', job', m, u)
<1> DEFINE s == sent[m].from
<1>1. Moves(s)
  BY HandlersMove
<1>2. sent'[m].from = s
  BY SentGrows
<1>3. Len(sent) \in Nat
  BY DEF TInv, TypeOK
<1> HIDE DEF s
<1> SUFFICES ASSUME pc'[s] \in ChatSteps, job'[s].msg = m
             PROVE  u \notin job'[s].left /\ (pc'[s] = "send" => job'[s].to # u)
  BY <1>2 DEF Past
<1>4. ~(Len(sent') = Len(sent) + 1 /\ job'[s].msg = Len(sent'))
  BY <1>3
<1>5. /\ pc[s] \in ChatSteps /\ job'[s].msg = job[s].msg
      /\ job'[s].left \subseteq job[s].left
      /\ pc'[s] = "send" =>
           \/ pc[s] = "send" /\ job'[s] = job[s]
           \/ job'[s].to \in job[s].left /\ job'[s].to \notin job'[s].left
  BY <1>1, <1>4 DEF Moves
<1>6. u \notin job[s].left /\ (pc[s] = "send" => job[s].to # u)
  BY <1>5 DEF Past, s
<1> QED BY <1>5, <1>6

LEMMA OrderStays ==
  ASSUME TInv, Next, NEW m \in 1..Len(sent), NEW k \in 1..Len(sent), InOrder(sent, m, k)
  PROVE  InOrder(sent', m, k)
  BY SentGrows DEF InOrder

\* A message that its sender is done with for u comes before what the sender
\* is about to send to u.
LEMMA PastBefore ==
  ASSUME TInv, JobsLatest, NEW s \in Conns, pc[s] = "send",
         NEW m \in 1..Len(sent), Past(sent, pc, job, m, job[s].to)
  PROVE  InOrder(sent, m, job[s].msg)
<1> SUFFICES ASSUME sent[m].from = sent[job[s].msg].from PROVE m < job[s].msg
  BY DEF InOrder
<1>1. /\ job[s].msg \in 1..Len(sent) /\ sent[job[s].msg].from = s
      /\ sent[m].from = s => m <= job[s].msg
  BY DEF JobsLatest, Latest, ChatSteps
<1>2. m # job[s].msg
  BY <1>1 DEF Past, ChatSteps
<1>3. Len(sent) \in Nat
  BY DEF TInv, TypeOK
<1> QED BY <1>1, <1>2, <1>3

\* Once a message was sent to its recipient, the sender is done with it there.
LEMMA ServedIsPast ==
  ASSUME TInv, JobsLatest, NEW s \in Conns, pc[s] = "send",
         NextRecipient(s), UNCHANGED <<sent, job>>
  PROVE  Past(sent', pc', job', job[s].msg, job[s].to)
<1>1. job[s].to \notin job[s].left /\ sent[job[s].msg].from = s
  BY DEF JobsLatest, Latest, ChatSteps
<1>2. pc'[s] # "send"
  BY DEF TInv, TypeOK, NextRecipient, Goto
<1> QED BY <1>1, <1>2 DEF Past

-----------------------------------------------------------------------------
(* What stays as it was                                                    *)

LEMMA SentFrom ==
  ASSUME TInv, DInv
  PROVE  /\ Len(sent) \in Nat
         /\ \A m \in 1..Len(sent) : sent[m].from \in Conns
         /\ \A n \in Servers : \A i \in DOMAIN bus[n] : bus[n][i].msg \in 1..Len(sent)
         /\ \A c \in Conns : \A i \in DOMAIN inbox[c] : inbox[c][i].msg \in 1..Len(sent)
<1>1. sent \in Seq([from : Conns, to : SUBSET Users])
  BY DEF TInv, TypeOK
<1>2. \A S : \A log \in Seq(S) : \A m \in 1..Len(log) : log[m] \in S
  OBVIOUS
<1>3. \A m \in 1..Len(sent) : sent[m] \in [from : Conns, to : SUBSET Users]
  BY <1>1, <1>2, Zenon
<1>4. \A m \in 1..Len(sent) : sent[m].from \in Conns
  BY <1>3
<1>5. Len(sent) \in Nat
  BY <1>1
<1> QED BY <1>4, <1>5 DEF DInv, RelayAddressed, InboxAddressed, Addressed

LEMMA BusKeep ==
  ASSUME TInv, DInv, OInv, Next, NEW n \in Servers
  PROVE  /\ \A i \in DOMAIN bus[n] : Past(sent', pc', job', bus[n][i].msg, bus[n][i].to)
         /\ \A i, j \in DOMAIN bus[n] :
              i < j /\ bus[n][i].to = bus[n][j].to =>
                InOrder(sent', bus[n][i].msg, bus[n][j].msg)
<1>1. \A i \in DOMAIN bus[n] : Past(sent', pc', job', bus[n][i].msg, bus[n][i].to)
  BY SentFrom, PastStays DEF OInv, BusPast
<1>2. ASSUME NEW i \in DOMAIN bus[n], NEW j \in DOMAIN bus[n],
             i < j, bus[n][i].to = bus[n][j].to
      PROVE  InOrder(sent', bus[n][i].msg, bus[n][j].msg)
  <2>1. InOrder(sent, bus[n][i].msg, bus[n][j].msg)
    BY <1>2 DEF OInv, BusOrdered
  <2> QED BY <2>1, SentFrom, OrderStays
<1> QED BY <1>1, <1>2

\* The user of a connection that has received something stays.
LEMMA ReaderStays ==
  ASSUME TInv, DInv, Next, NEW c \in Conns, NEW i \in DOMAIN inbox[c]
  PROVE  user'[c] = user[c]
<1>1. inbox[c] # <<>>
  OBVIOUS
<1>2. pc[c] # "fresh"
  BY <1>1 DEF DInv, InboxAddressed
<1> QED BY <1>2, UserStays

LEMMA InboxOrderKeep ==
  ASSUME TInv, DInv, OInv, Next, NEW c \in Conns
  PROVE  /\ \A i \in DOMAIN inbox[c] : inbox[c][i].via # "offline" =>
              Past(sent', pc', job', inbox[c][i].msg, user'[c])
         /\ \A i, j \in DOMAIN inbox[c] :
              i < j /\ inbox[c][i].via = inbox[c][j].via /\ inbox[c][i].via # "offline" =>
                InOrder(sent', inbox[c][i].msg, inbox[c][j].msg)
         /\ \A i \in DOMAIN inbox[c], j \in DOMAIN bus[ServerOf[c]] :
              inbox[c][i].via = "relay" /\ bus[ServerOf[c]][j].to = user'[c] =>
                InOrder(sent', inbox[c][i].msg, bus[ServerOf[c]][j].msg)
<1>0. ServerOf[c] \in Servers
  BY ServiceAssumption
<1>1. ASSUME NEW i \in DOMAIN inbox[c], inbox[c][i].via # "offline"
      PROVE  Past(sent', pc', job', inbox[c][i].msg, user'[c])
  <2>1. Past(sent, pc, job, inbox[c][i].msg, user[c])
    BY <1>1 DEF OInv, InboxPast
  <2>2. Past(sent', pc', job', inbox[c][i].msg, user[c])
    BY <2>1, SentFrom, PastStays DEF OInv
  <2> QED BY <2>2, ReaderStays
<1>2. ASSUME NEW i \in DOMAIN inbox[c], NEW j \in DOMAIN inbox[c],
             i < j, inbox[c][i].via = inbox[c][j].via, inbox[c][i].via # "offline"
      PROVE  InOrder(sent', inbox[c][i].msg, inbox[c][j].msg)
  <2>1. InOrder(sent, inbox[c][i].msg, inbox[c][j].msg)
    BY <1>2 DEF OInv, InboxOrdered
  <2> QED BY <2>1, SentFrom, OrderStays
<1>3. ASSUME NEW i \in DOMAIN inbox[c], NEW j \in DOMAIN bus[ServerOf[c]],
             inbox[c][i].via = "relay", bus[ServerOf[c]][j].to = user'[c]
      PROVE  InOrder(sent', inbox[c][i].msg, bus[ServerOf[c]][j].msg)
  <2>1. InOrder(sent, inbox[c][i].msg, bus[ServerOf[c]][j].msg)
    BY <1>3, ReaderStays DEF OInv, InboxBeforeBus
  <2> QED BY <1>0, <2>1, SentFrom, OrderStays
<1> QED BY <1>1, <1>2, <1>3

\* Steps that give no client anything, and leave bus alone or lose it.
LEMMA OrderOfQuiet ==
  ASSUME TInv, DInv, OInv, Next, inbox' = inbox,
         \A n \in Servers : bus'[n] = bus[n] \/ bus'[n] = <<>>
  PROVE  OInv'
<1>1. \A c \in Conns : ServerOf[c] \in Servers
  BY ServiceAssumption
<1>2. BusPast' /\ BusOrdered'
  BY BusKeep DEF BusPast, BusOrdered
<1>3. InboxPast' /\ InboxOrdered'
  BY InboxOrderKeep DEF InboxPast, InboxOrdered
<1>4. InboxBeforeBus'
  <2> SUFFICES ASSUME NEW c \in Conns, NEW i \in DOMAIN inbox[c],
                      NEW j \in DOMAIN bus'[ServerOf[c]],
                      inbox[c][i].via = "relay", bus'[ServerOf[c]][j].to = user'[c]
               PROVE  InOrder(sent', inbox[c][i].msg, bus'[ServerOf[c]][j].msg)
    BY DEF InboxBeforeBus
  <2>1. bus'[ServerOf[c]] = bus[ServerOf[c]]
    BY <1>1
  <2> QED BY <2>1, InboxOrderKeep
<1> QED BY <1>2, <1>3, <1>4, LatestStays DEF OInv

\* A copy that comes after all others of its sender on its route.
LEMMA OrderOfDeliver ==
  ASSUME TInv, DInv, OInv, Next, NEW d \in Conns, NEW copy \in Copies,
         Deliver(d, copy), copy.msg \in 1..Len(sent), user'[d] = user[d],
         copy.via # "offline" =>
           /\ Past(sent', pc', job', copy.msg, user[d])
           /\ \A i \in DOMAIN inbox[d] :
                inbox[d][i].via = copy.via => InOrder(sent', inbox[d][i].msg, copy.msg)
  PROVE  InboxPast' /\ InboxOrdered'
<1>1. inbox \in [Conns -> Seq(Copies)]
  BY DEF TInv, TypeOK
<1>2. \A c \in Conns : inbox'[c] = inbox[c] \/ (c = d /\ inbox'[c] = Append(inbox[c], copy))
  BY <1>1 DEF Deliver
<1>3. ASSUME NEW c \in Conns, NEW i \in DOMAIN inbox'[c]
      PROVE  \/ i \in DOMAIN inbox[c] /\ inbox'[c][i] = inbox[c][i]
             \/ /\ c = d /\ inbox'[c][i] = copy /\ i = Len(inbox[c]) + 1
                /\ Len(inbox'[c]) = i
  BY <1>1, <1>2, <1>3
<1>4. InboxPast'
  <2> SUFFICES ASSUME NEW c \in Conns, NEW i \in DOMAIN inbox'[c], inbox'[c][i].via # "offline"
               PROVE  Past(sent', pc', job', inbox'[c][i].msg, user'[c])
    BY DEF InboxPast
  <2> QED BY <1>3, InboxOrderKeep
<1>5. InboxOrdered'
  <2> SUFFICES ASSUME NEW c \in Conns, NEW i \in DOMAIN inbox'[c], NEW j \in DOMAIN inbox'[c],
                      i < j, inbox'[c][i].via = inbox'[c][j].via,
                      inbox'[c][i].via # "offline"
               PROVE  InOrder(sent', inbox'[c][i].msg, inbox'[c][j].msg)
    BY DEF InboxOrdered
  <2>1. i \in DOMAIN inbox[c] /\ inbox'[c][i] = inbox[c][i]
    <3>1. inbox'[c] \in Seq(Copies) /\ inbox[c] \in Seq(Copies)
      BY <1>1, DeliverType DEF TInv
    <3>2. i \in 1..Len(inbox'[c]) /\ j \in 1..Len(inbox'[c])
      BY <3>1
    <3> QED BY <1>3, <3>1, <3>2
  <2>2. CASE j \in DOMAIN inbox[c] /\ inbox'[c][j] = inbox[c][j]
    BY <2>1, <2>2, InboxOrderKeep
  <2>3. CASE c = d /\ inbox'[c][j] = copy
    BY <2>1, <2>3
  <2> QED BY <1>3, <2>2, <2>3
<1> QED BY <1>4, <1>5

\* A copy on another route does not touch the relayed ones.
LEMMA RelayAside ==
  ASSUME TInv, DInv, OInv, Next, NEW d \in Conns, NEW copy \in Copies,
         Deliver(d, copy), copy.via # "relay", bus' = bus
  PROVE  BusPast' /\ BusOrdered' /\ InboxBeforeBus'
<1>1. BusPast' /\ BusOrdered'
  BY BusKeep DEF BusPast, BusOrdered
<1>2. inbox \in [Conns -> Seq(Copies)]
  BY DEF TInv, TypeOK
<1>3. InboxBeforeBus'
  <2> SUFFICES ASSUME NEW c \in Conns, NEW i \in DOMAIN inbox'[c],
                      NEW j \in DOMAIN bus'[ServerOf[c]],
                      inbox'[c][i].via = "relay", bus'[ServerOf[c]][j].to = user'[c]
               PROVE  InOrder(sent', inbox'[c][i].msg, bus'[ServerOf[c]][j].msg)
    BY DEF InboxBeforeBus
  <2>1. inbox'[c] = inbox[c] \/ inbox'[c] = Append(inbox[c], copy)
    BY <1>2 DEF Deliver
  <2>2. inbox[c] \in Seq(Copies) /\ inbox'[c][i] # copy
    BY <1>2
  <2>3. i \in DOMAIN inbox[c] /\ inbox'[c][i] = inbox[c][i]
    BY <2>1, <2>2
  <2> QED BY <2>3, InboxOrderKeep
<1> QED BY <1>1, <1>3

LEMMA OrderOfPush ==
  ASSUME TInv, DInv, OInv, Next, NEW c \in Conns, LoginPush(c)
  PROVE  OInv'
<1>1. unpushed \in [Conns -> SUBSET Table!Rows]
  BY DEF TInv, TypeOK
<1>2. PICK r \in unpushed[c] :
        Deliver(c, [msg |-> r.msg, via |-> "offline", node |-> r.node])
  BY DEF LoginPush
<1> DEFINE copy == [msg |-> r.msg, via |-> "offline", node |-> r.node]
<1>3. copy \in Copies /\ copy.via = "offline" /\ copy.msg = r.msg
  BY <1>1, <1>2 DEF Copies, Table!Rows
<1>4. r.msg \in 1..Len(sent)
  BY <1>2 DEF DInv, RowsAddressed, Addressed
<1>5. user' = user /\ bus' = bus
  BY DEF LoginPush, redisVars
<1> HIDE DEF copy
<1>6. Deliver(c, copy)
  BY <1>2 DEF copy
<1> QED BY <1>3, <1>4, <1>5, <1>6, OrderOfDeliver, RelayAside, LatestStays DEF OInv

LEMMA OrderOfForward ==
  ASSUME TInv, DInv, OInv, Next, NEW s \in Conns, ChatForward(s)
  PROVE  OInv'
<1> DEFINE d == job[s].conn
           copy == [msg |-> job[s].msg, via |-> "direct", node |-> ServerOf[s]]
<1>1. /\ pc[s] = "send" /\ d # None /\ Deliver(d, copy) /\ NextRecipient(s)
      /\ UNCHANGED <<sent, job, user, bus>>
  BY DEF ChatForward, At, loginVars, chatVars, redisVars
<1>2. d \in Conns /\ job[s].msg \in Msgs /\ ServerOf[s] \in Servers
  BY <1>1, ServiceAssumption DEF TInv, TypeOK, HandlerOK, ChatSteps
<1>3. user[d] = job[s].to /\ job[s].msg \in 1..Len(sent)
  BY <1>1 DEF DInv, JobsAddressed, Addressed
<1>4. copy \in Copies /\ copy.via = "direct" /\ copy.msg = job[s].msg
  BY <1>2 DEF Copies
<1> HIDE DEF d, copy
<1>5. Past(sent', pc', job', copy.msg, user[d])
  BY <1>1, <1>3, <1>4, ServedIsPast DEF OInv
<1>6. ASSUME NEW i \in DOMAIN inbox[d], inbox[d][i].via = "direct"
      PROVE  InOrder(sent', inbox[d][i].msg, copy.msg)
  <2>1. Past(sent, pc, job, inbox[d][i].msg, job[s].to)
    BY <1>2, <1>3, <1>6 DEF OInv, InboxPast
  <2>2. InOrder(sent, inbox[d][i].msg, job[s].msg)
    BY <1>1, <1>2, <2>1, SentFrom, PastBefore DEF OInv
  <2> QED BY <1>1, <1>4, <2>2
<1>7. InboxPast' /\ InboxOrdered'
  BY <1>1, <1>2, <1>3, <1>4, <1>5, <1>6, OrderOfDeliver
<1> QED BY <1>1, <1>2, <1>4, <1>7, RelayAside, LatestStays DEF OInv

LEMMA OrderOfPublish ==
  ASSUME TInv, DInv, OInv, Next, NEW s \in Conns, ChatPublish(s)
  PROVE  OInv'
<1> DEFINE item == [to |-> job[s].to, msg |-> job[s].msg]
<1>1. /\ pc[s] = "send" /\ NextRecipient(s)
      /\ UNCHANGED <<sent, job, user, inbox>>
  BY DEF ChatPublish, At, loginVars, chatVars
<1>2. bus \in [Servers -> Seq(Relay)]
  BY DEF TInv, TypeOK, Broker!TypeOK
<1>3. \A n \in Servers : bus'[n] = bus[n] \/ bus'[n] = Append(bus[n], item)
  BY DEF ChatPublish, Broker!Publish, redisVars
<1>4. item.to = job[s].to /\ item.msg = job[s].msg
  OBVIOUS
<1> HIDE DEF item
<1>5. Past(sent', pc', job', item.msg, item.to)
  BY <1>1, <1>4, ServedIsPast DEF OInv
<1>6. ASSUME NEW m \in 1..Len(sent), Past(sent, pc, job, m, item.to)
      PROVE  InOrder(sent', m, item.msg)
  BY <1>1, <1>4, <1>6, PastBefore DEF OInv
<1>7. ASSUME NEW n \in Servers, NEW j \in DOMAIN bus'[n]
      PROVE  \/ j \in DOMAIN bus[n] /\ bus'[n][j] = bus[n][j]
             \/ bus'[n][j] = item /\ j = Len(bus[n]) + 1 /\ Len(bus'[n]) = j
  <2>1. bus[n] \in Seq(Relay)
    BY <1>2
  <2> QED BY <1>3, <1>7, <2>1
<1>8. BusPast'
  BY <1>5, <1>7, BusKeep DEF BusPast
<1>9. BusOrdered'
  <2> SUFFICES ASSUME NEW n \in Servers, NEW i \in DOMAIN bus'[n], NEW j \in DOMAIN bus'[n],
                      i < j, bus'[n][i].to = bus'[n][j].to
               PROVE  InOrder(sent', bus'[n][i].msg, bus'[n][j].msg)
    BY DEF BusOrdered
  <2>1. i \in DOMAIN bus[n] /\ bus'[n][i] = bus[n][i]
    <3>1. \A q \in Seq(Relay) : DOMAIN q = 1..Len(q) /\ Len(q) \in Nat
                               /\ DOMAIN Append(q, item) = 1..(Len(q) + 1)
      BY DEF item
    <3>2. /\ bus[n] \in Seq(Relay) /\ Len(bus[n]) \in Nat
          /\ DOMAIN bus'[n] \subseteq 1..(Len(bus[n]) + 1)
      BY <1>2, <1>3, <3>1
    <3>3. i \in Nat /\ j \in Nat /\ j <= Len(bus[n]) + 1
      BY <3>2
    <3> QED BY <1>7, <3>2, <3>3
  <2>2. CASE j \in DOMAIN bus[n] /\ bus'[n][j] = bus[n][j]
    BY <2>1, <2>2, BusKeep
  <2>3. CASE bus'[n][j] = item
    <3>1. Past(sent, pc, job, bus[n][i].msg, item.to)
      BY <2>1, <2>3 DEF OInv, BusPast
    <3> QED BY <1>6, <2>1, <2>3, <3>1, SentFrom
  <2> QED BY <1>7, <2>2, <2>3
<1>10. InboxPast' /\ InboxOrdered'
  BY <1>1, InboxOrderKeep DEF InboxPast, InboxOrdered
<1>11. InboxBeforeBus'
  <2> SUFFICES ASSUME NEW c \in Conns, NEW i \in DOMAIN inbox[c],
                      NEW j \in DOMAIN bus'[ServerOf[c]],
                      inbox[c][i].via = "relay", bus'[ServerOf[c]][j].to = user[c]
               PROVE  InOrder(sent', inbox[c][i].msg, bus'[ServerOf[c]][j].msg)
    BY <1>1 DEF InboxBeforeBus
  <2>0. ServerOf[c] \in Servers
    BY ServiceAssumption
  <2>1. CASE j \in DOMAIN bus[ServerOf[c]] /\ bus'[ServerOf[c]][j] = bus[ServerOf[c]][j]
    BY <1>1, <2>1, InboxOrderKeep
  <2>2. CASE bus'[ServerOf[c]][j] = item
    <3>1. Past(sent, pc, job, inbox[c][i].msg, item.to)
      BY <2>2 DEF OInv, InboxPast
    <3> QED BY <1>6, <2>2, <3>1, SentFrom
  <2> QED BY <1>7, <2>0, <2>1, <2>2
<1> QED BY <1>8, <1>9, <1>10, <1>11, LatestStays DEF OInv

LEMMA OrderOfObserve ==
  ASSUME TInv, SInv, DInv, OInv, Next, NEW n \in Servers, Observe(n)
  PROVE  OInv'
<1> DEFINE item == Head(bus[n])
           d == connMap[n][item.to]
           copy == [msg |-> item.msg, via |-> "relay", node |-> n]
<1>1. bus \in [Servers -> Seq(Relay)] /\ inbox \in [Conns -> Seq(Copies)]
  BY DEF TInv, TypeOK, Broker!TypeOK
<1>2. bus[n] # <<>> /\ bus' = [bus EXCEPT ![n] = Tail(bus[n])] /\ user' = user
  BY DEF Observe, Broker!Receive, loginVars
<1>3. 1 \in DOMAIN bus[n] /\ item = bus[n][1] /\ item \in Relay
  BY <1>1, <1>2
<1>4. item.to \in Users /\ item.msg \in Msgs /\ item.msg \in 1..Len(sent)
  BY <1>3, SentFrom DEF Relay
<1>5. copy \in Copies /\ copy.via = "relay" /\ copy.msg = item.msg
  BY <1>4 DEF Copies
<1>6. IF d # None THEN Deliver(d, copy) ELSE inbox' = inbox
  BY DEF Observe
<1>7. d # None => d \in Conns /\ ServerOf[d] = n /\ user[d] = item.to
  BY <1>1, <1>4 DEF TInv, TypeOK, SInv, MapHoldsLiveSessions
<1> HIDE DEF d, copy, item
<1>8. ASSUME NEW p \in Servers, NEW j \in DOMAIN bus'[p]
      PROVE  \/ p # n /\ j \in DOMAIN bus[p] /\ bus'[p][j] = bus[p][j]
             \/ /\ p = n /\ j \in Nat /\ 1 < j + 1 /\ j + 1 \in DOMAIN bus[p]
                /\ bus'[p][j] = bus[p][j + 1]
  <2>1. CASE p = n
    <3>1. bus[n] \in Seq(Relay) /\ bus'[p] = Tail(bus[n])
      BY <1>1, <1>2, <2>1
    <3>2. /\ Tail(bus[n]) \in Seq(Relay) /\ Len(bus[n]) \in Nat
          /\ DOMAIN bus[n] = 1..Len(bus[n]) /\ DOMAIN Tail(bus[n]) = 1..(Len(bus[n]) - 1)
      BY <1>2, <3>1
    <3>3. j \in 1..(Len(bus[n]) - 1)
      BY <1>8, <3>1, <3>2
    <3>0. \A q \in Seq(Relay) : q # <<>> =>
            \A k \in 1..(Len(q) - 1) : Tail(q)[k] = q[k + 1]
      OBVIOUS
    <3>4. bus'[p][j] = bus[p][j + 1]
      BY <1>2, <2>1, <3>0, <3>1, <3>3
    <3>5. j \in Nat /\ 1 < j + 1 /\ j + 1 \in 1..Len(bus[n])
      BY <3>2, <3>3
    <3> QED BY <2>1, <3>2, <3>4, <3>5
  <2>2. CASE p # n
    BY <1>1, <1>2, <1>8, <2>2
  <2> QED BY <2>1, <2>2
<1>9. BusPast'
  BY <1>8, BusKeep DEF BusPast
<1>10. BusOrdered'
  <2> SUFFICES ASSUME NEW p \in Servers, NEW i \in DOMAIN bus'[p], NEW j \in DOMAIN bus'[p],
                      i < j, bus'[p][i].to = bus'[p][j].to
               PROVE  InOrder(sent', bus'[p][i].msg, bus'[p][j].msg)
    BY DEF BusOrdered
  <2>1. CASE p # n
    BY <1>8, <2>1, BusKeep
  <2>2. CASE p = n
    <3>1. /\ i \in Nat /\ i + 1 \in DOMAIN bus[p] /\ bus'[p][i] = bus[p][i + 1]
          /\ j \in Nat /\ j + 1 \in DOMAIN bus[p] /\ bus'[p][j] = bus[p][j + 1]
      BY <1>8, <2>2
    <3>2. i + 1 < j + 1
      BY <3>1
    <3> QED BY <3>1, <3>2, BusKeep
  <2> QED BY <2>1, <2>2
<1>11. InboxPast' /\ InboxOrdered'
  <2>1. CASE d = None
    BY <1>6, <2>1, InboxOrderKeep DEF InboxPast, InboxOrdered
  <2>2. CASE d # None
    <3>1. d \in Conns /\ Deliver(d, copy) /\ copy.msg \in 1..Len(sent) /\ user'[d] = user[d]
      BY <1>2, <1>4, <1>5, <1>6, <1>7, <2>2
    <3>2. Past(sent', pc', job', copy.msg, user[d])
      BY <1>3, <1>5, <1>7, <2>2, BusKeep
    <3>3. ASSUME NEW i \in DOMAIN inbox[d], inbox[d][i].via = copy.via
          PROVE  InOrder(sent', inbox[d][i].msg, copy.msg)
      BY <1>2, <1>3, <1>5, <1>7, <2>2, <3>3, InboxOrderKeep
    <3> QED BY <1>5, <3>1, <3>2, <3>3, OrderOfDeliver
  <2> QED BY <2>1, <2>2
<1>12. InboxBeforeBus'
  <2> SUFFICES ASSUME NEW c \in Conns, NEW i \in DOMAIN inbox'[c],
                      NEW j \in DOMAIN bus'[ServerOf[c]],
                      inbox'[c][i].via = "relay", bus'[ServerOf[c]][j].to = user'[c]
               PROVE  InOrder(sent', inbox'[c][i].msg, bus'[ServerOf[c]][j].msg)
    BY DEF InboxBeforeBus
  <2>0. ServerOf[c] \in Servers
    BY ServiceAssumption
  <2>1. PICK k \in DOMAIN bus[ServerOf[c]] :
          bus'[ServerOf[c]][j] = bus[ServerOf[c]][k] /\ (ServerOf[c] = n => 1 < k)
    BY <1>8, <2>0
  <2>2. inbox'[c] = inbox[c] \/ (c = d /\ d # None /\ inbox'[c] = Append(inbox[c], copy))
    BY <1>1, <1>6, <1>7 DEF Deliver
  <2>3. \/ i \in DOMAIN inbox[c] /\ inbox'[c][i] = inbox[c][i]
        \/ c = d /\ d # None /\ inbox'[c][i] = copy
    <3>1. inbox[c] \in Seq(Copies)
      BY <1>1
    <3> QED BY <2>2, <3>1
  <2>4. CASE i \in DOMAIN inbox[c] /\ inbox'[c][i] = inbox[c][i]
    BY <2>1, <2>4, InboxOrderKeep
  <2>5. CASE c = d /\ d # None /\ inbox'[c][i] = copy
    <3>1. ServerOf[c] = n /\ bus[n][1].to = bus[n][k].to
      BY <1>2, <1>3, <1>7, <2>1, <2>5
    <3>2. InOrder(sent', bus[n][1].msg, bus[n][k].msg)
      BY <1>3, <2>1, <3>1, BusKeep
    <3> QED BY <1>3, <1>5, <2>1, <2>5, <3>1, <3>2
  <2> QED BY <2>3, <2>4, <2>5
<1> QED BY <1>9, <1>10, <1>11, <1>12, LatestStays DEF OInv

-----------------------------------------------------------------------------
LEMMA OrderStep == TInv /\ SInv /\ DInv /\ OInv /\ [Next]_vars => OInv'
<1> SUFFICES ASSUME TInv, SInv, DInv, OInv, [Next]_vars PROVE OInv'
  OBVIOUS
<1> USE DEF redisVars
<1>1. CASE UNCHANGED vars
  BY <1>1
     DEF vars, tcpVars, loginVars, chatVars, OInv, JobsLatest, BusPast,
         BusOrdered, InboxPast, InboxBeforeBus, InboxOrdered
<1>2. ASSUME Next, UNCHANGED <<inbox, bus>> PROVE OInv'
  BY <1>2, OrderOfQuiet
<1>3. ASSUME NEW n \in Servers, Start(n) \/ Stop(n) \/ Store(n) \/ RedisServes(n)
      PROVE  UNCHANGED <<inbox, bus>>
  BY <1>3 DEF Start, Stop, Store, RedisServes, Broker!Serve
<1>4. ASSUME NEW n \in Servers, Crash(n), Next PROVE OInv'
  <2>1. bus \in [Servers -> Seq(Relay)]
    BY DEF TInv, TypeOK, Broker!TypeOK
  <2>2. inbox' = inbox /\ bus' = [bus EXCEPT ![n] = <<>>]
    BY <1>4 DEF Crash, Broker!Disconnect
  <2>3. \A p \in Servers : bus'[p] = bus[p] \/ bus'[p] = <<>>
    BY <2>1, <2>2
  <2> QED BY <1>4, <2>2, <2>3, OrderOfQuiet
<1>5. ASSUME NEW c \in Conns,
             \/ Connect(c) \/ PeerClose(c) \/ OneChat(c) \/ GroupChat(c)
             \/ ChatLookup(c) \/ CloseStep(c) \/ \E u \in Users : Login(c, u)
      PROVE  UNCHANGED <<inbox, bus>>
  BY <1>5, CloseEffect
     DEF Connect, PeerClose, OneChat, GroupChat, Chat, ChatLookup, Login
<1>6. ASSUME NEW c \in Conns, LoginStep(c), ~LoginPush(c)
      PROVE  UNCHANGED <<inbox, bus>>
  BY <1>6, LoginEffect
     DEF LoginStep, LoginKick, LoginSetOnline, LoginInsert, LoginSubscribe, LoginQuery,
         LoginRemove, LoginAck
<1>7. CASE Next
  BY <1>2, <1>3, <1>4, <1>5, <1>6, <1>7, OrderOfObserve, OrderOfForward,
     OrderOfPublish, OrderOfPush
     DEF Next, HandlerStep, ObserverStep, ChatStep
<1> QED BY <1>1, <1>7

LEMMA InitOrder == Init => OInv
  BY ServiceAssumption
     DEF Init, Broker!Init, OInv, JobsLatest, Latest, BusPast, BusOrdered, InboxPast,
         InboxBeforeBus, InboxOrdered, ChatSteps

\* Two messages of one sender that reach a client by the same live route come
\* in the order they were sent: through handlers on many threads, Redis and the
\* observers, takeovers and crashes, and whatever writes and publishes fail.
THEOREM ServiceFifoPerRoute == Spec => []FifoPerRoute
<1>1. Init => TInv /\ SInv /\ DInv /\ OInv
  BY InitTypes, InitSessions, InitAddressed, InitOrder
<1>2. TInv /\ SInv /\ DInv /\ OInv /\ [Next]_vars => (TInv /\ SInv /\ DInv /\ OInv)'
  BY ServiceStep, DeliveryStep, OrderStep
<1>3. OInv => FifoPerRoute
  BY DEF OInv, InboxOrdered, InOrder, FifoPerRoute
<1> QED BY <1>1, <1>2, <1>3, PTL DEF Spec
=============================================================================
