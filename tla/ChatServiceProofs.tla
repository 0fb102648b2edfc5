-------------------------- MODULE ChatServiceProofs --------------------------
(***************************************************************************)
(* What holds of the message service for any number of servers,            *)
(* connections, users and messages: its types, the soundness of the        *)
(* session maps, and, when writes of the state column succeed, that nobody *)
(* stays online without cause.                                             *)
(***************************************************************************)
EXTENDS ChatService, TLAPS

\* The handler of a connection knows its user from the login on, and its
\* message and recipient when it needs them.
BusySteps == LoginSteps \cup ChatSteps \cup CloseSteps \cup {"ready", "refused"}

HandlerOK ==
  /\ \A c \in Conns : pc[c] \in BusySteps => user[c] \in Users
  /\ \A c \in Conns : pc[c] \in ChatSteps => job[c].msg \in Msgs
  /\ \A c \in Conns : pc[c] = "send" => job[c].to \in Users

TInv == TypeOK /\ HandlerOK

-----------------------------------------------------------------------------
(* Types                                                                   *)

LEMMA GotoType ==
  ASSUME TypeOK, NEW c \in Conns, NEW step \in Steps, Goto(c, step)
  PROVE  pc' \in [Conns -> Steps] /\ \A d \in Conns : pc'[d] = IF d = c THEN step ELSE pc[d]
  BY DEF TypeOK, Goto

LEMMA DeliverType ==
  ASSUME TypeOK, NEW c \in Conns, NEW copy \in Copies, Deliver(c, copy)
  PROVE  inbox' \in [Conns -> Seq(Copies)]
<1>1. inbox \in [Conns -> Seq(Copies)]
  BY DEF TypeOK
<1>2. Append(inbox[c], copy) \in Seq(Copies)
  BY <1>1
<1> QED BY <1>1, <1>2 DEF Deliver

LEMMA SetMappedType ==
  ASSUME TypeOK, NEW c \in Conns, NEW u \in Users, NEW d \in Conns \cup {None},
         SetMapped(c, u, d)
  PROVE  /\ connMap' \in [Servers -> [Users -> Conns \cup {None}]]
         /\ \A n \in Servers, v \in Users :
              connMap'[n][v] = IF n = ServerOf[c] /\ v = u THEN d ELSE connMap[n][v]
  BY ServiceAssumption DEF TypeOK, SetMapped

LEMMA MappedType ==
  ASSUME TypeOK, NEW c \in Conns, NEW u \in Users
  PROVE  /\ ServerOf[c] \in Servers
         /\ Mapped(c, u) \in Conns \cup {None}
         /\ Mapped(c, u) = connMap[ServerOf[c]][u]
  BY ServiceAssumption DEF TypeOK, Mapped

LEMMA RedisType ==
  ASSUME Broker!TypeOK, NEW n \in Servers, NEW u \in Users
  PROVE  /\ Broker!Subscribe(n, u) => Broker!TypeOK'
         /\ Broker!Unsubscribe(n, u) => Broker!TypeOK'
         /\ \A item \in Relay : Broker!Publish(u, item) => Broker!TypeOK'
<1> USE DEF Broker!TypeOK
<1>1. ASSUME NEW cmd \in Broker!Commands, pipe' = [pipe EXCEPT ![n] = Append(@, cmd)],
             UNCHANGED <<subs, bus>>
      PROVE  Broker!TypeOK'
  <2>1. Append(pipe[n], cmd) \in Seq(Broker!Commands)
    OBVIOUS
  <2> QED BY <1>1, <2>1
<1>2. Broker!Subscribe(n, u) => Broker!TypeOK'
  <2>1. [op |-> "SUBSCRIBE", channel |-> u] \in Broker!Commands
    BY DEF Broker!Commands
  <2> QED BY <1>1, <2>1 DEF Broker!Subscribe
<1>3. Broker!Unsubscribe(n, u) => Broker!TypeOK'
  <2>1. [op |-> "UNSUBSCRIBE", channel |-> u] \in Broker!Commands
    BY DEF Broker!Commands
  <2> QED BY <1>1, <2>1 DEF Broker!Unsubscribe
<1>4. ASSUME NEW item \in Relay, Broker!Publish(u, item) PROVE Broker!TypeOK'
  <2>1. \A m \in Servers : Append(bus[m], item) \in Seq(Relay)
    OBVIOUS
  <2> QED BY <1>4, <2>1 DEF Broker!Publish
<1> QED BY <1>2, <1>3, <1>4

LEMMA RedisServesType ==
  ASSUME Broker!TypeOK, NEW n \in Servers
  PROVE  /\ Broker!Serve(n) => Broker!TypeOK'
         /\ Broker!Receive(n) => Broker!TypeOK' /\ Head(bus[n]) \in Relay
         /\ Broker!Disconnect(n) => Broker!TypeOK'
<1>1. ASSUME Broker!Serve(n) PROVE Broker!TypeOK'
  <2>1. Head(pipe[n]) \in Broker!Commands /\ Tail(pipe[n]) \in Seq(Broker!Commands)
    BY <1>1 DEF Broker!TypeOK, Broker!Serve
  <2>2. Head(pipe[n]).channel \in Users
    BY <2>1 DEF Broker!Commands
  <2>3. pipe' \in [Servers -> Seq(Broker!Commands)]
    BY <1>1, <2>1 DEF Broker!TypeOK, Broker!Serve
  <2>4. subs' \in [Servers -> SUBSET Users]
    BY <1>1, <2>2 DEF Broker!TypeOK, Broker!Serve
  <2> QED BY <1>1, <2>3, <2>4 DEF Broker!TypeOK, Broker!Serve
<1>2. Broker!Receive(n) => Broker!TypeOK' /\ Head(bus[n]) \in Relay
  BY DEF Broker!TypeOK, Broker!Receive
<1>3. Broker!Disconnect(n) => Broker!TypeOK'
  BY DEF Broker!TypeOK, Broker!Disconnect
<1> QED BY <1>1, <1>2, <1>3

LEMMA InitTypes == Init => TInv
<1> SUFFICES ASSUME Init PROVE TInv
  OBVIOUS
<1>1. Broker!TypeOK
  BY DEF Init, Broker!Init, Broker!TypeOK
<1>2. Table!TypeOK
  BY DEF Init, Table!Init, Table!TypeOK, Table!States
<1>3. TypeOK
  <2>1. sent \in Seq([from : Conns, to : SUBSET Users]) /\ Len(sent) <= MaxMsgs
    BY ServiceAssumption DEF Init
  <2>2. /\ alive \in [Servers -> BOOLEAN] /\ stopping \in [Servers -> BOOLEAN]
        /\ crashes \in 0..MaxCrashes
        /\ status \in [Conns -> Statuses]
        /\ user \in [Conns -> Users \cup {None}]
        /\ pc \in [Conns -> Steps]
        /\ connMap \in [Servers -> [Users -> Conns \cup {None}]]
    BY ServiceAssumption DEF Init, Statuses, Steps
  <2>3. /\ rows \in [Conns -> SUBSET Table!Rows]
        /\ unpushed \in [Conns -> SUBSET Table!Rows]
        /\ job \in [Conns -> [msg : Msgs \cup {0}, left : SUBSET Users,
                              to : Users \cup {None}, conn : Conns \cup {None}]]
        /\ hand \in [Servers -> Relay \cup {None}]
        /\ inbox \in [Conns -> Seq(Copies)]
    BY DEF Init, NoJob
  <2> QED BY <1>1, <1>2, <2>1, <2>2, <2>3 DEF TypeOK
<1>4. HandlerOK
  BY DEF Init, HandlerOK, BusySteps, LoginSteps, ChatSteps, CloseSteps
<1> QED BY <1>3, <1>4 DEF TInv

\* The handler part of the invariant only looks at pc, user and job.
LEMMA HandlerStays ==
  ASSUME HandlerOK, UNCHANGED <<pc, user, job>>
  PROVE  HandlerOK'
  BY DEF HandlerOK

\* A handler that goes on, with its user and its job as they were, to a step
\* that does not need a new job.
LEMMA HandlerGoes ==
  ASSUME TInv, NEW c \in Conns, NEW step \in Steps, Goto(c, step),
         UNCHANGED <<user, job>>,
         user[c] \in Users \/ step \notin BusySteps,
         step \in ChatSteps => job[c].msg \in Msgs,
         step = "send" => job[c].to \in Users
  PROVE  HandlerOK'
<1>1. \A d \in Conns : pc'[d] = IF d = c THEN step ELSE pc[d]
  BY GotoType DEF TInv
<1> QED BY <1>1 DEF TInv, HandlerOK

LEMMA ServerTypes ==
  ASSUME TInv, NEW n \in Servers, Start(n) \/ Stop(n) \/ Crash(n)
  PROVE  TInv'
<1> USE DEF TInv, tcpVars, loginVars, chatVars, redisVars, dbVars
<1>1. ASSUME Start(n) \/ Stop(n) PROVE TInv'
  <2>1. PICK ok \in BOOLEAN : Table!ResetAllStateToOffline(ok)
    BY <1>1, ServiceAssumption DEF Start, Stop
  <2>2. Table!TypeOK'
    BY <2>1 DEF TypeOK, Table!TypeOK, Table!ResetAllStateToOffline, Table!States
  <2>3. TypeOK'
    BY <1>1, <2>2 DEF Start, Stop, TypeOK, Broker!TypeOK
  <2> QED BY <1>1, <2>3, HandlerStays DEF Start, Stop
<1>2. ASSUME Crash(n) PROVE TInv'
  <2>1. Broker!TypeOK'
    BY <1>2, RedisServesType DEF Crash, TypeOK
  <2>2. /\ crashes' \in 0..MaxCrashes
        /\ alive' \in [Servers -> BOOLEAN] /\ stopping' \in [Servers -> BOOLEAN]
        /\ status' \in [Conns -> Statuses]
        /\ pc' \in [Conns -> Steps]
    BY <1>2, ServiceAssumption DEF Crash, TypeOK, Statuses, Steps
  <2>3. /\ connMap' \in [Servers -> [Users -> Conns \cup {None}]]
        /\ hand' \in [Servers -> Relay \cup {None}]
    BY <1>2 DEF Crash, TypeOK
  <2>4. TypeOK'
    BY <1>2, <2>1, <2>2, <2>3 DEF Crash, TypeOK, Table!TypeOK
  <2>5. HandlerOK'
    <3>1. \A d \in Conns : pc'[d] = pc[d] \/ pc'[d] = "gone"
      BY <1>2 DEF Crash
    <3>2. "gone" \notin BusySteps
      BY DEF BusySteps, LoginSteps, ChatSteps, CloseSteps
    <3>3. "gone" \notin ChatSteps
      BY DEF ChatSteps
    <3> QED BY <1>2, <3>1, <3>2, <3>3 DEF Crash, HandlerOK
  <2> QED BY <2>4, <2>5
<1> QED BY <1>1, <1>2

LEMMA ClientTypes ==
  ASSUME TInv, NEW c \in Conns, Connect(c) \/ PeerClose(c)
  PROVE  TInv'
<1> USE DEF TInv, tcpVars, loginVars, chatVars, redisVars, dbVars
<1>1. ASSUME Connect(c) PROVE TInv'
  <2>1. TypeOK'
    BY <1>1 DEF Connect, TypeOK, Statuses, Broker!TypeOK, Table!TypeOK
  <2> QED BY <1>1, <2>1, HandlerStays DEF Connect
<1>2. ASSUME PeerClose(c) PROVE TInv'
  <2>1. TypeOK'
    BY <1>2 DEF PeerClose, TypeOK, Statuses, Broker!TypeOK, Table!TypeOK
  <2> QED BY <1>2, <2>1, HandlerStays DEF PeerClose
<1> QED BY <1>1, <1>2

LEMMA LoginTypes ==
  ASSUME TInv, NEW c \in Conns, LoginStep(c) \/ \E u \in Users : Login(c, u)
  PROVE  TInv'
<1> USE DEF TInv, tcpVars, loginVars, chatVars, redisVars, dbVars
<1>1. \A step \in LoginSteps : step \in Steps /\ step \notin ChatSteps
  BY DEF Steps, LoginSteps, ChatSteps
<1>2. \A step \in LoginSteps : pc[c] = step => user[c] \in Users
  BY DEF HandlerOK, BusySteps
<1>3. ASSUME NEW u \in Users, Login(c, u) PROVE TInv'
  <2>1. /\ \A d \in Conns : pc'[d] = IF d = c THEN "kick" ELSE pc[d]
        /\ pc' \in [Conns -> Steps]
    BY <1>1, <1>3, GotoType DEF Login, LoginSteps
  <2>2. TypeOK'
    BY <1>3, <2>1 DEF Login, TypeOK, Broker!TypeOK, Table!TypeOK
  <2>3. \A d \in Conns : user'[d] = IF d = c THEN u ELSE user[d]
    BY <1>3 DEF Login, TypeOK
  <2>4. job' = job
    BY <1>3 DEF Login
  <2>5. \A d \in Conns : pc'[d] \in ChatSteps => pc'[d] = pc[d]
    BY <2>1 DEF ChatSteps
  <2>6. \A d \in Conns : pc'[d] = "send" => pc'[d] = pc[d]
    BY <2>1
  <2>7. HandlerOK'
    BY <2>1, <2>3, <2>4, <2>5, <2>6 DEF HandlerOK
  <2> QED BY <2>2, <2>7
<1>4. ASSUME LoginKick(c) PROVE TInv'
  <2>1. user[c] \in Users
    BY <1>2, <1>4 DEF LoginKick, At, LoginSteps
  <2>2. pc' \in [Conns -> Steps] /\ HandlerOK'
    <3>1. Goto(c, "setOnline") /\ user' = user /\ job' = job
      BY <1>4 DEF LoginKick
    <3>2. "setOnline" \in Steps /\ "setOnline" \notin ChatSteps
      BY <1>1 DEF LoginSteps
    <3> QED BY <2>1, <3>1, <3>2, GotoType, HandlerGoes
  <2>3. status' \in [Conns -> Statuses]
    <3>1. \/ status' = status
          \/ \E old : status' = [status EXCEPT ![old] = IF @ = "up" THEN "half" ELSE @]
      BY <1>4 DEF LoginKick
    <3> QED BY <3>1 DEF TypeOK, Statuses
  <2>4. connMap' \in [Servers -> [Users -> Conns \cup {None}]]
    BY <1>4, <2>1, SetMappedType DEF LoginKick, TypeOK
  <2>5. TypeOK'
    BY <1>4, <2>2, <2>3, <2>4 DEF LoginKick, TypeOK, Broker!TypeOK, Table!TypeOK
  <2> QED BY <2>2, <2>5
<1>5. ASSUME LoginSetOnline(c) PROVE TInv'
  <2>1. user[c] \in Users
    BY <1>2, <1>5 DEF LoginSetOnline, At, LoginSteps
  <2>2. pc' \in [Conns -> Steps] /\ HandlerOK'
    BY <1>1, <1>5, <2>1, GotoType, HandlerGoes DEF LoginSetOnline, LoginSteps
  <2>3. Table!TypeOK'
    BY <1>5, <2>1, ServiceAssumption
    DEF LoginSetOnline, TypeOK, Table!TypeOK, Table!UpdateState, Table!States
  <2>4. TypeOK'
    BY <1>5, <2>2, <2>3 DEF LoginSetOnline, TypeOK, Broker!TypeOK
  <2> QED BY <2>2, <2>4
<1>6. ASSUME LoginInsert(c) PROVE TInv'
  <2>1. user[c] \in Users
    BY <1>2, <1>6 DEF LoginInsert, At, LoginSteps
  <2>2. pc' \in [Conns -> Steps] /\ HandlerOK'
    BY <1>1, <1>6, <2>1, GotoType, HandlerGoes DEF LoginInsert, LoginSteps
  <2>3. connMap' \in [Servers -> [Users -> Conns \cup {None}]]
    BY <1>6, <2>1, SetMappedType DEF LoginInsert, TypeOK
  <2>4. TypeOK'
    BY <1>6, <2>2, <2>3 DEF LoginInsert, TypeOK, Broker!TypeOK, Table!TypeOK
  <2> QED BY <2>2, <2>4
<1>7. ASSUME LoginSubscribe(c) PROVE TInv'
  <2>1. user[c] \in Users /\ ServerOf[c] \in Servers
    BY <1>2, <1>7, ServiceAssumption DEF LoginSubscribe, At, LoginSteps
  <2>2. pc' \in [Conns -> Steps] /\ HandlerOK'
    BY <1>1, <1>7, <2>1, GotoType, HandlerGoes DEF LoginSubscribe, LoginSteps
  <2>3. Broker!TypeOK'
    BY <1>7, <2>1, RedisType DEF LoginSubscribe, TypeOK
  <2>4. TypeOK'
    BY <1>7, <2>2, <2>3 DEF LoginSubscribe, TypeOK, Table!TypeOK
  <2> QED BY <2>2, <2>4
<1>8. ASSUME LoginQuery(c) PROVE TInv'
  <2>1. user[c] \in Users
    BY <1>2, <1>8 DEF LoginQuery, At, LoginSteps
  <2>2. PICK found \in SUBSET Table!Rows :
          /\ rows' = [rows EXCEPT ![c] = found]
          /\ unpushed' = [unpushed EXCEPT ![c] = found]
          /\ Goto(c, IF found = {} THEN "ack" ELSE "push")
    <3>1. PICK ok \in Outcomes :
            LET found == IF ok THEN Table!RowsFor(user[c]) ELSE {} IN
            /\ rows' = [rows EXCEPT ![c] = found]
            /\ unpushed' = [unpushed EXCEPT ![c] = found]
            /\ Goto(c, IF found = {} THEN "ack" ELSE "push")
      BY <1>8 DEF LoginQuery
    <3>2. Table!RowsFor(user[c]) \in SUBSET Table!Rows
      BY DEF TypeOK, Table!TypeOK, Table!RowsFor
    <3> QED BY <3>1, <3>2
  <2>3. pc' \in [Conns -> Steps] /\ HandlerOK'
    BY <1>1, <1>8, <2>1, <2>2, GotoType, HandlerGoes DEF LoginQuery, LoginSteps
  <2>4. TypeOK'
    BY <1>8, <2>2, <2>3 DEF LoginQuery, TypeOK, Broker!TypeOK, Table!TypeOK
  <2> QED BY <2>3, <2>4
<1>9. ASSUME LoginPush(c) PROVE TInv'
  <2>1. user[c] \in Users
    BY <1>2, <1>9 DEF LoginPush, At, LoginSteps
  <2>2. pc' \in [Conns -> Steps] /\ HandlerOK'
    BY <1>1, <1>9, <2>1, GotoType, HandlerGoes DEF LoginPush, LoginSteps
  <2>3. PICK r \in unpushed[c] :
          /\ Deliver(c, [msg |-> r.msg, via |-> "offline", node |-> r.node])
          /\ unpushed' = [unpushed EXCEPT ![c] = @ \ {r}]
    BY <1>9 DEF LoginPush
  <2>4. r \in Table!Rows
    BY <2>3 DEF TypeOK
  <2>5. [msg |-> r.msg, via |-> "offline", node |-> r.node] \in Copies
    BY <2>4 DEF Table!Rows, Copies
  <2>6. inbox' \in [Conns -> Seq(Copies)]
    BY <2>3, <2>5, DeliverType
  <2>7. unpushed' \in [Conns -> SUBSET Table!Rows]
    BY <2>3 DEF TypeOK
  <2>8. TypeOK'
    BY <1>9, <2>2, <2>6, <2>7 DEF LoginPush, TypeOK, Broker!TypeOK, Table!TypeOK
  <2> QED BY <2>2, <2>8
<1>10. ASSUME LoginRemove(c) PROVE TInv'
  <2>1. user[c] \in Users
    BY <1>2, <1>10 DEF LoginRemove, At, LoginSteps
  <2>2. pc' \in [Conns -> Steps] /\ HandlerOK'
    BY <1>1, <1>10, <2>1, GotoType, HandlerGoes DEF LoginRemove, LoginSteps
  <2>3. Table!TypeOK'
    BY <1>10 DEF LoginRemove, TypeOK, Table!TypeOK, Table!RemoveRowsFor, Table!RowsFor
  <2>4. TypeOK'
    BY <1>10, <2>2, <2>3 DEF LoginRemove, TypeOK, Broker!TypeOK
  <2> QED BY <2>2, <2>4
<1>11. ASSUME LoginAck(c) PROVE TInv'
  <2>1. user[c] \in Users
    BY <1>2, <1>11 DEF LoginAck, At, LoginSteps
  <2>2. pc' \in [Conns -> Steps] /\ HandlerOK'
    BY <1>11, <2>1, GotoType, HandlerGoes DEF LoginAck, Steps, ChatSteps
  <2>3. TypeOK'
    BY <1>11, <2>2 DEF LoginAck, TypeOK, Broker!TypeOK, Table!TypeOK
  <2> QED BY <2>2, <2>3
<1> QED BY <1>3, <1>4, <1>5, <1>6, <1>7, <1>8, <1>9, <1>10, <1>11 DEF LoginStep

LEMMA CloseTypes ==
  ASSUME TInv, MapHoldsLiveSessions, NEW c \in Conns, CloseStep(c)
  PROVE  TInv'
<1> USE DEF TInv, tcpVars, loginVars, chatVars, redisVars, dbVars
<1>1. /\ \A step \in CloseSteps \cup {"closed"} : step \in Steps /\ step \notin ChatSteps
      /\ "closed" \notin BusySteps
  BY DEF Steps, BusySteps, LoginSteps, CloseSteps, ChatSteps
<1>2. \A step \in CloseSteps : pc[c] = step => user[c] \in Users
  BY DEF HandlerOK, BusySteps
<1>3. ASSUME CloseErase(c) PROVE TInv'
  <2>1. CASE EntriesOf(c) = {} /\ Goto(c, "closed") /\ UNCHANGED connMap
    <3>1. pc' \in [Conns -> Steps] /\ HandlerOK'
      BY <1>1, <1>3, <2>1, GotoType, HandlerGoes DEF CloseErase
    <3>2. TypeOK'
      BY <1>3, <2>1, <3>1 DEF CloseErase, TypeOK, Broker!TypeOK, Table!TypeOK
    <3> QED BY <3>1, <3>2
  <2>2. CASE \E u \in EntriesOf(c) : SetMapped(c, u, None) /\ Goto(c, "check")
    <3>1. PICK u \in EntriesOf(c) : SetMapped(c, u, None) /\ Goto(c, "check")
      BY <2>2
    <3>2. pc' \in [Conns -> Steps]
      BY <1>1, <3>1, GotoType DEF CloseSteps
    <3>3. HandlerOK'
      <4>1. user[c] \in Users
        BY ServiceAssumption DEF EntriesOf, Mapped, MapHoldsLiveSessions
      <4> QED BY <1>1, <1>3, <3>1, <4>1, HandlerGoes DEF CloseErase, CloseSteps
    <3>4. connMap' \in [Servers -> [Users -> Conns \cup {None}]]
      BY <3>1, SetMappedType DEF EntriesOf
    <3>5. TypeOK'
      BY <1>3, <3>2, <3>4 DEF CloseErase, TypeOK, Broker!TypeOK, Table!TypeOK
    <3> QED BY <3>3, <3>5
  <2> QED BY <1>3, <2>1, <2>2 DEF CloseErase
<1>4. ASSUME CloseCheck(c) PROVE TInv'
  <2>1. user[c] \in Users
    BY <1>2, <1>4 DEF CloseCheck, At, CloseSteps
  <2>2. pc' \in [Conns -> Steps] /\ HandlerOK'
    BY <1>1, <1>4, <2>1, GotoType, HandlerGoes DEF CloseCheck, CloseSteps
  <2>3. TypeOK'
    BY <1>4, <2>2 DEF CloseCheck, TypeOK, Broker!TypeOK, Table!TypeOK
  <2> QED BY <2>2, <2>3
<1>5. ASSUME CloseUnsubscribe(c) PROVE TInv'
  <2>1. user[c] \in Users /\ ServerOf[c] \in Servers
    BY <1>2, <1>5, ServiceAssumption DEF CloseUnsubscribe, At, CloseSteps
  <2>2. pc' \in [Conns -> Steps] /\ HandlerOK'
    BY <1>1, <1>5, <2>1, GotoType, HandlerGoes DEF CloseUnsubscribe, CloseSteps
  <2>3. Broker!TypeOK'
    BY <1>5, <2>1, RedisType DEF CloseUnsubscribe, TypeOK
  <2>4. TypeOK'
    BY <1>5, <2>2, <2>3 DEF CloseUnsubscribe, TypeOK, Table!TypeOK
  <2> QED BY <2>2, <2>4
<1>6. ASSUME CloseSetOffline(c) PROVE TInv'
  <2>1. user[c] \in Users
    BY <1>2, <1>6 DEF CloseSetOffline, At, CloseSteps
  <2>2. pc' \in [Conns -> Steps] /\ HandlerOK'
    BY <1>1, <1>6, <2>1, GotoType, HandlerGoes DEF CloseSetOffline
  <2>3. Table!TypeOK'
    BY <1>6, <2>1, ServiceAssumption
    DEF CloseSetOffline, TypeOK, Table!TypeOK, Table!UpdateState, Table!States
  <2>4. TypeOK'
    BY <1>6, <2>2, <2>3 DEF CloseSetOffline, TypeOK, Broker!TypeOK
  <2> QED BY <2>2, <2>4
<1> QED BY <1>3, <1>4, <1>5, <1>6 DEF CloseStep

LEMMA ChatStartTypes ==
  ASSUME TInv, NEW c \in Conns, NEW to \in SUBSET Users, Chat(c, to)
  PROVE  TInv'
<1> USE DEF TInv, tcpVars, loginVars, redisVars, dbVars
<1>1. LastMsg \in Nat /\ LastMsg + 1 \in Msgs
  BY ServiceAssumption DEF Chat, LastMsg, Msgs, TypeOK
<1>2. /\ sent' \in Seq([from : Conns, to : SUBSET Users])
      /\ Len(sent') <= MaxMsgs
  BY <1>1 DEF Chat, TypeOK, LastMsg, Msgs
<1>3. /\ job' \in [Conns -> [msg : Msgs \cup {0}, left : SUBSET Users,
                             to : Users \cup {None}, conn : Conns \cup {None}]]
      /\ job'[c].msg \in Msgs
      /\ \A d \in Conns : d # c => job'[d] = job[d]
  BY <1>1 DEF Chat, TypeOK, NoJob
<1>4. /\ pc' \in [Conns -> Steps]
      /\ \A d \in Conns : pc'[d] = IF d = c THEN "lookup" ELSE pc[d]
  BY GotoType DEF Chat, Steps, ChatSteps
<1>5. user[c] \in Users
  BY DEF Chat, At, HandlerOK, BusySteps
<1>6. TypeOK'
  BY <1>2, <1>3, <1>4 DEF Chat, TypeOK, Broker!TypeOK, Table!TypeOK
<1>7. HandlerOK'
  BY <1>3, <1>4, <1>5 DEF Chat, HandlerOK
<1> QED BY <1>6, <1>7

LEMMA ChatTypes ==
  ASSUME TInv, NEW c \in Conns, ChatStep(c)
  PROVE  TInv'
<1> USE DEF TInv, tcpVars, loginVars, chatVars, redisVars, dbVars
<1>1. /\ pc[c] \in ChatSteps
      /\ user[c] \in Users /\ job[c].msg \in Msgs
      /\ pc[c] = "send" => job[c].to \in Users
  BY DEF ChatStep, ChatLookup, ChatForward, ChatPublish, At, HandlerOK, ChatSteps, BusySteps
<1>2. ASSUME ChatLookup(c) PROVE TInv'
  <2>1. PICK u \in Users :
          job' = [job EXCEPT ![c] = [msg |-> job[c].msg, left |-> job[c].left \ {u},
                                     to |-> u, conn |-> Mapped(c, u)]]
    BY <1>2 DEF ChatLookup, TypeOK
  <2>2. Mapped(c, u) \in Conns \cup {None}
    BY MappedType
  <2>3. /\ job' \in [Conns -> [msg : Msgs \cup {0}, left : SUBSET Users,
                               to : Users \cup {None}, conn : Conns \cup {None}]]
        /\ job'[c].msg = job[c].msg /\ job'[c].to = u
        /\ \A d \in Conns : d # c => job'[d] = job[d]
    BY <2>1, <2>2 DEF TypeOK
  <2>4. /\ pc' \in [Conns -> Steps]
        /\ \A d \in Conns : pc'[d] = IF d = c THEN "send" ELSE pc[d]
    BY <1>2, GotoType DEF ChatLookup, Steps, ChatSteps
  <2>5. TypeOK'
    BY <1>2, <2>3, <2>4 DEF ChatLookup, TypeOK, Broker!TypeOK, Table!TypeOK
  <2>6. HandlerOK'
    BY <1>1, <1>2, <2>3, <2>4 DEF ChatLookup, HandlerOK
  <2> QED BY <2>5, <2>6
<1>3. ASSUME NextRecipient(c), UNCHANGED <<user, job>>
      PROVE  pc' \in [Conns -> Steps] /\ HandlerOK'
  <2>1. PICK step \in {"ready", "lookup"} : Goto(c, step)
    BY <1>3 DEF NextRecipient
  <2>2. step \in Steps
    BY <2>1 DEF Steps, ChatSteps
  <2> QED BY <1>1, <1>3, <2>1, <2>2, GotoType, HandlerGoes
<1>4. ASSUME ChatForward(c) PROVE TInv'
  <2>1. pc[c] = "send"
    BY <1>4 DEF ChatForward, At
  <2>2. job[c].conn \in Conns
    BY <1>4 DEF ChatForward, TypeOK
  <2>3. [msg |-> job[c].msg, via |-> "direct", node |-> ServerOf[c]] \in Copies
    BY <1>1, ServiceAssumption DEF Copies
  <2>4. inbox' \in [Conns -> Seq(Copies)]
    BY <1>4, <2>2, <2>3, DeliverType DEF ChatForward
  <2>5. pc' \in [Conns -> Steps] /\ HandlerOK'
    BY <1>3, <1>4 DEF ChatForward
  <2>6. TypeOK'
    BY <1>4, <2>4, <2>5 DEF ChatForward, TypeOK, Broker!TypeOK, Table!TypeOK
  <2> QED BY <2>5, <2>6
<1>5. ASSUME ChatPublish(c) PROVE TInv'
  <2>1. job[c].to \in Users
    BY <1>1, <1>5 DEF ChatPublish, At
  <2>2. [to |-> job[c].to, msg |-> job[c].msg] \in Relay /\ ServerOf[c] \in Servers
    BY <1>1, <2>1, ServiceAssumption DEF Relay
  <2>3. Broker!TypeOK'
    <3>1. CASE Broker!Publish(job[c].to, [to |-> job[c].to, msg |-> job[c].msg])
      BY <2>1, <2>2, <3>1, RedisType DEF TypeOK
    <3>2. CASE UNCHANGED redisVars
      BY <3>2 DEF TypeOK, Broker!TypeOK
    <3> QED BY <1>5, <3>1, <3>2 DEF ChatPublish
  <2>4. pc' \in [Conns -> Steps] /\ HandlerOK'
    BY <1>3, <1>5 DEF ChatPublish
  <2>5. TypeOK'
    BY <1>5, <2>3, <2>4 DEF ChatPublish, TypeOK, Table!TypeOK
  <2> QED BY <2>4, <2>5
<1> QED BY <1>2, <1>4, <1>5 DEF ChatStep

LEMMA ObserverTypes ==
  ASSUME TInv, NEW n \in Servers
  PROVE  ObserverStep(n) \/ RedisServes(n) => TInv'
<1> USE DEF TInv, tcpVars, loginVars, chatVars, redisVars, dbVars
<1>1. ASSUME Observe(n) PROVE TInv'
  <2> DEFINE item == Head(bus[n])
             d == connMap[n][item.to]
  <2>1. Broker!TypeOK' /\ item \in Relay
    BY <1>1, RedisServesType DEF Observe, TypeOK
  <2>2. inbox' \in [Conns -> Seq(Copies)] /\ hand' \in [Servers -> Relay \cup {None}]
    <3>1. CASE d # None
      <4>1. d \in Conns
        BY <2>1, <3>1 DEF TypeOK, Relay
      <4>2. [msg |-> item.msg, via |-> "relay", node |-> n] \in Copies
        BY <2>1 DEF Relay, Copies
      <4>3. Deliver(d, [msg |-> item.msg, via |-> "relay", node |-> n])
            /\ UNCHANGED hand
        BY <1>1, <3>1 DEF Observe
      <4> QED BY <4>1, <4>2, <4>3, DeliverType DEF TypeOK
    <3>2. CASE d = None
      <4>1. hand' = [hand EXCEPT ![n] = item] /\ UNCHANGED inbox
        BY <1>1, <3>2 DEF Observe
      <4> QED BY <2>1, <4>1 DEF TypeOK
    <3> QED BY <3>1, <3>2
  <2>3. TypeOK'
    BY <1>1, <2>1, <2>2 DEF Observe, TypeOK, Table!TypeOK
  <2> QED BY <1>1, <2>3, HandlerStays DEF Observe
<1>2. ASSUME Store(n) PROVE TInv'
  <2>1. hand[n] \in Relay
    BY <1>2 DEF Store, TypeOK
  <2>2. [to |-> hand[n].to, msg |-> hand[n].msg, node |-> n] \in Table!Rows
    BY <2>1 DEF Relay, Table!Rows
  <2>3. Table!TypeOK'
    BY <1>2, <2>2 DEF Store, TypeOK, Table!TypeOK, Table!InsertRow
  <2>4. hand' \in [Servers -> Relay \cup {None}]
    BY <1>2 DEF Store, TypeOK
  <2>5. TypeOK'
    BY <1>2, <2>3, <2>4 DEF Store, TypeOK, Broker!TypeOK
  <2> QED BY <1>2, <2>5, HandlerStays DEF Store
<1>3. ASSUME RedisServes(n) PROVE TInv'
  <2>1. Broker!TypeOK'
    BY <1>3, RedisServesType DEF RedisServes, TypeOK
  <2>2. TypeOK'
    BY <1>3, <2>1 DEF RedisServes, TypeOK, Table!TypeOK
  <2> QED BY <1>3, <2>2, HandlerStays DEF RedisServes
<1> QED BY <1>1, <1>2, <1>3 DEF ObserverStep

-----------------------------------------------------------------------------
(* The session maps                                                        *)

\* What MapHoldsLiveSessions rests on: a connection that has yet to enter the
\* map was not kicked, and only an open connection has a handler.
Admissible ==
  /\ \A c \in Conns : pc[c] \in {"fresh", "kick", "setOnline", "insert"} => status[c] # "half"
  /\ \A c \in Conns : status[c] = "none" => pc[c] = "fresh"

SInv == MapHoldsLiveSessions /\ Admissible

LEMMA InitSessions == Init => SInv
  BY ServiceAssumption DEF Init, SInv, MapHoldsLiveSessions, Admissible

\* Steps that leave the map and the TCP connections alone move no connection
\* out of the part of the handlers that the map may refer to, or into the
\* part before it.
LEMMA SessionsStay ==
  ASSUME TInv, SInv, UNCHANGED <<connMap, tcpVars>>,
         \A c \in Conns :
           \/ pc'[c] = pc[c] /\ user'[c] = user[c]
           \/ /\ status[c] # "none"
              /\ pc[c] \in MappedSteps => pc'[c] \in MappedSteps /\ user'[c] = user[c]
              /\ pc'[c] \in {"fresh", "kick", "setOnline", "insert"} =>
                   pc[c] \in {"fresh", "kick", "setOnline", "insert"}
  PROVE  SInv'
<1>1. MapHoldsLiveSessions'
  <2> SUFFICES ASSUME NEW n \in Servers, NEW u \in Users, connMap[n][u] # None
               PROVE  /\ alive[n] /\ ServerOf[connMap[n][u]] = n
                      /\ user'[connMap[n][u]] = u
                      /\ pc'[connMap[n][u]] \in MappedSteps
                      /\ status[connMap[n][u]] \in {"up", "lost"}
    BY DEF MapHoldsLiveSessions, tcpVars
  <2>1. connMap[n][u] \in Conns
    BY DEF TInv, TypeOK
  <2> QED BY <2>1 DEF SInv, MapHoldsLiveSessions
<1>2. Admissible'
  BY DEF SInv, Admissible, tcpVars
<1> QED BY <1>1, <1>2 DEF SInv

LEMMA ServerSessions ==
  ASSUME TInv, SInv, NEW n \in Servers,
         Start(n) \/ Stop(n) \/ Crash(n) \/ ObserverStep(n) \/ RedisServes(n)
  PROVE  SInv'
<1>1. CASE Start(n) \/ Stop(n)
  <2>1. alive' = [alive EXCEPT ![n] = TRUE] \/ alive' = alive
    BY <1>1 DEF Start, Stop
  <2>2. UNCHANGED <<status, user, pc, connMap>>
    BY <1>1 DEF Start, Stop, loginVars
  <2>3. \A m \in Servers : alive[m] => alive'[m]
    BY <2>1 DEF TInv, TypeOK
  <2> QED BY <2>2, <2>3 DEF SInv, MapHoldsLiveSessions, Admissible
<1>2. CASE Crash(n)
  <2>1. /\ \A m \in Servers : alive'[m] = IF m = n THEN FALSE ELSE alive[m]
        /\ \A m \in Servers, u \in Users :
             connMap'[m][u] = IF m = n THEN None ELSE connMap[m][u]
        /\ \A c \in Conns : IF ServerOf[c] = n /\ status[c] # "none"
                            THEN status'[c] = "lost" /\ pc'[c] = "gone"
                            ELSE status'[c] = status[c] /\ pc'[c] = pc[c]
        /\ user' = user
    BY <1>2 DEF Crash, TInv, TypeOK, loginVars
  <2>2. MapHoldsLiveSessions'
    <3> SUFFICES ASSUME NEW m \in Servers, NEW u \in Users, connMap'[m][u] # None
                 PROVE  /\ alive'[m] /\ ServerOf[connMap'[m][u]] = m
                        /\ user'[connMap'[m][u]] = u
                        /\ pc'[connMap'[m][u]] \in MappedSteps
                        /\ status'[connMap'[m][u]] \in {"up", "lost"}
      BY DEF MapHoldsLiveSessions
    <3>1. m # n /\ connMap'[m][u] = connMap[m][u]
      BY <2>1
    <3>2. connMap[m][u] \in Conns /\ connMap[m][u] # None
      BY <3>1 DEF TInv, TypeOK
    <3>3. /\ alive[m] /\ ServerOf[connMap[m][u]] = m
          /\ user[connMap[m][u]] = u
          /\ pc[connMap[m][u]] \in MappedSteps
          /\ status[connMap[m][u]] \in {"up", "lost"}
      BY <3>2 DEF SInv, MapHoldsLiveSessions
    <3>4. /\ pc'[connMap[m][u]] = pc[connMap[m][u]]
          /\ status'[connMap[m][u]] = status[connMap[m][u]]
      BY <2>1, <3>1, <3>2, <3>3
    <3> QED BY <2>1, <3>1, <3>3, <3>4
  <2>3. Admissible'
    BY <2>1 DEF SInv, Admissible
  <2> QED BY <2>2, <2>3 DEF SInv
<1>3. CASE ObserverStep(n) \/ RedisServes(n)
  <2>1. UNCHANGED <<connMap, tcpVars, user, pc>>
    BY <1>3 DEF ObserverStep, Observe, Store, RedisServes, tcpVars, loginVars
  <2> QED BY <2>1, SessionsStay
<1> QED BY <1>1, <1>2, <1>3

LEMMA ClientSessions ==
  ASSUME TInv, SInv, NEW c \in Conns, Connect(c) \/ PeerClose(c)
  PROVE  SInv'
<1>1. /\ UNCHANGED <<alive, connMap, user, pc>>
      /\ \A d \in Conns : d # c => status'[d] = status[d]
      /\ status'[c] \in {"up", "lost"}
  BY DEF Connect, PeerClose, loginVars, TInv, TypeOK
<1>2. MapHoldsLiveSessions'
  <2> SUFFICES ASSUME NEW n \in Servers, NEW u \in Users, connMap[n][u] # None
               PROVE  /\ alive[n] /\ ServerOf[connMap[n][u]] = n
                      /\ user[connMap[n][u]] = u
                      /\ pc[connMap[n][u]] \in MappedSteps
                      /\ status'[connMap[n][u]] \in {"up", "lost"}
    BY <1>1 DEF MapHoldsLiveSessions
  <2>1. connMap[n][u] \in Conns
    BY DEF TInv, TypeOK
  <2> QED BY <1>1, <2>1 DEF SInv, MapHoldsLiveSessions
<1>3. Admissible'
  BY <1>1 DEF SInv, Admissible
<1> QED BY <1>2, <1>3 DEF SInv

LEMMA LoginSessions ==
  ASSUME TInv, SInv, NEW c \in Conns, LoginStep(c) \/ \E u \in Users : Login(c, u)
  PROVE  SInv'
<1> DEFINE Before == {"fresh", "kick", "setOnline", "insert"}
<1>1. /\ status[c] # "none"
      /\ \A d \in Conns : d # c => pc'[d] = pc[d] /\ user'[d] = user[d]
      /\ alive[ServerOf[c]] /\ alive' = alive
  <2>1. PICK step \in Steps : Goto(c, step)
    BY DEF LoginStep, Login, LoginKick, LoginSetOnline, LoginInsert, LoginSubscribe,
           LoginQuery, LoginPush, LoginRemove, LoginAck, Steps, LoginSteps
  <2>2. \A d \in Conns : d # c => pc'[d] = pc[d]
    BY <2>1 DEF Goto, TInv, TypeOK
  <2>3. \A d \in Conns : d # c => user'[d] = user[d]
    BY DEF LoginStep, Login, LoginKick, LoginSetOnline, LoginInsert, LoginSubscribe,
           LoginQuery, LoginPush, LoginRemove, LoginAck, loginVars, TInv, TypeOK
  <2>4. alive[ServerOf[c]] /\ alive' = alive
    BY DEF LoginStep, Login, LoginKick, LoginSetOnline, LoginInsert, LoginSubscribe,
           LoginQuery, LoginPush, LoginRemove, LoginAck, At, tcpVars
  <2>5. status[c] # "none"
    BY DEF LoginStep, Login, LoginKick, LoginSetOnline, LoginInsert, LoginSubscribe,
           LoginQuery, LoginPush, LoginRemove, LoginAck, At, SInv, Admissible
  <2> QED BY <2>2, <2>3, <2>4, <2>5
<1>2. ASSUME Login(c, user'[c]) \/ LoginSetOnline(c) PROVE SInv'
  <2>1. pc[c] \in Before /\ UNCHANGED <<connMap, tcpVars>> /\ pc[c] \notin MappedSteps
    BY <1>2 DEF Login, LoginSetOnline, At, MappedSteps, ChatSteps
  <2> QED BY <1>1, <2>1, SessionsStay
<1>3. ASSUME \/ LoginSubscribe(c) \/ LoginQuery(c) \/ LoginPush(c)
             \/ LoginRemove(c) \/ LoginAck(c)
      PROVE  SInv'
  <2>1. PICK step \in {"query", "push", "remove", "ack", "ready", "refused"} : Goto(c, step)
    BY <1>3 DEF LoginSubscribe, LoginQuery, LoginPush, LoginRemove, LoginAck
  <2>2. pc'[c] = step
    BY <2>1 DEF Goto, TInv, TypeOK
  <2>3. UNCHANGED <<connMap, tcpVars>> /\ user' = user
    BY <1>3 DEF LoginSubscribe, LoginQuery, LoginPush, LoginRemove, LoginAck, loginVars
  <2>4. step \in MappedSteps /\ step \notin Before
    BY DEF MappedSteps
  <2> QED BY <1>1, <2>2, <2>3, <2>4, SessionsStay
<1>4. ASSUME LoginKick(c) PROVE SInv'
  <2> DEFINE u == user[c]
             old == Mapped(c, u)
  <2>1. /\ u \in Users /\ ServerOf[c] \in Servers
        /\ pc[c] = "kick" /\ pc'[c] = "setOnline" /\ user' = user
    BY <1>4, ServiceAssumption
    DEF LoginKick, At, Goto, loginVars, TInv, TypeOK, HandlerOK, BusySteps, LoginSteps
  <2>2. CASE old = None
    <3>1. UNCHANGED <<connMap, tcpVars>>
      BY <1>4, <2>2 DEF LoginKick, tcpVars
    <3>2. pc[c] \notin MappedSteps /\ pc[c] \in Before
      BY <2>1 DEF MappedSteps, ChatSteps
    <3> QED BY <1>1, <2>1, <3>1, <3>2, SessionsStay
  <2>3. CASE old # None
    <3>1. /\ old \in Conns /\ old # c /\ pc[old] \in MappedSteps
          /\ user[old] = u /\ ServerOf[old] = ServerOf[c]
      BY <2>1, <2>3, MappedType
      DEF SInv, MapHoldsLiveSessions, MappedSteps, ChatSteps, TInv
    <3>2. /\ \A d \in Conns : d # old => status'[d] = status[d]
          /\ status'[old] \in {"half", status[old]}
      BY <1>4, <2>3, <3>1 DEF LoginKick, TInv, TypeOK
    <3>3. SetMapped(c, u, None)
      BY <1>4, <2>3 DEF LoginKick
    <3>4. \A n \in Servers, v \in Users :
            connMap'[n][v] = IF n = ServerOf[c] /\ v = u THEN None ELSE connMap[n][v]
      BY <2>1, <3>3, SetMappedType DEF TInv
    <3>5. MapHoldsLiveSessions'
      <4> SUFFICES ASSUME NEW n \in Servers, NEW v \in Users, connMap'[n][v] # None
                   PROVE  /\ alive[n] /\ ServerOf[connMap'[n][v]] = n
                          /\ user[connMap'[n][v]] = v
                          /\ pc'[connMap'[n][v]] \in MappedSteps
                          /\ status'[connMap'[n][v]] \in {"up", "lost"}
        BY <1>1, <2>1 DEF MapHoldsLiveSessions
      <4>1. /\ connMap'[n][v] = connMap[n][v]
            /\ ~(n = ServerOf[c] /\ v = u)
        BY <3>4
      <4>2. /\ connMap[n][v] \in Conns
            /\ alive[n] /\ ServerOf[connMap[n][v]] = n /\ user[connMap[n][v]] = v
            /\ pc[connMap[n][v]] \in MappedSteps
            /\ status[connMap[n][v]] \in {"up", "lost"}
        BY <4>1 DEF SInv, MapHoldsLiveSessions, TInv, TypeOK
      <4>3. connMap[n][v] # c /\ connMap[n][v] # old
        BY <2>1, <3>1, <4>1, <4>2 DEF MappedSteps, ChatSteps
      <4> QED BY <1>1, <3>2, <4>1, <4>2, <4>3
    <3>6. Admissible'
      <4>1. pc[old] \notin Before
        BY <3>1 DEF MappedSteps, ChatSteps
      <4>2. status[old] # "none"
        BY <3>1, <4>1 DEF SInv, Admissible
      <4> QED BY <1>1, <2>1, <3>1, <3>2, <4>1, <4>2 DEF SInv, Admissible
    <3> QED BY <3>5, <3>6 DEF SInv
  <2> QED BY <2>2, <2>3
<1>5. ASSUME LoginInsert(c) PROVE SInv'
  <2> DEFINE u == user[c]
  <2>1. /\ u \in Users /\ ServerOf[c] \in Servers
        /\ pc[c] = "insert" /\ pc'[c] = "subscribe" /\ user' = user
        /\ status' = status
    BY <1>5, ServiceAssumption
    DEF LoginInsert, At, Goto, tcpVars, loginVars, TInv, TypeOK, HandlerOK, BusySteps, LoginSteps
  <2>2. pc[c] \notin MappedSteps /\ pc'[c] \in MappedSteps /\ pc'[c] \notin Before
    BY <2>1 DEF MappedSteps, ChatSteps
  <2>3. status[c] \in {"up", "lost"}
    BY <1>1, <2>1 DEF SInv, Admissible, TInv, TypeOK, Statuses
  <2>4. \A n \in Servers, v \in Users :
          \/ connMap'[n][v] = connMap[n][v]
          \/ n = ServerOf[c] /\ v = u /\ connMap'[n][v] = c
    <3>1. CASE SetMapped(c, u, c)
      BY <2>1, <3>1, SetMappedType DEF TInv
    <3>2. CASE UNCHANGED connMap
      BY <3>2
    <3> QED BY <1>5, <3>1, <3>2 DEF LoginInsert
  <2>5. MapHoldsLiveSessions'
    <3> SUFFICES ASSUME NEW n \in Servers, NEW v \in Users, connMap'[n][v] # None
                 PROVE  /\ alive[n] /\ ServerOf[connMap'[n][v]] = n
                        /\ user[connMap'[n][v]] = v
                        /\ pc'[connMap'[n][v]] \in MappedSteps
                        /\ status[connMap'[n][v]] \in {"up", "lost"}
      BY <1>1, <2>1 DEF MapHoldsLiveSessions
    <3>1. CASE n = ServerOf[c] /\ v = u /\ connMap'[n][v] = c
      BY <1>1, <2>2, <2>3, <3>1
    <3>2. CASE connMap'[n][v] = connMap[n][v]
      <4>1. connMap[n][v] \in Conns
        BY <3>2 DEF TInv, TypeOK
      <4> QED BY <1>1, <2>2, <3>2, <4>1 DEF SInv, MapHoldsLiveSessions
    <3> QED BY <2>4, <3>1, <3>2
  <2>6. Admissible'
    BY <1>1, <2>1, <2>2 DEF SInv, Admissible
  <2> QED BY <2>5, <2>6 DEF SInv
<1>6. ASSUME NEW u \in Users, Login(c, u) PROVE Login(c, user'[c])
  BY <1>6 DEF Login, TInv, TypeOK
<1> QED BY <1>2, <1>3, <1>4, <1>5, <1>6 DEF LoginStep

LEMMA CloseSessions ==
  ASSUME TInv, SInv, NEW c \in Conns, CloseStep(c)
  PROVE  SInv'
<1>1. /\ \A d \in Conns : d # c => pc'[d] = pc[d]
      /\ UNCHANGED <<tcpVars, user>>
      /\ pc'[c] \in CloseSteps \cup {"closed"}
      /\ status[c] # "none"
      /\ alive[ServerOf[c]]
  <2>1. PICK step \in CloseSteps \cup {"closed"} : Goto(c, step)
    BY DEF CloseStep, CloseErase, CloseCheck, CloseUnsubscribe, CloseSetOffline, CloseSteps
  <2>2. pc'[c] = step /\ \A d \in Conns : d # c => pc'[d] = pc[d]
    BY <2>1 DEF Goto, TInv, TypeOK
  <2>3. UNCHANGED <<tcpVars, user>> /\ alive[ServerOf[c]]
    BY DEF CloseStep, CloseErase, CloseCheck, CloseUnsubscribe, CloseSetOffline, At, loginVars
  <2>4. status[c] # "none"
    BY DEF CloseStep, CloseErase, CloseCheck, CloseUnsubscribe, CloseSetOffline, At,
           SInv, Admissible
  <2> QED BY <2>1, <2>2, <2>3, <2>4
<1>2. pc'[c] \notin MappedSteps /\ pc'[c] \notin {"fresh", "kick", "setOnline", "insert"}
  BY <1>1 DEF MappedSteps, ChatSteps, CloseSteps
<1>3. ASSUME EntriesOf(c)' = {}, \A n \in Servers, u \in Users :
               connMap'[n][u] \in {connMap[n][u], None}
      PROVE  SInv'
  <2>1. MapHoldsLiveSessions'
    <3> SUFFICES ASSUME NEW n \in Servers, NEW u \in Users, connMap'[n][u] # None
                 PROVE  /\ alive'[n] /\ ServerOf[connMap'[n][u]] = n
                        /\ user'[connMap'[n][u]] = u
                        /\ pc'[connMap'[n][u]] \in MappedSteps
                        /\ status'[connMap'[n][u]] \in {"up", "lost"}
      BY DEF MapHoldsLiveSessions
    <3>1. connMap'[n][u] = connMap[n][u] /\ connMap[n][u] # None
      BY <1>3
    <3>2. /\ connMap[n][u] \in Conns
          /\ alive[n] /\ ServerOf[connMap[n][u]] = n
          /\ user[connMap[n][u]] = u
          /\ pc[connMap[n][u]] \in MappedSteps
          /\ status[connMap[n][u]] \in {"up", "lost"}
      BY <3>1 DEF SInv, MapHoldsLiveSessions, TInv, TypeOK
    <3>3. connMap[n][u] # c
      BY <1>3, <3>1, <3>2 DEF EntriesOf, Mapped
    <3> QED BY <1>1, <3>1, <3>2, <3>3 DEF tcpVars
  <2>2. Admissible'
    BY <1>1, <1>2 DEF SInv, Admissible, tcpVars
  <2> QED BY <2>1, <2>2 DEF SInv
<1>4. CASE CloseErase(c)
  <2>1. CASE EntriesOf(c) = {} /\ UNCHANGED connMap
    BY <1>3, <2>1 DEF EntriesOf, Mapped
  <2>2. ASSUME NEW u \in EntriesOf(c), SetMapped(c, u, None) PROVE SInv'
    <3>1. u \in Users /\ connMap[ServerOf[c]][u] = c /\ ServerOf[c] \in Servers
      BY ServiceAssumption DEF EntriesOf, Mapped
    <3>2. \A n \in Servers, v \in Users :
            connMap'[n][v] = IF n = ServerOf[c] /\ v = u THEN None ELSE connMap[n][v]
      BY <2>2, <3>1, SetMappedType DEF TInv
    <3>3. EntriesOf(c)' = {}
      <4>1. \A v \in Users : connMap[ServerOf[c]][v] = c => v = user[c]
        BY <3>1, ServiceAssumption DEF SInv, MapHoldsLiveSessions
      <4>2. u = user[c]
        BY <3>1, <4>1
      <4>3. c # None
        BY ServiceAssumption
      <4> QED BY <3>1, <3>2, <4>1, <4>2, <4>3 DEF EntriesOf, Mapped
    <3> QED BY <1>3, <3>2, <3>3
  <2> QED BY <1>4, <2>1, <2>2 DEF CloseErase
<1>5. CASE CloseCheck(c) \/ CloseUnsubscribe(c) \/ CloseSetOffline(c)
  <2>1. UNCHANGED connMap /\ pc[c] \in CloseSteps
    BY <1>5 DEF CloseCheck, CloseUnsubscribe, CloseSetOffline, At, CloseSteps
  <2>2. pc[c] \notin MappedSteps
    BY <2>1 DEF CloseSteps, MappedSteps, ChatSteps
  <2> QED BY <1>1, <1>2, <2>1, <2>2, SessionsStay
<1> QED BY <1>4, <1>5 DEF CloseStep

LEMMA ChatSessions ==
  ASSUME TInv, SInv, NEW c \in Conns, OneChat(c) \/ GroupChat(c) \/ ChatStep(c)
  PROVE  SInv'
<1>1. /\ UNCHANGED <<connMap, tcpVars, user>>
      /\ pc[c] \in ChatSteps \cup {"ready"}
      /\ \E step \in ChatSteps \cup {"ready"} : Goto(c, step)
  BY DEF OneChat, GroupChat, Chat, ChatStep, ChatLookup, ChatForward, ChatPublish,
         NextRecipient, At, ChatSteps, loginVars
<1>2. /\ pc'[c] \in ChatSteps \cup {"ready"}
      /\ \A d \in Conns : d # c => pc'[d] = pc[d]
  BY <1>1 DEF Goto, TInv, TypeOK
<1>3. /\ \A step \in ChatSteps \cup {"ready"} :
           step \in MappedSteps /\ step \notin {"fresh", "kick", "setOnline", "insert"}
  BY DEF MappedSteps, ChatSteps
<1>4. status[c] # "none"
  BY <1>1 DEF ChatSteps, SInv, Admissible
<1> QED BY <1>1, <1>2, <1>3, <1>4, SessionsStay

LEMMA ServiceStep == TInv /\ SInv /\ [Next]_vars => (TInv /\ SInv)'
<1> SUFFICES ASSUME TInv, SInv, [Next]_vars PROVE TInv' /\ SInv'
  OBVIOUS
<1>1. CASE UNCHANGED vars
  <2>1. TInv'
    BY <1>1 DEF vars, tcpVars, loginVars, chatVars, redisVars, dbVars, TInv, TypeOK,
                HandlerOK, Broker!TypeOK, Table!TypeOK
  <2>2. SInv'
    BY <1>1 DEF vars, tcpVars, loginVars, SInv, MapHoldsLiveSessions, Admissible
  <2> QED BY <2>1, <2>2
<1>2. ASSUME NEW n \in Servers,
             Start(n) \/ Stop(n) \/ Crash(n) \/ ObserverStep(n) \/ RedisServes(n)
      PROVE  TInv' /\ SInv'
  BY <1>2, ServerTypes, ObserverTypes, ServerSessions
<1>3. ASSUME NEW c \in Conns,
             \/ Connect(c) \/ PeerClose(c)
             \/ \E u \in Users : Login(c, u)
             \/ OneChat(c) \/ GroupChat(c)
             \/ HandlerStep(c)
      PROVE  TInv' /\ SInv'
  <2>1. ASSUME OneChat(c) \/ GroupChat(c) PROVE TInv'
    <3>1. PICK to \in SUBSET Users : Chat(c, to)
      BY <2>1, ServiceAssumption DEF OneChat, GroupChat
    <3> QED BY <3>1, ChatStartTypes
  <2>2. TInv'
    BY <1>3, <2>1, ClientTypes, LoginTypes, CloseTypes, ChatTypes DEF HandlerStep, SInv
  <2>3. SInv'
    BY <1>3, ClientSessions, LoginSessions, CloseSessions, ChatSessions DEF HandlerStep
  <2> QED BY <2>2, <2>3
<1> QED BY <1>1, <1>2, <1>3 DEF Next

\* Type correctness: in particular every message that is forwarded, published,
\* stored or pushed was sent, and goes to a user or a connection there is.
THEOREM ServiceTypeOK == Spec => []TypeOK
<1>1. Init => TInv /\ SInv
  BY InitTypes, InitSessions
<1>2. TInv => TypeOK
  BY DEF TInv
<1> QED BY <1>1, <1>2, ServiceStep, PTL DEF Spec

\* The map of every server only ever refers to a session of that server whose
\* login for that user ran, which was not kicked, and which has not ended, for
\* any number of logins, takeovers, closes and crashes at once.
THEOREM ServiceMapHoldsLiveSessions == Spec => []MapHoldsLiveSessions
<1>1. Init => TInv /\ SInv
  BY InitTypes, InitSessions
<1>2. SInv => MapHoldsLiveSessions
  BY DEF SInv
<1> QED BY <1>1, <1>2, ServiceStep, PTL DEF Spec

-----------------------------------------------------------------------------
(* Presence                                                                *)

\* It is enough that whoever answers for a user hands over to somebody, and
\* that nobody is set online without somebody to answer for it.
LEMMA OwnerKept ==
  ASSUME OnlineHasOwner,
         \A u \in Users :
           dbState'[u] = "online" =>
             \/ \E c \in Conns : Answers(c, u)'
             \/ dbState[u] = "online" /\ \A c \in Conns : Answers(c, u) => Answers(c, u)'
  PROVE  OnlineHasOwner'
  BY DEF OnlineHasOwner

\* A connection that does not move goes on answering while its server lives and
\* the map keeps it.
LEMMA AnswersStays ==
  ASSUME NEW c \in Conns, NEW u \in Users, Answers(c, u),
         user'[c] = user[c], pc'[c] = pc[c],
         alive'[ServerOf[c]] = alive[ServerOf[c]],
         Mapped(c, u) = c => Mapped(c, u)' = c
  PROVE  Answers(c, u)'
  BY DEF Answers

\* Who is in the map answers.
LEMMA MappedAnswers ==
  ASSUME SInv, TInv, NEW c \in Conns, NEW u \in Users, Mapped(c, u) # None
  PROVE  Mapped(c, u) \in Conns /\ Answers(Mapped(c, u), u)
<1>1. ServerOf[c] \in Servers
  BY ServiceAssumption
<1> QED BY <1>1, MappedType DEF SInv, TInv, MapHoldsLiveSessions, Mapped, Answers

LEMMA ServerOwners ==
  ASSUME Outcomes = {TRUE}, TInv, SInv, OnlineHasOwner, NEW n \in Servers,
         Start(n) \/ Stop(n) \/ Crash(n) \/ ObserverStep(n) \/ RedisServes(n)
  PROVE  OnlineHasOwner'
<1>1. CASE Start(n) \/ Stop(n)
  <2>1. \A u \in Users : dbState'[u] = "offline"
    BY <1>1 DEF Start, Stop, Table!ResetAllStateToOffline
  <2> QED BY <2>1 DEF OnlineHasOwner
<1>2. CASE Crash(n)
  <2>1. /\ \A m \in Servers : alive'[m] = IF m = n THEN FALSE ELSE alive[m]
        /\ \A m \in Servers, u \in Users :
             connMap'[m][u] = IF m = n THEN None ELSE connMap[m][u]
        /\ \A c \in Conns : IF ServerOf[c] = n /\ status[c] # "none"
                            THEN pc'[c] = "gone"
                            ELSE pc'[c] = pc[c]
        /\ user' = user /\ dbState' = dbState /\ alive[n]
    BY <1>2 DEF Crash, TInv, TypeOK, loginVars, dbVars
  <2>2. ASSUME NEW c \in Conns, NEW u \in Users, Answers(c, u) PROVE Answers(c, u)'
    <3>1. ServerOf[c] \in Servers /\ c # None
      BY ServiceAssumption
    <3>2. CASE ServerOf[c] = n /\ status[c] # "none"
      BY <2>1, <2>2, <3>1, <3>2 DEF Answers
    <3>3. CASE ServerOf[c] # n
      BY <2>1, <2>2, <3>1, <3>3, AnswersStays DEF Mapped
    <3>4. CASE ServerOf[c] = n /\ status[c] = "none"
      <4>1. pc[c] = "fresh"
        BY <3>4 DEF SInv, Admissible
      <4>2. Mapped(c, u) # c
        BY <3>1, <4>1 DEF SInv, MapHoldsLiveSessions, Mapped, MappedSteps, ChatSteps
      <4> QED BY <2>2, <4>1, <4>2 DEF Answers, CloseSteps
    <3> QED BY <3>2, <3>3, <3>4
  <2> QED BY <2>1, <2>2, OwnerKept
<1>3. CASE ObserverStep(n) \/ RedisServes(n)
  <2>1. UNCHANGED <<alive, user, pc, connMap, dbState>>
    BY <1>3 DEF ObserverStep, Observe, Store, RedisServes, Table!InsertRow,
                tcpVars, loginVars, dbVars
  <2>2. \A c \in Conns, u \in Users : Answers(c, u) => Answers(c, u)'
    BY <2>1 DEF Answers, Mapped
  <2> QED BY <2>1, <2>2, OwnerKept
<1> QED BY <1>1, <1>2, <1>3

LEMMA ClientOwners ==
  ASSUME TInv, SInv, OnlineHasOwner, NEW c \in Conns,
         \/ Connect(c) \/ PeerClose(c)
         \/ OneChat(c) \/ GroupChat(c) \/ ChatStep(c)
         \/ \E u \in Users : Login(c, u)
  PROVE  OnlineHasOwner'
<1>1. /\ UNCHANGED <<alive, connMap, dbState>>
      /\ \A d \in Conns : d # c => user'[d] = user[d] /\ pc'[d] = pc[d]
  BY DEF Connect, PeerClose, OneChat, GroupChat, Chat, ChatStep, ChatLookup, ChatForward,
         ChatPublish, NextRecipient, Login, Goto, tcpVars, loginVars, dbVars, TInv, TypeOK
<1>2. CASE Connect(c) \/ PeerClose(c)
  <2>1. UNCHANGED <<user, pc>>
    BY <1>2 DEF Connect, PeerClose, loginVars
  <2>2. \A d \in Conns, u \in Users : Answers(d, u) => Answers(d, u)'
    BY <1>1, <2>1 DEF Answers, Mapped
  <2> QED BY <1>1, <2>2, OwnerKept
<1>3. CASE OneChat(c) \/ GroupChat(c) \/ ChatStep(c)
  <2>1. user' = user /\ pc[c] \in ChatSteps \cup {"ready"}
    BY <1>3 DEF OneChat, GroupChat, Chat, ChatStep, ChatLookup, ChatForward, ChatPublish,
                At, ChatSteps, loginVars
  <2>2. \A d \in Conns, u \in Users : Answers(d, u) => Answers(d, u)'
    BY <1>1, <2>1 DEF Answers, Mapped, ChatSteps, CloseSteps
  <2> QED BY <1>1, <2>2, OwnerKept
<1>4. CASE \E u \in Users : Login(c, u)
  <2>1. pc[c] = "fresh"
    BY <1>4 DEF Login, At
  <2>2. \A u \in Users : ~Answers(c, u)
    BY <2>1, ServiceAssumption
    DEF Answers, SInv, MapHoldsLiveSessions, Mapped, MappedSteps, ChatSteps, CloseSteps
  <2>3. \A d \in Conns, u \in Users : Answers(d, u) => Answers(d, u)'
    BY <1>1, <2>2 DEF Answers, Mapped
  <2> QED BY <1>1, <2>3, OwnerKept
<1> QED BY <1>2, <1>3, <1>4

LEMMA LoginOwners ==
  ASSUME TInv, SInv, OnlineHasOwner, NEW c \in Conns, LoginStep(c)
  PROVE  OnlineHasOwner'
<1> DEFINE u == user[c]
<1>1. /\ UNCHANGED <<alive, user>>
      /\ \A d \in Conns : d # c => pc'[d] = pc[d]
      /\ ServerOf[c] \in Servers /\ c # None
      /\ pc[c] \in LoginSteps /\ u \in Users
  <2>1. UNCHANGED <<alive, user>> /\ pc[c] \in LoginSteps
    BY DEF LoginStep, LoginKick, LoginSetOnline, LoginInsert, LoginSubscribe, LoginQuery,
           LoginPush, LoginRemove, LoginAck, tcpVars, loginVars, At, LoginSteps
  <2>2. \A d \in Conns : d # c => pc'[d] = pc[d]
    BY DEF LoginStep, LoginKick, LoginSetOnline, LoginInsert, LoginSubscribe, LoginQuery,
           LoginPush, LoginRemove, LoginAck, Goto, TInv, TypeOK
  <2> QED BY <2>1, <2>2, ServiceAssumption DEF TInv, HandlerOK, BusySteps
<1>2. CASE LoginKick(c)
  <2>1. pc[c] = "kick" /\ pc'[c] = "setOnline" /\ dbState' = dbState
    BY <1>2 DEF LoginKick, At, Goto, TInv, TypeOK, dbVars
  <2>2. Answers(c, u)'
    BY <1>1, <2>1 DEF Answers
  <2>3. ASSUME NEW d \in Conns, NEW v \in Users, v # u, Answers(d, v)
        PROVE  Answers(d, v)'
    <3>1. ServerOf[d] \in Servers
      BY ServiceAssumption
    <3>2. Mapped(d, v)' = Mapped(d, v)
      <4>1. CASE SetMapped(c, u, None)
        BY <1>1, <2>3, <3>1, <4>1, SetMappedType DEF Mapped, TInv
      <4>2. CASE UNCHANGED connMap
        BY <4>2 DEF Mapped
      <4> QED BY <1>2, <4>1, <4>2 DEF LoginKick
    <3>3. d # c
      BY <2>3 DEF Answers
    <3> QED BY <1>1, <2>3, <3>2, <3>3, AnswersStays
  <2> QED BY <1>1, <2>1, <2>2, <2>3, OwnerKept
<1>3. CASE LoginSetOnline(c)
  <2>1. pc'[c] = "insert" /\ connMap' = connMap
    BY <1>3 DEF LoginSetOnline, Goto, TInv, TypeOK
  <2>2. Answers(c, u)'
    BY <1>1, <2>1 DEF Answers
  <2>3. \A v \in Users : v # u => dbState'[v] = dbState[v]
    BY <1>3 DEF LoginSetOnline, Table!UpdateState, TInv, TypeOK, Table!TypeOK
  <2>4. \A d \in Conns, v \in Users : v # u /\ Answers(d, v) => Answers(d, v)'
    BY <1>1, <2>1 DEF Answers, Mapped
  <2> QED BY <1>1, <2>2, <2>3, <2>4, OwnerKept
<1>4. CASE LoginInsert(c)
  <2>1. pc[c] = "insert" /\ dbState' = dbState
    BY <1>4 DEF LoginInsert, At, dbVars
  <2>2. \E d \in Conns : Answers(d, u)'
    <3>1. CASE Mapped(c, u) = None
      <4>1. connMap'[ServerOf[c]][u] = c
        BY <1>1, <1>4, <3>1, SetMappedType DEF LoginInsert, TInv
      <4> QED BY <1>1, <4>1 DEF Answers, Mapped
    <3>2. CASE Mapped(c, u) # None
      <4>1. connMap' = connMap
        BY <1>4, <3>2 DEF LoginInsert
      <4>2. PICK d \in Conns : d = Mapped(c, u)
        BY <1>1, <3>2, MappedAnswers
      <4>3. user[d] = u /\ Mapped(d, u) = d
        BY <1>1, <3>2, <4>2 DEF SInv, MapHoldsLiveSessions, Mapped
      <4>4. Answers(d, u)'
        BY <1>1, <4>1, <4>3 DEF Answers, Mapped
      <4> QED BY <4>4
    <3> QED BY <3>1, <3>2
  <2>3. ASSUME NEW d \in Conns, NEW v \in Users, v # u, Answers(d, v)
        PROVE  Answers(d, v)'
    <3>1. ServerOf[d] \in Servers
      BY ServiceAssumption
    <3>2. Mapped(d, v)' = Mapped(d, v)
      <4>1. CASE SetMapped(c, u, c)
        BY <1>1, <2>3, <3>1, <4>1, SetMappedType DEF Mapped, TInv
      <4>2. CASE UNCHANGED connMap
        BY <4>2 DEF Mapped
      <4> QED BY <1>4, <4>1, <4>2 DEF LoginInsert
    <3>3. d # c
      BY <2>3 DEF Answers
    <3> QED BY <1>1, <2>3, <3>2, <3>3, AnswersStays
  <2> QED BY <1>1, <2>1, <2>2, <2>3, OwnerKept
<1>5. CASE LoginSubscribe(c) \/ LoginQuery(c) \/ LoginPush(c) \/ LoginRemove(c) \/ LoginAck(c)
  <2>1. /\ UNCHANGED <<connMap, dbState>>
        /\ pc[c] \in {"subscribe", "query", "push", "remove", "ack"}
    BY <1>5 DEF LoginSubscribe, LoginQuery, LoginPush, LoginRemove, LoginAck,
                Table!RemoveRowsFor, At, dbVars
  <2>2. \A d \in Conns, v \in Users : Answers(d, v) => Answers(d, v)'
    BY <1>1, <2>1 DEF Answers, Mapped, CloseSteps
  <2> QED BY <2>1, <2>2, OwnerKept
<1> QED BY <1>2, <1>3, <1>4, <1>5 DEF LoginStep

LEMMA CloseOwners ==
  ASSUME Outcomes = {TRUE}, TInv, SInv, OnlineHasOwner, NEW c \in Conns, CloseStep(c)
  PROVE  OnlineHasOwner'
<1> DEFINE u == user[c]
<1>1. /\ UNCHANGED <<alive, user>>
      /\ \A d \in Conns : d # c => pc'[d] = pc[d]
      /\ ServerOf[c] \in Servers /\ c # None
  <2>1. UNCHANGED <<alive, user>>
    BY DEF CloseStep, CloseErase, CloseCheck, CloseUnsubscribe, CloseSetOffline,
           tcpVars, loginVars
  <2>2. \A d \in Conns : d # c => pc'[d] = pc[d]
    BY DEF CloseStep, CloseErase, CloseCheck, CloseUnsubscribe, CloseSetOffline, Goto,
           TInv, TypeOK
  <2> QED BY <2>1, <2>2, ServiceAssumption
<1>2. CASE CloseErase(c) /\ EntriesOf(c) = {}
  <2>1. /\ UNCHANGED <<connMap, dbState>>
        /\ pc[c] \in {"fresh", "ready", "refused"}
    BY <1>2 DEF CloseErase, At, dbVars
  <2>2. \A v \in Users : ~Answers(c, v)
    BY <1>2, <2>1 DEF Answers, EntriesOf, CloseSteps
  <2>3. \A d \in Conns, v \in Users : Answers(d, v) => Answers(d, v)'
    BY <1>1, <2>1, <2>2 DEF Answers, Mapped
  <2> QED BY <2>1, <2>3, OwnerKept
<1>3. ASSUME CloseErase(c), NEW w \in EntriesOf(c), SetMapped(c, w, None), Goto(c, "check")
      PROVE  OnlineHasOwner'
  <2>1. w \in Users /\ w = u
    BY <1>1 DEF EntriesOf, Mapped, SInv, MapHoldsLiveSessions
  <2>2. /\ pc[c] \in {"fresh", "ready", "refused"} /\ pc'[c] = "check"
        /\ dbState' = dbState
    BY <1>3 DEF CloseErase, At, Goto, dbVars, TInv, TypeOK
  <2>3. Answers(c, u)'
    BY <1>1, <2>2 DEF Answers, CloseSteps
  <2>4. ASSUME NEW d \in Conns, NEW v \in Users, v # u, Answers(d, v)
        PROVE  Answers(d, v)'
    <3>1. ServerOf[d] \in Servers
      BY ServiceAssumption
    <3>2. Mapped(d, v)' = Mapped(d, v)
      BY <1>3, <2>1, <2>4, <3>1, SetMappedType DEF Mapped, TInv
    <3>3. d # c
      BY <2>4 DEF Answers
    <3> QED BY <1>1, <2>4, <3>2, <3>3, AnswersStays
  <2> QED BY <1>1, <2>1, <2>2, <2>3, <2>4, OwnerKept
<1>4. CASE CloseCheck(c)
  <2>1. /\ UNCHANGED <<connMap, dbState>> /\ pc[c] = "check" /\ u \in Users
    BY <1>4 DEF CloseCheck, At, dbVars, TInv, HandlerOK, BusySteps, CloseSteps
  <2>2. \E d \in Conns : Answers(d, u)'
    <3>1. CASE Mapped(c, u) = None
      <4>1. pc'[c] = "unsubscribe"
        BY <1>4, <3>1 DEF CloseCheck, Goto, TInv, TypeOK
      <4> QED BY <1>1, <4>1 DEF Answers, CloseSteps
    <3>2. CASE Mapped(c, u) # None
      <4>1. PICK d \in Conns : d = Mapped(c, u)
        BY <2>1, <3>2, MappedAnswers
      <4>2. user[d] = u /\ Mapped(d, u) = d
        BY <1>1, <2>1, <3>2, <4>1 DEF SInv, MapHoldsLiveSessions, Mapped
      <4>3. Answers(d, u)'
        BY <1>1, <2>1, <4>2 DEF Answers, Mapped
      <4> QED BY <4>3
    <3> QED BY <3>1, <3>2
  <2>3. \A d \in Conns, v \in Users : v # u /\ Answers(d, v) => Answers(d, v)'
    BY <1>1, <2>1 DEF Answers, Mapped
  <2> QED BY <1>1, <2>1, <2>2, <2>3, OwnerKept
<1>5. CASE CloseUnsubscribe(c)
  <2>1. /\ UNCHANGED <<connMap, dbState>> /\ pc'[c] = "setOffline"
    BY <1>5 DEF CloseUnsubscribe, Goto, dbVars, TInv, TypeOK
  <2>2. \A d \in Conns, v \in Users : Answers(d, v) => Answers(d, v)'
    BY <1>1, <2>1 DEF Answers, Mapped, CloseSteps
  <2> QED BY <2>1, <2>2, OwnerKept
<1>6. CASE CloseSetOffline(c)
  <2>1. connMap' = connMap /\ u \in Users
    BY <1>6 DEF CloseSetOffline, At, TInv, HandlerOK, BusySteps, CloseSteps
  <2>2. \A v \in Users : dbState'[v] = IF v = u THEN "offline" ELSE dbState[v]
    BY <1>6 DEF CloseSetOffline, Table!UpdateState, TInv, TypeOK, Table!TypeOK
  <2>3. \A d \in Conns, v \in Users : v # u /\ Answers(d, v) => Answers(d, v)'
    BY <1>1, <2>1 DEF Answers, Mapped
  <2> QED BY <2>2, <2>3, OwnerKept
<1> QED BY <1>2, <1>3, <1>4, <1>5, <1>6 DEF CloseStep, CloseErase

\* When the writes of the state column succeed, nobody stays online in the
\* database without a session, a handler still to settle it, or a dead server
\* whose restart will: closes and logins of one user may interleave in any way.
THEOREM ServiceOnlineHasOwner ==
  ASSUME Outcomes = {TRUE}
  PROVE  Spec => []OnlineHasOwner
<1>1. Init => TInv /\ SInv /\ OnlineHasOwner
  <2>1. Init => OnlineHasOwner
    BY DEF Init, Table!Init, OnlineHasOwner
  <2> QED BY <2>1, InitTypes, InitSessions
<1>2. TInv /\ SInv /\ OnlineHasOwner /\ [Next]_vars => OnlineHasOwner'
  <2> SUFFICES ASSUME TInv, SInv, OnlineHasOwner, [Next]_vars PROVE OnlineHasOwner'
    OBVIOUS
  <2>1. CASE UNCHANGED vars
    BY <2>1 DEF vars, tcpVars, loginVars, dbVars, OnlineHasOwner, Answers, Mapped
  <2>2. CASE \E n \in Servers :
               Start(n) \/ Stop(n) \/ Crash(n) \/ ObserverStep(n) \/ RedisServes(n)
    BY <2>2, ServerOwners
  <2>3. CASE \E c \in Conns :
               \/ Connect(c) \/ PeerClose(c)
               \/ \E u \in Users : Login(c, u)
               \/ OneChat(c) \/ GroupChat(c)
               \/ HandlerStep(c)
    BY <2>3, ClientOwners, LoginOwners, CloseOwners DEF HandlerStep
  <2> QED BY <2>1, <2>2, <2>3 DEF Next
<1> QED BY <1>1, <1>2, ServiceStep, PTL DEF Spec
=============================================================================
