---------------------------- MODULE DisposalProofs ----------------------------
(***************************************************************************)
(* Each server disposes of a message to a user in one way: OneDisposal,    *)
(* for any number of servers, connections, users and messages, whatever is *)
(* lost or fails.                                                          *)
(*                                                                         *)
(* What server n does with message m to user u is named by the row that it *)
(* may come to store: t.node = n, t.msg = m, t.to = u.  The message waits  *)
(* in bus, is in the observer's hand, in the table, or with a client, and  *)
(* moves forward only.  What a sender has not sent yet is nowhere.         *)
(***************************************************************************)
EXTENDS DeliveryProofs

InBus(t) ==
  \E i \in DOMAIN bus[t.node] : bus[t.node][i].to = t.to /\ bus[t.node][i].msg = t.msg

InHand(t) ==
  hand[t.node] # None /\ hand[t.node].to = t.to /\ hand[t.node].msg = t.msg

\* In the table, or read from it by a login that has yet to push it.
InTable(t) == t \in offline \/ \E c \in Conns : t \in unpushed[c]

IsCopy(t, c, i) ==
  /\ i \in DOMAIN inbox[c] /\ user[c] = t.to
  /\ inbox[c][i].msg = t.msg /\ inbox[c][i].node = t.node

Copied(t) == \E c \in Conns : \E i \in DOMAIN inbox[c] : IsCopy(t, c, i)

Around(t) == InBus(t) \/ InHand(t) \/ InTable(t) \/ Copied(t)

\* What is anywhere has left its sender's handler.
AroundPast == \A t \in Table!Rows : Around(t) => Past(sent, pc, job, t.msg, t.to)

BusAlone ==
  \A t \in Table!Rows : InBus(t) => ~InHand(t) /\ ~InTable(t) /\ ~Copied(t)

HandAlone == \A t \in Table!Rows : InHand(t) => ~InTable(t) /\ ~Copied(t)

TableAlone ==
  \A t \in Table!Rows : InTable(t) =>
    \A c \in Conns : \A i \in DOMAIN inbox[c] :
      IsCopy(t, c, i) => inbox[c][i].via = "offline"

CopiedOnce ==
  \A t \in Table!Rows : \A c, d \in Conns :
    \A i \in DOMAIN inbox[c], j \in DOMAIN inbox[d] :
      IsCopy(t, c, i) /\ IsCopy(t, d, j) /\ ~(c = d /\ i = j) =>
        inbox[c][i].via = "offline" /\ inbox[d][j].via = "offline" /\ c # d

\* A message that was forwarded directly is nowhere else in the cluster.
DirectAlone ==
  \A t, v \in Table!Rows : \A c \in Conns : \A i \in DOMAIN inbox[c] :
    v.to = t.to /\ v.msg = t.msg /\ v.node # t.node
    /\ IsCopy(t, c, i) /\ inbox[c][i].via = "direct" => ~Around(v)

Alone == BusAlone /\ HandAlone /\ TableAlone /\ CopiedOnce /\ DirectAlone

Early == {"fresh", "kick", "setOnline", "insert", "subscribe", "query"}

\* A login pushes what it has read, after it has read it, each row once.
PushedOnce ==
  \A c \in Conns : \A i \in DOMAIN inbox[c] : inbox[c][i].via = "offline" =>
    /\ pc[c] \notin Early
    /\ \A r \in unpushed[c] : ~(r.msg = inbox[c][i].msg /\ r.node = inbox[c][i].node)

XInv == AroundPast /\ Alone /\ PushedOnce

-----------------------------------------------------------------------------
LEMMA RowType ==
  ASSUME NEW t \in Table!Rows
  PROVE  t.to \in Users /\ t.msg \in Msgs /\ t.node \in Servers
  BY DEF Table!Rows

LEMMA RowIsItsFields ==
  ASSUME NEW t \in Table!Rows, NEW r \in Table!Rows, t.to = r.to, t.msg = r.msg, t.node = r.node
  PROVE  t = r
  BY DEF Table!Rows

\* What is anywhere was sent.
LEMMA AroundSent ==
  ASSUME TInv, DInv, NEW t \in Table!Rows, Around(t)
  PROVE  t.msg \in 1..Len(sent) /\ sent[t.msg].from \in Conns
<1>1. t.node \in Servers
  BY RowType
<1>2. CASE InBus(t)
  BY <1>1, <1>2, SentFrom DEF InBus
<1>3. CASE InHand(t)
  BY <1>1, <1>3, SentFrom DEF InHand, DInv, RelayAddressed, Addressed
<1>4. CASE InTable(t)
  BY <1>4, SentFrom DEF InTable, DInv, RowsAddressed, Addressed
<1>5. CASE Copied(t)
  BY <1>5, SentFrom DEF Copied, IsCopy
<1> QED BY <1>2, <1>3, <1>4, <1>5 DEF Around

\* What is somewhere after a step was somewhere before it, or has just left
\* the handler of its sender.
LEMMA AroundStep ==
  ASSUME TInv, DInv, OInv, XInv, Next,
         \A t \in Table!Rows : Around(t)' =>
           Around(t) \/ Past(sent', pc', job', t.msg, t.to)
  PROVE  AroundPast'
<1> SUFFICES ASSUME NEW t \in Table!Rows, Around(t)'
             PROVE  Past(sent', pc', job', t.msg, t.to)
  BY DEF AroundPast
<1>1. ASSUME Around(t) PROVE Past(sent', pc', job', t.msg, t.to)
  BY <1>1, AroundSent, PastStays DEF XInv, AroundPast, OInv
<1> QED BY <1>1

\* What a sender is about to send to a user is nowhere.
LEMMA UnsentNowhere ==
  ASSUME TInv, OInv, XInv, NEW s \in Conns, pc[s] = "send",
         NEW t \in Table!Rows, t.to = job[s].to, t.msg = job[s].msg
  PROVE  ~Around(t)
<1>1. sent[job[s].msg].from = s
  BY DEF OInv, JobsLatest, Latest, ChatSteps
<1> QED BY <1>1 DEF XInv, AroundPast, Past, ChatSteps

\* The copies there were are copies still.
LEMMA CopyBack ==
  ASSUME TInv, DInv, Next, NEW t \in Table!Rows, NEW c \in Conns, NEW i \in DOMAIN inbox[c],
         i \in DOMAIN inbox'[c], inbox'[c][i] = inbox[c][i], IsCopy(t, c, i)'
  PROVE  IsCopy(t, c, i)
  BY ReaderStays DEF IsCopy

\* Nothing new is anywhere, and every copy is an old one.
LEMMA AloneShrinks ==
  ASSUME TInv, DInv, Next, Alone,
         \A t \in Table!Rows : /\ InBus(t)' => InBus(t)
                               /\ InHand(t)' => InHand(t)
                               /\ InTable(t)' => InTable(t),
         inbox' = inbox
  PROVE  Alone' /\ \A t \in Table!Rows : Around(t)' => Around(t)
<1>1. \A t \in Table!Rows : \A c \in Conns : \A i \in DOMAIN inbox[c] :
        IsCopy(t, c, i)' => IsCopy(t, c, i)
  BY CopyBack
<1>2. \A t \in Table!Rows : Copied(t)' => Copied(t)
  BY <1>1 DEF Copied
<1>3. \A t \in Table!Rows : Around(t)' => Around(t)
  BY <1>2 DEF Around
<1>4. BusAlone' /\ HandAlone'
  BY <1>2 DEF Alone, BusAlone, HandAlone
<1>5. TableAlone'
  BY <1>1 DEF Alone, TableAlone
<1>6. CopiedOnce'
  BY <1>1 DEF Alone, CopiedOnce
<1>7. DirectAlone'
  BY <1>1, <1>3 DEF Alone, DirectAlone
<1> QED BY <1>3, <1>4, <1>5, <1>6, <1>7 DEF Alone

\* A message is published that was nowhere.
LEMMA AloneGrows ==
  ASSUME TInv, DInv, Next, Alone, NEW u, NEW m,
         \A t \in Table!Rows : t.to = u /\ t.msg = m => ~Around(t),
         \A t \in Table!Rows : /\ InBus(t)' => InBus(t) \/ (t.to = u /\ t.msg = m)
                               /\ InHand(t)' => InHand(t)
                               /\ InTable(t)' => InTable(t),
         inbox' = inbox
  PROVE  Alone' /\ \A t \in Table!Rows : Around(t)' => Around(t) \/ (t.to = u /\ t.msg = m)
<1>1. \A t \in Table!Rows : \A c \in Conns : \A i \in DOMAIN inbox[c] :
        IsCopy(t, c, i)' => IsCopy(t, c, i)
  BY CopyBack
<1>2. \A t \in Table!Rows : Copied(t)' => Copied(t)
  BY <1>1 DEF Copied
<1>3. \A t \in Table!Rows : Around(t)' => Around(t) \/ (t.to = u /\ t.msg = m)
  BY <1>2 DEF Around
<1>4. \A t \in Table!Rows : t.to = u /\ t.msg = m => ~InHand(t) /\ ~InTable(t) /\ ~Copied(t)
  BY DEF Around
<1>5. BusAlone' /\ HandAlone'
  BY <1>2, <1>4 DEF Alone, BusAlone, HandAlone
<1>6. TableAlone'
  BY <1>1 DEF Alone, TableAlone
<1>7. CopiedOnce'
  BY <1>1 DEF Alone, CopiedOnce
<1>8. DirectAlone'
  <2> SUFFICES ASSUME NEW t \in Table!Rows, NEW v \in Table!Rows, NEW c \in Conns,
                      NEW i \in DOMAIN inbox[c], v.to = t.to, v.msg = t.msg, v.node # t.node,
                      IsCopy(t, c, i)', inbox[c][i].via = "direct"
               PROVE  ~Around(v)'
    BY DEF DirectAlone
  <2>1. Around(t) /\ ~Around(v)
    BY <1>1 DEF Alone, DirectAlone, Around, Copied
  <2> QED BY <1>3, <2>1
<1> QED BY <1>3, <1>5, <1>6, <1>7, <1>8 DEF Alone

\* The observer takes w from bus into its hand, or stores it from there.
LEMMA AloneMoves ==
  ASSUME TInv, DInv, Next, Alone, NEW w \in Table!Rows,
         \/ /\ InBus(w) /\ ~InBus(w)'
            /\ \A t \in Table!Rows : /\ InHand(t)' => InHand(t) \/ t = w
                                     /\ InTable(t)' => InTable(t)
         \/ /\ InHand(w) /\ ~InHand(w)'
            /\ \A t \in Table!Rows : /\ InHand(t)' => InHand(t)
                                     /\ InTable(t)' => InTable(t) \/ t = w,
         \A t \in Table!Rows : InBus(t)' => InBus(t),
         inbox' = inbox
  PROVE  Alone' /\ \A t \in Table!Rows : Around(t)' => Around(t)
<1>1. \A t \in Table!Rows : \A c \in Conns : \A i \in DOMAIN inbox[c] :
        IsCopy(t, c, i)' => IsCopy(t, c, i)
  BY CopyBack
<1>2. \A t \in Table!Rows : Copied(t)' => Copied(t)
  BY <1>1 DEF Copied
<1>3. \A t \in Table!Rows : Around(t)' => Around(t)
  BY <1>2 DEF Around
<1>4. BusAlone'
  BY <1>2 DEF Alone, BusAlone
<1>5. HandAlone'
  BY <1>2 DEF Alone, BusAlone, HandAlone
<1>6. ~Copied(w)
  BY DEF Alone, BusAlone, HandAlone
<1>7. TableAlone'
  BY <1>1, <1>6 DEF Alone, TableAlone, Copied
<1>8. CopiedOnce'
  BY <1>1 DEF Alone, CopiedOnce
<1>9. DirectAlone'
  BY <1>1, <1>3 DEF Alone, DirectAlone
<1> QED BY <1>3, <1>4, <1>5, <1>7, <1>8, <1>9 DEF Alone

\* What a client has after a send: what it had, and perhaps the copy sent.
LEMMA CopiesOfDeliver ==
  ASSUME TInv, DInv, Next, NEW d \in Conns, NEW copy \in Copies, Deliver(d, copy),
         NEW c \in Conns, NEW i \in DOMAIN inbox'[c]
  PROVE  \/ /\ i \in DOMAIN inbox[c] /\ inbox'[c][i] = inbox[c][i]
            /\ \A t \in Table!Rows : IsCopy(t, c, i)' => IsCopy(t, c, i)
         \/ c = d /\ i = Len(inbox[d]) + 1 /\ inbox'[c][i] = copy
<1>1. inbox \in [Conns -> Seq(Copies)]
  BY DEF TInv, TypeOK
<1>2. inbox'[c] = inbox[c] \/ (c = d /\ inbox'[c] = Append(inbox[c], copy))
  BY <1>1 DEF Deliver
<1>3. \/ i \in DOMAIN inbox[c] /\ inbox'[c][i] = inbox[c][i]
      \/ c = d /\ i = Len(inbox[d]) + 1 /\ inbox'[c][i] = copy
  <2>1. CASE inbox'[c] = inbox[c]
    BY <2>1
  <2>2. CASE c = d /\ inbox'[c] = Append(inbox[c], copy)
    <3>1. inbox[c] \in Seq(Copies)
      BY <1>1
    <3> QED BY <2>2, <3>1
  <2> QED BY <2>1, <2>2, <1>2
<1> QED BY <1>3, CopyBack

\* A copy of w is sent to d: forwarded directly, w having been nowhere; relayed
\* from bus, in the only one; or pushed from the table, where d did not have it.
LEMMA AloneDelivers ==
  ASSUME TInv, DInv, Next, Alone, NEW d \in Conns, NEW copy \in Copies, Deliver(d, copy),
         NEW w \in Table!Rows, w.to = user'[d], w.msg = copy.msg, w.node = copy.node,
         ~InBus(w)', ~InHand(w)', InTable(w)' => copy.via = "offline",
         \A c \in Conns : \A i \in DOMAIN inbox[c] : IsCopy(w, c, i) =>
           inbox[c][i].via = "offline" /\ copy.via = "offline" /\ c # d,
         IF copy.via = "direct"
         THEN \A v \in Table!Rows : v.to = w.to /\ v.msg = w.msg => ~Around(v)
         ELSE Around(w),
         \A t \in Table!Rows : /\ InBus(t)' => InBus(t)
                               /\ InHand(t)' => InHand(t)
                               /\ InTable(t)' => InTable(t)
  PROVE  Alone' /\ \A t \in Table!Rows : Around(t)' => Around(t) \/ t = w
<1>1. ASSUME NEW t \in Table!Rows, NEW c \in Conns, NEW i \in DOMAIN inbox'[c], IsCopy(t, c, i)'
      PROVE  \/ /\ i \in DOMAIN inbox[c] /\ inbox'[c][i] = inbox[c][i] /\ IsCopy(t, c, i)
             \/ c = d /\ i = Len(inbox[d]) + 1 /\ inbox'[c][i] = copy /\ t = w
  <2>1. CASE c = d /\ i = Len(inbox[d]) + 1 /\ inbox'[c][i] = copy
    <3>1. t.to = w.to /\ t.msg = w.msg /\ t.node = w.node
      BY <1>1, <2>1 DEF IsCopy
    <3> QED BY <2>1, <3>1, RowIsItsFields
  <2> QED BY <1>1, <2>1, CopiesOfDeliver
<1>2. \A t \in Table!Rows : Copied(t)' => Copied(t) \/ t = w
  BY <1>1 DEF Copied
<1>3. \A t \in Table!Rows : Around(t)' => Around(t) \/ t = w
  BY <1>2 DEF Around
<1>4. BusAlone' /\ HandAlone'
  BY <1>2 DEF Alone, BusAlone, HandAlone
<1>5. TableAlone'
  <2> SUFFICES ASSUME NEW t \in Table!Rows, InTable(t)', NEW c \in Conns,
                      NEW i \in DOMAIN inbox'[c], IsCopy(t, c, i)'
               PROVE  inbox'[c][i].via = "offline"
    BY DEF TableAlone
  <2> QED BY <1>1 DEF Alone, TableAlone
<1>6. CopiedOnce'
  <2> SUFFICES ASSUME NEW t \in Table!Rows, NEW c \in Conns, NEW e \in Conns,
                      NEW i \in DOMAIN inbox'[c], NEW j \in DOMAIN inbox'[e],
                      IsCopy(t, c, i)', IsCopy(t, e, j)', ~(c = e /\ i = j)
               PROVE  inbox'[c][i].via = "offline" /\ inbox'[e][j].via = "offline" /\ c # e
    BY DEF CopiedOnce
  <2>1. CASE /\ i \in DOMAIN inbox[c] /\ inbox'[c][i] = inbox[c][i] /\ IsCopy(t, c, i)
             /\ j \in DOMAIN inbox[e] /\ inbox'[e][j] = inbox[e][j] /\ IsCopy(t, e, j)
    BY <2>1 DEF Alone, CopiedOnce
  <2>2. CASE /\ i \in DOMAIN inbox[c] /\ inbox'[c][i] = inbox[c][i] /\ IsCopy(t, c, i)
             /\ e = d /\ inbox'[e][j] = copy /\ t = w
    BY <2>2
  <2>3. CASE /\ c = d /\ inbox'[c][i] = copy /\ t = w
             /\ j \in DOMAIN inbox[e] /\ inbox'[e][j] = inbox[e][j] /\ IsCopy(t, e, j)
    BY <2>3
  <2> QED BY <1>1, <2>1, <2>2, <2>3
<1>7. DirectAlone'
  <2> SUFFICES ASSUME NEW t \in Table!Rows, NEW v \in Table!Rows, NEW c \in Conns,
                      NEW i \in DOMAIN inbox'[c], v.to = t.to, v.msg = t.msg, v.node # t.node,
                      IsCopy(t, c, i)', inbox'[c][i].via = "direct", Around(v)'
               PROVE  FALSE
    BY DEF DirectAlone
  <2>1. CASE i \in DOMAIN inbox[c] /\ inbox'[c][i] = inbox[c][i] /\ IsCopy(t, c, i)
    <3>1. Around(t) /\ ~Around(v)
      BY <2>1 DEF Alone, DirectAlone, Around, Copied
    <3> QED BY <1>3, <3>1
  <2>2. CASE inbox'[c][i] = copy /\ t = w
    BY <1>3, <2>2
  <2> QED BY <1>1, <2>1, <2>2
<1> QED BY <1>3, <1>4, <1>5, <1>6, <1>7 DEF Alone

-----------------------------------------------------------------------------
(* The steps                                                               *)

\* Steps that send nothing and leave bus and hand alone or lose them.
LEMMA DisposalOfQuiet ==
  ASSUME TInv, DInv, OInv, XInv, Next, inbox' = inbox,
         \A n \in Servers : bus'[n] = bus[n] \/ bus'[n] = <<>>,
         \A n \in Servers : hand'[n] = hand[n] \/ hand'[n] = None,
         \A t \in Table!Rows : InTable(t)' => InTable(t)
  PROVE  AroundPast' /\ Alone'
<1>1. ASSUME NEW t \in Table!Rows PROVE InBus(t)' => InBus(t)
  <2>1. t.node \in Servers
    BY RowType
  <2>2. CASE bus'[t.node] = bus[t.node]
    BY <2>2 DEF InBus
  <2>3. CASE bus'[t.node] = <<>>
    BY <2>3 DEF InBus
  <2> QED BY <2>1, <2>2, <2>3
<1>2. ASSUME NEW t \in Table!Rows PROVE InHand(t)' => InHand(t)
  BY RowType DEF InHand
<1> QED BY <1>1, <1>2, AloneShrinks, AroundStep DEF XInv

LEMMA DisposalOfQuery ==
  ASSUME TInv, NEW c \in Conns, LoginQuery(c) \/ LoginRemove(c)
  PROVE  inbox' = inbox /\ \A t \in Table!Rows : InTable(t)' => InTable(t)
<1>1. CASE LoginQuery(c)
  <2>1. unpushed \in [Conns -> SUBSET Table!Rows]
    BY DEF TInv, TypeOK
  <2>2. inbox' = inbox /\ offline' = offline
    BY <1>1 DEF LoginQuery, dbVars
  <2>3. \E found \in SUBSET offline : unpushed' = [unpushed EXCEPT ![c] = found]
    BY <1>1 DEF LoginQuery, Table!RowsFor
  <2> QED BY <2>1, <2>2, <2>3 DEF InTable
<1>2. CASE LoginRemove(c)
  BY <1>2 DEF LoginRemove, Table!RemoveRowsFor, loginVars, InTable
<1> QED BY <1>1, <1>2

LEMMA DisposalOfPush ==
  ASSUME TInv, DInv, OInv, XInv, Next, NEW c \in Conns, LoginPush(c)
  PROVE  AroundPast' /\ Alone'
<1>1. unpushed \in [Conns -> SUBSET Table!Rows]
  BY DEF TInv, TypeOK
<1>2. PICK r \in unpushed[c] :
        /\ Deliver(c, [msg |-> r.msg, via |-> "offline", node |-> r.node])
        /\ unpushed' = [unpushed EXCEPT ![c] = unpushed[c] \ {r}]
  BY DEF LoginPush
<1> DEFINE copy == [msg |-> r.msg, via |-> "offline", node |-> r.node]
<1>3. r \in Table!Rows /\ InTable(r)
  BY <1>1 DEF InTable
<1>4. copy \in Copies /\ copy.via = "offline" /\ copy.msg = r.msg /\ copy.node = r.node
  BY <1>3, RowType DEF Copies
<1>5. UNCHANGED <<user, bus, hand, offline>> /\ user[c] = r.to
  BY <1>2 DEF LoginPush, redisVars, dbVars, DInv, RowsAddressed
<1> HIDE DEF copy
<1>6. Deliver(c, copy)
  BY <1>2 DEF copy
<1>7. \A t \in Table!Rows : /\ InBus(t)' => InBus(t)
                            /\ InHand(t)' => InHand(t)
                            /\ InTable(t)' => InTable(t)
  BY <1>1, <1>2, <1>5 DEF InBus, InHand, InTable
<1>8. ~InBus(r)' /\ ~InHand(r)'
  BY <1>3, <1>7 DEF XInv, Alone, BusAlone, HandAlone
<1>9. ASSUME NEW d \in Conns, NEW i \in DOMAIN inbox[d], IsCopy(r, d, i)
      PROVE  inbox[d][i].via = "offline" /\ d # c
  <2>1. inbox[d][i].via = "offline"
    BY <1>3, <1>9 DEF XInv, Alone, TableAlone
  <2> QED BY <1>9, <2>1 DEF XInv, PushedOnce, IsCopy
<1>10. Alone' /\ \A t \in Table!Rows : Around(t)' => Around(t) \/ t = r
  BY <1>3, <1>4, <1>5, <1>6, <1>7, <1>8, <1>9, AloneDelivers DEF XInv, Around
<1> QED BY <1>3, <1>10, AroundStep DEF Around

LEMMA DisposalOfForward ==
  ASSUME TInv, DInv, OInv, XInv, Next, NEW s \in Conns, ChatForward(s)
  PROVE  AroundPast' /\ Alone'
<1>1. /\ pc[s] = "send" /\ job[s].conn # None /\ NextRecipient(s)
      /\ Deliver(job[s].conn,
                 [msg |-> job[s].msg, via |-> "direct", node |-> ServerOf[s]])
      /\ UNCHANGED <<sent, job, user, bus, hand, offline, unpushed>>
  BY DEF ChatForward, At, loginVars, chatVars, redisVars, dbVars
<1>2. /\ job[s].conn \in Conns /\ job[s].msg \in Msgs /\ job[s].to \in Users
      /\ ServerOf[s] \in Servers /\ user[job[s].conn] = job[s].to
  BY <1>1, ServiceAssumption DEF TInv, TypeOK, HandlerOK, ChatSteps, DInv, JobsAddressed
<1>3. PICK d \in Conns : d = job[s].conn
  BY <1>2
<1>4. PICK copy \in Copies : /\ copy.via = "direct" /\ copy.msg = job[s].msg
                             /\ copy.node = ServerOf[s] /\ Deliver(d, copy)
  <2>1. [msg |-> job[s].msg, via |-> "direct", node |-> ServerOf[s]] \in Copies
    BY <1>2 DEF Copies
  <2> QED BY <1>1, <1>3, <2>1
<1>5. PICK w \in Table!Rows : w.to = job[s].to /\ w.msg = job[s].msg /\ w.node = ServerOf[s]
  <2>1. [to |-> job[s].to, msg |-> job[s].msg, node |-> ServerOf[s]] \in Table!Rows
    BY <1>2 DEF Table!Rows
  <2> QED BY <2>1
<1>6. \A v \in Table!Rows : v.to = w.to /\ v.msg = w.msg => ~Around(v)
  BY <1>1, <1>5, UnsentNowhere
<1>7. \A t \in Table!Rows : /\ InBus(t)' => InBus(t)
                            /\ InHand(t)' => InHand(t)
                            /\ InTable(t)' => InTable(t)
  BY <1>1 DEF InBus, InHand, InTable
<1>8. ~Around(w)
  BY <1>5, <1>6
<1>9. ~InBus(w)' /\ ~InHand(w)' /\ ~InTable(w)' /\ ~Copied(w)
  BY <1>5, <1>7, <1>8 DEF Around
<1>10. user'[d] = w.to
  BY <1>1, <1>2, <1>3, <1>5
<1>11. \A c \in Conns : \A i \in DOMAIN inbox[c] : ~IsCopy(w, c, i)
  BY <1>9 DEF Copied
<1>12. Alone' /\ \A t \in Table!Rows : Around(t)' => Around(t) \/ t = w
  BY <1>4, <1>5, <1>6, <1>7, <1>9, <1>10, <1>11, AloneDelivers DEF XInv
<1>13. Past(sent', pc', job', w.msg, w.to)
  BY <1>1, <1>5, ServedIsPast DEF OInv
<1> QED BY <1>12, <1>13, AroundStep

LEMMA DisposalOfPublish ==
  ASSUME TInv, DInv, OInv, XInv, Next, NEW s \in Conns, ChatPublish(s)
  PROVE  AroundPast' /\ Alone'
<1> DEFINE item == [to |-> job[s].to, msg |-> job[s].msg]
<1>1. /\ pc[s] = "send" /\ NextRecipient(s)
      /\ UNCHANGED <<sent, job, user, inbox, hand, offline, unpushed>>
  BY DEF ChatPublish, At, loginVars, chatVars, dbVars
<1>2. bus \in [Servers -> Seq(Relay)]
  BY DEF TInv, TypeOK, Broker!TypeOK
<1>3. \A n \in Servers : bus'[n] = bus[n] \/ bus'[n] = Append(bus[n], item)
  BY DEF ChatPublish, Broker!Publish, redisVars
<1>4. item.to = job[s].to /\ item.msg = job[s].msg
  OBVIOUS
<1> HIDE DEF item
<1>5. \A t \in Table!Rows : t.to = item.to /\ t.msg = item.msg => ~Around(t)
  BY <1>1, <1>4, UnsentNowhere
<1>6. ASSUME NEW t \in Table!Rows, InBus(t)'
      PROVE  InBus(t) \/ (t.to = item.to /\ t.msg = item.msg)
  <2>1. t.node \in Servers /\ bus[t.node] \in Seq(Relay)
    BY <1>2, RowType
  <2>2. PICK i \in DOMAIN bus'[t.node] :
          bus'[t.node][i].to = t.to /\ bus'[t.node][i].msg = t.msg
    BY <1>6 DEF InBus
  <2>3. (i \in DOMAIN bus[t.node] /\ bus'[t.node][i] = bus[t.node][i]) \/ bus'[t.node][i] = item
    BY <1>3, <2>1, <2>2
  <2> QED BY <2>2, <2>3 DEF InBus
<1>7. \A t \in Table!Rows : (InHand(t)' => InHand(t)) /\ (InTable(t)' => InTable(t))
  BY <1>1 DEF InHand, InTable
<1>8. /\ Alone'
      /\ \A t \in Table!Rows : Around(t)' => Around(t) \/ (t.to = item.to /\ t.msg = item.msg)
  BY <1>1, <1>5, <1>6, <1>7, AloneGrows DEF XInv
<1>9. Past(sent', pc', job', item.msg, item.to)
  BY <1>1, <1>4, ServedIsPast DEF OInv
<1> QED BY <1>8, <1>9, AroundStep


\* What the observer of n takes from bus is the only one of its kind there.
LEMMA BusLosesHead ==
  ASSUME TInv, DInv, OInv, NEW n \in Servers, Broker!Receive(n), NEW w \in Table!Rows,
         w.node = n, w.to = Head(bus[n]).to, w.msg = Head(bus[n]).msg
  PROVE  /\ InBus(w) /\ ~InBus(w)'
         /\ \A t \in Table!Rows : InBus(t)' => InBus(t)
<1>1. bus \in [Servers -> Seq(Relay)]
  BY DEF TInv, TypeOK, Broker!TypeOK
<1>2. bus[n] # <<>> /\ bus' = [bus EXCEPT ![n] = Tail(bus[n])]
  BY DEF Broker!Receive
<1>3. 1 \in DOMAIN bus[n] /\ Head(bus[n]) = bus[n][1]
  BY <1>1, <1>2
<1>4. ASSUME NEW j \in DOMAIN bus'[n]
      PROVE  /\ j + 1 \in DOMAIN bus[n] /\ 1 < j + 1
             /\ bus'[n][j] = bus[n][j + 1]
  <2>1. bus[n] \in Seq(Relay) /\ bus'[n] = Tail(bus[n])
    BY <1>1, <1>2
  <2>2. /\ Tail(bus[n]) \in Seq(Relay) /\ Len(bus[n]) \in Nat
        /\ DOMAIN bus[n] = 1..Len(bus[n]) /\ DOMAIN Tail(bus[n]) = 1..(Len(bus[n]) - 1)
    BY <1>2, <2>1
  <2>3. j \in 1..(Len(bus[n]) - 1)
    BY <1>4, <2>1, <2>2
  <2>4. \A q \in Seq(Relay) : q # <<>> => \A k \in 1..(Len(q) - 1) : Tail(q)[k] = q[k + 1]
    OBVIOUS
  <2>5. bus'[n][j] = bus[n][j + 1]
    BY <1>2, <2>1, <2>3, <2>4
  <2> QED BY <2>2, <2>3, <2>5
<1>5. InBus(w)
  BY <1>3 DEF InBus
<1>6. ~InBus(w)'
  <2> SUFFICES ASSUME NEW j \in DOMAIN bus'[n], bus'[n][j].to = w.to, bus'[n][j].msg = w.msg
               PROVE  FALSE
    BY DEF InBus
  <2>1. j + 1 \in DOMAIN bus[n] /\ 1 < j + 1 /\ bus[n][j + 1].to = bus[n][1].to
        /\ bus[n][j + 1].msg = bus[n][1].msg
    BY <1>3, <1>4
  <2>2. InOrder(sent, bus[n][1].msg, bus[n][1].msg)
    BY <1>3, <2>1 DEF OInv, BusOrdered
  <2>3. bus[n][1].msg \in Nat
    BY <1>3, SentFrom
  <2> QED BY <2>2, <2>3 DEF InOrder
<1>7. ASSUME NEW t \in Table!Rows, InBus(t)' PROVE InBus(t)
  <2>1. t.node \in Servers
    BY RowType
  <2>2. CASE t.node = n
    BY <1>4, <1>7, <2>2 DEF InBus
  <2>3. CASE t.node # n
    BY <1>1, <1>2, <1>7, <2>1, <2>3 DEF InBus
  <2> QED BY <2>2, <2>3
<1> QED BY <1>5, <1>6, <1>7

LEMMA DisposalOfObserve ==
  ASSUME TInv, SInv, DInv, OInv, XInv, Next, NEW n \in Servers, Observe(n)
  PROVE  AroundPast' /\ Alone'
<1>1. Broker!Receive(n) /\ UNCHANGED <<user, offline, unpushed>>
  BY DEF Observe, loginVars, dbVars
<1>2. /\ Head(bus[n]).to \in Users /\ Head(bus[n]).msg \in Msgs
      /\ hand \in [Servers -> Relay \cup {None}]
      /\ connMap \in [Servers -> [Users -> Conns \cup {None}]]
  <2>1. bus[n] \in Seq(Relay) /\ bus[n] # <<>>
    BY <1>1 DEF TInv, TypeOK, Broker!TypeOK, Broker!Receive
  <2>2. Head(bus[n]) \in Relay
    BY <2>1
  <2> QED BY <2>2 DEF Relay, TInv, TypeOK
<1>3. PICK w \in Table!Rows : w.to = Head(bus[n]).to /\ w.msg = Head(bus[n]).msg /\ w.node = n
  <2>1. [to |-> Head(bus[n]).to, msg |-> Head(bus[n]).msg, node |-> n] \in Table!Rows
    BY <1>2 DEF Table!Rows
  <2> QED BY <2>1
<1>4. InBus(w) /\ ~InBus(w)' /\ \A t \in Table!Rows : InBus(t)' => InBus(t)
  BY <1>1, <1>3, BusLosesHead
<1>5. \A t \in Table!Rows : InTable(t)' => InTable(t)
  BY <1>1 DEF InTable
<1>6. ~InHand(w) /\ ~InTable(w) /\ ~Copied(w)
  BY <1>4 DEF XInv, Alone, BusAlone
<1>7. CASE connMap[n][w.to] = None
  <2>1. inbox' = inbox /\ hand' = [hand EXCEPT ![n] = Head(bus[n])]
    BY <1>3, <1>7 DEF Observe
  <2>2. ASSUME NEW t \in Table!Rows, InHand(t)' PROVE InHand(t) \/ t = w
    <3>1. CASE t.node = n
      BY <1>2, <1>3, <2>1, <2>2, <3>1, RowIsItsFields DEF InHand
    <3>2. CASE t.node # n
      BY <1>2, <2>1, <2>2, <3>2 DEF InHand
    <3> QED BY <3>1, <3>2
  <2>3. Alone' /\ \A t \in Table!Rows : Around(t)' => Around(t)
    BY <1>4, <1>5, <2>1, <2>2, AloneMoves DEF XInv
  <2> QED BY <2>3, AroundStep
<1>8. CASE connMap[n][w.to] # None
  <2>1. connMap[n][w.to] \in Conns /\ user[connMap[n][w.to]] = w.to
    BY <1>2, <1>3, <1>8 DEF SInv, MapHoldsLiveSessions
  <2>2. PICK d \in Conns : d = connMap[n][w.to]
    BY <2>1
  <2>3. hand' = hand /\ Deliver(d, [msg |-> w.msg, via |-> "relay", node |-> n])
    BY <1>3, <1>8, <2>2 DEF Observe
  <2>4. PICK copy \in Copies : /\ copy.via = "relay" /\ copy.msg = w.msg
                               /\ copy.node = n /\ Deliver(d, copy)
    <3>1. [msg |-> w.msg, via |-> "relay", node |-> n] \in Copies
      BY RowType DEF Copies
    <3> QED BY <2>3, <3>1
  <2>5. \A t \in Table!Rows : InHand(t)' => InHand(t)
    BY <2>3 DEF InHand
  <2>6. ~InHand(w)' /\ ~InTable(w)' /\ Around(w)
    BY <1>4, <1>5, <1>6, <2>5 DEF Around
  <2>7. user'[d] = w.to
    BY <1>1, <2>1, <2>2
  <2>8. \A c \in Conns : \A i \in DOMAIN inbox[c] : ~IsCopy(w, c, i)
    BY <1>6 DEF Copied
  <2>9. Alone' /\ \A t \in Table!Rows : Around(t)' => Around(t) \/ t = w
    BY <1>3, <1>4, <1>5, <2>4, <2>5, <2>6, <2>7, <2>8, AloneDelivers DEF XInv
  <2> QED BY <2>6, <2>9, AroundStep
<1> QED BY <1>7, <1>8

LEMMA DisposalOfStore ==
  ASSUME TInv, DInv, OInv, XInv, Next, NEW n \in Servers, Store(n)
  PROVE  AroundPast' /\ Alone'
<1>1. /\ hand[n] # None /\ hand' = [hand EXCEPT ![n] = None]
      /\ UNCHANGED <<inbox, bus, unpushed>>
  BY DEF Store, loginVars, redisVars
<1>2. hand \in [Servers -> Relay \cup {None}] /\ hand[n].to \in Users /\ hand[n].msg \in Msgs
  BY <1>1 DEF TInv, TypeOK, Relay
<1>3. PICK w \in Table!Rows : w = [to |-> hand[n].to, msg |-> hand[n].msg, node |-> n]
  BY <1>2 DEF Table!Rows
<1>4. InHand(w) /\ ~InHand(w)'
  BY <1>1, <1>2, <1>3 DEF InHand
<1>5. offline' \subseteq offline \cup {w}
  BY <1>3 DEF Store, Table!InsertRow
<1>6. \A t \in Table!Rows : /\ InHand(t)' => InHand(t)
                            /\ InTable(t)' => InTable(t) \/ t = w
                            /\ InBus(t)' => InBus(t)
  BY <1>1, <1>2, <1>5 DEF InHand, InTable, InBus
<1>7. Alone' /\ \A t \in Table!Rows : Around(t)' => Around(t)
  BY <1>1, <1>4, <1>6, AloneMoves DEF XInv
<1> QED BY <1>7, AroundStep

-----------------------------------------------------------------------------
(* What the logins push                                                    *)

LEMMA EarlyStays ==
  ASSUME TInv, Next, NEW d \in Conns, pc'[d] \in Early
  PROVE  pc[d] \in Early
<1> USE DEF Early
<1>0. pc \in [Conns -> Steps]
  BY DEF TInv, TypeOK
<1>1. ASSUME NEW n \in Servers, Start(n) \/ Stop(n) \/ ObserverStep(n) \/ RedisServes(n)
      PROVE  pc' = pc
  BY <1>1 DEF Start, Stop, ObserverStep, Observe, Store, RedisServes
<1>2. ASSUME NEW n \in Servers, Crash(n)
      PROVE  pc[d] \in Early
  BY <1>0, <1>2 DEF Crash
<1>3. ASSUME NEW c \in Conns, Connect(c) \/ PeerClose(c)
      PROVE  pc' = pc
  BY <1>3 DEF Connect, PeerClose
<1>4. ASSUME NEW c \in Conns, pc[c] \in Early, \E step \in Steps : Goto(c, step)
      PROVE  pc[d] \in Early
  BY <1>0, <1>4 DEF Goto
<1>5. ASSUME NEW c \in Conns, \E step \in Steps \ Early : Goto(c, step)
      PROVE  pc[d] \in Early
  BY <1>0, <1>5 DEF Goto
<1>6. ASSUME NEW c \in Conns,
             \/ LoginKick(c) \/ LoginSetOnline(c) \/ LoginInsert(c) \/ LoginSubscribe(c)
             \/ \E u \in Users : Login(c, u)
      PROVE  pc[c] \in Early /\ \E step \in Steps : Goto(c, step)
  BY <1>6 DEF LoginKick, LoginSetOnline, LoginInsert, LoginSubscribe, Login, At,
              Steps, LoginSteps
<1>7. ASSUME NEW c \in Conns, LoginQuery(c) \/ LoginPush(c) \/ LoginRemove(c) \/ LoginAck(c)
      PROVE  \E step \in Steps \ Early : Goto(c, step)
  BY <1>7 DEF LoginQuery, LoginPush, LoginRemove, LoginAck, Steps, LoginSteps
<1>8. ASSUME NEW c \in Conns, CloseStep(c)
      PROVE  \E step \in Steps \ Early : Goto(c, step)
  BY <1>8, CloseEffect DEF Steps, CloseSteps
<1>9. ASSUME NEW c \in Conns, ChatStep(c) \/ OneChat(c) \/ GroupChat(c)
      PROVE  \E step \in Steps \ Early : Goto(c, step)
  BY <1>9 DEF ChatStep, ChatLookup, ChatForward, ChatPublish, NextRecipient,
              OneChat, GroupChat, Chat, Steps, ChatSteps
<1> QED BY <1>1, <1>2, <1>3, <1>4, <1>5, <1>6, <1>7, <1>8, <1>9
        DEF Next, HandlerStep, LoginStep

\* Nothing is pushed, and a login only gets rows before it pushes any.
LEMMA PushedKeep ==
  ASSUME TInv, Next, PushedOnce,
         \A c \in Conns : unpushed'[c] \subseteq unpushed[c] \/ pc[c] \in Early,
         \A c \in Conns : \A i \in DOMAIN inbox'[c] : inbox'[c][i].via = "offline" =>
           i \in DOMAIN inbox[c] /\ inbox'[c][i] = inbox[c][i]
  PROVE  PushedOnce'
<1> SUFFICES ASSUME NEW c \in Conns, NEW i \in DOMAIN inbox'[c], inbox'[c][i].via = "offline"
             PROVE  /\ pc'[c] \notin Early
                    /\ \A r \in unpushed'[c] :
                         ~(r.msg = inbox'[c][i].msg /\ r.node = inbox'[c][i].node)
  BY DEF PushedOnce
<1>1. i \in DOMAIN inbox[c] /\ inbox'[c][i] = inbox[c][i]
  OBVIOUS
<1>2. pc[c] \notin Early
  BY <1>1 DEF PushedOnce
<1>3. pc'[c] \notin Early
  BY <1>2, EarlyStays
<1>4. unpushed'[c] \subseteq unpushed[c]
  BY <1>2
<1> QED BY <1>1, <1>3, <1>4 DEF PushedOnce

\* A copy that was not pushed.
LEMMA PushedAside ==
  ASSUME TInv, DInv, Next, PushedOnce, unpushed' = unpushed,
         NEW d \in Conns, NEW copy \in Copies, Deliver(d, copy), copy.via # "offline"
  PROVE  PushedOnce'
<1>1. ASSUME NEW c \in Conns, NEW i \in DOMAIN inbox'[c], inbox'[c][i].via = "offline"
      PROVE  i \in DOMAIN inbox[c] /\ inbox'[c][i] = inbox[c][i]
  <2>1. inbox'[c][i] # copy
    BY <1>1
  <2> QED BY <2>1, CopiesOfDeliver
<1> QED BY <1>1, PushedKeep

\* The row that is pushed leaves unpushed, and no other row there is the same
\* message from the same server.
LEMMA PushedOfPush ==
  ASSUME TInv, DInv, Next, PushedOnce, NEW d \in Conns, LoginPush(d)
  PROVE  PushedOnce'
<1>1. /\ unpushed \in [Conns -> SUBSET Table!Rows] /\ inbox \in [Conns -> Seq(Copies)]
      /\ pc[d] = "push"
  BY DEF TInv, TypeOK, LoginPush, At
<1>2. PICK r \in unpushed[d] :
        /\ Deliver(d, [msg |-> r.msg, via |-> "offline", node |-> r.node])
        /\ unpushed' = [unpushed EXCEPT ![d] = unpushed[d] \ {r}]
  BY DEF LoginPush
<1>3. PICK copy \in Copies : /\ copy = [msg |-> r.msg, via |-> "offline", node |-> r.node]
                             /\ Deliver(d, copy)
  <2>1. r \in Table!Rows
    BY <1>1
  <2>2. [msg |-> r.msg, via |-> "offline", node |-> r.node] \in Copies
    BY <2>1, RowType DEF Copies
  <2> QED BY <1>2, <2>2
<1> SUFFICES ASSUME NEW c \in Conns, NEW i \in DOMAIN inbox'[c], inbox'[c][i].via = "offline"
             PROVE  /\ pc'[c] \notin Early
                    /\ \A t \in unpushed'[c] :
                         ~(t.msg = inbox'[c][i].msg /\ t.node = inbox'[c][i].node)
  BY DEF PushedOnce
<1>4. \/ i \in DOMAIN inbox[c] /\ inbox'[c][i] = inbox[c][i]
      \/ c = d /\ inbox'[c][i] = copy
  BY <1>3, CopiesOfDeliver
<1>5. unpushed'[c] \subseteq unpushed[c]
  BY <1>1, <1>2
<1>6. CASE i \in DOMAIN inbox[c] /\ inbox'[c][i] = inbox[c][i]
  <2>1. /\ pc[c] \notin Early
        /\ \A t \in unpushed[c] : ~(t.msg = inbox'[c][i].msg /\ t.node = inbox'[c][i].node)
    BY <1>6 DEF PushedOnce
  <2> QED BY <1>5, <2>1, EarlyStays
<1>7. CASE c = d /\ inbox'[c][i] = copy
  <2>1. pc'[d] \notin Early
    BY <1>1, EarlyStays DEF Early
  <2>2. ASSUME NEW t \in unpushed'[d], t.msg = r.msg, t.node = r.node PROVE FALSE
    <3>1. t \in unpushed[d] /\ t # r /\ t \in Table!Rows /\ r \in Table!Rows
      BY <1>1, <1>2, <2>2
    <3>2. t.to = user[d] /\ r.to = user[d]
      BY <3>1 DEF DInv, RowsAddressed
    <3> QED BY <2>2, <3>1, <3>2, RowIsItsFields
  <2> QED BY <1>3, <1>7, <2>1, <2>2
<1> QED BY <1>4, <1>6, <1>7

-----------------------------------------------------------------------------
LEMMA PushedStep ==
  ASSUME TInv, DInv, Next, PushedOnce
  PROVE  PushedOnce'
<1> USE DEF loginVars
<1>1. ASSUME UNCHANGED <<inbox, unpushed>> PROVE PushedOnce'
  BY <1>1, PushedKeep
<1>2. ASSUME NEW n \in Servers, Start(n) \/ Stop(n) \/ Crash(n) \/ Store(n) \/ RedisServes(n)
      PROVE  UNCHANGED <<inbox, unpushed>>
  BY <1>2 DEF Start, Stop, Crash, Store, RedisServes
<1>3. ASSUME NEW n \in Servers, Observe(n) PROVE PushedOnce'
  <2>1. unpushed' = unpushed
    BY <1>3 DEF Observe
  <2>2. CASE inbox' = inbox
    BY <1>1, <2>1, <2>2
  <2>3. CASE inbox' # inbox
    <3>1. connMap[n][Head(bus[n]).to] # None /\ Head(bus[n]).msg \in Msgs
          /\ Head(bus[n]).to \in Users
      <4>1. bus[n] \in Seq(Relay) /\ bus[n] # <<>>
        BY <1>3 DEF TInv, TypeOK, Broker!TypeOK, Observe, Broker!Receive
      <4>2. Head(bus[n]) \in Relay
        BY <4>1
      <4> QED BY <1>3, <2>3, <4>2 DEF Observe, Relay
    <3>2. PICK d \in Conns : d = connMap[n][Head(bus[n]).to]
      BY <3>1 DEF TInv, TypeOK
    <3>3. PICK copy \in Copies :
            copy = [msg |-> Head(bus[n]).msg, via |-> "relay", node |-> n]
      BY <3>1 DEF Copies
    <3>4. Deliver(d, copy) /\ copy.via # "offline"
      BY <1>3, <3>1, <3>2, <3>3 DEF Observe
    <3> QED BY <2>1, <3>4, PushedAside
  <2> QED BY <2>2, <2>3
<1>4. ASSUME NEW s \in Conns, ChatForward(s) PROVE PushedOnce'
  <2>1. /\ unpushed' = unpushed /\ job[s].conn # None /\ pc[s] = "send"
        /\ Deliver(job[s].conn,
                   [msg |-> job[s].msg, via |-> "direct", node |-> ServerOf[s]])
    BY <1>4 DEF ChatForward, At
  <2>2. job[s].conn \in Conns /\ job[s].msg \in Msgs /\ ServerOf[s] \in Servers
    BY <2>1, ServiceAssumption DEF TInv, TypeOK, HandlerOK, ChatSteps
  <2>3. PICK d \in Conns : d = job[s].conn
    BY <2>2
  <2>4. PICK copy \in Copies :
          copy = [msg |-> job[s].msg, via |-> "direct", node |-> ServerOf[s]]
    BY <2>2 DEF Copies
  <2> QED BY <2>1, <2>3, <2>4, PushedAside
<1>5. ASSUME NEW c \in Conns,
             \/ Connect(c) \/ PeerClose(c) \/ OneChat(c) \/ GroupChat(c)
             \/ ChatLookup(c) \/ ChatPublish(c) \/ CloseStep(c)
             \/ \E u \in Users : Login(c, u)
      PROVE  UNCHANGED <<inbox, unpushed>>
  BY <1>5, CloseEffect
     DEF Connect, PeerClose, OneChat, GroupChat, Chat, ChatLookup, ChatPublish, Login
<1>6. ASSUME NEW c \in Conns, LoginStep(c), ~LoginPush(c), ~LoginQuery(c)
      PROVE  UNCHANGED <<inbox, unpushed>>
  BY <1>6 DEF LoginStep, LoginKick, LoginSetOnline, LoginInsert, LoginSubscribe,
              LoginRemove, LoginAck
<1>7. ASSUME NEW c \in Conns, LoginQuery(c) PROVE PushedOnce'
  <2>1. inbox' = inbox /\ pc[c] \in Early
        /\ \E found : unpushed' = [unpushed EXCEPT ![c] = found]
    BY <1>7 DEF LoginQuery, At, Early
  <2>2. \A d \in Conns : unpushed'[d] \subseteq unpushed[d] \/ pc[d] \in Early
    BY <2>1 DEF TInv, TypeOK
  <2> QED BY <2>1, <2>2, PushedKeep
<1> QED BY <1>1, <1>2, <1>3, <1>4, <1>5, <1>6, <1>7, PushedOfPush
        DEF Next, HandlerStep, ObserverStep, ChatStep

LEMMA AloneStep ==
  ASSUME TInv, SInv, DInv, OInv, XInv, Next
  PROVE  AroundPast' /\ Alone'
<1> USE DEF redisVars, dbVars, loginVars
<1>1. ASSUME inbox' = inbox,
             \A n \in Servers : bus'[n] = bus[n] \/ bus'[n] = <<>>,
             \A n \in Servers : hand'[n] = hand[n] \/ hand'[n] = None,
             \A t \in Table!Rows : InTable(t)' => InTable(t)
      PROVE  AroundPast' /\ Alone'
  BY <1>1, DisposalOfQuiet
<1>2. ASSUME UNCHANGED <<inbox, bus, hand, offline, unpushed>>
      PROVE  AroundPast' /\ Alone'
  BY <1>1, <1>2 DEF InTable
<1>3. ASSUME NEW n \in Servers, Start(n) \/ Stop(n) \/ RedisServes(n)
      PROVE  UNCHANGED <<inbox, bus, hand, offline, unpushed>>
  BY <1>3 DEF Start, Stop, RedisServes, Broker!Serve, Table!ResetAllStateToOffline
<1>4. ASSUME NEW n \in Servers, Crash(n)
      PROVE  AroundPast' /\ Alone'
  <2>1. bus \in [Servers -> Seq(Relay)] /\ hand \in [Servers -> Relay \cup {None}]
    BY DEF TInv, TypeOK, Broker!TypeOK
  <2>2. /\ UNCHANGED <<inbox, offline, unpushed>>
        /\ bus' = [bus EXCEPT ![n] = <<>>] /\ hand' = [hand EXCEPT ![n] = None]
    BY <1>4 DEF Crash, Broker!Disconnect
  <2>3. \A p \in Servers : /\ bus'[p] = bus[p] \/ bus'[p] = <<>>
                           /\ hand'[p] = hand[p] \/ hand'[p] = None
    BY <2>1, <2>2
  <2>4. \A t \in Table!Rows : InTable(t)' => InTable(t)
    BY <2>2 DEF InTable
  <2> QED BY <1>1, <2>2, <2>3, <2>4
<1>5. ASSUME NEW c \in Conns,
             \/ Connect(c) \/ PeerClose(c) \/ OneChat(c) \/ GroupChat(c)
             \/ ChatLookup(c) \/ CloseStep(c) \/ \E u \in Users : Login(c, u)
      PROVE  UNCHANGED <<inbox, bus, hand, offline, unpushed>>
  BY <1>5, CloseEffect
     DEF Connect, PeerClose, OneChat, GroupChat, Chat, ChatLookup, Login
<1>6. ASSUME NEW c \in Conns,
             \/ LoginKick(c) \/ LoginSetOnline(c) \/ LoginInsert(c)
             \/ LoginSubscribe(c) \/ LoginAck(c)
      PROVE  UNCHANGED <<inbox, bus, hand, offline, unpushed>>
  BY <1>6 DEF LoginKick, LoginSetOnline, LoginInsert, LoginSubscribe, LoginAck,
              Table!UpdateState, Broker!Subscribe
<1>7. ASSUME NEW c \in Conns, LoginQuery(c) \/ LoginRemove(c)
      PROVE  AroundPast' /\ Alone'
  <2>1. bus' = bus /\ hand' = hand
    BY <1>7 DEF LoginQuery, LoginRemove
  <2> QED BY <1>1, <1>7, <2>1, DisposalOfQuery
<1> QED BY <1>2, <1>3, <1>4, <1>5, <1>6, <1>7, DisposalOfObserve, DisposalOfStore,
           DisposalOfForward, DisposalOfPublish, DisposalOfPush
        DEF Next, HandlerStep, ObserverStep, LoginStep, ChatStep

LEMMA DisposalStep == TInv /\ SInv /\ DInv /\ OInv /\ XInv /\ [Next]_vars => XInv'
<1> SUFFICES ASSUME TInv, SInv, DInv, OInv, XInv, [Next]_vars PROVE XInv'
  OBVIOUS
<1>1. CASE UNCHANGED vars
  <2>1. UNCHANGED <<sent, pc, job, user, inbox, bus, hand, offline, unpushed>>
    BY <1>1 DEF vars, loginVars, chatVars, redisVars, dbVars
  <2>2. \A t \in Table!Rows : Around(t)' = Around(t)
    BY <2>1 DEF Around, InBus, InHand, InTable, Copied, IsCopy
  <2>3. AroundPast'
    BY <2>1, <2>2 DEF XInv, AroundPast
  <2>4. BusAlone' /\ HandAlone' /\ TableAlone'
    BY <2>1 DEF XInv, Alone, BusAlone, HandAlone, TableAlone, InBus, InHand, InTable,
                Copied, IsCopy
  <2>5. CopiedOnce'
    BY <2>1 DEF XInv, Alone, CopiedOnce, IsCopy
  <2>6. DirectAlone'
    BY <2>1, <2>2 DEF XInv, Alone, DirectAlone, IsCopy
  <2>7. PushedOnce'
    BY <2>1 DEF XInv, PushedOnce
  <2> QED BY <2>3, <2>4, <2>5, <2>6, <2>7 DEF XInv, Alone
<1>2. CASE Next
  BY <1>2, AloneStep, PushedStep DEF XInv
<1> QED BY <1>1, <1>2

LEMMA InitDisposal == Init => XInv
<1> SUFFICES ASSUME Init PROVE XInv
  OBVIOUS
<1>1. /\ \A n \in Servers : bus[n] = <<>> /\ hand[n] = None
      /\ offline = {} /\ \A c \in Conns : unpushed[c] = {} /\ inbox[c] = <<>>
  BY DEF Init, Broker!Init, Table!Init
<1>2. \A t \in Table!Rows : ~InBus(t) /\ ~InHand(t) /\ ~InTable(t) /\ ~Copied(t)
  BY <1>1, RowType DEF InBus, InHand, InTable, Copied
<1>3. AroundPast /\ BusAlone /\ HandAlone /\ TableAlone
  BY <1>2 DEF Around, AroundPast, BusAlone, HandAlone, TableAlone
<1>4. CopiedOnce /\ DirectAlone /\ PushedOnce
  BY <1>1 DEF CopiedOnce, DirectAlone, PushedOnce
<1> QED BY <1>3, <1>4 DEF XInv, Alone

\* What the invariant says of the copies that OneDisposal is about.
LEMMA CopyRow ==
  ASSUME TInv, NEW n \in Servers, NEW u \in Users, NEW m \in 1..LastMsg,
         NEW t \in Table!Rows, t = [to |-> u, msg |-> m, node |-> n],
         NEW x \in CopiesAt(n, u, m)
  PROVE  /\ x[1] \in Conns /\ x[2] \in DOMAIN inbox[x[1]] /\ x = <<x[1], x[2]>>
         /\ IsCopy(t, x[1], x[2]) /\ Copied(t)
         /\ Via(x) = inbox[x[1]][x[2]].via
<1>1. PICK c \in Conns : x \in {c} \X DOMAIN inbox[c]
  BY DEF CopiesAt, Delivered
<1>2. x[1] = c /\ x[2] \in DOMAIN inbox[c] /\ x = <<x[1], x[2]>>
  BY <1>1
<1>3. IsCopy(t, x[1], x[2])
  BY <1>1, <1>2 DEF CopiesAt, CopyOf, IsCopy
<1> QED BY <1>1, <1>2, <1>3 DEF Copied, Via, CopyOf

LEMMA DisposalMeans ==
  ASSUME TInv, XInv
  PROVE  OneDisposal
<1> SUFFICES ASSUME NEW u \in Users, NEW m \in 1..LastMsg
             PROVE  /\ \A n \in Servers : \A x, y \in CopiesAt(n, u, m) :
                         x # y => /\ Via(x) = "offline" /\ Via(y) = "offline"
                                  /\ x[1] # y[1]
                    /\ \A n \in Servers :
                         [to |-> u, msg |-> m, node |-> n] \in offline =>
                           \A x \in CopiesAt(n, u, m) : Via(x) = "offline"
                    /\ \A n, p \in Servers :
                         (\E x \in CopiesAt(n, u, m) : Via(x) = "direct") /\ n # p
                           => CopiesAt(p, u, m) = {}
  BY DEF OneDisposal
<1>1. m \in Msgs
  <2>1. Len(sent) \in Nat /\ Len(sent) <= MaxMsgs
    BY DEF TInv, TypeOK
  <2> QED BY <2>1, ServiceAssumption DEF LastMsg, Msgs
<1>2. \A n \in Servers : [to |-> u, msg |-> m, node |-> n] \in Table!Rows
  BY <1>1 DEF Table!Rows
<1>3. ASSUME NEW n \in Servers, NEW x \in CopiesAt(n, u, m), NEW y \in CopiesAt(n, u, m), x # y
      PROVE  Via(x) = "offline" /\ Via(y) = "offline" /\ x[1] # y[1]
  <2>1. PICK t \in Table!Rows : t = [to |-> u, msg |-> m, node |-> n]
    BY <1>2
  <2>2. /\ x[1] \in Conns /\ x[2] \in DOMAIN inbox[x[1]] /\ IsCopy(t, x[1], x[2])
        /\ x = <<x[1], x[2]>> /\ Via(x) = inbox[x[1]][x[2]].via
    BY <2>1, CopyRow
  <2>3. /\ y[1] \in Conns /\ y[2] \in DOMAIN inbox[y[1]] /\ IsCopy(t, y[1], y[2])
        /\ y = <<y[1], y[2]>> /\ Via(y) = inbox[y[1]][y[2]].via
    BY <2>1, CopyRow
  <2>4. ~(x[1] = y[1] /\ x[2] = y[2])
    BY <1>3, <2>2, <2>3
  <2> QED BY <2>2, <2>3, <2>4 DEF XInv, Alone, CopiedOnce
<1>4. ASSUME NEW n \in Servers, [to |-> u, msg |-> m, node |-> n] \in offline,
             NEW x \in CopiesAt(n, u, m)
      PROVE  Via(x) = "offline"
  <2>1. PICK t \in Table!Rows : t = [to |-> u, msg |-> m, node |-> n]
    BY <1>2
  <2>2. InTable(t)
    BY <1>4, <2>1 DEF InTable
  <2> QED BY <2>1, <2>2, CopyRow DEF XInv, Alone, TableAlone
<1>5. ASSUME NEW n \in Servers, NEW p \in Servers, NEW x \in CopiesAt(n, u, m),
             Via(x) = "direct", n # p, NEW y \in CopiesAt(p, u, m)
      PROVE  FALSE
  <2>1. PICK t \in Table!Rows : t = [to |-> u, msg |-> m, node |-> n]
    BY <1>2
  <2>2. PICK v \in Table!Rows : v = [to |-> u, msg |-> m, node |-> p]
    BY <1>2
  <2>3. /\ x[1] \in Conns /\ x[2] \in DOMAIN inbox[x[1]] /\ IsCopy(t, x[1], x[2])
        /\ inbox[x[1]][x[2]].via = "direct"
    BY <1>5, <2>1, CopyRow
  <2>4. Around(v)
    BY <2>2, CopyRow DEF Around
  <2>5. v.to = t.to /\ v.msg = t.msg /\ v.node # t.node
    BY <1>5, <2>1, <2>2
  <2> QED BY <2>3, <2>4, <2>5 DEF XInv, Alone, DirectAlone
<1> QED BY <1>3, <1>4, <1>5

\* A server gives a message for a user to one session, or stores it, and never
\* both, and what it forwarded directly no other server handles: through
\* handlers and observers that look up the same map, takeovers, crashes,
\* failing writes and rows that a failing DELETE leaves to a later login.
THEOREM ServiceOneDisposal == Spec => []OneDisposal
<1>1. Init => TInv /\ SInv /\ DInv /\ OInv /\ XInv
  BY InitTypes, InitSessions, InitAddressed, InitOrder, InitDisposal
<1>2. TInv /\ SInv /\ DInv /\ OInv /\ XInv /\ [Next]_vars
        => (TInv /\ SInv /\ DInv /\ OInv /\ XInv)'
  BY ServiceStep, DeliveryStep, OrderStep, DisposalStep
<1>3. TInv /\ XInv => OneDisposal
  BY DisposalMeans
<1> QED BY <1>1, <1>2, <1>3, PTL DEF Spec
=============================================================================
