-------------------------- MODULE RedisClientProofs --------------------------
(***************************************************************************)
(* What holds of the Redis client of a server for any number of IO threads *)
(* and channels, whatever outages, races and stops: its types, that it     *)
(* implements the Redis that the message service is modelled with, and     *)
(* that whoever wants a channel is subscribed to it when things are quiet. *)
(***************************************************************************)
EXTENDS RedisClient, TLAPS

CtxOK  == ctx \in {"open", "freed", "null"} /\ link \in BOOLEAN /\ obuf \in Seq(Commands)
ListOK == channels \in Seq(Channels) /\ left \in Seq(Channels)
CallOK ==
  /\ pc \in [Callers -> {"idle", "record", "append", "write"}]
  /\ job \in [Callers -> Commands \cup {NoJob}]
  /\ \A t \in Callers : pc[t] = "idle" <=> job[t] = NoJob
ObsOK ==
  /\ obs \in {"flush", "read", "null", "connect", "lock", "append", "write", "quit"}
  /\ obs = "append" => left # <<>>
  /\ ctx # "open" => obs \in {"null", "connect"} \/ stopping
EndOK ==
  /\ stage \in {"running", "stopping", "freed", "destroyed"}
  /\ dead \in BOOLEAN /\ raced \in BOOLEAN
EnvOK ==
  /\ wanted \in [Channels -> BOOLEAN]
  /\ redisUp \in BOOLEAN /\ pubUp \in BOOLEAN
  /\ calls \in 0..MaxCalls /\ outages \in 0..MaxOutages /\ posts \in 0..MaxPosts

\* A connection that fell takes with it what Redis had not seen, and the
\* observer replaces no other.
LinkOK ==
  /\ obs \in {"null", "connect"} => ~link
  /\ ~link => pipe[Node] = <<>>

IInv == /\ CtxOK /\ ListOK /\ CallOK /\ ObsOK /\ EndOK /\ EnvOK
        /\ Broker!TypeOK /\ LinkOK

-----------------------------------------------------------------------------
(* hiredis                                                                 *)

LEMMA AppendEffect ==
  ASSUME IInv, NEW cmd \in Commands, NEW racing \in BOOLEAN, AppendCommand(cmd, racing)
  PROVE  /\ UNCHANGED <<ctx, link, pipe>> /\ CtxOK'
         /\ obuf' = obuf \/ obuf' = Append(obuf, cmd)
         /\ dead' \in BOOLEAN /\ raced' \in BOOLEAN
<1>1. Append(obuf, cmd) \in Seq(Commands)
  BY DEF IInv, CtxOK
<1> QED BY <1>1 DEF AppendCommand, Die, IInv, CtxOK, EndOK, ctxVars

LEMMA WriteEffect ==
  ASSUME IInv, NEW racing \in BOOLEAN, WriteBuffer(racing)
  PROVE  /\ UNCHANGED <<ctx, link>> /\ CtxOK'
         /\ \/ pipe' = pipe /\ (obuf' = obuf \/ obuf' = <<>>)
            \/ link /\ obuf' = <<>> /\ pipe' = [pipe EXCEPT ![Node] = pipe[Node] \o obuf]
         /\ dead' \in BOOLEAN /\ raced' \in BOOLEAN
<1>1. <<>> \in Seq(Commands)
  OBVIOUS
<1> QED BY <1>1 DEF WriteBuffer, Die, IInv, CtxOK, EndOK, ctxVars

LEMMA WritePipe ==
  ASSUME IInv, NEW racing \in BOOLEAN, WriteBuffer(racing), UNCHANGED <<subs, bus>>
  PROVE  Broker!TypeOK' /\ (link' \/ pipe'[Node] = pipe[Node])
<1>1. pipe \in [{Node} -> Seq(Commands)] /\ obuf \in Seq(Commands)
  BY DEF IInv, CtxOK, Broker!TypeOK, Commands
<1>2. pipe[Node] \o obuf \in Seq(Commands)
  BY <1>1
<1>3. /\ UNCHANGED link
      /\ \/ pipe' = pipe
         \/ link /\ pipe' = [pipe EXCEPT ![Node] = pipe[Node] \o obuf]
  BY WriteEffect
<1>4. pipe' \in [{Node} -> Seq(Commands)]
  BY <1>1, <1>2, <1>3
<1> QED BY <1>3, <1>4 DEF IInv, Broker!TypeOK, Commands

LEMMA InitClient == Init => IInv
<1> SUFFICES ASSUME Init PROVE IInv
  OBVIOUS
<1>1. CtxOK /\ ListOK /\ ObsOK
  BY DEF Init, CtxOK, ListOK, ObsOK
<1>2. CallOK
  BY DEF Init, CallOK
<1>3. EndOK /\ EnvOK
  <2>1. 0 \in 0..MaxCalls /\ 0 \in 0..MaxOutages /\ 0 \in 0..MaxPosts
    BY ClientAssumption
  <2> QED BY <2>1 DEF Init, EndOK, EnvOK
<1>4. Broker!TypeOK /\ LinkOK
  BY DEF Init, Broker!Init, Broker!TypeOK, LinkOK
<1> QED BY <1>1, <1>2, <1>3, <1>4 DEF IInv

-----------------------------------------------------------------------------
(* The calls of the IO threads                                             *)

LEMMA JobIsCommand ==
  ASSUME IInv, NEW t \in Callers, pc[t] # "idle"
  PROVE  job[t] \in Commands /\ job[t].channel \in Channels
<1>1. job[t] \in Commands
  BY DEF IInv, CallOK
<1> QED BY <1>1 DEF Commands, Broker!Commands

LEMMA CommandIsNoNoJob ==
  ASSUME NEW cmd \in Commands
  PROVE  cmd # NoJob
  BY DEF Commands, Broker!Commands, NoJob

LEMMA RemoveFirstType ==
  ASSUME NEW S, NEW s \in Seq(S), NEW x
  PROVE  RemoveFirst(s, x) \in Seq(S)
<1> DEFINE hits == {i \in DOMAIN s : s[i] = x}
           first == CHOOSE i \in hits : \A j \in hits : i <= j
           rest == [j \in 1..(Len(s) - 1) |-> IF j < first THEN s[j] ELSE s[j + 1]]
<1>1. RemoveFirst(s, x) = IF hits = {} THEN s ELSE rest
  BY DEF RemoveFirst
<1>2. ASSUME hits # {} PROVE Len(s) - 1 \in Nat
  BY <1>2
<1>3. \A j \in 1..(Len(s) - 1) : s[j] \in S /\ s[j + 1] \in S
  OBVIOUS
<1> HIDE DEF first
<1>4. ASSUME hits # {} PROVE rest \in Seq(S)
  <2>1. rest \in [1..(Len(s) - 1) -> S]
    BY <1>3
  <2> QED BY <1>2, <1>4, <2>1
<1> QED BY <1>1, <1>4

LEMMA CallTypes ==
  ASSUME IInv, NEW t \in Callers, NEW ch \in Channels,
         Subscribe(t, ch) \/ Unsubscribe(t, ch)
  PROVE  IInv'
<1> USE DEF obsVars, endVars, envVars, redisVars, ctxVars
<1>1. PICK op \in {"SUBSCRIBE", "UNSUBSCRIBE"} : Call(t, op, ch)
  BY DEF Subscribe, Unsubscribe
<1>2. UNCHANGED <<ctxVars, channels, obsVars, endVars, envVars, redisVars>>
  BY <1>1 DEF Call
<1>3. [op |-> op, channel |-> ch] \in Commands /\ [op |-> op, channel |-> ch] # NoJob
  <2>1. [op |-> op, channel |-> ch] \in Commands
    BY <1>1 DEF Commands, Broker!Commands
  <2> QED BY <2>1, CommandIsNoNoJob
<1>4. CallOK'
  <2>1. \/ UNCHANGED <<pc, job>>
        \/ /\ pc' = [pc EXCEPT ![t] = "record"]
           /\ job' = [job EXCEPT ![t] = [op |-> op, channel |-> ch]]
    BY <1>1 DEF Call
  <2> DEFINE cmd == [op |-> op, channel |-> ch]
  <2> HIDE DEF cmd
  <2>2. \/ UNCHANGED <<pc, job>>
        \/ pc' = [pc EXCEPT ![t] = "record"] /\ job' = [job EXCEPT ![t] = cmd]
    BY <2>1 DEF cmd
  <2>3. cmd \in Commands /\ cmd # NoJob
    BY <1>3 DEF cmd
  <2> QED BY <2>2, <2>3 DEF IInv, CallOK
<1>5. EnvOK'
  <2>1. wanted' \in [Channels -> BOOLEAN]
    BY <1>1 DEF Call, IInv, EnvOK
  <2>2. calls' \in 0..MaxCalls
    BY <1>1, ClientAssumption DEF Call, IInv, EnvOK
  <2> QED BY <1>2, <2>1, <2>2 DEF IInv, EnvOK
<1> QED BY <1>2, <1>4, <1>5
       DEF IInv, CtxOK, ListOK, ObsOK, stopping, EndOK, Broker!TypeOK, LinkOK

LEMMA CallerTypes ==
  ASSUME IInv, NEW t \in Callers, CallerStep(t)
  PROVE  IInv'
<1> USE DEF obsVars, endVars, envVars, redisVars
<1>0. OthersWrite(t) \in BOOLEAN
  BY DEF OthersWrite, ObserverWrites, CallerWrites
<1>1. ASSUME Record(t) PROVE IInv'
  <2>1. pc[t] = "record" /\ job[t].channel \in Channels
    BY <1>1, JobIsCommand DEF Record
  <2>2. \/ channels' = Append(channels, job[t].channel)
        \/ channels' = RemoveFirst(channels, job[t].channel)
    BY <1>1 DEF Record
  <2>3. channels' \in Seq(Channels)
    <3>1. channels \in Seq(Channels)
      BY DEF IInv, ListOK
    <3>2. Append(channels, job[t].channel) \in Seq(Channels)
      BY <2>1, <3>1
    <3>3. RemoveFirst(channels, job[t].channel) \in Seq(Channels)
      BY <3>1, RemoveFirstType
    <3> QED BY <2>2, <3>2, <3>3
  <2>4. UNCHANGED <<ctxVars, obsVars, job, wanted, calls, endVars, envVars, redisVars>>
    BY <1>1 DEF Record
  <2>5. CallOK'
    BY <1>1, <2>1, <2>4 DEF Record, IInv, CallOK
  <2> QED BY <2>3, <2>4, <2>5
         DEF ctxVars, IInv, CtxOK, ListOK, ObsOK, stopping, EndOK, EnvOK, Broker!TypeOK, LinkOK
<1>2. ASSUME AppendCall(t) PROVE IInv'
  <2>1. AppendCommand(job[t], OthersWrite(t)) /\ job[t] \in Commands /\ pc[t] = "append"
    BY <1>2, JobIsCommand DEF AppendCall
  <2>2. /\ UNCHANGED <<ctx, link, pipe>> /\ CtxOK' /\ dead' \in BOOLEAN /\ raced' \in BOOLEAN
    BY <1>0, <2>1, AppendEffect
  <2>3. /\ UNCHANGED <<channels, obsVars, job, wanted, calls, stage, envVars, subs, bus>>
        /\ pc' = [pc EXCEPT ![t] = "write"]
    BY <1>2 DEF AppendCall
  <2>4. CallOK'
    BY <2>1, <2>3 DEF IInv, CallOK
  <2> QED BY <2>2, <2>3, <2>4
         DEF IInv, ListOK, ObsOK, stopping, EndOK, EnvOK, Broker!TypeOK, LinkOK
<1>3. ASSUME WriteCall(t) PROVE IInv'
  <2>1. WriteBuffer(OthersWrite(t)) /\ UNCHANGED <<subs, bus>>
    BY <1>3 DEF WriteCall
  <2>2. /\ UNCHANGED <<ctx, link>> /\ CtxOK' /\ dead' \in BOOLEAN /\ raced' \in BOOLEAN
    BY <1>0, <2>1, WriteEffect
  <2>3. Broker!TypeOK' /\ (link' \/ pipe'[Node] = pipe[Node])
    BY <1>0, <2>1, WritePipe
  <2>4. /\ UNCHANGED <<channels, obsVars, wanted, calls, stage, envVars>>
        /\ pc' = [pc EXCEPT ![t] = "idle"] /\ job' = [job EXCEPT ![t] = NoJob]
    BY <1>3 DEF WriteCall
  <2>5. CallOK'
    BY <2>4 DEF IInv, CallOK
  <2> QED BY <2>2, <2>3, <2>4, <2>5 DEF IInv, ListOK, ObsOK, stopping, EndOK, EnvOK, LinkOK
<1> QED BY <1>1, <1>2, <1>3 DEF CallerStep
-----------------------------------------------------------------------------
(* The observer, the destructor, and Redis                                 *)

LEMMA ObserverTypes ==
  ASSUME IInv, ObserverStep
  PROVE  IInv'
<1> USE DEF callVars, endVars, envVars, redisVars
<1>0. CallersWrite \in BOOLEAN
  BY DEF CallersWrite
<1>1. ASSUME ObserverReceive \/ ObserverLost \/ ObserverNull \/ ObserverConnect \/ ObserverLock
      PROVE  /\ UNCHANGED <<channels, callVars, stage, raced, envVars, subs, pipe>>
             /\ dead' \in BOOLEAN
  <2>1. dead \in BOOLEAN
    BY DEF IInv, EndOK
  <2> QED BY <1>1, <2>1
         DEF ObserverReceive, ObserverLost, ObserverNull, ObserverConnect, ObserverLock, ctxVars,
             Broker!Receive
<1>2. ASSUME UNCHANGED <<channels, callVars, stage, raced, envVars>>, dead' \in BOOLEAN,
             left' \in Seq(Channels)
      PROVE  ListOK' /\ CallOK' /\ EndOK' /\ EnvOK'
  BY <1>2 DEF IInv, ListOK, CallOK, EndOK, EnvOK
<1>3. ASSUME ObserverReceive PROVE IInv'
  <2>1. /\ Broker!Receive(Node) /\ UNCHANGED <<ctxVars, left>>
        /\ obs' \in {"quit", "flush"} /\ obs = "read" /\ ctx = "open"
    BY <1>3 DEF ObserverReceive
  <2>2. Broker!TypeOK'
    BY <2>1 DEF IInv, Broker!TypeOK, Broker!Receive
  <2>3. CtxOK' /\ ObsOK' /\ LinkOK'
    BY <2>1 DEF ctxVars, IInv, CtxOK, ObsOK, LinkOK, Broker!Receive
  <2> QED BY <1>1, <1>2, <1>3, <2>1, <2>2, <2>3 DEF IInv, ListOK
<1>4. ASSUME ObserverLost PROVE IInv'
  <2>1. /\ UNCHANGED <<link, obuf, left, pipe, subs, bus>> /\ ~link
        /\ \/ obs' = "quit" /\ ctx' = ctx /\ stopping
           \/ obs' = "null" /\ ctx' = "freed"
    BY <1>4 DEF ObserverLost
  <2>2. stage' = stage
    BY <1>1, <1>4
  <2>3. CtxOK' /\ ObsOK' /\ LinkOK' /\ Broker!TypeOK'
    BY <2>1, <2>2 DEF IInv, CtxOK, ObsOK, LinkOK, Broker!TypeOK, stopping
  <2> QED BY <1>1, <1>2, <1>4, <2>1, <2>3 DEF IInv, ListOK
<1>5. ASSUME ObserverNull PROVE IInv'
  <2>1. /\ UNCHANGED <<link, obuf, left, pipe, subs, bus>> /\ obs = "null"
        /\ ctx' = "null" /\ obs' = "connect"
    BY <1>5 DEF ObserverNull
  <2>2. CtxOK' /\ ObsOK' /\ LinkOK' /\ Broker!TypeOK'
    BY <2>1 DEF IInv, CtxOK, ObsOK, LinkOK, Broker!TypeOK
  <2> QED BY <1>1, <1>2, <1>5, <2>1, <2>2 DEF IInv, ListOK
<1>6. ASSUME ObserverConnect PROVE IInv'
  <2>1. /\ UNCHANGED <<left, pipe, subs, bus>> /\ obs = "connect"
        /\ \/ obs' = "quit" /\ UNCHANGED ctxVars /\ stopping
           \/ obs' = "lock" /\ ctx' = "open" /\ link' = redisUp /\ obuf' = <<>>
    BY <1>6 DEF ObserverConnect
  <2>2. stage' = stage
    BY <1>1, <1>6
  <2>3. CtxOK' /\ ObsOK' /\ LinkOK' /\ Broker!TypeOK'
    <3>1. CASE obs' = "quit" /\ UNCHANGED ctxVars /\ stopping
      BY <2>1, <2>2, <3>1 DEF ctxVars, IInv, CtxOK, ObsOK, LinkOK, Broker!TypeOK, stopping
    <3>2. CASE obs' = "lock" /\ ctx' = "open" /\ link' = redisUp /\ obuf' = <<>>
      BY <2>1, <3>2 DEF IInv, CtxOK, ObsOK, LinkOK, Broker!TypeOK, EnvOK
    <3> QED BY <2>1, <3>1, <3>2
  <2> QED BY <1>1, <1>2, <1>6, <2>1, <2>3 DEF IInv, ListOK
<1>7. ASSUME ObserverLock PROVE IInv'
  <2>1. /\ UNCHANGED ctxVars /\ UNCHANGED <<pipe, subs, bus>> /\ obs = "lock"
        /\ left' = channels
        /\ obs' \in {"quit", "write", "append"} /\ (obs' = "append" => channels # <<>>)
    BY <1>7 DEF ObserverLock
  <2>2. stage' = stage
    BY <1>1, <1>7
  <2>3. CtxOK' /\ ObsOK' /\ LinkOK' /\ Broker!TypeOK'
    BY <2>1, <2>2 DEF ctxVars, IInv, CtxOK, ObsOK, LinkOK, Broker!TypeOK, stopping
  <2> QED BY <1>1, <1>2, <1>7, <2>1, <2>3 DEF IInv, ListOK
<1>8. ASSUME ObserverAppend PROVE IInv'
  <2>1. /\ AppendCommand([op |-> "SUBSCRIBE", channel |-> Head(left)], CallersWrite)
        /\ left' = Tail(left) /\ obs = "append"
        /\ obs' = IF left' = <<>> THEN "write" ELSE "append"
        /\ UNCHANGED <<channels, callVars, stage, envVars, subs, bus>>
    BY <1>8 DEF ObserverAppend
  <2>2. Head(left) \in Channels /\ Tail(left) \in Seq(Channels)
    BY <2>1 DEF IInv, ObsOK, ListOK
  <2>3. [op |-> "SUBSCRIBE", channel |-> Head(left)] \in Commands
    BY <2>2 DEF Commands, Broker!Commands
  <2>4. /\ UNCHANGED <<ctx, link, pipe>> /\ CtxOK' /\ dead' \in BOOLEAN /\ raced' \in BOOLEAN
    BY <1>0, <2>1, <2>3, AppendEffect
  <2>5. ListOK' /\ CallOK' /\ EndOK' /\ EnvOK'
    BY <2>1, <2>2, <2>4 DEF IInv, ListOK, CallOK, EndOK, EnvOK
  <2>6. ObsOK' /\ LinkOK' /\ Broker!TypeOK'
    BY <2>1, <2>4 DEF IInv, ObsOK, LinkOK, Broker!TypeOK, stopping
  <2> QED BY <2>4, <2>5, <2>6 DEF IInv
<1>9. ASSUME ObserverFlush \/ ObserverWrite PROVE IInv'
  <2>1. /\ WriteBuffer(CallersWrite) /\ obs \in {"flush", "write"}
        /\ obs' \in {"read", "quit", "flush"}
        /\ UNCHANGED <<channels, left, callVars, stage, envVars, subs, bus>>
    BY <1>9 DEF ObserverFlush, ObserverWrite
  <2>2. /\ UNCHANGED <<ctx, link>> /\ CtxOK' /\ dead' \in BOOLEAN /\ raced' \in BOOLEAN
    BY <1>0, <2>1, WriteEffect
  <2>3. Broker!TypeOK' /\ (link' \/ pipe'[Node] = pipe[Node])
    BY <1>0, <2>1, WritePipe
  <2>4. ListOK' /\ CallOK' /\ EndOK' /\ EnvOK'
    BY <2>1, <2>2 DEF IInv, ListOK, CallOK, EndOK, EnvOK
  <2>5. ObsOK' /\ LinkOK'
    BY <2>1, <2>2, <2>3 DEF IInv, ObsOK, LinkOK, stopping
  <2> QED BY <2>2, <2>3, <2>4, <2>5 DEF IInv
<1> QED BY <1>3, <1>4, <1>5, <1>6, <1>7, <1>8, <1>9 DEF ObserverStep

LEMMA DisconnectType ==
  ASSUME IInv, Broker!Disconnect(Node)
  PROVE  Broker!TypeOK' /\ pipe'[Node] = <<>>
  BY DEF IInv, Broker!TypeOK, Broker!Disconnect

LEMMA EndTypes ==
  ASSUME IInv, Stop \/ StopFree \/ StopDetach
  PROVE  IInv'
<1> USE DEF obsVars, callVars, envVars, redisVars
<1>1. ASSUME Stop PROVE IInv'
  BY <1>1 DEF Stop, ctxVars, IInv, CtxOK, ListOK, CallOK, ObsOK, EndOK, EnvOK,
              Broker!TypeOK, LinkOK, stopping
<1>2. ASSUME StopFree PROVE IInv'
  <2>1. /\ stage' = "freed" /\ UNCHANGED <<channels, obsVars, callVars, raced, envVars>>
        /\ \/ ctx' = "null" /\ link' = FALSE /\ obuf' = <<>> /\ Broker!Disconnect(Node)
           \/ UNCHANGED <<ctxVars, redisVars>>
        /\ dead' \in BOOLEAN
    BY <1>2 DEF StopFree
  <2>2. Broker!TypeOK' /\ LinkOK' /\ CtxOK'
    <3>1. CASE ctx' = "null" /\ link' = FALSE /\ obuf' = <<>> /\ Broker!Disconnect(Node)
      <4>1. CtxOK'
        <5>1. <<>> \in Seq(Commands)
          OBVIOUS
        <5> QED BY <3>1, <5>1 DEF CtxOK
      <4>2. LinkOK'
        BY <3>1, DisconnectType DEF LinkOK
      <4> QED BY <3>1, <4>1, <4>2, DisconnectType
    <3>2. CASE UNCHANGED <<ctxVars, redisVars>>
      BY <2>1, <3>2 DEF ctxVars, IInv, CtxOK, LinkOK, Broker!TypeOK
    <3> QED BY <2>1, <3>1, <3>2
  <2>3. ListOK' /\ CallOK' /\ ObsOK' /\ EndOK' /\ EnvOK'
    BY <2>1 DEF IInv, ListOK, CallOK, ObsOK, EndOK, EnvOK, stopping
  <2> QED BY <2>2, <2>3 DEF IInv
<1>3. ASSUME StopDetach PROVE IInv'
  BY <1>3 DEF StopDetach, ctxVars, IInv, CtxOK, ListOK, CallOK, ObsOK, EndOK, EnvOK,
              Broker!TypeOK, LinkOK, stopping
<1> QED BY <1>1, <1>2, <1>3

LEMMA RedisTypes ==
  ASSUME IInv, (\E ch \in Channels : Publish(ch)) \/ RedisServes \/ Outage \/ Recover
  PROVE  IInv'
<1> USE DEF obsVars, callVars, endVars
<1>1. ASSUME NEW ch \in Channels, Publish(ch) PROVE IInv'
  <2>1. /\ UNCHANGED <<ctxVars, channels, obsVars, callVars, endVars>>
        /\ UNCHANGED <<redisUp, pubUp, outages>>
        /\ posts < MaxPosts /\ posts' = posts + 1
        /\ \/ Broker!Publish(ch, posts')
           \/ UNCHANGED redisVars
    BY <1>1 DEF Publish
  <2>2. posts' \in 1..MaxPosts /\ posts' \in 0..MaxPosts
    BY <2>1, ClientAssumption DEF IInv, EnvOK
  <2>3. Broker!TypeOK' /\ pipe' = pipe
    <3>1. CASE Broker!Publish(ch, posts')
      <4>1. \A n \in {Node} : Append(bus[n], posts') \in Seq(1..MaxPosts)
        BY <2>2 DEF IInv, Broker!TypeOK
      <4> QED BY <3>1, <4>1 DEF IInv, Broker!TypeOK, Broker!Publish
    <3>2. CASE UNCHANGED redisVars
      BY <3>2 DEF IInv, Broker!TypeOK, redisVars
    <3> QED BY <2>1, <3>1, <3>2
  <2> QED BY <2>1, <2>2, <2>3
         DEF ctxVars, IInv, CtxOK, ListOK, CallOK, ObsOK, EndOK, EnvOK, LinkOK, stopping
<1>2. ASSUME RedisServes PROVE IInv'
  <2>1. Broker!Serve(Node) /\ UNCHANGED <<ctxVars, channels, obsVars, callVars, endVars, envVars>>
    BY <1>2 DEF RedisServes
  <2>2. /\ pipe[Node] # <<>> /\ pipe[Node] \in Seq(Commands)
        /\ Head(pipe[Node]) \in Commands /\ Tail(pipe[Node]) \in Seq(Commands)
    BY <2>1 DEF IInv, Broker!TypeOK, Broker!Serve, Commands
  <2>3. Head(pipe[Node]).channel \in Channels
    BY <2>2 DEF Commands, Broker!Commands
  <2>4. pipe' = [pipe EXCEPT ![Node] = Tail(pipe[Node])] /\ bus' = bus
    BY <2>1 DEF Broker!Serve
  <2>5. subs' \in [{Node} -> SUBSET Channels]
    BY <2>1, <2>3 DEF IInv, Broker!TypeOK, Broker!Serve
  <2>6. Broker!TypeOK'
    BY <2>2, <2>4, <2>5 DEF IInv, Broker!TypeOK, Commands
  <2>7. LinkOK'
    BY <2>1, <2>2 DEF IInv, LinkOK, ctxVars
  <2> QED BY <2>1, <2>6, <2>7
         DEF ctxVars, envVars, IInv, CtxOK, ListOK, CallOK, ObsOK, EndOK, EnvOK, stopping
<1>3. ASSUME Outage PROVE IInv'
  <2>1. /\ Broker!Disconnect(Node) /\ outages < MaxOutages /\ outages' = outages + 1
        /\ redisUp' = FALSE /\ link' = FALSE /\ pubUp' = FALSE
        /\ UNCHANGED <<ctx, obuf, channels, obsVars, callVars, endVars, posts>>
    BY <1>3 DEF Outage
  <2>2. outages' \in 0..MaxOutages
    BY <2>1, ClientAssumption DEF IInv, EnvOK
  <2>3. Broker!TypeOK' /\ LinkOK'
    BY <2>1, DisconnectType DEF IInv, LinkOK
  <2>4. CtxOK' /\ ListOK' /\ CallOK'
    BY <2>1 DEF IInv, CtxOK, ListOK, CallOK, obsVars, callVars
  <2>5. ObsOK' /\ EndOK'
    BY <2>1 DEF IInv, ObsOK, EndOK, obsVars, endVars, stopping
  <2>6. EnvOK'
    BY <2>1, <2>2 DEF IInv, EnvOK, callVars
  <2> QED BY <2>3, <2>4, <2>5, <2>6 DEF IInv
<1>4. ASSUME Recover PROVE IInv'
  BY <1>4 DEF Recover, ctxVars, redisVars, IInv, CtxOK, ListOK, CallOK, ObsOK, EndOK, EnvOK,
              Broker!TypeOK, LinkOK, stopping
<1> QED BY <1>1, <1>2, <1>3, <1>4

LEMMA ClientStep == IInv /\ [Next]_vars => IInv'
<1> SUFFICES ASSUME IInv, [Next]_vars PROVE IInv'
  OBVIOUS
<1>1. CASE Next
  BY <1>1, CallTypes, CallerTypes, ObserverTypes, EndTypes, RedisTypes DEF Next
<1>2. CASE UNCHANGED vars
  BY <1>2 DEF vars, ctxVars, obsVars, callVars, endVars, envVars, redisVars, IInv, CtxOK,
              ListOK, CallOK, ObsOK, EndOK, EnvOK, Broker!TypeOK, LinkOK, stopping
<1> QED BY <1>1, <1>2

\* The types of the client's state; a list the observer still subscribes from
\* is never empty, and the context is only missing while the observer replaces
\* it or once the destructor has begun.
THEOREM RedisClientTypeOK == Spec => []TypeOK
<1>1. IInv => TypeOK
  BY DEF IInv, CtxOK, ListOK, CallOK, ObsOK, EndOK, EnvOK, TypeOK
<1> QED BY <1>1, InitClient, ClientStep, PTL DEF Spec

-----------------------------------------------------------------------------
(* The client implements Redis                                             *)

\* What the service has given the client and Redis has not seen.
OnWire == IF link THEN pipe[Node] \o obuf ELSE <<>>

LEMMA OnWireType ==
  ASSUME IInv
  PROVE  /\ OnWire \in Seq(Commands) /\ pipe[Node] \in Seq(Commands) /\ obuf \in Seq(Commands)
         /\ pipe[Node] \o obuf \in Seq(Commands)
<1>1. pipe[Node] \in Seq(Commands) /\ obuf \in Seq(Commands)
  BY DEF IInv, CtxOK, Broker!TypeOK, Commands
<1>2. pipe[Node] \o obuf \in Seq(Commands)
  BY <1>1
<1> QED BY <1>1, <1>2 DEF OnWire

LEMMA WireSame ==
  ASSUME OnWire' = OnWire, UNCHANGED <<subs, bus>>
  PROVE  UNCHANGED Wire!vars
  BY DEF OnWire, Wire!vars

LEMMA WireCommand ==
  ASSUME NEW cmd \in Commands, OnWire' = Append(OnWire, cmd), UNCHANGED <<subs, bus>>
  PROVE  Wire!Next
<1>1. PICK ch \in Channels : \/ cmd = [op |-> "SUBSCRIBE", channel |-> ch]
                             \/ cmd = [op |-> "UNSUBSCRIBE", channel |-> ch]
  BY DEF Commands, Broker!Commands
<1>2. Wire!Subscribe(Node, ch) \/ Wire!Unsubscribe(Node, ch)
  BY <1>1 DEF OnWire, Wire!Subscribe, Wire!Unsubscribe
<1> QED BY <1>2 DEF Wire!Next

LEMMA WireForget ==
  ASSUME IInv, NEW k \in 0..Len(OnWire), OnWire' = SubSeq(OnWire, 1, k), UNCHANGED <<subs, bus>>
  PROVE  Wire!Next
<1>1. Wire!Forget(Node)
  BY DEF OnWire, Wire!Forget
<1> QED BY <1>1 DEF Wire!Next

LEMMA WireDisconnect ==
  ASSUME IInv, Broker!Disconnect(Node), link' = FALSE
  PROVE  Wire!Next
<1>1. Wire!Disconnect(Node)
  BY DEF Broker!Disconnect, Wire!Disconnect
<1> QED BY <1>1 DEF Wire!Next

\* hiredis: a command is given, or lost while the buffer is torn by a race;
\* a written buffer is where it was for everyone but the process.
LEMMA WireAppend ==
  ASSUME IInv, NEW cmd \in Commands, NEW racing \in BOOLEAN, AppendCommand(cmd, racing),
         UNCHANGED <<subs, bus>>
  PROVE  Wire!Next \/ UNCHANGED Wire!vars
<1>1. /\ UNCHANGED <<link, pipe>>
      /\ obuf' = obuf \/ obuf' = Append(obuf, cmd)
  BY AppendEffect
<1>2. OnWire' = OnWire \/ OnWire' = Append(OnWire, cmd)
  <2>1. pipe[Node] \in Seq(Commands) /\ obuf \in Seq(Commands)
    BY OnWireType
  <2>2. pipe[Node] \o Append(obuf, cmd) = Append(pipe[Node] \o obuf, cmd)
    <3>1. \A p, o \in Seq(Commands) : p \o Append(o, cmd) = Append(p \o o, cmd)
      OBVIOUS
    <3> QED BY <2>1, <3>1
  <2> QED BY <1>1, <2>2 DEF OnWire
<1> QED BY <1>2, WireSame, WireCommand

LEMMA WireWrite ==
  ASSUME IInv, NEW racing \in BOOLEAN, WriteBuffer(racing), UNCHANGED <<subs, bus>>
  PROVE  Wire!Next \/ UNCHANGED Wire!vars
<1>1. /\ link' = link
      /\ \/ pipe' = pipe /\ (obuf' = obuf \/ obuf' = <<>>)
         \/ link /\ obuf' = <<>> /\ pipe' = [pipe EXCEPT ![Node] = pipe[Node] \o obuf]
  BY WriteEffect
<1>2. pipe[Node] \in Seq(Commands) /\ obuf \in Seq(Commands) /\ pipe \in [{Node} -> Seq(Commands)]
  BY OnWireType DEF IInv, Broker!TypeOK, Commands
<1>3. /\ pipe[Node] \o <<>> = pipe[Node] /\ (pipe[Node] \o obuf) \o <<>> = pipe[Node] \o obuf
      /\ Len(pipe[Node]) \in 0..Len(pipe[Node] \o obuf)
      /\ SubSeq(pipe[Node] \o obuf, 1, Len(pipe[Node])) = pipe[Node]
  <2>1. \A p, o \in Seq(Commands) :
          /\ p \o <<>> = p /\ (p \o o) \o <<>> = p \o o
          /\ Len(p) \in 0..Len(p \o o) /\ SubSeq(p \o o, 1, Len(p)) = p
    OBVIOUS
  <2> QED BY <1>2, <2>1
<1>4. CASE ~link
  BY <1>1, <1>4, WireSame DEF OnWire
<1>5. CASE link /\ pipe' = pipe /\ obuf' = obuf
  BY <1>1, <1>5, WireSame DEF OnWire
<1>6. CASE link /\ pipe' = pipe /\ obuf' = <<>>
  <2>1. OnWire = pipe[Node] \o obuf /\ OnWire' = pipe[Node]
    BY <1>1, <1>3, <1>6 DEF OnWire
  <2> QED BY <1>3, <2>1, WireForget
<1>7. CASE link /\ obuf' = <<>> /\ pipe' = [pipe EXCEPT ![Node] = pipe[Node] \o obuf]
  <2>1. pipe'[Node] = pipe[Node] \o obuf
    BY <1>2, <1>7
  <2>2. OnWire' = OnWire
    BY <1>1, <1>3, <1>7, <2>1 DEF OnWire
  <2> QED BY <2>2, WireSame
<1> QED BY <1>1, <1>4, <1>5, <1>6, <1>7

LEMMA WireInit == Init => Wire!Init
<1> SUFFICES ASSUME Init PROVE Wire!Init
  OBVIOUS
<1>1. pipe[Node] = <<>> /\ obuf = <<>> /\ subs = [n \in {Node} |-> {}]
      /\ bus = [n \in {Node} |-> <<>>]
  BY DEF Init, Broker!Init
<1>2. <<>> \o <<>> = <<>>
  OBVIOUS
<1> QED BY <1>1, <1>2 DEF Wire!Init

LEMMA WireCaller ==
  ASSUME IInv, NEW t \in Callers,
         CallerStep(t) \/ \E ch \in Channels : Subscribe(t, ch) \/ Unsubscribe(t, ch)
  PROVE  Wire!Next \/ UNCHANGED Wire!vars
<1> USE DEF ctxVars, redisVars
<1>0. OthersWrite(t) \in BOOLEAN
  BY DEF OthersWrite, ObserverWrites, CallerWrites
<1>1. ASSUME Record(t) \/ \E ch \in Channels : Subscribe(t, ch) \/ Unsubscribe(t, ch)
      PROVE  UNCHANGED Wire!vars
  <2>1. UNCHANGED <<ctxVars, redisVars>>
    BY <1>1 DEF Record, Subscribe, Unsubscribe, Call
  <2> QED BY <2>1, WireSame DEF OnWire
<1>2. ASSUME AppendCall(t) PROVE Wire!Next \/ UNCHANGED Wire!vars
  BY <1>0, <1>2, JobIsCommand, WireAppend DEF AppendCall
<1>3. ASSUME WriteCall(t) PROVE Wire!Next \/ UNCHANGED Wire!vars
  BY <1>0, <1>3, WireWrite DEF WriteCall
<1> QED BY <1>1, <1>2, <1>3 DEF CallerStep

LEMMA WireObserver ==
  ASSUME IInv, ObserverStep
  PROVE  Wire!Next \/ UNCHANGED Wire!vars
<1> USE DEF ctxVars, redisVars
<1>0. CallersWrite \in BOOLEAN
  BY DEF CallersWrite
<1>1. ASSUME ObserverLost \/ ObserverNull \/ ObserverLock PROVE UNCHANGED Wire!vars
  <2>1. UNCHANGED <<link, obuf, pipe, subs, bus>>
    BY <1>1 DEF ObserverLost, ObserverNull, ObserverLock
  <2> QED BY <2>1, WireSame DEF OnWire
<1>2. ASSUME ObserverConnect PROVE UNCHANGED Wire!vars
  <2>1. /\ obs = "connect" /\ UNCHANGED <<pipe, subs, bus>>
        /\ UNCHANGED <<link, obuf>> \/ obuf' = <<>>
    BY <1>2 DEF ObserverConnect
  <2>2. ~link /\ pipe[Node] = <<>>
    BY <2>1 DEF IInv, LinkOK
  <2>3. <<>> \o <<>> = <<>>
    OBVIOUS
  <2>4. OnWire' = OnWire
    BY <2>1, <2>2, <2>3 DEF OnWire
  <2> QED BY <2>1, <2>4, WireSame
<1>3. ASSUME ObserverReceive PROVE Wire!Next
  <2>1. Broker!Receive(Node) /\ UNCHANGED <<link, obuf>>
    BY <1>3 DEF ObserverReceive
  <2>2. Wire!Receive(Node)
    BY <2>1 DEF Broker!Receive, Wire!Receive
  <2> QED BY <2>2 DEF Wire!Next
<1>4. ASSUME ObserverAppend PROVE Wire!Next \/ UNCHANGED Wire!vars
  <2>1. AppendCommand([op |-> "SUBSCRIBE", channel |-> Head(left)], CallersWrite)
        /\ obs = "append" /\ UNCHANGED <<subs, bus>>
    BY <1>4 DEF ObserverAppend
  <2>2. Head(left) \in Channels
    BY <2>1 DEF IInv, ObsOK, ListOK
  <2>3. [op |-> "SUBSCRIBE", channel |-> Head(left)] \in Commands
    BY <2>2 DEF Commands, Broker!Commands
  <2> QED BY <1>0, <2>1, <2>3, WireAppend
<1>5. ASSUME ObserverFlush \/ ObserverWrite PROVE Wire!Next \/ UNCHANGED Wire!vars
  BY <1>0, <1>5, WireWrite DEF ObserverFlush, ObserverWrite
<1> QED BY <1>1, <1>2, <1>3, <1>4, <1>5 DEF ObserverStep

LEMMA WireRest ==
  ASSUME IInv,
         \/ Stop \/ StopFree \/ StopDetach
         \/ (\E ch \in Channels : Publish(ch)) \/ RedisServes \/ Outage \/ Recover
  PROVE  Wire!Next \/ UNCHANGED Wire!vars
<1> USE DEF ctxVars, redisVars
<1>1. ASSUME Stop \/ StopDetach \/ Recover PROVE UNCHANGED Wire!vars
  <2>1. UNCHANGED <<link, obuf, pipe, subs, bus>>
    BY <1>1 DEF Stop, StopDetach, Recover
  <2> QED BY <2>1, WireSame DEF OnWire
<1>2. ASSUME StopFree PROVE Wire!Next \/ UNCHANGED Wire!vars
  <2>1. \/ link' = FALSE /\ Broker!Disconnect(Node)
        \/ UNCHANGED <<link, obuf, pipe, subs, bus>>
    BY <1>2 DEF StopFree
  <2>2. ASSUME UNCHANGED <<link, obuf, pipe, subs, bus>> PROVE UNCHANGED Wire!vars
    BY <2>2, WireSame DEF OnWire
  <2> QED BY <2>1, <2>2, WireDisconnect
<1>3. ASSUME NEW ch \in Channels, Publish(ch) PROVE Wire!Next \/ UNCHANGED Wire!vars
  <2>1. /\ UNCHANGED <<link, obuf>> /\ posts < MaxPosts /\ posts' = posts + 1
        /\ \/ Broker!Publish(ch, posts')
           \/ UNCHANGED <<pipe, subs, bus>>
    BY <1>3 DEF Publish
  <2>2. posts' \in 1..MaxPosts
    BY <2>1, ClientAssumption DEF IInv, EnvOK
  <2>3. ASSUME Broker!Publish(ch, posts') PROVE Wire!Next
    <3>1. Wire!Publish(ch, posts')
      BY <2>1, <2>3 DEF Broker!Publish, Wire!Publish
    <3> QED BY <2>2, <3>1 DEF Wire!Next
  <2> QED BY <2>1, <2>3, WireSame DEF OnWire
<1>4. ASSUME RedisServes PROVE Wire!Next
  <2>1. Broker!Serve(Node) /\ UNCHANGED <<link, obuf>>
    BY <1>4 DEF RedisServes
  <2>2. /\ pipe[Node] # <<>> /\ link /\ pipe \in [{Node} -> Seq(Commands)]
        /\ pipe[Node] \in Seq(Commands) /\ obuf \in Seq(Commands)
    BY <2>1, OnWireType DEF Broker!Serve, IInv, LinkOK, Broker!TypeOK, Commands
  <2>3. /\ Head(pipe[Node] \o obuf) = Head(pipe[Node])
        /\ Tail(pipe[Node] \o obuf) = Tail(pipe[Node]) \o obuf
        /\ pipe[Node] \o obuf # <<>>
    <3>1. \A p, o \in Seq(Commands) : p # <<>> =>
            Head(p \o o) = Head(p) /\ Tail(p \o o) = Tail(p) \o o /\ p \o o # <<>>
      OBVIOUS
    <3> QED BY <2>2, <3>1
  <2>4. pipe'[Node] = Tail(pipe[Node])
    BY <2>1, <2>2 DEF Broker!Serve
  <2>5. OnWire # <<>> /\ Head(OnWire) = Head(pipe[Node]) /\ OnWire' = Tail(OnWire)
    BY <2>1, <2>2, <2>3, <2>4 DEF OnWire
  <2>6. Wire!Serve(Node)
    BY <2>1, <2>5 DEF OnWire, Broker!Serve, Wire!Serve
  <2> QED BY <2>6 DEF Wire!Next
<1>5. ASSUME Outage PROVE Wire!Next
  BY <1>5, WireDisconnect DEF Outage
<1> QED BY <1>1, <1>2, <1>3, <1>4, <1>5

\* The service's Redis: whatever the threads do to the shared context, what
\* they gave the client reaches Redis in the order it was given, and is only
\* ever lost from the end, or together with the connection.
THEOREM RedisClientImplementsRedis == Spec => ImplementsRedis
<1>1. IInv /\ [Next]_vars => [Wire!Next]_(Wire!vars)
  <2> SUFFICES ASSUME IInv, [Next]_vars PROVE Wire!Next \/ UNCHANGED Wire!vars
    OBVIOUS
  <2>1. CASE Next
    BY <2>1, WireCaller, WireObserver, WireRest DEF Next
  <2>2. CASE UNCHANGED vars
    BY <2>2, WireSame DEF vars, ctxVars, redisVars, OnWire
  <2> QED BY <2>1, <2>2
<1> QED BY <1>1, WireInit, InitClient, ClientStep, PTL DEF Spec, ImplementsRedis, Wire!Spec
-----------------------------------------------------------------------------
(* Who is wanted is subscribed                                             *)

Sub(ch)   == [op |-> "SUBSCRIBE", channel |-> ch]
Unsub(ch) == [op |-> "UNSUBSCRIBE", channel |-> ch]

\* With the channels "on", Redis has ch among them once it has acted on wire.
Heard(wire, on, ch) ==
  \/ \E i \in DOMAIN wire :
       wire[i] = Sub(ch) /\ \A j \in DOMAIN wire : j > i => wire[j] # Unsub(ch)
  \/ ch \in on /\ \A j \in DOMAIN wire : wire[j] # Unsub(ch)

Calls(t, ch) == pc[t] # "idle" /\ job[t].channel = ch

LinkOpen == link => ctx = "open"

\* The call for an exclusive channel that is under way is the last one.
Serial ==
  \A ch \in Exclusive, t \in Callers : Calls(t, ch) =>
    (wanted[ch] <=> job[t].op = "SUBSCRIBE")

\* The subscribe of ch is on its way: the observer will give it, or an IO
\* thread will, or it is written; or the process died over it.
UnderWay(ch) ==
  \/ obs \in {"null", "connect", "lock", "quit"}
  \/ obs = "append" /\ ch \in Range(left)
  \/ \E t \in Callers : pc[t] \in {"record", "append"} /\ job[t].channel = ch
  \/ dead /\ (obs # "read" \/ \E t \in Callers : Calls(t, ch))
  \/ Heard(pipe[Node] \o obuf, subs[Node], ch)

Followed ==
  ~raced /\ link => \A ch \in Exclusive :
    wanted[ch] /\ ch \in Range(channels) => UnderWay(ch)

LEMMA HeardAppend ==
  ASSUME NEW w \in Seq(Commands), NEW cmd \in Commands, NEW on, NEW ch,
         cmd = Sub(ch) \/ (Heard(w, on, ch) /\ cmd # Unsub(ch))
  PROVE  Heard(Append(w, cmd), on, ch)
<1>1. /\ DOMAIN Append(w, cmd) = 1..(Len(w) + 1) /\ DOMAIN w = 1..Len(w) /\ Len(w) \in Nat
      /\ Append(w, cmd)[Len(w) + 1] = cmd
      /\ \A i \in 1..Len(w) : Append(w, cmd)[i] = w[i]
  OBVIOUS
<1>2. CASE cmd = Sub(ch)
  BY <1>1, <1>2 DEF Heard
<1>3. CASE cmd # Unsub(ch) /\ ch \in on /\ \A j \in DOMAIN w : w[j] # Unsub(ch)
  <2>1. \A j \in DOMAIN Append(w, cmd) : Append(w, cmd)[j] # Unsub(ch)
    BY <1>1, <1>3
  <2> QED BY <1>3, <2>1 DEF Heard
<1>4. CASE /\ cmd # Unsub(ch)
           /\ \E i \in DOMAIN w :
                w[i] = Sub(ch) /\ \A j \in DOMAIN w : j > i => w[j] # Unsub(ch)
  <2>1. PICK i \in DOMAIN w : w[i] = Sub(ch) /\ \A j \in DOMAIN w : j > i => w[j] # Unsub(ch)
    BY <1>4
  <2>2. /\ i \in DOMAIN Append(w, cmd) /\ Append(w, cmd)[i] = Sub(ch)
        /\ \A j \in DOMAIN Append(w, cmd) : j > i => Append(w, cmd)[j] # Unsub(ch)
    BY <1>1, <1>4, <2>1
  <2> QED BY <2>2 DEF Heard
<1> QED BY <1>2, <1>3, <1>4 DEF Heard

LEMMA HeardServe ==
  ASSUME NEW w \in Seq(Commands), NEW on, NEW ch, w # <<>>, Heard(w, on, ch)
  PROVE  Heard(Tail(w), IF Head(w).op = "SUBSCRIBE" THEN on \cup {Head(w).channel}
                        ELSE on \ {Head(w).channel}, ch)
<1> DEFINE after == IF Head(w).op = "SUBSCRIBE" THEN on \cup {Head(w).channel}
                    ELSE on \ {Head(w).channel}
<1>1. /\ DOMAIN Tail(w) = 1..(Len(w) - 1) /\ DOMAIN w = 1..Len(w) /\ Len(w) \in Nat \ {0}
      /\ Head(w) = w[1] /\ Head(w) \in Commands
      /\ \A i \in 1..(Len(w) - 1) : Tail(w)[i] = w[i + 1] /\ i + 1 \in 1..Len(w) /\ i + 1 > 1
  OBVIOUS
<1>2. PICK cmd \in Commands : cmd = Head(w)
  BY <1>1
<1>3. cmd.op # "SUBSCRIBE" => cmd.op = "UNSUBSCRIBE" /\ cmd = Unsub(cmd.channel)
  BY DEF Commands, Broker!Commands, Unsub
<1>4. CASE ch \in on /\ \A j \in DOMAIN w : w[j] # Unsub(ch)
  <2>1. ch \in after
    BY <1>1, <1>2, <1>3, <1>4
  <2>2. \A j \in DOMAIN Tail(w) : Tail(w)[j] # Unsub(ch)
    BY <1>1, <1>4
  <2> QED BY <2>1, <2>2 DEF Heard
<1>5. CASE \E i \in DOMAIN w :
             w[i] = Sub(ch) /\ \A j \in DOMAIN w : j > i => w[j] # Unsub(ch)
  <2>1. PICK i \in DOMAIN w : w[i] = Sub(ch) /\ \A j \in DOMAIN w : j > i => w[j] # Unsub(ch)
    BY <1>5
  <2>2. CASE i = 1
    <3>1. ch \in after
      BY <1>1, <2>1, <2>2 DEF Sub
    <3>2. \A j \in DOMAIN Tail(w) : Tail(w)[j] # Unsub(ch)
      BY <1>1, <2>1, <2>2
    <3> QED BY <3>1, <3>2 DEF Heard
  <2>3. CASE i # 1
    <3>1. i - 1 \in DOMAIN Tail(w) /\ Tail(w)[i - 1] = Sub(ch)
      BY <1>1, <2>1, <2>3
    <3>2. \A j \in DOMAIN Tail(w) : j > i - 1 => Tail(w)[j] # Unsub(ch)
      BY <1>1, <2>1
    <3> QED BY <3>1, <3>2 DEF Heard
  <2> QED BY <2>2, <2>3
<1> QED BY <1>4, <1>5 DEF Heard

LEMMA RemoveFirstRange ==
  ASSUME NEW S, NEW s \in Seq(S), NEW x, NEW y \in Range(RemoveFirst(s, x))
  PROVE  y \in Range(s)
<1> DEFINE hits == {i \in DOMAIN s : s[i] = x}
           first == CHOOSE i \in hits : \A j \in hits : i <= j
           rest == [j \in 1..(Len(s) - 1) |-> IF j < first THEN s[j] ELSE s[j + 1]]
<1>1. RemoveFirst(s, x) = IF hits = {} THEN s ELSE rest
  BY DEF RemoveFirst
<1> HIDE DEF first
<1>2. \A j \in 1..(Len(s) - 1) : j \in DOMAIN s /\ j + 1 \in DOMAIN s
  OBVIOUS
<1>3. y \in Range(rest) => y \in Range(s)
  BY <1>2 DEF Range
<1> QED BY <1>1, <1>3

\* What hiredis does to a standing connection, unless a race loses a command.
LEMMA AppendHeard ==
  ASSUME IInv, LinkOpen, link, NEW cmd \in Commands, NEW racing \in BOOLEAN,
         AppendCommand(cmd, racing), UNCHANGED subs, ~raced'
  PROVE  /\ ~raced
         /\ \A ch : Heard(pipe[Node] \o obuf, subs[Node], ch) /\ cmd # Unsub(ch)
                    => Heard(pipe[Node] \o obuf, subs[Node], ch)'
         /\ \/ dead'
            \/ \A ch : cmd = Sub(ch) => Heard(pipe[Node] \o obuf, subs[Node], ch)'
<1>0. ctx = "open" /\ raced' = FALSE
  BY AppendEffect, Zenon DEF LinkOpen
<1>1. /\ pipe' = pipe /\ raced = FALSE
      /\ (dead' = TRUE /\ obuf' = obuf) \/ obuf' = Append(obuf, cmd)
  BY <1>0 DEF AppendCommand, Die, ctxVars
<1>2. ASSUME obuf' = Append(obuf, cmd), NEW ch,
             cmd = Sub(ch) \/ (Heard(pipe[Node] \o obuf, subs[Node], ch) /\ cmd # Unsub(ch))
      PROVE  Heard(pipe[Node] \o obuf, subs[Node], ch)'
  <2>1. /\ pipe[Node] \in Seq(Commands) /\ obuf \in Seq(Commands)
        /\ pipe[Node] \o obuf \in Seq(Commands)
    BY OnWireType
  <2>2. pipe[Node] \o Append(obuf, cmd) = Append(pipe[Node] \o obuf, cmd)
    <3>1. \A p, o \in Seq(Commands) : p \o Append(o, cmd) = Append(p \o o, cmd)
      OBVIOUS
    <3> QED BY <2>1, <3>1
  <2>3. PICK w, on : w \in Seq(Commands) /\ w = pipe[Node] \o obuf /\ on = subs[Node]
    BY <2>1
  <2>4. Heard(Append(w, cmd), on, ch)
    BY <1>2, <2>3, HeardAppend
  <2>5. pipe'[Node] \o obuf' = Append(w, cmd) /\ subs'[Node] = on
    BY <1>1, <1>2, <2>2, <2>3
  <2> QED BY <2>4, <2>5
<1>3. ASSUME obuf' = obuf, NEW ch, Heard(pipe[Node] \o obuf, subs[Node], ch)
      PROVE  Heard(pipe[Node] \o obuf, subs[Node], ch)'
  BY <1>1, <1>3
<1> QED BY <1>1, <1>2, <1>3

LEMMA WriteHeard ==
  ASSUME IInv, LinkOpen, link, NEW racing \in BOOLEAN, WriteBuffer(racing),
         UNCHANGED subs, ~raced'
  PROVE  /\ ~raced
         /\ \A ch : Heard(pipe[Node] \o obuf, subs[Node], ch)
                    => Heard(pipe[Node] \o obuf, subs[Node], ch)'
<1>0. ctx = "open" /\ raced' = FALSE /\ link = TRUE
  BY WriteEffect, Zenon DEF LinkOpen, IInv, CtxOK
<1>1. /\ raced = FALSE
      /\ \/ pipe' = pipe /\ obuf' = obuf
         \/ pipe' = [pipe EXCEPT ![Node] = pipe[Node] \o obuf] /\ obuf' = <<>>
  BY <1>0 DEF WriteBuffer, Die, ctxVars
<1>2. /\ pipe[Node] \o obuf \in Seq(Commands) /\ pipe \in [{Node} -> Seq(Commands)]
  BY OnWireType DEF IInv, Broker!TypeOK, Commands
<1>3. (pipe[Node] \o obuf) \o <<>> = pipe[Node] \o obuf
  BY <1>2
<1>4. pipe'[Node] \o obuf' = pipe[Node] \o obuf /\ subs'[Node] = subs[Node]
  BY <1>1, <1>2, <1>3
<1> QED BY <1>1, <1>4
LEMMA LinkOpenStep ==
  ASSUME IInv, LinkOpen, Next
  PROVE  LinkOpen'
<1> USE DEF ctxVars
<1>0. CallersWrite \in BOOLEAN /\ \A t \in Callers : OthersWrite(t) \in BOOLEAN
  BY DEF CallersWrite, OthersWrite, ObserverWrites, CallerWrites
<1>1. ASSUME UNCHANGED <<ctx, link>> PROVE LinkOpen'
  BY <1>1 DEF LinkOpen
<1>2. ASSUME NEW t \in Callers,
             \/ CallerStep(t)
             \/ \E ch \in Channels : Subscribe(t, ch) \/ Unsubscribe(t, ch)
      PROVE  UNCHANGED <<ctx, link>>
  <2>1. ASSUME AppendCall(t) PROVE UNCHANGED <<ctx, link>>
    BY <1>0, <2>1, JobIsCommand, AppendEffect DEF AppendCall
  <2>2. ASSUME WriteCall(t) PROVE UNCHANGED <<ctx, link>>
    BY <1>0, <2>2, WriteEffect DEF WriteCall
  <2> QED BY <1>2, <2>1, <2>2 DEF CallerStep, Record, Subscribe, Unsubscribe, Call
<1>3. ASSUME ObserverStep PROVE LinkOpen'
  <2>1. ASSUME ObserverAppend PROVE UNCHANGED <<ctx, link>>
    <3>1. Head(left) \in Channels
      BY <2>1 DEF ObserverAppend, IInv, ObsOK, ListOK
    <3>2. [op |-> "SUBSCRIBE", channel |-> Head(left)] \in Commands
      BY <3>1 DEF Commands, Broker!Commands
    <3> QED BY <1>0, <2>1, <3>2, AppendEffect DEF ObserverAppend
  <2>2. ASSUME ObserverFlush \/ ObserverWrite PROVE UNCHANGED <<ctx, link>>
    BY <1>0, <2>2, WriteEffect DEF ObserverFlush, ObserverWrite
  <2>3. ASSUME ObserverNull PROVE LinkOpen'
    BY <2>3 DEF ObserverNull, LinkOpen, IInv, LinkOK
  <2>4. ASSUME ObserverLost \/ ObserverConnect PROVE LinkOpen'
    BY <2>4 DEF ObserverLost, ObserverConnect, LinkOpen
  <2>5. ASSUME ObserverReceive \/ ObserverLock PROVE UNCHANGED <<ctx, link>>
    BY <2>5 DEF ObserverReceive, ObserverLock
  <2> QED BY <1>1, <1>3, <2>1, <2>2, <2>3, <2>4, <2>5 DEF ObserverStep
<1>4. ASSUME StopFree \/ Outage PROVE LinkOpen'
  BY <1>4 DEF StopFree, Outage, LinkOpen
<1>5. ASSUME Stop \/ StopDetach \/ (\E ch \in Channels : Publish(ch)) \/ RedisServes \/ Recover
      PROVE  UNCHANGED <<ctx, link>>
  BY <1>5 DEF Stop, StopDetach, Publish, RedisServes, Recover
<1> QED BY <1>1, <1>2, <1>3, <1>4, <1>5 DEF Next

LEMMA SerialStep ==
  ASSUME IInv, Serial, Next
  PROVE  Serial'
<1>1. ASSUME UNCHANGED wanted,
             \A u \in Callers : pc'[u] # "idle" => pc[u] # "idle" /\ job'[u] = job[u]
      PROVE  Serial'
  BY <1>1 DEF Serial, Calls
<1>2. ASSUME NEW t \in Callers, NEW ch \in Channels, NEW op \in {"SUBSCRIBE", "UNSUBSCRIBE"},
             Call(t, op, ch)
      PROVE  Serial'
  <2>1. /\ pc[t] = "idle"
        /\ ch \in Exclusive => \A u \in Callers : ~Calls(u, ch)
        /\ wanted' = [wanted EXCEPT ![ch] = op = "SUBSCRIBE"]
        /\ \/ UNCHANGED <<pc, job>>
           \/ /\ pc' = [pc EXCEPT ![t] = "record"]
              /\ job' = [job EXCEPT ![t] = [op |-> op, channel |-> ch]]
    BY <1>2 DEF Call, Calls
  <2>2. /\ wanted'[ch] <=> op = "SUBSCRIBE"
        /\ \A d \in Channels : d # ch => wanted'[d] = wanted[d]
    BY <2>1 DEF IInv, EnvOK
  <2>3. \A u \in Callers : pc'[u] # "idle" =>
          \/ pc[u] # "idle" /\ job'[u] = job[u]
          \/ u = t /\ job'[u] = [op |-> op, channel |-> ch]
    BY <2>1 DEF IInv, CallOK
  <2>4. ASSUME NEW d \in Exclusive, NEW u \in Callers, pc'[u] # "idle", job'[u].channel = d
        PROVE  wanted'[d] <=> job'[u].op = "SUBSCRIBE"
    <3>1. d \in Channels
      BY ClientAssumption
    <3>2. CASE pc[u] # "idle" /\ job'[u] = job[u]
      <4>1. Calls(u, d)
        BY <2>4, <3>2 DEF Calls
      <4>2. d # ch
        BY <2>1, <4>1
      <4> QED BY <2>2, <3>1, <3>2, <4>1, <4>2 DEF Serial
    <3>3. CASE job'[u] = [op |-> op, channel |-> ch]
      <4>1. d = ch /\ job'[u].op = op
        BY <2>4, <3>3
      <4> QED BY <2>2, <4>1
    <3> QED BY <2>3, <2>4, <3>2, <3>3
  <2> QED BY <2>4 DEF Serial, Calls
<1>3. ASSUME NEW t \in Callers, CallerStep(t) PROVE Serial'
  <2>1. /\ UNCHANGED wanted
        /\ \A u \in Callers : pc'[u] # "idle" => pc[u] # "idle" /\ job'[u] = job[u]
    BY <1>3 DEF CallerStep, Record, AppendCall, WriteCall, IInv, CallOK
  <2> QED BY <1>1, <2>1
<1>4. ASSUME UNCHANGED callVars PROVE Serial'
  BY <1>1, <1>4 DEF callVars
<1>5. CASE ObserverStep
  BY <1>4, <1>5 DEF ObserverStep, ObserverFlush, ObserverReceive, ObserverLost, ObserverNull,
                    ObserverConnect, ObserverLock, ObserverAppend, ObserverWrite
<1>6. CASE Stop \/ StopFree \/ StopDetach \/ (\E ch \in Channels : Publish(ch))
             \/ RedisServes \/ Outage \/ Recover
  BY <1>4, <1>6 DEF Stop, StopFree, StopDetach, Publish, RedisServes, Outage, Recover
<1> QED BY <1>2, <1>3, <1>5, <1>6 DEF Next, Subscribe, Unsubscribe
\* The observer does not move, nor a caller that is about to give the command.
LEMMA UnderWayStays ==
  ASSUME NEW ch, UnderWay(ch), UNCHANGED <<obs, left>>,
         \/ ~dead
         \/ dead' /\ \A u \in Callers : Calls(u, ch) => Calls(u, ch)',
         \A u \in Callers : pc[u] \in {"record", "append"} /\ job[u].channel = ch =>
           pc'[u] \in {"record", "append"} /\ job'[u].channel = ch,
         Heard(pipe[Node] \o obuf, subs[Node], ch) => Heard(pipe[Node] \o obuf, subs[Node], ch)'
  PROVE  UnderWay(ch)'
<1>1. CASE obs \in {"null", "connect", "lock", "quit"} \/ (obs = "append" /\ ch \in Range(left))
  BY <1>1 DEF UnderWay, Range
<1>2. CASE \E t \in Callers : pc[t] \in {"record", "append"} /\ job[t].channel = ch
  BY <1>2 DEF UnderWay
<1>3. CASE dead /\ (obs # "read" \/ \E t \in Callers : Calls(t, ch))
  BY <1>3 DEF UnderWay
<1>4. CASE Heard(pipe[Node] \o obuf, subs[Node], ch)
  BY <1>4 DEF UnderWay
<1> QED BY <1>1, <1>2, <1>3, <1>4 DEF UnderWay

LEMMA FollowedOfCall ==
  ASSUME IInv, LinkOpen, Followed, NEW t \in Callers, NEW c \in Channels, NEW op, Call(t, op, c)
  PROVE  Followed'
<1>1. /\ pc[t] = "idle" /\ dead = FALSE
      /\ UNCHANGED <<ctx, link, obuf, channels, obs, left, dead, raced, pipe, subs>>
      /\ wanted' = [wanted EXCEPT ![c] = op = "SUBSCRIBE"]
      /\ \/ UNCHANGED <<pc, job>>
         \/ /\ pc' = [pc EXCEPT ![t] = "record"]
            /\ job' = [job EXCEPT ![t] = [op |-> op, channel |-> c]]
  BY DEF Call, ctxVars, obsVars, endVars, redisVars, IInv, EndOK
<1> SUFFICES ASSUME ~raced', link', NEW ch \in Exclusive, wanted'[ch], ch \in Range(channels')
             PROVE  UnderWay(ch)'
  BY DEF Followed
<1>2. CASE c = ch
  <2>1. ctx = "open"
    BY <1>1, Zenon DEF LinkOpen
  <2>2. pc'[t] = "record" /\ job'[t].channel = ch
    BY <1>2, <2>1 DEF Call, IInv, CallOK
  <2> QED BY <2>2 DEF UnderWay
<1>3. CASE c # ch
  <2>1. wanted'[ch] = wanted[ch]
    BY <1>1, <1>3, ClientAssumption DEF IInv, EnvOK
  <2>2. UnderWay(ch)
    BY <1>1, <2>1, Zenon DEF Followed, Range
  <2>3. \A u \in Callers : pc[u] # "idle" => pc'[u] = pc[u] /\ job'[u] = job[u]
    BY <1>1 DEF IInv, CallOK
  <2>4. Heard(pipe[Node] \o obuf, subs[Node], ch) => Heard(pipe[Node] \o obuf, subs[Node], ch)'
    BY <1>1
  <2> QED BY <1>1, <2>2, <2>3, <2>4, UnderWayStays
<1> QED BY <1>2, <1>3

LEMMA FollowedOfCaller ==
  ASSUME IInv, LinkOpen, Serial, Followed, NEW t \in Callers, CallerStep(t)
  PROVE  Followed'
<1>0. OthersWrite(t) \in BOOLEAN /\ dead = FALSE /\ pc[t] # "idle" /\ job[t] \in Commands
  <2>1. pc[t] # "idle" /\ ~dead
    BY DEF CallerStep, Record, AppendCall, WriteCall
  <2>2. dead = FALSE
    BY <2>1, Zenon DEF IInv, EndOK
  <2> QED BY <2>1, <2>2, JobIsCommand DEF OthersWrite, ObserverWrites, CallerWrites
<1> SUFFICES ASSUME ~raced', link', NEW ch \in Exclusive, wanted'[ch], ch \in Range(channels')
             PROVE  UnderWay(ch)'
  BY DEF Followed
<1>1. UNCHANGED <<obs, left, subs, wanted, stage>>
  BY DEF CallerStep, Record, AppendCall, WriteCall, obsVars, endVars, redisVars
<1>2. \A u \in Callers : u # t => pc'[u] = pc[u] /\ job'[u] = job[u]
  BY DEF CallerStep, Record, AppendCall, WriteCall, IInv, CallOK
<1>3. CASE Record(t)
  <2>1. /\ UNCHANGED <<link, obuf, pipe, raced, dead, job>> /\ pc'[t] = "append"
    BY <1>3 DEF Record, ctxVars, endVars, redisVars, IInv, CallOK
  <2>2. CASE job[t].channel = ch
    BY <2>1, <2>2 DEF UnderWay
  <2>3. CASE job[t].channel # ch
    <3>1. ch \in Range(channels)
      <4>1. channels \in Seq(Channels)
        BY DEF IInv, ListOK
      <4>2. ASSUME channels' = Append(channels, job[t].channel) PROVE ch \in Range(channels)
        BY <2>3, <4>1, <4>2 DEF Range
      <4>3. ASSUME channels' = RemoveFirst(channels, job[t].channel)
            PROVE  ch \in Range(channels)
        <5>1. ch \in Range(RemoveFirst(channels, job[t].channel))
          BY <4>3 DEF Range
        <5> QED BY <4>1, <5>1, RemoveFirstRange
      <4> QED BY <1>3, <4>2, <4>3 DEF Record
    <3>2. UnderWay(ch)
      BY <1>1, <2>1, <3>1, Zenon DEF Followed
    <3>3. Heard(pipe[Node] \o obuf, subs[Node], ch) => Heard(pipe[Node] \o obuf, subs[Node], ch)'
      BY <1>1, <2>1
    <3> QED BY <1>0, <1>1, <1>2, <2>1, <2>3, <3>2, <3>3, UnderWayStays
  <2> QED BY <2>2, <2>3
<1>4. CASE AppendCall(t)
  <2>1. /\ AppendCommand(job[t], OthersWrite(t)) /\ UNCHANGED <<channels, job>>
        /\ pc'[t] = "write"
    BY <1>4 DEF AppendCall, IInv, CallOK
  <2>2. link' = link
    BY <1>0, <2>1, AppendEffect
  <2>3. link /\ ch \in Range(channels) /\ wanted[ch]
    BY <1>1, <2>1, <2>2 DEF Range
  <2>4. PICK cmd \in Commands : cmd = job[t]
    BY <1>0
  <2>5. /\ ~raced
        /\ Heard(pipe[Node] \o obuf, subs[Node], ch) /\ cmd # Unsub(ch)
             => Heard(pipe[Node] \o obuf, subs[Node], ch)'
        /\ dead' \/ (cmd = Sub(ch) => Heard(pipe[Node] \o obuf, subs[Node], ch)')
    BY <1>0, <1>1, <2>1, <2>3, <2>4, AppendHeard
  <2>6. CASE cmd.channel = ch
    <3>1. Calls(t, ch) /\ Calls(t, ch)'
      BY <1>0, <2>1, <2>4, <2>6 DEF Calls
    <3>2. cmd.op = "SUBSCRIBE"
      BY <2>3, <2>4, <3>1 DEF Serial
    <3>3. cmd = Sub(ch)
      BY <2>6, <3>2 DEF Commands, Broker!Commands, Sub
    <3> QED BY <2>5, <3>1, <3>3 DEF UnderWay
  <2>7. CASE cmd.channel # ch
    <3>1. cmd # Unsub(ch)
      BY <2>7 DEF Unsub
    <3>2. UnderWay(ch)
      BY <2>3, <2>5, Zenon DEF Followed
    <3> QED BY <1>0, <1>1, <1>2, <2>1, <2>4, <2>5, <2>7, <3>1, <3>2, UnderWayStays
  <2> QED BY <2>6, <2>7
<1>5. CASE WriteCall(t)
  <2>1. /\ WriteBuffer(OthersWrite(t)) /\ UNCHANGED channels /\ pc[t] = "write"
    BY <1>5 DEF WriteCall
  <2>2. link' = link
    BY <1>0, <2>1, WriteEffect
  <2>3. link /\ ch \in Range(channels) /\ wanted[ch]
    BY <1>1, <2>1, <2>2 DEF Range
  <2>4. /\ ~raced
        /\ Heard(pipe[Node] \o obuf, subs[Node], ch)
             => Heard(pipe[Node] \o obuf, subs[Node], ch)'
    BY <1>0, <1>1, <2>1, <2>3, WriteHeard
  <2>5. UnderWay(ch)
    BY <2>3, <2>4, Zenon DEF Followed
  <2> QED BY <1>0, <1>1, <1>2, <2>1, <2>4, <2>5, UnderWayStays
<1> QED BY <1>3, <1>4, <1>5 DEF CallerStep

LEMMA FollowedOfObserver ==
  ASSUME IInv, LinkOpen, Followed, ObserverStep
  PROVE  Followed'
<1>0. CallersWrite \in BOOLEAN /\ dead = FALSE
  <2>1. ~dead
    BY DEF ObserverStep, ObserverFlush, ObserverReceive, ObserverLost, ObserverNull,
           ObserverConnect, ObserverLock, ObserverAppend, ObserverWrite
  <2>2. dead = FALSE
    BY <2>1, Zenon DEF IInv, EndOK
  <2> QED BY <2>2 DEF CallersWrite
<1> SUFFICES ASSUME ~raced', link', NEW ch \in Exclusive, wanted'[ch], ch \in Range(channels')
             PROVE  UnderWay(ch)'
  BY DEF Followed
<1>1. UNCHANGED <<channels, pc, job, wanted, subs>>
  BY DEF ObserverStep, ObserverFlush, ObserverReceive, ObserverLost, ObserverNull,
         ObserverConnect, ObserverLock, ObserverAppend, ObserverWrite, callVars, redisVars,
         Broker!Receive
<1>2. wanted[ch] /\ ch \in Range(channels)
  BY <1>1 DEF Range
<1>3. ASSUME obs' \in {"null", "connect", "lock", "quit"} PROVE UnderWay(ch)'
  BY <1>3 DEF UnderWay
<1>4. ASSUME UnderWay(ch), obs \in {"flush", "read", "write"},
             Heard(pipe[Node] \o obuf, subs[Node], ch)
               => Heard(pipe[Node] \o obuf, subs[Node], ch)'
      PROVE  UnderWay(ch)'
  <2>1. \/ \E t \in Callers : pc[t] \in {"record", "append"} /\ job[t].channel = ch
        \/ Heard(pipe[Node] \o obuf, subs[Node], ch)
    BY <1>0, <1>4 DEF UnderWay
  <2> QED BY <1>1, <1>4, <2>1 DEF UnderWay
<1>5. CASE ObserverFlush \/ ObserverWrite
  <2>1. WriteBuffer(CallersWrite) /\ obs \in {"flush", "write"}
    BY <1>5 DEF ObserverFlush, ObserverWrite
  <2>2. link' = link
    BY <1>0, <2>1, WriteEffect
  <2>3. /\ ~raced
        /\ Heard(pipe[Node] \o obuf, subs[Node], ch)
             => Heard(pipe[Node] \o obuf, subs[Node], ch)'
    BY <1>0, <1>1, <2>1, <2>2, WriteHeard
  <2>4. UnderWay(ch)
    BY <1>2, <2>2, <2>3, Zenon DEF Followed
  <2> QED BY <1>4, <2>1, <2>3, <2>4
<1>6. CASE ObserverReceive
  <2>1. obs = "read" /\ UNCHANGED <<link, obuf, raced, pipe>>
    BY <1>6 DEF ObserverReceive, ctxVars, endVars, Broker!Receive
  <2>2. UnderWay(ch)
    BY <1>2, <2>1, Zenon DEF Followed
  <2>3. Heard(pipe[Node] \o obuf, subs[Node], ch) => Heard(pipe[Node] \o obuf, subs[Node], ch)'
    BY <1>1, <2>1
  <2> QED BY <1>4, <2>1, <2>2, <2>3
<1>7. CASE ObserverLost \/ ObserverNull \/ ObserverConnect
  BY <1>3, <1>7 DEF ObserverLost, ObserverNull, ObserverConnect
<1>8. CASE ObserverLock
  <2>1. channels # <<>>
    BY <1>2 DEF Range
  <2>2. left' = channels /\ obs' \in {"quit", "append"}
    BY <1>8, <2>1 DEF ObserverLock
  <2> QED BY <1>2, <1>3, <2>2 DEF UnderWay, Range
<1>9. CASE ObserverAppend
  <2>1. /\ AppendCommand([op |-> "SUBSCRIBE", channel |-> Head(left)], CallersWrite)
        /\ obs = "append" /\ left # <<>> /\ left \in Seq(Channels) /\ left' = Tail(left)
        /\ obs' = IF left' = <<>> THEN "write" ELSE "append"
    BY <1>9 DEF ObserverAppend, IInv, ObsOK, ListOK
  <2>2. PICK cmd \in Commands : cmd = Sub(Head(left))
    <3>1. Head(left) \in Channels
      BY <2>1
    <3> QED BY <3>1 DEF Commands, Broker!Commands, Sub
  <2>3. AppendCommand(cmd, CallersWrite) /\ link' = link
    BY <1>0, <2>1, <2>2, AppendEffect DEF Sub
  <2>4. /\ ~raced
        /\ Heard(pipe[Node] \o obuf, subs[Node], ch) /\ cmd # Unsub(ch)
             => Heard(pipe[Node] \o obuf, subs[Node], ch)'
        /\ dead' \/ (cmd = Sub(ch) => Heard(pipe[Node] \o obuf, subs[Node], ch)')
    BY <1>0, <1>1, <2>3, AppendHeard
  <2>5. cmd # Unsub(ch)
    BY <2>2 DEF Sub, Unsub
  <2>6. UnderWay(ch)
    BY <1>2, <2>3, <2>4, Zenon DEF Followed
  <2>7. CASE dead'
    BY <2>1, <2>7 DEF UnderWay
  <2>8. CASE ~dead' /\ ch = Head(left)
    BY <2>2, <2>4, <2>8 DEF UnderWay
  <2>9. CASE ch # Head(left) /\ ch \in Range(left)
    <3>1. PICK i \in DOMAIN left : left[i] = ch
      BY <2>9 DEF Range
    <3>2. i \in 1..Len(left) /\ i # 1
      BY <2>1, <2>9, <3>1
    <3>3. i - 1 \in DOMAIN left' /\ left'[i - 1] = ch /\ left' # <<>>
      BY <2>1, <3>1, <3>2
    <3> QED BY <2>1, <3>3 DEF UnderWay, Range
  <2>10. CASE ch \notin Range(left)
    <3>1. \/ \E t \in Callers : pc[t] \in {"record", "append"} /\ job[t].channel = ch
          \/ Heard(pipe[Node] \o obuf, subs[Node], ch)
      BY <1>0, <2>1, <2>6, <2>10 DEF UnderWay
    <3> QED BY <1>1, <2>4, <2>5, <3>1 DEF UnderWay
  <2> QED BY <2>7, <2>8, <2>9, <2>10
<1> QED BY <1>5, <1>6, <1>7, <1>8, <1>9 DEF ObserverStep
LEMMA FollowedOfRest ==
  ASSUME IInv, LinkOpen, Followed,
         \/ Stop \/ StopFree \/ StopDetach
         \/ (\E ch \in Channels : Publish(ch)) \/ RedisServes \/ Outage \/ Recover
  PROVE  Followed'
<1> SUFFICES ASSUME ~raced', link', NEW ch \in Exclusive, wanted'[ch], ch \in Range(channels')
             PROVE  UnderWay(ch)'
  BY DEF Followed
<1>1. /\ UNCHANGED <<channels, obs, left, pc, job, wanted, raced>> /\ link' = link
      /\ dead' = dead \/ dead = FALSE
  <2>1. ASSUME StopFree PROVE dead = FALSE
    <3>1. ~dead
      BY <2>1 DEF StopFree
    <3> QED BY <3>1, Zenon DEF IInv, EndOK
  <2> QED BY <2>1 DEF Stop, StopFree, StopDetach, Publish, RedisServes, Outage, Recover,
                      ctxVars, obsVars, callVars, endVars, envVars, redisVars
<1>2. UnderWay(ch)
  BY <1>1, Zenon DEF Followed, Range
<1>3. ASSUME Heard(pipe[Node] \o obuf, subs[Node], ch)
               => Heard(pipe[Node] \o obuf, subs[Node], ch)'
      PROVE  UnderWay(ch)'
  BY <1>1, <1>2, <1>3, UnderWayStays DEF Calls
<1>4. ASSUME UNCHANGED <<obuf, pipe, subs>> PROVE UnderWay(ch)'
  BY <1>3, <1>4
<1>5. CASE Stop \/ StopFree \/ StopDetach \/ (\E d \in Channels : Publish(d)) \/ Outage \/ Recover
  BY <1>4, <1>5 DEF Stop, StopFree, StopDetach, Publish, Outage, Recover, ctxVars, redisVars,
                    Broker!Publish
<1>6. CASE RedisServes
  <2>1. Broker!Serve(Node) /\ UNCHANGED obuf
    BY <1>6 DEF RedisServes, ctxVars
  <2>2. /\ pipe[Node] # <<>> /\ pipe \in [{Node} -> Seq(Commands)]
        /\ subs \in [{Node} -> SUBSET Channels]
        /\ pipe[Node] \in Seq(Commands) /\ obuf \in Seq(Commands)
    BY <2>1, OnWireType DEF Broker!Serve, IInv, Broker!TypeOK, Commands
  <2>3. PICK w, on :
          w \in Seq(Commands) /\ w = pipe[Node] \o obuf /\ on = subs[Node] /\ w # <<>>
          /\ Head(w) = Head(pipe[Node]) /\ Tail(w) = Tail(pipe[Node]) \o obuf
    <3>1. \A p, o \in Seq(Commands) : p # <<>> =>
            /\ Head(p \o o) = Head(p) /\ Tail(p \o o) = Tail(p) \o o /\ p \o o # <<>>
            /\ p \o o \in Seq(Commands)
      OBVIOUS
    <3> QED BY <2>2, <3>1
  <2>4. pipe'[Node] \o obuf' = Tail(w)
    BY <2>1, <2>2, <2>3 DEF Broker!Serve
  <2>5. subs'[Node] = IF Head(w).op = "SUBSCRIBE" THEN on \cup {Head(w).channel}
                      ELSE on \ {Head(w).channel}
    <3>1. PICK cmd : cmd = Head(pipe[Node]) /\ cmd = Head(w)
      BY <2>3
    <3>2. subs' = [subs EXCEPT ![Node] = IF cmd.op = "SUBSCRIBE"
                                         THEN subs[Node] \cup {cmd.channel}
                                         ELSE subs[Node] \ {cmd.channel}]
      BY <2>1, <3>1 DEF Broker!Serve
    <3> QED BY <2>2, <2>3, <3>1, <3>2
  <2>6. Heard(w, on, ch) => Heard(pipe[Node] \o obuf, subs[Node], ch)'
    <3>1. PICK after : after = IF Head(w).op = "SUBSCRIBE" THEN on \cup {Head(w).channel}
                               ELSE on \ {Head(w).channel}
      OBVIOUS
    <3>2. Heard(w, on, ch) => Heard(Tail(w), after, ch)
      BY <2>3, <3>1, HeardServe, Zenon
    <3>3. pipe'[Node] \o obuf' = Tail(w) /\ subs'[Node] = after
      BY <2>4, <2>5, <3>1
    <3> QED BY <3>2, <3>3
  <2> QED BY <1>3, <2>3, <2>6
<1> QED BY <1>5, <1>6

LEMMA FollowedStep ==
  IInv /\ LinkOpen /\ Serial /\ Followed /\ [Next]_vars => (LinkOpen /\ Serial /\ Followed)'
<1> SUFFICES ASSUME IInv, LinkOpen, Serial, Followed, [Next]_vars
             PROVE  (LinkOpen /\ Serial /\ Followed)'
  OBVIOUS
<1>1. CASE Next
  BY <1>1, LinkOpenStep, SerialStep, FollowedOfCall, FollowedOfCaller, FollowedOfObserver,
     FollowedOfRest DEF Next, Subscribe, Unsubscribe
<1>2. CASE UNCHANGED vars
  BY <1>2 DEF vars, ctxVars, obsVars, callVars, endVars, envVars, redisVars,
              LinkOpen, Serial, Followed, Calls, UnderWay, Range
<1> QED BY <1>1, <1>2

\* Whenever things are quiet, Redis has the process subscribed to the channel
\* of every user who wants it and whose subscribe was recorded, whatever
\* outages and reconnects came between and however many IO threads called
\* while the observer freed, connected and subscribed again.
THEOREM RedisClientWantedIsSubscribed == Spec => []WantedIsSubscribed
<1>1. Init => LinkOpen /\ Serial /\ Followed
  BY DEF Init, LinkOpen, Serial, Calls, Followed, Range
<1>2. IInv /\ Followed => WantedIsSubscribed
  <2> SUFFICES ASSUME IInv, Followed, ~raced, NEW ch \in Exclusive,
                      Quiet(ch), wanted[ch], ch \in Range(channels)
               PROVE  ch \in subs[Node]
    BY DEF WantedIsSubscribed
  <2>1. UnderWay(ch)
    BY Zenon DEF Followed, Quiet
  <2>2. pipe[Node] \o obuf = <<>>
    BY DEF Quiet
  <2>3. \/ \E t \in Callers : pc[t] \in {"record", "append"} /\ job[t].channel = ch
        \/ \E t \in Callers : Calls(t, ch)
        \/ Heard(<<>>, subs[Node], ch)
    BY <2>1, <2>2 DEF UnderWay, Quiet
  <2> QED BY <2>3 DEF Quiet, Calls, Heard
<1> QED BY <1>1, <1>2, InitClient, ClientStep, FollowedStep, PTL DEF Spec
=============================================================================
