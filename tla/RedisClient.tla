----------------------------- MODULE RedisClient -----------------------------
(***************************************************************************)
(* The Redis client of one server process (src/server/redis/redis.cpp):    *)
(* connecting, subscribing and unsubscribing on the IO threads, the        *)
(* observer thread that reads, reconnects and subscribes again, publishing *)
(* and the destructor.                                                     *)
(*                                                                         *)
(* _subscribe_context is shared without a lock.  A hiredis call on it is   *)
(* one step here.  Where two threads may be inside hiredis at once the     *)
(* code has a data race: the model lets the calls take effect one after    *)
(* the other, or lose what the racing call did, or kill the process.  A    *)
(* call on a context that was freed does nothing or kills the process, and *)
(* one on a null pointer kills it.                                         *)
(*                                                                         *)
(* redisConnect returns a context also when it could not connect; such a   *)
(* context, like one whose connection broke, answers every read with an    *)
(* error and loses what is written to it.                                  *)
(***************************************************************************)
EXTENDS Naturals, Sequences

CONSTANTS
  Node,        \* the server process
  Callers,     \* its IO threads
  Channels,    \* one channel per user id
  Exclusive,   \* the channels of users whose sessions do not overlap
  MaxCalls,    \* bound: how many calls of subscribe and unsubscribe
  MaxOutages,  \* bound: how often Redis goes down
  MaxPosts     \* bound: how many messages are published

ASSUME ClientAssumption ==
  /\ Exclusive \subseteq Channels
  /\ MaxCalls \in Nat /\ MaxOutages \in Nat /\ MaxPosts \in Nat

VARIABLES
  ctx,       \* _subscribe_context: "open", "freed" or "null"
  link,      \* its TCP connection stands
  obuf,      \* its output buffer
  channels,  \* _channels
  obs,       \* the next step of the observer thread
  left,      \* the channels its loop has yet to subscribe again
  pc, job,   \* per IO thread: the next step of its call, and the call
  stage,     \* how far the destructor has come
  dead,      \* the process was killed by a memory error
  raced,     \* a racing call lost a command
  wanted,    \* wanted[ch]: the last call for ch was a subscribe
  redisUp,   \* the Redis server runs
  pubUp,     \* the connection of _publish_context stands
  calls, outages, posts,  \* counters
  pipe, subs, bus         \* Redis, as this process uses it

ctxVars   == <<ctx, link, obuf>>
obsVars   == <<obs, left>>
callVars  == <<pc, job, wanted, calls>>
endVars   == <<stage, dead, raced>>
envVars   == <<redisUp, pubUp, outages, posts>>
redisVars == <<pipe, subs, bus>>

vars == <<ctxVars, channels, obsVars, callVars, endVars, envVars, redisVars>>

Broker == INSTANCE Redis WITH Servers <- {Node}, Payloads <- 1..MaxPosts

NoJob == [op |-> "NONE"]

\* connect(): both contexts exist, connected if Redis runs.
Init ==
  /\ redisUp \in BOOLEAN
  /\ ctx = "open" /\ link = redisUp /\ obuf = <<>>
  /\ channels = <<>>
  /\ obs = "flush" /\ left = <<>>
  /\ pc = [t \in Callers |-> "idle"]
  /\ job = [t \in Callers |-> NoJob]
  /\ wanted = [ch \in Channels |-> FALSE]
  /\ stage = "running" /\ dead = FALSE /\ raced = FALSE
  /\ pubUp = redisUp
  /\ calls = 0 /\ outages = 0 /\ posts = 0
  /\ Broker!Init

-----------------------------------------------------------------------------
(* hiredis                                                                 *)

\* The thread is about to use, or inside, the output buffer of the context.
CallerWrites(t)  == pc[t] \in {"append", "write"}
ObserverWrites   == obs \in {"flush", "append", "write"}
OthersWrite(t)   == ObserverWrites \/ \E u \in Callers \ {t} : CallerWrites(u)
CallersWrite     == \E t \in Callers : CallerWrites(t)

Die == dead' = TRUE /\ UNCHANGED <<ctxVars, raced, pipe>>

\* redisAppendCommand
AppendCommand(cmd, racing) ==
  \/ /\ ctx = "open"
     /\ obuf' = Append(obuf, cmd)
     /\ UNCHANGED <<ctx, link, pipe, dead, raced>>
  \/ /\ racing
     /\ raced' = TRUE
     /\ UNCHANGED <<ctxVars, pipe, dead>>
  \/ /\ ctx = "freed"
     /\ UNCHANGED <<ctxVars, pipe, dead, raced>>
  \/ (racing \/ ctx # "open") /\ Die

\* redisBufferWrite until it is done or fails
WriteBuffer(racing) ==
  \/ /\ ctx = "open"
     /\ pipe' = IF link THEN [pipe EXCEPT ![Node] = @ \o obuf] ELSE pipe
     /\ obuf' = IF link THEN <<>> ELSE obuf
     /\ UNCHANGED <<ctx, link, dead, raced>>
  \/ /\ racing
     /\ raced' = TRUE
     /\ obuf' = <<>>
     /\ UNCHANGED <<ctx, link, pipe, dead>>
  \/ /\ ctx = "freed"
     /\ UNCHANGED <<ctxVars, pipe, dead, raced>>
  \/ (racing \/ ctx # "open") /\ Die

-----------------------------------------------------------------------------
(* subscribe and unsubscribe, called on the IO threads                     *)

\* The calls for an exclusive channel come one after the other.
Call(t, op, ch) ==
  /\ pc[t] = "idle" /\ stage = "running" /\ ~dead
  /\ calls < MaxCalls
  /\ ch \in Exclusive => \A u \in Callers : pc[u] # "idle" => job[u].channel # ch
  /\ calls' = calls + 1
  /\ wanted' = [wanted EXCEPT ![ch] = op = "SUBSCRIBE"]
  /\ IF ctx = "null"
     THEN UNCHANGED <<pc, job>>
     ELSE /\ pc' = [pc EXCEPT ![t] = "record"]
          /\ job' = [job EXCEPT ![t] = [op |-> op, channel |-> ch]]
  /\ UNCHANGED <<ctxVars, channels, obsVars, endVars, envVars, redisVars>>

Subscribe(t, ch)   == Call(t, "SUBSCRIBE", ch)
Unsubscribe(t, ch) == Call(t, "UNSUBSCRIBE", ch)

RemoveFirst(s, x) ==
  LET hits == {i \in DOMAIN s : s[i] = x}
      i == CHOOSE i \in hits : \A j \in hits : i <= j
  IN  IF hits = {} THEN s
      ELSE [j \in 1..(Len(s) - 1) |-> IF j < i THEN s[j] ELSE s[j + 1]]

\* Under _channels_mutex, which the observer holds while it subscribes again.
Record(t) ==
  /\ pc[t] = "record" /\ obs # "append" /\ ~dead
  /\ channels' = IF job[t].op = "SUBSCRIBE"
                 THEN Append(channels, job[t].channel)
                 ELSE RemoveFirst(channels, job[t].channel)
  /\ pc' = [pc EXCEPT ![t] = "append"]
  /\ UNCHANGED <<ctxVars, obsVars, job, wanted, calls, endVars, envVars, redisVars>>

AppendCall(t) ==
  /\ pc[t] = "append" /\ ~dead
  /\ AppendCommand(job[t], OthersWrite(t))
  /\ pc' = [pc EXCEPT ![t] = "write"]
  /\ UNCHANGED <<channels, obsVars, job, wanted, calls, stage, envVars, subs, bus>>

WriteCall(t) ==
  /\ pc[t] = "write" /\ ~dead
  /\ WriteBuffer(OthersWrite(t))
  /\ pc' = [pc EXCEPT ![t] = "idle"]
  /\ job' = [job EXCEPT ![t] = NoJob]
  /\ UNCHANGED <<channels, obsVars, wanted, calls, stage, envVars, subs, bus>>

-----------------------------------------------------------------------------
(* observer_channel_message, on a thread of its own                        *)

stopping == stage # "running"

\* Faulty variant: the buffer overtakes what was written before.
ObserverFlushLate ==
  /\ obs = "flush" /\ ~dead
  /\ pipe' = IF link THEN [pipe EXCEPT ![Node] = obuf \o @] ELSE pipe
  /\ obuf' = IF link THEN <<>> ELSE obuf
  /\ obs' = "read"
  /\ UNCHANGED <<ctx, link, channels, left, callVars, endVars, envVars, subs, bus>>

\* The part of redisGetReply before it blocks: the buffer is written out.
ObserverFlush ==
  /\ obs = "flush" /\ ~dead
  /\ WriteBuffer(CallersWrite)
  /\ obs' = "read"
  /\ UNCHANGED <<channels, left, callVars, stage, envVars, subs, bus>>

\* A message, which goes to the handler of the service.
ObserverReceive ==
  /\ obs = "read" /\ ~dead
  /\ ctx = "open" /\ link
  /\ Broker!Receive(Node)
  /\ obs' = IF stopping THEN "quit" ELSE "flush"
  /\ UNCHANGED <<ctxVars, channels, left, callVars, endVars, envVars>>

\* Faulty variant: the loop goes on without connecting again.
ObserverLostContinues ==
  /\ obs = "read" /\ ~dead
  /\ ~link
  /\ IF stopping
     THEN obs' = "quit" /\ UNCHANGED ctx
     ELSE obs' = "flush" /\ ctx' = "freed"
  /\ UNCHANGED <<link, obuf, channels, left, callVars, endVars, envVars, redisVars>>

\* An error, then redisFree.  The context may have been freed meanwhile.
ObserverLost ==
  /\ obs = "read" /\ ~dead
  /\ ~link
  /\ IF stopping
     THEN obs' = "quit" /\ dead' \in {FALSE, ctx = "null"} /\ UNCHANGED ctx
     ELSE obs' = "null" /\ ctx' = "freed" /\ UNCHANGED dead
  /\ UNCHANGED <<link, obuf, channels, left, callVars, stage, raced, envVars, redisVars>>

ObserverNull ==
  /\ obs = "null" /\ ~dead
  /\ ctx' = "null"
  /\ obs' = "connect"
  /\ UNCHANGED <<link, obuf, channels, left, callVars, endVars, envVars, redisVars>>

\* Faulty variant: the outer loop is left when redisConnect has no connection.
ObserverConnectOnce ==
  /\ obs = "connect" /\ ~dead
  /\ IF stopping \/ ~redisUp
     THEN obs' = "quit" /\ UNCHANGED ctxVars
     ELSE obs' = "lock" /\ ctx' = "open" /\ link' = redisUp /\ obuf' = <<>>
  /\ UNCHANGED <<channels, left, callVars, endVars, envVars, redisVars>>

\* The context is never null, so the retry loop ends after one attempt.
ObserverConnect ==
  /\ obs = "connect" /\ ~dead
  /\ IF stopping
     THEN obs' = "quit" /\ UNCHANGED ctxVars
     ELSE obs' = "lock" /\ ctx' = "open" /\ link' = redisUp /\ obuf' = <<>>
  /\ UNCHANGED <<channels, left, callVars, endVars, envVars, redisVars>>

\* Faulty variant: the list is not subscribed again.
ObserverLockNothing ==
  /\ obs = "lock" /\ ~dead
  /\ obs' = IF stopping THEN "quit" ELSE "write"
  /\ UNCHANGED <<ctxVars, channels, left, callVars, endVars, envVars, redisVars>>

ObserverLock ==
  /\ obs = "lock" /\ ~dead
  /\ left' = channels
  /\ obs' = IF stopping THEN "quit" ELSE IF channels = <<>> THEN "write" ELSE "append"
  /\ UNCHANGED <<ctxVars, channels, callVars, endVars, envVars, redisVars>>

ObserverAppend ==
  /\ obs = "append" /\ ~dead
  /\ AppendCommand([op |-> "SUBSCRIBE", channel |-> Head(left)], CallersWrite)
  /\ left' = Tail(left)
  /\ obs' = IF left' = <<>> THEN "write" ELSE "append"
  /\ UNCHANGED <<channels, callVars, stage, envVars, subs, bus>>

ObserverWrite ==
  /\ obs = "write" /\ ~dead
  /\ WriteBuffer(CallersWrite)
  /\ obs' = IF stopping THEN "quit" ELSE "flush"
  /\ UNCHANGED <<channels, left, callVars, stage, envVars, subs, bus>>

-----------------------------------------------------------------------------
(* The destructor, when the IO threads have been joined                    *)

Stop ==
  /\ stage = "running" /\ ~dead
  /\ \A t \in Callers : pc[t] = "idle"
  /\ stage' = "stopping"
  /\ UNCHANGED <<ctxVars, channels, obsVars, callVars, dead, raced, envVars, redisVars>>

\* The context is freed under the observer, which may be about to use it,
\* blocked in a read on it, or have freed it just now.
StopFree ==
  /\ stage = "stopping" /\ ~dead
  /\ stage' = "freed"
  /\ IF ctx = "open"
     THEN ctx' = "null" /\ link' = FALSE /\ obuf' = <<>> /\ Broker!Disconnect(Node)
     ELSE UNCHANGED <<ctxVars, redisVars>>
  /\ dead' \in {FALSE, ctx = "freed"}
  /\ UNCHANGED <<channels, obsVars, callVars, raced, envVars>>

\* The observer thread is detached, not joined.
StopDetach ==
  /\ stage = "freed" /\ ~dead
  /\ stage' = "destroyed"
  /\ pubUp' = FALSE
  /\ UNCHANGED <<ctxVars, channels, obsVars, callVars, dead, raced, redisUp,
                 outages, posts, redisVars>>

-----------------------------------------------------------------------------
(* publish, and the Redis server                                           *)

\* Over a context of its own, which nobody ever connects again.
Publish(ch) ==
  /\ stage = "running" /\ ~dead
  /\ posts < MaxPosts
  /\ posts' = posts + 1
  /\ IF pubUp THEN Broker!Publish(ch, posts') ELSE UNCHANGED redisVars
  /\ UNCHANGED <<ctxVars, channels, obsVars, callVars, endVars, redisUp, pubUp, outages>>

RedisServes ==
  /\ Broker!Serve(Node)
  /\ UNCHANGED <<ctxVars, channels, obsVars, callVars, endVars, envVars>>

Outage ==
  /\ redisUp /\ outages < MaxOutages
  /\ outages' = outages + 1
  /\ redisUp' = FALSE /\ link' = FALSE /\ pubUp' = FALSE
  /\ Broker!Disconnect(Node)
  /\ UNCHANGED <<ctx, obuf, channels, obsVars, callVars, endVars, posts>>

Recover ==
  /\ ~redisUp
  /\ redisUp' = TRUE
  /\ UNCHANGED <<ctxVars, channels, obsVars, callVars, endVars, pubUp, outages,
                 posts, redisVars>>

-----------------------------------------------------------------------------
CallerStep(t) == Record(t) \/ AppendCall(t) \/ WriteCall(t)

ObserverStep ==
  \/ ObserverFlush \/ ObserverReceive \/ ObserverLost \/ ObserverNull
  \/ ObserverConnect \/ ObserverLock \/ ObserverAppend \/ ObserverWrite

Next ==
  \/ \E t \in Callers :
       \/ \E ch \in Channels : Subscribe(t, ch) \/ Unsubscribe(t, ch)
       \/ CallerStep(t)
  \/ ObserverStep
  \/ Stop \/ StopFree \/ StopDetach
  \/ \E ch \in Channels : Publish(ch)
  \/ RedisServes \/ Outage \/ Recover

Spec == Init /\ [][Next]_vars

\* The threads run, and Redis acts on what it is sent.
Fairness ==
  /\ \A t \in Callers : WF_vars(CallerStep(t))
  /\ WF_vars(ObserverStep) /\ WF_vars(RedisServes)

FairSpec == Spec /\ Fairness

-----------------------------------------------------------------------------
(* Properties                                                              *)

Range(f) == {f[x] : x \in DOMAIN f}

Commands == Broker!Commands

\* Types; and the context is only missing while the observer replaces it or
\* once the destructor has begun.
TypeOK ==
  /\ ctx \in {"open", "freed", "null"}
  /\ link \in BOOLEAN
  /\ obuf \in Seq(Commands)
  /\ channels \in Seq(Channels)
  /\ obs \in {"flush", "read", "null", "connect", "lock", "append", "write", "quit"}
  /\ left \in Seq(Channels)
  /\ pc \in [Callers -> {"idle", "record", "append", "write"}]
  /\ job \in [Callers -> Commands \cup {NoJob}]
  /\ stage \in {"running", "stopping", "freed", "destroyed"}
  /\ dead \in BOOLEAN /\ raced \in BOOLEAN
  /\ wanted \in [Channels -> BOOLEAN]
  /\ redisUp \in BOOLEAN /\ pubUp \in BOOLEAN
  /\ calls \in 0..MaxCalls
  /\ outages \in 0..MaxOutages
  /\ posts \in 0..MaxPosts
  /\ Broker!TypeOK
  /\ \A t \in Callers : pc[t] = "idle" <=> job[t] = NoJob
  /\ obs = "append" => left # <<>>
  /\ ctx # "open" => obs \in {"null", "connect"} \/ stopping

\* No call for ch is under way, the observer waits for messages on a standing
\* connection, and Redis has acted on everything that was written.
Quiet(ch) ==
  /\ \A t \in Callers : pc[t] # "idle" => job[t].channel # ch
  /\ obs = "read" /\ link
  /\ obuf = <<>> /\ pipe[Node] = <<>>

\* Whenever things are quiet, Redis has the process subscribed to the channel
\* of every user who wants it and whose subscribe was recorded: whatever
\* outages and reconnects came between, and however the calls of the IO
\* threads mixed with the observer's freeing, connecting and subscribing
\* again.  (Unless a data race lost a command.)
WantedIsSubscribed ==
  ~raced => \A ch \in Exclusive :
    Quiet(ch) /\ wanted[ch] /\ ch \in Range(channels) => ch \in subs[Node]

\* If Redis stays up from some time on, the subscriptions come back and stay:
\* the observer does not give up, spin on a dead connection, or wait for an
\* IO thread.
SubscriptionsRestored ==
  <>[]redisUp =>
    \/ <>(dead \/ raced \/ stopping)
    \/ <>[](\A ch \in Exclusive :
              wanted[ch] /\ ch \in Range(channels) => ch \in subs[Node])

\* Through all of this the process is to Redis what the service believes: the
\* commands reach Redis in the order they were given, and only the last ones
\* are ever lost, unless a connection goes with everything that is on it.
Wire == INSTANCE Redis WITH
  Servers <- {Node}, Payloads <- 1..MaxPosts,
  pipe <- [n \in {Node} |-> IF link THEN pipe[n] \o obuf ELSE <<>>]

ImplementsRedis == Wire!Spec
=============================================================================
