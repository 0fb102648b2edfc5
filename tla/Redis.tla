-------------------------------- MODULE Redis --------------------------------
(***************************************************************************)
(* How the chat servers use Redis publish/subscribe                        *)
(* (src/server/redis/redis.cpp), as the service sees it.                   *)
(*                                                                         *)
(* A server writes SUBSCRIBE and UNSUBSCRIBE commands to its subscriber    *)
(* connection and does not wait for the answer, so Redis acts on them      *)
(* later, in the order they were written.  PUBLISH goes over a connection  *)
(* of its own, is synchronous, and is not ordered with the others.  What   *)
(* Redis publishes to a subscriber is read in order by one thread.         *)
(***************************************************************************)
EXTENDS Naturals, Sequences

CONSTANTS
  Servers,   \* the chat servers
  Channels,  \* one channel per user id
  Payloads   \* what is published

VARIABLES
  pipe,  \* pipe[n]: the (un)subscribe commands of n that Redis has not seen
  subs,  \* subs[n]: the channels Redis has n subscribed to
  bus    \* bus[n]: published messages on their way to the observer thread of n

vars == <<pipe, subs, bus>>

Commands == [op : {"SUBSCRIBE", "UNSUBSCRIBE"}, channel : Channels]

TypeOK ==
  /\ pipe \in [Servers -> Seq(Commands)]
  /\ subs \in [Servers -> SUBSET Channels]
  /\ bus \in [Servers -> Seq(Payloads)]

Init ==
  /\ pipe = [n \in Servers |-> <<>>]
  /\ subs = [n \in Servers |-> {}]
  /\ bus = [n \in Servers |-> <<>>]

Subscribe(n, ch) ==
  /\ pipe' = [pipe EXCEPT ![n] = Append(@, [op |-> "SUBSCRIBE", channel |-> ch])]
  /\ UNCHANGED <<subs, bus>>

Unsubscribe(n, ch) ==
  /\ pipe' = [pipe EXCEPT ![n] = Append(@, [op |-> "UNSUBSCRIBE", channel |-> ch])]
  /\ UNCHANGED <<subs, bus>>

\* Redis acts on the oldest command of n.
Serve(n) ==
  /\ pipe[n] # <<>>
  /\ LET cmd == Head(pipe[n])
     IN  subs' = [subs EXCEPT ![n] = IF cmd.op = "SUBSCRIBE"
                                     THEN @ \cup {cmd.channel}
                                     ELSE @ \ {cmd.channel}]
  /\ pipe' = [pipe EXCEPT ![n] = Tail(@)]
  /\ UNCHANGED bus

\* Faulty variant: a message overtakes those before it.
PublishAtFront(ch, payload) ==
  /\ bus' = [n \in Servers |-> IF ch \in subs[n]
                               THEN <<payload>> \o bus[n]
                               ELSE bus[n]]
  /\ UNCHANGED <<pipe, subs>>

\* publish(): a copy for every subscriber of the moment, and for nobody else.
Publish(ch, payload) ==
  /\ bus' = [n \in Servers |-> IF ch \in subs[n]
                               THEN Append(bus[n], payload)
                               ELSE bus[n]]
  /\ UNCHANGED <<pipe, subs>>

\* redisGetReply returns the next published message to the observer thread;
\* the acknowledgements of commands are skipped there and not modelled.
Receive(n) ==
  /\ bus[n] # <<>>
  /\ bus' = [bus EXCEPT ![n] = Tail(@)]
  /\ UNCHANGED <<pipe, subs>>

\* The subscriber connection of n breaks, or the process n dies.
Disconnect(n) ==
  /\ pipe' = [pipe EXCEPT ![n] = <<>>]
  /\ subs' = [subs EXCEPT ![n] = {}]
  /\ bus' = [bus EXCEPT ![n] = <<>>]

\* Commands that n gave last never leave it.
Forget(n) ==
  /\ \E k \in 0..Len(pipe[n]) : pipe' = [pipe EXCEPT ![n] = SubSeq(@, 1, k)]
  /\ UNCHANGED <<subs, bus>>

\* Commands reach Redis in the order they were given, and messages come back
\* in the order Redis sent them, as long as the connection stands.
Next ==
  \/ \E n \in Servers :
       \/ \E ch \in Channels : Subscribe(n, ch) \/ Unsubscribe(n, ch)
       \/ Serve(n) \/ Receive(n) \/ Forget(n) \/ Disconnect(n)
  \/ \E ch \in Channels, payload \in Payloads : Publish(ch, payload)

Spec == Init /\ [][Next]_vars
=============================================================================
