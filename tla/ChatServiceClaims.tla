-------------------------- MODULE ChatServiceClaims --------------------------
(***************************************************************************)
(* What comments of the source and its README say of the message service   *)
(* and the code does not do: each property is refuted by a run of its own. *)
(***************************************************************************)
EXTENDS MCChatService

\* No handler runs and nothing is on its way.
Quiet ==
  /\ \A c \in Conns :
       /\ pc[c] \in {"fresh", "ready", "refused", "closed", "gone"}
       /\ status[c] = "lost" => pc[c] \in {"closed", "gone"}
  /\ \A n \in Servers : pipe[n] = <<>> /\ bus[n] = <<>> /\ hand[n] = None

\* chatservice.cpp:459: "forward to a member who is online, store for one who
\* is offline".  A message to a user who has not logged in is stored.
AbsentMembersStored ==
  Quiet =>
    \A m \in 1..LastMsg : \A u \in sent[m].to :
      (\A c \in Conns : user[c] # u) =>
        \E r \in offline : r.to = u /\ r.msg = m

\* chatservice.cpp:144: "delete the offline messages that were pushed".  A row
\* leaves the table only in a login that read it.
RemovesPushedRows ==
  [][\A r \in offline \ offline' :
       \E c \in Conns : pc[c] = "remove" /\ r \in rows[c]]_vars
=============================================================================
