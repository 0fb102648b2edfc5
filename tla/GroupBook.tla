------------------------------ MODULE GroupBook ------------------------------
(***************************************************************************)
(* What the group administration of src/server/chatservice.cpp promises: a *)
(* group is founded together with its owner, keeps that owner for life,    *)
(* users join and leave one by one, and the owner, who may not leave       *)
(* others behind, closes the group once alone in it.  A closed group is    *)
(* dissolved; whoever joined between the two goes with it, which is the    *)
(* gap that leaveGroup leaves open.                                        *)
(***************************************************************************)
CONSTANTS
  Ids,     \* the ids of groups
  Users

VARIABLES
  role,    \* role[g][u]: "creator", "normal", or "none" for no member
  closed   \* the groups that their owner is dissolving

vars == <<role, closed>>

Nobody == [u \in Users |-> "none"]

Init ==
  /\ role = [g \in Ids |-> Nobody]
  /\ closed = {}

Found(g, u) ==
  /\ role[g] = Nobody
  /\ role' = [role EXCEPT ![g][u] = "creator"]
  /\ UNCHANGED closed

Join(g, u) ==
  /\ \E o \in Users : role[g][o] = "creator"
  /\ role[g][u] = "none"
  /\ role' = [role EXCEPT ![g][u] = "normal"]
  /\ UNCHANGED closed

Leave(g, u) ==
  /\ role[g][u] = "normal"
  /\ role' = [role EXCEPT ![g][u] = "none"]
  /\ UNCHANGED closed

Close(g, u) ==
  /\ role[g][u] = "creator"
  /\ \A v \in Users \ {u} : role[g][v] = "none"
  /\ closed' = closed \cup {g}
  /\ UNCHANGED role

Dissolve(g) ==
  /\ g \in closed
  /\ role' = [role EXCEPT ![g] = Nobody]
  /\ closed' = closed \ {g}

Next == \E g \in Ids :
  \/ Dissolve(g)
  \/ \E u \in Users : Found(g, u) \/ Join(g, u) \/ Leave(g, u) \/ Close(g, u)

Spec == Init /\ [][Next]_vars
=============================================================================
