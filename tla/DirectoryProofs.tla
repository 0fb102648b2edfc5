--------------------------- MODULE DirectoryProofs ---------------------------
(***************************************************************************)
(* Theorems about Directory, for any number of users, connections and      *)
(* groups.  The types, and that no group gets a second creator, hold       *)
(* whatever statements fail; the rest is about a database whose statements *)
(* succeed, and the groups also about users with one session each.         *)
(***************************************************************************)
EXTENDS Directory, FiniteSetTheorems, TLAPS

\* Nobody has two sessions.
OneSession == \A c, d \in Conns : UserOf[c] = UserOf[d] => c = d

\* A handler that is not at its end knows what it is about.
Busy == \A c \in Conns :
  /\ pc[c] \notin {"idle", "friendBack"} => gid[c] \in Ids
  /\ pc[c] = "friendBack" => friend[c] \in Users

TInv == TypeOK /\ Busy

-----------------------------------------------------------------------------
(* What the statements do to the rows of group_member. *)

LEMMA InsertRows ==
  ASSUME role \in [Ids -> [Users -> Roles]],
         NEW g \in Ids, NEW u \in Users, NEW r \in Roles, NEW ok \in BOOLEAN,
         InsertMember(g, u, r, ok)
  PROVE  /\ role' \in [Ids -> [Users -> Roles]]
         /\ \A h \in Ids, v \in Users :
              role'[h][v] = IF h = g /\ v = u /\ ok /\ g \in groups
                               /\ role[g][u] = "none"
                              THEN r ELSE role[h][v]
BY DEF InsertMember

LEMMA RemoveRows ==
  ASSUME role \in [Ids -> [Users -> Roles]],
         NEW g \in Ids, NEW u \in Users, NEW ok \in BOOLEAN,
         RemoveMember(g, u, ok)
  PROVE  /\ role' \in [Ids -> [Users -> Roles]]
         /\ \A h \in Ids, v \in Users :
              role'[h][v] = IF h = g /\ v = u /\ ok THEN "none" ELSE role[h][v]
BY DEF RemoveMember, Roles

LEMMA RemoveAllRows ==
  ASSUME role \in [Ids -> [Users -> Roles]],
         NEW g \in Ids, NEW ok \in BOOLEAN,
         RemoveGroup(g, ok)
  PROVE  /\ role' \in [Ids -> [Users -> Roles]]
         /\ groups' = IF ok THEN groups \ {g} ELSE groups
         /\ \A h \in Ids, v \in Users :
              role'[h][v] = IF h = g /\ ok THEN "none" ELSE role[h][v]
BY DEF RemoveGroup, Roles

-----------------------------------------------------------------------------
(* Types. *)

LEMMA TypeInit == Init => TInv
BY DirectoryAssumption DEF Init, TInv, TypeOK, Busy, Roles, Steps, Ids

LEMMA GotoType ==
  ASSUME TInv, NEW c \in Conns, NEW p \in Steps \ {"friendBack"},
         NEW g \in {0} \cup Ids, p = "idle" \/ g \in Ids,
         Goto(c, p, g)
  PROVE  /\ pc' \in [Conns -> Steps]
         /\ gid' \in [Conns -> {0} \cup Ids]
         /\ friend' \in [Conns -> Users \cup {None}]
         /\ Busy'
BY DEF TInv, TypeOK, Busy, Goto, Steps

LEMMA TypeNext == TInv /\ [Next]_vars => TInv'
<1> SUFFICES ASSUME TInv, [Next]_vars PROVE TInv'
    OBVIOUS
<1> USE DirectoryAssumption
<1>a. /\ role \in [Ids -> [Users -> Roles]]
      /\ \A c \in Conns : UserOf[c] \in Users
      /\ {"none", "normal", "creator"} \subseteq Roles
      /\ \A c \in Conns : pc[c] \notin {"idle", "friendBack"} => gid[c] \in Ids
      BY DEF TInv, TypeOK, Busy, Roles
<1>b. ASSUME NEW c \in Conns, Done(c)
      PROVE  /\ pc' \in [Conns -> Steps]
             /\ gid' \in [Conns -> {0} \cup Ids]
             /\ friend' \in [Conns -> Users \cup {None}]
             /\ Busy'
      BY <1>b, GotoType DEF Done, Steps
<1>1. ASSUME NEW c \in Conns, CreateGroup(c) PROVE TInv'
  <2>1. lastId + 1 \in Ids /\ lastId \in Nat
        BY <1>1 DEF CreateGroup, InsertGroup, TInv, TypeOK, Ids
  <2>2. Goto(c, "createOwner", lastId + 1)
        BY <1>1 DEF CreateGroup
  <2>3. QED
        BY <1>1, <2>1, <2>2, GotoType DEF CreateGroup, InsertGroup, TInv, TypeOK, Steps, Ids
<1>2. ASSUME NEW c \in Conns, NEW ok \in BOOLEAN, CreateOwner(c, ok) PROVE TInv'
  <2>1. gid[c] \in Ids
        BY <1>2, <1>a DEF CreateOwner
  <2>2. QED
        BY <1>2, <1>a, <1>b, <2>1, InsertRows DEF CreateOwner, TInv, TypeOK
<1>3. ASSUME NEW c \in Conns, NEW g \in Ids, JoinGroup(c, g) PROVE TInv'
      BY <1>3, GotoType DEF JoinGroup, dbVars, TInv, TypeOK, Steps
<1>4. ASSUME NEW c \in Conns, NEW g \in Ids, LeaveGroup(c, g) PROVE TInv'
  <2>1. PICK p \in {"leaveCount", "leaveMember"} : Goto(c, p, g)
        BY <1>4 DEF LeaveGroup
  <2>2. QED
        BY <1>4, <2>1, GotoType DEF LeaveGroup, dbVars, TInv, TypeOK, Steps
<1>5. ASSUME NEW c \in Conns, NEW ok \in BOOLEAN, JoinRole(c, ok) PROVE TInv'
  <2>1. gid[c] \in Ids
        BY <1>5, <1>a DEF JoinRole
  <2>2. CASE Done(c)
        BY <1>5, <1>b, <2>2 DEF JoinRole, dbVars, TInv, TypeOK
  <2>3. CASE Goto(c, "joinInsert", gid[c])
        BY <1>5, <2>1, <2>3, GotoType DEF JoinRole, dbVars, TInv, TypeOK, Steps
  <2>4. QED
        BY <1>5, <2>2, <2>3 DEF JoinRole
<1>6. ASSUME NEW c \in Conns, NEW ok \in BOOLEAN, JoinInsert(c, ok) PROVE TInv'
  <2>1. gid[c] \in Ids
        BY <1>6, <1>a DEF JoinInsert
  <2>2. QED
        BY <1>6, <1>a, <1>b, <2>1, InsertRows DEF JoinInsert, TInv, TypeOK
<1>7. ASSUME NEW c \in Conns, NEW ok \in BOOLEAN, LeaveMember(c, ok) PROVE TInv'
  <2>1. gid[c] \in Ids
        BY <1>7, <1>a DEF LeaveMember
  <2>2. QED
        BY <1>7, <1>a, <1>b, <2>1, RemoveRows DEF LeaveMember, TInv, TypeOK
<1>8. ASSUME NEW c \in Conns, NEW ok \in BOOLEAN, LeaveCount(c, ok) PROVE TInv'
  <2>1. gid[c] \in Ids
        BY <1>8, <1>a DEF LeaveCount
  <2>2. CASE Done(c)
        BY <1>8, <1>b, <2>2 DEF LeaveCount, dbVars, TInv, TypeOK
  <2>3. CASE Goto(c, "leaveOwner", gid[c])
        BY <1>8, <2>1, <2>3, GotoType DEF LeaveCount, dbVars, TInv, TypeOK, Steps
  <2>4. QED
        BY <1>8, <2>2, <2>3 DEF LeaveCount
<1>9. ASSUME NEW c \in Conns, NEW ok \in BOOLEAN, LeaveOwner(c, ok) PROVE TInv'
  <2>1. gid[c] \in Ids /\ Goto(c, "leaveGroup", gid[c])
        BY <1>9, <1>a DEF LeaveOwner
  <2>2. /\ role' \in [Ids -> [Users -> Roles]]
        /\ \A g \in Ids, v \in Users : role'[g][v] \in {"none", role[g][v]}
        BY <1>9, <1>a, <2>1, RemoveRows DEF LeaveOwner
  <2>3. /\ pc' \in [Conns -> Steps]
        /\ gid' \in [Conns -> {0} \cup Ids]
        /\ friend' \in [Conns -> Users \cup {None}]
        /\ Busy'
        BY <2>1, GotoType DEF Steps
  <2>4. QED
        BY <1>9, <2>2, <2>3 DEF LeaveOwner, TInv, TypeOK
<1>10. ASSUME NEW c \in Conns, NEW ok \in BOOLEAN, LeaveRemoveGroup(c, ok)
       PROVE  TInv'
  <2>1. gid[c] \in Ids /\ RemoveGroup(gid[c], ok) /\ Done(c)
        BY <1>10, <1>a DEF LeaveRemoveGroup
  <2>2. /\ role' \in [Ids -> [Users -> Roles]]
        /\ groups' = IF ok THEN groups \ {gid[c]} ELSE groups
        /\ \A g \in Ids, v \in Users :
             role'[g][v] = IF g = gid[c] /\ ok THEN "none" ELSE role[g][v]
        BY <1>a, <2>1, RemoveAllRows
  <2>3. \A g \in Ids \ groups', v \in Users : role'[g][v] = "none"
        BY <2>2 DEF TInv, TypeOK
  <2>4. QED
        BY <1>10, <1>b, <2>1, <2>2, <2>3 DEF LeaveRemoveGroup, TInv, TypeOK
<1>11. ASSUME NEW c \in Conns, NEW f \in Users, NEW ok \in BOOLEAN, AddFriend(c, f, ok)
       PROVE  TInv'
       BY <1>11 DEF AddFriend, InsertFriend, TInv, TypeOK, Busy, Steps
<1>12. ASSUME NEW c \in Conns, NEW ok \in BOOLEAN, FriendBack(c, ok) PROVE TInv'
       BY <1>12 DEF FriendBack, InsertFriend, TInv, TypeOK, Busy, Steps
<1>13. CASE UNCHANGED vars
       BY <1>13 DEF vars, TInv, TypeOK, Busy
<1>14. QED
       BY DirectoryAssumption, <1>1, <1>2, <1>3, <1>4, <1>5, <1>6, <1>7, <1>8, <1>9, <1>10, <1>11,
          <1>12, <1>13 DEF Next

\* The tables keep their types, and no row of group_member outlives its group,
\* whatever statements fail.
THEOREM DirectoryTypeOK == Spec => []TypeOK
<1>1. TInv => TypeOK
      BY DEF TInv
<1>2. QED
      BY <1>1, TypeInit, TypeNext, PTL DEF Spec

-----------------------------------------------------------------------------
(* Owners. *)

\* What makes OneOwner inductive: the handler that has yet to insert the row of
\* the creator, or has deleted it, is not in the group; the one that is on its
\* way to delete it is the creator; and a member who just leaves is not.
Settled == \A c \in Conns :
  /\ pc[c] \in {"createOwner", "leaveGroup"} =>
       gid[c] \in groups /\ role[gid[c]][UserOf[c]] = "none"
  /\ pc[c] \in {"leaveCount", "leaveOwner"} =>
       role[gid[c]][UserOf[c]] = "creator"
  /\ pc[c] = "leaveMember" => role[gid[c]][UserOf[c]] # "creator"

OInv == OneOwner /\ Settled

\* Whoever owned a group owns it still, and nobody else.
SameOwners == \A g \in Ids, v \in Users : IsOwner(g, v)' <=> IsOwner(g, v)

LEMMA GotoOthers ==
  ASSUME TypeOK, NEW c \in Conns, NEW p, NEW g, Goto(c, p, g)
  PROVE  \A d \in Conns : /\ pc'[d] = IF d = c THEN p ELSE pc[d]
                          /\ gid'[d] = IF d = c THEN g ELSE gid[d]
BY DEF TypeOK, Goto

\* A handler that changes no row and is between no two deletes or inserts,
\* neither before nor after its step, changes no owner.
LEMMA IdleOwners ==
  ASSUME TypeOK, NEW c \in Conns, NEW p, NEW g, Goto(c, p, g), UNCHANGED role,
         pc[c] \notin {"createOwner", "leaveGroup"},
         p \notin {"createOwner", "leaveGroup"}
  PROVE  SameOwners
BY GotoOthers DEF SameOwners, IsOwner

LEMMA KeptOwner ==
  ASSUME TypeOK, OneOwner, SameOwners, groups' \subseteq groups
  PROVE  OneOwner'
<1>1. groups \subseteq Ids
      BY DirectoryAssumption DEF TypeOK, Ids
<1>2. SUFFICES ASSUME NEW g \in groups'
               PROVE  \E u \in Users : \A v \in Users : IsOwner(g, v)' <=> v = u
      BY DEF OneOwner
<1>3. QED
      BY <1>1 DEF OneOwner, SameOwners

\* The two users of a row and of a handler that own a group are one.
LEMMA Unique ==
  ASSUME OneOwner, NEW g \in groups, NEW u \in Users, NEW v \in Users,
         IsOwner(g, u), IsOwner(g, v)
  PROVE  u = v
BY DEF OneOwner

LEMMA OwnerInit == Init => OInv
BY DEF Init, OInv, OneOwner, Settled

\* A handler that moves on without touching a table.
LEMMA QuietStep ==
  ASSUME TInv, OInv, NEW c \in Conns, NEW p, NEW g, Goto(c, p, g),
         UNCHANGED <<groups, role>>,
         pc[c] \notin {"createOwner", "leaveGroup"},
         p \notin {"createOwner", "leaveGroup"},
         p \in {"leaveCount", "leaveOwner"} => role[g][UserOf[c]] = "creator",
         p = "leaveMember" => role[g][UserOf[c]] # "creator"
  PROVE  OInv' /\ SameOwners
<1>1. SameOwners
      BY IdleOwners DEF TInv
<1>2. OneOwner'
      BY <1>1, KeptOwner DEF TInv, OInv
<1>3. Settled'
      BY GotoOthers DEF TInv, OInv, Settled
<1>4. QED
      BY <1>1, <1>2, <1>3 DEF OInv

LEMMA CreateGroupStep ==
  ASSUME TInv, OInv, NEW c \in Conns, CreateGroup(c), NEW n, n = lastId + 1
  PROVE  /\ OInv'
         /\ \A g \in Ids, v \in Users :
              IsOwner(g, v)' <=> IsOwner(g, v) \/ (g = n /\ v = UserOf[c])
         /\ \A v \in Users : ~ IsOwner(n, v)
<1>1. /\ n \in Ids /\ n \notin groups /\ groups \subseteq Ids
      /\ groups' = groups \cup {n}
      /\ UNCHANGED role
      /\ \A v \in Users : role[n][v] = "none"
      /\ UserOf[c] \in Users
      BY DirectoryAssumption DEF CreateGroup, InsertGroup, TInv, TypeOK, Ids
<1>2. \A d \in Conns : /\ pc'[d] = IF d = c THEN "createOwner" ELSE pc[d]
                       /\ gid'[d] = IF d = c THEN n ELSE gid[d]
      BY GotoOthers DEF CreateGroup, InsertGroup, TInv
<1>3. pc[c] = "idle"
      BY DEF CreateGroup
<1>4. \A v \in Users : ~ IsOwner(n, v)
      BY <1>1 DEF IsOwner, OInv, Settled
<1>5. \A g \in Ids, v \in Users :
        IsOwner(g, v)' <=> IsOwner(g, v) \/ (g = n /\ v = UserOf[c])
  <2>1. TAKE g \in Ids, v \in Users
  <2>2. ASSUME IsOwner(g, v) PROVE IsOwner(g, v)'
        BY <1>1, <1>2, <1>3, <2>2 DEF IsOwner
  <2>3. ASSUME g = n, v = UserOf[c] PROVE IsOwner(g, v)'
        BY <1>2, <2>3 DEF IsOwner
  <2>4. ASSUME IsOwner(g, v)' PROVE IsOwner(g, v) \/ (g = n /\ v = UserOf[c])
        BY <1>1, <1>2, <1>3, <2>4 DEF IsOwner
  <2>5. QED
        BY <2>2, <2>3, <2>4
<1>6. OneOwner'
  <2>1. SUFFICES ASSUME NEW g \in groups'
                 PROVE  \E u \in Users : \A v \in Users : IsOwner(g, v)' <=> v = u
        BY DEF OneOwner
  <2>2. CASE g = n
        BY <1>1, <1>4, <1>5, <2>2
  <2>3. CASE g \in groups
    <3>1. g \in Ids /\ g # n
          BY <1>1, <2>3
    <3>2. PICK u \in Users : \A v \in Users : IsOwner(g, v) <=> v = u
          BY <2>3 DEF OInv, OneOwner
    <3>3. QED
          BY <1>5, <3>1, <3>2
  <2>4. QED
        BY <1>1, <2>1, <2>2, <2>3
<1>7. Settled'
      BY <1>1, <1>2 DEF OInv, Settled
<1>8. QED
      BY <1>4, <1>5, <1>6, <1>7 DEF OInv

LEMMA CreateOwnerStep ==
  ASSUME TInv, OInv, OneSession, NEW c \in Conns, CreateOwner(c, TRUE)
  PROVE  /\ OInv' /\ SameOwners
         /\ \A g \in Ids, v \in Users : role'[g][v] = role[g][v] \/ IsOwner(g, v)
<1>1. /\ gid[c] \in Ids /\ gid[c] \in groups /\ UserOf[c] \in Users
      /\ role[gid[c]][UserOf[c]] = "none"
      /\ pc[c] = "createOwner"
      BY DirectoryAssumption DEF CreateOwner, TInv, Busy, OInv, Settled
<1>2. \A g \in Ids, v \in Users :
        role'[g][v] = IF g = gid[c] /\ v = UserOf[c] THEN "creator" ELSE role[g][v]
      BY <1>1 DEF CreateOwner, InsertMember, TInv, TypeOK
<1>3. \A d \in Conns : /\ pc'[d] = IF d = c THEN "idle" ELSE pc[d]
                       /\ gid'[d] = IF d = c THEN 0 ELSE gid[d]
      BY GotoOthers DEF CreateOwner, Done, TInv
<1>4. SameOwners
      BY <1>1, <1>2, <1>3 DEF SameOwners, IsOwner
<1>5. OneOwner'
      BY <1>4, KeptOwner DEF CreateOwner, TInv, OInv
<1>6. Settled'
  <2>1. \A d \in Conns \ {c} : pc[d] \notin {"idle", "friendBack"} =>
          gid[d] \in Ids /\ UserOf[d] \in Users /\ UserOf[d] # UserOf[c]
        BY DirectoryAssumption DEF OneSession, TInv, Busy
  <2>2. QED
        BY <1>2, <1>3, <2>1 DEF CreateOwner, OInv, Settled
<1>7. QED
      BY <1>1, <1>2, <1>4, <1>5, <1>6 DEF OInv, IsOwner

LEMMA JoinInsertStep ==
  ASSUME TInv, OInv, OneSession, NEW c \in Conns, JoinInsert(c, TRUE)
  PROVE  OInv' /\ SameOwners
<1>1. gid[c] \in Ids /\ UserOf[c] \in Users /\ pc[c] = "joinInsert"
      BY DirectoryAssumption DEF JoinInsert, TInv, Busy
<1>2. \A g \in Ids, v \in Users :
        role'[g][v] = IF g = gid[c] /\ v = UserOf[c] /\ gid[c] \in groups
                         /\ role[gid[c]][UserOf[c]] = "none"
                        THEN "normal" ELSE role[g][v]
      BY <1>1 DEF JoinInsert, InsertMember, TInv, TypeOK
<1>3. \A d \in Conns : /\ pc'[d] = IF d = c THEN "idle" ELSE pc[d]
                       /\ gid'[d] = IF d = c THEN 0 ELSE gid[d]
      BY GotoOthers DEF JoinInsert, Done, TInv
<1>4. SameOwners
      BY <1>1, <1>2, <1>3 DEF SameOwners, IsOwner
<1>5. OneOwner'
      BY <1>4, KeptOwner DEF JoinInsert, TInv, OInv
<1>6. Settled'
  <2>1. \A d \in Conns \ {c} : pc[d] \notin {"idle", "friendBack"} =>
          gid[d] \in Ids /\ UserOf[d] \in Users /\ UserOf[d] # UserOf[c]
        BY DirectoryAssumption DEF OneSession, TInv, Busy
  <2>2. QED
        BY <1>2, <1>3, <2>1 DEF JoinInsert, OInv, Settled
<1>7. QED
      BY <1>4, <1>5, <1>6 DEF OInv

LEMMA LeaveMemberStep ==
  ASSUME TInv, OInv, OneSession, NEW c \in Conns, LeaveMember(c, TRUE)
  PROVE  OInv' /\ SameOwners
<1>1. /\ gid[c] \in Ids /\ UserOf[c] \in Users /\ pc[c] = "leaveMember"
      /\ role[gid[c]][UserOf[c]] # "creator"
      BY DirectoryAssumption DEF LeaveMember, TInv, Busy, OInv, Settled
<1>2. \A g \in Ids, v \in Users :
        role'[g][v] = IF g = gid[c] /\ v = UserOf[c] THEN "none" ELSE role[g][v]
      BY <1>1 DEF LeaveMember, RemoveMember, TInv, TypeOK
<1>3. \A d \in Conns : /\ pc'[d] = IF d = c THEN "idle" ELSE pc[d]
                       /\ gid'[d] = IF d = c THEN 0 ELSE gid[d]
      BY GotoOthers DEF LeaveMember, Done, TInv
<1>4. SameOwners
      BY <1>1, <1>2, <1>3 DEF SameOwners, IsOwner
<1>5. OneOwner'
      BY <1>4, KeptOwner DEF LeaveMember, TInv, OInv
<1>6. Settled'
  <2>1. \A d \in Conns \ {c} : pc[d] \notin {"idle", "friendBack"} =>
          gid[d] \in Ids /\ UserOf[d] \in Users /\ UserOf[d] # UserOf[c]
        BY DirectoryAssumption DEF OneSession, TInv, Busy
  <2>2. QED
        BY <1>2, <1>3, <2>1 DEF LeaveMember, OInv, Settled
<1>7. QED
      BY <1>4, <1>5, <1>6 DEF OInv

\* The owner's row goes; his handler owns the group until it is deleted.
LEMMA LeaveOwnerStep ==
  ASSUME TInv, OInv, OneSession, NEW c \in Conns, LeaveOwner(c, TRUE)
  PROVE  /\ OInv' /\ SameOwners
         /\ \A g \in Ids, v \in Users : role'[g][v] = role[g][v] \/ IsOwner(g, v)
<1>1. /\ gid[c] \in Ids /\ UserOf[c] \in Users /\ pc[c] = "leaveOwner"
      /\ role[gid[c]][UserOf[c]] = "creator"
      /\ gid[c] \in groups
      BY DirectoryAssumption DEF LeaveOwner, TInv, TypeOK, Busy, OInv, Settled
<1>2. \A g \in Ids, v \in Users :
        role'[g][v] = IF g = gid[c] /\ v = UserOf[c] THEN "none" ELSE role[g][v]
      BY <1>1 DEF LeaveOwner, RemoveMember, TInv, TypeOK
<1>3. \A d \in Conns : /\ pc'[d] = IF d = c THEN "leaveGroup" ELSE pc[d]
                       /\ gid'[d] = gid[d]
      BY GotoOthers DEF LeaveOwner, TInv
<1>4. SameOwners
      BY <1>1, <1>2, <1>3 DEF SameOwners, IsOwner
<1>5. OneOwner'
      BY <1>4, KeptOwner DEF LeaveOwner, TInv, OInv
<1>6. Settled'
  <2>1. \A d \in Conns \ {c} : pc[d] \notin {"idle", "friendBack"} =>
          gid[d] \in Ids /\ UserOf[d] \in Users /\ UserOf[d] # UserOf[c]
        BY DirectoryAssumption DEF OneSession, TInv, Busy
  <2>2. QED
        BY <1>1, <1>2, <1>3, <2>1 DEF LeaveOwner, OInv, Settled
<1>7. QED
      BY <1>1, <1>2, <1>4, <1>5, <1>6 DEF OInv, IsOwner

\* The group goes with all its rows; nobody else owned it, so nobody else is on
\* his way to delete it.
LEMMA LeaveRemoveGroupStep ==
  ASSUME TInv, OInv, OneSession, NEW c \in Conns, LeaveRemoveGroup(c, TRUE)
  PROVE  /\ OInv'
         /\ \A g \in Ids, v \in Users :
              IsOwner(g, v)' <=> g # gid[c] /\ IsOwner(g, v)
         /\ \A d \in Conns \ {c} :
              pc[d] \in {"createOwner", "leaveCount", "leaveOwner", "leaveGroup"}
                => gid[d] # gid[c]
<1>1. /\ gid[c] \in Ids /\ UserOf[c] \in Users /\ pc[c] = "leaveGroup"
      /\ gid[c] \in groups
      /\ IsOwner(gid[c], UserOf[c])
      BY DirectoryAssumption
      DEF LeaveRemoveGroup, TInv, TypeOK, Busy, OInv, Settled, IsOwner
<1>2. /\ groups' = groups \ {gid[c]}
      /\ \A g \in Ids, v \in Users :
           role'[g][v] = IF g = gid[c] THEN "none" ELSE role[g][v]
      BY <1>1 DEF LeaveRemoveGroup, RemoveGroup, TInv, TypeOK
<1>3. \A d \in Conns : /\ pc'[d] = IF d = c THEN "idle" ELSE pc[d]
                       /\ gid'[d] = IF d = c THEN 0 ELSE gid[d]
      BY GotoOthers DEF LeaveRemoveGroup, Done, TInv
<1>4. ASSUME NEW d \in Conns \ {c},
             pc[d] \in {"createOwner", "leaveCount", "leaveOwner", "leaveGroup"}
      PROVE  gid[d] # gid[c]
  <2>1. SUFFICES ASSUME gid[d] = gid[c] PROVE FALSE
        OBVIOUS
  <2>2. UserOf[d] \in Users /\ UserOf[d] # UserOf[c]
        BY DirectoryAssumption DEF OneSession
  <2>3. IsOwner(gid[c], UserOf[d])
        BY <1>4, <2>1 DEF IsOwner, OInv, Settled
  <2>4. QED
        BY <1>1, <2>2, <2>3, Unique DEF OInv
<1>5. \A g \in Ids, v \in Users : IsOwner(g, v)' <=> g # gid[c] /\ IsOwner(g, v)
  <2>1. TAKE g \in Ids, v \in Users
  <2>2. CASE g = gid[c]
        BY <1>1, <1>2, <1>3, <1>4, <2>2 DEF IsOwner
  <2>3. CASE g # gid[c]
        BY <1>1, <1>2, <1>3, <2>3 DEF IsOwner
  <2>4. QED
        BY <2>2, <2>3
<1>6. OneOwner'
  <2>1. SUFFICES ASSUME NEW g \in groups'
                 PROVE  \E u \in Users : \A v \in Users : IsOwner(g, v)' <=> v = u
        BY DEF OneOwner
  <2>2. g \in groups /\ g \in Ids /\ g # gid[c]
    <3>1. groups \subseteq Ids
          BY DirectoryAssumption DEF TInv, TypeOK, Ids
    <3>2. QED
          BY <1>2, <3>1
  <2>3. PICK u \in Users : \A v \in Users : IsOwner(g, v) <=> v = u
        BY <2>2 DEF OInv, OneOwner
  <2>4. QED
        BY <1>5, <2>2, <2>3
<1>7. Settled'
  <2>1. \A d \in Conns \ {c} : pc[d] \notin {"idle", "friendBack"} =>
          gid[d] \in Ids /\ UserOf[d] \in Users
        BY DirectoryAssumption DEF TInv, Busy
  <2>2. QED
        BY <1>2, <1>3, <1>4, <2>1 DEF OInv, Settled
<1>8. QED
      BY <1>4, <1>5, <1>6, <1>7 DEF OInv

LEMMA OwnerNext ==
  ASSUME Outcomes = {TRUE}, OneSession, TInv, OInv, [Next]_vars
  PROVE  OInv'
<1>1. ASSUME NEW c \in Conns, CreateGroup(c) PROVE OInv'
      BY <1>1, CreateGroupStep
<1>2. ASSUME NEW c \in Conns, CreateOwner(c, TRUE) PROVE OInv'
      BY <1>2, CreateOwnerStep
<1>3. ASSUME NEW c \in Conns, NEW g \in Ids, JoinGroup(c, g) PROVE OInv'
      BY <1>3, QuietStep DEF JoinGroup, dbVars
<1>4. ASSUME NEW c \in Conns, NEW g \in Ids, LeaveGroup(c, g) PROVE OInv'
      BY <1>4, QuietStep DEF LeaveGroup, dbVars
<1>5. ASSUME NEW c \in Conns, JoinRole(c, TRUE) PROVE OInv'
  <2>1. /\ UNCHANGED <<groups, role>> /\ pc[c] = "joinRole"
        /\ Goto(c, "idle", 0) \/ Goto(c, "joinInsert", gid[c])
        BY <1>5 DEF JoinRole, Done, dbVars
  <2>2. CASE Goto(c, "idle", 0)
        BY <2>1, <2>2, QuietStep
  <2>3. CASE Goto(c, "joinInsert", gid[c])
        BY <2>1, <2>3, QuietStep
  <2>4. QED
        BY <2>1, <2>2, <2>3
<1>6. ASSUME NEW c \in Conns, JoinInsert(c, TRUE) PROVE OInv'
      BY <1>6, JoinInsertStep
<1>7. ASSUME NEW c \in Conns, LeaveMember(c, TRUE) PROVE OInv'
      BY <1>7, LeaveMemberStep
<1>8. ASSUME NEW c \in Conns, LeaveCount(c, TRUE) PROVE OInv'
  <2>1. role[gid[c]][UserOf[c]] = "creator"
        BY <1>8 DEF LeaveCount, OInv, Settled
  <2>2. /\ UNCHANGED <<groups, role>> /\ pc[c] = "leaveCount"
        /\ Goto(c, "idle", 0) \/ Goto(c, "leaveOwner", gid[c])
        BY <1>8 DEF LeaveCount, Done, dbVars
  <2>3. CASE Goto(c, "idle", 0)
        BY <2>2, <2>3, QuietStep
  <2>4. CASE Goto(c, "leaveOwner", gid[c])
        BY <2>1, <2>2, <2>4, QuietStep
  <2>5. QED
        BY <2>2, <2>3, <2>4
<1>9. ASSUME NEW c \in Conns, LeaveOwner(c, TRUE) PROVE OInv'
      BY <1>9, LeaveOwnerStep
<1>10. ASSUME NEW c \in Conns, LeaveRemoveGroup(c, TRUE) PROVE OInv'
       BY <1>10, LeaveRemoveGroupStep
<1>11. ASSUME NEW c \in Conns,
              FriendBack(c, TRUE) \/ \E f \in Users : AddFriend(c, f, TRUE)
       PROVE  OInv'
  <2>1. /\ UNCHANGED <<groups, role, gid>>
        /\ \A d \in Conns \ {c} : pc'[d] = pc[d]
        /\ {pc[c], pc'[c]} \subseteq {"idle", "friendBack"}
        BY <1>11 DEF AddFriend, FriendBack, TInv, TypeOK
  <2>2. SameOwners
        BY <2>1 DEF SameOwners, IsOwner
  <2>3. OneOwner'
        BY <2>1, <2>2, KeptOwner DEF TInv, OInv
  <2>4. QED
        BY <2>1, <2>3 DEF OInv, Settled
<1>12. CASE UNCHANGED vars
       BY <1>12 DEF vars, OInv, OneOwner, Settled, IsOwner
<1>13. QED
       BY <1>1, <1>2, <1>3, <1>4, <1>5, <1>6, <1>7, <1>8, <1>9, <1>10, <1>11,
          <1>12 DEF Next

\* A group has exactly one owner at any time, if statements succeed and nobody
\* has two sessions.
THEOREM DirectoryOneOwner ==
  ASSUME Outcomes = {TRUE}, OneSession
  PROVE  Spec => []OneOwner
<1>1. OInv => OneOwner
      BY DEF OInv
<1>2. TInv /\ OInv /\ [Next]_vars => TInv' /\ OInv'
      BY TypeNext, OwnerNext
<1>3. QED
      BY <1>1, <1>2, TypeInit, OwnerInit, PTL DEF Spec

-----------------------------------------------------------------------------
(* Friends. *)

\* An addFriend between its statements has inserted the first.
HalfDone == \A c \in Conns :
  pc[c] = "friendBack" => <<UserOf[c], friend[c]>> \in friends

FInv == FriendsMutual /\ HalfDone

LEMMA FriendsNext ==
  ASSUME Outcomes = {TRUE}, TInv, FInv, [Next]_vars
  PROVE  FInv'
<1>1. ASSUME NEW c \in Conns, NEW f \in Users, AddFriend(c, f, TRUE)
      PROVE  FInv'
  <2>1. /\ friends' = friends \cup {<<UserOf[c], f>>}
        /\ pc[c] = "idle"
        /\ \A d \in Conns :
             /\ pc'[d] = IF d = c THEN "friendBack" ELSE pc[d]
             /\ friend'[d] = IF d = c THEN f ELSE friend[d]
        BY <1>1 DEF AddFriend, InsertFriend, TInv, TypeOK
  <2>2. FriendsMutual'
        BY <2>1 DEF FInv, FriendsMutual, FriendsOf
  <2>3. HalfDone'
        BY <2>1 DEF FInv, HalfDone
  <2>4. QED
        BY <2>2, <2>3 DEF FInv
<1>2. ASSUME NEW c \in Conns, FriendBack(c, TRUE) PROVE FInv'
  <2>1. /\ friends' = friends \cup {<<friend[c], UserOf[c]>>}
        /\ <<UserOf[c], friend[c]>> \in friends
        /\ \A d \in Conns :
             /\ pc'[d] = IF d = c THEN "idle" ELSE pc[d]
             /\ friend'[d] = IF d = c THEN None ELSE friend[d]
        BY <1>2 DEF FriendBack, InsertFriend, TInv, TypeOK, FInv, HalfDone
  <2>2. FriendsMutual'
        BY <2>1 DEF FInv, FriendsMutual, FriendsOf
  <2>3. HalfDone'
        BY <2>1 DEF FInv, HalfDone
  <2>4. QED
        BY <2>2, <2>3 DEF FInv
<1>3. ASSUME UNCHANGED <<friends, friend>>,
             \A c \in Conns : pc'[c] = "friendBack" <=> pc[c] = "friendBack"
      PROVE  FInv'
      BY <1>3 DEF FInv, HalfDone, FriendsMutual, FriendsOf
<1>4. ASSUME NEW c \in Conns, NEW p, NEW g, Goto(c, p, g),
             pc[c] # "friendBack", p # "friendBack"
      PROVE  \A d \in Conns : pc'[d] = "friendBack" <=> pc[d] = "friendBack"
      BY <1>4, GotoOthers DEF TInv
<1>5. CASE \E c \in Conns :
        \/ CreateGroup(c) \/ \E g \in Ids : JoinGroup(c, g) \/ LeaveGroup(c, g)
        \/ CreateOwner(c, TRUE) \/ JoinRole(c, TRUE) \/ JoinInsert(c, TRUE)
        \/ LeaveMember(c, TRUE) \/ LeaveCount(c, TRUE) \/ LeaveOwner(c, TRUE)
        \/ LeaveRemoveGroup(c, TRUE)
  <2>1. PICK c \in Conns : /\ UNCHANGED <<friends, friend>>
                           /\ pc[c] # "friendBack"
                           /\ \E p, g : p # "friendBack" /\ Goto(c, p, g)
        BY <1>5 DEF CreateGroup, InsertGroup, JoinGroup, LeaveGroup, CreateOwner, JoinRole,
           JoinInsert, LeaveMember, LeaveCount, LeaveOwner, LeaveRemoveGroup,
           Done, Goto, dbVars
  <2>2. QED
        BY <1>3, <1>4, <2>1
<1>6. CASE UNCHANGED vars
      BY <1>6 DEF vars, FInv, HalfDone, FriendsMutual, FriendsOf
<1>7. QED
      BY <1>1, <1>2, <1>5, <1>6 DEF Next

\* Friendship goes both ways at any time but within an addFriend, if statements
\* succeed; sessions do not matter.
THEOREM DirectoryFriendsMutual ==
  ASSUME Outcomes = {TRUE}
  PROVE  Spec => []FriendsMutual
<1>1. Init => FInv
      BY DEF Init, FInv, HalfDone, FriendsMutual, FriendsOf
<1>2. TInv /\ FInv /\ [Next]_vars => TInv' /\ FInv'
      BY TypeNext, FriendsNext
<1>3. FInv => FriendsMutual
      BY DEF FInv
<1>4. QED
      BY <1>1, <1>2, <1>3, TypeInit, PTL DEF Spec

-----------------------------------------------------------------------------
(* The groups change as in GroupBook. *)

LEMMA BookRead ==
  ASSUME TypeOK
  PROVE  /\ BookRole \in [Ids -> [Users -> Roles]]
         /\ \A g \in Ids, u \in Users :
              BookRole[g][u] = IF IsOwner(g, u) THEN "creator" ELSE role[g][u]
BY DEF BookRole, TypeOK, Roles

LEMMA BookReadPrime ==
  ASSUME TypeOK'
  PROVE  /\ BookRole' \in [Ids -> [Users -> Roles]]
         /\ \A g \in Ids, u \in Users :
              BookRole'[g][u] = IF IsOwner(g, u)' THEN "creator" ELSE role'[g][u]
BY DEF BookRole, TypeOK, Roles

\* One entry of the book is written.
LEMMA BookWrite ==
  ASSUME TypeOK, TypeOK', NEW g \in Ids, NEW u \in Users, NEW r \in Roles,
         \A h \in Ids, v \in Users :
           BookRole'[h][v] = IF h = g /\ v = u THEN r ELSE BookRole[h][v]
  PROVE  BookRole' = [BookRole EXCEPT ![g][u] = r]
<1> DEFINE written == [BookRole EXCEPT ![g][u] = r]
<1>1. /\ BookRole \in [Ids -> [Users -> Roles]]
      /\ BookRole' \in [Ids -> [Users -> Roles]]
      BY BookRead, BookReadPrime
<1>2. /\ written \in [Ids -> [Users -> Roles]]
      /\ \A h \in Ids, v \in Users :
           written[h][v] = IF h = g /\ v = u THEN r ELSE BookRole[h][v]
      BY <1>1
<1> HIDE DEF written
<1>3. \A h \in Ids : BookRole'[h] = written[h]
  <2>1. TAKE h \in Ids
  <2>2. \A v \in Users : BookRole'[h][v] = written[h][v]
        BY <1>2
  <2>3. QED
        BY <1>1, <1>2, <2>2
<1>4. BookRole' = written
      BY <1>1, <1>2, <1>3
<1>5. QED
      BY <1>4 DEF written

\* Steps that GroupBook does not see: a row changes only where it is the
\* owner's.
LEMMA BookSame ==
  ASSUME SameOwners,
         \A g \in Ids, v \in Users : role'[g][v] = role[g][v] \/ IsOwner(g, v)
  PROVE  UNCHANGED BookRole
<1>1. \A g \in Ids, v \in Users :
        (IF IsOwner(g, v)' THEN "creator" ELSE role'[g][v])
          = (IF IsOwner(g, v) THEN "creator" ELSE role[g][v])
      BY DEF SameOwners
<1>2. QED
      BY <1>1 DEF BookRole

LEMMA ClosedSame ==
  ASSUME TInv, NEW c \in Conns, NEW p, NEW g, Goto(c, p, g),
         \/ /\ pc[c] \notin {"leaveOwner", "leaveGroup"}
            /\ p \notin {"leaveOwner", "leaveGroup"}
         \/ pc[c] = "leaveOwner" /\ p = "leaveGroup" /\ g = gid[c]
  PROVE  UNCHANGED BookClosed
<1>1. \A d \in Conns : /\ pc'[d] = IF d = c THEN p ELSE pc[d]
                       /\ gid'[d] = IF d = c THEN g ELSE gid[d]
      BY GotoOthers DEF TInv
<1>2. QED
      BY <1>1 DEF BookClosed

LEMMA BookInit == Init => Book!Init
BY DEF Init, Book!Init, Book!Nobody, BookRole, BookClosed, IsOwner

\* Creating a group founds it, with its owner.
LEMMA BookFound ==
  ASSUME TInv, TInv', OInv, NEW c \in Conns, CreateGroup(c)
  PROVE  Book!Next
<1>n. PICK n : n = lastId + 1
      OBVIOUS
<1>1. /\ n \in Ids /\ UserOf[c] \in Users
      /\ UNCHANGED role
      /\ \A v \in Users : role[n][v] = "none"
      BY <1>n, DirectoryAssumption DEF CreateGroup, InsertGroup, TInv, TypeOK, Ids
<1>2. /\ \A g \in Ids, v \in Users :
           IsOwner(g, v)' <=> IsOwner(g, v) \/ (g = n /\ v = UserOf[c])
      /\ \A v \in Users : ~ IsOwner(n, v)
      BY <1>n, CreateGroupStep
<1>3. BookRole[n] = Book!Nobody
  <2>1. \A v \in Users : BookRole[n][v] = "none"
        BY <1>1, <1>2, BookRead DEF TInv
  <2>2. QED
        BY <1>1, <2>1, BookRead DEF TInv, Book!Nobody
<1>4. BookRole' = [BookRole EXCEPT ![n][UserOf[c]] = "creator"]
  <2>1. \A g \in Ids, v \in Users :
          BookRole'[g][v] = IF g = n /\ v = UserOf[c] THEN "creator"
                            ELSE BookRole[g][v]
        BY <1>1, <1>2, BookRead, BookReadPrime DEF TInv
  <2>2. QED
        BY <1>1, <2>1, BookWrite DEF TInv, Roles
<1>5. UNCHANGED BookClosed
      BY ClosedSame DEF CreateGroup
<1>6. Book!Found(n, UserOf[c])
      BY <1>3, <1>4, <1>5 DEF Book!Found
<1>7. QED
      BY <1>1, <1>6 DEF Book!Next

\* Inserting the row joins, unless there is no group or a row already.
LEMMA BookJoin ==
  ASSUME TInv, TInv', OInv, OneSession, NEW c \in Conns, JoinInsert(c, TRUE)
  PROVE  Book!Next \/ UNCHANGED Book!vars
<1> DEFINE g == gid[c]
           u == UserOf[c]
<1>1. g \in Ids /\ u \in Users /\ pc[c] = "joinInsert"
      BY DirectoryAssumption DEF JoinInsert, TInv, Busy
<1>2. \A h \in Ids, v \in Users :
        role'[h][v] = IF h = g /\ v = u /\ g \in groups /\ role[g][u] = "none"
                        THEN "normal" ELSE role[h][v]
      BY <1>1 DEF JoinInsert, InsertMember, TInv, TypeOK
<1>3. UNCHANGED BookClosed
      BY <1>1, ClosedSame DEF JoinInsert, Done
<1>4. SameOwners
      BY JoinInsertStep
<1>5. CASE g \in groups /\ role[g][u] = "none"
  <2>1. ~ IsOwner(g, u)
        BY <1>1, <1>5 DEF IsOwner, OneSession
  <2>2. BookRole[g][u] = "none"
        BY <1>1, <1>5, <2>1, BookRead DEF TInv
  <2>3. \E o \in Users : BookRole[g][o] = "creator"
        BY <1>1, <1>5, BookRead DEF TInv, OInv, OneOwner
  <2>4. \A h \in Ids, v \in Users :
          BookRole'[h][v] = IF h = g /\ v = u THEN "normal" ELSE BookRole[h][v]
        BY <1>1, <1>2, <1>4, <1>5, <2>1, BookRead, BookReadPrime
        DEF TInv, SameOwners
  <2>5. BookRole' = [BookRole EXCEPT ![g][u] = "normal"]
        BY <1>1, <2>4, BookWrite DEF TInv, Roles
  <2>6. Book!Join(g, u)
        BY <1>3, <2>2, <2>3, <2>5 DEF Book!Join
  <2>7. QED
        BY <1>1, <2>6 DEF Book!Next
<1>6. CASE ~ (g \in groups /\ role[g][u] = "none")
  <2>1. UNCHANGED BookRole
        BY <1>2, <1>4, <1>6, BookSame
  <2>2. QED
        BY <1>3, <2>1 DEF Book!vars
<1>7. QED
      BY <1>5, <1>6

\* Removing the row of a member leaves, unless the group has gone already.
LEMMA BookLeave ==
  ASSUME TInv, TInv', OInv, OneSession, NEW c \in Conns, LeaveMember(c, TRUE)
  PROVE  Book!Next \/ UNCHANGED Book!vars
<1> DEFINE g == gid[c]
           u == UserOf[c]
<1>1. /\ g \in Ids /\ u \in Users /\ pc[c] = "leaveMember"
      /\ role[g][u] # "creator"
      BY DirectoryAssumption DEF LeaveMember, TInv, Busy, OInv, Settled
<1>2. \A h \in Ids, v \in Users :
        role'[h][v] = IF h = g /\ v = u THEN "none" ELSE role[h][v]
      BY <1>1 DEF LeaveMember, RemoveMember, TInv, TypeOK
<1>3. UNCHANGED BookClosed
      BY <1>1, ClosedSame DEF LeaveMember, Done
<1>4. SameOwners
      BY LeaveMemberStep
<1>5. CASE role[g][u] = "none"
  <2>1. UNCHANGED BookRole
        BY <1>2, <1>4, <1>5, BookSame
  <2>2. QED
        BY <1>3, <2>1 DEF Book!vars
<1>6. CASE role[g][u] = "normal"
  <2>1. ~ IsOwner(g, u)
        BY <1>1, <1>6 DEF IsOwner, OneSession
  <2>2. BookRole[g][u] = "normal"
        BY <1>1, <1>6, <2>1, BookRead DEF TInv
  <2>3. \A h \in Ids, v \in Users :
          BookRole'[h][v] = IF h = g /\ v = u THEN "none" ELSE BookRole[h][v]
        BY <1>1, <1>2, <1>4, <2>1, BookRead, BookReadPrime DEF TInv, SameOwners
  <2>4. BookRole' = [BookRole EXCEPT ![g][u] = "none"]
        BY <1>1, <2>3, BookWrite DEF TInv, Roles
  <2>5. Book!Leave(g, u)
        BY <1>3, <2>2, <2>4 DEF Book!Leave
  <2>6. QED
        BY <1>1, <2>5 DEF Book!Next
<1>7. QED
      BY <1>1, <1>5, <1>6 DEF TInv, TypeOK, Roles

\* An owner who counts no member but himself closes the group.
LEMMA BookClose ==
  ASSUME TInv, OInv, OneSession, NEW c \in Conns, LeaveCount(c, TRUE)
  PROVE  Book!Next \/ UNCHANGED Book!vars
<1> DEFINE g == gid[c]
           u == UserOf[c]
<1>1. /\ g \in Ids /\ u \in Users /\ pc[c] = "leaveCount"
      /\ g \in groups
      /\ role[g][u] = "creator"
      BY DirectoryAssumption DEF LeaveCount, TInv, TypeOK, Busy, OInv, Settled
<1>2. UNCHANGED role
      BY DEF LeaveCount, dbVars
<1>3. Goto(c, "idle", 0) \/ Goto(c, "leaveOwner", g)
      BY DEF LeaveCount, Done
<1>4. UNCHANGED BookRole
  <2>1. SameOwners
        BY <1>1, <1>2, <1>3, IdleOwners DEF TInv
  <2>2. QED
        BY <1>2, <2>1, BookSame
<1>5. CASE Goto(c, "idle", 0)
      BY <1>1, <1>4, <1>5, ClosedSame DEF Book!vars
<1>6. CASE Goto(c, "leaveOwner", g) /\ ~ Goto(c, "idle", 0)
  <2>1. MembersOf(g, TRUE) = {u}
    <3>1. IsFiniteSet(MembersOf(g, TRUE))
          BY DirectoryAssumption, FS_Subset DEF MembersOf
    <3>2. u \in MembersOf(g, TRUE)
          BY <1>1 DEF MembersOf
    <3>3. ~ (Cardinality(MembersOf(g, TRUE)) > 1)
          BY <1>6 DEF LeaveCount, Done
    <3>4. Cardinality(MembersOf(g, TRUE)) \in Nat
          BY <3>1, FS_CardinalityType
    <3>5. Cardinality(MembersOf(g, TRUE)) # 0
          BY <3>1, <3>2, FS_EmptySet
    <3>6. Cardinality(MembersOf(g, TRUE)) = 1
      <4>1. \A n \in Nat : n # 0 /\ ~ (n > 1) => n = 1
            OBVIOUS
      <4>2. QED
            BY <3>3, <3>4, <3>5, <4>1, Zenon
    <3>7. PICK x : MembersOf(g, TRUE) = {x}
          BY <3>1, <3>6, FS_Singleton
    <3>8. QED
          BY <3>2, <3>7
  <2>2. IsOwner(g, u)
        BY <1>1 DEF IsOwner
  <2>3. \A v \in Users \ {u} : ~ IsOwner(g, v)
        BY <1>1, <2>2, Unique DEF OInv
  <2>4. \A v \in Users \ {u} : BookRole[g][v] = "none"
        BY <1>1, <2>1, <2>3, BookRead DEF TInv, MembersOf
  <2>5. BookRole[g][u] = "creator"
        BY <1>1, BookRead DEF TInv
  <2>6. BookClosed' = BookClosed \cup {g}
    <3>1. \A d \in Conns :
            /\ pc'[d] = IF d = c THEN "leaveOwner" ELSE pc[d]
            /\ gid'[d] = IF d = c THEN g ELSE gid[d]
          BY <1>6, GotoOthers DEF TInv
    <3>2. QED
          BY <1>1, <3>1 DEF BookClosed
  <2>7. Book!Close(g, u)
        BY <1>4, <2>4, <2>5, <2>6 DEF Book!Close
  <2>8. QED
        BY <1>1, <2>7 DEF Book!Next
<1>7. QED
      BY <1>3, <1>5, <1>6

\* Deleting the group dissolves it.
LEMMA BookDissolve ==
  ASSUME TInv, TInv', OInv, OneSession, NEW c \in Conns,
         LeaveRemoveGroup(c, TRUE)
  PROVE  Book!Next
<1> DEFINE g == gid[c]
<1>1. g \in Ids /\ pc[c] = "leaveGroup"
      BY DEF LeaveRemoveGroup, TInv, Busy
<1>2. \A h \in Ids, v \in Users :
        role'[h][v] = IF h = g THEN "none" ELSE role[h][v]
      BY <1>1 DEF LeaveRemoveGroup, RemoveGroup, TInv, TypeOK
<1>3. /\ \A h \in Ids, v \in Users : IsOwner(h, v)' <=> h # g /\ IsOwner(h, v)
      /\ \A d \in Conns \ {c} :
           pc[d] \in {"createOwner", "leaveCount", "leaveOwner", "leaveGroup"}
             => gid[d] # g
      BY LeaveRemoveGroupStep
<1>4. BookRole' = [BookRole EXCEPT ![g] = Book!Nobody]
  <2>1. \A h \in Ids, v \in Users :
          BookRole'[h][v] = IF h = g THEN "none" ELSE BookRole[h][v]
        BY <1>2, <1>3, BookRead, BookReadPrime DEF TInv
  <2>2. /\ BookRole \in [Ids -> [Users -> Roles]]
        /\ BookRole' \in [Ids -> [Users -> Roles]]
        BY BookRead, BookReadPrime DEF TInv
  <2>3. BookRole'[g] = Book!Nobody
        BY <1>1, <2>1, <2>2 DEF Book!Nobody
  <2>4. \A h \in Ids \ {g} : BookRole'[h] = BookRole[h]
    <3>1. TAKE h \in Ids \ {g}
    <3>2. \A v \in Users : BookRole'[h][v] = BookRole[h][v]
          BY <2>1
    <3>3. QED
          BY <2>2, <3>2
  <2>5. QED
        BY <1>1, <2>2, <2>3, <2>4
<1>5. BookClosed' = BookClosed \ {g} /\ g \in BookClosed
  <2>1. \A d \in Conns : /\ pc'[d] = IF d = c THEN "idle" ELSE pc[d]
                         /\ gid'[d] = IF d = c THEN 0 ELSE gid[d]
        BY GotoOthers DEF LeaveRemoveGroup, Done, TInv
  <2>2. g \in BookClosed
        BY <1>1 DEF BookClosed
  <2>3. \A h : h \in BookClosed' <=> h \in BookClosed /\ h # g
        BY <1>1, <1>3, <2>1 DEF BookClosed
  <2>4. QED
        BY <2>2, <2>3
<1>6. Book!Dissolve(g)
      BY <1>4, <1>5 DEF Book!Dissolve
<1>7. QED
      BY <1>1, <1>6 DEF Book!Next

\* The other statements do not show in the book.
LEMMA BookQuiet ==
  ASSUME TInv, NEW c \in Conns, NEW p, NEW g, Goto(c, p, g), UNCHANGED role,
         pc[c] \notin {"createOwner", "leaveOwner", "leaveGroup"},
         p \notin {"createOwner", "leaveOwner", "leaveGroup"}
  PROVE  UNCHANGED Book!vars
<1>1. SameOwners
      BY IdleOwners DEF TInv
<1>2. UNCHANGED BookRole
      BY <1>1, BookSame
<1>3. QED
      BY <1>2, ClosedSame DEF Book!vars

LEMMA BookNext ==
  ASSUME Outcomes = {TRUE}, OneSession, TInv, TInv', OInv, [Next]_vars
  PROVE  [Book!Next]_Book!vars
<1> DEFINE Goal == Book!Next \/ UNCHANGED Book!vars
<1>1. ASSUME NEW c \in Conns, CreateGroup(c) PROVE Goal
      BY <1>1, BookFound
<1>2. ASSUME NEW c \in Conns, CreateOwner(c, TRUE) PROVE Goal
  <2>1. UNCHANGED BookRole
        BY <1>2, CreateOwnerStep, BookSame
  <2>2. Goto(c, "idle", 0) /\ pc[c] = "createOwner"
        BY <1>2 DEF CreateOwner, Done
  <2>3. UNCHANGED BookClosed
        BY <2>2, ClosedSame
  <2>4. QED
        BY <2>1, <2>3 DEF Book!vars
<1>3. ASSUME NEW c \in Conns, NEW g \in Ids, JoinGroup(c, g) PROVE Goal
      BY <1>3, BookQuiet DEF JoinGroup, dbVars
<1>4. ASSUME NEW c \in Conns, NEW g \in Ids, LeaveGroup(c, g) PROVE Goal
      BY <1>4, BookQuiet DEF LeaveGroup, dbVars
<1>5. ASSUME NEW c \in Conns, JoinRole(c, TRUE) PROVE Goal
  <2>1. /\ UNCHANGED role /\ pc[c] = "joinRole"
        /\ Goto(c, "idle", 0) \/ Goto(c, "joinInsert", gid[c])
        BY <1>5 DEF JoinRole, Done, dbVars
  <2>2. QED
        BY <2>1, BookQuiet
<1>6. ASSUME NEW c \in Conns, JoinInsert(c, TRUE) PROVE Goal
      BY <1>6, BookJoin
<1>7. ASSUME NEW c \in Conns, LeaveMember(c, TRUE) PROVE Goal
      BY <1>7, BookLeave
<1>8. ASSUME NEW c \in Conns, LeaveCount(c, TRUE) PROVE Goal
      BY <1>8, BookClose
<1>9. ASSUME NEW c \in Conns, LeaveOwner(c, TRUE) PROVE Goal
  <2>1. UNCHANGED BookRole
        BY <1>9, LeaveOwnerStep, BookSame
  <2>2. UNCHANGED BookClosed
        BY <1>9, ClosedSame DEF LeaveOwner
  <2>3. QED
        BY <2>1, <2>2 DEF Book!vars
<1>10. ASSUME NEW c \in Conns, LeaveRemoveGroup(c, TRUE) PROVE Goal
       BY <1>10, BookDissolve
<1>11. ASSUME NEW c \in Conns,
              FriendBack(c, TRUE) \/ \E f \in Users : AddFriend(c, f, TRUE)
       PROVE  Goal
  <2>1. /\ UNCHANGED <<role, gid>>
        /\ \A d \in Conns \ {c} : pc'[d] = pc[d]
        /\ {pc[c], pc'[c]} \subseteq {"idle", "friendBack"}
        BY <1>11 DEF AddFriend, FriendBack, TInv, TypeOK
  <2>2. SameOwners
        BY <2>1 DEF SameOwners, IsOwner
  <2>3. UNCHANGED BookRole
        BY <2>1, <2>2, BookSame
  <2>4. UNCHANGED BookClosed
        BY <2>1 DEF BookClosed
  <2>5. QED
        BY <2>3, <2>4 DEF Book!vars
<1>12. CASE UNCHANGED vars
       BY <1>12 DEF vars, Book!vars, BookRole, BookClosed, IsOwner
<1>13. QED
       BY <1>1, <1>2, <1>3, <1>4, <1>5, <1>6, <1>7, <1>8, <1>9, <1>10, <1>11,
          <1>12 DEF Next

\* The group administration implements GroupBook: though no handler is a
\* transaction, a group is founded with its owner, changes by one member at a
\* time, and is dissolved only after its owner was once alone in it.
THEOREM DirectoryImplementsGroupBook ==
  ASSUME Outcomes = {TRUE}, OneSession
  PROVE  Spec => ImplementsGroupBook
<1>1. TInv /\ OInv /\ [Next]_vars => TInv' /\ OInv' /\ [Book!Next]_Book!vars
      BY TypeNext, OwnerNext, BookNext
<1>2. QED
      BY <1>1, TypeInit, OwnerInit, BookInit, PTL
      DEF Spec, ImplementsGroupBook, Book!Spec

-----------------------------------------------------------------------------
(* Creators, whatever fails.                                               *)

\* Whatever statements fail, and though a user may have several sessions whose
\* requests are about one group, no two users have the creator's row of a group.
OneCreatorAtMost == \A g \in Ids, u, v \in Users :
  role[g][u] = "creator" /\ role[g][v] = "creator" => u = v

\* u has the creator's row of g, or a handler that may still insert it.
Claims(g, u) ==
  \/ role[g][u] = "creator"
  \/ \E c \in Conns : pc[c] = "createOwner" /\ gid[c] = g /\ UserOf[c] = u

\* The user who made a group is the only one who ever claims it, and the
\* groups yet to be made are claimed by nobody.
Claimed ==
  /\ \A g \in Ids, u, v \in Users : Claims(g, u) /\ Claims(g, v) => u = v
  /\ \A g \in Ids, u \in Users : Claims(g, u) => g <= lastId

LEMMA ClaimInit == Init => Claimed
BY DEF Init, Claimed, Claims

\* A step of c after which nobody claims what he did not claim before.
LEMMA ClaimKeep ==
  ASSUME TInv, Claimed, lastId' = lastId,
         \A g \in Ids, v \in Users : Claims(g, v)' => Claims(g, v)
  PROVE  Claimed'
BY DEF Claimed

LEMMA ClaimGoto ==
  ASSUME TypeOK, NEW c \in Conns, NEW p, NEW h, Goto(c, p, h), p # "createOwner",
         \A g \in Ids, v \in Users : role'[g][v] = "creator" => Claims(g, v)
  PROVE  \A g \in Ids, v \in Users : Claims(g, v)' => Claims(g, v)
BY GotoOthers DEF Claims

LEMMA ClaimCreateGroup ==
  ASSUME TInv, Claimed, NEW c \in Conns, CreateGroup(c)
  PROVE  Claimed'
<1>1. /\ UNCHANGED role /\ lastId' = lastId + 1 /\ lastId \in Nat
      /\ Goto(c, "createOwner", lastId + 1)
      BY DirectoryAssumption DEF CreateGroup, InsertGroup, TInv, TypeOK
<1>2. \A d \in Conns : /\ pc'[d] = IF d = c THEN "createOwner" ELSE pc[d]
                       /\ gid'[d] = IF d = c THEN lastId + 1 ELSE gid[d]
      BY <1>1, GotoOthers DEF TInv
<1>3. ASSUME NEW g \in Ids, NEW v \in Users, Claims(g, v)'
      PROVE  (Claims(g, v) /\ g <= lastId) \/ (g = lastId + 1 /\ v = UserOf[c])
  <2>1. Claims(g, v) \/ (g = lastId + 1 /\ v = UserOf[c])
        BY <1>1, <1>2, <1>3 DEF Claims
  <2>2. QED
        BY <2>1 DEF Claimed
<1>4. ASSUME NEW g \in Ids, NEW u \in Users, NEW v \in Users, Claims(g, u)', Claims(g, v)'
      PROVE  u = v
  <2>1. ~ (lastId + 1 <= lastId)
        BY <1>1
  <2>2. CASE g = lastId + 1
        BY <1>3, <1>4, <2>1, <2>2
  <2>3. CASE g # lastId + 1
        BY <1>3, <1>4, <2>3 DEF Claimed
  <2>4. QED
        BY <2>2, <2>3
<1>5. ASSUME NEW g \in Ids, NEW u \in Users, Claims(g, u)'
      PROVE  g <= lastId'
  <2>1. g \in Nat
        BY DEF Ids
  <2>2. g <= lastId \/ g = lastId + 1
        BY <1>3, <1>5
  <2>3. QED
        BY <1>1, <2>1, <2>2
<1>6. QED
      BY <1>4, <1>5 DEF Claimed

LEMMA ClaimNext == TInv /\ Claimed /\ [Next]_vars => Claimed'
<1> SUFFICES ASSUME TInv, Claimed, [Next]_vars PROVE Claimed'
    OBVIOUS
<1>a. /\ TypeOK /\ role \in [Ids -> [Users -> Roles]]
      /\ \A c \in Conns : UserOf[c] \in Users
      /\ {"none", "normal", "creator"} \subseteq Roles
      /\ \A c \in Conns : pc[c] \notin {"idle", "friendBack"} => gid[c] \in Ids
      /\ Outcomes \subseteq BOOLEAN
      BY DirectoryAssumption DEF TInv, TypeOK, Busy, Roles
<1>1. ASSUME NEW c \in Conns, CreateGroup(c) PROVE Claimed'
      BY <1>1, ClaimCreateGroup
<1>2. ASSUME NEW c \in Conns, NEW ok \in Outcomes, CreateOwner(c, ok) PROVE Claimed'
  <2>1. /\ InsertMember(gid[c], UserOf[c], "creator", ok) /\ Goto(c, "idle", 0)
        /\ lastId' = lastId /\ pc[c] = "createOwner"
        BY <1>2 DEF CreateOwner, Done
  <2>2. \A g \in Ids, v \in Users : role'[g][v] = "creator" => Claims(g, v)
        BY <1>a, <2>1, InsertRows DEF Claims
  <2>3. QED
        BY <1>a, <2>1, <2>2, ClaimGoto, ClaimKeep
<1>3. ASSUME NEW c \in Conns, NEW ok \in Outcomes, JoinInsert(c, ok) PROVE Claimed'
  <2>1. /\ InsertMember(gid[c], UserOf[c], "normal", ok) /\ Goto(c, "idle", 0)
        /\ lastId' = lastId /\ pc[c] = "joinInsert"
        BY <1>3 DEF JoinInsert, Done
  <2>2. gid[c] \in Ids /\ UserOf[c] \in Users /\ "normal" \in Roles /\ ok \in BOOLEAN
        BY <1>a, <2>1
  <2>3. \A g \in Ids, v \in Users :
          role'[g][v] = "normal" \/ role'[g][v] = role[g][v]
        BY <1>a, <2>1, <2>2, InsertRows
  <2>4. \A g \in Ids, v \in Users : role'[g][v] = "creator" => Claims(g, v)
        BY <2>3 DEF Claims
  <2>5. QED
        BY <1>a, <2>1, <2>4, ClaimGoto, ClaimKeep
<1>4. ASSUME NEW c \in Conns, NEW ok \in Outcomes, LeaveMember(c, ok) \/ LeaveOwner(c, ok)
      PROVE  Claimed'
  <2>1. PICK p, h : Goto(c, p, h) /\ p # "createOwner"
        BY <1>4 DEF LeaveMember, LeaveOwner, Done
  <2>2. /\ RemoveMember(gid[c], UserOf[c], ok) /\ lastId' = lastId
        /\ pc[c] \in {"leaveMember", "leaveOwner"}
        BY <1>4 DEF LeaveMember, LeaveOwner
  <2>3. \A g \in Ids, v \in Users : role'[g][v] = "creator" => Claims(g, v)
        BY <1>a, <2>2, RemoveRows DEF Claims
  <2>4. QED
        BY <1>a, <2>1, <2>2, <2>3, ClaimGoto, ClaimKeep
<1>5. ASSUME NEW c \in Conns, NEW ok \in Outcomes, LeaveRemoveGroup(c, ok) PROVE Claimed'
  <2>1. /\ RemoveGroup(gid[c], ok) /\ Goto(c, "idle", 0)
        /\ lastId' = lastId /\ pc[c] = "leaveGroup"
        BY <1>5 DEF LeaveRemoveGroup, Done
  <2>2. \A g \in Ids, v \in Users : role'[g][v] = "creator" => Claims(g, v)
        BY <1>a, <2>1, RemoveAllRows DEF Claims
  <2>3. QED
        BY <1>a, <2>1, <2>2, ClaimGoto, ClaimKeep
<1>6. ASSUME NEW c \in Conns,
             \/ \E g \in Ids : JoinGroup(c, g) \/ LeaveGroup(c, g)
             \/ \E ok \in Outcomes : JoinRole(c, ok) \/ LeaveCount(c, ok)
      PROVE  Claimed'
  <2>1. PICK p, h : Goto(c, p, h) /\ p # "createOwner"
        BY <1>6 DEF JoinGroup, LeaveGroup, JoinRole, LeaveCount, Done
  <2>2. UNCHANGED <<role, lastId>>
        BY <1>6 DEF JoinGroup, LeaveGroup, JoinRole, LeaveCount, dbVars
  <2>3. QED
        BY <1>a, <2>1, <2>2, ClaimGoto, ClaimKeep DEF Claims
<1>7. ASSUME NEW c \in Conns, NEW ok \in Outcomes,
             FriendBack(c, ok) \/ \E f \in Users : AddFriend(c, f, ok)
      PROVE  Claimed'
  <2>1. /\ UNCHANGED <<role, gid, lastId>>
        /\ \A d \in Conns : pc'[d] = "createOwner" => pc[d] = "createOwner"
        BY <1>a, <1>7 DEF AddFriend, FriendBack, TypeOK
  <2>2. QED
        BY <2>1, ClaimKeep DEF Claims
<1>8. CASE UNCHANGED vars
      BY <1>8, ClaimKeep DEF vars, Claims
<1>9. QED
      BY <1>1, <1>2, <1>3, <1>4, <1>5, <1>6, <1>7, <1>8 DEF Next

\* No two users come to own a group by their rows, whatever statements fail and
\* however many sessions a user has: what OneOwner loses then is that there is
\* an owner, not that there is at most one.
THEOREM DirectoryOneCreatorAtMost == Spec => []OneCreatorAtMost
<1>1. Claimed => OneCreatorAtMost
      BY DEF Claimed, Claims, OneCreatorAtMost
<1>2. QED
      BY <1>1, TypeInit, TypeNext, ClaimInit, ClaimNext, PTL DEF Spec
=============================================================================
