------------------------------ MODULE Directory ------------------------------
(***************************************************************************)
(* Groups, their members, and friends: the handlers createGroup,           *)
(* joinGroup, leaveGroup and addFriend of src/server/chatservice.cpp over  *)
(* the tables chat_group, group_member and friend.                         *)
(*                                                                         *)
(* A handler is a few SQL statements, each a transaction of its own on a   *)
(* connection of its own, with the statements of other connections, on     *)
(* this server or another, in between.  A connection runs one handler at a *)
(* time.  A server that dies leaves its handlers where they are.           *)
(*                                                                         *)
(* A statement may fail (Outcomes).  What the code makes of it is part of  *)
(* its action: a failed SELECT reads like an empty result, and the results *)
(* of most writes are not looked at.  A request whose first statement      *)
(* refuses it (a taken or empty name, an unknown group, not a member)      *)
(* changes no state and is left out.                                       *)
(***************************************************************************)
EXTENDS Naturals, FiniteSets

CONSTANTS
  Users,       \* the ids of table user
  Conns,       \* the connections
  UserOf,      \* UserOf[c]: the user who sends requests on c
  Befriends,   \* bound: the pairs <<u, f>> for which u may ask to add f
  MaxGroups,   \* bound: how many groups are created
  Outcomes,    \* how a statement may end: {TRUE} or BOOLEAN
  None         \* no user

Ids == 1..MaxGroups   \* AUTO_INCREMENT, never used twice

ASSUME DirectoryAssumption ==
  /\ UserOf \in [Conns -> Users]
  /\ IsFiniteSet(Users)
  /\ MaxGroups \in Nat
  /\ Befriends \subseteq Users \X Users
  /\ Outcomes \subseteq BOOLEAN /\ TRUE \in Outcomes
  /\ None \notin Users

VARIABLES
  groups,   \* the rows of chat_group, by id
  lastId,   \* the last id that was given to a group
  role,     \* role[g][u]: the grouprole of row (g, u) of group_member,
            \* "none" where there is no row
  friends,  \* the rows of friend
  pc,       \* pc[c]: the next statement of the handler of c
  gid,      \* gid[c]: the group it is about, or 0
  friend    \* friend[c]: friendid in addFriend, or None

dbVars == <<groups, lastId, role, friends>>
vars   == <<groups, lastId, role, friends, pc, gid, friend>>

Roles == {"none", "normal", "creator"}

Steps == {"idle", "createOwner", "joinRole", "joinInsert", "leaveMember",
          "leaveCount", "leaveOwner", "leaveGroup", "friendBack"}

\* The state has its type, and group_member refers to groups that exist.
TypeOK ==
  /\ groups \subseteq 1..lastId
  /\ lastId \in 0..MaxGroups
  /\ role \in [Ids -> [Users -> Roles]]
  /\ \A g \in Ids \ groups, u \in Users : role[g][u] = "none"
  /\ friends \subseteq Users \X Users
  /\ pc \in [Conns -> Steps]
  /\ gid \in [Conns -> {0} \cup Ids]
  /\ friend \in [Conns -> Users \cup {None}]

Init ==
  /\ groups = {} /\ lastId = 0
  /\ role = [g \in Ids |-> [u \in Users |-> "none"]]
  /\ friends = {}
  /\ pc = [c \in Conns |-> "idle"]
  /\ gid = [c \in Conns |-> 0]
  /\ friend = [c \in Conns |-> None]

-----------------------------------------------------------------------------
(* The statements. *)

\* GroupModel::query: is there such a group?
GroupExists(g) == g \in groups

\* GroupMemberModel::getRole: -1 also when it fails.
RoleOf(g, u, ok) == IF ok THEN role[g][u] ELSE "none"

\* GroupMemberModel::queryUsersByGroup: empty also when it fails.
MembersOf(g, ok) == {u \in Users : ok /\ role[g][u] # "none"}

\* GroupMemberModel::insert.  IGNORE makes nothing of a row that exists, and of
\* one whose group is gone, and reports success.
InsertMember(g, u, r, ok) ==
  role' = IF ok /\ g \in groups /\ role[g][u] = "none"
            THEN [role EXCEPT ![g][u] = r] ELSE role

\* GroupMemberModel::remove
RemoveMember(g, u, ok) ==
  role' = IF ok THEN [role EXCEPT ![g][u] = "none"] ELSE role

\* Faulty variant: the rows of the members stay behind.
RemoveGroupOnly(g, ok) ==
  /\ groups' = IF ok THEN groups \ {g} ELSE groups
  /\ UNCHANGED role

\* GroupModel::remove; the rows of the members go with the group.
RemoveGroup(g, ok) ==
  IF ok
    THEN /\ groups' = groups \ {g}
         /\ role' = [role EXCEPT ![g] = [u \in Users |-> "none"]]
    ELSE UNCHANGED <<groups, role>>

\* GroupModel::insert, when it succeeds.
InsertGroup ==
  /\ lastId' = lastId + 1
  /\ groups' = groups \cup {lastId + 1}

\* The INSERTs of FriendModel::insert
InsertFriend(u, f, ok) ==
  friends' = IF ok THEN friends \cup {<<u, f>>} ELSE friends

\* FriendModel::query: the friends that u is shown.
FriendsOf(u) == {f \in Users : <<u, f>> \in friends}

-----------------------------------------------------------------------------
(* The handlers. *)

\* The handler of c goes on with step p about group g.
Goto(c, p, g) ==
  /\ pc' = [pc EXCEPT ![c] = p]
  /\ gid' = [gid EXCEPT ![c] = g]
  /\ UNCHANGED friend

\* It answers and ends.
Done(c) == Goto(c, "idle", 0)

\* createGroup: the group comes first ...
CreateGroup(c) ==
  /\ pc[c] = "idle" /\ lastId < MaxGroups
  /\ InsertGroup
  /\ Goto(c, "createOwner", lastId + 1)
  /\ UNCHANGED <<role, friends>>

\* ... then the row of its creator; GROUP_OK whether or not it went in.
CreateOwner(c, ok) ==
  /\ pc[c] = "createOwner"
  /\ InsertMember(gid[c], UserOf[c], "creator", ok)
  /\ Done(c)
  /\ UNCHANGED <<groups, lastId, friends>>

\* joinGroup finds the group ...
JoinGroup(c, g) ==
  /\ pc[c] = "idle" /\ GroupExists(g)
  /\ Goto(c, "joinRole", g)
  /\ UNCHANGED dbVars

\* ... looks whether the user is in it ...
JoinRole(c, ok) ==
  /\ pc[c] = "joinRole"
  /\ IF RoleOf(gid[c], UserOf[c], ok) # "none"
       THEN Done(c)
       ELSE Goto(c, "joinInsert", gid[c])
  /\ UNCHANGED dbVars

\* ... and inserts the row.
JoinInsert(c, ok) ==
  /\ pc[c] = "joinInsert"
  /\ InsertMember(gid[c], UserOf[c], "normal", ok)
  /\ Done(c)
  /\ UNCHANGED <<groups, lastId, friends>>

\* Faulty variant: the owner leaves like anyone else.
LeaveGroupAsMember(c, g) ==
  /\ pc[c] = "idle" /\ role[g][UserOf[c]] # "none"
  /\ Goto(c, "leaveMember", g)
  /\ UNCHANGED dbVars

\* leaveGroup reads the role: the owner goes another way.
LeaveGroup(c, g) ==
  /\ pc[c] = "idle" /\ role[g][UserOf[c]] # "none"
  /\ Goto(c, IF role[g][UserOf[c]] = "creator" THEN "leaveCount"
                                               ELSE "leaveMember", g)
  /\ UNCHANGED dbVars

LeaveMember(c, ok) ==
  /\ pc[c] = "leaveMember"
  /\ RemoveMember(gid[c], UserOf[c], ok)
  /\ Done(c)
  /\ UNCHANGED <<groups, lastId, friends>>

\* Faulty variant: off by one.
LeaveCountOneMore(c, ok) ==
  /\ pc[c] = "leaveCount"
  /\ IF Cardinality(MembersOf(gid[c], ok)) > 2
       THEN Done(c)
       ELSE Goto(c, "leaveOwner", gid[c])
  /\ UNCHANGED dbVars

\* The owner is refused while there are others ...
LeaveCount(c, ok) ==
  /\ pc[c] = "leaveCount"
  /\ IF Cardinality(MembersOf(gid[c], ok)) > 1
       THEN Done(c)
       ELSE Goto(c, "leaveOwner", gid[c])
  /\ UNCHANGED dbVars

\* ... else takes himself out, whether or not that works ...
LeaveOwner(c, ok) ==
  /\ pc[c] = "leaveOwner"
  /\ RemoveMember(gid[c], UserOf[c], ok)
  /\ Goto(c, "leaveGroup", gid[c])
  /\ UNCHANGED <<groups, lastId, friends>>

\* ... and deletes the group.
LeaveRemoveGroup(c, ok) ==
  /\ pc[c] = "leaveGroup"
  /\ RemoveGroup(gid[c], ok)
  /\ Done(c)
  /\ UNCHANGED <<lastId, friends>>

\* addFriend inserts one direction ...
AddFriend(c, f, ok) ==
  /\ pc[c] = "idle" /\ <<UserOf[c], f>> \in Befriends
  /\ InsertFriend(UserOf[c], f, ok)
  /\ pc' = [pc EXCEPT ![c] = "friendBack"]
  /\ friend' = [friend EXCEPT ![c] = f]
  /\ UNCHANGED <<groups, lastId, role, gid>>

\* Faulty variant: the first direction again.
FriendBackAgain(c, ok) ==
  /\ pc[c] = "friendBack"
  /\ InsertFriend(UserOf[c], friend[c], ok)
  /\ pc' = [pc EXCEPT ![c] = "idle"]
  /\ friend' = [friend EXCEPT ![c] = None]
  /\ UNCHANGED <<groups, lastId, role, gid>>

\* ... and the other.
FriendBack(c, ok) ==
  /\ pc[c] = "friendBack"
  /\ InsertFriend(friend[c], UserOf[c], ok)
  /\ pc' = [pc EXCEPT ![c] = "idle"]
  /\ friend' = [friend EXCEPT ![c] = None]
  /\ UNCHANGED <<groups, lastId, role, gid>>

Next == \E c \in Conns :
  \/ CreateGroup(c)
  \/ \E g \in Ids : JoinGroup(c, g) \/ LeaveGroup(c, g)
  \/ \E ok \in Outcomes :
       \/ CreateOwner(c, ok)
       \/ JoinRole(c, ok) \/ JoinInsert(c, ok)
       \/ LeaveMember(c, ok)
       \/ LeaveCount(c, ok) \/ LeaveOwner(c, ok) \/ LeaveRemoveGroup(c, ok)
       \/ \E f \in Users : AddFriend(c, f, ok)
       \/ FriendBack(c, ok)

Spec == Init /\ [][Next]_vars

-----------------------------------------------------------------------------
(* Properties.  They are about a database whose statements succeed and     *)
(* users with one session each; see README.md for what else happens.       *)

\* u owns g: by the row of the creator, in the handler of createGroup that has
\* yet to insert it, or in the one of leaveGroup that is about to delete g.
IsOwner(g, u) ==
  \/ role[g][u] = "creator"
  \/ \E c \in Conns : /\ pc[c] \in {"createOwner", "leaveGroup"}
                      /\ gid[c] = g /\ UserOf[c] = u

\* A group has exactly one owner, whatever handlers of createGroup, joinGroup
\* and leaveGroup are between two of their statements.
OneOwner == \A g \in groups : \E u \in Users : \A v \in Users :
  IsOwner(g, v) <=> v = u

\* Friendship goes both ways, but for the addFriend that is half done:
\* FriendModel::insert is two statements.
FriendsMutual == \A u, f \in Users :
  f \in FriendsOf(u) =>
    \/ u \in FriendsOf(f)
    \/ \E c \in Conns : /\ pc[c] = "friendBack"
                        /\ UserOf[c] = u /\ friend[c] = f

\* Although no handler is a transaction, the groups change as if creating,
\* joining, leaving and dissolving were one step each: the group administration
\* implements GroupBook.
BookRole == [g \in Ids |-> [u \in Users |->
  IF IsOwner(g, u) THEN "creator" ELSE role[g][u]]]

BookClosed == {g \in Ids : \E c \in Conns :
  pc[c] \in {"leaveOwner", "leaveGroup"} /\ gid[c] = g}

Book == INSTANCE GroupBook WITH role <- BookRole, closed <- BookClosed
ImplementsGroupBook == Book!Spec
=============================================================================
