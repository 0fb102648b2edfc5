------------------------------- MODULE Tables -------------------------------
(***************************************************************************)
(* The two tables the message service keeps its state in, with the         *)
(* statements that the classes of src/server/model run on them: the state  *)
(* column of user (usermodel.cpp) and offline_message                      *)
(* (offlinemessagemodel.cpp).  The database is one for all servers, and    *)
(* each statement is a transaction of its own.                             *)
(*                                                                         *)
(* A write takes the outcome of its statement, ok: when it fails (no       *)
(* connection, an SQL error, a text too long for the statement's buffer)   *)
(* the tables stay as they are, and no caller looks at the returned flag.  *)
(***************************************************************************)
CONSTANTS
  Users,    \* the ids of table user
  Msgs,     \* the chat messages
  Servers   \* the chat servers

VARIABLES
  dbState,  \* dbState[u]: column user.state
  offline   \* the rows of offline_message

vars == <<dbState, offline>>

States == {"online", "offline"}

\* A row stands for itself: the server that inserted it tells apart the rows
\* that two servers may insert for one message and one recipient.
Rows == [to : Users, msg : Msgs, node : Servers]

TypeOK ==
  /\ dbState \in [Users -> States]
  /\ offline \in SUBSET Rows

Init ==
  /\ dbState = [u \in Users |-> "offline"]
  /\ offline = {}

\* UserModel::updateState
UpdateState(u, s, ok) ==
  /\ dbState' = IF ok THEN [dbState EXCEPT ![u] = s] ELSE dbState
  /\ UNCHANGED offline

\* UserModel::resetAllStateToOffline
ResetAllStateToOffline(ok) ==
  /\ dbState' = IF ok THEN [u \in Users |-> "offline"] ELSE dbState
  /\ UNCHANGED offline

\* OfflineMsgModel::insert
InsertRow(row, ok) ==
  /\ offline' = IF ok THEN offline \cup {row} ELSE offline
  /\ UNCHANGED dbState

\* Faulty variant: the WHERE clause is missing.
RowsForAnyone(u) == {r \in offline : u \in Users}

\* OfflineMsgModel::query.  It orders the rows by send_time, a text that the
\* sending client supplies: any order is possible, so the result is a set.
RowsFor(u) == {r \in offline : r.to = u}

\* OfflineMsgModel::remove: every row of the user, read before or not.
RemoveRowsFor(u, ok) ==
  /\ offline' = IF ok THEN offline \ RowsFor(u) ELSE offline
  /\ UNCHANGED dbState
=============================================================================
