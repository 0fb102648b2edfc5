# Cluster_Chat: a verification project

Cluster_Chat is a chat service in C++: clients talk JSON over TCP to one of
several identical server processes (`ChatServer`, built on muduo), which share a
MySQL database and forward messages to each other through Redis
publish/subscribe. This directory holds a TLA+ model of it, the TLC
configurations that check the model on small instances, and theorems about it
with proofs that TLAPS checks. Paths below are relative to the repository.

1. [Inventory](#1-inventory): the parts of the system
2. [Modules](#2-modules): which module models what, and how it corresponds to the code
3. [Runs](#3-runs): what TLC checks, bounds, fairness
4. [Proofs](#4-proofs): what holds for every instance
5. [Disagreements](#5-disagreements-between-the-code-and-what-is-said-of-it) between the code and what is said of it
6. [What is not modelled](#6-what-is-not-modelled)
7. [Plan](#7-plan)

## 1. Inventory

### Database connection pool (`src/server/db`)
*State*: `_connQueue` of idle MySQL connections, `_currentCount` of opened ones,
a mutex and a condition variable; per `MySQL` object the borrowed `_conn`.
*Operations*: `init`, `getConnection` (pop, open a new one below the limit, or
wait), `releaseConnection` (push, `notify_one`); the constructor and destructor
of `MySQL` call the last two. *Who uses it*: every function of
`src/server/model`, on the four IO threads and the Redis observer thread.
*Hard*: threads race at the limit; `notify_one` against newcomers who never
wait; failing to open a connection falls through to the wait; a broken
connection goes back to the queue untested and is lent on for ever.
*Correct when*: no connection is lent to two threads or lost, the limit holds,
no wake-up is lost, a waiting thread is served unless overtaken for ever; a
broken connection harms only who borrows it.

### Message service (`src/server/chatservice.cpp`)
*State*: `_userConnMap` (user id to connection, guarded by `_connMutex`); in the
database the `state` column of `user` and the table `offline_message`; in Redis
the subscriptions of the process.
*Operations*: `login` (kick an older session of this server, set online, insert
into the map, subscribe, query, push and delete offline messages, LOGIN_OK);
`clientCloseException` (erase, check again, unsubscribe, set offline);
`oneChat` and `groupChat` (per recipient: look up, then forward or publish);
`handleRedisMessage` (forward to a local session, or store); `reset`.
*Interactions*: handlers of different connections run on different IO threads;
the observer thread of Redis calls `handleRedisMessage`; all servers write the
same tables.
*Hard*: every handler is a sequence of critical sections, SQL statements, Redis
commands and sends with other threads in between; nothing is a transaction and
no result of a write is looked at; servers die and start; messages go over
three routes (direct, Redis, database).
*Correct when*: the map refers to live sessions only; nobody reads another
user's messages; a message to a settled session arrives; each server disposes of
a message in one way; nobody stays online for ever; order holds per route.

### Redis client (`src/server/redis`)
*State*: two hiredis contexts (publish, guarded by `_publish_mutex`; subscribe,
unguarded), `_channels` for resubscribing, `_stop`, the observer thread.
*Operations*: `connect`, `publish` (synchronous), `subscribe` and `unsubscribe`
(appended and written, not waited for), `observer_channel_message` (receive,
reconnect, resubscribe). *Hard*: commands of two threads go out in either order;
a PUBLISH reaches the subscribers of the moment only; the publish context is
never re-established; IO threads use the subscribe context while the observer
frees it; `redisConnect` returns a context also for a failed connect, so the
retry loop ends after one attempt; the destructor does not wait for the observer.
*Correct when*: what is published to a subscribed server arrives once, in order;
who wants a channel is subscribed again after an outage.

### Tables and their model classes (`src/server/model`)
*State*: `user`, `friend`, `chat_group`, `group_member`, `offline_message`.
*Operations*: single statements, except `FriendModel::insert` (two INSERTs) and
the handlers that string several together: `createGroup`, `joinGroup`,
`leaveGroup`. *Hard*: each statement commits on its own and may fail alone;
buffers cut long statements; DELETE and SELECT of one login are not one step.
*Correct when*: a friendship has both directions, a group with members exists
and has its owner, an owner leaves only an empty group.

### Registration and passwords (`reg`, `UserModel`)
*State*: the table `user` with its AUTO_INCREMENT id and UNIQUE name; per MySQL
connection the last insert id. *Operations*: `reg` checks the lengths in order,
hashes, inserts, and reads `mysql_insert_id`; `login` selects and compares.
*Hard*: two registrations of one name; the insert id belongs to the connection,
not to the caller; any failure of the INSERT is answered "name exists".
*Correct when*: who hears REGISTER_OK owns the id and the name; an answer is
wrong only if it came over a broken connection. The cipher below is vendored.

### Network front and process (`chatserver.cpp`, `main.cpp`)
One acceptor loop, four IO loops; a connection's callbacks run one at a time on
its loop. `onMessage` takes whatever bytes have arrived as one JSON text.
`main` opens the pool, resets every user to offline, starts the server, and
resets again after an orderly stop, while its IO loops still serve. *Hard*:
segments that hold half a request or two; resets while other servers, or this
one, have users online.

### Client (`src/client/main.cpp`)
A main thread that logs in synchronously and then sends, and a receiver thread
per login. *State*: `g_clientfd`, the static buffer of `recvLine`, the lists
received at login. *Hard*: bytes buffered before the receiver thread starts;
logging out closes the descriptor a blocked thread reads, and the next
connection may get the same number; the buffer survives a re-login.
*Correct when*: a chat line is printed once; the menu means a login; what was
received is printed; the first login goes on.

Nginx balances connections over the servers: any connection may go to any
server, which is how the model takes it.

## 2. Modules

| Module | Models |
|---|---|
| `ResourcePool` | what a pool of connections promises: lend, open, return |
| `ConnectionPool` | `ConnectionPool` and the borrowing `MySQL` object |
| `Tables` | the state column and `offline_message`, with failing statements |
| `Redis` | what a Redis connection promises: commands in order, only the last ones lost |
| `RedisClient` | `redis.cpp`: the contexts, the IO threads, the observer, the destructor |
| `ChatService` | the message service on several servers; instantiates `Tables` and `Redis` |
| `GroupBook` | what the group administration promises: each request one step |
| `Directory` | `createGroup`, `joinGroup`, `leaveGroup`, `addFriend` and their tables, statement by statement |
| `Accounts` | `reg`, the checks of `login`, `UserModel`, on pooled connections that break |
| `Client` | the chat client and the byte streams between it and a server |
| `MC*` | instances for TLC |
| `ChatServiceClaims` | what the repository says of the service and the code does not do |
| `*Proofs` | theorems and proofs; `DeliveryProofs` and `DisposalProofs` continue `ChatServiceProofs` |

`RedisClient` implements `Redis`, which `ChatService` builds on; `ConnectionPool`
implements `ResourcePool`, which `Accounts` takes for granted; `Directory`
implements `GroupBook`.

### ConnectionPool
One action per critical section of `_mtx`. `getConnection` is `GetIdle`,
`GetNew` or `GetWait`; the last also stands for a failed `createConnection`,
which the code lets fall through to `_cv.wait`. A waiting thread is in
`waiting`, a notified one in `woken` until it has the mutex again, when the
predicate sends it on (`WakeAndPop`) or back (`WakeAndWait`); wake-ups may be
spurious. `Release` is `~MySQL`, with the choice `notify_one` has. Connections
are numbers in the order they were opened. `Idle` and `held` are the refinement
mapping to `ResourcePool`.

### Tables and Redis
Operators over the variables of each, one per SQL statement and per command.
A write takes its outcome as a parameter, since the caller never looks at it.
`Redis` keeps apart the commands a server has written (`pipe`), the
subscriptions Redis has acted on (`subs`), and what it has published to a server
that the observer thread has not read (`bus`). `Forget` and `Disconnect` are what
may go wrong on the way: the last commands are lost, or a connection falls with
everything on it.

### RedisClient
| Code | Actions |
|---|---|
| `connect` | `Init` |
| `subscribe`, `unsubscribe`: the null check | `Subscribe`, `Unsubscribe` |
| `_channels` under its mutex | `Record` |
| `redisAppendCommand`, `redisBufferWrite` | `AppendCall`, `WriteCall` |
| `redisGetReply`: writes, then blocks; a message | `ObserverFlush`, `ObserverReceive` |
| an error: `redisFree`, null, connect | `ObserverLost`, `ObserverNull`, `ObserverConnect` |
| subscribe again under the mutex | `ObserverLock`, `ObserverAppend`, `ObserverWrite` |
| `~Redis` | `Stop`, `StopFree`, `StopDetach` |
| `publish` | `Publish` |
| the Redis server (external) | `RedisServes`, `Outage`, `Recover` |

The subscribe context is used by several threads without a lock. A hiredis call
is one step; where two threads may be inside hiredis at once the calls take
effect in either order, or a command is lost (`raced`), or the process dies
(`dead`). A call on a freed context does nothing or kills the process, one on a
null pointer kills it. `wanted[ch]` is what the service last asked for. The
refinement mapping takes `pipe \o obuf` for what is on the wire while the link
stands, and nothing once it has fallen. The publish context has a flag, `pubUp`,
which nothing sets again.

### ChatService
`pc[c]` is the next step of the handler that runs for connection `c`:

| Code | Actions |
|---|---|
| `main` up to the reset; the reset after the loop; a kill, or the end of a stop | `Start`; `Stop`; `Crash` |
| a client connecting, leaving | `Connect`, `PeerClose` |
| `login` steps 1 and 2 | `Login` |
| step 3 under the lock | `LoginKick` |
| step 4 | `LoginSetOnline` |
| step 5 under the lock | `LoginInsert` |
| subscribe | `LoginSubscribe` |
| step 6: query, each send, remove | `LoginQuery`, `LoginPush`, `LoginRemove` |
| step 7 | `LoginAck` |
| `clientCloseException`, erase under the lock | `CloseErase` |
| second look under the lock | `CloseCheck` |
| unsubscribe, set offline | `CloseUnsubscribe`, `CloseSetOffline` |
| `oneChat`, `groupChat` up to the loop | `OneChat`, `GroupChat` |
| look up under the lock; send or publish | `ChatLookup`; `ChatForward`, `ChatPublish` |
| `handleRedisMessage` under the lock; the insert | `Observe`; `Store` |
| Redis acting on a command | `RedisServes` |

`status[c]` is the TCP connection as muduo sees it. `shutdown` (the kick)
leaves it `half`: still read, but `send` drops. A peer that has closed is
`lost`; the close callback runs when no handler of the connection does, since
both run on the connection's loop. After SIGINT (`Stop`) the server accepts nobody
and resets the states while its IO loops go on with logins, closes and messages;
the process is gone with `Crash`.

### Directory
One action per SQL statement, `pc[c]` the next statement of the handler of
connection `c`, `gid[c]` and `friend[c]` what it is about:

| Code | Actions |
|---|---|
| `createGroup`: the group, the creator's row | `CreateGroup`, `CreateOwner` |
| `joinGroup`: the group exists, the role, the row | `JoinGroup`, `JoinRole`, `JoinInsert` |
| `leaveGroup`: the role | `LeaveGroup` |
| a member's row | `LeaveMember` |
| the owner: count, own row, the group | `LeaveCount`, `LeaveOwner`, `LeaveRemoveGroup` |
| `addFriend`: one direction, the other | `AddFriend`, `FriendBack` |

`role[g][u]` is the row of `group_member`, `"none"` where there is none. A
failing SELECT reads as the code reads it: no role, no members. `INSERT IGNORE`
does nothing, successfully, for a row that exists or whose group is gone (the
foreign keys of the repository's README). Deleting a group deletes its rows, as
`chatservice.cpp:431` says; the schema is not in the repository. A request
refused by its first statement changes nothing and is left out, and so are names
(a taken or empty one is such a refusal) and the answers. A server that dies is a
handler that takes no further step.

`BookRole` and `BookClosed` map the tables to `GroupBook`: a handler between the
group and its creator's row, or between the owner's row and the group, counts as
the owner's row; a group is closed once its owner has counted nobody else.

### Accounts
| Code | Actions |
|---|---|
| `reg` up to `insert`; `login` up to `query` | `Reg`, `Login` |
| the `MySQL` object: constructor, destructor | `Borrow`, `Release` |
| `UserModel::insert`: the INSERT, its id | `Insert`, `InsertUnheard`, `InsertId` |
| `UserModel::query` | `Query` |
| either on a broken connection | `StatementFails` |
| the answer | `Answer` |
| the database server (external) | `Break` |

`InsertUnheard` is an INSERT that commits while its result is lost. An id is a
place in the sequence `user`; an INSERT refused by the UNIQUE name uses up an id
too, so there are gaps. A password stands for all that hash alike.

### Client
| Code | Actions |
|---|---|
| `main`: connect; the menu of `loginOrRegister` | `Connect`; `Ask` |
| `recvLine`, and the loop around it | `MainReceive`, `MainEnd`; `MainLine` |
| `mainMenu` | `Send`, `Logout`, `Quit` |
| `readTaskHandler`: recv, the split | `ReceiverCall`, `ReceiverData`, `ReceiverEnd`; `ReceiverLine` |
| `ChatServer::onMessage`, a session's end | `OnMessage`, `Kick`, `ServerChat`, `ServerClose` |

Connections are numbered. `socket()` returns the lowest free descriptor, so each
connection gets the number of the one before: `fd` says for which connection the
number stands. A thread inside `recv` keeps its connection (`on`) whatever happens
to the number. A line is two halves, the second with the newline, and a `recv`
returns any number of halves; so a buffer may hold half a line of one connection
followed by another's. The server's side is what a client can see of it; its
death is left out.

### Abstractions of the service, and why they are sound for the properties
- A refused login changes nothing and is left out.
- Names, texts, times and passwords are gone; a message is its number. Rows of
  `offline_message` are a set: `ORDER BY send_time` orders by a client's text.
- Group membership is constant; `Directory` has the handlers that change it.
- Two connections of one IO loop never interleave in the code and may in the
  model, which has more behaviours: any two may be on different loops.
- The client logs in once per connection (`loginOrRegister` returns on LOGIN_OK)
  and chats only after it.
- Connections are used once; their number bounds the logins.

## 3. Runs

`tlc -config X.cfg M` in this directory. Every property of a passing run has a
faulty variant of an action (named in `PROJECT.json`) under which the run
refutes it.

| Run | Instance | Checks |
|---|---|---|
| `pool` | 4 threads, 2 to 3 connections | `TypeOK`, `Conserved`, `NoLostWakeup`, `ImplementsResourcePool`, `NobodyForgotten` |
| `service_cluster` | 2 servers, 3 connections, 2 users, 1 message | `TypeOK`, `NoMisdelivery`, `OneDisposal` |
| `service_presence` | 2 servers, 3 connections, 1 user, 1 crash | `MapHoldsLiveSessions`, `OnlineHasOwner`, `LeavingShows` |
| `service_order` | 2 servers, 2 connections, 3 users, 2 messages, 1 crash, failing writes | `FifoPerRoute` |
| `service_delivery` | 2 servers, 2 connections, 2 users, 1 message, one server stopped or one killed | `OnlineHasOwner`, `LeavingShows`, `OnlineDelivery` |
| `redis_client` | 2 IO threads, 2 channels, 2 calls, 1 outage, 1 message | `TypeOK`, `WantedIsSubscribed`, `SubscriptionsRestored`, `ImplementsRedis` |
| `directory` | 3 users with a connection each, 2 groups, 2 friend requests | `TypeOK`, `OneOwner`, `FriendsMutual`, `ImplementsGroupBook` |
| `accounts` | 2 clients, 2 pooled connections, 4 names, 3 passwords, 3 requests | `TypeOK`, `RegisteredIsOwn`, `OnlyBrokenLies`, `NoOrphans` |
| `client` | 1 user, 2 connections, 3 requests, 2 chat lines | `TypeOK`, `ShownOnce`, `MenuMeansLoggedIn`, `LostOnlyInLineBuf`, `FirstLoginProceeds` |
| `claim_absent_stored`, `claim_removes_pushed` | 1 server, 3 connections | section 5 |
| `claim_answer_taken` | as `client` | section 5 |

**Bounds.** Four threads on three connections let two wait while others hold and
newcomers overtake; one more of either only repeats a role. Three connections, two on one server, are what a
takeover needs (old and new session), together with a sender or a session of the
same user elsewhere. In `service_cluster` `LoginAs` says who is on which of them
(alice on both servers, bob beside her on one), in `service_delivery` that bob is
on one server and either user on the other; elsewhere anyone may log in
anywhere. `MaxMsgs` is 1 where the question is where one message
goes, 2 where it is about order. `MaxCrashes` is 1: a second crash meets no
state that a first one does not leave, but costs a factor. An orderly stop
(`Stoppable`) is in `service_delivery`: presence must survive its second reset, and
the server that stops still has to deliver. `Outcomes` is
`{TRUE}` when a property needs writes to succeed and `{TRUE, FALSE}` in
`service_order`, where any statement or PUBLISH may fail. In `directory` an
owner, a member who leaves and one who joins meet, a second group shows that ids
are not mixed up, and alice and bob may add each other at the same time. In
`redis_client` two threads with a call each, and the observer on its way through
one outage, meet at every step; alice's calls come one after the other
(`Exclusive`), as those of one session do, bob's may overlap; Redis may be down from
the start. In `accounts` the names and passwords sit at both sides of the limits
of `reg`, and three requests on two connections let two registrations of a name
race while a login or a third registration goes on. In `client` a second
connection is what a leftover buffer and a reused descriptor need; a third
request lets the client do something after its second login, or register first.
`MaxCalls`, `MaxPosts`, `MaxReqs`, `MaxChats` and `MaxConns` bound what the
environment does, never what the code does with it.
Symmetry is used
only where invariants or an action property are checked, never with liveness. Deadlock is not checked in the service: connections and
messages are bounded, and when all are used the system may stop. Nor is it in
`directory`, `accounts`, `client` and `redis_client`, whose requests are bounded
and whose processes may end. It is checked in `pool`.

**Fairness.** In the pool: a borrower returns its connection (the destructor of
a local object after one statement) and a notified thread gets the mutex.
Nothing makes a thread call. In the service: the handler of every connection,
every observer thread, and Redis keep going (event loops and threads that the
code never stops); nothing makes clients act or a dead server start, so
`LeavingShows` and `OnlineDelivery` say "unless". In the Redis client: the threads
run and Redis acts on what it is sent; outages and recoveries just happen, and
`SubscriptionsRestored` asks something only when Redis stays up from some time on.
In the client: its two threads and the server run; users need do nothing.

**What the properties mean.**
- `Conserved`: a connection is once in the queue or with one thread.
- `NoLostWakeup`: while a thread sleeps, every idle connection has a woken
  thread on its way. `NobodyForgotten`: a blocked thread is served unless others
  take connections for ever; that exception is real, the mutex is not fair.
- `MapHoldsLiveSessions`: the map of a server refers only to its own
  connections whose login for that user ran, that were not kicked, whose close
  callback has not run. It is why kicks and closes may interleave.
- `OnlineHasOwner`: online in the database means a session, a handler that will
  still settle it, or a dead server. `LeavingShows`: when all sessions end, the
  user becomes offline.
- `NoMisdelivery`, `OneDisposal`, `FifoPerRoute`, `OnlineDelivery`: no wrong
  recipient; per server exactly one way; order per live route; a message to the
  one settled session of a user arrives.

- `OneOwner`: every group has exactly one owner, though two statements make it
  and two unmake it. `FriendsMutual`: friendship goes both ways, but within an
  `addFriend`. `ImplementsGroupBook`: each request looks like one step of
  `GroupBook`, and a group goes only after its owner was once alone in it. These
  need statements to succeed, and the groups also need users with one session
  each: when the creator's insert fails or the server dies before it, or when
  the creator's second session joins first, the group has no owner.

- `WantedIsSubscribed`, `SubscriptionsRestored`: a user whose last call was a
  subscribe and whose channel is in `_channels` is subscribed whenever things are
  quiet, and comes to be so after every outage. Neither is claimed for channels
  whose calls overlap (`_channels` is a list, and the order on the wire is another
  than in it), nor when a data race lost a command. `ImplementsRedis`: to the
  service the client is the connection that `Redis` describes.
- `RegisteredIsOwn`: the id in REGISTER_OK is that of the account asked for and
  nobody else's; a name has one account. `OnlyBrokenLies`: a wrong answer came
  over a broken connection. `NoOrphans`: an account without an owner comes from
  a connection that broke under its INSERT.
- `ShownOnce`: no chat line is printed twice, and in order before any logout.
  `MenuMeansLoggedIn`: whoever sees the menu is logged in, on this connection, as
  the user asked for, whatever the buffer held. `LostOnlyInLineBuf`: the one place
  where a received line is lost before a logout is the buffer of `recvLine`.
  `FirstLoginProceeds`: the first login, and what precedes it, is answered, unless
  the server took two requests, or a part of one, for one.

What does *not* hold, and is therefore not claimed: order across routes (a
direct forward overtakes an earlier publish); a message to a user with stale
subscriptions on several servers being delivered once.

## 4. Proofs

`tlapm M.tla` for each of `ConnectionPoolProofs`, `ChatServiceProofs`,
`DeliveryProofs`, `DisposalProofs`, `DirectoryProofs`, `AccountsProofs`,
`RedisClientProofs`, `ClientProofs`. All hold for every value of the constants under the
assumptions the modules name (`PoolAssumption`: finitely many threads and
`0 < InitSize <= MaxSize`; `ServiceAssumption`: connections go to servers, groups
consist of users, bounds are naturals, `None` is nobody; `DirectoryAssumption`:
connections belong to users, of whom there are finitely many;
`AccountsAssumption`: the pool's queue names each connection once;
`ClientAssumption` of `RedisClient`, `StreamAssumption` of `Client`: bounds are
naturals, `None` is nobody).

| Theorem | Says |
|---|---|
| `PoolTypeOK`, `PoolConserved`, `PoolNoLostWakeup` | the pool's invariants, any number of threads |
| `PoolImplementsResourcePool` | the pool refines `ResourcePool` |
| `ServiceTypeOK` | types of the service |
| `ServiceMapHoldsLiveSessions` | the maps, with any number of servers, logins, crashes, failing writes |
| `ServiceOnlineHasOwner` | no ghosts, if the writes of the state column succeed (`Outcomes = {TRUE}`) |
| `ServiceNoMisdelivery` | nobody is sent what was not addressed to him, whatever crashes and fails |
| `ServiceFifoPerRoute` | order on each live route, whatever crashes and fails |
| `ServiceOneDisposal` | per server one way to dispose of a message to a user, whatever crashes and fails |
| `DirectoryTypeOK` | types of the tables, no member row without its group, whatever fails |
| `DirectoryOneOwner` | one owner per group, if statements succeed and nobody has two sessions |
| `DirectoryOneCreatorAtMost` | no group has two creators' rows, whatever fails and however many sessions a user has |
| `DirectoryFriendsMutual` | friendship is mutual, if statements succeed |
| `DirectoryImplementsGroupBook` | the group administration refines `GroupBook`, under the same as `DirectoryOneOwner` |
| `AccountsTypeOK`, `AccountsRegisteredIsOwn` | a pooled connection serves one handler; whom an id and a name belong to |
| `AccountsOnlyBrokenLies`, `AccountsNoOrphans` | a connection that breaks harms only the answers that came over it, and leaves only accounts whose INSERT was under way |
| `RedisClientTypeOK`, `RedisClientImplementsRedis` | when the context may be missing; the client refines `Redis`, through outages, races and the destructor |
| `RedisClientWantedIsSubscribed` | whoever wants a channel is subscribed when things are quiet, any number of threads, channels and outages |
| `ClientTypeOK` | types; a receiver thread inside `recv` reads an open connection, though descriptors are reused |
| `ClientMenuMeansLoggedIn` | the menu means a login, of the right user, on this connection |
| `ClientShownOnce`, `ClientLostOnlyInLineBuf` | chat lines are printed once, in order, and lost only in the buffer of `recvLine` |

*The pool.* `NoLostWakeup` counts, so the proof is about cardinalities. By
itself it is not inductive: `Blocked` adds that nobody is both waiting and woken
and that a blocked thread holds nothing. The refinement follows from `Conserved`: what `GetNew`
opens is in nobody's hands, what `Release` returns is not idle.

*The service.* `TypeOK` needs `HandlerOK` (a running handler has a user, a
message and a recipient), and the close handler needs the map to tell who it
was, so types and sessions are proved as one invariant, `TInv /\ SInv`.
`MapHoldsLiveSessions` is made inductive by `Admissible`: a connection that has
yet to enter the map was never kicked, because only mapped connections are, and
only an open connection has a handler. `OnlineHasOwner` is then inductive
together with them. Its proof is a hand-over argument (`OwnerKept`): the kicked
session answers until the kick, the new login from then on; whoever finds an
entry at `LoginInsert` or `CloseCheck` leaves the answer to it, and
`MapHoldsLiveSessions` says that the entry is a session of that user; a crash
turns everyone who answers on that server into connections cut off, until the
next start resets the column.

*Delivery.* `DInv` says of every place a message can be in (a handler's locals, `bus`,
`hand`, `offline`, the rows a login has yet to push, the inboxes) that its message
was addressed to whom the place names. The one delicate step is the lookup: what
it finds is a session of the recipient by `MapHoldsLiveSessions`, and stays one
although the lock is released, since a connection keeps its user.

*Order.* `OInv`: a handler works at the latest message of its connection, and visits
a recipient once (`JobsLatest`); so what has left it for a user is older than what
it has yet to send (`BusPast`, `InboxPast`). With that `bus` is in order, relayed
copies precede what is still on `bus`, and the inboxes are in order per route.

*Disposal.* `XInv`: what server `n` does with message `m` to user `u` is named by the
row it may come to store. That message waits in `bus`, is in the observer's hand, in
the table (or read from it and not yet pushed), or with a client, and moves forward
only (`Alone`): `BusOrdered` makes it the only one of its kind in `bus`, so taking it
from there leaves none. What a sender has not sent yet is nowhere (`AroundPast`), so a
direct forward makes the first copy and the only one. A login pushes each row it has
read once (`PushedOnce`); only the same row pushed to another session is a second copy.

*The directory.* `OneOwner` becomes inductive with `Settled`: a handler that has
yet to insert the creator's row, or has deleted it, is not in the group; one on
its way to delete it is the creator; one that leaves as a member is not. Every
other statement keeps the owners (`SameOwners`); since a group has one owner,
nobody else is about to delete it. The refinement follows statement by statement:
`BookSame` for those the book does not see, `BookWrite` for those that write one
entry, and a counting argument for `LeaveCount`. `FriendsMutual` needs `HalfDone`:
a half-done `addFriend` has inserted its first row. When statements fail, or a user
has two sessions, a group can be without an owner (section 5), but not with two:
`Claimed` says that only who made a group has, or may still insert, the creator's row,
and that ids not yet given are claimed by nobody.

*The accounts.* `Lent`: a pooled connection is once in the queue or with one handler.
That is what makes `mysql_insert_id` safe: between the INSERT and reading its id
nobody else uses the connection. `Handling` ties each running handler to one
unanswered request; `Owned` says that an id made and not yet answered is one
handler's and in no answer. When connections break, `Honesty` has to hold of the
handlers too, not of the answers only: `Told` says that what a handler has found
out is true, or its connection, which it still has, is broken (an `Insert` refused
by the UNIQUE name can still see the account that refused it: rows are never
deleted); `KnownTo` says where the knowledge of each account is, from the handler
that made it to the answer.

*The Redis client.* `LinkOK`: a fallen link has nothing on it, and the observer
replaces no other, so a reconnect loses only what was lost. Each step is then one of
`Redis`: an append adds at the end of `OnWire`, a lost or overwritten buffer is
`Forget`, an outage `Disconnect`, a flush and all the rest a stutter.
`WantedIsSubscribed` looks at quiet states only, so the invariant, `Followed`, says
of all the others where the subscribe of a wanted channel is (`UnderWay`): with the
observer, which has still to give it, with an IO thread past the null check, or on
the wire with no unsubscribe behind it (`Heard`). It needs `Serial`: a call for an
exclusive channel that is under way is the last one.

*The client.* `StreamsOK` is about all buffers at once: each half of a line that was
received is in one of them at most, in order, and the end of a printed line in none;
so no line can be completed twice, whichever thread reads. `Answers` follows the
request that main waits for: main sends it only when nothing that could be taken for
its answer is outstanding (`AtChoice`), from then on at most one such answer exists
and it fits the request (`Awaited`), and answers of an earlier connection are never
in the buffer (`OldAnswersGone`): main leaves the loop of a connection with its last
answer read. A server that takes two requests for one, or half of one, only answers
less. `Ordered` says, while no logout has happened, that the buffer of `recvLine` and
the receiver's are windows of one stream, the second behind the first; from the menu
on the first is never read again, so the lines in it, and the one cut at its end, are
those that are lost.

*Only model-checked*: liveness (`NobodyForgotten`, `LeavingShows`,
`OnlineDelivery`, `SubscriptionsRestored`, `FirstLoginProceeds`), which is out of
the prover's reach under fairness. Every invariant and every refinement that a
passing run checks is also a theorem.

## 5. Disagreements between the code and what is said of it

| Run | The code | What is said |
|---|---|---|
| `claim_absent_stored` | `groupChat` publishes for a member without a local session; if no server is subscribed, nothing is delivered or stored | `chatservice.cpp:459` |
| `claim_removes_pushed` | a row stored between a login's query and its delete is deleted unread | `chatservice.cpp:144` |
| `claim_answer_taken` | the receiver thread of an earlier login outlives the logout and can take the answer that the next login waits for (`client/main.cpp:157`) | `client/main.cpp:114` |

Seen while modelling, without a run of their own.

*Sessions and presence.* A session on another server is not closed by a new login
(`README.md:161`). Of two simultaneous logins on one server one stays open outside
the map (`chatservice.cpp:115`), and leaves a subscription nobody cancels. A close
that found no other session writes offline after a new login wrote online
(`chatservice.cpp:282`). `reset`, at a start and at an orderly stop, marks users of
*other* servers offline (`chatservice.cpp:255`); a login after a stop's reset
(`main.cpp:46`) stays online when the process is gone. Two subscribed servers can
both store one message.

*Groups.* A group is deleted under a user who joined after its owner counted the
members (`README.md:174`, `chatservice.cpp:422`). A failing count reads as no
members and deletes a full group (`chatservice.cpp:418`); a failing creator's row
(`chatservice.cpp:362`) is answered `GROUP_OK`, and so is joining a group that was
just deleted.

*Redis.* `_channels` has an entry per login and may hold several for a channel, or
one that nobody wants (`redis.hpp:55`). A subscribe between the observer's null and
its reconnect is not recorded (`redis.cpp:98`, `:103`). The destructor frees the
context under the observer (`redis.cpp:24`).

*Accounts.* Every failure of the INSERT is answered REGISTER_USER_EXISTS. A broken
connection is lent on for ever. The comment at `chatservice.cpp:196` says that
checks are missing which are there.

*Client.* Messages end with a newline (`README.md:114`), but `onMessage` takes all
bytes that have arrived as one JSON text (`chatserver.cpp:52`). A logout closes the
descriptor, but the connection stays open while the receiver is blocked on it
(`README.md:162`). Chat lines in the buffer of `recvLine` when the login is
answered are not printed (`README.md:168`, `client/main.cpp:311`). Nothing sends
KICK_MSG_ACK.

## 6. What is not modelled

- *bcrypt and Blowfish* (`src/server/bcrypt`): vendored sequential arithmetic over
  thousands of rounds; a password stands for all that hash alike.
- *`thirdparty/json.hpp`*: third-party, and most of the repository's lines, so the
  share of all lines that the model covers is small whatever is modelled.
- *Value classes* (`User`, `Group`, `public.hpp`): getters, setters, enumerations.
- *Reads*: `queryGroupInfo`, the lists of a login, and the model functions that
  nothing calls. They change no state.
- *The pool's failing `init`* (the process ends) and its destructor (it runs when
  the process ends).
- *A JSON text without a usable `msgid`*: `onMessage` catches parse errors only. The
  program's own client sends no such text.
- *In the client*: what its user types wrongly, wording and layout, the death of a
  server. *Nginx* is any choice of a server.

## 7. Plan

1. What the liveness runs rest on, as theorems: what a step may never undo while a
   message is on its way to a settled session, or a user on the way to offline.
2. The pool's `init` with failing connections.
