-------------------------------- MODULE Client --------------------------------
(***************************************************************************)
(* The chat client (src/client/main.cpp): a main thread that connects,     *)
(* logs in or registers, sends what its user types, logs out and connects  *)
(* again; and a receiver thread per login.  What the server does with the  *)
(* byte stream (ChatServer::onMessage) and with a login is here as far as  *)
(* a client sees it.                                                       *)
(*                                                                         *)
(* Connections are numbered in the order they are opened.  A line is two   *)
(* halves, the second with the newline; a recv may return any number of    *)
(* halves.  <<c, i>> is the i-th half that the server sent on c, so the    *)
(* even ones end a line.  Halves of different lines do not parse.          *)
(*                                                                         *)
(* socket() takes the lowest free descriptor, so every connection gets the *)
(* number of the one before; fd says which one the number stands for.  A   *)
(* recv that is under way keeps its connection open though the number be   *)
(* closed or given to another.                                             *)
(***************************************************************************)
EXTENDS Naturals, Sequences, Functions

CONSTANTS
  Users,
  MaxConns,  \* bound: how often the client connects
  MaxReqs,   \* bound: how many requests the client sends
  MaxChats,  \* bound: chat lines the server sends
  None

ASSUME StreamAssumption ==
  /\ MaxConns \in Nat /\ MaxReqs \in Nat /\ MaxChats \in Nat
  /\ None \notin Users

Conns == 1..MaxConns

VARIABLES
  main,     \* the next step of the main thread
  asked,    \* choice: what it last asked for
  who,      \* the user of the last login request
  sock,     \* the last connection, 0 before the first
  fd,       \* the connection the descriptor stands for, 0 when it is closed
  lineBuf,  \* the static buffer of recvLine
  rpc, on, rbuf,  \* per receiver thread: next step, what it reads, its buffer
  shown,    \* the chat lines printed, as <<connection, line>>
  out,      \* out[c]: the lines the server sent on c
  got,      \* got[c]: how many halves of them were received
  req,      \* req[c]: the requests sent on c
  seen,     \* seen[c]: how many halves of them the server has read
  handled,  \* handled[c]: how many of them it has understood
  srv,      \* srv[c]: the server's end of c
  suser,    \* suser[c]: the user logged in on c
  chats     \* how many chat lines were sent

mainVars   == <<main, asked, who, sock, fd, lineBuf>>
recvVars   == <<rpc, on, rbuf>>
serverVars == <<out, seen, handled, srv, suser, chats>>

Running == main # "exit"

vars == <<mainVars, recvVars, shown, got, req, serverVars>>

Kinds    == {"chat", "ok", "fail", "reg"}
Requests == [kind : {"login", "reg", "chat"}, user : Users \cup {None}]

Init ==
  /\ main = "start" /\ asked = "reg" /\ who = None
  /\ sock = 0 /\ fd = 0 /\ lineBuf = <<>>
  /\ rpc = [c \in Conns |-> "none"]
  /\ on = [c \in Conns |-> 0]
  /\ rbuf = [c \in Conns |-> <<>>]
  /\ shown = <<>>
  /\ out = [c \in Conns |-> <<>>]
  /\ got = [c \in Conns |-> 0]
  /\ req = [c \in Conns |-> <<>>]
  /\ seen = [c \in Conns |-> 0]
  /\ handled = [c \in Conns |-> 0]
  /\ srv = [c \in Conns |-> "none"]
  /\ suser = [c \in Conns |-> None]
  /\ chats = 0

-----------------------------------------------------------------------------
(* Byte streams                                                            *)

Unread(c) == 2 * Len(out[c]) - got[c]
Following(c, k) == [i \in 1..k |-> <<c, got[c] + i>>]

\* recv on c gives the next k halves.
Receive(c, k) == got' = [got EXCEPT ![c] = @ + k]

\* The server sends no more and everything was received: recv returns 0.
AtEnd(c) == srv[c] \in {"shut", "gone"} /\ Unread(c) = 0

Ends(buf)    == {i \in DOMAIN buf : buf[i][2] % 2 = 0}
HasLine(buf) == Ends(buf) # {}
LineEnd(buf) == CHOOSE i \in Ends(buf) : \A j \in Ends(buf) : i <= j
Rest(buf)    == SubSeq(buf, LineEnd(buf) + 1, Len(buf))

\* What stands before the first newline is a line, and not parts of several.
Parses(buf) ==
  LineEnd(buf) = 2 /\ buf[1] = <<buf[2][1], buf[2][2] - 1>>

LineAt(half) == <<half[1], half[2] \div 2>>
FirstLine(buf) == LineAt(buf[2])
Kind(line) == out[line[1]][line[2]]

-----------------------------------------------------------------------------
(* The main thread                                                         *)

Connect ==
  /\ main = "start" /\ sock < MaxConns
  /\ sock' = sock + 1 /\ fd' = sock'
  /\ main' = "choose"
  /\ srv' = [srv EXCEPT ![sock'] = "open"]
  /\ UNCHANGED <<asked, who, lineBuf, recvVars, shown, got, req, out, seen,
                 handled, suser, chats>>

AskedSoFar == FoldFunction(LAMBDA lines, n : Len(lines) + n, 0, req)

SendLine(kind, u) ==
  req' = [req EXCEPT ![sock] = Append(@, [kind |-> kind, user |-> u])]

\* The menu of loginOrRegister.
Ask(kind, u) ==
  /\ main = "choose" /\ AskedSoFar < MaxReqs
  /\ asked' = kind
  /\ who' = IF kind = "login" THEN u ELSE who
  /\ SendLine(kind, u)
  /\ main' = "await"
  /\ UNCHANGED <<sock, fd, lineBuf, recvVars, shown, got, serverVars>>

\* Faulty variant: what was received before is dropped.
MainReceiveAfresh ==
  /\ main = "await" /\ ~HasLine(lineBuf)
  /\ \E k \in 1..Unread(sock) :
       Receive(sock, k) /\ lineBuf' = Following(sock, k)
  /\ UNCHANGED <<main, asked, who, sock, fd, recvVars, shown, req, serverVars>>

\* recvLine, when its buffer holds no line.
MainReceive ==
  /\ main = "await" /\ ~HasLine(lineBuf)
  /\ \E k \in 1..Unread(sock) :
       Receive(sock, k) /\ lineBuf' = lineBuf \o Following(sock, k)
  /\ UNCHANGED <<main, asked, who, sock, fd, recvVars, shown, req, serverVars>>

MainEnd ==
  /\ main = "await" /\ ~HasLine(lineBuf) /\ AtEnd(sock)
  /\ main' = "exit"
  /\ UNCHANGED <<asked, who, sock, fd, lineBuf, recvVars, shown, got, req, serverVars>>

Show(line) ==
  shown' = IF Kind(line) = "chat" THEN Append(shown, line) ELSE shown

\* Faulty variant: errno is not looked at.
MainLineAnyAnswer ==
  /\ main = "await" /\ HasLine(lineBuf)
  /\ lineBuf' = Rest(lineBuf)
  /\ LET kind == IF Parses(lineBuf) THEN Kind(FirstLine(lineBuf)) ELSE "junk" IN
     /\ main' = IF kind \in {"ok", "fail"} /\ asked = "login" THEN "menu"
                ELSE IF kind = "reg" THEN "choose" ELSE main
     /\ rpc' = IF main' = "menu" THEN [rpc EXCEPT ![sock] = "call"] ELSE rpc
     /\ IF kind = "junk" THEN UNCHANGED shown ELSE Show(FirstLine(lineBuf))
  /\ UNCHANGED <<asked, who, sock, fd, on, rbuf, got, req, serverVars>>

\* One line of the loop in loginOrRegister.  A line that does not parse is
\* skipped; after LOGIN_OK main starts the receiver thread.
MainLine ==
  /\ main = "await" /\ HasLine(lineBuf)
  /\ lineBuf' = Rest(lineBuf)
  /\ LET kind == IF Parses(lineBuf) THEN Kind(FirstLine(lineBuf)) ELSE "junk" IN
     /\ main' = IF kind = "ok" /\ asked = "login" THEN "menu"
                ELSE IF kind = "reg" \/ (kind = "fail" /\ asked = "login") THEN "choose"
                ELSE main
     /\ rpc' = IF main' = "menu" THEN [rpc EXCEPT ![sock] = "call"] ELSE rpc
     /\ IF kind = "junk" THEN UNCHANGED shown ELSE Show(FirstLine(lineBuf))
  /\ UNCHANGED <<asked, who, sock, fd, on, rbuf, got, req, serverVars>>

\* A request from the main menu.
Send ==
  /\ main = "menu" /\ AskedSoFar < MaxReqs
  /\ SendLine("chat", who)
  /\ UNCHANGED <<mainVars, recvVars, shown, got, serverVars>>

\* mainMenu and main both close the descriptor; nothing opens one in between.
Logout ==
  /\ main = "menu"
  /\ fd' = 0
  /\ who' = None
  /\ main' = "start"
  /\ UNCHANGED <<asked, sock, lineBuf, recvVars, shown, got, req, serverVars>>

Quit ==
  /\ main \in {"choose", "menu"}
  /\ fd' = 0
  /\ main' = "exit"
  /\ UNCHANGED <<asked, who, sock, lineBuf, recvVars, shown, got, req, serverVars>>

-----------------------------------------------------------------------------
(* readTaskHandler, on the receiver thread started after the login on c    *)

\* Faulty variant: recv on a closed descriptor is tried for ever.
ReceiverCallAgain(c) ==
  /\ rpc[c] = "call" /\ Running
  /\ rpc' = [rpc EXCEPT ![c] = "blocked"]
  /\ on' = [on EXCEPT ![c] = fd]
  /\ UNCHANGED <<mainVars, rbuf, shown, got, req, serverVars>>

\* recv looks the descriptor up each time it is called.
ReceiverCall(c) ==
  /\ rpc[c] = "call" /\ Running
  /\ rpc' = [rpc EXCEPT ![c] = IF fd = 0 THEN "ended" ELSE "blocked"]
  /\ on' = [on EXCEPT ![c] = fd]
  /\ UNCHANGED <<mainVars, rbuf, shown, got, req, serverVars>>

ReceiverData(c) ==
  /\ rpc[c] = "blocked" /\ Running
  /\ \E k \in 1..Unread(on[c]) :
       /\ Receive(on[c], k)
       /\ rbuf' = [rbuf EXCEPT ![c] = @ \o Following(on[c], k)]
  /\ rpc' = [rpc EXCEPT ![c] = "split"]
  /\ on' = [on EXCEPT ![c] = 0]
  /\ UNCHANGED <<mainVars, shown, req, serverVars>>

ReceiverEnd(c) ==
  /\ rpc[c] = "blocked" /\ Running
  /\ AtEnd(on[c])
  /\ rpc' = [rpc EXCEPT ![c] = "ended"]
  /\ on' = [on EXCEPT ![c] = 0]
  /\ UNCHANGED <<mainVars, rbuf, shown, got, req, serverVars>>

\* Faulty variant: the buffer is emptied when a line was taken from it.
ReceiverLineAndClear(c) ==
  /\ rpc[c] = "split" /\ Running
  /\ IF HasLine(rbuf[c])
     THEN /\ rbuf' = [rbuf EXCEPT ![c] = <<>>]
          /\ IF Parses(rbuf[c]) THEN Show(FirstLine(rbuf[c])) ELSE UNCHANGED shown
          /\ UNCHANGED rpc
     ELSE /\ rpc' = [rpc EXCEPT ![c] = "call"]
          /\ UNCHANGED <<rbuf, shown>>
  /\ UNCHANGED <<mainVars, on, got, req, serverVars>>

\* Faulty variant: the line stays in the buffer.
ReceiverLineAndKeep(c) ==
  /\ rpc[c] = "split" /\ Running
  /\ IF HasLine(rbuf[c]) /\ Parses(rbuf[c])
     THEN Show(FirstLine(rbuf[c])) ELSE UNCHANGED shown
  /\ rpc' = [rpc EXCEPT ![c] = "call"]
  /\ UNCHANGED <<mainVars, on, rbuf, got, req, serverVars>>

\* One round of the inner loop; answers to requests are ignored.
ReceiverLine(c) ==
  /\ rpc[c] = "split" /\ Running
  /\ IF HasLine(rbuf[c])
     THEN /\ rbuf' = [rbuf EXCEPT ![c] = Rest(@)]
          /\ IF Parses(rbuf[c]) THEN Show(FirstLine(rbuf[c])) ELSE UNCHANGED shown
          /\ UNCHANGED rpc
     ELSE /\ rpc' = [rpc EXCEPT ![c] = "call"]
          /\ UNCHANGED <<rbuf, shown>>
  /\ UNCHANGED <<mainVars, on, got, req, serverVars>>

-----------------------------------------------------------------------------
(* The server, as long as the client runs                                  *)

SendTo(c, kinds) == out' = [out EXCEPT ![c] = IF srv[c] = "shut" THEN @ ELSE @ \o kinds]

\* A session of the same user is shut down if it is on the same server.
HandleLogin(c, u) ==
  \/ SendTo(c, <<"fail">>) /\ UNCHANGED <<srv, suser, chats>>
  \/ \E stored \in 0..1, kicked \in SUBSET {d \in Conns \ {c} : srv[d] = "in" /\ suser[d] = u} :
       /\ chats' = chats + stored
       /\ chats' <= MaxChats
       /\ SendTo(c, IF stored = 1 THEN <<"chat", "ok">> ELSE <<"ok">>)
       /\ srv' = [d \in Conns |-> IF d = c THEN "in"
                                  ELSE IF d \in kicked THEN "shut" ELSE srv[d]]
       /\ suser' = [suser EXCEPT ![c] = u]

Handle(c, request) ==
  CASE request.kind = "login" -> HandleLogin(c, request.user)
    [] request.kind = "reg"   -> SendTo(c, <<"reg">>) /\ UNCHANGED <<srv, suser, chats>>
    [] request.kind = "chat"  -> UNCHANGED <<out, srv, suser, chats>>

\* onMessage takes all bytes that have arrived as one JSON text.
OnMessage(c) ==
  /\ Running /\ srv[c] \in {"open", "in", "shut"}
  /\ \E k \in 1..(2 * Len(req[c]) - seen[c]) :
       /\ seen' = [seen EXCEPT ![c] = @ + k]
       /\ IF k = 2 /\ seen[c] % 2 = 0
          THEN /\ handled' = [handled EXCEPT ![c] = @ + 1]
               /\ Handle(c, req[c][seen'[c] \div 2])
          ELSE UNCHANGED <<handled, out, srv, suser, chats>>
  /\ UNCHANGED <<mainVars, recvVars, shown, got, req>>

\* Another client logs in as the same user, to the same server.
Kick(c) ==
  /\ Running /\ srv[c] = "in"
  /\ srv' = [srv EXCEPT ![c] = "shut"]
  /\ UNCHANGED <<mainVars, recvVars, shown, got, req, out, seen, handled, suser, chats>>

\* Somebody writes to the user of c.
ServerChat(c) ==
  /\ Running /\ srv[c] = "in" /\ chats < MaxChats
  /\ chats' = chats + 1
  /\ SendTo(c, <<"chat">>)
  /\ UNCHANGED <<mainVars, recvVars, shown, got, req, seen, handled, srv, suser>>

\* The client's end is open: its descriptor, or a thread inside recv.
Held(c) ==
  fd = c \/ \E d \in Conns : rpc[d] = "blocked" /\ on[d] = c

\* The server learns that it is not; a client that closed with data unread
\* resets the connection, and requests under way are lost.
ServerClose(c) ==
  /\ Running /\ srv[c] \in {"open", "in", "shut"} /\ ~Held(c)
  /\ seen[c] = 2 * Len(req[c]) \/ Unread(c) > 0
  /\ srv' = [srv EXCEPT ![c] = "gone"]
  /\ UNCHANGED <<mainVars, recvVars, shown, got, req, out, seen, handled, suser, chats>>

-----------------------------------------------------------------------------
MainStep == MainReceive \/ MainEnd \/ MainLine

ReceiverStep(c) ==
  ReceiverCall(c) \/ ReceiverData(c) \/ ReceiverEnd(c) \/ ReceiverLine(c)

ServerStep(c) == OnMessage(c) \/ ServerClose(c)

Next ==
  \/ Connect \/ Send \/ Logout \/ Quit
  \/ \E u \in Users : Ask("login", u)
  \/ Ask("reg", None)
  \/ MainStep
  \/ \E c \in Conns : ReceiverStep(c) \/ ServerStep(c) \/ ServerChat(c) \/ Kick(c)

Spec == Init /\ [][Next]_vars

\* The threads and the server run; users need not do anything.
Fairness ==
  /\ WF_vars(MainStep)
  /\ \A c \in Conns : WF_vars(ReceiverStep(c)) /\ WF_vars(ServerStep(c))

FairSpec == Spec /\ Fairness

-----------------------------------------------------------------------------
(* Properties                                                              *)

Steps  == {"start", "choose", "await", "menu", "exit"}
Halves == Conns \X Nat

\* Types; and a receiver thread that is inside recv reads a connection.
TypeOK ==
  /\ main \in Steps /\ asked \in {"login", "reg"} /\ who \in Users \cup {None}
  /\ sock \in 0..MaxConns /\ fd \in {0, sock}
  /\ lineBuf \in Seq(Halves) /\ shown \in Seq(Halves)
  /\ chats \in 0..MaxChats
  /\ \A c \in Conns :
       /\ rpc[c] \in {"none", "call", "blocked", "split", "ended"}
       /\ on[c] \in 0..sock /\ (rpc[c] = "blocked" <=> on[c] # 0)
       /\ rbuf[c] \in Seq(Halves)
       /\ out[c] \in Seq(Kinds) /\ got[c] \in 0..(2 * Len(out[c]))
       /\ req[c] \in Seq(Requests) /\ seen[c] \in 0..(2 * Len(req[c]))
       /\ handled[c] \in 0..Len(req[c])
       /\ srv[c] \in {"none", "open", "in", "shut", "gone"}
       /\ suser[c] \in Users \cup {None}

\* No chat line is printed twice, though after a new login two threads read
\* the same connection; and before any logout they come in order.
ShownOnce ==
  \A i, j \in DOMAIN shown : i < j =>
    /\ shown[i] # shown[j]
    /\ sock = 1 => shown[i][2] < shown[j][2]

\* Who sees the main menu is logged in on the present connection as the user
\* it asked for, whatever was left in recvLine's buffer, arrived in pieces or
\* was taken by an older receiver thread.
MenuMeansLoggedIn ==
  main = "menu" => srv[sock] \in {"in", "shut"} /\ suser[sock] = who

\* Before any logout a chat line that was received is printed or about to be:
\* the one place where it can be lost is recvLine's buffer, which nobody reads
\* when the menu is reached.
LostOnlyInLineBuf ==
  sock = 1 => \A i \in 1..(got[1] \div 2) :
    out[1][i] = "chat" =>
      \/ \E j \in DOMAIN shown : shown[j] = <<1, i>>
      \/ \E j \in DOMAIN rbuf[1] : rbuf[1][j] = <<1, 2 * i>>
      \/ \E j \in DOMAIN lineBuf : lineBuf[j] \in {<<1, 2 * i - 1>>, <<1, 2 * i>>}

\* Some request reached the server in parts, or together with another.
Mangled(c) == seen[c] # 2 * handled[c]

\* The first login, and every registration before it, is answered: main does
\* not wait for ever, unless the request was torn.  (After a logout it can: an
\* old receiver thread may take the answer.)
FirstLoginProceeds ==
  main = "await" /\ sock = 1 ~> main # "await" \/ Mangled(1)
=============================================================================
