---------------------------- MODULE ClientProofs ----------------------------
(***************************************************************************)
(* What holds of the chat client for any number of connections, requests   *)
(* and lines, in whatever pieces TCP delivers them: its types, what the    *)
(* main menu means, and which chat lines are printed, when and how often.  *)
(*                                                                         *)
(* The invariant has four parts.  TInv: the types, and that a connection   *)
(* not opened yet has nothing on it.  StreamsOK: a half of a line is in    *)
(* one buffer at most, and the end of a printed line in none.  Answers:    *)
(* the only answer that main can still see is that of the request it       *)
(* waits for.  Ordered: before any logout each buffer is a window of the   *)
(* one connection's stream, the thread's behind recvLine's.                *)
(***************************************************************************)
EXTENDS Client, Integers, SequenceTheorems, WellFoundedInduction, TLAPS

\* A connection that was not opened yet.
Fresh(c) ==
  /\ srv[c] = "none" /\ rpc[c] = "none"
  /\ rbuf[c] = <<>> /\ out[c] = <<>> /\ req[c] = <<>>
  /\ got[c] = 0 /\ seen[c] = 0

ThreadSteps == {"none", "call", "blocked", "split", "ended"}
ServerEnds  == {"none", "open", "in", "shut", "gone"}

Typed ==
  /\ main \in Steps /\ asked \in {"login", "reg"} /\ who \in Users \cup {None}
  /\ sock \in 0..MaxConns /\ fd \in {0, sock}
  /\ lineBuf \in Seq(Halves) /\ shown \in Seq(Halves) /\ chats \in 0..MaxChats
  /\ rpc \in [Conns -> ThreadSteps] /\ on \in [Conns -> 0..MaxConns]
  /\ rbuf \in [Conns -> Seq(Halves)]
  /\ out \in [Conns -> Seq(Kinds)] /\ got \in [Conns -> Nat]
  /\ req \in [Conns -> Seq(Requests)]
  /\ seen \in [Conns -> Nat] /\ handled \in [Conns -> Nat]
  /\ srv \in [Conns -> ServerEnds] /\ suser \in [Conns -> Users \cup {None}]

\* Main has the present connection open until it logs out or quits.
Connected ==
  /\ main \in {"choose", "await", "menu"} => sock \in Conns /\ fd = sock
  /\ main \in {"choose", "await"} => rpc[sock] = "none"

Limits(c) ==
  /\ on[c] <= sock /\ (rpc[c] = "blocked" <=> on[c] # 0)
  /\ got[c] <= 2 * Len(out[c])
  /\ seen[c] <= 2 * Len(req[c]) /\ 2 * handled[c] <= seen[c]
  /\ rpc[c] = "none" => rbuf[c] = <<>>
  /\ c > sock => Fresh(c)

TInv == Typed /\ Connected /\ \A c \in Conns : Limits(c)

-----------------------------------------------------------------------------
(* Streams                                                                 *)

\* The buffers: recvLine's, and those of the receiver threads.
Buffers == 0..MaxConns
Bufs == [d \in Buffers |-> IF d = 0 THEN lineBuf ELSE rbuf[d]]

\* Every half is received once, ...
Received(B, g, n) ==
  \A d \in Buffers : \A i \in DOMAIN B[d] : B[d][i][1] \in 1..n /\ B[d][i][2] \in 1..g[B[d][i][1]]
InOrder(B) ==
  \A d \in Buffers : \A i, j \in DOMAIN B[d] :
    i < j /\ B[d][i][1] = B[d][j][1] => B[d][i][2] < B[d][j][2]
Apart(B) ==
  \A d, e \in Buffers : \A i \in DOMAIN B[d], j \in DOMAIN B[e] :
    B[d][i] = B[e][j] => d = e

\* ... and the end of a line that is shown is in no buffer any more.
Gone(B, g, s, n) ==
  \A k \in DOMAIN s :
    /\ s[k][1] \in 1..n /\ s[k][2] # 0 /\ 2 * s[k][2] <= g[s[k][1]]
    /\ \A d \in Buffers : \A i \in DOMAIN B[d] : B[d][i] # <<s[k][1], 2 * s[k][2]>>
Distinct(s) == \A i, j \in DOMAIN s : s[i] = s[j] => i = j

Streams(B, g, s, n) ==
  Received(B, g, n) /\ InOrder(B) /\ Apart(B) /\ Gone(B, g, s, n) /\ Distinct(s)

StreamsOK == Streams(Bufs, got, shown, sock)

-----------------------------------------------------------------------------
(* Answers                                                                 *)

Answer(line) == Kind(line) # "chat"
Buffered(half) == \E j \in DOMAIN lineBuf : lineBuf[j] = half

\* main can still come to see the answer i on the present connection.
Outstanding(i) ==
  /\ i \in 1..Len(out[sock]) /\ Answer(<<sock, i>>)
  /\ 2 * i > got[sock] \/ Buffered(<<sock, 2 * i>>)

Quiet == \A i \in 1..Len(out[sock]) : ~Outstanding(i)

\* What the buffer still holds of an earlier connection is chat lines.
OldAnswersGone ==
  \A j \in Ends(lineBuf) :
    lineBuf[j][1] # sock \/ main = "start" => ~Answer(LineAt(lineBuf[j]))

LoggedIn == srv[sock] \in {"in", "shut"} /\ suser[sock] = who

AtChoice == main = "choose" => Quiet /\ seen[sock] = 2 * Len(req[sock])

\* An answer is to the request that main waits for.
AnswerFits(i) ==
  /\ out[sock][i] \in (IF asked = "login" THEN {"ok", "fail"} ELSE {"reg"})
  /\ out[sock][i] = "ok" => LoggedIn

\* The last request is the one main waits for.  It is not wholly read and there
\* is no answer, or it was read and there is one answer at most.
Awaited ==
  main = "await" =>
    LET n == Len(req[sock]) IN
    /\ n > 0 /\ seen[sock] >= 2 * n - 2
    /\ req[sock][n].kind = asked
    /\ asked = "login" => req[sock][n].user = who
    /\ seen[sock] < 2 * n => Quiet
    /\ \A i, j \in 1..Len(out[sock]) : Outstanding(i) /\ Outstanding(j) => i = j
    /\ \A i \in 1..Len(out[sock]) : Outstanding(i) => AnswerFits(i)

AtMenu ==
  main = "menu" =>
    /\ Quiet /\ LoggedIn
    /\ \A n \in 1..Len(req[sock]) : 2 * n > seen[sock] => req[sock][n].kind = "chat"

Answers == OldAnswersGone /\ AtChoice /\ Awaited /\ AtMenu

-----------------------------------------------------------------------------
(* Order                                                                   *)

\* Before any logout: main has taken the halves up to 2 * a of the
\* only connection, and what it received more is in its buffer, where it stays
\* when the menu is reached; the thread has taken those from there to b.
Window(buf, from) == \A j \in DOMAIN buf : buf[j] = <<1, from + j>>

Kept(a) == 2 * a + Len(lineBuf)

Placed(a, b) ==
  /\ Kept(a) <= b /\ b + Len(rbuf[1]) = got[1]
  /\ Window(lineBuf, 2 * a) /\ Window(rbuf[1], b)
  /\ b % 2 = 0 \/ b = Kept(a)

Accounted(a, b) ==
  \A i \in 1..Len(out[1]) : 2 * i <= b /\ out[1][i] = "chat" =>
    (\E k \in DOMAIN shown : shown[k] = <<1, i>>) \/ (a < i /\ 2 * i - 1 <= Kept(a))

Ascending(b) ==
  /\ \A k \in DOMAIN shown : shown[k][1] = 1 /\ 2 * shown[k][2] <= b
  /\ \A k, l \in DOMAIN shown : k < l => shown[k][2] < shown[l][2]

Early(a, b) ==
  main \in {"choose", "await"} =>
    /\ rbuf[1] = <<>> /\ b = Kept(a)
    /\ \A k \in DOMAIN shown : shown[k][2] <= a

Order(a, b) == Placed(a, b) /\ Accounted(a, b) /\ Ascending(b) /\ Early(a, b)

Ordered == sock = 1 => \E a, b \in Nat : Order(a, b)

-----------------------------------------------------------------------------
(* Lines in a buffer                                                       *)

LEMMA LineEndFirst ==
  ASSUME NEW buf \in Seq(Halves), HasLine(buf)
  PROVE  /\ LineEnd(buf) \in 1..Len(buf)
         /\ buf[LineEnd(buf)][2] % 2 = 0
         /\ \A j \in 1..Len(buf) : buf[j][2] % 2 = 0 => LineEnd(buf) <= j
<1>1. Ends(buf) \subseteq Nat /\ Ends(buf) # {} /\ DOMAIN buf = 1..Len(buf)
  BY LenProperties DEF HasLine, Ends
<1>2. PICK i \in Ends(buf) : \A j \in Ends(buf) : ~(<<j, i>> \in OpToRel(<, Nat))
  BY <1>1, NatLessThanWellFounded, WFMin, Zenon
<1>3. ASSUME NEW j \in Ends(buf) PROVE i <= j
  <2>0. i \in Nat /\ j \in Nat
    BY <1>1
  <2>1. ~(<<j, i>> \in OpToRel(<, Nat))
    BY <1>2
  <2>2. OpToRel(<, Nat) = {ss \in Nat \X Nat : ss[1] < ss[2]}
    BY Zenon DEF OpToRel
  <2>3. ~(<<j, i>> \in {ss \in Nat \X Nat : ss[1] < ss[2]})
    BY <2>1, <2>2, Zenon
  <2>4. ~(j < i)
    BY <2>0, <2>3
  <2> QED BY <2>0, <2>4
<1>4. LineEnd(buf) \in Ends(buf) /\ \A j \in Ends(buf) : LineEnd(buf) <= j
  BY <1>3 DEF LineEnd
<1> QED BY <1>1, <1>4 DEF Ends

LEMMA RestIsSuffix ==
  ASSUME NEW buf \in Seq(Halves), HasLine(buf)
  PROVE  /\ LineEnd(buf) \in 1..Len(buf)
         /\ Rest(buf) \in Seq(Halves)
         /\ Len(Rest(buf)) = Len(buf) - LineEnd(buf)
         /\ \A i \in 1..Len(Rest(buf)) : Rest(buf)[i] = buf[LineEnd(buf) + i]
<1>1. LineEnd(buf) \in 1..Len(buf) /\ Len(buf) \in Nat
  BY LineEndFirst, LenProperties
<1>2. PICK e \in 1..Len(buf) : e = LineEnd(buf)
  BY <1>1
<1>3. \A i \in (e + 1)..Len(buf) : buf[i] \in Halves
  BY <1>1, ElementOfSeq
<1>4. /\ SubSeq(buf, e + 1, Len(buf)) \in Seq(Halves)
      /\ Len(SubSeq(buf, e + 1, Len(buf))) = IF e + 1 <= Len(buf) THEN Len(buf) - (e + 1) + 1 ELSE 0
      /\ \A i \in 1..(Len(buf) - (e + 1) + 1) : SubSeq(buf, e + 1, Len(buf))[i] = buf[e + 1 + i - 1]
  BY <1>1, <1>3, SubSeqProperties
<1>5. Rest(buf) = SubSeq(buf, e + 1, Len(buf))
  BY <1>2 DEF Rest
<1>6. Len(Rest(buf)) = Len(buf) - e
  BY <1>1, <1>4, <1>5
<1>7. ASSUME NEW i \in 1..Len(Rest(buf)) PROVE Rest(buf)[i] = buf[e + i]
  BY <1>1, <1>4, <1>5, <1>6
<1> QED BY <1>1, <1>2, <1>4, <1>5, <1>6, <1>7

LEMMA FollowingHalves ==
  ASSUME NEW c \in Conns, got[c] \in Nat, NEW k \in Nat
  PROVE  /\ Following(c, k) \in Seq(Halves) /\ Len(Following(c, k)) = k
         /\ \A i \in 1..k : Following(c, k)[i] = <<c, got[c] + i>>
<1>1. \A i \in 1..k : <<c, got[c] + i>> \in Halves
  BY DEF Halves
<1>2. [i \in 1..k |-> <<c, got[c] + i>>] \in Seq(Halves)
  BY <1>1
<1>3. Len([i \in 1..k |-> <<c, got[c] + i>>]) = k
  OBVIOUS
<1> QED BY <1>2, <1>3 DEF Following

\* What a buffer holds after k more halves of c.
LEMMA ReceivedBehind ==
  ASSUME NEW buf \in Seq(Halves), NEW c \in Conns, got[c] \in Nat, NEW k \in Nat
  PROVE  /\ buf \o Following(c, k) \in Seq(Halves)
         /\ Len(buf \o Following(c, k)) = Len(buf) + k
         /\ \A i \in 1..(Len(buf) + k) : (buf \o Following(c, k))[i] =
              IF i <= Len(buf) THEN buf[i] ELSE <<c, got[c] + (i - Len(buf))>>
<1>1. /\ Following(c, k) \in Seq(Halves) /\ Len(Following(c, k)) = k
      /\ \A i \in 1..k : Following(c, k)[i] = <<c, got[c] + i>>
  BY FollowingHalves
<1>2. Len(buf) \in Nat
  BY LenProperties
<1>3. /\ buf \o Following(c, k) \in Seq(Halves)
      /\ Len(buf \o Following(c, k)) = Len(buf) + k
      /\ \A i \in 1..(Len(buf) + k) : (buf \o Following(c, k))[i] =
              IF i <= Len(buf) THEN buf[i] ELSE Following(c, k)[i - Len(buf)]
  BY <1>1, ConcatProperties
<1>4. ASSUME NEW i \in 1..(Len(buf) + k), ~(i <= Len(buf))
      PROVE  Following(c, k)[i - Len(buf)] = <<c, got[c] + (i - Len(buf))>>
  <2>1. i - Len(buf) \in 1..k
    BY <1>2, <1>4
  <2> QED BY <1>1, <2>1
<1> QED BY <1>3, <1>4

-----------------------------------------------------------------------------
(* What receiving and taking lines does to the buffers                     *)

BuffersType(B) == B \in [Buffers -> Seq(Halves)]

LEMMA BufferHalves ==
  ASSUME NEW B, BuffersType(B), NEW d \in Buffers
  PROVE  /\ B[d] \in Seq(Halves) /\ Len(B[d]) \in Nat /\ DOMAIN B[d] = 1..Len(B[d])
         /\ \A i \in DOMAIN B[d] :
              /\ B[d][i][1] \in Conns /\ B[d][i][2] \in Nat
              /\ B[d][i] = <<B[d][i][1], B[d][i][2]>>
<1>1. B[d] \in Seq(Halves)
  BY DEF BuffersType
<1>2. Len(B[d]) \in Nat /\ DOMAIN B[d] = 1..Len(B[d])
  BY <1>1, LenProperties
<1>3. ASSUME NEW i \in DOMAIN B[d] PROVE B[d][i] \in Conns \X Nat
  BY <1>1, <1>2, ElementOfSeq DEF Halves
<1> QED BY <1>1, <1>2, <1>3

\* C is B after d received the k halves of c that follow g.
Extends(B, C, g, d, c, k) ==
  /\ Len(C[d]) = Len(B[d]) + k
  /\ \A i \in 1..(Len(B[d]) + k) :
       C[d][i] = IF i <= Len(B[d]) THEN B[d][i] ELSE <<c, g[c] + (i - Len(B[d]))>>
  /\ \A e \in Buffers \ {d} : C[e] = B[e]

LEMMA StreamsReceive ==
  ASSUME NEW B, NEW C, BuffersType(B), BuffersType(C),
         NEW g \in [Conns -> Nat], NEW s \in Seq(Halves), NEW n \in 0..MaxConns,
         Streams(B, g, s, n),
         NEW d \in Buffers, NEW c \in 1..n, NEW k \in Nat, Extends(B, C, g, d, c, k)
  PROVE  Streams(C, [g EXCEPT ![c] = @ + k], s, n)
<1> USE StreamAssumption
<1> DEFINE h == [g EXCEPT ![c] = @ + k]
           Old(e, i) == i \in DOMAIN B[e] /\ C[e][i] = B[e][i]
           New(e, i) == e = d /\ \E t \in 1..k : i = Len(B[d]) + t /\ C[e][i] = <<c, g[c] + t>>
<1>a. c \in Conns /\ g[c] \in Nat /\ h[c] = g[c] + k /\ 1..n \subseteq Conns
  BY DEF Conns
<1>b. \A x \in Conns : h[x] \in Nat /\ g[x] \in Nat /\ g[x] <= h[x]
  BY <1>a
<1> HIDE DEF h
<1>c. \A e \in Buffers : Len(B[e]) \in Nat /\ DOMAIN B[e] = 1..Len(B[e]) /\ DOMAIN C[e] = 1..Len(C[e])
  BY BufferHalves
<1>1. ASSUME NEW e \in Buffers, NEW i \in DOMAIN C[e] PROVE Old(e, i) \/ New(e, i)
  <2>1. CASE e # d
    BY <2>1 DEF Extends
  <2>2. CASE e = d
    <3>1. i \in 1..(Len(B[d]) + k) /\ Len(B[d]) \in Nat /\ DOMAIN B[d] = 1..Len(B[d])
      BY <2>2, <1>c DEF Extends
    <3>2. CASE i <= Len(B[d])
      <4>1. C[d][i] = B[d][i]
        BY <3>1, <3>2 DEF Extends
      <4>2. i \in DOMAIN B[d]
        BY <3>1, <3>2
      <4> QED BY <2>2, <4>1, <4>2
    <3>3. CASE ~(i <= Len(B[d]))
      <4>0. PICK b \in Nat : b = Len(B[d])
        BY <3>1
      <4>1. PICK t \in 1..k : t = i - Len(B[d]) /\ i = Len(B[d]) + t
        <5>1. i \in 1..(b + k) /\ ~(i <= b)
          BY <3>1, <3>3, <4>0
        <5>2. i - b \in 1..k /\ i = b + (i - b)
          BY <5>1
        <5> QED BY <4>0, <5>2
      <4>2. C[d][i] = <<c, g[c] + t>>
        BY <3>1, <3>3, <4>1 DEF Extends
      <4> QED BY <2>2, <4>1, <4>2
    <3> QED BY <3>2, <3>3
  <2> QED BY <2>1, <2>2
<1>2. ASSUME NEW e \in Buffers, NEW i \in DOMAIN B[e]
      PROVE  B[e][i][1] \in 1..n /\ B[e][i][2] \in 1..g[B[e][i][1]]
  BY DEF Streams, Received
<1>3. ASSUME NEW e \in Buffers, NEW i \in DOMAIN B[e], NEW t \in 1..k
      PROVE  /\ B[e][i] # <<c, g[c] + t>>
             /\ B[e][i][1] = c => B[e][i][2] < g[c] + t
  <2>1. B[e][i][1] \in 1..n /\ B[e][i][2] \in 1..g[B[e][i][1]]
    BY <1>2
  <2>2. ASSUME B[e][i][1] = c PROVE B[e][i][2] < g[c] + t
    BY <2>1, <2>2, <1>a
  <2>3. ASSUME B[e][i] = <<c, g[c] + t>> PROVE FALSE
    <3>1. B[e][i][1] = c /\ B[e][i][2] = g[c] + t
      BY <2>3
    <3> QED BY <2>2, <3>1, <1>a
  <2> QED BY <2>2, <2>3
<1>4. Received(C, h, n)
  <2> SUFFICES ASSUME NEW e \in Buffers, NEW i \in DOMAIN C[e]
               PROVE  C[e][i][1] \in 1..n /\ C[e][i][2] \in 1..h[C[e][i][1]]
    BY DEF Received
  <2>1. CASE Old(e, i)
    <3>1. PICK x, y : x = B[e][i][1] /\ y = B[e][i][2]
      OBVIOUS
    <3>2. x \in 1..n /\ y \in 1..g[x] /\ x \in Conns
      BY <2>1, <3>1, <1>2, <1>a
    <3>3. y \in 1..h[x]
      BY <3>2, <1>b
    <3> QED BY <2>1, <3>1, <3>2, <3>3
  <2>2. CASE New(e, i)
    <3>1. PICK t \in 1..k : C[e][i] = <<c, g[c] + t>>
      BY <2>2
    <3>2. g[c] + t \in 1..h[c]
      BY <1>a
    <3> QED BY <3>1, <3>2
  <2> QED BY <2>1, <2>2, <1>1
<1>5. InOrder(C)
  <2> SUFFICES ASSUME NEW e \in Buffers, NEW i \in DOMAIN C[e], NEW j \in DOMAIN C[e],
                      i < j, C[e][i][1] = C[e][j][1]
               PROVE  C[e][i][2] < C[e][j][2]
    BY DEF InOrder
  <2>1. CASE Old(e, i) /\ Old(e, j)
    BY <2>1 DEF Streams, InOrder
  <2>2. CASE Old(e, i) /\ New(e, j)
    <3>1. PICK t \in 1..k : C[e][j] = <<c, g[c] + t>>
      BY <2>2
    <3>2. C[e][j][1] = c /\ C[e][j][2] = g[c] + t
      BY <3>1
    <3>3. B[e][i][1] = c => B[e][i][2] < g[c] + t
      BY <2>2, <1>3
    <3> QED BY <2>2, <3>2, <3>3
  <2>3. CASE New(e, i) /\ New(e, j)
    <3>1. PICK t \in 1..k : i = Len(B[d]) + t /\ C[e][i] = <<c, g[c] + t>>
      BY <2>3
    <3>2. PICK u \in 1..k : j = Len(B[d]) + u /\ C[e][j] = <<c, g[c] + u>>
      BY <2>3
    <3>3. t < u
      BY <3>1, <3>2, <1>c
    <3> QED BY <3>1, <3>2, <3>3, <1>a
  <2>4. CASE New(e, i) /\ Old(e, j)
    <3>1. PICK t \in 1..k : i = Len(B[d]) + t
      BY <2>4
    <3>2. j \in 1..Len(B[d])
      BY <2>4, <1>c
    <3> QED BY <3>1, <3>2, <1>c
  <2> QED BY <1>1, <2>1, <2>2, <2>3, <2>4
<1>6. Apart(C)
  <2> SUFFICES ASSUME NEW e \in Buffers, NEW f \in Buffers, NEW i \in DOMAIN C[e], NEW j \in DOMAIN C[f],
                      C[e][i] = C[f][j], e # f
               PROVE  FALSE
    BY DEF Apart
  <2>1. CASE Old(e, i) /\ Old(f, j)
    BY <2>1 DEF Streams, Apart
  <2>2. CASE Old(e, i) /\ New(f, j)
    BY <2>2, <1>3
  <2>3. CASE New(e, i) /\ Old(f, j)
    BY <2>3, <1>3
  <2> QED BY <1>1, <2>1, <2>2, <2>3
<1>7. Gone(C, h, s, n)
  <2> SUFFICES ASSUME NEW m \in DOMAIN s
               PROVE  /\ s[m][1] \in 1..n /\ s[m][2] # 0 /\ 2 * s[m][2] <= h[s[m][1]]
                      /\ \A e \in Buffers : \A i \in DOMAIN C[e] : C[e][i] # <<s[m][1], 2 * s[m][2]>>
    BY DEF Gone
  <2>0. PICK x, y : x = s[m][1] /\ y = s[m][2]
    OBVIOUS
  <2>1. /\ x \in 1..n /\ y # 0 /\ 2 * y <= g[x]
        /\ \A e \in Buffers : \A i \in DOMAIN B[e] : B[e][i] # <<x, 2 * y>>
    BY <2>0 DEF Streams, Gone
  <2>2. y \in Nat /\ x \in Conns
    BY <2>0, ElementOfSeq, LenProperties DEF Halves
  <2>3. 2 * y <= h[x]
    BY <2>1, <2>2, <1>b
  <2>4. ASSUME NEW e \in Buffers, NEW i \in DOMAIN C[e], C[e][i] = <<x, 2 * y>>
        PROVE  FALSE
    <3>1. CASE Old(e, i)
      BY <2>1, <2>4, <3>1
    <3>2. CASE New(e, i)
      <4>1. PICK t \in 1..k : C[e][i] = <<c, g[c] + t>>
        BY <3>2
      <4>2. x = c /\ 2 * y = g[c] + t
        BY <2>4, <4>1
      <4> QED BY <2>1, <2>2, <4>2, <1>a
    <3> QED BY <1>1, <3>1, <3>2
  <2> QED BY <2>0, <2>1, <2>3, <2>4
<1> QED BY <1>4, <1>5, <1>6, <1>7 DEF Streams, h

\* C is B after the first e halves were taken from d.
Shortens(B, C, d, e) ==
  /\ Len(C[d]) = Len(B[d]) - e
  /\ \A i \in 1..(Len(B[d]) - e) : C[d][i] = B[d][e + i]
  /\ \A f \in Buffers \ {d} : C[f] = B[f]

LEMMA ShortenedBuffers ==
  ASSUME NEW B, NEW C, BuffersType(B), BuffersType(C),
         NEW d \in Buffers, NEW e \in 1..Len(B[d]), Shortens(B, C, d, e)
  PROVE  \A f \in Buffers : \A i \in DOMAIN C[f] :
           /\ f = d => e + i \in DOMAIN B[f] /\ C[f][i] = B[f][e + i]
           /\ f # d => i \in DOMAIN B[f] /\ C[f][i] = B[f][i]
<1> SUFFICES ASSUME NEW f \in Buffers, NEW i \in DOMAIN C[f]
             PROVE  /\ f = d => e + i \in DOMAIN B[f] /\ C[f][i] = B[f][e + i]
                    /\ f # d => i \in DOMAIN B[f] /\ C[f][i] = B[f][i]
  OBVIOUS
<1>1. DOMAIN B[d] = 1..Len(B[d]) /\ DOMAIN C[d] = 1..Len(C[d]) /\ Len(B[d]) \in Nat
  BY BufferHalves
<1>2. CASE f = d
  <2>1. i \in 1..(Len(B[d]) - e)
    BY <1>1, <1>2 DEF Shortens
  <2>2. e + i \in 1..Len(B[d])
    BY <1>1, <2>1
  <2> QED BY <1>1, <1>2, <2>1, <2>2 DEF Shortens
<1>3. CASE f # d
  BY <1>3 DEF Shortens
<1> QED BY <1>2, <1>3

LEMMA StreamsTake ==
  ASSUME NEW B, NEW C, BuffersType(B), BuffersType(C),
         NEW g \in [Conns -> Nat], NEW s \in Seq(Halves), NEW n \in 0..MaxConns,
         Streams(B, g, s, n),
         NEW d \in Buffers, NEW e \in 1..Len(B[d]), Shortens(B, C, d, e)
  PROVE  Streams(C, g, s, n)
<1>1. PICK p \in [Buffers -> Nat] : \A f \in Buffers : \A i \in DOMAIN C[f] :
        p[f] + i \in DOMAIN B[f] /\ C[f][i] = B[f][p[f] + i]
  <2> DEFINE q == [f \in Buffers |-> IF f = d THEN e ELSE 0]
  <2>1. q \in [Buffers -> Nat] /\ \A f \in Buffers : q[f] = IF f = d THEN e ELSE 0
    BY BufferHalves
  <2> HIDE DEF q
  <2>2. ASSUME NEW f \in Buffers, NEW i \in DOMAIN C[f]
        PROVE  q[f] + i \in DOMAIN B[f] /\ C[f][i] = B[f][q[f] + i]
    <3>1. /\ f = d => e + i \in DOMAIN B[f] /\ C[f][i] = B[f][e + i]
          /\ f # d => i \in DOMAIN B[f] /\ C[f][i] = B[f][i]
      BY ShortenedBuffers
    <3>2. i \in Nat
      BY BufferHalves
    <3>3. 0 + i = i
      BY <3>2
    <3> QED BY <2>1, <3>1, <3>3
  <2> QED BY <2>1, <2>2
<1>2. \A f \in Buffers : \A i \in DOMAIN C[f] : i \in Nat
  BY BufferHalves
<1>3. Received(C, g, n)
  <2> SUFFICES ASSUME NEW f \in Buffers, NEW i \in DOMAIN C[f]
               PROVE  C[f][i][1] \in 1..n /\ C[f][i][2] \in 1..g[C[f][i][1]]
    BY DEF Received
  <2>1. p[f] + i \in DOMAIN B[f] /\ C[f][i] = B[f][p[f] + i]
    BY <1>1
  <2>2. Received(B, g, n)
    BY DEF Streams
  <2> QED BY <2>1, <2>2 DEF Received
<1>4. InOrder(C)
  <2> SUFFICES ASSUME NEW f \in Buffers, NEW i \in DOMAIN C[f], NEW j \in DOMAIN C[f],
                      i < j, C[f][i][1] = C[f][j][1]
               PROVE  C[f][i][2] < C[f][j][2]
    BY DEF InOrder
  <2>1. p[f] + i < p[f] + j
    BY <1>1, <1>2
  <2>2. /\ p[f] + i \in DOMAIN B[f] /\ C[f][i] = B[f][p[f] + i]
        /\ p[f] + j \in DOMAIN B[f] /\ C[f][j] = B[f][p[f] + j]
    BY <1>1
  <2>3. InOrder(B)
    BY DEF Streams
  <2> QED BY <2>1, <2>2, <2>3 DEF InOrder
<1>5. Apart(C)
  <2> SUFFICES ASSUME NEW f \in Buffers, NEW h \in Buffers, NEW i \in DOMAIN C[f], NEW j \in DOMAIN C[h],
                      C[f][i] = C[h][j]
               PROVE  f = h
    BY DEF Apart
  <2>1. p[f] + i \in DOMAIN B[f] /\ p[h] + j \in DOMAIN B[h] /\ B[f][p[f] + i] = B[h][p[h] + j]
    BY <1>1
  <2> QED BY <2>1 DEF Streams, Apart
<1>6. Gone(C, g, s, n)
  <2>1. Gone(B, g, s, n)
    BY DEF Streams
  <2>2. ASSUME NEW k \in DOMAIN s, NEW f \in Buffers, NEW i \in DOMAIN C[f],
               C[f][i] = <<s[k][1], 2 * s[k][2]>>
        PROVE  FALSE
    <3>1. \A j \in DOMAIN B[f] : B[f][j] # <<s[k][1], 2 * s[k][2]>>
      BY <2>1 DEF Gone
    <3>2. PICK j \in DOMAIN B[f] : B[f][j] = C[f][i]
      BY <1>1
    <3> QED BY <2>2, <3>1, <3>2
  <2> QED BY <2>1, <2>2 DEF Gone
<1> QED BY <1>3, <1>4, <1>5, <1>6 DEF Streams

LEMMA StreamsShow ==
  ASSUME NEW B, NEW C, BuffersType(B), BuffersType(C),
         NEW g \in [Conns -> Nat], NEW s \in Seq(Halves), NEW n \in 0..MaxConns,
         Streams(B, g, s, n), NEW d \in Buffers, NEW e \in 1..Len(B[d]), Shortens(B, C, d, e),
         B[d][e][2] % 2 = 0
  PROVE  Streams(C, g, Append(s, LineAt(B[d][e])), n)
<1> USE StreamAssumption
<1>1. PICK c, i : c = B[d][e][1] /\ i = B[d][e][2] \div 2
  OBVIOUS
<1>2. /\ c \in 1..n /\ c \in Conns /\ i \in Nat /\ i # 0 /\ 2 * i <= g[c]
      /\ B[d][e] = <<c, 2 * i>>
  <2>1. e \in DOMAIN B[d] /\ B[d][e][1] \in Conns /\ B[d][e][2] \in Nat /\ B[d][e] = <<B[d][e][1], B[d][e][2]>>
    BY BufferHalves
  <2>2. B[d][e][1] \in 1..n /\ B[d][e][2] \in 1..g[B[d][e][1]]
    BY <2>1 DEF Streams, Received
  <2>3. B[d][e][2] = 2 * i /\ i \in Nat
    <3>1. \A h \in Nat : h % 2 = 0 => h = 2 * (h \div 2) /\ h \div 2 \in Nat
      OBVIOUS
    <3> QED BY <3>1, <2>1, <1>1
  <2>4. g[c] \in Nat
    BY <2>1, <1>1
  <2>5. i # 0 /\ 2 * i <= g[c]
    BY <2>2, <2>3, <2>4, <1>1
  <2> QED BY <2>1, <2>2, <2>3, <2>5, <1>1
<1>3. LineAt(B[d][e]) = <<c, i>> /\ <<c, i>> \in Halves
  BY <1>1, <1>2 DEF LineAt, Halves
<1> DEFINE t == Append(s, <<c, i>>)
<1>4. /\ t \in Seq(Halves) /\ Len(t) = Len(s) + 1 /\ Len(s) \in Nat
      /\ DOMAIN t = 1..(Len(s) + 1) /\ DOMAIN s = 1..Len(s)
      /\ \A k \in 1..Len(s) : t[k] = s[k]
      /\ t[Len(s) + 1] = <<c, i>>
  BY <1>3, AppendProperties, LenProperties
<1> HIDE DEF t
<1>5. Streams(C, g, s, n)
  BY StreamsTake
<1>6. \A f \in Buffers : \A j \in DOMAIN C[f] : C[f][j] # <<c, 2 * i>>
  <2> SUFFICES ASSUME NEW f \in Buffers, NEW j \in DOMAIN C[f], C[f][j] = <<c, 2 * i>>
               PROVE  FALSE
    OBVIOUS
  <2>1. e \in DOMAIN B[d] /\ e \in Nat /\ j \in Nat
    <3>1. /\ DOMAIN B[d] = 1..Len(B[d]) /\ Len(B[d]) \in Nat
          /\ DOMAIN C[f] = 1..Len(C[f]) /\ Len(C[f]) \in Nat
      BY BufferHalves
    <3> QED BY <3>1
  <2>2. CASE f = d
    <3>0. j # 0
      <4>1. DOMAIN C[f] = 1..Len(C[f]) /\ Len(C[f]) \in Nat
        BY BufferHalves
      <4> QED BY <4>1
    <3>1. e + j \in DOMAIN B[d] /\ B[d][e + j] = <<c, 2 * i>> /\ j # 0
      BY <2>2, <3>0, ShortenedBuffers
    <3>2. e < e + j
      BY <2>1, <3>1
    <3>3. B[d][e][2] < B[d][e + j][2]
      BY <2>1, <3>1, <3>2, <1>2 DEF Streams, InOrder
    <3> QED BY <3>1, <3>3, <1>2
  <2>3. CASE f # d
    <3>1. j \in DOMAIN B[f] /\ B[f][j] = <<c, 2 * i>>
      BY <2>3, ShortenedBuffers
    <3> QED BY <2>1, <2>3, <3>1, <1>2 DEF Streams, Apart
  <2> QED BY <2>2, <2>3
<1>7. \A k \in DOMAIN s : s[k] # <<c, i>>
  <2> SUFFICES ASSUME NEW k \in DOMAIN s, s[k] = <<c, i>> PROVE FALSE
    OBVIOUS
  <2>1. e \in DOMAIN B[d]
    BY BufferHalves
  <2>2. B[d][e] # <<s[k][1], 2 * s[k][2]>>
    BY <2>1 DEF Streams, Gone
  <2> QED BY <2>2, <1>2
<1>8. Gone(C, g, t, n)
  <2> SUFFICES ASSUME NEW k \in DOMAIN t
               PROVE  /\ t[k][1] \in 1..n /\ t[k][2] # 0 /\ 2 * t[k][2] <= g[t[k][1]]
                      /\ \A f \in Buffers : \A j \in DOMAIN C[f] : C[f][j] # <<t[k][1], 2 * t[k][2]>>
    BY DEF Gone
  <2>1. CASE k \in 1..Len(s)
    BY <2>1, <1>4, <1>5 DEF Streams, Gone
  <2>2. CASE k = Len(s) + 1
    BY <2>2, <1>2, <1>4, <1>6
  <2> QED BY <2>1, <2>2, <1>4
<1>9. Distinct(t)
  <2>1. Distinct(s)
    BY DEF Streams
  <2> QED BY <2>1, <1>4, <1>7 DEF Distinct
<1> QED BY <1>3, <1>5, <1>8, <1>9 DEF Streams, t

-----------------------------------------------------------------------------
(* Types                                                                   *)

LEMMA TInvGivesTypeOK == TInv => TypeOK
<1> SUFFICES ASSUME TInv PROVE TypeOK
  OBVIOUS
<1> USE StreamAssumption
<1>1. ASSUME NEW c \in Conns
      PROVE  /\ rpc[c] \in {"none", "call", "blocked", "split", "ended"}
             /\ on[c] \in 0..sock /\ (rpc[c] = "blocked" <=> on[c] # 0)
             /\ rbuf[c] \in Seq(Halves)
             /\ out[c] \in Seq(Kinds) /\ got[c] \in 0..(2 * Len(out[c]))
             /\ req[c] \in Seq(Requests) /\ seen[c] \in 0..(2 * Len(req[c]))
             /\ handled[c] \in 0..Len(req[c])
             /\ srv[c] \in {"none", "open", "in", "shut", "gone"}
             /\ suser[c] \in Users \cup {None}
  <2>1. Typed /\ Limits(c)
    BY DEF TInv
  <2>2. Len(out[c]) \in Nat /\ Len(req[c]) \in Nat
    BY <2>1, LenProperties DEF Typed
  <2>3. on[c] \in 0..sock /\ got[c] \in 0..(2 * Len(out[c])) /\ seen[c] \in 0..(2 * Len(req[c]))
    BY <2>1, <2>2 DEF Typed, Limits
  <2>4. handled[c] \in 0..Len(req[c])
    BY <2>1, <2>2 DEF Typed, Limits
  <2>5. /\ rpc[c] \in {"none", "call", "blocked", "split", "ended"}
        /\ srv[c] \in {"none", "open", "in", "shut", "gone"}
    BY <2>1 DEF Typed, ThreadSteps, ServerEnds
  <2>6. /\ rbuf[c] \in Seq(Halves) /\ out[c] \in Seq(Kinds) /\ req[c] \in Seq(Requests)
        /\ suser[c] \in Users \cup {None}
    BY <2>1 DEF Typed
  <2>7. rpc[c] = "blocked" <=> on[c] # 0
    BY <2>1 DEF Limits
  <2> QED BY <2>3, <2>4, <2>5, <2>6, <2>7
<1>2. /\ main \in Steps /\ asked \in {"login", "reg"} /\ who \in Users \cup {None}
      /\ sock \in 0..MaxConns /\ fd \in {0, sock}
      /\ lineBuf \in Seq(Halves) /\ shown \in Seq(Halves)
      /\ chats \in 0..MaxChats
  BY DEF TInv, Typed
<1> QED BY <1>1, <1>2 DEF TypeOK

LEMMA InitTypes == Init => TInv
<1> SUFFICES ASSUME Init PROVE TInv
  OBVIOUS
<1> USE StreamAssumption DEF Init
<1>1. Typed
  <2>1. \A S : <<>> \in Seq(S)
    BY EmptySeq
  <2>2. /\ main \in Steps /\ asked \in {"login", "reg"} /\ who \in Users \cup {None}
        /\ sock \in 0..MaxConns /\ fd \in {0, sock} /\ chats \in 0..MaxChats
    BY DEF Steps
  <2>3. /\ rpc \in [Conns -> ThreadSteps] /\ on \in [Conns -> 0..MaxConns]
        /\ srv \in [Conns -> ServerEnds] /\ suser \in [Conns -> Users \cup {None}]
        /\ got \in [Conns -> Nat] /\ seen \in [Conns -> Nat] /\ handled \in [Conns -> Nat]
    BY DEF ThreadSteps, ServerEnds
  <2>4. /\ lineBuf \in Seq(Halves) /\ shown \in Seq(Halves) /\ rbuf \in [Conns -> Seq(Halves)]
        /\ out \in [Conns -> Seq(Kinds)] /\ req \in [Conns -> Seq(Requests)]
    BY <2>1
  <2> QED BY <2>2, <2>3, <2>4 DEF Typed
<1>2. ASSUME NEW c \in Conns PROVE Limits(c)
  <2>1. Len(out[c]) = 0 /\ Len(req[c]) = 0
    BY EmptySeq
  <2> QED BY <2>1 DEF Limits, Fresh
<1> QED BY <1>1, <1>2 DEF TInv, Connected

\* The parts of a step of the server that sends on c.
LEMMA SendToGrows ==
  ASSUME TInv, NEW c \in Conns, NEW kinds \in Seq(Kinds), SendTo(c, kinds)
  PROVE  /\ out' \in [Conns -> Seq(Kinds)]
         /\ \A d \in Conns : Len(out[d]) \in Nat /\ Len(out'[d]) \in Nat /\ Len(out[d]) <= Len(out'[d])
         /\ \A d \in Conns : \A i \in 1..Len(out[d]) : out'[d][i] = out[d][i]
         /\ \A d \in Conns \ {c} : out'[d] = out[d]
         /\ Len(out'[c]) <= Len(out[c]) + Len(kinds)
         /\ \A i \in 1..Len(out'[c]) : i > Len(out[c]) => out'[c][i] = kinds[i - Len(out[c])]
<1>1. out \in [Conns -> Seq(Kinds)] /\ Len(kinds) \in Nat /\ \A d \in Conns : Len(out[d]) \in Nat
  BY LenProperties DEF TInv, Typed
<1>2. PICK line : line = IF srv[c] = "shut" THEN out[c] ELSE out[c] \o kinds
  OBVIOUS
<1>3. out' = [out EXCEPT ![c] = line]
  BY <1>2 DEF SendTo
<1>4. /\ line \in Seq(Kinds) /\ Len(line) \in Nat
      /\ Len(out[c]) <= Len(line) /\ Len(line) <= Len(out[c]) + Len(kinds)
      /\ \A i \in 1..Len(out[c]) : line[i] = out[c][i]
      /\ \A i \in 1..Len(line) : i > Len(out[c]) => line[i] = kinds[i - Len(out[c])]
  <2>1. CASE srv[c] = "shut"
    <3>1. line = out[c]
      BY <2>1, <1>2
    <3> QED BY <3>1, <1>1
  <2>2. CASE srv[c] # "shut"
    <3>1. line = out[c] \o kinds
      BY <2>2, <1>2
    <3>2. out[c] \in Seq(Kinds)
      BY <1>1
    <3>3. /\ line \in Seq(Kinds) /\ Len(line) = Len(out[c]) + Len(kinds)
          /\ \A i \in 1..(Len(out[c]) + Len(kinds)) :
               line[i] = IF i <= Len(out[c]) THEN out[c][i] ELSE kinds[i - Len(out[c])]
      BY <3>1, <3>2, ConcatProperties
    <3> QED BY <3>3, <1>1
  <2> QED BY <2>1, <2>2
<1>5. \A d \in Conns : out'[d] = IF d = c THEN line ELSE out[d]
  BY <1>1, <1>3
<1>6. out' \in [Conns -> Seq(Kinds)] /\ out'[c] = line /\ \A d \in Conns \ {c} : out'[d] = out[d]
  BY <1>1, <1>3, <1>4
<1>7. ASSUME NEW d \in Conns
      PROVE  /\ Len(out[d]) \in Nat /\ Len(out'[d]) \in Nat /\ Len(out[d]) <= Len(out'[d])
             /\ \A i \in 1..Len(out[d]) : out'[d][i] = out[d][i]
  <2>1. CASE d = c
    BY <1>1, <1>4, <1>6, <2>1
  <2>2. CASE d # c
    <3>1. out'[d] = out[d] /\ Len(out[d]) \in Nat
      BY <1>1, <1>6, <2>2
    <3> QED BY <3>1
  <2> QED BY <2>1, <2>2
<1> QED BY <1>4, <1>6, <1>7

LEMMA OnMessageCases ==
  ASSUME TInv, NEW c \in Conns, OnMessage(c)
  PROVE  \E k \in 1..(2 * Len(req[c]) - seen[c]) :
           /\ seen' = [seen EXCEPT ![c] = @ + k]
           /\ \/ UNCHANGED <<handled, out, srv, suser, chats>>
              \/ \E n \in 1..Len(req[c]) :
                   /\ k = 2 /\ 2 * n = seen[c] + 2 /\ handled' = [handled EXCEPT ![c] = @ + 1]
                   /\ \/ req[c][n].kind = "chat" /\ UNCHANGED <<out, srv, suser, chats>>
                      \/ /\ req[c][n].kind = "reg" /\ SendTo(c, <<"reg">>)
                         /\ UNCHANGED <<srv, suser, chats>>
                      \/ req[c][n].kind = "login" /\ HandleLogin(c, req[c][n].user)
<1>1. PICK k \in 1..(2 * Len(req[c]) - seen[c]) :
        /\ seen' = [seen EXCEPT ![c] = @ + k]
        /\ IF k = 2 /\ seen[c] % 2 = 0
           THEN /\ handled' = [handled EXCEPT ![c] = @ + 1]
                /\ Handle(c, req[c][seen'[c] \div 2])
           ELSE UNCHANGED <<handled, out, srv, suser, chats>>
  BY DEF OnMessage
<1>2. seen \in [Conns -> Nat] /\ seen[c] \in Nat /\ Len(req[c]) \in Nat /\ req[c] \in Seq(Requests)
  BY LenProperties DEF TInv, Typed
<1>3. CASE ~(k = 2 /\ seen[c] % 2 = 0)
  BY <1>1, <1>3
<1>4. CASE k = 2 /\ seen[c] % 2 = 0
  <2>1. seen'[c] = seen[c] + 2
    BY <1>1, <1>2, <1>4
  <2>2. PICK n \in 1..Len(req[c]) : 2 * n = seen[c] + 2 /\ n = seen'[c] \div 2
    <3>1. (seen[c] + 2) \div 2 \in 1..Len(req[c]) /\ 2 * ((seen[c] + 2) \div 2) = seen[c] + 2
      BY <1>1, <1>2, <1>4
    <3> QED BY <2>1, <3>1
  <2>3. req[c][n] \in Requests
    BY <1>2, ElementOfSeq
  <2>4. req[c][n].kind \in {"login", "reg", "chat"}
    BY <2>3 DEF Requests
  <2>5. Handle(c, req[c][n]) /\ handled' = [handled EXCEPT ![c] = @ + 1]
    BY <1>1, <1>4, <2>2
  <2>6. \/ req[c][n].kind = "chat" /\ UNCHANGED <<out, srv, suser, chats>>
        \/ /\ req[c][n].kind = "reg" /\ SendTo(c, <<"reg">>)
           /\ UNCHANGED <<srv, suser, chats>>
        \/ req[c][n].kind = "login" /\ HandleLogin(c, req[c][n].user)
    <3>1. CASE req[c][n].kind = "login"
      BY <2>5, <3>1 DEF Handle
    <3>2. CASE req[c][n].kind = "reg"
      BY <2>5, <3>2 DEF Handle
    <3>3. CASE req[c][n].kind = "chat"
      BY <2>5, <3>3 DEF Handle
    <3> QED BY <2>4, <3>1, <3>2, <3>3
  <2> QED BY <1>1, <1>4, <2>2, <2>5, <2>6
<1> QED BY <1>3, <1>4
LEMMA HandleLoginEffect ==
  ASSUME TInv, NEW c \in Conns, NEW u \in Users \cup {None}, HandleLogin(c, u)
  PROVE  \E kinds \in {<<"fail">>, <<"ok">>, <<"chat", "ok">>} :
           /\ SendTo(c, kinds) /\ chats' \in 0..MaxChats
           /\ srv' \in [Conns -> ServerEnds] /\ suser' \in [Conns -> Users \cup {None}]
           /\ \A d \in Conns \ {c} : suser'[d] = suser[d]
           /\ \A d \in Conns \ {c} : srv'[d] = srv[d] \/ (srv[d] = "in" /\ srv'[d] = "shut")
           /\ IF kinds = <<"fail">> THEN srv' = srv /\ suser' = suser
              ELSE srv'[c] = "in" /\ suser'[c] = u
<1> USE StreamAssumption
<1>0. /\ srv \in [Conns -> ServerEnds] /\ suser \in [Conns -> Users \cup {None}] /\ chats \in 0..MaxChats
  BY DEF TInv, Typed
<1>1. CASE SendTo(c, <<"fail">>) /\ UNCHANGED <<srv, suser, chats>>
  BY <1>0, <1>1
<1>2. ASSUME NEW stored \in 0..1, NEW kicked \in SUBSET {d \in Conns \ {c} : srv[d] = "in" /\ suser[d] = u},
             chats' = chats + stored, chats' <= MaxChats,
             SendTo(c, IF stored = 1 THEN <<"chat", "ok">> ELSE <<"ok">>),
             srv' = [d \in Conns |-> IF d = c THEN "in"
                                      ELSE IF d \in kicked THEN "shut" ELSE srv[d]],
             suser' = [suser EXCEPT ![c] = u]
      PROVE  \E kinds \in {<<"ok">>, <<"chat", "ok">>} :
               /\ SendTo(c, kinds) /\ chats' \in 0..MaxChats
               /\ srv' \in [Conns -> ServerEnds] /\ suser' \in [Conns -> Users \cup {None}]
               /\ \A d \in Conns \ {c} : suser'[d] = suser[d]
               /\ \A d \in Conns \ {c} : srv'[d] = srv[d] \/ (srv[d] = "in" /\ srv'[d] = "shut")
               /\ srv'[c] = "in" /\ suser'[c] = u
  <2>1. PICK kinds \in {<<"ok">>, <<"chat", "ok">>} : kinds = IF stored = 1 THEN <<"chat", "ok">> ELSE <<"ok">>
    OBVIOUS
  <2>2. SendTo(c, kinds)
    BY <1>2, <2>1, Zenon
  <2>3. chats' \in 0..MaxChats
    BY <1>0, <1>2
  <2>4. srv' \in [Conns -> ServerEnds] /\ srv'[c] = "in"
    BY <1>0, <1>2 DEF ServerEnds
  <2>5. \A d \in Conns \ {c} : srv'[d] = srv[d] \/ (srv[d] = "in" /\ srv'[d] = "shut")
    BY <1>2
  <2>6. /\ suser' \in [Conns -> Users \cup {None}] /\ suser'[c] = u
        /\ \A d \in Conns \ {c} : suser'[d] = suser[d]
    BY <1>0, <1>2
  <2> QED BY <2>2, <2>3, <2>4, <2>5, <2>6
<1>3. <<"ok">> # <<"fail">> /\ <<"chat", "ok">> # <<"fail">>
  OBVIOUS
<1>4. CASE ~(SendTo(c, <<"fail">>) /\ UNCHANGED <<srv, suser, chats>>)
  <2>1. PICK kinds \in {<<"ok">>, <<"chat", "ok">>} :
               /\ SendTo(c, kinds) /\ chats' \in 0..MaxChats
               /\ srv' \in [Conns -> ServerEnds] /\ suser' \in [Conns -> Users \cup {None}]
               /\ \A d \in Conns \ {c} : suser'[d] = suser[d]
               /\ \A d \in Conns \ {c} : srv'[d] = srv[d] \/ (srv[d] = "in" /\ srv'[d] = "shut")
               /\ srv'[c] = "in" /\ suser'[c] = u
    BY <1>2, <1>4, Zenon DEF HandleLogin
  <2> QED BY <2>1, <1>3
<1> QED BY <1>1, <1>4

\* Whatever the server does with c, these are all it can do.
ServerEffect(c) ==
  /\ UNCHANGED <<mainVars, recvVars, shown, got, req>>
  /\ main # "exit" /\ srv[c] \in {"open", "in", "shut"}
  /\ chats' \in 0..MaxChats
  /\ out' \in [Conns -> Seq(Kinds)]
  /\ \A d \in Conns :
       /\ Len(out[d]) \in Nat /\ Len(out'[d]) \in Nat /\ Len(out[d]) <= Len(out'[d])
       /\ \A i \in 1..Len(out[d]) : out'[d][i] = out[d][i]
  /\ seen' \in [Conns -> Nat] /\ handled' \in [Conns -> Nat]
  /\ seen[c] <= seen'[c] /\ seen'[c] <= 2 * Len(req[c]) /\ 2 * handled'[c] <= seen'[c]
  /\ srv' \in [Conns -> ServerEnds] /\ suser' \in [Conns -> Users \cup {None}]
  /\ \A d \in Conns \ {c} :
       /\ out'[d] = out[d] /\ seen'[d] = seen[d] /\ handled'[d] = handled[d] /\ suser'[d] = suser[d]
       /\ srv'[d] = srv[d] \/ (srv[d] = "in" /\ srv'[d] = "shut")

LEMMA TypedParts ==
  ASSUME TInv
  PROVE  /\ main \in Steps /\ asked \in {"login", "reg"} /\ who \in Users \cup {None}
         /\ sock \in 0..MaxConns /\ fd \in {0, sock}
         /\ lineBuf \in Seq(Halves) /\ shown \in Seq(Halves) /\ chats \in 0..MaxChats
         /\ rpc \in [Conns -> ThreadSteps] /\ on \in [Conns -> 0..MaxConns]
         /\ rbuf \in [Conns -> Seq(Halves)]
         /\ out \in [Conns -> Seq(Kinds)] /\ got \in [Conns -> Nat]
         /\ req \in [Conns -> Seq(Requests)]
         /\ seen \in [Conns -> Nat] /\ handled \in [Conns -> Nat]
         /\ srv \in [Conns -> ServerEnds] /\ suser \in [Conns -> Users \cup {None}]
         /\ \A c \in Conns : Len(out[c]) \in Nat /\ Len(req[c]) \in Nat /\ Limits(c)
<1>1. Typed /\ \A c \in Conns : Limits(c)
  BY DEF TInv
<1>2. \A c \in Conns : out[c] \in Seq(Kinds) /\ req[c] \in Seq(Requests)
  BY <1>1 DEF Typed
<1>3. \A c \in Conns : Len(out[c]) \in Nat /\ Len(req[c]) \in Nat
  BY <1>2, LenProperties
<1> QED BY <1>1, <1>3 DEF Typed

LEMMA AnswerLines ==
  <<"chat">> \in Seq(Kinds) /\ <<"reg">> \in Seq(Kinds) /\ <<"fail">> \in Seq(Kinds)
    /\ <<"ok">> \in Seq(Kinds) /\ <<"chat", "ok">> \in Seq(Kinds)
BY DEF Kinds

LEMMA ServerSteps ==
  ASSUME TInv, NEW c \in Conns,
         OnMessage(c) \/ ServerClose(c) \/ ServerChat(c) \/ Kick(c)
  PROVE  ServerEffect(c)
<1>0. /\ out \in [Conns -> Seq(Kinds)] /\ chats \in 0..MaxChats
      /\ seen \in [Conns -> Nat] /\ handled \in [Conns -> Nat]
      /\ srv \in [Conns -> ServerEnds] /\ suser \in [Conns -> Users \cup {None}]
      /\ Len(req[c]) \in Nat /\ seen[c] <= 2 * Len(req[c]) /\ 2 * handled[c] <= seen[c]
  BY TypedParts DEF Limits
<1>a. \A d \in Conns : Len(out[d]) \in Nat
  BY TypedParts
<1>1. CASE OnMessage(c)
  <2>1. PICK k \in 1..(2 * Len(req[c]) - seen[c]) :
           /\ seen' = [seen EXCEPT ![c] = @ + k]
           /\ \/ UNCHANGED <<handled, out, srv, suser, chats>>
              \/ \E n \in 1..Len(req[c]) :
                   /\ k = 2 /\ 2 * n = seen[c] + 2 /\ handled' = [handled EXCEPT ![c] = @ + 1]
                   /\ \/ req[c][n].kind = "chat" /\ UNCHANGED <<out, srv, suser, chats>>
                      \/ /\ req[c][n].kind = "reg" /\ SendTo(c, <<"reg">>)
                         /\ UNCHANGED <<srv, suser, chats>>
                      \/ req[c][n].kind = "login" /\ HandleLogin(c, req[c][n].user)
    BY <1>1, OnMessageCases
  <2>2. /\ UNCHANGED <<mainVars, recvVars, shown, got, req>>
        /\ main # "exit" /\ srv[c] \in {"open", "in", "shut"}
    BY <1>1 DEF OnMessage, Running
  <2>3. /\ seen' \in [Conns -> Nat] /\ \A d \in Conns \ {c} : seen'[d] = seen[d]
        /\ seen[c] <= seen'[c] /\ seen'[c] = seen[c] + k /\ seen'[c] <= 2 * Len(req[c])
    BY <1>0, <2>1
  <2>4. CASE UNCHANGED <<handled, out, srv, suser, chats>>
    <3>1. handled' = handled /\ out' = out /\ srv' = srv /\ suser' = suser /\ chats' = chats
      BY <2>4
    <3>2. \A d \in Conns :
            /\ Len(out[d]) \in Nat /\ Len(out'[d]) \in Nat /\ Len(out[d]) <= Len(out'[d])
            /\ \A i \in 1..Len(out[d]) : out'[d][i] = out[d][i]
      BY <1>a, <3>1
    <3>3. 2 * handled'[c] <= seen'[c]
      <4>1. handled[c] \in Nat /\ seen[c] \in Nat /\ seen'[c] \in Nat
        BY <1>0, <2>3
      <4> QED BY <4>1, <1>0, <2>3, <3>1
    <3> QED BY <1>0, <2>2, <2>3, <3>1, <3>2, <3>3 DEF ServerEffect
  <2>5. ASSUME NEW n \in 1..Len(req[c]), k = 2, handled' = [handled EXCEPT ![c] = @ + 1],
               \/ req[c][n].kind = "chat" /\ UNCHANGED <<out, srv, suser, chats>>
               \/ /\ req[c][n].kind = "reg" /\ SendTo(c, <<"reg">>)
                  /\ UNCHANGED <<srv, suser, chats>>
               \/ req[c][n].kind = "login" /\ HandleLogin(c, req[c][n].user)
        PROVE  ServerEffect(c)
    <3>1. /\ handled' \in [Conns -> Nat] /\ \A d \in Conns \ {c} : handled'[d] = handled[d]
          /\ 2 * handled'[c] <= seen'[c]
      <4>1. /\ handled' \in [Conns -> Nat] /\ handled'[c] = handled[c] + 1
            /\ \A d \in Conns \ {c} : handled'[d] = handled[d]
        BY <1>0, <2>5
      <4>2. seen'[c] = seen[c] + 2 /\ 2 * handled[c] <= seen[c] /\ seen[c] \in Nat /\ handled[c] \in Nat
        BY <1>0, <2>3, <2>5
      <4> QED BY <4>1, <4>2
    <3>2. CASE UNCHANGED <<out, srv, suser, chats>>
      <4>1. \A d \in Conns :
              /\ Len(out[d]) \in Nat /\ Len(out'[d]) \in Nat /\ Len(out[d]) <= Len(out'[d])
              /\ \A i \in 1..Len(out[d]) : out'[d][i] = out[d][i]
        BY <1>a, <3>2
      <4>2. out' = out /\ srv' = srv /\ suser' = suser /\ chats' = chats
        BY <3>2
      <4> QED BY <1>0, <2>2, <2>3, <3>1, <4>1, <4>2 DEF ServerEffect
    <3>3. CASE SendTo(c, <<"reg">>) /\ UNCHANGED <<srv, suser, chats>>
      <4>1. /\ out' \in [Conns -> Seq(Kinds)]
            /\ \A d \in Conns : Len(out[d]) \in Nat /\ Len(out'[d]) \in Nat /\ Len(out[d]) <= Len(out'[d])
            /\ \A d \in Conns : \A i \in 1..Len(out[d]) : out'[d][i] = out[d][i]
            /\ \A d \in Conns \ {c} : out'[d] = out[d]
        BY <3>3, AnswerLines, SendToGrows
      <4>2. chats' \in 0..MaxChats /\ srv' = srv /\ suser' = suser
        BY <1>0, <3>3
      <4>3. srv' \in [Conns -> ServerEnds] /\ suser' \in [Conns -> Users \cup {None}]
        BY <1>0, <4>2
      <4> QED BY <2>2, <2>3, <3>1, <4>1, <4>2, <4>3 DEF ServerEffect
    <3>4. CASE HandleLogin(c, req[c][n].user)
      <4>0. req[c][n].user \in Users \cup {None}
        <5>1. req[c] \in Seq(Requests)
          BY TypedParts
        <5>2. req[c][n] \in Requests
          BY <5>1, ElementOfSeq
        <5> QED BY <5>2 DEF Requests
      <4>1. PICK kinds \in {<<"fail">>, <<"ok">>, <<"chat", "ok">>} :
           /\ SendTo(c, kinds) /\ chats' \in 0..MaxChats
           /\ srv' \in [Conns -> ServerEnds] /\ suser' \in [Conns -> Users \cup {None}]
           /\ \A d \in Conns \ {c} : suser'[d] = suser[d]
           /\ \A d \in Conns \ {c} : srv'[d] = srv[d] \/ (srv[d] = "in" /\ srv'[d] = "shut")
        BY <3>4, <4>0, HandleLoginEffect
      <4>2. kinds \in Seq(Kinds)
        BY <4>1, AnswerLines
      <4>3. /\ out' \in [Conns -> Seq(Kinds)]
            /\ \A d \in Conns : Len(out[d]) \in Nat /\ Len(out'[d]) \in Nat /\ Len(out[d]) <= Len(out'[d])
            /\ \A d \in Conns : \A i \in 1..Len(out[d]) : out'[d][i] = out[d][i]
            /\ \A d \in Conns \ {c} : out'[d] = out[d]
        BY <4>1, <4>2, SendToGrows
      <4> QED BY <2>2, <2>3, <3>1, <4>1, <4>3 DEF ServerEffect
    <3> QED BY <2>5, <3>2, <3>3, <3>4
  <2> QED BY <2>1, <2>4, <2>5
<1>2. CASE ServerClose(c) \/ Kick(c)
  <2>1. /\ UNCHANGED <<mainVars, recvVars, shown, got, req, out, seen, handled, suser, chats>>
        /\ main # "exit" /\ srv[c] \in {"open", "in", "shut"}
        /\ \E end \in {"gone", "shut"} : srv' = [srv EXCEPT ![c] = end]
    BY <1>2 DEF ServerClose, Kick, Running
  <2>2. srv' \in [Conns -> ServerEnds] /\ \A d \in Conns \ {c} : srv'[d] = srv[d]
    BY <1>0, <2>1 DEF ServerEnds
  <2> QED BY <1>0, <1>a, <2>1, <2>2 DEF ServerEffect
<1>3. CASE ServerChat(c)
  <2>1. /\ UNCHANGED <<mainVars, recvVars, shown, got, req, seen, handled, srv, suser>>
        /\ main # "exit" /\ srv[c] = "in" /\ chats < MaxChats /\ chats' = chats + 1
        /\ SendTo(c, <<"chat">>)
    BY <1>3 DEF ServerChat, Running
  <2>2. /\ out' \in [Conns -> Seq(Kinds)]
        /\ \A d \in Conns : Len(out[d]) \in Nat /\ Len(out'[d]) \in Nat /\ Len(out[d]) <= Len(out'[d])
        /\ \A d \in Conns : \A i \in 1..Len(out[d]) : out'[d][i] = out[d][i]
        /\ \A d \in Conns \ {c} : out'[d] = out[d]
    BY <2>1, AnswerLines, SendToGrows
  <2>3. chats' \in 0..MaxChats
    BY <1>0, <2>1, StreamAssumption
  <2> QED BY <1>0, <1>a, <2>1, <2>2, <2>3 DEF ServerEffect
<1> QED BY <1>1, <1>2, <1>3
LEMMA ServerTypes ==
  ASSUME TInv, NEW c \in Conns, ServerEffect(c)
  PROVE  TInv'
<1>1. /\ UNCHANGED <<main, asked, who, sock, fd, lineBuf, rpc, on, rbuf, shown, got, req>>
      /\ srv[c] \in {"open", "in", "shut"}
  BY DEF ServerEffect, mainVars, recvVars
<1>2. Typed'
  BY <1>1, TypedParts DEF ServerEffect, Typed
<1>3. Connected'
  BY <1>1 DEF TInv, Connected
<1>4. ASSUME NEW d \in Conns PROVE Limits(d)'
  <2>1. Limits(d) /\ Len(out[d]) \in Nat /\ Len(req[d]) \in Nat /\ got[d] \in Nat
    BY TypedParts
  <2>2. Len(out'[d]) \in Nat /\ Len(out[d]) <= Len(out'[d])
    BY DEF ServerEffect
  <2>3. /\ on'[d] <= sock' /\ (rpc'[d] = "blocked" <=> on'[d] # 0) /\ (rpc'[d] = "none" => rbuf'[d] = <<>>)
        /\ got'[d] <= 2 * Len(out'[d])
    BY <1>1, <2>1, <2>2 DEF Limits
  <2>4. CASE d = c
    <3>1. ~(c > sock)
      BY <1>1, <2>1, <2>4 DEF Limits, Fresh
    <3> QED BY <1>1, <2>3, <2>4, <3>1 DEF ServerEffect, Limits
  <2>5. CASE d # c
    <3>1. /\ out'[d] = out[d] /\ seen'[d] = seen[d] /\ handled'[d] = handled[d]
          /\ srv[d] = "none" => srv'[d] = "none"
      BY <2>5 DEF ServerEffect
    <3>2. d > sock => Fresh(d)'
      BY <1>1, <2>1, <3>1 DEF Limits, Fresh
    <3> QED BY <1>1, <2>1, <2>3, <3>1, <3>2 DEF Limits
  <2> QED BY <2>4, <2>5
<1> QED BY <1>2, <1>3, <1>4 DEF TInv

LEMMA ConnectTypes == TInv /\ Connect => TInv'
<1> SUFFICES ASSUME TInv, Connect PROVE TInv'
  OBVIOUS
<1> USE StreamAssumption
<1>1. /\ sock < MaxConns /\ sock' = sock + 1 /\ fd' = sock' /\ main' = "choose"
      /\ srv' = [srv EXCEPT ![sock'] = "open"]
      /\ UNCHANGED <<asked, who, lineBuf, rpc, on, rbuf, shown, got, req, out, seen,
                     handled, suser, chats>>
  BY DEF Connect, recvVars
<1>2. sock' \in Conns /\ sock \in Nat /\ sock' \in 0..MaxConns
  <2>1. sock \in 0..MaxConns
    BY TypedParts
  <2> QED BY <1>1, <2>1 DEF Conns
<1>3. Typed'
  <2>1. srv' \in [Conns -> ServerEnds] /\ main' \in Steps
    BY <1>1, TypedParts DEF ServerEnds, Steps
  <2> QED BY <1>1, <1>2, <2>1, TypedParts DEF Typed
<1>4. Connected'
  <2>1. Limits(sock')
    BY <1>2, TypedParts
  <2>2. rpc[sock'] = "none"
    BY <1>1, <1>2, <2>1 DEF Limits, Fresh
  <2> QED BY <1>1, <1>2, <2>2 DEF Connected
<1>5. ASSUME NEW d \in Conns PROVE Limits(d)'
  <2>1. Limits(d) /\ d \in Nat /\ on[d] \in Nat
    BY TypedParts DEF Conns
  <2>2. ASSUME d > sock' PROVE Fresh(d)'
    <3>1. d > sock /\ d # sock'
      BY <1>1, <1>2, <2>1, <2>2
    <3>2. srv'[d] = srv[d]
      BY <1>1, <3>1, TypedParts
    <3> QED BY <1>1, <2>1, <3>1, <3>2 DEF Limits, Fresh
  <2>3. on[d] <= sock'
    BY <1>1, <1>2, <2>1 DEF Limits
  <2> QED BY <1>1, <2>1, <2>2, <2>3 DEF Limits
<1> QED BY <1>3, <1>4, <1>5 DEF TInv

LEMMA SendLineEffect ==
  ASSUME TInv, sock \in Conns, NEW kind \in {"login", "reg", "chat"}, NEW u \in Users \cup {None},
         SendLine(kind, u)
  PROVE  /\ req' \in [Conns -> Seq(Requests)] /\ req'[sock] \in Seq(Requests)
         /\ Len(req'[sock]) = Len(req[sock]) + 1
         /\ req'[sock][Len(req[sock]) + 1] = [kind |-> kind, user |-> u]
         /\ \A n \in 1..Len(req[sock]) : req'[sock][n] = req[sock][n]
         /\ \A d \in Conns \ {sock} : req'[d] = req[d]
<1>1. req \in [Conns -> Seq(Requests)] /\ req[sock] \in Seq(Requests)
  BY TypedParts
<1>2. [kind |-> kind, user |-> u] \in Requests
  BY DEF Requests
<1>3. req' = [req EXCEPT ![sock] = Append(req[sock], [kind |-> kind, user |-> u])]
  BY DEF SendLine
<1>4. /\ Append(req[sock], [kind |-> kind, user |-> u]) \in Seq(Requests)
      /\ Len(Append(req[sock], [kind |-> kind, user |-> u])) = Len(req[sock]) + 1
      /\ \A n \in 1..Len(req[sock]) : Append(req[sock], [kind |-> kind, user |-> u])[n] = req[sock][n]
      /\ Append(req[sock], [kind |-> kind, user |-> u])[Len(req[sock]) + 1] = [kind |-> kind, user |-> u]
  BY <1>1, <1>2, AppendProperties
<1>5. /\ req'[sock] = Append(req[sock], [kind |-> kind, user |-> u])
      /\ \A d \in Conns \ {sock} : req'[d] = req[d]
  BY <1>1, <1>3
<1>6. req' \in [Conns -> Seq(Requests)]
  BY <1>1, <1>3, <1>4
<1> QED BY <1>4, <1>5, <1>6

\* Limits of every connection, when requests were added and main took a step.
LEMMA RequestTypes ==
  ASSUME TInv, sock \in Conns, fd = sock, NEW kind \in {"login", "reg", "chat"}, NEW u \in Users \cup {None},
         SendLine(kind, u), UNCHANGED <<sock, fd, recvVars, got, serverVars>>
  PROVE  \A d \in Conns : Limits(d)'
<1> SUFFICES ASSUME NEW d \in Conns PROVE Limits(d)'
  OBVIOUS
<1>1. Limits(d) /\ Len(req[d]) \in Nat /\ seen[d] \in Nat /\ sock \in Nat
  BY TypedParts
<1>2. UNCHANGED <<sock, rpc, on, rbuf, got, out, seen, handled, srv>>
  BY DEF recvVars, serverVars
<1>3. CASE d = sock
  <2>1. Len(req'[d]) = Len(req[d]) + 1
    BY <1>3, SendLineEffect
  <2>2. ~(d > sock)
    BY <1>1, <1>3
  <2> QED BY <1>1, <1>2, <2>1, <2>2 DEF Limits
<1>4. CASE d # sock
  <2>1. req'[d] = req[d]
    BY <1>4, SendLineEffect
  <2>2. Fresh(d) => Fresh(d)'
    BY <1>2, <2>1 DEF Fresh
  <2> QED BY <1>1, <1>2, <2>1, <2>2 DEF Limits
<1> QED BY <1>3, <1>4

LEMMA AskTypes ==
  ASSUME TInv, NEW kind \in {"login", "reg"}, NEW u \in Users \cup {None}, Ask(kind, u)
  PROVE  TInv'
<1>1. /\ main = "choose" /\ main' = "await" /\ asked' = kind
      /\ who' = (IF kind = "login" THEN u ELSE who) /\ SendLine(kind, u)
      /\ UNCHANGED <<sock, fd, lineBuf, recvVars, shown, got, serverVars>>
  BY DEF Ask
<1>2. sock \in Conns /\ fd = sock /\ rpc[sock] = "none"
  BY <1>1 DEF TInv, Connected
<1>3. \A d \in Conns : Limits(d)'
  BY <1>1, <1>2, RequestTypes
<1>4. Typed'
  <2>1. req' \in [Conns -> Seq(Requests)]
    BY <1>1, <1>2, SendLineEffect
  <2>2. who' \in Users \cup {None} /\ asked' \in {"login", "reg"} /\ main' \in Steps
    BY <1>1, TypedParts DEF Steps
  <2> QED BY <1>1, <2>1, <2>2, TypedParts DEF Typed, recvVars, serverVars
<1>5. Connected'
  BY <1>1, <1>2 DEF Connected, recvVars
<1> QED BY <1>3, <1>4, <1>5 DEF TInv

LEMMA SendTypes == TInv /\ Send => TInv'
<1> SUFFICES ASSUME TInv, Send PROVE TInv'
  OBVIOUS
<1>1. /\ main = "menu" /\ SendLine("chat", who)
      /\ UNCHANGED <<mainVars, recvVars, shown, got, serverVars>>
  BY DEF Send
<1>2. sock \in Conns /\ fd = sock /\ who \in Users \cup {None}
  BY <1>1, TypedParts DEF TInv, Connected
<1>3. \A d \in Conns : Limits(d)'
  BY <1>1, <1>2, RequestTypes DEF mainVars
<1>4. req' \in [Conns -> Seq(Requests)]
  BY <1>1, <1>2, SendLineEffect
<1>5. Typed'
  BY <1>1, <1>4, TypedParts DEF Typed, mainVars, recvVars, serverVars
<1>6. Connected'
  BY <1>1 DEF TInv, Connected, mainVars, recvVars
<1> QED BY <1>3, <1>5, <1>6 DEF TInv

LEMMA LeaveTypes == TInv /\ (Logout \/ Quit \/ MainEnd) => TInv'
<1> SUFFICES ASSUME TInv, Logout \/ Quit \/ MainEnd PROVE TInv'
  OBVIOUS
<1>1. /\ main' \in {"start", "exit"} /\ fd' \in {0, sock} /\ who' \in Users \cup {None}
      /\ UNCHANGED <<asked, sock, lineBuf, recvVars, shown, got, req, serverVars>>
  BY TypedParts DEF Logout, Quit, MainEnd
<1>2. Typed'
  BY <1>1, TypedParts DEF Typed, recvVars, serverVars, Steps
<1>3. Connected'
  BY <1>1 DEF Connected
<1>4. ASSUME NEW d \in Conns PROVE Limits(d)'
  <2>1. Limits(d)
    BY TypedParts
  <2> QED BY <1>1, <2>1 DEF Limits, Fresh, recvVars, serverVars
<1> QED BY <1>2, <1>3, <1>4 DEF TInv
\* A line was taken from buf: it is printed if it is a chat line.
Printed(buf) ==
  \/ shown' = shown /\ (Parses(buf) => Kind(FirstLine(buf)) # "chat")
  \/ Parses(buf) /\ Kind(FirstLine(buf)) = "chat" /\ shown' = Append(shown, FirstLine(buf))

LEMMA FirstLineHalf ==
  ASSUME NEW buf \in Seq(Halves), HasLine(buf), Parses(buf)
  PROVE  /\ LineEnd(buf) = 2 /\ 2 \in 1..Len(buf) /\ buf[2][2] % 2 = 0
         /\ buf[2] \in Halves /\ FirstLine(buf) = LineAt(buf[2]) /\ FirstLine(buf) \in Halves
         /\ buf[2] = <<FirstLine(buf)[1], 2 * FirstLine(buf)[2]>>
<1>1. LineEnd(buf) = 2 /\ LineEnd(buf) \in 1..Len(buf) /\ buf[LineEnd(buf)][2] % 2 = 0
  BY LineEndFirst DEF Parses
<1>2. 2 \in 1..Len(buf) /\ buf[2][2] % 2 = 0
  BY <1>1
<1>3. buf[2] \in Halves
  BY <1>2, ElementOfSeq
<1>4. PICK c \in Conns, h \in Nat : buf[2] = <<c, h>>
  BY <1>3 DEF Halves
<1>5. FirstLine(buf) = <<c, h \div 2>> /\ h = 2 * (h \div 2) /\ h \div 2 \in Nat
  BY <1>2, <1>4 DEF FirstLine, LineAt
<1> QED BY <1>1, <1>2, <1>3, <1>4, <1>5 DEF FirstLine, Halves

LEMMA PrintedType ==
  ASSUME TInv, NEW buf \in Seq(Halves), HasLine(buf), Printed(buf)
  PROVE  shown' \in Seq(Halves)
<1>1. shown \in Seq(Halves)
  BY TypedParts
<1>2. CASE shown' = shown
  BY <1>1, <1>2
<1>3. CASE Parses(buf) /\ shown' = Append(shown, FirstLine(buf))
  <2>1. FirstLine(buf) \in Halves
    BY <1>3, FirstLineHalf
  <2> QED BY <1>1, <1>3, <2>1, AppendProperties
<1> QED BY <1>2, <1>3 DEF Printed

LEMMA MainLineEffect ==
  ASSUME TInv, MainLine
  PROVE  /\ main = "await" /\ sock \in Conns /\ fd = sock /\ HasLine(lineBuf)
         /\ lineBuf' = Rest(lineBuf) /\ Printed(lineBuf)
         /\ UNCHANGED <<asked, who, sock, fd, on, rbuf, got, req, serverVars>>
         /\ \/ main' = "await" /\ rpc' = rpc
               /\ ~(Parses(lineBuf) /\ Kind(FirstLine(lineBuf)) = "reg")
            \/ /\ main' = "choose" /\ rpc' = rpc /\ Parses(lineBuf)
               /\ \/ Kind(FirstLine(lineBuf)) = "reg"
                  \/ Kind(FirstLine(lineBuf)) = "fail" /\ asked = "login"
            \/ /\ main' = "menu" /\ rpc' = [rpc EXCEPT ![sock] = "call"] /\ Parses(lineBuf)
               /\ Kind(FirstLine(lineBuf)) = "ok" /\ asked = "login"
<1>1. PICK kind : kind = IF Parses(lineBuf) THEN Kind(FirstLine(lineBuf)) ELSE "junk"
  OBVIOUS
<1>2. /\ main = "await" /\ HasLine(lineBuf) /\ lineBuf' = Rest(lineBuf)
      /\ main' = IF kind = "ok" /\ asked = "login" THEN "menu"
                 ELSE IF kind = "reg" \/ (kind = "fail" /\ asked = "login") THEN "choose"
                 ELSE main
      /\ rpc' = IF main' = "menu" THEN [rpc EXCEPT ![sock] = "call"] ELSE rpc
      /\ IF kind = "junk" THEN UNCHANGED shown ELSE Show(FirstLine(lineBuf))
      /\ UNCHANGED <<asked, who, sock, fd, on, rbuf, got, req, serverVars>>
  BY <1>1, Zenon DEF MainLine
<1>3. sock \in Conns /\ fd = sock
  BY <1>2 DEF TInv, Connected
<1>4. Printed(lineBuf)
  <2>1. CASE kind = "junk"
    <3>1. Parses(lineBuf) => Kind(FirstLine(lineBuf)) # "chat"
      BY <1>1, <2>1
    <3> QED BY <1>2, <2>1, <3>1 DEF Printed
  <2>2. CASE kind # "junk"
    <3>1. Parses(lineBuf) /\ kind = Kind(FirstLine(lineBuf))
      BY <1>1, <2>2
    <3>2. Show(FirstLine(lineBuf))
      BY <1>2, <2>2
    <3> QED BY <3>1, <3>2 DEF Printed, Show
  <2> QED BY <2>1, <2>2
<1>5. CASE kind = "ok" /\ asked = "login"
  <2>1. main' = "menu" /\ rpc' = [rpc EXCEPT ![sock] = "call"]
    BY <1>2, <1>5
  <2>2. Parses(lineBuf) /\ Kind(FirstLine(lineBuf)) = "ok"
    BY <1>1, <1>5
  <2> QED BY <1>2, <1>3, <1>4, <1>5, <2>1, <2>2
<1>6. CASE kind = "reg" \/ (kind = "fail" /\ asked = "login")
  <2>1. main' = "choose" /\ rpc' = rpc
    BY <1>2, <1>6
  <2>2. Parses(lineBuf) /\ kind = Kind(FirstLine(lineBuf))
    BY <1>1, <1>6
  <2> QED BY <1>2, <1>3, <1>4, <1>6, <2>1, <2>2
<1>7. CASE ~(kind = "ok" /\ asked = "login") /\ ~(kind = "reg" \/ (kind = "fail" /\ asked = "login"))
  <2>1. main' = "await" /\ rpc' = rpc
    BY <1>2, <1>7
  <2>2. ~(Parses(lineBuf) /\ Kind(FirstLine(lineBuf)) = "reg")
    BY <1>1, <1>7
  <2> QED BY <1>2, <1>3, <1>4, <2>1, <2>2
<1> QED BY <1>5, <1>6, <1>7

LEMMA MainLineTypes == TInv /\ MainLine => TInv'
<1> SUFFICES ASSUME TInv, MainLine PROVE TInv'
  OBVIOUS
<1>1. /\ main = "await" /\ sock \in Conns /\ fd = sock /\ HasLine(lineBuf)
      /\ lineBuf' = Rest(lineBuf) /\ Printed(lineBuf)
      /\ UNCHANGED <<asked, who, sock, fd, on, rbuf, got, req, serverVars>>
      /\ \/ main' \in {"await", "choose"} /\ rpc' = rpc
         \/ main' = "menu" /\ rpc' = [rpc EXCEPT ![sock] = "call"]
  BY MainLineEffect
<1>2. lineBuf \in Seq(Halves) /\ rpc \in [Conns -> ThreadSteps]
  BY TypedParts
<1>3. lineBuf' \in Seq(Halves) /\ shown' \in Seq(Halves)
  BY <1>1, <1>2, RestIsSuffix, PrintedType
<1>4. rpc' \in [Conns -> ThreadSteps] /\ main' \in Steps
  BY <1>1, <1>2 DEF ThreadSteps, Steps
<1>5. Typed'
  BY <1>1, <1>3, <1>4, TypedParts DEF Typed, serverVars
<1>6. rpc[sock] = "none"
  BY <1>1 DEF TInv, Connected
<1>7. Connected'
  BY <1>1, <1>6 DEF Connected
<1>8. ASSUME NEW d \in Conns PROVE Limits(d)'
  <2>1. Limits(d) /\ sock \in Nat
    BY TypedParts
  <2>2. CASE rpc'[d] = rpc[d]
    BY <1>1, <2>1, <2>2 DEF Limits, Fresh, serverVars
  <2>3. CASE d = sock /\ rpc'[d] = "call"
    <3>1. ~(d > sock) /\ on[d] = 0
      BY <2>1, <2>3, <1>6 DEF Limits
    <3> QED BY <1>1, <2>1, <2>3, <3>1 DEF Limits, serverVars
  <2> QED BY <1>1, <1>2, <2>2, <2>3
<1> QED BY <1>5, <1>7, <1>8 DEF TInv

\* What a recv on an open connection does to the counts of every connection.
LEMMA ReceiveLimits ==
  ASSUME TInv, NEW x \in Conns, x <= sock, NEW k \in 1..Unread(x), Receive(x, k)
  PROVE  /\ k \in Nat /\ got' = [got EXCEPT ![x] = @ + k]
         /\ got' \in [Conns -> Nat] /\ got'[x] = got[x] + k
         /\ \A d \in Conns \ {x} : got'[d] = got[d]
         /\ \A d \in Conns : got[d] \in Nat /\ got'[d] \in Nat /\ got[d] <= got'[d]
         /\ \A d \in Conns : got'[d] <= 2 * Len(out[d]) /\ (d > sock => got'[d] = got[d])
<1>1. got \in [Conns -> Nat] /\ Len(out[x]) \in Nat /\ got[x] \in Nat /\ sock \in Nat /\ x \in Nat
  <2>1. x \in Nat
    BY DEF Conns
  <2>2. got \in [Conns -> Nat] /\ Len(out[x]) \in Nat /\ sock \in 0..MaxConns
    BY TypedParts
  <2> QED BY <2>1, <2>2
<1>2. got' = [got EXCEPT ![x] = @ + k] /\ k \in Nat /\ got[x] + k <= 2 * Len(out[x])
  BY <1>1 DEF Receive, Unread
<1>3. got' \in [Conns -> Nat] /\ got'[x] = got[x] + k /\ \A d \in Conns \ {x} : got'[d] = got[d]
  BY <1>1, <1>2
<1>4. ASSUME NEW d \in Conns
      PROVE  /\ got'[d] <= 2 * Len(out[d]) /\ (d > sock => got'[d] = got[d])
             /\ got[d] \in Nat /\ got'[d] \in Nat /\ got[d] <= got'[d]
  <2>1. got[d] <= 2 * Len(out[d]) /\ got[d] \in Nat
    BY TypedParts DEF Limits
  <2>2. CASE d = x
    BY <1>1, <1>2, <1>3, <2>1, <2>2
  <2>3. CASE d # x
    BY <1>3, <2>1, <2>3
  <2> QED BY <2>2, <2>3
<1> QED BY <1>2, <1>3, <1>4

LEMMA MainReceiveTypes == TInv /\ MainReceive => TInv'
<1> SUFFICES ASSUME TInv, MainReceive PROVE TInv'
  OBVIOUS
<1>1. sock \in Conns /\ fd = sock /\ sock <= sock
  BY TypedParts DEF MainReceive, TInv, Connected
<1>2. PICK k \in 1..Unread(sock) : Receive(sock, k) /\ lineBuf' = lineBuf \o Following(sock, k)
  BY DEF MainReceive
<1>3. UNCHANGED <<main, asked, who, sock, fd, recvVars, shown, req, serverVars>>
  BY DEF MainReceive
<1>4. /\ k \in Nat /\ got' \in [Conns -> Nat]
      /\ \A d \in Conns : got'[d] <= 2 * Len(out[d]) /\ (d > sock => got'[d] = got[d])
  BY <1>1, <1>2, ReceiveLimits
<1>5. lineBuf' \in Seq(Halves)
  BY <1>1, <1>2, <1>4, TypedParts, ReceivedBehind
<1>6. Typed'
  BY <1>3, <1>4, <1>5, TypedParts DEF Typed, recvVars, serverVars
<1>7. Connected'
  BY <1>3 DEF TInv, Connected, recvVars
<1>8. ASSUME NEW d \in Conns PROVE Limits(d)'
  <2>1. Limits(d)
    BY TypedParts
  <2> QED BY <1>3, <1>4, <2>1 DEF Limits, Fresh, recvVars, serverVars
<1> QED BY <1>6, <1>7, <1>8 DEF TInv
LEMMA ReceiverCallTypes ==
  ASSUME TInv, NEW c \in Conns, ReceiverCall(c)
  PROVE  TInv'
<1> USE StreamAssumption
<1>1. PICK step \in ThreadSteps : step = IF fd = 0 THEN "ended" ELSE "blocked"
  BY DEF ThreadSteps
<1>2. /\ rpc[c] = "call" /\ rpc' = [rpc EXCEPT ![c] = step] /\ on' = [on EXCEPT ![c] = fd]
      /\ UNCHANGED <<mainVars, rbuf, shown, got, req, serverVars>>
  BY <1>1 DEF ReceiverCall
<1>3. rpc \in [Conns -> ThreadSteps] /\ on \in [Conns -> 0..MaxConns] /\ fd \in 0..MaxConns /\ fd <= sock
  BY TypedParts
<1>4. /\ rpc' \in [Conns -> ThreadSteps] /\ on' \in [Conns -> 0..MaxConns]
      /\ rpc'[c] = step /\ on'[c] = fd
      /\ \A d \in Conns \ {c} : rpc'[d] = rpc[d] /\ on'[d] = on[d]
  BY <1>2, <1>3
<1>5. Typed'
  BY <1>2, <1>4, TypedParts DEF Typed, mainVars, serverVars
<1>6. Connected'
  <2>1. main \in {"choose", "await"} => c # sock
    BY <1>2 DEF TInv, Connected
  <2> QED BY <1>2, <1>4, <2>1 DEF TInv, Connected, mainVars
<1>7. ASSUME NEW d \in Conns PROVE Limits(d)'
  <2>1. Limits(d)
    BY TypedParts
  <2>2. CASE d # c
    BY <1>2, <1>4, <2>1, <2>2 DEF Limits, Fresh, mainVars, serverVars
  <2>3. CASE d = c
    <3>1. ~(c > sock)
      BY <1>2, <2>1, <2>3 DEF Limits, Fresh
    <3>2. (step = "blocked" <=> fd # 0) /\ step # "none"
      BY <1>1
    <3> QED BY <1>2, <1>3, <1>4, <2>1, <2>3, <3>1, <3>2 DEF Limits, mainVars, serverVars
  <2> QED BY <2>2, <2>3
<1> QED BY <1>5, <1>6, <1>7 DEF TInv

\* A thread inside recv reads an open connection.
LEMMA ReceiverDataEffect ==
  ASSUME TInv, NEW c \in Conns, ReceiverData(c)
  PROVE  /\ rpc[c] = "blocked" /\ on[c] \in Conns /\ on[c] <= sock /\ c <= sock
         /\ \E k \in 1..Unread(on[c]) :
              Receive(on[c], k) /\ rbuf' = [rbuf EXCEPT ![c] = @ \o Following(on[c], k)]
         /\ rpc' = [rpc EXCEPT ![c] = "split"] /\ on' = [on EXCEPT ![c] = 0]
         /\ UNCHANGED <<mainVars, shown, req, serverVars>>
<1>1. /\ rpc[c] = "blocked"
      /\ \E k \in 1..Unread(on[c]) :
           Receive(on[c], k) /\ rbuf' = [rbuf EXCEPT ![c] = @ \o Following(on[c], k)]
      /\ rpc' = [rpc EXCEPT ![c] = "split"] /\ on' = [on EXCEPT ![c] = 0]
      /\ UNCHANGED <<mainVars, shown, req, serverVars>>
  BY DEF ReceiverData
<1>2. Limits(c) /\ on[c] \in 0..MaxConns /\ sock \in 0..MaxConns /\ c \in Nat
  BY TypedParts DEF Conns
<1>3. on[c] \in Conns /\ on[c] <= sock
  BY <1>1, <1>2 DEF Limits, Conns
<1>4. c <= sock
  <2>1. ~(c > sock)
    BY <1>1, <1>2 DEF Limits, Fresh
  <2> QED BY <1>2, <2>1
<1> QED BY <1>1, <1>3, <1>4, Zenon

LEMMA ReceiverDataTypes ==
  ASSUME TInv, NEW c \in Conns, ReceiverData(c)
  PROVE  TInv'
<1> USE StreamAssumption
<1>1. /\ rpc[c] = "blocked" /\ on[c] \in Conns /\ on[c] <= sock /\ c <= sock
      /\ rpc' = [rpc EXCEPT ![c] = "split"] /\ on' = [on EXCEPT ![c] = 0]
      /\ UNCHANGED <<mainVars, shown, req, serverVars>>
  BY ReceiverDataEffect
<1>2. PICK k \in 1..Unread(on[c]) :
        Receive(on[c], k) /\ rbuf' = [rbuf EXCEPT ![c] = @ \o Following(on[c], k)]
  BY ReceiverDataEffect
<1>3. /\ k \in Nat /\ got' \in [Conns -> Nat]
      /\ \A d \in Conns : got'[d] <= 2 * Len(out[d]) /\ (d > sock => got'[d] = got[d])
  BY <1>1, <1>2, ReceiveLimits
<1>4. rpc \in [Conns -> ThreadSteps] /\ on \in [Conns -> 0..MaxConns] /\ rbuf \in [Conns -> Seq(Halves)]
  BY TypedParts
<1>5. rbuf[c] \o Following(on[c], k) \in Seq(Halves)
  BY <1>1, <1>3, <1>4, TypedParts, ReceivedBehind
<1>6. /\ rpc' \in [Conns -> ThreadSteps] /\ on' \in [Conns -> 0..MaxConns] /\ rbuf' \in [Conns -> Seq(Halves)]
      /\ rpc'[c] = "split" /\ on'[c] = 0
      /\ \A d \in Conns \ {c} : rpc'[d] = rpc[d] /\ on'[d] = on[d] /\ rbuf'[d] = rbuf[d]
  BY <1>1, <1>2, <1>4, <1>5 DEF ThreadSteps
<1>7. Typed'
  BY <1>1, <1>3, <1>6, TypedParts DEF Typed, mainVars, serverVars
<1>8. Connected'
  <2>1. main \in {"choose", "await"} => c # sock
    BY <1>1 DEF TInv, Connected
  <2> QED BY <1>1, <1>6, <2>1 DEF TInv, Connected, mainVars
<1>9. ASSUME NEW d \in Conns PROVE Limits(d)'
  <2>1. Limits(d) /\ sock \in Nat
    BY TypedParts
  <2>2. CASE d # c
    BY <1>1, <1>3, <1>6, <2>1, <2>2 DEF Limits, Fresh, mainVars, serverVars
  <2>3. CASE d = c
    <3>1. ~(c > sock)
      BY <1>1, <2>1 DEF Conns
    <3> QED BY <1>1, <1>3, <1>6, <2>1, <2>3, <3>1 DEF Limits, mainVars, serverVars
  <2> QED BY <2>2, <2>3
<1> QED BY <1>7, <1>8, <1>9 DEF TInv

LEMMA ReceiverEndTypes ==
  ASSUME TInv, NEW c \in Conns, ReceiverEnd(c)
  PROVE  TInv'
<1> USE StreamAssumption
<1>1. /\ rpc[c] = "blocked" /\ rpc' = [rpc EXCEPT ![c] = "ended"] /\ on' = [on EXCEPT ![c] = 0]
      /\ UNCHANGED <<mainVars, rbuf, shown, got, req, serverVars>>
  BY DEF ReceiverEnd
<1>2. rpc \in [Conns -> ThreadSteps] /\ on \in [Conns -> 0..MaxConns] /\ sock \in Nat
  BY TypedParts
<1>3. /\ rpc' \in [Conns -> ThreadSteps] /\ on' \in [Conns -> 0..MaxConns]
      /\ rpc'[c] = "ended" /\ on'[c] = 0
      /\ \A d \in Conns \ {c} : rpc'[d] = rpc[d] /\ on'[d] = on[d]
  BY <1>1, <1>2 DEF ThreadSteps
<1>4. Typed'
  BY <1>1, <1>3, TypedParts DEF Typed, mainVars, serverVars
<1>5. Connected'
  <2>1. main \in {"choose", "await"} => c # sock
    BY <1>1 DEF TInv, Connected
  <2> QED BY <1>1, <1>3, <2>1 DEF TInv, Connected, mainVars
<1>6. ASSUME NEW d \in Conns PROVE Limits(d)'
  <2>1. Limits(d)
    BY TypedParts
  <2>2. CASE d # c
    BY <1>1, <1>3, <2>1, <2>2 DEF Limits, Fresh, mainVars, serverVars
  <2>3. CASE d = c
    <3>1. ~(c > sock)
      BY <1>1, <2>1, <2>3 DEF Limits, Fresh
    <3> QED BY <1>1, <1>2, <1>3, <2>1, <2>3, <3>1 DEF Limits, mainVars, serverVars
  <2> QED BY <2>2, <2>3
<1> QED BY <1>4, <1>5, <1>6 DEF TInv

LEMMA ReceiverLineEffect ==
  ASSUME TInv, NEW c \in Conns, ReceiverLine(c)
  PROVE  /\ rpc[c] = "split" /\ main # "exit"
         /\ UNCHANGED <<mainVars, on, got, req, serverVars>>
         /\ \/ /\ HasLine(rbuf[c]) /\ rbuf' = [rbuf EXCEPT ![c] = Rest(rbuf[c])]
               /\ Printed(rbuf[c]) /\ rpc' = rpc
            \/ /\ ~HasLine(rbuf[c]) /\ rpc' = [rpc EXCEPT ![c] = "call"]
               /\ rbuf' = rbuf /\ shown' = shown
<1>1. CASE HasLine(rbuf[c])
  <2>1. /\ rbuf' = [rbuf EXCEPT ![c] = Rest(rbuf[c])] /\ rpc' = rpc
        /\ IF Parses(rbuf[c]) THEN Show(FirstLine(rbuf[c])) ELSE UNCHANGED shown
    BY <1>1 DEF ReceiverLine
  <2>2. Printed(rbuf[c])
    BY <2>1 DEF Printed, Show
  <2> QED BY <1>1, <2>1, <2>2 DEF ReceiverLine, Running
<1>2. CASE ~HasLine(rbuf[c])
  BY <1>2 DEF ReceiverLine, Running
<1> QED BY <1>1, <1>2

LEMMA ReceiverLineTypes ==
  ASSUME TInv, NEW c \in Conns, ReceiverLine(c)
  PROVE  TInv'
<1> USE StreamAssumption
<1>1. /\ rpc[c] = "split" /\ UNCHANGED <<mainVars, on, got, req, serverVars>>
      /\ \/ /\ HasLine(rbuf[c]) /\ rbuf' = [rbuf EXCEPT ![c] = Rest(rbuf[c])]
            /\ Printed(rbuf[c]) /\ rpc' = rpc
         \/ /\ ~HasLine(rbuf[c]) /\ rpc' = [rpc EXCEPT ![c] = "call"]
            /\ rbuf' = rbuf /\ shown' = shown
  BY ReceiverLineEffect
<1>2. rpc \in [Conns -> ThreadSteps] /\ rbuf \in [Conns -> Seq(Halves)] /\ rbuf[c] \in Seq(Halves)
  BY TypedParts
<1>3. rbuf' \in [Conns -> Seq(Halves)] /\ shown' \in Seq(Halves)
  <2>1. CASE HasLine(rbuf[c]) /\ rbuf' = [rbuf EXCEPT ![c] = Rest(rbuf[c])] /\ Printed(rbuf[c])
    <3>1. Rest(rbuf[c]) \in Seq(Halves) /\ shown' \in Seq(Halves)
      BY <1>2, <2>1, RestIsSuffix, PrintedType
    <3> QED BY <1>2, <2>1, <3>1
  <2>2. CASE rbuf' = rbuf /\ shown' = shown
    BY <1>2, <2>2, TypedParts
  <2> QED BY <1>1, <2>1, <2>2
<1>4. /\ rpc' \in [Conns -> ThreadSteps] /\ rpc'[c] \in {"split", "call"}
      /\ \A d \in Conns \ {c} : rpc'[d] = rpc[d] /\ rbuf'[d] = rbuf[d]
  BY <1>1, <1>2 DEF ThreadSteps
<1>5. Typed'
  BY <1>1, <1>3, <1>4, TypedParts DEF Typed, mainVars, serverVars
<1>6. Connected'
  <2>1. main \in {"choose", "await"} => c # sock
    BY <1>1 DEF TInv, Connected
  <2> QED BY <1>1, <1>4, <2>1 DEF TInv, Connected, mainVars
<1>7. ASSUME NEW d \in Conns PROVE Limits(d)'
  <2>1. Limits(d)
    BY TypedParts
  <2>2. CASE d # c
    BY <1>1, <1>4, <2>1, <2>2 DEF Limits, Fresh, mainVars, serverVars
  <2>3. CASE d = c
    <3>1. ~(c > sock)
      BY <1>1, <2>1, <2>3 DEF Limits, Fresh
    <3> QED BY <1>1, <1>4, <2>1, <2>3, <3>1 DEF Limits, mainVars, serverVars
  <2> QED BY <2>2, <2>3
<1> QED BY <1>5, <1>6, <1>7 DEF TInv

LEMMA TypesStep == TInv /\ [Next]_vars => TInv'
<1> SUFFICES ASSUME TInv, [Next]_vars PROVE TInv'
  OBVIOUS
<1>1. CASE Connect
  BY <1>1, ConnectTypes
<1>2. CASE Send
  BY <1>2, SendTypes
<1>3. CASE Logout \/ Quit \/ MainEnd
  BY <1>3, LeaveTypes
<1>4. CASE (\E u \in Users : Ask("login", u)) \/ Ask("reg", None)
  BY <1>4, AskTypes
<1>5. CASE MainReceive
  BY <1>5, MainReceiveTypes
<1>6. CASE MainLine
  BY <1>6, MainLineTypes
<1>7. ASSUME NEW c \in Conns, ReceiverStep(c) PROVE TInv'
  BY <1>7, ReceiverCallTypes, ReceiverDataTypes, ReceiverEndTypes, ReceiverLineTypes DEF ReceiverStep
<1>8. ASSUME NEW c \in Conns, ServerStep(c) \/ ServerChat(c) \/ Kick(c) PROVE TInv'
  <2>1. ServerEffect(c)
    BY <1>8, ServerSteps DEF ServerStep
  <2> QED BY <2>1, ServerTypes
<1>9. CASE UNCHANGED vars
  BY <1>9 DEF TInv, Typed, Connected, Limits, Fresh, vars, mainVars, recvVars, serverVars
<1> QED BY <1>1, <1>2, <1>3, <1>4, <1>5, <1>6, <1>7, <1>8, <1>9 DEF Next, MainStep

LEMMA SpecTypes == Spec => []TInv
<1>1. Init => TInv
  BY InitTypes
<1>2. TInv /\ [Next]_vars => TInv'
  BY TypesStep
<1> QED BY <1>1, <1>2, PTL DEF Spec

\* Every variable keeps its type; and a receiver thread inside recv reads an
\* open connection, whatever was closed and opened meanwhile.
THEOREM ClientTypeOK == Spec => []TypeOK
<1>1. TInv => TypeOK
  BY TInvGivesTypeOK
<1> QED BY <1>1, SpecTypes, PTL

-----------------------------------------------------------------------------
(* Every half is received once and shown once                              *)

LEMMA BufsParts ==
  ASSUME TInv
  PROVE  /\ BuffersType(Bufs) /\ Buffers = {0} \cup Conns /\ 0 \notin Conns
         /\ Bufs[0] = lineBuf /\ \A c \in Conns : Bufs[c] = rbuf[c]
         /\ got \in [Conns -> Nat] /\ shown \in Seq(Halves) /\ sock \in 0..MaxConns
<1> USE StreamAssumption
<1>1. Buffers = {0} \cup Conns /\ 0 \notin Conns
  BY DEF Buffers, Conns
<1>2. /\ lineBuf \in Seq(Halves) /\ rbuf \in [Conns -> Seq(Halves)]
      /\ got \in [Conns -> Nat] /\ shown \in Seq(Halves) /\ sock \in 0..MaxConns
  BY TypedParts
<1>3. Bufs[0] = lineBuf /\ \A c \in Conns : Bufs[c] = rbuf[c]
  BY <1>1 DEF Bufs
<1>4. BuffersType(Bufs)
  BY <1>1, <1>2 DEF Bufs, BuffersType
<1> QED BY <1>1, <1>2, <1>3, <1>4

LEMMA NextBufsParts ==
  ASSUME TInv'
  PROVE  /\ BuffersType(Bufs')
         /\ Bufs'[0] = lineBuf' /\ \A c \in Conns : Bufs'[c] = rbuf'[c]
         /\ got' \in [Conns -> Nat] /\ shown' \in Seq(Halves) /\ sock' \in 0..MaxConns
<1> USE StreamAssumption
<1>1. Buffers = {0} \cup Conns /\ 0 \notin Conns
  BY DEF Buffers, Conns
<1>2. /\ lineBuf' \in Seq(Halves) /\ rbuf' \in [Conns -> Seq(Halves)]
      /\ got' \in [Conns -> Nat] /\ shown' \in Seq(Halves) /\ sock' \in 0..MaxConns
  BY DEF TInv, Typed
<1>3. Bufs' = [d \in Buffers |-> IF d = 0 THEN lineBuf' ELSE rbuf'[d]]
  BY DEF Bufs
<1>4. Bufs'[0] = lineBuf' /\ \A c \in Conns : Bufs'[c] = rbuf'[c]
  BY <1>1, <1>3
<1>5. BuffersType(Bufs')
  BY <1>1, <1>2, <1>3 DEF BuffersType
<1> QED BY <1>1, <1>2, <1>4, <1>5

LEMMA ReceiveStep ==
  ASSUME TInv, TInv', StreamsOK,
         NEW d \in Buffers, NEW x \in Conns, x <= sock, NEW k \in 1..Unread(x), Receive(x, k),
         Bufs'[d] = Bufs[d] \o Following(x, k),
         \A e \in Buffers \ {d} : Bufs'[e] = Bufs[e],
         sock' = sock, shown' = shown
  PROVE  StreamsOK'
<1>1. /\ BuffersType(Bufs) /\ BuffersType(Bufs') /\ got \in [Conns -> Nat]
      /\ shown \in Seq(Halves) /\ sock \in 0..MaxConns
  BY BufsParts, NextBufsParts
<1>2. k \in Nat /\ got' = [got EXCEPT ![x] = @ + k] /\ x \in 1..sock /\ got[x] \in Nat
  BY <1>1, ReceiveLimits DEF Conns
<1>3. Bufs[d] \in Seq(Halves)
  BY <1>1 DEF BuffersType
<1>4. Extends(Bufs, Bufs', got, d, x, k)
  <2>1. /\ Len(Bufs[d] \o Following(x, k)) = Len(Bufs[d]) + k
        /\ \A i \in 1..(Len(Bufs[d]) + k) : (Bufs[d] \o Following(x, k))[i] =
             IF i <= Len(Bufs[d]) THEN Bufs[d][i] ELSE <<x, got[x] + (i - Len(Bufs[d]))>>
    BY <1>2, <1>3, ReceivedBehind
  <2> QED BY <2>1, Zenon DEF Extends
<1>5. Streams(Bufs', [got EXCEPT ![x] = @ + k], shown, sock)
  BY <1>1, <1>2, <1>4, StreamsReceive DEF StreamsOK
<1> QED BY <1>2, <1>5 DEF StreamsOK

LEMMA RestShortens ==
  ASSUME NEW B, NEW C, BuffersType(B), NEW d \in Buffers, HasLine(B[d]), C[d] = Rest(B[d]),
         \A e \in Buffers \ {d} : C[e] = B[e]
  PROVE  LineEnd(B[d]) \in 1..Len(B[d]) /\ Shortens(B, C, d, LineEnd(B[d]))
<1>1. B[d] \in Seq(Halves)
  BY DEF BuffersType
<1>2. /\ LineEnd(B[d]) \in 1..Len(B[d])
      /\ Len(Rest(B[d])) = Len(B[d]) - LineEnd(B[d])
      /\ \A i \in 1..Len(Rest(B[d])) : Rest(B[d])[i] = B[d][LineEnd(B[d]) + i]
  BY <1>1, RestIsSuffix
<1> QED BY <1>2 DEF Shortens

LEMMA TakeStep ==
  ASSUME TInv, TInv', StreamsOK,
         NEW d \in Buffers, HasLine(Bufs[d]), Bufs'[d] = Rest(Bufs[d]), Printed(Bufs[d]),
         \A e \in Buffers \ {d} : Bufs'[e] = Bufs[e],
         sock' = sock, got' = got
  PROVE  StreamsOK'
<1>1. /\ BuffersType(Bufs) /\ BuffersType(Bufs') /\ got \in [Conns -> Nat]
      /\ shown \in Seq(Halves) /\ sock \in 0..MaxConns
  BY BufsParts, NextBufsParts
<1>2. Bufs[d] \in Seq(Halves)
  BY <1>1 DEF BuffersType
<1>3. LineEnd(Bufs[d]) \in 1..Len(Bufs[d]) /\ Shortens(Bufs, Bufs', d, LineEnd(Bufs[d]))
  BY <1>1, RestShortens
<1>4. CASE shown' = shown
  BY <1>1, <1>3, <1>4, StreamsTake DEF StreamsOK
<1>5. CASE Parses(Bufs[d]) /\ shown' = Append(shown, FirstLine(Bufs[d]))
  <2>1. /\ LineEnd(Bufs[d]) = 2 /\ Bufs[d][2][2] % 2 = 0
        /\ FirstLine(Bufs[d]) = LineAt(Bufs[d][2])
    BY <1>2, <1>5, FirstLineHalf
  <2>2. Streams(Bufs', got, Append(shown, LineAt(Bufs[d][2])), sock)
    BY <1>1, <1>3, <2>1, StreamsShow DEF StreamsOK
  <2> QED BY <1>5, <2>1, <2>2 DEF StreamsOK
<1> QED BY <1>4, <1>5 DEF Printed

LEMMA InitStreams == Init => StreamsOK
<1> SUFFICES ASSUME Init PROVE StreamsOK
  OBVIOUS
<1>1. BuffersType(Bufs) /\ Bufs[0] = lineBuf /\ (\A c \in Conns : Bufs[c] = rbuf[c]) /\ Buffers = {0} \cup Conns
  BY InitTypes, BufsParts
<1>2. \A d \in Buffers : Bufs[d] = <<>>
  BY <1>1 DEF Init
<1>3. \A d \in Buffers : DOMAIN Bufs[d] = {}
  <2> SUFFICES ASSUME NEW d \in Buffers PROVE DOMAIN Bufs[d] = {}
    OBVIOUS
  <2>1. DOMAIN Bufs[d] = 1..Len(Bufs[d]) /\ Len(Bufs[d]) = 0
    BY <1>1, <1>2, BufferHalves, EmptySeq
  <2> QED BY <2>1
<1>4. DOMAIN shown = {}
  <2>1. shown \in Seq(Halves) /\ shown = <<>>
    BY InitTypes, BufsParts DEF Init
  <2>2. DOMAIN shown = 1..Len(shown) /\ Len(shown) = 0
    BY <2>1, LenProperties, EmptySeq
  <2> QED BY <2>2
<1>5. Received(Bufs, got, sock) /\ InOrder(Bufs)
  BY <1>3 DEF Received, InOrder
<1>6. Apart(Bufs) /\ Gone(Bufs, got, shown, sock) /\ Distinct(shown)
  BY <1>3, <1>4 DEF Apart, Gone, Distinct
<1> QED BY <1>5, <1>6 DEF StreamsOK, Streams

\* A connection more.
LEMMA ConnectStreams == TInv /\ StreamsOK /\ Connect => StreamsOK'
<1> SUFFICES ASSUME TInv, StreamsOK, Connect PROVE StreamsOK'
  OBVIOUS
<1>1. UNCHANGED <<lineBuf, rbuf, got, shown>> /\ sock' = sock + 1 /\ sock \in Nat
  BY TypedParts DEF Connect, recvVars
<1>2. Bufs' = Bufs
  BY <1>1 DEF Bufs
<1>3. 1..sock \subseteq 1..(sock + 1)
  BY <1>1
<1>4. Received(Bufs, got, sock) /\ Gone(Bufs, got, shown, sock)
  BY DEF StreamsOK, Streams
<1>5. Received(Bufs, got, sock + 1)
  BY <1>3, <1>4 DEF Received
<1>6. Gone(Bufs, got, shown, sock + 1)
  BY <1>3, <1>4 DEF Gone
<1>7. Streams(Bufs, got, shown, sock + 1)
  BY <1>5, <1>6 DEF StreamsOK, Streams
<1> QED BY <1>1, <1>2, <1>7 DEF StreamsOK

LEMMA StreamsStep == TInv /\ TInv' /\ StreamsOK /\ [Next]_vars => StreamsOK'
<1> SUFFICES ASSUME TInv, TInv', StreamsOK, [Next]_vars PROVE StreamsOK'
  OBVIOUS
<1>0. /\ Bufs[0] = lineBuf /\ (\A c \in Conns : Bufs[c] = rbuf[c])
      /\ Bufs'[0] = lineBuf' /\ (\A c \in Conns : Bufs'[c] = rbuf'[c])
      /\ Buffers = {0} \cup Conns /\ 0 \notin Conns
  BY BufsParts, NextBufsParts
<1>1. CASE Connect
  BY <1>1, ConnectStreams
<1>2. CASE UNCHANGED <<lineBuf, rbuf, got, shown, sock>>
  <2>1. Bufs' = Bufs
    BY <1>2 DEF Bufs
  <2> QED BY <1>2, <2>1 DEF StreamsOK
<1>3. CASE MainReceive
  <2>1. PICK k \in 1..Unread(sock) : Receive(sock, k) /\ lineBuf' = lineBuf \o Following(sock, k)
    BY <1>3 DEF MainReceive
  <2>2. sock' = sock /\ shown' = shown /\ rbuf' = rbuf /\ sock \in Conns /\ sock <= sock
    BY <1>3, TypedParts DEF MainReceive, recvVars, TInv, Connected
  <2>3. Bufs'[0] = Bufs[0] \o Following(sock, k) /\ \A e \in Buffers \ {0} : Bufs'[e] = Bufs[e]
    BY <1>0, <2>1, <2>2
  <2> QED BY <1>0, <2>1, <2>2, <2>3, ReceiveStep
<1>4. CASE MainLine
  <2>1. /\ HasLine(lineBuf) /\ lineBuf' = Rest(lineBuf) /\ Printed(lineBuf)
        /\ sock' = sock /\ got' = got /\ rbuf' = rbuf
    BY <1>4, MainLineEffect
  <2>2. /\ HasLine(Bufs[0]) /\ Bufs'[0] = Rest(Bufs[0]) /\ Printed(Bufs[0])
        /\ \A e \in Buffers \ {0} : Bufs'[e] = Bufs[e]
    BY <1>0, <2>1
  <2> QED BY <1>0, <2>1, <2>2, TakeStep
<1>5. ASSUME NEW c \in Conns, ReceiverData(c) PROVE StreamsOK'
  <2>1. /\ on[c] \in Conns /\ on[c] <= sock
        /\ \E k \in 1..Unread(on[c]) :
             Receive(on[c], k) /\ rbuf' = [rbuf EXCEPT ![c] = @ \o Following(on[c], k)]
        /\ UNCHANGED <<mainVars, shown, req, serverVars>>
    BY <1>5, ReceiverDataEffect
  <2>2. PICK k \in 1..Unread(on[c]) :
          Receive(on[c], k) /\ rbuf' = [rbuf EXCEPT ![c] = @ \o Following(on[c], k)]
    BY <2>1
  <2>3. rbuf'[c] = rbuf[c] \o Following(on[c], k) /\ \A e \in Conns \ {c} : rbuf'[e] = rbuf[e]
    BY <2>2, TypedParts
  <2>4. sock' = sock /\ shown' = shown /\ lineBuf' = lineBuf
    BY <2>1 DEF mainVars
  <2>5. Bufs'[c] = Bufs[c] \o Following(on[c], k) /\ \A e \in Buffers \ {c} : Bufs'[e] = Bufs[e]
    BY <1>0, <2>3, <2>4
  <2> QED BY <1>0, <2>1, <2>2, <2>4, <2>5, ReceiveStep
<1>6. ASSUME NEW c \in Conns, ReceiverLine(c) PROVE StreamsOK'
  <2>1. /\ UNCHANGED <<sock, lineBuf, got>>
        /\ \/ /\ HasLine(rbuf[c]) /\ rbuf' = [rbuf EXCEPT ![c] = Rest(rbuf[c])]
              /\ Printed(rbuf[c])
           \/ rbuf' = rbuf /\ shown' = shown
    BY <1>6, ReceiverLineEffect DEF mainVars
  <2>2. CASE rbuf' = rbuf /\ shown' = shown
    BY <1>2, <2>1, <2>2
  <2>3. CASE /\ HasLine(rbuf[c]) /\ rbuf' = [rbuf EXCEPT ![c] = Rest(rbuf[c])]
             /\ Printed(rbuf[c])
    <3>1. rbuf'[c] = Rest(rbuf[c]) /\ \A e \in Conns \ {c} : rbuf'[e] = rbuf[e]
      BY <2>3, TypedParts
    <3>2. /\ HasLine(Bufs[c]) /\ Bufs'[c] = Rest(Bufs[c]) /\ Printed(Bufs[c])
          /\ \A e \in Buffers \ {c} : Bufs'[e] = Bufs[e]
      BY <1>0, <2>1, <2>3, <3>1
    <3> QED BY <1>0, <2>1, <3>2, TakeStep
  <2> QED BY <2>1, <2>2, <2>3
<1>7. CASE \/ Send \/ Logout \/ Quit \/ MainEnd \/ (\E u \in Users : Ask("login", u)) \/ Ask("reg", None)
           \/ UNCHANGED vars
  BY <1>2, <1>7 DEF Send, Logout, Quit, MainEnd, Ask, vars, mainVars, recvVars, serverVars
<1>8. ASSUME NEW c \in Conns, ReceiverCall(c) \/ ReceiverEnd(c) PROVE StreamsOK'
  BY <1>2, <1>8 DEF ReceiverCall, ReceiverEnd, mainVars, serverVars
<1>9. ASSUME NEW c \in Conns, ServerStep(c) \/ ServerChat(c) \/ Kick(c) PROVE StreamsOK'
  BY <1>2, <1>9, ServerSteps DEF ServerStep, ServerEffect, mainVars, recvVars
<1> QED BY <1>1, <1>3, <1>4, <1>5, <1>6, <1>7, <1>8, <1>9 DEF Next, MainStep, ReceiverStep

-----------------------------------------------------------------------------
(* Order before any logout                                                 *)

LEMMA WindowLine ==
  ASSUME NEW buf \in Seq(Halves), NEW from \in Nat, Window(buf, from), HasLine(buf)
  PROVE  /\ from % 2 = 0 => /\ LineEnd(buf) = 2 /\ 2 \in 1..Len(buf) /\ Parses(buf)
                            /\ FirstLine(buf) = <<1, from \div 2 + 1>>
         /\ from % 2 = 1 => LineEnd(buf) = 1 /\ 1 \in 1..Len(buf) /\ ~Parses(buf)
<1>1. PICK e : e = LineEnd(buf)
  OBVIOUS
<1>2. /\ e \in 1..Len(buf) /\ buf[e][2] % 2 = 0
      /\ \A j \in 1..Len(buf) : buf[j][2] % 2 = 0 => e <= j
  BY <1>1, LineEndFirst
<1>3. \A j \in 1..Len(buf) : buf[j] = <<1, from + j>> /\ buf[j][2] = from + j
  BY LenProperties DEF Window
<1>4. Len(buf) \in Nat
  BY LenProperties
<1>5. CASE from % 2 = 0
  <2>1. (from + e) % 2 = 0 /\ (from + 2) % 2 = 0
    BY <1>2, <1>3, <1>5
  <2>2. e # 1
    BY <1>5, <2>1
  <2>3. 2 \in 1..Len(buf) /\ 1 \in 1..Len(buf)
    BY <1>2, <1>4, <2>2
  <2>4. e = 2
    BY <1>2, <1>3, <2>1, <2>2, <2>3
  <2>5. buf[2] = <<1, from + 2>> /\ buf[1] = <<1, from + 1>>
    BY <1>3, <2>3
  <2>6. Parses(buf)
    <3>1. <<buf[2][1], buf[2][2] - 1>> = <<1, from + 1>>
      BY <2>5
    <3> QED BY <1>1, <2>4, <2>5, <3>1 DEF Parses
  <2>7. FirstLine(buf) = <<1, (from + 2) \div 2>>
    BY <2>5 DEF FirstLine, LineAt
  <2>8. (from + 2) \div 2 = from \div 2 + 1
    BY <1>5
  <2> QED BY <1>1, <1>5, <2>3, <2>4, <2>6, <2>7, <2>8
<1>6. CASE from % 2 = 1
  <2>1. 1 \in 1..Len(buf) /\ (from + 1) % 2 = 0
    BY <1>2, <1>4, <1>6
  <2>2. e = 1
    BY <1>2, <1>3, <2>1
  <2> QED BY <1>1, <1>6, <2>1, <2>2 DEF Parses
<1> QED BY <1>5, <1>6

LEMMA WindowReceive ==
  ASSUME NEW buf \in Seq(Halves), NEW from \in Nat, Window(buf, from),
         1 \in Conns, got[1] = from + Len(buf), NEW k \in Nat
  PROVE  Window(buf \o Following(1, k), from)
<1>1. Len(buf) \in Nat /\ DOMAIN buf = 1..Len(buf) /\ got[1] \in Nat
  BY LenProperties
<1>2. /\ buf \o Following(1, k) \in Seq(Halves)
      /\ Len(buf \o Following(1, k)) = Len(buf) + k
      /\ \A i \in 1..(Len(buf) + k) : (buf \o Following(1, k))[i] =
              IF i <= Len(buf) THEN buf[i] ELSE <<1, got[1] + (i - Len(buf))>>
  BY <1>1, ReceivedBehind
<1>3. DOMAIN (buf \o Following(1, k)) = 1..(Len(buf) + k)
  BY <1>2, LenProperties
<1>4. ASSUME NEW i \in 1..(Len(buf) + k) PROVE (buf \o Following(1, k))[i] = <<1, from + i>>
  <2>1. CASE i <= Len(buf)
    BY <1>1, <1>2, <2>1 DEF Window
  <2>2. CASE ~(i <= Len(buf))
    <3>1. got[1] + (i - Len(buf)) = from + i
      BY <1>1
    <3> QED BY <1>2, <2>2, <3>1
  <2> QED BY <2>1, <2>2
<1> QED BY <1>3, <1>4 DEF Window

LEMMA WindowRest ==
  ASSUME NEW buf \in Seq(Halves), NEW from \in Nat, Window(buf, from), HasLine(buf)
  PROVE  Window(Rest(buf), from + LineEnd(buf)) /\ Len(Rest(buf)) = Len(buf) - LineEnd(buf)
<1>1. PICK e : e = LineEnd(buf)
  OBVIOUS
<1>2. /\ e \in 1..Len(buf) /\ Rest(buf) \in Seq(Halves) /\ Len(Rest(buf)) = Len(buf) - e
      /\ \A i \in 1..Len(Rest(buf)) : Rest(buf)[i] = buf[e + i]
  BY <1>1, RestIsSuffix
<1>3. DOMAIN Rest(buf) = 1..Len(Rest(buf)) /\ DOMAIN buf = 1..Len(buf) /\ Len(buf) \in Nat
  BY <1>2, LenProperties
<1>4. ASSUME NEW i \in 1..Len(Rest(buf)) PROVE Rest(buf)[i] = <<1, (from + e) + i>>
  <2>1. e + i \in 1..Len(buf) /\ from + (e + i) = (from + e) + i
    BY <1>2, <1>3
  <2> QED BY <1>2, <1>3, <2>1 DEF Window
<1> QED BY <1>1, <1>2, <1>3, <1>4 DEF Window

\* The lines printed so far, when the next ones of 1..b are taken.
LEMMA ShownParts ==
  ASSUME TInv, NEW x \in Halves
  PROVE  /\ DOMAIN shown = 1..Len(shown) /\ Len(shown) \in Nat
         /\ \A k \in DOMAIN shown : shown[k][1] \in Conns /\ shown[k][2] \in Nat
         /\ DOMAIN Append(shown, x) = 1..(Len(shown) + 1)
         /\ \A k \in DOMAIN shown : Append(shown, x)[k] = shown[k]
         /\ Append(shown, x)[Len(shown) + 1] = x
<1>1. shown \in Seq(Halves)
  BY TypedParts
<1>2. DOMAIN shown = 1..Len(shown) /\ Len(shown) \in Nat
  BY <1>1, LenProperties
<1>3. \A k \in DOMAIN shown : shown[k] \in Halves
  BY <1>1, <1>2, ElementOfSeq
<1>4. /\ Append(shown, x) \in Seq(Halves) /\ Len(Append(shown, x)) = Len(shown) + 1
      /\ \A k \in 1..Len(shown) : Append(shown, x)[k] = shown[k]
      /\ Append(shown, x)[Len(shown) + 1] = x
  BY <1>1, AppendProperties
<1>5. DOMAIN Append(shown, x) = 1..(Len(shown) + 1)
  BY <1>4, LenProperties
<1> QED BY <1>2, <1>3, <1>4, <1>5 DEF Halves
LEMMA OneConnection ==
  ASSUME TInv, sock = 1
  PROVE  /\ 1 \in Conns /\ lineBuf \in Seq(Halves) /\ rbuf[1] \in Seq(Halves)
         /\ Len(lineBuf) \in Nat /\ Len(rbuf[1]) \in Nat
         /\ got[1] \in Nat /\ Len(out[1]) \in Nat /\ got[1] <= 2 * Len(out[1])
<1>1. sock \in 0..MaxConns /\ MaxConns \in Nat
  BY TypedParts, StreamAssumption
<1>2. 1 \in Conns
  BY <1>1 DEF Conns
<1>3. /\ lineBuf \in Seq(Halves) /\ rbuf[1] \in Seq(Halves) /\ got[1] \in Nat
      /\ Len(out[1]) \in Nat /\ Limits(1)
  BY <1>2, TypedParts
<1> QED BY <1>2, <1>3, LenProperties DEF Limits

LEMMA OrderFrame ==
  ASSUME TInv, sock = 1, NEW a \in Nat, NEW b \in Nat, Order(a, b),
         lineBuf' = lineBuf, rbuf'[1] = rbuf[1], got'[1] = got[1], shown' = shown,
         Len(out'[1]) \in Nat, \A i \in 1..Len(out[1]) : out'[1][i] = out[1][i],
         main' \in {"choose", "await"} => main \in {"choose", "await"}
  PROVE  Order(a, b)'
<1>1. Placed(a, b)'
  BY DEF Order, Placed, Kept
<1>2. Accounted(a, b)'
  <2>1. \A i \in 1..Len(out'[1]) : 2 * i <= b => i \in 1..Len(out[1])
    <3>1. b <= got[1]
      BY OneConnection DEF Order, Placed
    <3> QED BY <3>1, OneConnection
  <2> QED BY <2>1 DEF Order, Accounted, Kept
<1>3. Ascending(b)' /\ Early(a, b)'
  BY DEF Order, Ascending, Early, Kept
<1> QED BY <1>1, <1>2, <1>3 DEF Order

LEMMA OrderConnect ==
  ASSUME TInv, TInv', StreamsOK, sock = 0, Connect
  PROVE  Order(0, 0)'
<1>1. UNCHANGED <<lineBuf, rbuf, got, shown, out>> /\ sock' = 1
  BY DEF Connect, recvVars
<1>2. 1 \in Conns
  <2>1. sock' \in 0..MaxConns /\ MaxConns \in Nat
    BY StreamAssumption DEF TInv, Typed
  <2> QED BY <1>1, <2>1 DEF Conns
<1>3. Fresh(1)
  BY <1>2, TypedParts DEF Limits
<1>4. DOMAIN lineBuf = {} /\ Len(lineBuf) = 0
  <2>1. lineBuf = Bufs[0] /\ 0 \in Buffers /\ BuffersType(Bufs)
    BY BufsParts
  <2>2. DOMAIN lineBuf = 1..Len(lineBuf) /\ Len(lineBuf) \in Nat
    BY <2>1, BufferHalves
  <2>3. \A i \in DOMAIN lineBuf : lineBuf[i][1] \in 1..0
    BY <2>1 DEF StreamsOK, Streams, Received
  <2>4. DOMAIN lineBuf = {}
    <3>1. \A n : n \notin 1..0
      OBVIOUS
    <3> QED BY <2>3, <3>1, Zenon
  <2> QED BY <2>2, <2>4
<1>5. DOMAIN shown = {}
  <2>1. \A k \in DOMAIN shown : shown[k][1] \in 1..0
    BY DEF StreamsOK, Streams, Gone
  <2>2. \A n : n \notin 1..0
    OBVIOUS
  <2> QED BY <2>1, <2>2, Zenon
<1>6. rbuf[1] = <<>> /\ Len(rbuf[1]) = 0 /\ DOMAIN rbuf[1] = {} /\ got[1] = 0 /\ Len(out[1]) = 0
  <2>1. rbuf[1] = <<>> /\ out[1] = <<>> /\ got[1] = 0
    BY <1>3 DEF Fresh
  <2>2. <<>> \in Seq(Halves) /\ Len(<<>>) = 0
    BY EmptySeq
  <2>3. DOMAIN rbuf[1] = 1..0
    BY <2>1, <2>2, LenProperties
  <2> QED BY <2>1, <2>2, <2>3
<1>7. Placed(0, 0)'
  BY <1>1, <1>4, <1>6 DEF Placed, Kept, Window
<1>8. Accounted(0, 0)'
  BY <1>1, <1>6 DEF Accounted
<1>9. Ascending(0)' /\ Early(0, 0)'
  BY <1>1, <1>4, <1>5, <1>6 DEF Ascending, Early, Kept
<1> QED BY <1>7, <1>8, <1>9 DEF Order

LEMMA OrderMainReceive ==
  ASSUME TInv, TInv', sock = 1, NEW a \in Nat, NEW b \in Nat, Order(a, b), MainReceive
  PROVE  \E e \in Nat : Order(a, e)'
<1>0. /\ 1 \in Conns /\ lineBuf \in Seq(Halves) /\ rbuf[1] \in Seq(Halves)
      /\ Len(lineBuf) \in Nat /\ Len(rbuf[1]) \in Nat /\ got[1] \in Nat
  BY OneConnection
<1>1. PICK k \in 1..Unread(sock) : Receive(sock, k) /\ lineBuf' = lineBuf \o Following(sock, k)
  BY DEF MainReceive
<1>2. /\ main = "await" /\ UNCHANGED <<main, rbuf, shown, out>>
  BY DEF MainReceive, recvVars, serverVars
<1>3. k \in Nat /\ got'[1] = got[1] + k
  BY <1>0, <1>1, ReceiveLimits
<1>4. rbuf[1] = <<>> /\ Len(rbuf[1]) = 0 /\ b = Kept(a) /\ got[1] = b
  <2>1. rbuf[1] = <<>> /\ b = Kept(a) /\ b + Len(rbuf[1]) = got[1]
    BY <1>2 DEF Order, Early, Placed
  <2>2. Len(rbuf[1]) = 0
    BY <2>1, EmptySeq
  <2> QED BY <2>1, <2>2
<1>5. Window(lineBuf', 2 * a) /\ Len(lineBuf') = Len(lineBuf) + k
  <2>1. got[1] = 2 * a + Len(lineBuf) /\ Window(lineBuf, 2 * a)
    BY <1>4 DEF Kept, Order, Placed
  <2>2. Window(lineBuf \o Following(1, k), 2 * a)
    BY <1>0, <1>3, <2>1, WindowReceive
  <2>3. Len(lineBuf \o Following(1, k)) = Len(lineBuf) + k
    BY <1>0, <1>3, ReceivedBehind
  <2> QED BY <1>1, <2>2, <2>3
<1>6. PICK e \in Nat : e = b + k
  BY <1>3
<1>7. Kept(a)' = e
  <2>1. Kept(a) = 2 * a + Len(lineBuf) /\ Kept(a)' = 2 * a + Len(lineBuf')
    BY DEF Kept
  <2> QED BY <1>0, <1>3, <1>4, <1>5, <1>6, <2>1
<1>8. Placed(a, e)'
  <2>1. Window(rbuf[1], e)
    <3>1. DOMAIN rbuf[1] = 1..0
      BY <1>0, <1>4, LenProperties
    <3> QED BY <3>1 DEF Window
  <2>2. e + Len(rbuf'[1]) = got'[1]
    BY <1>2, <1>3, <1>4, <1>6
  <2> QED BY <1>2, <1>5, <1>7, <2>1, <2>2 DEF Placed
<1>9. Accounted(a, e)'
  <2> SUFFICES ASSUME NEW i \in 1..Len(out[1]), 2 * i <= e, out[1][i] = "chat"
               PROVE  (\E l \in DOMAIN shown : shown[l] = <<1, i>>) \/ (a < i /\ 2 * i - 1 <= e)
    BY <1>2, <1>7 DEF Accounted
  <2>1. CASE 2 * i <= b
    <3>1. (\E l \in DOMAIN shown : shown[l] = <<1, i>>) \/ (a < i /\ 2 * i - 1 <= b)
      BY <1>4, <2>1 DEF Order, Accounted
    <3> QED BY <1>3, <1>6, <3>1
  <2>2. CASE ~(2 * i <= b)
    <3>1. b = 2 * a + Len(lineBuf)
      BY <1>4 DEF Kept
    <3> QED BY <1>0, <2>2, <3>1
  <2> QED BY <2>1, <2>2
<1>10. Ascending(e)' /\ Early(a, e)'
  <2>1. \A l \in DOMAIN shown : shown[l][2] \in Nat
    BY TypedParts, LenProperties, ElementOfSeq DEF Halves
  <2>2. \A l \in DOMAIN shown : shown[l][1] = 1 /\ 2 * shown[l][2] <= e
    BY <1>3, <1>6, <2>1 DEF Order, Ascending
  <2>3. Ascending(e)'
    BY <1>2, <2>2 DEF Order, Ascending
  <2>4. Early(a, e)'
    BY <1>2, <1>4, <1>7 DEF Order, Early
  <2> QED BY <2>3, <2>4
<1> QED BY <1>8, <1>9, <1>10 DEF Order
\* Line i is printed after lines before it, or is not a chat line.
LEMMA PrintNext ==
  ASSUME TInv, 1 \in Conns, NEW i \in Nat,
         \A k \in DOMAIN shown : shown[k][1] = 1 /\ shown[k][2] < i,
         \A k, l \in DOMAIN shown : k < l => shown[k][2] < shown[l][2],
         \/ shown' = shown /\ out[1][i] # "chat"
         \/ shown' = Append(shown, <<1, i>>)
  PROVE  /\ \A k \in DOMAIN shown' : shown'[k][1] = 1 /\ shown'[k][2] <= i
         /\ \A k, l \in DOMAIN shown' : k < l => shown'[k][2] < shown'[l][2]
         /\ \A x : (\E k \in DOMAIN shown : shown[k] = x) => \E k \in DOMAIN shown' : shown'[k] = x
         /\ out[1][i] = "chat" => \E k \in DOMAIN shown' : shown'[k] = <<1, i>>
<1>1. <<1, i>> \in Halves
  BY DEF Halves
<1>2. /\ DOMAIN shown = 1..Len(shown) /\ Len(shown) \in Nat
      /\ \A k \in DOMAIN shown : shown[k][2] \in Nat
      /\ DOMAIN Append(shown, <<1, i>>) = 1..(Len(shown) + 1)
      /\ \A k \in DOMAIN shown : Append(shown, <<1, i>>)[k] = shown[k]
      /\ Append(shown, <<1, i>>)[Len(shown) + 1] = <<1, i>>
  BY <1>1, ShownParts
<1>3. CASE shown' = shown /\ out[1][i] # "chat"
  <2>1. \A k \in DOMAIN shown : shown[k][2] <= i
    BY <1>2
  <2> QED BY <1>3, <2>1, Zenon
<1>4. CASE shown' = Append(shown, <<1, i>>)
  <2>1. PICK n \in Nat : n = Len(shown)
    BY <1>2
  <2>2. /\ DOMAIN shown = 1..n /\ DOMAIN shown' = 1..(n + 1)
        /\ \A k \in 1..n : shown'[k] = shown[k]
        /\ shown'[n + 1] = <<1, i>>
    BY <1>2, <1>4, <2>1
  <2>3. shown'[n + 1][1] = 1 /\ shown'[n + 1][2] = i
    BY <2>2
  <2>4. \A k \in 1..(n + 1) : k \in 1..n \/ k = n + 1
    OBVIOUS
  <2>5. \A k \in DOMAIN shown' : shown'[k][1] = 1 /\ shown'[k][2] <= i
    BY <1>2, <2>2, <2>3, <2>4
  <2>6. ASSUME NEW k \in DOMAIN shown', NEW l \in DOMAIN shown', k < l
        PROVE  shown'[k][2] < shown'[l][2]
    <3>1. k \in 1..n
      BY <2>2, <2>6
    <3>2. CASE l \in 1..n
      BY <2>2, <2>6, <3>1, <3>2
    <3>3. CASE l = n + 1
      BY <2>2, <2>3, <3>1, <3>3
    <3> QED BY <2>2, <2>4, <3>2, <3>3
  <2>7. ASSUME NEW x, NEW k \in DOMAIN shown, shown[k] = x
        PROVE  \E l \in DOMAIN shown' : shown'[l] = x
    <3>1. k \in DOMAIN shown' /\ shown'[k] = x
      BY <2>2, <2>7
    <3> QED BY <3>1
  <2>8. \E k \in DOMAIN shown' : shown'[k] = <<1, i>>
    <3>1. n + 1 \in DOMAIN shown'
      BY <2>2
    <3> QED BY <2>2, <3>1
  <2> QED BY <2>5, <2>6, <2>7, <2>8
<1> QED BY <1>3, <1>4

LEMMA OrderMainLine ==
  ASSUME TInv, sock = 1, NEW a \in Nat, NEW b \in Nat, Order(a, b), MainLine
  PROVE  Order(a + 1, b)'
<1>0. /\ 1 \in Conns /\ lineBuf \in Seq(Halves) /\ rbuf[1] \in Seq(Halves)
      /\ Len(lineBuf) \in Nat /\ Len(rbuf[1]) \in Nat /\ got[1] \in Nat
  BY OneConnection
<1>1. /\ main = "await" /\ HasLine(lineBuf) /\ lineBuf' = Rest(lineBuf) /\ Printed(lineBuf)
      /\ UNCHANGED <<rbuf, got, out>>
  BY MainLineEffect DEF serverVars
<1>2. /\ rbuf[1] = <<>> /\ b = Kept(a) /\ Kept(a) = 2 * a + Len(lineBuf)
      /\ \A k \in DOMAIN shown : shown[k][2] <= a
  BY <1>1 DEF Order, Early, Kept
<1>3. /\ LineEnd(lineBuf) = 2 /\ 2 \in 1..Len(lineBuf) /\ Parses(lineBuf)
      /\ FirstLine(lineBuf) = <<1, a + 1>>
  <2>1. PICK from \in Nat : from = 2 * a
    OBVIOUS
  <2>2. from % 2 = 0 /\ from \div 2 = a /\ Window(lineBuf, from)
    BY <2>1 DEF Order, Placed
  <2> QED BY <1>0, <1>1, <2>2, WindowLine
<1>4. Window(lineBuf', 2 * (a + 1)) /\ Len(lineBuf') = Len(lineBuf) - 2
  <2>1. PICK from \in Nat : from = 2 * a
    OBVIOUS
  <2>2. Window(lineBuf, from)
    BY <2>1 DEF Order, Placed
  <2>3. Window(lineBuf', from + 2) /\ Len(lineBuf') = Len(lineBuf) - 2
    BY <1>0, <1>1, <1>3, <2>2, WindowRest
  <2>4. from + 2 = 2 * (a + 1)
    BY <2>1
  <2> QED BY <2>3, <2>4
<1>5. Kept(a + 1)' = b
  <2>1. Kept(a + 1)' = 2 * (a + 1) + Len(lineBuf')
    BY DEF Kept
  <2> QED BY <1>0, <1>2, <1>4, <2>1
<1>6. Placed(a + 1, b)'
  <2>1. b + Len(rbuf[1]) = got[1] /\ Window(rbuf[1], b)
    BY DEF Order, Placed
  <2> QED BY <1>1, <1>4, <1>5, <2>1 DEF Placed
<1>7. /\ \/ shown' = shown /\ out[1][a + 1] # "chat"
         \/ shown' = Append(shown, <<1, a + 1>>)
  <2>1. Kind(FirstLine(lineBuf)) = out[1][a + 1]
    BY <1>3 DEF Kind
  <2> QED BY <1>1, <1>3, <2>1 DEF Printed
<1>8. /\ \A k \in DOMAIN shown' : shown'[k][1] = 1 /\ shown'[k][2] <= a + 1
      /\ \A k, l \in DOMAIN shown' : k < l => shown'[k][2] < shown'[l][2]
      /\ \A x : (\E k \in DOMAIN shown : shown[k] = x) => \E k \in DOMAIN shown' : shown'[k] = x
      /\ out[1][a + 1] = "chat" => \E k \in DOMAIN shown' : shown'[k] = <<1, a + 1>>
  <2>1. \A k \in DOMAIN shown : shown[k][2] \in Nat
    BY TypedParts, LenProperties, ElementOfSeq DEF Halves
  <2>2. \A k \in DOMAIN shown : shown[k][1] = 1 /\ shown[k][2] < a + 1
    BY <1>2, <2>1 DEF Order, Ascending
  <2>3. \A k, l \in DOMAIN shown : k < l => shown[k][2] < shown[l][2]
    BY DEF Order, Ascending
  <2>4. a + 1 \in Nat
    OBVIOUS
  <2> QED BY <1>0, <1>7, <2>2, <2>3, <2>4, PrintNext
<1>9. Accounted(a + 1, b)'
  <2> SUFFICES ASSUME NEW i \in 1..Len(out[1]), 2 * i <= b, out[1][i] = "chat"
               PROVE  (\E l \in DOMAIN shown' : shown'[l] = <<1, i>>) \/ (a + 1 < i /\ 2 * i - 1 <= b)
    BY <1>1, <1>5 DEF Accounted
  <2>1. (\E l \in DOMAIN shown : shown[l] = <<1, i>>) \/ (a < i /\ 2 * i - 1 <= b)
    BY <1>2 DEF Order, Accounted
  <2>2. i = a + 1 \/ (a < i => a + 1 < i)
    OBVIOUS
  <2> QED BY <1>8, <2>1, <2>2
<1>10. Ascending(b)' /\ Early(a + 1, b)'
  <2>1. 2 * (a + 1) <= b
    BY <1>0, <1>2, <1>3
  <2>2. shown' \in Seq(Halves)
    BY <1>0, <1>1, PrintedType
  <2>3. \A k \in DOMAIN shown' : shown'[k][2] \in Nat
    BY <2>2, LenProperties, ElementOfSeq DEF Halves
  <2>4. \A k \in DOMAIN shown' : 2 * shown'[k][2] <= b
    BY <1>8, <2>1, <2>3
  <2>5. Ascending(b)'
    BY <1>8, <2>4 DEF Ascending
  <2>6. Early(a + 1, b)'
    BY <1>1, <1>2, <1>5, <1>8 DEF Early
  <2> QED BY <2>5, <2>6
<1> QED BY <1>6, <1>9, <1>10 DEF Order
LEMMA OrderReceiverData ==
  ASSUME TInv, sock = 1, NEW a \in Nat, NEW b \in Nat, Order(a, b), NEW c \in Conns, ReceiverData(c)
  PROVE  Order(a, b)'
<1>0. /\ 1 \in Conns /\ lineBuf \in Seq(Halves) /\ rbuf[1] \in Seq(Halves)
      /\ Len(lineBuf) \in Nat /\ Len(rbuf[1]) \in Nat /\ got[1] \in Nat
  BY OneConnection
<1>1. /\ rpc[c] = "blocked" /\ on[c] \in Conns /\ on[c] <= sock /\ c <= sock
      /\ \E k \in 1..Unread(on[c]) :
           Receive(on[c], k) /\ rbuf' = [rbuf EXCEPT ![c] = @ \o Following(on[c], k)]
      /\ UNCHANGED <<mainVars, shown, req, serverVars>>
  BY ReceiverDataEffect
<1>2. c = 1 /\ on[c] = 1
  BY <1>1 DEF Conns
<1>3. PICK k \in 1..Unread(1) : Receive(1, k) /\ rbuf' = [rbuf EXCEPT ![1] = @ \o Following(1, k)]
  BY <1>1, <1>2
<1>4. k \in Nat /\ got'[1] = got[1] + k
  BY <1>0, <1>1, <1>2, <1>3, ReceiveLimits
<1>5. UNCHANGED <<main, lineBuf, shown, out>> /\ main \notin {"choose", "await"}
  BY <1>1, <1>2 DEF mainVars, serverVars, TInv, Connected
<1>6. Window(rbuf'[1], b) /\ Len(rbuf'[1]) = Len(rbuf[1]) + k
  <2>1. rbuf'[1] = rbuf[1] \o Following(1, k)
    BY <1>0, <1>3, TypedParts
  <2>2. Window(rbuf[1], b) /\ got[1] = b + Len(rbuf[1])
    BY DEF Order, Placed
  <2>3. Window(rbuf[1] \o Following(1, k), b)
    BY <1>0, <1>4, <2>2, WindowReceive
  <2>4. Len(rbuf[1] \o Following(1, k)) = Len(rbuf[1]) + k
    BY <1>0, <1>4, ReceivedBehind
  <2> QED BY <2>1, <2>3, <2>4
<1>7. Placed(a, b)'
  <2>1. b + Len(rbuf'[1]) = got'[1]
    BY <1>0, <1>4, <1>6 DEF Order, Placed
  <2> QED BY <1>5, <1>6, <2>1 DEF Order, Placed, Kept
<1>8. Accounted(a, b)' /\ Ascending(b)' /\ Early(a, b)'
  BY <1>5 DEF Order, Accounted, Ascending, Early, Kept
<1> QED BY <1>7, <1>8 DEF Order

LEMMA OrderReceiverLine ==
  ASSUME TInv, sock = 1, NEW a \in Nat, NEW b \in Nat, Order(a, b), NEW c \in Conns, ReceiverLine(c)
  PROVE  \E e \in Nat : Order(a, e)'
<1>0. /\ 1 \in Conns /\ lineBuf \in Seq(Halves) /\ rbuf[1] \in Seq(Halves)
      /\ Len(lineBuf) \in Nat /\ Len(rbuf[1]) \in Nat /\ got[1] \in Nat /\ Len(out[1]) \in Nat
  BY OneConnection
<1>1. /\ rpc[c] = "split" /\ UNCHANGED <<main, lineBuf, got, out>>
      /\ \/ /\ HasLine(rbuf[c]) /\ rbuf' = [rbuf EXCEPT ![c] = Rest(rbuf[c])]
            /\ Printed(rbuf[c])
         \/ rbuf' = rbuf /\ shown' = shown
  BY ReceiverLineEffect DEF mainVars, serverVars
<1>2. c = 1 /\ main \notin {"choose", "await"}
  <2>1. ~(c > sock)
    BY <1>1, TypedParts DEF Limits, Fresh
  <2>2. c = 1
    BY <2>1 DEF Conns
  <2> QED BY <1>1, <2>2 DEF TInv, Connected
<1>3. CASE rbuf' = rbuf /\ shown' = shown
  <2>1. Order(a, b)'
    BY <1>0, <1>1, <1>3, OrderFrame
  <2> QED BY <2>1
<1>4. CASE HasLine(rbuf[1]) /\ rbuf' = [rbuf EXCEPT ![1] = Rest(rbuf[1])] /\ Printed(rbuf[1])
  <2>1. rbuf'[1] = Rest(rbuf[1])
    BY <1>0, <1>4, TypedParts
  <2>2. /\ Window(rbuf[1], b) /\ b + Len(rbuf[1]) = got[1] /\ Kept(a) <= b /\ Window(lineBuf, 2 * a)
        /\ b % 2 = 0 \/ b = Kept(a)
    BY DEF Order, Placed
  <2>3. /\ b % 2 = 0 => /\ LineEnd(rbuf[1]) = 2 /\ 2 \in 1..Len(rbuf[1]) /\ Parses(rbuf[1])
                        /\ FirstLine(rbuf[1]) = <<1, b \div 2 + 1>>
        /\ b % 2 = 1 => LineEnd(rbuf[1]) = 1 /\ 1 \in 1..Len(rbuf[1]) /\ ~Parses(rbuf[1])
    BY <1>0, <1>4, <2>2, WindowLine
  <2>4. Window(rbuf'[1], b + LineEnd(rbuf[1])) /\ Len(rbuf'[1]) = Len(rbuf[1]) - LineEnd(rbuf[1])
    BY <1>0, <1>4, <2>1, <2>2, WindowRest
  <2>5. Kept(a)' = Kept(a) /\ Kept(a) = 2 * a + Len(lineBuf) /\ Kept(a) \in Nat
    BY <1>0, <1>1 DEF Kept
  <2>6. ASSUME NEW e \in Nat, NEW n \in 1..2, n = LineEnd(rbuf[1]), e = b + n, e % 2 = 0
        PROVE  Placed(a, e)'
    <3>1. e + Len(rbuf'[1]) = got'[1]
      <4>1. Len(rbuf'[1]) = Len(rbuf[1]) - n
        BY <2>4, <2>6
      <4>2. PICK l \in Nat : l = Len(rbuf[1])
        BY <1>0
      <4>3. (b + n) + (l - n) = b + l
        OBVIOUS
      <4> QED BY <1>1, <2>2, <2>6, <4>1, <4>2, <4>3
    <3>2. Kept(a)' <= e /\ e % 2 = 0
      BY <2>2, <2>5, <2>6
    <3> QED BY <1>1, <2>2, <2>4, <2>6, <3>1, <3>2 DEF Placed
  <2>7. Early(a, b + 2)' /\ Early(a, b + 1)'
    BY <1>1, <1>2 DEF Early
  <2>8. \A l \in DOMAIN shown : shown[l][2] \in Nat
    BY TypedParts, LenProperties, ElementOfSeq DEF Halves
  <2>9. CASE b % 2 = 0
    <3>1. PICK m \in Nat : b = 2 * m /\ m = b \div 2
      BY <2>9
    <3>2. Placed(a, b + 2)'
      <4>1. LineEnd(rbuf[1]) = 2 /\ (b + 2) % 2 = 0
        BY <2>3, <2>9
      <4> QED BY <2>6, <4>1
    <3>3. \/ shown' = shown /\ out[1][m + 1] # "chat"
          \/ shown' = Append(shown, <<1, m + 1>>)
      <4>1. Kind(FirstLine(rbuf[1])) = out[1][m + 1] /\ FirstLine(rbuf[1]) = <<1, m + 1>> /\ Parses(rbuf[1])
        BY <2>3, <2>9, <3>1 DEF Kind
      <4> QED BY <1>4, <4>1 DEF Printed
    <3>4. /\ \A k \in DOMAIN shown' : shown'[k][1] = 1 /\ shown'[k][2] <= m + 1
          /\ \A k, l \in DOMAIN shown' : k < l => shown'[k][2] < shown'[l][2]
          /\ \A x : (\E k \in DOMAIN shown : shown[k] = x) => \E k \in DOMAIN shown' : shown'[k] = x
          /\ out[1][m + 1] = "chat" => \E k \in DOMAIN shown' : shown'[k] = <<1, m + 1>>
      <4>1. \A k \in DOMAIN shown : shown[k][1] = 1 /\ shown[k][2] < m + 1
        BY <2>8, <3>1 DEF Order, Ascending
      <4>2. \A k, l \in DOMAIN shown : k < l => shown[k][2] < shown[l][2]
        BY DEF Order, Ascending
      <4>3. m + 1 \in Nat
        OBVIOUS
      <4> QED BY <1>0, <3>3, <4>1, <4>2, <4>3, PrintNext
    <3>5. Accounted(a, b + 2)'
      <4> SUFFICES ASSUME NEW i \in 1..Len(out[1]), 2 * i <= b + 2, out[1][i] = "chat"
                   PROVE  (\E l \in DOMAIN shown' : shown'[l] = <<1, i>>) \/ (a < i /\ 2 * i - 1 <= Kept(a))
        BY <1>1, <2>5 DEF Accounted
      <4>1. CASE 2 * i <= b
        <5>1. (\E l \in DOMAIN shown : shown[l] = <<1, i>>) \/ (a < i /\ 2 * i - 1 <= Kept(a))
          BY <4>1 DEF Order, Accounted
        <5> QED BY <3>4, <5>1
      <4>2. CASE ~(2 * i <= b)
        <5>1. i = m + 1
          BY <3>1, <4>2
        <5> QED BY <3>4, <5>1
      <4> QED BY <4>1, <4>2
    <3>6. Ascending(b + 2)'
      <4>1. shown' \in Seq(Halves)
        BY <1>0, <1>4, PrintedType
      <4>2. \A k \in DOMAIN shown' : shown'[k][2] \in Nat
        BY <4>1, LenProperties, ElementOfSeq DEF Halves
      <4>3. \A k \in DOMAIN shown' : shown'[k][1] = 1 /\ 2 * shown'[k][2] <= b + 2
        BY <3>1, <3>4, <4>2
      <4> QED BY <3>4, <4>3 DEF Ascending
    <3> QED BY <2>7, <3>2, <3>5, <3>6 DEF Order
  <2>10. CASE b % 2 = 1
    <3>1. PICK m \in Nat : b = 2 * m + 1
      BY <2>10
    <3>2. Placed(a, b + 1)' /\ shown' = shown /\ b = Kept(a)
      <4>1. LineEnd(rbuf[1]) = 1 /\ ~Parses(rbuf[1]) /\ (b + 1) % 2 = 0
        BY <2>3, <2>10
      <4> QED BY <1>4, <2>2, <2>6, <2>10, <4>1 DEF Printed
    <3>3. Accounted(a, b + 1)'
      <4> SUFFICES ASSUME NEW i \in 1..Len(out[1]), 2 * i <= b + 1, out[1][i] = "chat"
                   PROVE  (\E l \in DOMAIN shown : shown[l] = <<1, i>>) \/ (a < i /\ 2 * i - 1 <= Kept(a))
        BY <1>1, <2>5, <3>2 DEF Accounted
      <4>1. CASE 2 * i <= b
        BY <4>1 DEF Order, Accounted
      <4>2. CASE ~(2 * i <= b)
        <5>1. 2 * i = b + 1
          BY <3>1, <4>2
        <5> QED BY <1>0, <2>5, <3>2, <5>1
      <4> QED BY <4>1, <4>2
    <3>4. Ascending(b + 1)'
      <4>1. \A k \in DOMAIN shown : shown[k][1] = 1 /\ 2 * shown[k][2] <= b + 1
        BY <2>8 DEF Order, Ascending
      <4> QED BY <3>2, <4>1 DEF Order, Ascending
    <3>5. b + 1 \in Nat
      OBVIOUS
    <3> QED BY <2>7, <3>2, <3>3, <3>4, <3>5 DEF Order
  <2> QED BY <2>9, <2>10
<1> QED BY <1>1, <1>2, <1>3, <1>4

LEMMA InitOrdered == Init => Ordered
BY DEF Init, Ordered

LEMMA OrderedStep == TInv /\ TInv' /\ StreamsOK /\ Ordered /\ [Next]_vars => Ordered'
<1> SUFFICES ASSUME TInv, TInv', StreamsOK, Ordered, [Next]_vars, sock' = 1
             PROVE  \E a, b \in Nat : Order(a, b)'
  BY DEF Ordered
<1>1. CASE Connect
  <2>1. sock = 0
    BY <1>1, TypedParts DEF Connect
  <2>2. Order(0, 0)'
    BY <1>1, <2>1, OrderConnect
  <2> QED BY <2>2
<1>2. CASE ~Connect
  <2>1. sock = 1
    BY <1>2, ServerSteps, MainLineEffect, ReceiverLineEffect, ReceiverDataEffect
       DEF Next, Send, Logout, Quit, Ask, MainStep, MainReceive, MainEnd, ReceiverStep, ReceiverCall,
           ReceiverEnd, ServerStep, ServerEffect, mainVars, vars
  <2>2. PICK a \in Nat, b \in Nat : Order(a, b)
    BY <2>1 DEF Ordered
  <2>3. 1 \in Conns /\ Len(out[1]) \in Nat
    BY <2>1, OneConnection
  <2>4. CASE MainReceive
    BY <2>1, <2>2, <2>4, OrderMainReceive
  <2>5. CASE MainLine
    <3>1. Order(a + 1, b)' /\ a + 1 \in Nat
      BY <2>1, <2>2, <2>5, OrderMainLine
    <3> QED BY <3>1
  <2>6. ASSUME NEW c \in Conns, ReceiverData(c) PROVE \E d, e \in Nat : Order(d, e)'
    BY <2>1, <2>2, <2>6, OrderReceiverData
  <2>7. ASSUME NEW c \in Conns, ReceiverLine(c) PROVE \E d, e \in Nat : Order(d, e)'
    BY <2>1, <2>2, <2>7, OrderReceiverLine
  <2>8. CASE \/ Send \/ Logout \/ Quit \/ MainEnd \/ (\E u \in Users : Ask("login", u)) \/ Ask("reg", None)
             \/ UNCHANGED vars
    <3>1. /\ lineBuf' = lineBuf /\ rbuf' = rbuf /\ got' = got /\ shown' = shown /\ out' = out
          /\ main' \in {"choose", "await"} => main \in {"choose", "await"}
      BY <2>8 DEF Send, Logout, Quit, MainEnd, Ask, vars, mainVars, recvVars, serverVars
    <3> QED BY <2>1, <2>2, <2>3, <3>1, OrderFrame
  <2>9. ASSUME NEW c \in Conns, ReceiverCall(c) \/ ReceiverEnd(c) PROVE \E d, e \in Nat : Order(d, e)'
    <3>1. lineBuf' = lineBuf /\ rbuf' = rbuf /\ got' = got /\ shown' = shown /\ out' = out /\ main' = main
      BY <2>9 DEF ReceiverCall, ReceiverEnd, mainVars, serverVars
    <3> QED BY <2>1, <2>2, <2>3, <3>1, OrderFrame
  <2>10. ASSUME NEW c \in Conns, ServerStep(c) \/ ServerChat(c) \/ Kick(c)
         PROVE  \E d, e \in Nat : Order(d, e)'
    <3>1. ServerEffect(c)
      BY <2>10, ServerSteps DEF ServerStep
    <3>2. lineBuf' = lineBuf /\ rbuf' = rbuf /\ got' = got /\ shown' = shown /\ main' = main
      BY <3>1 DEF ServerEffect, mainVars, recvVars
    <3>3. Len(out'[1]) \in Nat /\ \A i \in 1..Len(out[1]) : out'[1][i] = out[1][i]
      BY <2>3, <3>1 DEF ServerEffect
    <3> QED BY <2>1, <2>2, <3>2, <3>3, OrderFrame
  <2> QED BY <1>2, <2>4, <2>5, <2>6, <2>7, <2>8, <2>9, <2>10 DEF Next, MainStep, ReceiverStep
<1> QED BY <1>1, <1>2

-----------------------------------------------------------------------------
(* Answers reach main                                                      *)

LEMMA BufferedLine ==
  ASSUME TInv, StreamsOK, NEW j \in Ends(lineBuf)
  PROVE  \E c \in 1..sock : \E i \in 1..Len(out[c]) :
           /\ c \in Conns /\ lineBuf[j] = <<c, 2 * i>> /\ LineAt(lineBuf[j]) = <<c, i>>
           /\ 2 * i <= got[c] /\ Buffered(<<c, 2 * i>>)
<1>1. /\ Bufs[0] = lineBuf /\ 0 \in Buffers /\ BuffersType(Bufs)
      /\ sock \in 0..MaxConns /\ MaxConns \in Nat
  BY BufsParts, StreamAssumption
<1>2. j \in DOMAIN lineBuf /\ lineBuf[j][2] % 2 = 0
  BY DEF Ends
<1>3. /\ lineBuf[j][1] \in Conns /\ lineBuf[j][2] \in Nat
      /\ lineBuf[j] = <<lineBuf[j][1], lineBuf[j][2]>>
  BY <1>1, <1>2, BufferHalves
<1>4. lineBuf[j][1] \in 1..sock /\ lineBuf[j][2] \in 1..got[lineBuf[j][1]]
  BY <1>1, <1>2 DEF StreamsOK, Streams, Received
<1>5. PICK c \in Conns, h \in Nat : lineBuf[j] = <<c, h>> /\ lineBuf[j][1] = c /\ lineBuf[j][2] = h
  BY <1>3
<1>6. c \in 1..sock /\ h \in 1..got[c] /\ h % 2 = 0
  BY <1>2, <1>4, <1>5
<1>7. got[c] \in Nat /\ Len(out[c]) \in Nat /\ got[c] <= 2 * Len(out[c])
  BY TypedParts DEF Limits
<1>8. PICK i \in Nat : h = 2 * i /\ i = h \div 2
  BY <1>6
<1>9. i \in 1..Len(out[c]) /\ 2 * i <= got[c]
  BY <1>6, <1>7, <1>8
<1>10. LineAt(lineBuf[j]) = <<c, i>> /\ lineBuf[j] = <<c, 2 * i>>
  BY <1>5, <1>8 DEF LineAt
<1>11. Buffered(<<c, 2 * i>>)
  BY <1>2, <1>10 DEF Buffered
<1> QED BY <1>6, <1>9, <1>10, <1>11

\* The lines that were sent stay what they are.
Sent == \A c \in Conns : /\ Len(out'[c]) \in Nat /\ Len(out[c]) <= Len(out'[c])
                         /\ \A i \in 1..Len(out[c]) : out'[c][i] = out[c][i]

LEMMA SentStays ==
  ASSUME TInv, out' = out PROVE Sent
BY TypedParts DEF Sent

LEMMA OldAnswersStay ==
  ASSUME TInv, StreamsOK, OldAnswersGone, Sent, sock' = sock,
         main' = "start" => main = "start",
         \A j \in Ends(lineBuf') :
           \/ \E i \in Ends(lineBuf) : lineBuf'[j] = lineBuf[i]
           \/ main' # "start" /\ lineBuf'[j][1] = sock
  PROVE  OldAnswersGone'
<1> SUFFICES ASSUME NEW j \in Ends(lineBuf'), lineBuf'[j][1] # sock \/ main' = "start"
             PROVE  ~Answer(LineAt(lineBuf[j]))'
  BY DEF OldAnswersGone, Ends
<1>1. PICK i \in Ends(lineBuf) : lineBuf'[j] = lineBuf[i]
  OBVIOUS
<1>2. ~Answer(LineAt(lineBuf[i]))
  BY <1>1 DEF OldAnswersGone
<1>3. PICK c \in 1..sock : \E l \in 1..Len(out[c]) : c \in Conns /\ LineAt(lineBuf[i]) = <<c, l>>
  BY BufferedLine
<1>4. PICK l \in 1..Len(out[c]) : c \in Conns /\ LineAt(lineBuf[i]) = <<c, l>>
  BY <1>3
<1>5. out'[c][l] = out[c][l]
  BY <1>4 DEF Sent
<1>6. out[c][l] = "chat"
  BY <1>2, <1>4 DEF Answer, Kind
<1>7. LineAt(lineBuf'[j]) = <<c, l>>
  BY <1>1, <1>4
<1>8. Answer(LineAt(lineBuf[j]))' <=> out'[LineAt(lineBuf'[j])[1]][LineAt(lineBuf'[j])[2]] # "chat"
  BY DEF Answer, Kind, LineAt
<1> QED BY <1>5, <1>6, <1>7, <1>8

\* No answer comes back that main could not see any more.
LEMMA OutstandingBefore ==
  ASSUME TInv, sock \in Conns, sock' = sock, Sent,
         got'[sock] \in Nat, got[sock] <= got'[sock],
         \A h \in Nat : Buffered(<<sock, h>>)' => Buffered(<<sock, h>>) \/ h > got[sock],
         NEW i \in 1..Len(out[sock]), Outstanding(i)'
  PROVE  Outstanding(i)
<1>1. got[sock] \in Nat /\ 2 * i \in Nat
  BY TypedParts
<1>2. out'[sock][i] = out[sock][i]
  BY DEF Sent
<1>3. Answer(<<sock, i>>)
  BY <1>2 DEF Outstanding, Answer, Kind
<1>4. 2 * i > got'[sock] \/ Buffered(<<sock, 2 * i>>)'
  BY DEF Outstanding
<1>5. 2 * i > got[sock] \/ Buffered(<<sock, 2 * i>>)
  BY <1>1, <1>4
<1> QED BY <1>3, <1>5 DEF Outstanding

LEMMA QuietStays ==
  ASSUME TInv, sock \in Conns, sock' = sock, Sent,
         got'[sock] \in Nat, got[sock] <= got'[sock],
         \A h \in Nat : Buffered(<<sock, h>>)' => Buffered(<<sock, h>>) \/ h > got[sock],
         \A i \in 1..Len(out'[sock]) : i \notin 1..Len(out[sock]) => out'[sock][i] = "chat"
  PROVE  /\ \A i \in 1..Len(out'[sock]) : Outstanding(i)' => i \in 1..Len(out[sock]) /\ Outstanding(i)
         /\ Quiet => Quiet'
<1>1. ASSUME NEW i \in 1..Len(out'[sock]), Outstanding(i)'
      PROVE  i \in 1..Len(out[sock]) /\ Outstanding(i)
  <2>1. i \in 1..Len(out[sock])
    <3>1. out'[sock][i] # "chat"
      BY <1>1 DEF Outstanding, Answer, Kind
    <3> QED BY <3>1
  <2> QED BY <1>1, <2>1, OutstandingBefore
<1>2. ASSUME Quiet, NEW i \in 1..Len(out'[sock]), Outstanding(i)' PROVE FALSE
  BY <1>1, <1>2 DEF Quiet
<1> QED BY <1>1, <1>2 DEF Quiet

\* A step that brings main no answer and takes none from it.
LEMMA AnswersFrame ==
  ASSUME TInv, Answers, Sent, OldAnswersGone',
         UNCHANGED <<main, asked, who, sock>>,
         main \in {"choose", "await", "menu"} =>
           /\ got'[sock] \in Nat /\ got[sock] <= got'[sock]
           /\ seen'[sock] = seen[sock] /\ req'[sock] = req[sock]
           /\ \A h \in Nat : Buffered(<<sock, h>>)' => Buffered(<<sock, h>>) \/ h > got[sock]
           /\ \A i \in 1..Len(out'[sock]) : i \notin 1..Len(out[sock]) => out'[sock][i] = "chat"
           /\ LoggedIn => LoggedIn'
  PROVE  Answers'
<1>1. CASE main \in {"choose", "await", "menu"}
  <2>1. sock \in Conns
    BY <1>1 DEF TInv, Connected
  <2>2. /\ \A i \in 1..Len(out'[sock]) : Outstanding(i)' => i \in 1..Len(out[sock]) /\ Outstanding(i)
        /\ Quiet => Quiet'
    BY <1>1, <2>1, QuietStays
  <2>3. AtChoice'
    BY <1>1, <2>2 DEF Answers, AtChoice
  <2>4. AtMenu'
    BY <1>1, <2>2 DEF Answers, AtMenu
  <2>5. Awaited'
    <3> SUFFICES ASSUME main = "await" PROVE Awaited'
      BY DEF Awaited
    <3>1. PICK n : n = Len(req[sock])
      OBVIOUS
    <3>2. /\ n > 0 /\ seen[sock] >= 2 * n - 2
          /\ req[sock][n].kind = asked
          /\ asked = "login" => req[sock][n].user = who
          /\ seen[sock] < 2 * n => Quiet
          /\ \A i, j \in 1..Len(out[sock]) : Outstanding(i) /\ Outstanding(j) => i = j
          /\ \A i \in 1..Len(out[sock]) : Outstanding(i) => AnswerFits(i)
      BY <3>1 DEF Answers, Awaited
    <3>3. ASSUME NEW i \in 1..Len(out'[sock]), Outstanding(i)' PROVE AnswerFits(i)'
      <4>1. i \in 1..Len(out[sock]) /\ AnswerFits(i)
        BY <2>2, <3>2, <3>3
      <4>2. out'[sock][i] = out[sock][i]
        BY <2>1, <4>1 DEF Sent
      <4> QED BY <1>1, <4>1, <4>2 DEF AnswerFits
    <3>4. \A i, j \in 1..Len(out'[sock]) : Outstanding(i)' /\ Outstanding(j)' => i = j
      BY <2>2, <3>2
    <3>5. n = Len(req'[sock]) /\ req'[sock] = req[sock] /\ seen'[sock] = seen[sock]
      BY <1>1, <3>1
    <3>6. seen[sock] < 2 * n => Quiet'
      BY <2>2, <3>2
    <3> QED BY <3>2, <3>3, <3>4, <3>5, <3>6 DEF Awaited
  <2> QED BY <2>3, <2>4, <2>5 DEF Answers
<1>2. CASE main \notin {"choose", "await", "menu"}
  BY <1>2 DEF Answers, AtChoice, Awaited, AtMenu
<1> QED BY <1>1, <1>2

LEMMA AnswersMainReceive ==
  ASSUME TInv, StreamsOK, Answers, MainReceive
  PROVE  Answers'
<1>1. PICK k \in 1..Unread(sock) : Receive(sock, k) /\ lineBuf' = lineBuf \o Following(sock, k)
  BY DEF MainReceive
<1>2. main = "await" /\ UNCHANGED <<main, asked, who, sock, req, out, seen, srv, suser>>
  BY DEF MainReceive, serverVars
<1>3. sock \in Conns /\ lineBuf \in Seq(Halves) /\ Len(lineBuf) \in Nat /\ sock <= sock
  BY <1>2, TypedParts, LenProperties DEF TInv, Connected
<1>4. k \in Nat /\ got[sock] \in Nat /\ got'[sock] \in Nat /\ got[sock] <= got'[sock]
  BY <1>1, <1>3, ReceiveLimits
<1>5. /\ lineBuf \o Following(sock, k) \in Seq(Halves)
      /\ Len(lineBuf \o Following(sock, k)) = Len(lineBuf) + k
      /\ \A i \in 1..(Len(lineBuf) + k) : (lineBuf \o Following(sock, k))[i] =
           IF i <= Len(lineBuf) THEN lineBuf[i] ELSE <<sock, got[sock] + (i - Len(lineBuf))>>
  BY <1>3, <1>4, ReceivedBehind
<1>6. DOMAIN lineBuf' = 1..(Len(lineBuf) + k) /\ DOMAIN lineBuf = 1..Len(lineBuf)
  BY <1>1, <1>3, <1>5, LenProperties
<1>7. ASSUME NEW j \in DOMAIN lineBuf'
      PROVE  \/ j \in DOMAIN lineBuf /\ lineBuf'[j] = lineBuf[j]
             \/ \E t \in 1..k : lineBuf'[j] = <<sock, got[sock] + t>>
  <2>1. CASE j <= Len(lineBuf)
    BY <1>1, <1>3, <1>5, <1>6, <2>1
  <2>2. CASE ~(j <= Len(lineBuf))
    <3>1. j - Len(lineBuf) \in 1..k
      BY <1>3, <1>4, <1>6, <2>2
    <3>2. lineBuf'[j] = <<sock, got[sock] + (j - Len(lineBuf))>>
      BY <1>1, <1>5, <1>6, <2>2
    <3> QED BY <3>1, <3>2
  <2> QED BY <2>1, <2>2
<1>8. Sent
  BY <1>2, SentStays
<1>9. OldAnswersGone'
  <2>1. ASSUME NEW j \in Ends(lineBuf')
        PROVE  (\E i \in Ends(lineBuf) : lineBuf'[j] = lineBuf[i]) \/ lineBuf'[j][1] = sock
    BY <1>7, <2>1 DEF Ends
  <2> QED BY <1>2, <1>8, <2>1, OldAnswersStay DEF Answers
<1>10. ASSUME NEW h \in Nat, Buffered(<<sock, h>>)' PROVE Buffered(<<sock, h>>) \/ h > got[sock]
  <2>1. PICK j \in DOMAIN lineBuf' : lineBuf'[j] = <<sock, h>>
    BY <1>2, <1>10 DEF Buffered
  <2>2. CASE j \in DOMAIN lineBuf /\ lineBuf'[j] = lineBuf[j]
    BY <2>1, <2>2 DEF Buffered
  <2>3. ASSUME NEW t \in 1..k, lineBuf'[j] = <<sock, got[sock] + t>> PROVE h > got[sock]
    <3>1. h = got[sock] + t
      BY <2>1, <2>3
    <3> QED BY <1>4, <3>1
  <2> QED BY <1>7, <2>2, <2>3
<1>11. LoggedIn => LoggedIn'
  BY <1>2 DEF LoggedIn
<1>12. \A i \in 1..Len(out'[sock]) : i \notin 1..Len(out[sock]) => out'[sock][i] = "chat"
  BY <1>2
<1> QED BY <1>2, <1>4, <1>8, <1>9, <1>10, <1>11, <1>12, AnswersFrame

LEMMA RestOfLineBuf ==
  ASSUME TInv, StreamsOK, HasLine(lineBuf), lineBuf' = Rest(lineBuf)
  PROVE  /\ \A j \in Ends(lineBuf') : \E i \in Ends(lineBuf) : lineBuf'[j] = lineBuf[i]
         /\ \A x : Buffered(x)' => Buffered(x) /\ x # lineBuf[LineEnd(lineBuf)]
<1>1. /\ BuffersType(Bufs) /\ Bufs[0] = lineBuf /\ 0 \in Buffers /\ lineBuf \in Seq(Halves)
  BY BufsParts, TypedParts
<1>2. PICK e : e = LineEnd(lineBuf)
  OBVIOUS
<1>3. /\ e \in 1..Len(lineBuf) /\ lineBuf' \in Seq(Halves)
      /\ Len(lineBuf') = Len(lineBuf) - e
      /\ \A i \in 1..Len(lineBuf') : lineBuf'[i] = lineBuf[e + i]
  BY <1>1, <1>2, RestIsSuffix
<1>4. DOMAIN lineBuf' = 1..Len(lineBuf') /\ DOMAIN lineBuf = 1..Len(lineBuf) /\ Len(lineBuf) \in Nat
  BY <1>1, <1>3, LenProperties
<1>5. ASSUME NEW j \in DOMAIN lineBuf'
      PROVE  e + j \in DOMAIN lineBuf /\ lineBuf'[j] = lineBuf[e + j] /\ e < e + j
  BY <1>3, <1>4
<1>6. ASSUME NEW j \in Ends(lineBuf') PROVE \E i \in Ends(lineBuf) : lineBuf'[j] = lineBuf[i]
  <2>1. j \in DOMAIN lineBuf' /\ lineBuf'[j][2] % 2 = 0
    BY <1>6 DEF Ends
  <2>2. e + j \in Ends(lineBuf)
    BY <1>5, <2>1 DEF Ends
  <2> QED BY <1>5, <2>1, <2>2
<1>7. ASSUME NEW x, Buffered(x)' PROVE Buffered(x) /\ x # lineBuf[e]
  <2>1. PICK j \in DOMAIN lineBuf' : lineBuf'[j] = x
    BY <1>7 DEF Buffered
  <2>2. e + j \in DOMAIN lineBuf /\ lineBuf[e + j] = x /\ e < e + j /\ e \in DOMAIN lineBuf
    BY <1>3, <1>4, <1>5, <2>1
  <2>3. Buffered(x)
    BY <2>2 DEF Buffered
  <2>4. ASSUME x = lineBuf[e] PROVE FALSE
    <3>1. lineBuf[e][2] < lineBuf[e + j][2]
      BY <1>1, <2>2, <2>4 DEF StreamsOK, Streams, InOrder
    <3>2. lineBuf[e][2] \in Nat
      BY <1>1, <2>2, BufferHalves
    <3> QED BY <2>2, <2>4, <3>1, <3>2
  <2> QED BY <2>3, <2>4
<1> QED BY <1>2, <1>6, <1>7

LEMMA AnswersMainLine ==
  ASSUME TInv, StreamsOK, Answers, MainLine
  PROVE  Answers'
<1>1. /\ main = "await" /\ sock \in Conns /\ HasLine(lineBuf) /\ lineBuf' = Rest(lineBuf)
      /\ UNCHANGED <<asked, who, sock, got, req, out, seen, srv, suser>>
      /\ \/ main' = "await"
         \/ /\ main' = "choose" /\ Parses(lineBuf)
            /\ \/ Kind(FirstLine(lineBuf)) = "reg"
               \/ Kind(FirstLine(lineBuf)) = "fail"
         \/ main' = "menu" /\ Parses(lineBuf) /\ Kind(FirstLine(lineBuf)) = "ok" /\ asked = "login"
  BY MainLineEffect DEF serverVars
<1>2. /\ \A j \in Ends(lineBuf') : \E i \in Ends(lineBuf) : lineBuf'[j] = lineBuf[i]
      /\ \A x : Buffered(x)' => Buffered(x) /\ x # lineBuf[LineEnd(lineBuf)]
  BY <1>1, RestOfLineBuf
<1>3. Sent
  BY <1>1, SentStays
<1>4. OldAnswersGone'
  BY <1>1, <1>2, <1>3, OldAnswersStay DEF Answers
<1>5. got[sock] \in Nat /\ lineBuf \in Seq(Halves) /\ Len(req[sock]) \in Nat /\ seen[sock] \in Nat
  BY <1>1, TypedParts
<1>6. LoggedIn => LoggedIn'
  BY <1>1 DEF LoggedIn
<1>7. CASE main' = "await"
  <2>1. /\ got'[sock] \in Nat /\ got[sock] <= got'[sock]
        /\ seen'[sock] = seen[sock] /\ req'[sock] = req[sock]
        /\ \A i \in 1..Len(out'[sock]) : i \notin 1..Len(out[sock]) => out'[sock][i] = "chat"
    BY <1>1, <1>5
  <2>2. \A h \in Nat : Buffered(<<sock, h>>)' => Buffered(<<sock, h>>)
    BY <1>1, <1>2 DEF Buffered
  <2> QED BY <1>1, <1>3, <1>4, <1>6, <1>7, <2>1, <2>2, AnswersFrame
<1>8. CASE Parses(lineBuf) /\ Kind(FirstLine(lineBuf)) # "chat" /\ main' \in {"choose", "menu"}
  <2>1. /\ LineEnd(lineBuf) = 2 /\ 2 \in 1..Len(lineBuf) /\ lineBuf[2][2] % 2 = 0
        /\ FirstLine(lineBuf) = LineAt(lineBuf[2])
    BY <1>1, <1>5, <1>8, FirstLineHalf
  <2>2. 2 \in Ends(lineBuf)
    BY <1>5, <2>1, LenProperties DEF Ends
  <2>3. lineBuf[2][1] = sock
    BY <1>8, <2>1, <2>2 DEF Answers, OldAnswersGone, Answer
  <2>4. PICK i \in 1..Len(out[sock]) :
          /\ lineBuf[2] = <<sock, 2 * i>> /\ FirstLine(lineBuf) = <<sock, i>>
          /\ 2 * i <= got[sock] /\ Buffered(<<sock, 2 * i>>)
    <3>1. PICK c \in 1..sock : \E i \in 1..Len(out[c]) :
            /\ lineBuf[2] = <<c, 2 * i>> /\ LineAt(lineBuf[2]) = <<c, i>>
            /\ 2 * i <= got[c] /\ Buffered(<<c, 2 * i>>)
      BY <2>2, BufferedLine
    <3>2. c = sock
      BY <2>3, <3>1
    <3> QED BY <2>1, <3>1, <3>2
  <2>5. Outstanding(i) /\ Kind(FirstLine(lineBuf)) = out[sock][i]
    BY <1>8, <2>4 DEF Outstanding, Answer, Kind
  <2>6. /\ ~(seen[sock] < 2 * Len(req[sock]))
        /\ \A j \in 1..Len(out[sock]) : Outstanding(j) => i = j
        /\ AnswerFits(i)
    <3>1. seen[sock] < 2 * Len(req[sock]) => Quiet
      BY <1>1 DEF Answers, Awaited
    <3>2. ~Quiet
      BY <2>5 DEF Quiet
    <3>3. \A j \in 1..Len(out[sock]) : Outstanding(i) /\ Outstanding(j) => i = j
      BY <1>1 DEF Answers, Awaited
    <3>4. AnswerFits(i)
      BY <1>1, <2>5 DEF Answers, Awaited
    <3> QED BY <2>5, <3>1, <3>2, <3>3, <3>4
  <2>7. Quiet'
    <3> SUFFICES ASSUME NEW j \in 1..Len(out[sock]), Outstanding(j)' PROVE FALSE
      BY <1>1 DEF Quiet
    <3>1. \A h \in Nat : Buffered(<<sock, h>>)' => Buffered(<<sock, h>>)
      BY <1>1, <1>2 DEF Buffered
    <3>2. Outstanding(j)
      BY <1>1, <1>3, <1>5, <3>1, OutstandingBefore
    <3>3. i = j
      BY <2>6, <3>2
    <3>4. 2 * i > got[sock] \/ Buffered(<<sock, 2 * i>>)'
      BY <1>1, <3>3 DEF Outstanding
    <3>5. ~(2 * i > got[sock])
      BY <1>5, <2>4
    <3>6. Buffered(<<sock, 2 * i>>)'
      BY <3>4, <3>5
    <3>7. PICK x : x = <<sock, 2 * i>>
      OBVIOUS
    <3>8. Buffered(x)' /\ x = lineBuf[LineEnd(lineBuf)]
      BY <1>1, <2>1, <2>4, <3>6, <3>7 DEF Buffered
    <3> QED BY <1>2, <3>8
  <2>8. seen[sock] = 2 * Len(req[sock])
    <3>1. seen[sock] <= 2 * Len(req[sock])
      BY <1>1, TypedParts DEF Limits
    <3> QED BY <1>5, <2>6, <3>1
  <2>9. AtChoice' /\ Awaited'
    BY <1>1, <1>8, <2>7, <2>8 DEF AtChoice, Awaited
  <2>10. AtMenu'
    <3> SUFFICES ASSUME main' = "menu" PROVE AtMenu'
      BY DEF AtMenu
    <3>1. out[sock][i] = "ok"
      BY <1>1, <2>5
    <3>2. LoggedIn'
      BY <1>6, <2>6, <3>1 DEF AnswerFits
    <3>3. \A n \in 1..Len(req[sock]) : ~(2 * n > seen[sock])
      BY <1>5, <2>8
    <3> QED BY <1>1, <2>7, <3>2, <3>3 DEF AtMenu
  <2> QED BY <1>4, <2>9, <2>10 DEF Answers
<1> QED BY <1>1, <1>7, <1>8

LEMMA AnswersConnect ==
  ASSUME TInv, TInv', StreamsOK, Answers, Connect
  PROVE  Answers'
<1>1. /\ main = "start" /\ main' = "choose" /\ sock' = sock + 1
      /\ UNCHANGED <<lineBuf, out, req, seen>>
  BY DEF Connect
<1>2. sock' \in Conns /\ sock \in Nat
  BY <1>1, TypedParts DEF TInv, Connected
<1>3. Fresh(sock')
  <2>1. sock' > sock
    BY <1>1, <1>2
  <2> QED BY <1>2, <2>1, TypedParts DEF Limits
<1>4. out[sock'] = <<>> /\ Len(out[sock']) = 0 /\ seen[sock'] = 0 /\ Len(req[sock']) = 0
  BY <1>3, EmptySeq DEF Fresh
<1>5. OldAnswersGone'
  BY <1>1 DEF Answers, OldAnswersGone, Ends, Answer, Kind, LineAt
<1>6. AtChoice'
  BY <1>1, <1>4 DEF AtChoice, Quiet
<1>7. Awaited' /\ AtMenu'
  BY <1>1 DEF Awaited, AtMenu
<1> QED BY <1>5, <1>6, <1>7 DEF Answers

LEMMA QuietSame ==
  ASSUME UNCHANGED <<sock, out, got, lineBuf>>
  PROVE  (Quiet' <=> Quiet) /\ \A i : Outstanding(i)' <=> Outstanding(i)
BY DEF Quiet, Outstanding, Buffered, Answer, Kind

LEMMA AnswersRequests ==
  ASSUME TInv, StreamsOK, Answers,
         Send \/ Ask("reg", None) \/ \E u \in Users : Ask("login", u)
  PROVE  Answers'
<1>1. UNCHANGED <<sock, lineBuf, got, out, seen, srv, suser>>
  BY DEF Send, Ask, mainVars, serverVars
<1>2. Quiet' <=> Quiet
  BY <1>1, QuietSame
<1>3. main' # "start"
  BY DEF Send, Ask, mainVars
<1>4. Sent
  BY <1>1, SentStays
<1>5. OldAnswersGone'
  BY <1>1, <1>3, <1>4, OldAnswersStay DEF Answers
<1>6. ASSUME NEW kind \in {"login", "reg"}, NEW u \in Users \cup {None}, Ask(kind, u)
      PROVE  Answers'
  <2>1. /\ main = "choose" /\ main' = "await" /\ asked' = kind /\ SendLine(kind, u)
        /\ kind = "login" => who' = u
    BY <1>6 DEF Ask
  <2>2. Quiet' /\ seen[sock] = 2 * Len(req[sock]) /\ sock \in Conns
    BY <1>2, <2>1 DEF Answers, AtChoice, TInv, Connected
  <2>3. /\ Len(req'[sock]) = Len(req[sock]) + 1 /\ Len(req[sock]) \in Nat
        /\ req'[sock][Len(req[sock]) + 1] = [kind |-> kind, user |-> u]
    BY <2>1, <2>2, SendLineEffect, TypedParts
  <2>4. PICK n : n = Len(req'[sock])
    OBVIOUS
  <2>5. /\ n > 0 /\ seen'[sock] >= 2 * n - 2
        /\ req'[sock][n].kind = asked' /\ (asked' = "login" => req'[sock][n].user = who')
    BY <1>1, <2>1, <2>2, <2>3, <2>4
  <2>6. \A i \in 1..Len(out'[sock]) : ~Outstanding(i)'
    BY <1>1, <2>2 DEF Quiet
  <2>7. Awaited'
    BY <1>1, <2>2, <2>4, <2>5, <2>6 DEF Awaited
  <2>8. AtChoice' /\ AtMenu'
    BY <2>1 DEF AtChoice, AtMenu
  <2> QED BY <1>5, <2>7, <2>8 DEF Answers
<1>7. CASE Send
  <2>1. /\ main = "menu" /\ main' = main /\ who' = who /\ SendLine("chat", who)
    BY <1>7 DEF Send, mainVars
  <2>2. sock \in Conns /\ who \in Users \cup {None} /\ Len(req[sock]) \in Nat
    BY <2>1, TypedParts DEF TInv, Connected
  <2>3. /\ Len(req'[sock]) = Len(req[sock]) + 1
        /\ req'[sock][Len(req[sock]) + 1] = [kind |-> "chat", user |-> who]
        /\ \A n \in 1..Len(req[sock]) : req'[sock][n] = req[sock][n]
    BY <2>1, <2>2, SendLineEffect
  <2>4. \A n \in 1..Len(req[sock]) : 2 * n > seen[sock] => req[sock][n].kind = "chat"
    BY <2>1 DEF Answers, AtMenu
  <2>5. ASSUME NEW n \in 1..Len(req'[sock]), 2 * n > seen[sock] PROVE req'[sock][n].kind = "chat"
    <3>1. n \in 1..Len(req[sock]) \/ n = Len(req[sock]) + 1
      BY <2>2, <2>3
    <3> QED BY <2>3, <2>4, <2>5, <3>1
  <2>6. AtMenu'
    BY <1>1, <1>2, <2>1, <2>5 DEF Answers, AtMenu, LoggedIn
  <2>7. AtChoice' /\ Awaited'
    BY <2>1 DEF AtChoice, Awaited
  <2> QED BY <1>5, <2>6, <2>7 DEF Answers
<1> QED BY <1>6, <1>7

LEMMA AnswersLeave ==
  ASSUME TInv, StreamsOK, Answers, Logout \/ Quit \/ MainEnd
  PROVE  Answers'
<1>1. UNCHANGED <<sock, lineBuf, got, out>> /\ main' \in {"start", "exit"}
  BY DEF Logout, Quit, MainEnd, serverVars
<1>2. AtChoice' /\ Awaited' /\ AtMenu'
  BY <1>1 DEF AtChoice, Awaited, AtMenu
<1>3. CASE main' = "exit"
  <2>1. OldAnswersGone'
    BY <1>1, <1>3, SentStays, OldAnswersStay DEF Answers
  <2> QED BY <1>2, <2>1 DEF Answers
<1>4. CASE main' = "start"
  <2>1. main = "menu"
    BY <1>4 DEF Logout, Quit, MainEnd
  <2>2. Quiet /\ OldAnswersGone
    BY <2>1 DEF Answers, AtMenu
  <2>3. ASSUME NEW j \in Ends(lineBuf) PROVE ~Answer(LineAt(lineBuf[j]))
    <3>1. PICK c \in 1..sock : \E i \in 1..Len(out[c]) :
            /\ lineBuf[j] = <<c, 2 * i>> /\ LineAt(lineBuf[j]) = <<c, i>> /\ Buffered(<<c, 2 * i>>)
      BY BufferedLine
    <3>2. PICK i \in 1..Len(out[c]) :
            /\ lineBuf[j] = <<c, 2 * i>> /\ LineAt(lineBuf[j]) = <<c, i>> /\ Buffered(<<c, 2 * i>>)
      BY <3>1
    <3>3. CASE c = sock
      <4>1. ~Outstanding(i)
        BY <2>2, <3>3 DEF Quiet
      <4> QED BY <3>2, <3>3, <4>1 DEF Outstanding
    <3>4. CASE c # sock
      <4>1. lineBuf[j][1] # sock
        BY <3>2, <3>4
      <4> QED BY <2>2, <4>1 DEF OldAnswersGone
    <3> QED BY <3>3, <3>4
  <2>4. OldAnswersGone'
    BY <1>1, <2>3 DEF OldAnswersGone, Ends, Answer, Kind, LineAt
  <2> QED BY <1>2, <2>4 DEF Answers
<1> QED BY <1>1, <1>3, <1>4

LEMMA AnswersReceiver ==
  ASSUME TInv, StreamsOK, Answers, NEW c \in Conns, ReceiverStep(c)
  PROVE  Answers'
<1>1. /\ UNCHANGED <<main, asked, who, sock, lineBuf, out, req, seen, srv, suser>>
  BY ReceiverLineEffect, ReceiverDataEffect
     DEF ReceiverStep, ReceiverCall, ReceiverEnd, mainVars, serverVars
<1>2. ASSUME sock \in Conns PROVE got[sock] \in Nat /\ got'[sock] \in Nat /\ got[sock] <= got'[sock]
  <2>1. got[sock] \in Nat
    BY <1>2, TypedParts
  <2>2. CASE ReceiverData(c)
    <3>1. /\ on[c] \in Conns /\ on[c] <= sock /\ \E k \in 1..Unread(on[c]) : Receive(on[c], k)
      BY <2>2, ReceiverDataEffect
    <3> QED BY <1>2, <3>1, ReceiveLimits
  <2>3. CASE got' = got
    BY <2>1, <2>3
  <2> QED BY <2>2, <2>3, ReceiverLineEffect DEF ReceiverStep, ReceiverCall, ReceiverEnd
<1>3. Sent
  BY <1>1, SentStays
<1>4. OldAnswersGone'
  BY <1>1, <1>3, OldAnswersStay DEF Answers
<1>5. /\ LoggedIn => LoggedIn'
      /\ \A h \in Nat : Buffered(<<sock, h>>)' => Buffered(<<sock, h>>)
  BY <1>1 DEF LoggedIn, Buffered
<1>6. main \in {"choose", "await", "menu"} => sock \in Conns
  BY DEF TInv, Connected
<1>7. seen' = seen /\ req' = req
      /\ \A i \in 1..Len(out'[sock]) : i \notin 1..Len(out[sock]) => out'[sock][i] = "chat"
  BY <1>1
<1> QED BY <1>1, <1>2, <1>3, <1>4, <1>5, <1>6, <1>7, AnswersFrame

\* What the server does with the request main waits for.
LEMMA AnswersOnMessage ==
  ASSUME TInv, StreamsOK, Answers, main = "await", OnMessage(sock)
  PROVE  Awaited'
<1>1. sock \in Conns
  BY DEF TInv, Connected
<1>2. ServerEffect(sock)
  BY <1>1, ServerSteps
<1>3. UNCHANGED <<main, asked, who, sock, lineBuf, got, req>> /\ Sent
  BY <1>2 DEF ServerEffect, mainVars, Sent
<1>4. PICK N \in Nat : N = Len(req[sock])
  BY <1>1, TypedParts
<1>5. /\ N > 0 /\ seen[sock] >= 2 * N - 2
      /\ req[sock][N].kind = asked
      /\ asked = "login" => req[sock][N].user = who
      /\ seen[sock] < 2 * N => Quiet
      /\ \A i, j \in 1..Len(out[sock]) : Outstanding(i) /\ Outstanding(j) => i = j
      /\ \A i \in 1..Len(out[sock]) : Outstanding(i) => AnswerFits(i)
  BY <1>4 DEF Answers, Awaited
<1>6. PICK k \in 1..(2 * Len(req[sock]) - seen[sock]) :
           /\ seen' = [seen EXCEPT ![sock] = @ + k]
           /\ \/ UNCHANGED <<handled, out, srv, suser, chats>>
              \/ \E n \in 1..Len(req[sock]) :
                   /\ k = 2 /\ 2 * n = seen[sock] + 2 /\ handled' = [handled EXCEPT ![sock] = @ + 1]
                   /\ \/ req[sock][n].kind = "chat" /\ UNCHANGED <<out, srv, suser, chats>>
                      \/ /\ req[sock][n].kind = "reg" /\ SendTo(sock, <<"reg">>)
                         /\ UNCHANGED <<srv, suser, chats>>
                      \/ req[sock][n].kind = "login" /\ HandleLogin(sock, req[sock][n].user)
  BY <1>1, OnMessageCases
<1>7. /\ seen[sock] \in Nat /\ seen'[sock] = seen[sock] + k /\ k \in Nat /\ k >= 1
      /\ seen'[sock] <= 2 * N
  <2>1. seen \in [Conns -> Nat]
    BY TypedParts
  <2> QED BY <1>1, <1>4, <1>6, <2>1
<1>8. Quiet /\ seen[sock] < 2 * N
  BY <1>5, <1>7
<1>9. CASE UNCHANGED <<out, srv, suser>>
  <2>1. Quiet'
    BY <1>3, <1>8, <1>9, QuietSame
  <2>2. \A i \in 1..Len(out'[sock]) : ~Outstanding(i)'
    BY <1>3, <2>1 DEF Quiet
  <2>3. seen'[sock] >= 2 * N - 2
    BY <1>5, <1>7
  <2> QED BY <1>3, <1>4, <1>5, <2>1, <2>2, <2>3 DEF Awaited
<1>10. ASSUME NEW n \in 1..Len(req[sock]), k = 2, 2 * n = seen[sock] + 2,
              NEW kinds \in {<<"reg">>, <<"fail">>, <<"ok">>, <<"chat", "ok">>}, SendTo(sock, kinds),
              NEW kind \in {"reg", "login"}, req[sock][n].kind = kind,
              kind = "reg" => kinds = <<"reg">>,
              kind = "login" => kinds # <<"reg">>,
              kinds \notin {<<"reg">>, <<"fail">>} => srv'[sock] = "in" /\ suser'[sock] = req[sock][n].user
       PROVE  Awaited'
  <2>1. n = N /\ seen'[sock] = 2 * N /\ asked = kind
    <3>1. n = N
      BY <1>4, <1>5, <1>7, <1>10
    <3> QED BY <1>5, <1>7, <1>10, <3>1
  <2>2. kinds \in Seq(Kinds)
    BY <1>10, AnswerLines
  <2>3. /\ Len(out[sock]) \in Nat /\ Len(out'[sock]) \in Nat /\ Len(out'[sock]) <= Len(out[sock]) + Len(kinds)
        /\ \A i \in 1..Len(out'[sock]) : i > Len(out[sock]) => out'[sock][i] = kinds[i - Len(out[sock])]
    BY <1>1, <1>10, <2>2, SendToGrows
  <2>4. PICK p \in 1..2 :
          /\ Len(kinds) = p /\ \A q \in 1..p : kinds[q] # "chat" => q = p
          /\ kind = "reg" => kinds[p] = "reg"
          /\ kind = "login" => kinds[p] \in {"ok", "fail"}
          /\ kinds[p] = "ok" => kinds \notin {<<"reg">>, <<"fail">>}
    <3>1. kinds = <<"reg">> \/ kinds = <<"fail">> \/ kinds = <<"ok">> \/ kinds = <<"chat", "ok">>
      BY <1>10
    <3>2. CASE kinds = <<"reg">> \/ kinds = <<"fail">> \/ kinds = <<"ok">>
      <4>1. Len(kinds) = 1 /\ \A q \in 1..1 : q = 1
        BY <3>2
      <4>2. kind = "reg" => kinds[1] = "reg"
        BY <1>10
      <4>3. kind = "login" => kinds[1] \in {"ok", "fail"}
        BY <1>10, <3>2
      <4>4. kinds[1] = "ok" => kinds \notin {<<"reg">>, <<"fail">>}
        OBVIOUS
      <4> QED BY <4>1, <4>2, <4>3, <4>4
    <3>3. CASE kinds = <<"chat", "ok">>
      <4>1. Len(kinds) = 2 /\ kinds[1] = "chat" /\ kinds[2] = "ok"
        BY <3>3
      <4>2. kinds # <<"reg">> /\ kinds # <<"fail">> /\ kind # "reg"
        BY <1>10, <3>3
      <4> QED BY <4>1, <4>2
    <3> QED BY <3>1, <3>2, <3>3
  <2>5. ASSUME NEW i \in 1..Len(out'[sock]), Outstanding(i)'
        PROVE  i = Len(out[sock]) + p /\ out'[sock][i] = kinds[p]
    <3>1. out'[sock][i] # "chat"
      BY <1>3, <2>5 DEF Outstanding, Answer, Kind
    <3>2. CASE i <= Len(out[sock])
      <4>1. i \in 1..Len(out[sock])
        BY <2>3, <3>2
      <4>2. /\ got'[sock] \in Nat /\ got[sock] <= got'[sock]
            /\ \A h \in Nat : Buffered(<<sock, h>>)' => Buffered(<<sock, h>>)
        BY <1>1, <1>3, TypedParts DEF Buffered
      <4>3. Outstanding(i)
        BY <1>1, <1>3, <2>5, <4>1, <4>2, OutstandingBefore
      <4> QED BY <1>8, <4>1, <4>3 DEF Quiet
    <3>3. CASE i > Len(out[sock])
      <4>1. PICK q \in 1..p : q = i - Len(out[sock]) /\ i = Len(out[sock]) + q
        <5>1. i - Len(out[sock]) \in 1..p /\ i = Len(out[sock]) + (i - Len(out[sock]))
          BY <2>3, <2>4, <3>3
        <5> QED BY <5>1
      <4>2. out'[sock][i] = kinds[q]
        BY <2>3, <3>3, <4>1
      <4> QED BY <2>4, <3>1, <4>1, <4>2
    <3> QED BY <2>3, <3>2, <3>3
  <2>6. ASSUME NEW i \in 1..Len(out'[sock]), Outstanding(i)' PROVE AnswerFits(i)'
    <3>1. out'[sock][i] = kinds[p]
      BY <2>5, <2>6
    <3>2. asked = "login" => out'[sock][i] \in {"ok", "fail"}
      BY <2>1, <2>4, <3>1
    <3>3. asked # "login" => out'[sock][i] \in {"reg"}
      BY <2>1, <2>4, <3>1
    <3>4. ASSUME out'[sock][i] = "ok" PROVE LoggedIn'
      <4>1. srv'[sock] = "in" /\ suser'[sock] = req[sock][n].user
        BY <1>10, <2>4, <3>1, <3>4
      <4>2. asked = "login"
        BY <1>10, <2>1, <2>4, <3>1, <3>4
      <4> QED BY <1>3, <1>5, <2>1, <4>1, <4>2 DEF LoggedIn
    <3> QED BY <1>3, <3>2, <3>3, <3>4 DEF AnswerFits
  <2>7. \A i, j \in 1..Len(out'[sock]) : Outstanding(i)' /\ Outstanding(j)' => i = j
    BY <2>5
  <2>8. seen'[sock] >= 2 * N - 2 /\ ~(seen'[sock] < 2 * N)
    BY <2>1
  <2> QED BY <1>3, <1>4, <1>5, <2>6, <2>7, <2>8 DEF Awaited
<1>11. ASSUME NEW n \in 1..Len(req[sock]), k = 2, 2 * n = seen[sock] + 2,
              req[sock][n].kind = "login", HandleLogin(sock, req[sock][n].user)
       PROVE  Awaited'
  <2>1. req[sock][n].user \in Users \cup {None}
    <3>1. req[sock][n] \in Requests
      BY <1>1, TypedParts, ElementOfSeq
    <3> QED BY <3>1 DEF Requests
  <2>2. PICK kinds \in {<<"fail">>, <<"ok">>, <<"chat", "ok">>} :
          /\ SendTo(sock, kinds)
          /\ IF kinds = <<"fail">> THEN srv' = srv /\ suser' = suser
             ELSE srv'[sock] = "in" /\ suser'[sock] = req[sock][n].user
    BY <1>1, <1>11, <2>1, HandleLoginEffect
  <2>3. kinds # <<"reg">>
    BY <2>2
  <2>4. kinds \in {<<"reg">>, <<"fail">>, <<"ok">>, <<"chat", "ok">>}
    BY <2>2
  <2> QED BY <1>10, <1>11, <2>2, <2>3, <2>4
<1> QED BY <1>6, <1>9, <1>10, <1>11

LEMMA AnswersServer ==
  ASSUME TInv, StreamsOK, Answers, NEW c \in Conns,
         OnMessage(c) \/ ServerClose(c) \/ ServerChat(c) \/ Kick(c)
  PROVE  Answers'
<1>1. ServerEffect(c)
  BY ServerSteps
<1>2. UNCHANGED <<main, asked, who, sock, fd, lineBuf, got, req>> /\ Sent
  BY <1>1 DEF ServerEffect, mainVars, Sent
<1>3. OldAnswersGone'
  BY <1>2, OldAnswersStay DEF Answers
<1>4. main \in {"choose", "await", "menu"} => sock \in Conns /\ fd = sock /\ got[sock] \in Nat
  BY TypedParts DEF TInv, Connected
<1>5. \A h \in Nat : Buffered(<<sock, h>>)' => Buffered(<<sock, h>>)
  BY <1>2 DEF Buffered
<1>6. CASE main \notin {"choose", "await", "menu"}
  BY <1>2, <1>3, <1>6, AnswersFrame
<1>7. CASE main \in {"choose", "await", "menu"} /\ c # sock
  <2>1. /\ out'[sock] = out[sock] /\ seen'[sock] = seen[sock] /\ suser'[sock] = suser[sock]
        /\ srv'[sock] = srv[sock] \/ (srv[sock] = "in" /\ srv'[sock] = "shut")
    BY <1>1, <1>4, <1>7 DEF ServerEffect
  <2>2. LoggedIn => LoggedIn'
    BY <1>2, <2>1 DEF LoggedIn
  <2>3. got'[sock] \in Nat /\ got[sock] <= got'[sock] /\ req'[sock] = req[sock]
    BY <1>2, <1>4, <1>7
  <2>4. \A i \in 1..Len(out'[sock]) : i \notin 1..Len(out[sock]) => out'[sock][i] = "chat"
    BY <2>1
  <2> QED BY <1>2, <1>3, <1>5, <2>1, <2>2, <2>3, <2>4, AnswersFrame
<1>8. CASE main \in {"choose", "await", "menu"} /\ c = sock
  <2>1. got'[sock] \in Nat /\ got[sock] <= got'[sock] /\ req'[sock] = req[sock]
    BY <1>2, <1>4, <1>8
  <2>2. CASE Kick(c)
    <3>1. UNCHANGED <<out, seen, suser>> /\ srv' = [srv EXCEPT ![c] = "shut"]
      BY <2>2 DEF Kick
    <3>2. LoggedIn => LoggedIn'
      BY <1>2, <1>8, <3>1, TypedParts DEF LoggedIn
    <3>3. \A i \in 1..Len(out'[sock]) : i \notin 1..Len(out[sock]) => out'[sock][i] = "chat"
      BY <3>1
    <3> QED BY <1>2, <1>3, <1>5, <2>1, <3>1, <3>2, <3>3, AnswersFrame
  <2>3. CASE ServerClose(c)
    BY <1>4, <1>8, <2>3 DEF ServerClose, Held
  <2>4. CASE ServerChat(c)
    <3>1. UNCHANGED <<seen, suser, srv>> /\ SendTo(c, <<"chat">>)
      BY <2>4 DEF ServerChat
    <3>2. LoggedIn => LoggedIn'
      BY <1>2, <3>1 DEF LoggedIn
    <3>3. ASSUME NEW i \in 1..Len(out'[sock]), i \notin 1..Len(out[sock]) PROVE out'[sock][i] = "chat"
      <4>1. /\ Len(out[sock]) \in Nat /\ Len(out'[sock]) \in Nat
            /\ Len(out'[sock]) <= Len(out[sock]) + Len(<<"chat">>)
            /\ \A j \in 1..Len(out'[sock]) : j > Len(out[sock]) => out'[sock][j] = <<"chat">>[j - Len(out[sock])]
        BY <1>8, <3>1, AnswerLines, SendToGrows
      <4>2. i > Len(out[sock]) /\ i - Len(out[sock]) = 1
        BY <3>3, <4>1
      <4> QED BY <4>1, <4>2
    <3> QED BY <1>2, <1>3, <1>5, <2>1, <3>1, <3>2, <3>3, AnswersFrame
  <2>5. CASE OnMessage(c)
    <3>0. /\ seen[sock] \in Nat /\ Len(req[sock]) \in Nat /\ seen \in [Conns -> Nat]
      BY <1>4, <1>8, TypedParts
    <3>1. PICK k \in 1..(2 * Len(req[sock]) - seen[sock]) :
           /\ seen' = [seen EXCEPT ![sock] = @ + k]
           /\ \/ UNCHANGED <<handled, out, srv, suser, chats>>
              \/ \E n \in 1..Len(req[sock]) :
                   /\ k = 2 /\ 2 * n = seen[sock] + 2 /\ handled' = [handled EXCEPT ![sock] = @ + 1]
                   /\ \/ req[sock][n].kind = "chat" /\ UNCHANGED <<out, srv, suser, chats>>
                      \/ /\ req[sock][n].kind = "reg" /\ SendTo(sock, <<"reg">>)
                         /\ UNCHANGED <<srv, suser, chats>>
                      \/ req[sock][n].kind = "login" /\ HandleLogin(sock, req[sock][n].user)
      BY <1>8, <2>5, OnMessageCases
    <3>2. seen[sock] < seen'[sock] /\ seen[sock] < 2 * Len(req[sock]) /\ seen'[sock] \in Nat
      BY <1>8, <3>0, <3>1
    <3>3. main # "choose"
      BY <3>0, <3>2 DEF Answers, AtChoice
    <3>4. CASE main = "await"
      <4>1. Awaited'
        BY <1>8, <2>5, <3>4, AnswersOnMessage
      <4>2. AtChoice' /\ AtMenu'
        BY <1>2, <3>4 DEF AtChoice, AtMenu
      <4> QED BY <1>3, <4>1, <4>2 DEF Answers
    <3>5. CASE main = "menu"
      <4>1. \A n \in 1..Len(req[sock]) : 2 * n > seen[sock] => req[sock][n].kind = "chat"
        BY <3>5 DEF Answers, AtMenu
      <4>2. UNCHANGED <<out, srv, suser>>
        <5>1. ASSUME NEW n \in 1..Len(req[sock]), 2 * n = seen[sock] + 2 PROVE req[sock][n].kind = "chat"
          BY <3>0, <4>1, <5>1
        <5> QED BY <3>1, <5>1
      <4>3. Quiet' /\ LoggedIn'
        BY <1>2, <3>5, <4>2, QuietSame DEF Answers, AtMenu, LoggedIn
      <4>4. \A n \in 1..Len(req[sock]) : 2 * n > seen'[sock] => req[sock][n].kind = "chat"
        BY <3>0, <3>2, <4>1
      <4>5. AtMenu'
        BY <1>2, <4>3, <4>4 DEF AtMenu
      <4>6. AtChoice' /\ Awaited'
        BY <1>2, <3>5 DEF AtChoice, Awaited
      <4> QED BY <1>3, <4>5, <4>6 DEF Answers
    <3> QED BY <1>8, <3>3, <3>4, <3>5
  <2> QED BY <2>2, <2>3, <2>4, <2>5
<1> QED BY <1>6, <1>7, <1>8

LEMMA InitAnswers == Init => Answers
<1> SUFFICES ASSUME Init PROVE Answers
  OBVIOUS
<1>1. Ends(lineBuf) = {}
  <2>1. DOMAIN lineBuf = 1..0
    BY EmptySeq, LenProperties DEF Init
  <2> QED BY <2>1 DEF Ends
<1>2. main = "start"
  BY DEF Init
<1> QED BY <1>1, <1>2 DEF Answers, OldAnswersGone, AtChoice, Awaited, AtMenu

LEMMA AnswersStep == TInv /\ TInv' /\ StreamsOK /\ Answers /\ [Next]_vars => Answers'
<1> SUFFICES ASSUME TInv, TInv', StreamsOK, Answers, [Next]_vars PROVE Answers'
  OBVIOUS
<1>1. CASE Connect
  BY <1>1, AnswersConnect
<1>2. CASE Send \/ Ask("reg", None) \/ \E u \in Users : Ask("login", u)
  BY <1>2, AnswersRequests
<1>3. CASE Logout \/ Quit \/ MainEnd
  BY <1>3, AnswersLeave
<1>4. CASE MainReceive
  BY <1>4, AnswersMainReceive
<1>5. CASE MainLine
  BY <1>5, AnswersMainLine
<1>6. ASSUME NEW c \in Conns, ReceiverStep(c) PROVE Answers'
  BY <1>6, AnswersReceiver
<1>7. ASSUME NEW c \in Conns, ServerStep(c) \/ ServerChat(c) \/ Kick(c) PROVE Answers'
  BY <1>7, AnswersServer DEF ServerStep
<1>8. CASE UNCHANGED vars
  BY <1>8 DEF Answers, OldAnswersGone, AtChoice, Awaited, AtMenu, AnswerFits, Quiet, Outstanding, LoggedIn,
              Buffered, Ends, Answer, Kind, LineAt, vars, mainVars, serverVars
<1> QED BY <1>1, <1>2, <1>3, <1>4, <1>5, <1>6, <1>7, <1>8 DEF Next, MainStep

-----------------------------------------------------------------------------
(* The invariant and what follows from it                                  *)

IInv == TInv /\ StreamsOK /\ Answers /\ Ordered

LEMMA SpecIInv == Spec => []IInv
<1>1. Init => IInv
  BY InitTypes, InitStreams, InitAnswers, InitOrdered DEF IInv
<1>2. IInv /\ [Next]_vars => IInv'
  BY TypesStep, StreamsStep, AnswersStep, OrderedStep DEF IInv
<1> QED BY <1>1, <1>2, PTL DEF Spec

\* Who comes to the main menu is logged in on the present connection as the user
\* of the last request: no answer left in recvLine's buffer, sent to an earlier
\* request or connection, received in pieces, or taken by an older receiver
\* thread makes main believe what is not so.
THEOREM ClientMenuMeansLoggedIn == Spec => []MenuMeansLoggedIn
<1>1. IInv => MenuMeansLoggedIn
  BY DEF IInv, Answers, AtMenu, LoggedIn, MenuMeansLoggedIn
<1> QED BY <1>1, SpecIInv, PTL

\* No chat line is printed twice, in whatever pieces it is received, though
\* after a new login two threads may read the same connection with a buffer
\* each; and before any logout the lines are printed in the order they were sent.
THEOREM ClientShownOnce == Spec => []ShownOnce
<1>1. ASSUME IInv PROVE ShownOnce
  <2> SUFFICES ASSUME NEW i \in DOMAIN shown, NEW j \in DOMAIN shown, i < j
               PROVE  shown[i] # shown[j] /\ (sock = 1 => shown[i][2] < shown[j][2])
    BY DEF ShownOnce
  <2>1. i # j
    BY <1>1, TypedParts, LenProperties DEF IInv
  <2>2. shown[i] # shown[j]
    BY <1>1, <2>1 DEF IInv, StreamsOK, Streams, Distinct
  <2>3. ASSUME sock = 1 PROVE shown[i][2] < shown[j][2]
    BY <1>1, <2>3 DEF IInv, Ordered, Order, Ascending
  <2> QED BY <2>2, <2>3
<1> QED BY <1>1, SpecIInv, PTL

\* Before any logout a chat line that was received is printed, or on the way in
\* the thread's buffer, or was left in recvLine's buffer: nowhere else is one lost.
THEOREM ClientLostOnlyInLineBuf == Spec => []LostOnlyInLineBuf
<1>1. ASSUME IInv PROVE LostOnlyInLineBuf
  <2> SUFFICES ASSUME sock = 1, NEW i \in 1..(got[1] \div 2), out[1][i] = "chat"
               PROVE  \/ \E j \in DOMAIN shown : shown[j] = <<1, i>>
                      \/ \E j \in DOMAIN rbuf[1] : rbuf[1][j] = <<1, 2 * i>>
                      \/ \E j \in DOMAIN lineBuf : lineBuf[j] \in {<<1, 2 * i - 1>>, <<1, 2 * i>>}
    BY DEF LostOnlyInLineBuf
  <2>0. /\ 1 \in Conns /\ lineBuf \in Seq(Halves) /\ rbuf[1] \in Seq(Halves)
        /\ Len(lineBuf) \in Nat /\ Len(rbuf[1]) \in Nat
        /\ got[1] \in Nat /\ Len(out[1]) \in Nat /\ got[1] <= 2 * Len(out[1])
    BY <1>1, OneConnection DEF IInv
  <2>1. DOMAIN lineBuf = 1..Len(lineBuf) /\ DOMAIN rbuf[1] = 1..Len(rbuf[1])
    BY <2>0, LenProperties
  <2>2. PICK a \in Nat, b \in Nat : Order(a, b)
    BY <1>1 DEF IInv, Ordered
  <2>3. i \in Nat /\ 1 <= i /\ 2 * i <= got[1] /\ i \in 1..Len(out[1])
    BY <2>0
  <2>4. /\ Kept(a) = 2 * a + Len(lineBuf) /\ b + Len(rbuf[1]) = got[1]
        /\ Window(lineBuf, 2 * a) /\ Window(rbuf[1], b)
    BY <2>2 DEF Order, Placed, Kept
  <2>5. CASE 2 * i <= b
    <3>1. (\E k \in DOMAIN shown : shown[k] = <<1, i>>) \/ (a < i /\ 2 * i - 1 <= Kept(a))
      BY <2>2, <2>3, <2>5 DEF Order, Accounted
    <3>2. ASSUME a < i, 2 * i - 1 <= Kept(a)
          PROVE  \E j \in DOMAIN lineBuf : lineBuf[j] = <<1, 2 * i - 1>>
      <4>1. PICK j \in 1..Len(lineBuf) : 2 * a + j = 2 * i - 1
        <5>1. (2 * i - 1) - 2 * a \in 1..Len(lineBuf) /\ 2 * a + ((2 * i - 1) - 2 * a) = 2 * i - 1
          BY <2>0, <2>3, <2>4, <3>2
        <5> QED BY <5>1
      <4>2. lineBuf[j] = <<1, 2 * a + j>>
        BY <2>1, <2>4 DEF Window
      <4> QED BY <2>1, <4>1, <4>2
    <3> QED BY <3>1, <3>2
  <2>6. CASE ~(2 * i <= b)
    <3>1. PICK j \in 1..Len(rbuf[1]) : b + j = 2 * i
      <4>1. 2 * i - b \in 1..Len(rbuf[1]) /\ b + (2 * i - b) = 2 * i
        BY <2>0, <2>3, <2>4, <2>6
      <4> QED BY <4>1
    <3>2. rbuf[1][j] = <<1, b + j>>
      BY <2>1, <2>4 DEF Window
    <3> QED BY <2>1, <3>1, <3>2
  <2> QED BY <2>5, <2>6
<1> QED BY <1>1, SpecIInv, PTL
=============================================================================
