---------------------------- MODULE MCChatService ----------------------------
(* Small instances of ChatService for TLC. *)
EXTENDS ChatService, TLC

CONSTANTS n1, n2, alice, bob, carol, c1, c2, c3

OneServer  == {n1}
TwoServers == {n1, n2}
TwoConns   == {c1, c3}
ThreeConns == {c1, c2, c3}

\* Every connection on one server; the last one on a server of its own.
AllOnOne     == [c \in {c1, c2, c3} |-> n1]
OnePerServer == [c \in {c1, c3} |-> IF c = c3 THEN n2 ELSE n1]
TwoAndOne    == [c \in {c1, c2, c3} |-> IF c = c3 THEN n2 ELSE n1]

\* Anyone on any connection; alice on both servers and bob beside her; bob on
\* one server, and either on the other.
Anyone      == [c \in Conns |-> Users]
AliceTwice  == (c1 :> {alice}) @@ (c2 :> {bob}) @@ (c3 :> {alice})
EitherToBob == (c1 :> {alice, bob}) @@ (c3 :> {bob})

AllInOneGroup == {Users}
NoGroups      == {}
Reliable      == {TRUE}

SymmetricOne   == Permutations(ThreeConns) \cup Permutations(Users)
SymmetricUsers == Permutations(Users)
=============================================================================
