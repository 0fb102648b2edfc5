----------------------------- MODULE MCDirectory -----------------------------
(* Small instances of Directory for TLC. *)
EXTENDS Directory

CONSTANTS alice, bob, carol

ThreeUsers == {alice, bob, carol}

\* A connection each, named like its user.
OwnConn == [u \in Users |-> u]

\* alice and bob may add each other, at the same time.
AliceAndBob == {<<alice, bob>>, <<bob, alice>>}
=============================================================================
