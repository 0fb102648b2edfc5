----------------------------- MODULE MCAccounts -----------------------------
(* A small instance of Accounts for TLC. *)
EXTENDS Accounts, TLC

CONSTANTS c1, c2, d1, d2, al, bob, nobody, longer, good, short, blank

Clients == {c1, c2}
Pool    == {d1, d2}
Opened  == <<d1, d2>>

\* The limits of reg, from both sides.
LengthOf    == (nobody :> 0) @@ (al :> 1) @@ (bob :> 20) @@ (longer :> 21)
PwdLengthOf == (blank :> 0) @@ (short :> 5) @@ (good :> 6)

Symmetry == Permutations(Clients)
=============================================================================
