-------------------------- MODULE MCConnectionPool --------------------------
(* A small instance of ConnectionPool for TLC. *)
EXTENDS ConnectionPool

CONSTANTS t1, t2, t3, t4

FourThreads == {t1, t2, t3, t4}
=============================================================================
