------------------------------ MODULE MCClient ------------------------------
(* A small instance of Client for TLC, and what the client says and does not do. *)
EXTENDS Client

CONSTANTS alice, bob

\* main.cpp:114: the answers to logins and registrations were handled by the
\* main thread when the receiver thread runs: none gets to a receiver.
AnswersReachMain ==
  \A c, d \in Conns : \A i \in 1..Len(out[c]) :
    out[c][i] # "chat" => \A j \in DOMAIN rbuf[d] : rbuf[d][j] # <<c, 2 * i>>
=============================================================================
