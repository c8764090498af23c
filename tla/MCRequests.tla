----------------------------- MODULE MCRequests -----------------------------
(* A small instance of Requests.                                             *)
EXTENDS Requests, TLC

CONSTANTS api, a, b

\* Two threads of one process.
Clients == [t \in Caller |-> api]

\* Two requests a tick, three in three.
Windows == {[seconds |-> 1, limit |-> 2], [seconds |-> 2, limit |-> 3]}

Threads == Permutations({a, b})
=============================================================================
