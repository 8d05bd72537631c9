---------------------------- MODULE MCWebAccount ----------------------------
(***************************************************************************)
(* Instances of WebAccount for TLC: three requests, so that one can arrive *)
(* while the query coroutine serves the other two.                         *)
(***************************************************************************)
EXTENDS WebAccount

CONSTANTS r1, r2, r3, n1

Reqs2 == {r1, r2}
Reqs3 == {r1, r2, r3}
Numbers1 == {n1}
=============================================================================
