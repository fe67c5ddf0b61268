-------------------------- MODULE MCConnectionPool --------------------------
(***************************************************************************)
(* Values of the constants of ConnectionPool for TLC.                      *)
(***************************************************************************)
EXTENDS ConnectionPool

CONSTANTS r1, r2, r3

TwoRequests == {r1, r2}
ThreeRequests == {r1, r2, r3}
=============================================================================
