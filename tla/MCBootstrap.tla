---------------------------- MODULE MCBootstrap ----------------------------
(* A small instance of Bootstrap: two launchers, one file more than them, so *)
(* that there is always a fresh one for the lock.                            *)
EXTENDS Bootstrap

CONSTANTS a, b

TwoLaunchers == {a, b}
ThreeFiles == 1 .. 3
=============================================================================
