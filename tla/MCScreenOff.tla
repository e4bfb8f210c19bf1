---------------------------- MODULE MCScreenOff ----------------------------
(* ScreenOff on a small instance: the clients are interchangeable.         *)
EXTENDS ScreenOff, TLC
Symmetry == Permutations(Clients)
=============================================================================
