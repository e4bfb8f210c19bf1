---------------------------- MODULE MCHostInput ----------------------------
(* HostInput on a small instance: the clients are interchangeable.         *)
EXTENDS HostInput, TLC
Symmetry == Permutations(Clients)
=============================================================================
