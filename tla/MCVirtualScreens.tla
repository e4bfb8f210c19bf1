-------------------------- MODULE MCVirtualScreens --------------------------
(* Instances of VirtualScreens for TLC.  Sessions are only compared.          *)
EXTENDS VirtualScreens

Renamings == Permutations(Sessions)
=============================================================================
