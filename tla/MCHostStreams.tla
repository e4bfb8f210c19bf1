--------------------------- MODULE MCHostStreams ---------------------------
(* Values of HostStreams' constants for TLC. *)
EXTENDS HostStreams, TLC

CONSTANTS c1, c2, m1, m2

Cfg(p, r) == [picture |-> p, rate |-> r]
Default == Cfg(0, 0)
AllConfigs == {Cfg(0, 0), Cfg(0, 1), Cfg(1, 0)}

NoConfigs == [c \in Clients |-> {}]
EveryConfig == [c \in Clients |-> AllConfigs]

ClientSymmetry == Permutations({c1, c2})
=============================================================================
