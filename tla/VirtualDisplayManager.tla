----------------------- MODULE VirtualDisplayManager -----------------------
(* What the back ends of IVirtualDisplayManager                             *)
(* (host/include/driver/idd_manager.h) have in common.  A virtual screen is *)
(* known by its slot, its monitor id less VIRTUAL_MONITOR_ID_BASE.          *)
EXTENDS Integers, FiniteSets

CONSTANTS
    Slots,    \* 0 .. MAX_VIRTUAL_DISPLAYS - 1
    None

ASSUME ManagerAssumption == Slots \subseteq Nat /\ IsFiniteSet(Slots) /\ None \notin Slots

(* The slot a new screen takes, of those that are free.                     *)
Lowest(free) == CHOOSE n \in free : \A k \in free : n <= k
============================================================================
