----------------------------- MODULE FrameFeed -----------------------------
(* What a viewer of one monitor is promised whatever the network does to     *)
(* the frames: those of a stream are shown unaltered, each once and in       *)
(* order, and a frame that follows a missing one says so (the decoder then   *)
(* needs a keyframe).                                                        *)
EXTENDS Integers

CONSTANTS Frame   \* the encoded frame of each number

VARIABLES
    offered,  \* frame numbers the host encoded so far
    on,       \* the viewer knows of a stream
    prev,     \* the last frame it got of that stream
    picture   \* what it was given last

vars == <<offered, on, prev, picture>>

Init == offered = {} /\ on = FALSE /\ prev = 0 /\ picture = [n |-> 0, data |-> <<>>, gap |-> FALSE]

Offer ==
    /\ \E n \in DOMAIN Frame : (\A k \in offered : k < n) /\ offered' = offered \cup {n}
    /\ UNCHANGED <<on, prev, picture>>

Begin == on' = TRUE /\ \E n \in DOMAIN Frame : prev' = n - 1 /\ UNCHANGED <<offered, picture>>

End == on' = FALSE /\ prev' = 0 /\ UNCHANGED <<offered, picture>>

Show ==
    /\ on
    /\ \E n \in offered :
         /\ n > prev
         /\ picture' = [n |-> n, data |-> Frame[n], gap |-> n # prev + 1]
         /\ prev' = n
    /\ UNCHANGED <<offered, on>>

Next == Offer \/ Begin \/ End \/ Show

Spec == Init /\ [][Next]_vars
=============================================================================
