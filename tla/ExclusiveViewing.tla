-------------------------- MODULE ExclusiveViewing --------------------------
(***************************************************************************)
(* What the host promises its clients about streams, as the clients see    *)
(* it: at any time one client owns the streams; only the owner is given    *)
(* streams, one per monitor; and the owner changes only when the previous  *)
(* one has been told that every stream of its own stopped.                 *)
(***************************************************************************)
CONSTANTS Clients, Monitors, Streams, NoStream, None

VARIABLES owner, shown

viewVars == <<owner, shown>>

Nothing == [m \in Monitors |-> NoStream]

Init ==
  /\ owner = None
  /\ shown = [c \in Clients |-> Nothing]

(* The owner is shown a stream on a monitor that showed none. *)
StreamStarts(m, s) ==
  /\ owner \in Clients
  /\ shown[owner][m] = NoStream
  /\ shown' = [shown EXCEPT ![owner][m] = s]
  /\ UNCHANGED owner

(* Some of the owner's streams stop. *)
StreamsStop(ms) ==
  /\ owner \in Clients
  /\ shown' = [shown EXCEPT ![owner] = [m \in Monitors |-> IF m \in ms THEN NoStream ELSE @[m]]]
  /\ UNCHANGED owner

(* Another client takes over: the previous owner shows nothing afterwards. *)
TakeOver(c) ==
  /\ owner' = c
  /\ shown' = [d \in Clients |-> IF d = owner THEN Nothing ELSE shown[d]]

(* A client goes away with all it showed. *)
ClientLeaves(c) ==
  /\ shown' = [shown EXCEPT ![c] = Nothing]
  /\ UNCHANGED owner

Next ==
  \/ \E m \in Monitors, s \in Streams : StreamStarts(m, s)
  \/ \E ms \in SUBSET Monitors : StreamsStop(ms)
  \/ \E c \in Clients : TakeOver(c) \/ ClientLeaves(c)

Spec == Init /\ [][Next]_viewVars
=============================================================================
