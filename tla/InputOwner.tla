----------------------------- MODULE InputOwner -----------------------------
(***************************************************************************)
(* Who drives the PC (host/src/main.cpp): the client that selected         *)
(* monitors last.  streams_client_id changes under ops_mutex;              *)
(* input_client_id mirrors it for the input handlers, which read it        *)
(* without that lock.  A takeover sets input_client_id, releases what the  *)
(* previous client held, and only then sets streams_client_id; a client    *)
(* that leaves resets input_client_id and releases.                        *)
(*                                                                         *)
(* The streams themselves are in HostStreams: here an operation stops and  *)
(* starts streams without saying which.  Operations that cannot change the *)
(* owner (a reconfiguration, virtual monitors) are left out: they only     *)
(* make the others wait for ops_mutex.                                     *)
(*                                                                         *)
(* HostInput and ScreenOff add their state to these steps.                 *)
(***************************************************************************)
CONSTANTS
  Clients,   \* connections; the server never reuses an id
  None       \* no client

ASSUME InputOwnerAssumption == None \notin Clients

VARIABLES
  conn,               \* the handler thread of each connection
  op,                 \* the operation under ops_mutex
  streams_client_id,
  input_client_id

ownerVars == <<conn, op, streams_client_id, input_client_id>>

NoOp == [step |-> "idle", by |-> None]

InitOwner ==
  /\ conn = [c \in Clients |-> "new"]
  /\ op = NoOp
  /\ streams_client_id = None
  /\ input_client_id = None

(* A handler reads its next message once it is done with the last one. *)
Serving(c) == conn[c] = "paired" /\ op.by # c

Connected(c) ==
  /\ conn[c] = "new" /\ op = NoOp
  /\ conn' = [conn EXCEPT ![c] = "paired"]
  /\ UNCHANGED <<op, streams_client_id, input_client_id>>

(* The connection ends; its handler then calls on_disconnected. *)
Dropped(c) ==
  /\ Serving(c)
  /\ conn' = [conn EXCEPT ![c] = "closed"]
  /\ UNCHANGED <<op, streams_client_id, input_client_id>>

(* A selection: streams stop first, for as long as that takes. *)
Selecting(c) ==
  /\ Serving(c) /\ op = NoOp
  /\ op' = [step |-> "retire", by |-> c]
  /\ UNCHANGED <<conn, streams_client_id, input_client_id>>

(* on_disconnected: one that does not stream only goes... *)
BystanderGone(c) ==
  /\ conn[c] = "closed" /\ op = NoOp /\ c # streams_client_id
  /\ conn' = [conn EXCEPT ![c] = "gone"]
  /\ UNCHANGED <<op, streams_client_id, input_client_id>>

(* ... the streaming one stops its streams. *)
OwnerLeaving(c) ==
  /\ conn[c] = "closed" /\ op = NoOp /\ c = streams_client_id
  /\ op' = [step |-> "retire", by |-> c]
  /\ UNCHANGED <<conn, streams_client_id, input_client_id>>

Leaving == conn[op.by] = "closed"

(* The streams have stopped, and the same client goes on. *)
SameOwner ==
  /\ op.step = "retire" /\ ~Leaving /\ op.by = streams_client_id
  /\ op' = NoOp
  /\ UNCHANGED <<conn, streams_client_id, input_client_id>>

SetInputClientKept ==   \* mutant: a client that leaves keeps driving
  /\ op.step = "retire" /\ (Leaving \/ op.by # streams_client_id)
  /\ input_client_id' = op.by
  /\ op' = [op EXCEPT !.step = "release"]
  /\ UNCHANGED <<conn, streams_client_id>>

(* The streams have stopped: from here the previous client is ignored. *)
SetInputClient ==
  /\ op.step = "retire" /\ (Leaving \/ op.by # streams_client_id)
  /\ input_client_id' = IF Leaving THEN None ELSE op.by
  /\ op' = [op EXCEPT !.step = "release"]
  /\ UNCHANGED <<conn, streams_client_id>>

(* release_input() is done; a takeover names the new owner. *)
OwnerSet ==
  /\ op.step = "release"
  /\ op' = NoOp
  /\ streams_client_id' = IF Leaving THEN streams_client_id ELSE op.by
  /\ conn' = IF Leaving THEN [conn EXCEPT ![op.by] = "gone"] ELSE conn
  /\ UNCHANGED input_client_id

OwnerTypeOK ==
  /\ conn \in [Clients -> {"new", "paired", "closed", "gone"}]
  /\ op \in [step : {"idle", "retire", "release"}, by : Clients \cup {None}]
  /\ streams_client_id \in Clients \cup {None}
  /\ input_client_id \in Clients \cup {None}

(* The hot path's copy and the owner agree outside a change of owner, and  *)
(* a client that drives the PC has not been forgotten by its handler.      *)
OwnersInv ==
  /\ op.step = "idle" <=> op.by = None
  /\ op.step = "idle" => op = NoOp
  /\ op.by # None => conn[op.by] \in {"paired", "closed"}
  /\ input_client_id # None /\ op.step # "release" =>
       input_client_id = streams_client_id /\ conn[input_client_id] \in {"paired", "closed"}
  /\ op.step = "release" => input_client_id = IF Leaving THEN None ELSE op.by
  /\ op.by # None /\ Leaving => op.by = streams_client_id

OwnersOK == OwnerTypeOK /\ OwnersInv

(* What a step of a module built on this one does to the owner. *)
OwnerNext ==
  \/ \E c \in Clients :
       Connected(c) \/ Dropped(c) \/ Selecting(c) \/ BystanderGone(c) \/ OwnerLeaving(c)
  \/ SameOwner \/ SetInputClient \/ OwnerSet
  \/ UNCHANGED ownerVars
=============================================================================
