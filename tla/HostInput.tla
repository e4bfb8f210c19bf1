----------------------------- MODULE HostInput -----------------------------
(***************************************************************************)
(* Mouse and keyboard of the headsets (host/src/main.cpp), and what stays  *)
(* pressed on the PC.                                                      *)
(*                                                                         *)
(* A handler checks that input is allowed and that its client drives the   *)
(* PC, and only then takes input_mutex and injects: `inflight` is a        *)
(* message between the two.  The host records what it pressed              *)
(* (held_keys, held_mouse.buttons) and lifts that when the owner changes.  *)
(* What is really down is the injectors' business (host/src/input): a      *)
(* desktop portal drops an event while its session is busy.                *)
(***************************************************************************)
EXTENDS InputOwner

CONSTANTS
  Keys,          \* key codes, modifiers among them
  Modifiers,     \* those that `modifiers` of a message presses around a key
  Buttons,       \* mouse buttons
  PanelToggles,  \* whether view-only is switched in the panel meanwhile
  SessionBusy,   \* whether the injector may drop an event
  NoMessage

ASSUME HostInputAssumption ==
  /\ Modifiers \subseteq Keys /\ Buttons \cap Keys = {}
  /\ PanelToggles \in BOOLEAN /\ SessionBusy \in BOOLEAN
  /\ NoMessage \notin [key : Keys, mods : SUBSET Modifiers, pressed : BOOLEAN]
  /\ NoMessage \notin [buttons : SUBSET Buttons]

VARIABLES
  view_only,
  presses,       \* per client: key-downs it sent, their key-up still to come
  clicked,       \* per client: the buttons of the last mouse message it sent
  inflight,      \* per handler: an accepted message not yet injected
  held_keys, held_buttons,   \* the host's record
  down_keys, down_buttons,   \* what is down on the PC
  stray,         \* history: keys and buttons pressed by a client that was
                 \* no longer driving
  refused        \* history: those let go while view-only refused to hear it

sentVars == <<presses, clicked>>
pressedVars == <<held_keys, held_buttons, down_keys, down_buttons, stray>>
heldVars == <<held_keys, held_buttons, down_keys, down_buttons, stray, refused>>
vars == <<ownerVars, view_only, sentVars, inflight, heldVars>>

(* A key goes down and up with the same modifiers around it: latched ones  *)
(* of the headset's keyboard around a key that is none, none on others.    *)
Presses == {p \in [key : Keys, mods : SUBSET Modifiers] : p.key \in Modifiers => p.mods = {}}
KeyMessages == [key : Keys, mods : SUBSET Modifiers, pressed : BOOLEAN]
MouseMessages == [buttons : SUBSET Buttons]

Init ==
  /\ InitOwner
  /\ view_only = FALSE
  /\ presses = [c \in Clients |-> {}]
  /\ clicked = [c \in Clients |-> {}]
  /\ inflight = [c \in Clients |-> NoMessage]
  /\ held_keys = {} /\ held_buttons = {}
  /\ down_keys = {} /\ down_buttons = {}
  /\ stray = {} /\ refused = {}

Down == down_keys \cup down_buttons
Touched(p) == {p.key} \cup (IF p.key \in Modifiers THEN {} ELSE p.mods)
Holding(c) == clicked[c] \cup UNION {Touched(p) : p \in presses[c]}

-----------------------------------------------------------------------------
(* A message is read.  Refused input leaves no trace on the host.          *)
Idle(c) == Serving(c) /\ inflight[c] = NoMessage

Accept(c, message) ==
  inflight' = [inflight EXCEPT
    ![c] = IF ~view_only /\ c = input_client_id THEN message ELSE NoMessage]

(* What a refused release leaves down. *)
Refuse(c, letgo) ==
  refused' = IF view_only /\ c = input_client_id
             THEN refused \cup (letgo \cap Down) ELSE refused

KeyDown(c, p) ==
  /\ Idle(c)
  /\ presses' = [presses EXCEPT ![c] = @ \cup {p}]
  /\ Accept(c, [key |-> p.key, mods |-> p.mods, pressed |-> TRUE])
  /\ UNCHANGED <<ownerVars, view_only, clicked, heldVars>>

KeyUp(c, p) ==
  /\ Idle(c) /\ p \in presses[c]
  /\ presses' = [presses EXCEPT ![c] = @ \ {p}]
  /\ Accept(c, [key |-> p.key, mods |-> p.mods, pressed |-> FALSE])
  /\ Refuse(c, Touched(p))
  /\ UNCHANGED <<ownerVars, view_only, clicked, pressedVars>>

Pointer(c, b) ==
  /\ Idle(c)
  /\ clicked' = [clicked EXCEPT ![c] = b]
  /\ Accept(c, [buttons |-> b])
  /\ Refuse(c, Buttons \ b)
  /\ UNCHANGED <<ownerVars, view_only, presses, pressedVars>>

-----------------------------------------------------------------------------
(* Under input_mutex.                                                      *)
Sent(events) == IF SessionBusy THEN SUBSET events ELSE {events}

(* Injectors send the buttons that differ from what they last sent. *)
Differ(b) == (b \ down_buttons) \cup (down_buttons \ b)
Flip(sent) == (down_buttons \ sent) \cup (sent \ down_buttons)

(* New presses are the client's own if it still drives the PC. *)
History(c, touched) ==
  LET down == down_keys' \cup down_buttons' IN
  /\ stray' = ((stray \ touched) \cup (IF c = input_client_id THEN {} ELSE touched))
                \cap down
  /\ refused' = (refused \ touched) \cap down

InjectKeyOnly(c) ==   \* mutant: the modifiers pressed around a key are not recorded
  /\ inflight[c] \in KeyMessages
  /\ LET m == inflight[c] IN
     /\ held_keys' = IF m.pressed THEN held_keys \cup {m.key} ELSE held_keys \ {m.key}
     /\ down_keys' = IF m.pressed THEN down_keys \cup Touched(m) ELSE down_keys \ Touched(m)
     /\ UNCHANGED down_buttons
     /\ History(c, Touched(m))
  /\ inflight' = [inflight EXCEPT ![c] = NoMessage]
  /\ UNCHANGED <<ownerVars, view_only, sentVars, held_buttons>>

InjectKey(c) ==
  /\ inflight[c] \in KeyMessages
  /\ LET m == inflight[c] IN
     /\ held_keys' = IF m.pressed THEN held_keys \cup Touched(m) ELSE held_keys \ Touched(m)
     /\ \E sent \in Sent(Touched(m)) :
          down_keys' = IF m.pressed THEN down_keys \cup sent ELSE down_keys \ sent
     /\ UNCHANGED down_buttons
     /\ History(c, Touched(m))
  /\ inflight' = [inflight EXCEPT ![c] = NoMessage]
  /\ UNCHANGED <<ownerVars, view_only, sentVars, held_buttons>>

InjectMouse(c) ==
  /\ inflight[c] \in MouseMessages
  /\ LET b == inflight[c].buttons IN
     /\ held_buttons' = b
     /\ \E sent \in Sent(Differ(b)) : down_buttons' = Flip(sent)
     /\ UNCHANGED down_keys
     /\ History(c, Buttons)
  /\ inflight' = [inflight EXCEPT ![c] = NoMessage]
  /\ UNCHANGED <<ownerVars, view_only, sentVars, held_keys>>

release_input_of_buttons ==   \* mutant: keys are lifted only with a button
  IF held_buttons = {} THEN UNCHANGED heldVars
  ELSE /\ down_buttons' = {} /\ down_keys' = down_keys \ held_keys
       /\ held_keys' = {} /\ held_buttons' = {}
       /\ stray' = {} /\ refused' = {}

(* release_input(): lift what the host recorded, and forget it. *)
release_input ==
  /\ IF held_buttons = {} THEN UNCHANGED down_buttons
     ELSE \E sent \in Sent(down_buttons) : down_buttons' = down_buttons \ sent
  /\ \E sent \in Sent(held_keys) : down_keys' = down_keys \ sent
  /\ held_keys' = {} /\ held_buttons' = {}
  /\ stray' = stray \cap (down_keys' \cup down_buttons')
  /\ refused' = refused \cap (down_keys' \cup down_buttons')

-----------------------------------------------------------------------------
Connect(c) == Connected(c) /\ UNCHANGED <<view_only, sentVars, inflight, heldVars>>

Drop(c) ==
  /\ Idle(c) /\ Dropped(c)
  /\ presses' = [presses EXCEPT ![c] = {}]
  /\ clicked' = [clicked EXCEPT ![c] = {}]
  /\ UNCHANGED <<view_only, inflight, heldVars>>

Select(c) ==
  /\ Idle(c) /\ Selecting(c)
  /\ UNCHANGED <<view_only, sentVars, inflight, heldVars>>

Leave(c) ==
  /\ BystanderGone(c) \/ OwnerLeaving(c)
  /\ UNCHANGED <<view_only, sentVars, inflight, heldVars>>

Retired ==
  /\ SameOwner \/ SetInputClient
  /\ UNCHANGED <<view_only, sentVars, inflight, heldVars>>

Release == OwnerSet /\ release_input /\ UNCHANGED <<view_only, sentVars, inflight>>

(* The panel's "Let headsets control this PC". *)
SetViewOnly ==
  /\ PanelToggles
  /\ view_only' = ~view_only
  /\ UNCHANGED <<ownerVars, sentVars, inflight, heldVars>>

Next ==
  \/ \E c \in Clients :
       \/ Connect(c) \/ Drop(c) \/ Select(c) \/ Leave(c)
       \/ InjectKey(c) \/ InjectMouse(c)
       \/ \E p \in Presses : KeyDown(c, p) \/ KeyUp(c, p)
       \/ \E b \in SUBSET Buttons : Pointer(c, b)
  \/ Retired \/ Release \/ SetViewOnly

Spec == Init /\ [][Next]_vars

-----------------------------------------------------------------------------
Messages == KeyMessages \cup MouseMessages \cup {NoMessage}

TypeOK ==
  /\ OwnerTypeOK
  /\ view_only \in BOOLEAN
  /\ presses \in [Clients -> SUBSET Presses]
  /\ clicked \in [Clients -> SUBSET Buttons]
  /\ inflight \in [Clients -> Messages]
  /\ held_keys \subseteq Keys /\ down_keys \subseteq Keys
  /\ held_buttons \subseteq Buttons /\ down_buttons \subseteq Buttons
  /\ stray \subseteq Keys \cup Buttons /\ refused \subseteq Keys \cup Buttons

(* Between operations the client whose input is taken is the streaming     *)
(* one, and its disconnect is still to come.                               *)
InputFollowsOwner ==
  op = NoOp /\ input_client_id # None =>
    /\ input_client_id = streams_client_id
    /\ conn[input_client_id] \in {"paired", "closed"}

(* What a client is holding: what it has sent down and not up, and what    *)
(* its handler is about to lift.  Nobody holds nothing; a client that is   *)
(* gone holds what its handler will release.                               *)
Wanted(c) ==
  Holding(c) \cup (IF inflight[c] \in KeyMessages THEN Touched(inflight[c]) ELSE {})
            \cup (IF inflight[c] \in MouseMessages THEN Buttons ELSE {})

(* Every key and button down on the PC is one that the client driving it   *)
(* holds: nothing stays pressed once its client let go, was replaced or    *)
(* went away, whatever the order of messages, takeovers and disconnects.   *)
(* Two exceptions the code has: what a client pressed whose message was    *)
(* accepted just before another took over (stray), and what was let go     *)
(* while view-only refused to hear it.                                     *)
DownIsHeldByDriver ==
  op.step # "release" =>
    \A x \in Down \ (stray \cup refused) :
      /\ input_client_id # None
      /\ conn[input_client_id] = "paired" => x \in Wanted(input_client_id)

(* Everything down on the PC is on record, so the next release lifts it:   *)
(* strays too.                                                             *)
DownIsRecorded == down_keys \subseteq held_keys /\ down_buttons \subseteq held_buttons
=============================================================================
