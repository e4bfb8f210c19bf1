-------------------------- MODULE HostInput_proofs --------------------------
(* Theorems about HostInput, for any number of clients, keys and buttons.  *)
EXTENDS HostInput, TLAPS

(* Who drives the PC: every change of owner keeps OwnersInv.               *)
LEMMA OwnersInit == InitOwner => OwnersOK
  BY InputOwnerAssumption DEF InitOwner, OwnersOK, OwnerTypeOK, OwnersInv, NoOp, Leaving

LEMMA OwnersKept ==
  ASSUME OwnersOK, OwnerNext
  PROVE  OwnersOK'
<1> USE InputOwnerAssumption DEF OwnersOK, OwnerTypeOK, OwnersInv, NoOp, Serving, Leaving
<1>1. ASSUME NEW c \in Clients, Connected(c) \/ Dropped(c) \/ Selecting(c) PROVE OwnersOK'
  BY <1>1 DEF Connected, Dropped, Selecting
<1>2. ASSUME NEW c \in Clients, BystanderGone(c) \/ OwnerLeaving(c) PROVE OwnersOK'
  BY <1>2 DEF BystanderGone, OwnerLeaving
<1>3. CASE SameOwner \/ SetInputClient
  BY <1>3 DEF SameOwner, SetInputClient
<1>4. CASE OwnerSet \/ UNCHANGED ownerVars
  BY <1>4 DEF OwnerSet, ownerVars
<1>5. QED BY <1>1, <1>2, <1>3, <1>4 DEF OwnerNext

(* The steps that neither press nor lift anything. *)
OwnerOnly ==
  \/ \E c \in Clients : Connect(c) \/ Select(c) \/ Leave(c)
  \/ Retired \/ SetViewOnly

Reads ==
  \E c \in Clients :
    \/ \E p \in Presses : KeyDown(c, p) \/ KeyUp(c, p)
    \/ \E b \in SUBSET Buttons : Pointer(c, b)

Injects == \E c \in Clients : InjectKey(c) \/ InjectMouse(c)

LEMMA Steps ==
  ASSUME Next
  PROVE  OwnerOnly \/ Reads \/ Injects \/ Release \/ \E c \in Clients : Drop(c)
  BY DEF Next, OwnerOnly, Reads, Injects

(* Every step is one of a change of owner, as far as the owner goes.       *)
LEMMA OwnerSteps ==
  ASSUME [Next]_vars
  PROVE  OwnerNext
<1> USE DEF OwnerNext
<1>1. CASE OwnerOnly
  BY <1>1 DEF OwnerOnly, Connect, Select, Leave, Retired, SetViewOnly
<1>2. CASE Reads
  BY <1>2 DEF Reads, KeyDown, KeyUp, Pointer
<1>3. CASE Injects
  BY <1>3 DEF Injects, InjectKey, InjectMouse
<1>4. CASE Release \/ \E c \in Clients : Drop(c)
  BY <1>4 DEF Release, Drop
<1>5. CASE UNCHANGED vars
  BY <1>5 DEF vars
<1>6. QED BY <1>1, <1>2, <1>3, <1>4, <1>5, Steps

LEMMA OwnersAlways == Spec => []OwnersOK
<1>1. Init => OwnersOK
  BY OwnersInit DEF Init
<1>2. OwnersOK /\ [Next]_vars => OwnersOK'
  BY OwnerSteps, OwnersKept
<1>3. QED BY <1>1, <1>2, PTL DEF Spec

(* Between operations the client whose input is taken is the streaming     *)
(* one, and its disconnect is still to come.                               *)
THEOREM InputIsOwners == Spec => []InputFollowsOwner
<1>1. OwnersOK => InputFollowsOwner
  BY DEF OwnersOK, OwnersInv, InputFollowsOwner, NoOp
<1>2. QED BY <1>1, OwnersAlways, PTL

-----------------------------------------------------------------------------
(* What is recorded, with injectors that do what they are told.            *)

LEMMA MouseSent ==
  ASSUME NEW b, NEW down
  PROVE  (down \ ((b \ down) \cup (down \ b))) \cup (((b \ down) \cup (down \ b)) \ down) = b
  OBVIOUS

LEMMA InjectKeyDoes ==
  ASSUME ~SessionBusy, NEW c, InjectKey(c)
  PROVE  LET m == inflight[c] IN
         /\ held_keys' = IF m.pressed THEN held_keys \cup Touched(m) ELSE held_keys \ Touched(m)
         /\ down_keys' = IF m.pressed THEN down_keys \cup Touched(m) ELSE down_keys \ Touched(m)
         /\ UNCHANGED <<held_buttons, down_buttons>>
  BY DEF InjectKey, Sent

LEMMA InjectMouseDoes ==
  ASSUME ~SessionBusy, NEW c, InjectMouse(c)
  PROVE  /\ held_buttons' = inflight[c].buttons /\ down_buttons' = inflight[c].buttons
         /\ UNCHANGED <<held_keys, down_keys>>
<1> DEFINE b == inflight[c].buttons
<1>1. down_buttons' = Flip(Differ(b))
  BY DEF InjectMouse, Sent
<1>2. Flip(Differ(b)) = b
  BY MouseSent DEF Flip, Differ
<1>3. QED BY <1>1, <1>2 DEF InjectMouse

LEMMA RecordedInit == Init => DownIsRecorded
  BY DEF Init, DownIsRecorded

LEMMA RecordedKept ==
  ASSUME ~SessionBusy, DownIsRecorded, [Next]_vars
  PROVE  DownIsRecorded'
<1> USE DEF DownIsRecorded
<1>1. CASE OwnerOnly
  BY <1>1 DEF OwnerOnly, Connect, Select, Leave, Retired, SetViewOnly, heldVars
<1>2. CASE Reads
  BY <1>2 DEF Reads, KeyDown, KeyUp, Pointer, heldVars, pressedVars
<1>3. CASE Injects
  <2>1. ASSUME NEW c \in Clients, InjectKey(c) PROVE DownIsRecorded'
    BY <2>1, InjectKeyDoes
  <2>2. ASSUME NEW c \in Clients, InjectMouse(c) PROVE DownIsRecorded'
    BY <2>2, InjectMouseDoes
  <2>3. QED BY <1>3, <2>1, <2>2 DEF Injects
<1>4. CASE Release
  BY <1>4 DEF Release, release_input, Sent
<1>5. CASE \E c \in Clients : Drop(c)
  BY <1>5 DEF Drop, heldVars
<1>6. CASE UNCHANGED vars
  BY <1>6 DEF vars, heldVars
<1>7. QED BY <1>1, <1>2, <1>3, <1>4, <1>5, <1>6, Steps

(* Everything down on the PC is on record, late presses and overlapping    *)
(* modifiers included, so that the next release lifts all of it.           *)
THEOREM AllDownRecorded == ASSUME ~SessionBusy PROVE Spec => []DownIsRecorded
<1>1. DownIsRecorded /\ [Next]_vars => DownIsRecorded'
  BY RecordedKept
<1>2. QED BY <1>1, RecordedInit, PTL DEF Spec

-----------------------------------------------------------------------------
(* Types, and what a message in flight says of its client.                 *)

LEMMA MessagesDiffer == NoMessage \notin KeyMessages \cup MouseMessages
  BY HostInputAssumption DEF KeyMessages, MouseMessages

LEMMA TypeInit == Init => TypeOK
  BY OwnersInit DEF Init, TypeOK, OwnersOK, Messages

LEMMA TypeReads ==
  ASSUME TypeOK, OwnerTypeOK', Reads
  PROVE  TypeOK'
<1> USE DEF TypeOK, Messages, Accept, Refuse, Down, Touched, pressedVars, heldVars
<1>1. ASSUME NEW c \in Clients, NEW p \in Presses, KeyDown(c, p) PROVE TypeOK'
  BY <1>1 DEF KeyDown, Presses, KeyMessages
<1>2. ASSUME NEW c \in Clients, NEW p \in Presses, KeyUp(c, p) PROVE TypeOK'
  BY <1>2 DEF KeyUp, Presses, KeyMessages
<1>3. ASSUME NEW c \in Clients, NEW b \in SUBSET Buttons, Pointer(c, b) PROVE TypeOK'
  BY <1>3 DEF Pointer, MouseMessages
<1>4. QED BY <1>1, <1>2, <1>3 DEF Reads

LEMMA TypeInjects ==
  ASSUME TypeOK, OwnerTypeOK', Injects
  PROVE  TypeOK'
<1> USE DEF TypeOK, Messages, History
<1>1. ASSUME NEW c \in Clients, InjectKey(c) PROVE TypeOK'
  <2> DEFINE m == inflight[c]
  <2>1. Touched(m) \subseteq Keys
    BY <1>1, HostInputAssumption DEF InjectKey, KeyMessages, Touched
  <2>2. held_keys' \subseteq Keys /\ down_keys' \subseteq Keys
    BY <1>1, <2>1 DEF InjectKey, Sent
  <2>3. QED BY <1>1, <2>2 DEF InjectKey, sentVars
<1>2. ASSUME NEW c \in Clients, InjectMouse(c) PROVE TypeOK'
  <2>1. inflight[c].buttons \subseteq Buttons
    BY <1>2 DEF InjectMouse, MouseMessages
  <2>2. down_buttons' \subseteq Buttons
    BY <1>2, <2>1 DEF InjectMouse, Sent, Flip, Differ
  <2>3. QED BY <1>2, <2>1, <2>2 DEF InjectMouse, sentVars
<1>3. QED BY <1>1, <1>2 DEF Injects

LEMMA TypeKept ==
  ASSUME TypeOK, OwnersOK', [Next]_vars
  PROVE  TypeOK'
<1>1. OwnerTypeOK'
  BY DEF OwnersOK
<1> USE DEF TypeOK, Messages, sentVars, heldVars
<1>2. CASE OwnerOnly
  BY <1>1, <1>2 DEF OwnerOnly, Connect, Select, Leave, Retired, SetViewOnly
<1>3. CASE Release
  BY <1>1, <1>3 DEF Release, release_input, Sent
<1>4. CASE \E c \in Clients : Drop(c)
  BY <1>1, <1>4 DEF Drop
<1>5. CASE UNCHANGED vars
  BY <1>1, <1>5 DEF vars
<1>6. QED
  BY <1>1, <1>2, <1>3, <1>4, <1>5, TypeReads, TypeInjects, Steps

(* Every variable of HostInput keeps its type, whatever the injectors drop *)
(* and the panel switches.                                                 *)
THEOREM InputTypeCorrect == Spec => []TypeOK
  BY TypeInit, TypeKept, OwnersAlways, PTL DEF Spec

(* A handler injects a message before it reads the next: a press in flight *)
(* is one whose key-up is still to come, the buttons are the last ones.    *)
InFlightInv ==
  \A c \in Clients :
    /\ inflight[c] \in KeyMessages /\ inflight[c].pressed =>
         \E p \in presses[c] : p.key = inflight[c].key /\ p.mods = inflight[c].mods
    /\ inflight[c] \in MouseMessages => inflight[c].buttons = clicked[c]

LEMMA InFlightKept ==
  ASSUME TypeOK, InFlightInv, [Next]_vars
  PROVE  InFlightInv'
<1> USE MessagesDiffer DEF InFlightInv, TypeOK, sentVars
<1>1. CASE OwnerOnly \/ Release \/ UNCHANGED vars
  BY <1>1 DEF OwnerOnly, Connect, Select, Leave, Retired, SetViewOnly, Release, vars
<1>2. CASE Reads
  <2>1. ASSUME NEW c \in Clients, NEW p \in Presses, KeyDown(c, p) PROVE InFlightInv'
    BY <2>1 DEF KeyDown, Accept, MouseMessages
  <2>2. ASSUME NEW c \in Clients, NEW p \in Presses, KeyUp(c, p) PROVE InFlightInv'
    BY <2>2 DEF KeyUp, Accept, MouseMessages
  <2>3. ASSUME NEW c \in Clients, NEW b \in SUBSET Buttons, Pointer(c, b)
        PROVE  InFlightInv'
    BY <2>3 DEF Pointer, Accept, KeyMessages
  <2>4. QED BY <1>2, <2>1, <2>2, <2>3 DEF Reads
<1>3. CASE Injects
  BY <1>3 DEF Injects, InjectKey, InjectMouse
<1>4. CASE \E c \in Clients : Drop(c)
  BY <1>4 DEF Drop, Idle
<1>5. QED BY <1>1, <1>2, <1>3, <1>4, Steps

-----------------------------------------------------------------------------
(* What is down is what the driver holds.                                  *)

HeldInv ==
  /\ TypeOK /\ OwnersInv /\ InFlightInv
  /\ DownIsRecorded /\ DownIsHeldByDriver

(* What DownIsHeldByDriver says of one key or button. *)
HeldByDriver(x) ==
  /\ input_client_id # None
  /\ conn[input_client_id] = "paired" => x \in Wanted(input_client_id)

LEMMA HeldInit == Init => HeldInv
<1> SUFFICES ASSUME Init PROVE HeldInv
  OBVIOUS
<1>1. InFlightInv
  BY MessagesDiffer DEF Init, InFlightInv
<1>2. DownIsHeldByDriver
  BY DEF Init, DownIsHeldByDriver, Down
<1>3. QED
  BY <1>1, <1>2, TypeInit, RecordedInit, OwnersInit DEF Init, HeldInv, OwnersOK

(* Steps that leave the keyboard, the mouse and the driver alone.          *)
LEMMA OwnerOnlyHeld ==
  ASSUME HeldInv, OwnerOnly \/ UNCHANGED vars
  PROVE  DownIsHeldByDriver'
<1>1. UNCHANGED <<sentVars, inflight, heldVars>>
  BY DEF OwnerOnly, Connect, Select, Leave, Retired, SetViewOnly, vars
<1>2. CASE op'.step = "release"
  BY <1>2 DEF DownIsHeldByDriver
<1>3. ASSUME op'.step # "release"
      PROVE  /\ op.step # "release" /\ input_client_id' = input_client_id
             /\ input_client_id # None /\ conn'[input_client_id] = "paired"
                  => conn[input_client_id] = "paired"
  <2> USE InputOwnerAssumption DEF HeldInv, TypeOK, OwnerTypeOK, OwnersInv, NoOp
  <2>1. ASSUME NEW c \in Clients, Connect(c) PROVE <1>3!2
    BY <2>1 DEF Connect, Connected
  <2>2. ASSUME NEW c \in Clients, Select(c) \/ Leave(c) PROVE <1>3!2
    BY <2>2 DEF Select, Selecting, Leave, BystanderGone, OwnerLeaving
  <2>3. CASE Retired
    BY <1>3, <2>3 DEF Retired, SameOwner, SetInputClient
  <2>4. CASE SetViewOnly \/ UNCHANGED vars
    BY <1>3, <2>4 DEF SetViewOnly, vars, ownerVars
  <2>5. QED BY <2>1, <2>2, <2>3, <2>4 DEF OwnerOnly
<1>4. QED
  BY <1>1, <1>2, <1>3
     DEF HeldInv, DownIsHeldByDriver, Wanted, Holding, Down, sentVars, heldVars

(* A message read: what its client lets go is in flight, or refused.       *)
LEMMA ReadsHeld ==
  ASSUME HeldInv, Reads
  PROVE  DownIsHeldByDriver'
<1> SUFFICES ASSUME op'.step # "release", NEW x \in Down' \ (stray' \cup refused')
             PROVE  HeldByDriver(x)'
  BY DEF DownIsHeldByDriver, HeldByDriver
<1>1. UNCHANGED <<ownerVars, down_keys, down_buttons, stray>> /\ refused \subseteq refused'
  BY DEF Reads, KeyDown, KeyUp, Pointer, Refuse, heldVars, pressedVars
<1>2. x \in Down /\ x \in Keys \cup Buttons /\ HeldByDriver(x)
  BY <1>1 DEF HeldInv, TypeOK, DownIsHeldByDriver, HeldByDriver, Down, ownerVars
<1>3. SUFFICES ASSUME conn[input_client_id] = "paired"
               PROVE  x \in Wanted(input_client_id)'
  BY <1>1, <1>2 DEF HeldByDriver, ownerVars
<1> DEFINE d == input_client_id
<1>4. x \in Wanted(d) /\ d \in Clients
  BY <1>2, <1>3 DEF HeldByDriver, HeldInv, TypeOK, OwnerTypeOK
<1>5. d' = d
  BY <1>1 DEF ownerVars
<1> HIDE DEF d
<1> USE MessagesDiffer DEF HeldInv, TypeOK, Wanted, Holding
<1>6. ASSUME NEW c \in Clients, NEW p \in Presses, KeyDown(c, p)
      PROVE  x \in Wanted(d)'
  <2>1. CASE c # d
    BY <1>4, <1>5, <1>6, <2>1 DEF KeyDown, Accept
  <2>2. CASE c = d
    <3>1. x \in Holding(d)
      BY <1>4, <1>6, <2>2 DEF KeyDown, Idle
    <3>2. x \in Holding(d)'
      <4>1. clicked' = clicked /\ presses[d] \subseteq presses'[d]
        BY <1>4, <1>6, <2>2 DEF KeyDown
      <4>2. QED BY <1>5, <3>1, <4>1
    <3>3. QED BY <1>5, <3>2
  <2>3. QED BY <2>1, <2>2
<1>7. ASSUME NEW c \in Clients, NEW p \in Presses, KeyUp(c, p)
      PROVE  x \in Wanted(d)'
  <2>1. CASE c # d
    BY <1>4, <1>5, <1>7, <2>1 DEF KeyUp, Accept
  <2>2. CASE c = d /\ x \notin Touched(p)
    BY <1>4, <1>5, <1>7, <2>2 DEF KeyUp, Idle
  <2>3. CASE c = d /\ x \in Touched(p)
    <3>1. ~view_only
      BY <1>2, <1>7, <2>3 DEF KeyUp, Refuse, d
    <3>2. inflight'[d] = [key |-> p.key, mods |-> p.mods, pressed |-> FALSE]
      BY <1>4, <1>7, <2>3, <3>1 DEF KeyUp, Accept, d
    <3>3. inflight'[d] \in KeyMessages /\ Touched(inflight'[d]) = Touched(p)
      BY <3>2, <1>7 DEF Presses, KeyMessages, Touched
    <3>4. QED BY <1>5, <2>3, <3>3
  <2>4. QED BY <2>1, <2>2, <2>3
<1>8. ASSUME NEW c \in Clients, NEW b \in SUBSET Buttons, Pointer(c, b)
      PROVE  x \in Wanted(d)'
  <2>1. CASE c # d
    BY <1>4, <1>5, <1>8, <2>1 DEF Pointer, Accept
  <2>2. CASE c = d /\ (x \notin Buttons \/ x \in b)
    BY <1>4, <1>5, <1>8, <2>2 DEF Pointer, Idle
  <2>3. CASE c = d /\ x \in Buttons \ b
    <3>1. ~view_only
      BY <1>2, <1>8, <2>3 DEF Pointer, Refuse, d
    <3>2. inflight'[d] \in MouseMessages
      BY <1>4, <1>8, <2>3, <3>1 DEF Pointer, Accept, d, MouseMessages
    <3>3. QED BY <1>5, <2>3, <3>2
  <2>4. QED BY <2>1, <2>2, <2>3
<1>9. x \in Wanted(d)'
  BY <1>6, <1>7, <1>8 DEF Reads
<1>10. QED BY <1>5, <1>9 DEF d

(* A message injected: the driver's moves from the flight to what it holds *)
(* or is lifted, another client's is stray.                                *)
LEMMA InjectsHeld ==
  ASSUME ~SessionBusy, HeldInv, Injects
  PROVE  DownIsHeldByDriver'
<1> SUFFICES ASSUME op'.step # "release", NEW x \in Down' \ (stray' \cup refused')
             PROVE  HeldByDriver(x)'
  BY DEF DownIsHeldByDriver, HeldByDriver
<1>1. UNCHANGED <<ownerVars, sentVars>>
  BY DEF Injects, InjectKey, InjectMouse
<1> DEFINE d == input_client_id
<1>2. d' = d /\ conn' = conn /\ op' = op /\ presses' = presses /\ clicked' = clicked
  BY <1>1 DEF ownerVars, sentVars
<1> HIDE DEF d
<1>3. ASSUME NEW touched, x \notin touched, NEW c, History(c, touched), x \in Down
      PROVE  x \in Down \ (stray \cup refused)
  BY <1>3 DEF History, Down
<1>4. ASSUME x \in Down \ (stray \cup refused)
      PROVE  /\ d # None /\ d \in Clients
             /\ conn[d] = "paired" => x \in Wanted(d)
  BY <1>2, <1>4 DEF HeldInv, DownIsHeldByDriver, d, TypeOK, OwnerTypeOK
<1>5. ASSUME NEW c \in Clients, InjectKey(c)
      PROVE  HeldByDriver(x)'
  <2> DEFINE m == inflight[c]
  <2>1. /\ down_keys' = IF m.pressed THEN down_keys \cup Touched(m) ELSE down_keys \ Touched(m)
        /\ down_buttons' = down_buttons
    BY <1>5, InjectKeyDoes
  <2>2. Touched(m) \subseteq Keys /\ m \in KeyMessages
    BY <1>5, HostInputAssumption DEF InjectKey, KeyMessages, Touched
  <2>3. inflight' = [inflight EXCEPT ![c] = NoMessage] /\ History(c, Touched(m))
    BY <1>5 DEF InjectKey
  <2> HIDE DEF m
  <2>4. CASE x \in Touched(m)
    <3>1. m.pressed
      BY <2>1, <2>2, <2>4, HostInputAssumption DEF HeldInv, TypeOK, Down
    <3>2. c = d
      BY <2>3, <2>4 DEF History, Down, d
    <3>3. PICK p \in presses[c] : p.key = m.key /\ p.mods = m.mods
      BY <2>2, <3>1 DEF HeldInv, InFlightInv, m
    <3>4. x \in Holding(d)'
      BY <1>2, <2>4, <3>2, <3>3 DEF Holding, Touched
    <3>5. d # None
      BY <3>2, InputOwnerAssumption
    <3>6. QED BY <1>2, <3>4, <3>5 DEF HeldByDriver, Wanted, d
  <2>5. CASE x \notin Touched(m)
    <3>1. x \in Down
      BY <2>1, <2>5 DEF Down
    <3>2. /\ d # None /\ d \in Clients
          /\ conn[d] = "paired" => x \in Wanted(d)
      BY <1>3, <1>4, <2>3, <2>5, <3>1
    <3>3. ASSUME x \in Wanted(d) PROVE x \in Wanted(d)'
      <4>1. CASE c # d
        BY <1>2, <2>3, <3>2, <3>3, <4>1 DEF Wanted, Holding, HeldInv, TypeOK
      <4>2. CASE c = d
        <5>1. inflight[d] \notin MouseMessages
          BY <2>2, <4>2 DEF m, KeyMessages, MouseMessages
        <5>2. x \in Holding(d)
          BY <2>5, <3>3, <4>2, <5>1 DEF Wanted, m
        <5>3. QED BY <1>2, <5>2 DEF Wanted, Holding
      <4>3. QED BY <4>1, <4>2
    <3>4. QED BY <1>2, <3>2, <3>3 DEF HeldByDriver, d
  <2>6. QED BY <2>4, <2>5
<1>6. ASSUME NEW c \in Clients, InjectMouse(c)
      PROVE  HeldByDriver(x)'
  <2> DEFINE b == inflight[c].buttons
  <2>1. down_buttons' = b /\ down_keys' = down_keys
    BY <1>6, InjectMouseDoes
  <2>2. inflight[c] \in MouseMessages /\ b \subseteq Buttons
    BY <1>6 DEF InjectMouse, MouseMessages
  <2>3. inflight' = [inflight EXCEPT ![c] = NoMessage] /\ History(c, Buttons)
    BY <1>6 DEF InjectMouse
  <2>4. b = clicked[c]
    BY <2>2 DEF HeldInv, InFlightInv
  <2> HIDE DEF b
  <2>5. CASE x \in Buttons
    <3>1. c = d
      BY <2>3, <2>5 DEF History, Down, d
    <3>2. x \in b
      BY <2>1, <2>5, HostInputAssumption DEF HeldInv, TypeOK, Down
    <3>3. x \in Holding(d)' /\ d # None
      BY <1>2, <2>4, <3>1, <3>2, InputOwnerAssumption DEF Holding
    <3>4. QED BY <1>2, <3>3 DEF HeldByDriver, Wanted, d
  <2>6. CASE x \notin Buttons
    <3>1. x \in Down
      BY <2>1, <2>2, <2>6 DEF Down
    <3>2. /\ d # None /\ d \in Clients
          /\ conn[d] = "paired" => x \in Wanted(d)
      BY <1>3, <1>4, <2>3, <2>6, <3>1
    <3>3. ASSUME x \in Wanted(d) PROVE x \in Wanted(d)'
      <4>1. CASE c # d
        BY <1>2, <2>3, <3>2, <3>3, <4>1 DEF Wanted, Holding, HeldInv, TypeOK
      <4>2. CASE c = d
        <5>1. inflight[d] \notin KeyMessages
          BY <2>2, <4>2 DEF KeyMessages, MouseMessages
        <5>2. x \in Holding(d)
          BY <2>6, <3>3, <5>1 DEF Wanted
        <5>3. QED BY <1>2, <5>2 DEF Wanted, Holding
      <4>3. QED BY <4>1, <4>2
    <3>4. QED BY <1>2, <3>2, <3>3 DEF HeldByDriver, d
  <2>7. QED BY <2>5, <2>6
<1>7. QED BY <1>5, <1>6 DEF Injects

LEMMA HeldKept ==
  ASSUME ~SessionBusy, HeldInv, [Next]_vars
  PROVE  HeldInv'
<1>1. OwnersOK' /\ OwnersInv'
  BY OwnerSteps, OwnersKept DEF HeldInv, OwnersOK, TypeOK
<1>2. TypeOK' /\ InFlightInv' /\ DownIsRecorded'
  BY <1>1, TypeKept, InFlightKept, RecordedKept DEF HeldInv
<1>3. CASE Release
  <2>1. Down' = {}
    BY <1>3 DEF Release, release_input, Sent, HeldInv, DownIsRecorded, Down
  <2>2. QED BY <1>1, <1>2, <2>1 DEF HeldInv, DownIsHeldByDriver
<1>4. ASSUME NEW c \in Clients, Drop(c) PROVE DownIsHeldByDriver'
  <2>1. /\ op' = op /\ input_client_id' = input_client_id
        /\ \A e \in Clients : conn'[e] = "paired" => e # c /\ conn[e] = "paired"
    BY <1>4 DEF Drop, Dropped, HeldInv, TypeOK, OwnerTypeOK
  <2>2. UNCHANGED <<inflight, heldVars>>
    BY <1>4 DEF Drop
  <2>3. \A e \in Clients : e # c => Wanted(e)' = Wanted(e)
    BY <1>4, <2>2 DEF Drop, Wanted, Holding
  <2>4. QED
    BY <2>1, <2>2, <2>3 DEF HeldInv, DownIsHeldByDriver, Down, heldVars, TypeOK, OwnerTypeOK
<1>5. QED
  BY <1>1, <1>2, <1>3, <1>4, OwnerOnlyHeld, ReadsHeld, InjectsHeld, Steps DEF HeldInv

(* Whatever the order of messages, takeovers and disconnects, every key    *)
(* and button down on the PC is one that the client driving it holds, but  *)
(* for the two exceptions: a press that came after its client was          *)
(* replaced, a release that view-only refused.                             *)
THEOREM DownIsHeld == ASSUME ~SessionBusy PROVE Spec => []DownIsHeldByDriver
<1>1. HeldInv /\ [Next]_vars => HeldInv'
  BY HeldKept
<1>2. HeldInv => DownIsHeldByDriver
  BY DEF HeldInv
<1>3. QED BY <1>1, <1>2, HeldInit, PTL DEF Spec
=============================================================================
