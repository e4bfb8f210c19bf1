-------------------------- MODULE ScreenOff_proofs --------------------------
(* Theorems about ScreenOff, for every number of clients and of messages   *)
(* under way.                                                              *)
EXTENDS ScreenOff, TLAPS

(* Who drives the PC: every change of owner keeps OwnersInv.               *)
LEMMA OwnersInit == InitOwner => OwnersOK
  BY InputOwnerAssumption DEF InitOwner, OwnersOK, OwnerTypeOK, OwnersInv, NoOp, Leaving

LEMMA OwnersKept ==
  ASSUME OwnersOK, OwnerNext
  PROVE  OwnersOK'
<1> USE InputOwnerAssumption DEF OwnersOK, OwnerTypeOK, OwnersInv, NoOp, Serving, Leaving
<1>1. ASSUME NEW c \in Clients, Connected(c) \/ Dropped(c) \/ Selecting(c) PROVE OwnersOK'
  BY <1>1 DEF Connected, Dropped, Selecting
<1>2. ASSUME NEW c \in Clients, BystanderGone(c) \/ OwnerLeaving(c) PROVE OwnersOK'
  BY <1>2 DEF BystanderGone, OwnerLeaving
<1>3. CASE SameOwner \/ SetInputClient
  BY <1>3 DEF SameOwner, SetInputClient
<1>4. CASE OwnerSet \/ UNCHANGED ownerVars
  BY <1>4 DEF OwnerSet, ownerVars
<1>5. QED BY <1>1, <1>2, <1>3, <1>4 DEF OwnerNext

(* What TypeOK says of the host's variables, and that nobody is left to    *)
(* darken the screen once main() has returned.                             *)
HostInv ==
  /\ toHost \in [Clients -> Seq(BOOLEAN)]
  /\ screen_off_client \in Clients \cup {None}
  /\ dark \in BOOLEAN
  /\ main \in {"loop", "seen", "stopServer", "exited"}
  /\ main = "exited" => op = NoOp /\ \A c \in Clients : conn[c] \in {"new", "gone"}

DarkInv == OwnersOK /\ HostInv /\ NeverDarkAlone

(* The clients' own steps, and main()'s that do not touch the screen.      *)
Elsewhere ==
  \/ \E c \in Clients : Toggle(c) \/ Renew(c) \/ Hear(c)
  \/ Look \/ Expire \/ SetViewOnly \/ Quit \/ StopServer
  \/ UNCHANGED vars

LEMMA DarkInit == Init => DarkInv
<1> SUFFICES ASSUME Init PROVE DarkInv
  OBVIOUS
<1>1. toHost \in [Clients -> Seq(BOOLEAN)]
  <2>1. <<>> \in Seq(BOOLEAN)
    OBVIOUS
  <2>2. QED BY <2>1 DEF Init
<1>2. QED
  BY <1>1, OwnersInit, InputOwnerAssumption
     DEF Init, DarkInv, HostInv, NeverDarkAlone

(* Every step is one of a change of owner, as far as the owner goes.       *)
LEMMA OwnerSteps ==
  ASSUME [Next]_vars
  PROVE  OwnerNext
<1> USE DEF OwnerNext
<1>1. CASE Elsewhere
  BY <1>1 DEF Elsewhere, Toggle, Renew, Hear, Look, Expire, SetViewOnly, Quit,
     StopServer, vars
<1>2. ASSUME NEW c \in Clients,
             Connect(c) \/ Drop(c) \/ Select(c) \/ Leave(c) \/ OnScreenOff(c)
      PROVE  OwnerNext
  BY <1>2 DEF Connect, Drop, Select, Leave, OnScreenOff
<1>3. CASE OwnerStep \/ Light \/ Exit
  BY <1>3 DEF OwnerStep, Light, Exit
<1>4. QED
  BY <1>1, <1>2, <1>3 DEF Next, HostStep, MainStep, Elsewhere

(* The invariant is kept by whatever leaves the screen and the handlers    *)
(* alone...                                                                *)
LEMMA ElsewhereDark ==
  ASSUME DarkInv, Elsewhere
  PROVE  HostInv' /\ NeverDarkAlone'
<1> USE DEF DarkInv, HostInv, NeverDarkAlone
<1>0. toHost' \in [Clients -> Seq(BOOLEAN)]
  <2>1. ASSUME NEW c \in Clients, NEW b \in BOOLEAN, Ask(c, b)
        PROVE  toHost' \in [Clients -> Seq(BOOLEAN)]
    BY <2>1 DEF Ask
  <2>2. CASE \E c \in Clients : Toggle(c) \/ Renew(c)
    BY <2>1, <2>2 DEF Toggle, Renew
  <2>3. CASE UNCHANGED toHost
    BY <2>3
  <2>4. QED
    BY <2>2, <2>3 DEF Elsewhere, Hear, Look, Expire, SetViewOnly, Quit, StopServer,
       clientVars, vars
<1>1. UNCHANGED <<ownerVars, screen_off_client, dark>>
  BY DEF Elsewhere, Toggle, Renew, Hear, Look, Expire, SetViewOnly, Quit,
     StopServer, mainVars, screenVars, vars
<1>2. main' = main \/ main' \in {"seen", "stopServer"}
  BY DEF Elsewhere, Toggle, Renew, Hear, Look, Expire, SetViewOnly, Quit,
     StopServer, mainVars, vars
<1>3. QED BY <1>0, <1>1, <1>2 DEF ownerVars

(* ... by the requests and the disconnects of a client...                  *)
LEMMA ClientDark ==
  ASSUME DarkInv, NEW c \in Clients,
         Connect(c) \/ Drop(c) \/ Select(c) \/ Leave(c) \/ OnScreenOff(c)
  PROVE  HostInv' /\ NeverDarkAlone'
<1> USE InputOwnerAssumption
    DEF DarkInv, HostInv, NeverDarkAlone, OwnersOK, OwnerTypeOK, OwnersInv, NoOp,
        mainVars, ownerVars, screenVars, clientVars
<1>1. CASE Connect(c)
  BY <1>1 DEF Connect, Connected, light_screen
<1>2. CASE Drop(c)
  BY <1>2 DEF Drop, Dropped, Serving
<1>3. CASE Select(c)
  BY <1>3 DEF Select, Selecting, Serving
<1>4. CASE Leave(c)
  <2>1. CASE screen_off_client = c
    BY <1>4, <2>1 DEF Leave, light_screen, BystanderGone, OwnerLeaving
  <2>2. CASE screen_off_client # c
    BY <1>4, <2>2 DEF Leave, BystanderGone, OwnerLeaving
  <2>3. QED BY <2>1, <2>2
<1>5. CASE OnScreenOff(c)
  <2>1. \/ UNCHANGED <<screen_off_client, dark>>
        \/ dark' = FALSE /\ screen_off_client' = None
        \/ dark' = TRUE /\ screen_off_client' = c
    BY <1>5 DEF OnScreenOff, Refuse, TurnOff, TurnOn, darken, light_screen
  <2>2. /\ conn[c] = "paired" /\ op = NoOp
        /\ UNCHANGED <<conn, op, main>>
    BY <1>5 DEF OnScreenOff, Serving
  <2>3. toHost' \in [Clients -> Seq(BOOLEAN)]
    <3>1. toHost[c] \in Seq(BOOLEAN) /\ toHost[c] # <<>>
      BY <1>5 DEF OnScreenOff
    <3>2. Tail(toHost[c]) \in Seq(BOOLEAN)
      BY <3>1
    <3>3. toHost' = [toHost EXCEPT ![c] = Tail(toHost[c])]
      BY <1>5 DEF OnScreenOff
    <3>4. QED BY <3>2, <3>3
  <2>4. op'.by # c /\ main' # "exited" /\ conn' = conn /\ op' = op
    BY <2>2
  <2>5. HostInv'
    BY <2>1, <2>2, <2>3, <2>4
  <2>6. NeverDarkAlone'
    BY <2>1, <2>2, <2>4
  <2>7. QED BY <2>5, <2>6
<1>6. QED BY <1>1, <1>2, <1>3, <1>4, <1>5

(* ... by a change of owner, main()'s light and exit.                      *)
LEMMA HostDark ==
  ASSUME DarkInv, OwnerStep \/ Light \/ Exit
  PROVE  HostInv' /\ NeverDarkAlone'
<1> USE InputOwnerAssumption
    DEF DarkInv, HostInv, NeverDarkAlone, OwnersOK, OwnerTypeOK, OwnersInv, NoOp,
        mainVars, ownerVars, screenVars, clientVars
<1>1. CASE OwnerStep
  BY <1>1 DEF OwnerStep, SameOwner, SetInputClient, OwnerSet, Leaving
<1>2. CASE Light
  BY <1>2 DEF Light, light_screen
<1>3. CASE Exit
  BY <1>3 DEF Exit, light_screen
<1>4. QED BY <1>1, <1>2, <1>3

LEMMA DarkKept == DarkInv /\ [Next]_vars => DarkInv'
<1> SUFFICES ASSUME DarkInv, [Next]_vars PROVE DarkInv'
  OBVIOUS
<1>1. OwnersOK'
  BY OwnerSteps, OwnersKept DEF DarkInv
<1>2. HostInv' /\ NeverDarkAlone'
  BY ElsewhereDark, ClientDark, HostDark DEF Next, HostStep, MainStep, Elsewhere
<1>3. QED BY <1>1, <1>2 DEF DarkInv

(* The screen is never dark without a headset on it: of any number of      *)
(* clients that take the PC over, lose their connections and leave, one    *)
(* that is connected, or whose disconnect is still to come, holds it.      *)
THEOREM NotDarkAlone == Spec => []NeverDarkAlone
<1>1. Spec => []DarkInv
  BY DarkInit, DarkKept, PTL DEF Spec
<1>2. DarkInv => NeverDarkAlone
  BY DEF DarkInv
<1>3. QED BY <1>1, <1>2, PTL

(* What may light a dark screen, for one step of the program. *)
LitStep ==
  dark /\ ~dark' =>
     \/ conn' # conn \/ op' # op \/ main' = "exited"
     \/ view_only \/ expired \/ screen_off_client # input_client_id
     \/ \E c \in Clients : c = input_client_id /\ toHost[c] # <<>>
          /\ ~Head(toHost[c]) /\ toHost'[c] = Tail(toHost[c])

LEMMA LitForOne ==
  ASSUME DarkInv, [Next]_vars
  PROVE  LitStep
<1> SUFFICES ASSUME dark, ~dark' PROVE LitStep
  BY DEF LitStep
<1> USE DEF LitStep
<1>1. CASE Elsewhere
  BY <1>1 DEF Elsewhere, Toggle, Renew, Hear, Look, Expire, SetViewOnly, Quit,
     StopServer, screenVars, vars
<1>2. ASSUME NEW c \in Clients, Connect(c) \/ Drop(c) \/ Select(c)
      PROVE  LitStep
  BY <1>2 DEF Connect, Connected, Drop, Select, screenVars, DarkInv, OwnersOK, OwnerTypeOK
<1>3. ASSUME NEW c \in Clients, Leave(c)
      PROVE  LitStep
  <2> USE DEF DarkInv, OwnersOK, OwnerTypeOK
  <2>1. CASE BystanderGone(c)
    <3>1. conn[c] = "closed" /\ conn'[c] = "gone"
      BY <2>1 DEF BystanderGone
    <3>2. QED BY <3>1
  <2>2. CASE OwnerLeaving(c)
    <3>1. op.step = "idle" /\ op'.step = "retire"
      BY <2>2 DEF OwnerLeaving, NoOp
    <3>2. QED BY <3>1
  <2>3. QED BY <1>3, <2>1, <2>2 DEF Leave
<1>4. ASSUME NEW c \in Clients, OnScreenOff(c)
      PROVE  LitStep
  <2>1. /\ c = input_client_id /\ toHost[c] # <<>> /\ ~Head(toHost[c])
    BY <1>4 DEF OnScreenOff, Refuse, TurnOff, darken, screenVars
  <2>2. toHost'[c] = Tail(toHost[c])
    BY <1>4 DEF OnScreenOff, DarkInv, HostInv
  <2>3. QED BY <2>1, <2>2
<1>5. CASE OwnerStep \/ Light \/ Exit
  BY <1>5 DEF OwnerStep, Light, ToLight, Exit, screenVars
<1>6. QED
  BY <1>1, <1>2, <1>3, <1>4, <1>5 DEF Next, HostStep, MainStep, Elsewhere

(* The screen is lit for one of the reasons LitForAReason lists and for no *)
(* other: a renewed lease of the client that drives the PC is never cut    *)
(* short by main(), which looks without the lock.                          *)
THEOREM LitOnlyForAReason == Spec => LitForAReason
<1>1. Spec => []DarkInv
  BY DarkInit, DarkKept, PTL DEF Spec
<1>2. DarkInv /\ [Next]_vars => [LitStep]_vars
  BY LitForOne
<1>3. Spec => [][LitStep]_vars
  BY <1>1, <1>2, PTL DEF Spec
<1>4. QED BY <1>3 DEF LitForAReason, LitStep
=============================================================================
