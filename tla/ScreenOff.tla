----------------------------- MODULE ScreenOff -----------------------------
(***************************************************************************)
(* The PC's main screen, darkened by the headset that works on it          *)
(* (host/src/main.cpp, "Main screen off"; client/project/scripts/main.gd). *)
(*                                                                         *)
(* The client that turned it off holds a lease and renews it every 2 s;    *)
(* main() lights the screen when the lease runs out (10 s), when another   *)
(* client drives the PC and in view-only.  It first looks without          *)
(* ops_mutex.  Connecting and leaving light it too.                        *)
(*                                                                         *)
(* Both directions of a connection are queues: the client's switch follows *)
(* the host's answers, which may cross its own requests.  Of time only     *)
(* `expired` is kept: whether the lease has run out.                       *)
(***************************************************************************)
EXTENDS InputOwner, Sequences, Integers

CONSTANTS
  MaxInFlight    \* bound: SCREEN_OFF messages of one client under way

ASSUME ScreenOffAssumption == MaxInFlight \in Nat \ {0}

VARIABLES
  g_running, main,     \* the quit flag, and where main() is
  view_only,
  screen_off_client,   \* who turned the screen off; None: it is lit
  expired,             \* the lease has run out
  dark,                \* the screen
  _screen_off,         \* per client: its switch
  toHost, toClient     \* SCREEN_OFF messages under way

mainVars   == <<g_running, main, view_only>>
screenVars == <<screen_off_client, expired, dark>>
clientVars == <<_screen_off, toHost>>
vars == <<ownerVars, mainVars, screenVars, clientVars, toClient>>

Init ==
  /\ InitOwner
  /\ g_running = TRUE /\ main = "loop"
  /\ view_only \in BOOLEAN
  /\ screen_off_client = None /\ expired = FALSE /\ dark = FALSE
  /\ _screen_off = [c \in Clients |-> FALSE]
  /\ toHost = [c \in Clients |-> <<>>]
  /\ toClient = [c \in Clients |-> <<>>]

-----------------------------------------------------------------------------
(* The client.                                                             *)
CanSend(c) == conn[c] = "paired" /\ Len(toHost[c]) + Len(toClient[c]) < MaxInFlight
Ask(c, off) == toHost' = [toHost EXCEPT ![c] = Append(@, off)]

(* The switch in the headset, or (off again) the headset taken off. *)
Toggle(c) ==
  /\ CanSend(c)
  /\ LET off == ~_screen_off[c] IN
     /\ _screen_off' = [_screen_off EXCEPT ![c] = off]
     /\ Ask(c, off)
  /\ UNCHANGED <<ownerVars, mainVars, screenVars, toClient>>


Renew(c) ==
  /\ CanSend(c) /\ _screen_off[c]
  /\ Ask(c, TRUE)
  /\ UNCHANGED <<ownerVars, mainVars, screenVars, _screen_off, toClient>>

(* The switch follows the host's word. *)
Hear(c) ==
  /\ conn[c] = "paired" /\ toClient[c] # <<>>
  /\ _screen_off' = [_screen_off EXCEPT ![c] = Head(toClient[c])]
  /\ toClient' = [toClient EXCEPT ![c] = Tail(@)]
  /\ UNCHANGED <<ownerVars, mainVars, screenVars, toHost>>

-----------------------------------------------------------------------------
(* The host.  `answers` is who is told what, in that order; a client whose *)
(* connection is gone is not told.                                         *)
Tell(answers) ==
  toClient' = [c \in Clients |->
    IF conn[c] # "paired" THEN toClient[c]
    ELSE LET mine == SelectSeq(answers, LAMBDA a : a.to = c)
         IN  toClient[c] \o [i \in 1..Len(mine) |-> mine[i].off]]

Answer(c, off) == <<[to |-> c, off |-> off]>>

(* light_screen_locked(), then `more` answers. *)
light_screen(more) ==
  /\ dark' = FALSE /\ screen_off_client' = None
  /\ UNCHANGED expired
  /\ Tell(IF screen_off_client = None THEN more
          ELSE Answer(screen_off_client, FALSE) \o more)

(* The screen goes dark, or stays so, for `c`. *)
darken(c) ==
  /\ dark' = TRUE /\ screen_off_client' = c /\ expired' = FALSE
  /\ Tell(IF screen_off_client = c THEN <<>> ELSE Answer(c, TRUE))

RefuseSilently(c) == c \in Clients /\ UNCHANGED <<toClient, screenVars>>   \* mutant
Refuse(c) == Tell(Answer(c, FALSE)) /\ UNCHANGED screenVars

(* SCREEN_OFF from a client. *)
TurnOn(c) == light_screen(IF screen_off_client = c THEN <<>> ELSE Answer(c, FALSE))

TurnOff(c) ==
  IF screen_off_client # None THEN darken(c)
  ELSE \/ ~view_only /\ darken(c)
       \/ Refuse(c)   \* view-only, or the backend cannot

OnScreenOff(c) ==
  /\ Serving(c) /\ op = NoOp /\ toHost[c] # <<>>
  /\ toHost' = [toHost EXCEPT ![c] = Tail(@)]
  /\ IF c # input_client_id THEN Refuse(c)
     ELSE IF Head(toHost[c]) THEN TurnOff(c) ELSE TurnOn(c)
  /\ UNCHANGED <<ownerVars, mainVars, _screen_off>>

-----------------------------------------------------------------------------
(* Every connection starts with the screen lit. *)
Connect(c) ==
  /\ main \in {"loop", "seen"} /\ Connected(c) /\ light_screen(<<>>)
  /\ UNCHANGED <<mainVars, clientVars>>

Drop(c) ==
  /\ Dropped(c)
  /\ _screen_off' = [_screen_off EXCEPT ![c] = FALSE]
  /\ toHost' = [toHost EXCEPT ![c] = <<>>]
  /\ toClient' = [toClient EXCEPT ![c] = <<>>]
  /\ UNCHANGED <<mainVars, screenVars>>

Select(c) == Selecting(c) /\ UNCHANGED <<mainVars, screenVars, clientVars, toClient>>

LeaveOwner(c) ==   \* mutant: only the streaming client's disconnect lights it
  /\ BystanderGone(c) \/ OwnerLeaving(c)
  /\ IF screen_off_client = c /\ c = streams_client_id THEN light_screen(<<>>)
     ELSE UNCHANGED <<screenVars, toClient>>
  /\ UNCHANGED <<mainVars, clientVars>>

Leave(c) ==
  /\ BystanderGone(c) \/ OwnerLeaving(c)
  /\ IF screen_off_client = c THEN light_screen(<<>>)
     ELSE UNCHANGED <<screenVars, toClient>>
  /\ UNCHANGED <<mainVars, clientVars>>

OwnerStep ==
  /\ SameOwner \/ SetInputClient \/ OwnerSet
  /\ UNCHANGED <<mainVars, screenVars, clientVars, toClient>>

-----------------------------------------------------------------------------
(* The main thread. *)
ToLightUnlessTaken == screen_off_client # None /\ (view_only \/ expired)   \* mutant
ToLight ==
  /\ screen_off_client # None
  /\ view_only \/ screen_off_client # input_client_id \/ expired

Look ==
  /\ main = "loop" /\ g_running /\ ToLight
  /\ main' = "seen"
  /\ UNCHANGED <<ownerVars, g_running, view_only, screenVars, clientVars, toClient>>

LightSeen ==   \* mutant: not checked again under ops_mutex
  /\ main = "seen" /\ op = NoOp
  /\ main' = "loop"
  /\ light_screen(<<>>)
  /\ UNCHANGED <<ownerVars, g_running, view_only, clientVars>>

Light ==
  /\ main = "seen" /\ op = NoOp
  /\ main' = "loop"
  /\ IF ToLight THEN light_screen(<<>>) ELSE UNCHANGED <<screenVars, toClient>>
  /\ UNCHANGED <<ownerVars, g_running, view_only, clientVars>>

Expire ==
  /\ dark /\ ~expired /\ expired' = TRUE
  /\ UNCHANGED <<ownerVars, mainVars, screen_off_client, dark, clientVars, toClient>>

SetViewOnly ==
  /\ main \in {"loop", "seen"}
  /\ view_only' = ~view_only
  /\ UNCHANGED <<ownerVars, g_running, main, screenVars, clientVars, toClient>>

Quit ==
  /\ g_running /\ g_running' = FALSE
  /\ UNCHANGED <<ownerVars, main, view_only, screenVars, clientVars, toClient>>

StopServer ==
  /\ main = "loop" /\ ~g_running
  /\ main' = "stopServer"
  /\ UNCHANGED <<ownerVars, g_running, view_only, screenVars, clientVars, toClient>>

Exit ==
  /\ main = "stopServer" /\ op = NoOp
  /\ \A c \in Clients : conn[c] \in {"new", "gone"}
  /\ main' = "exited"
  /\ light_screen(<<>>)
  /\ UNCHANGED <<ownerVars, g_running, view_only, clientVars>>

-----------------------------------------------------------------------------
HostStep(c) == Leave(c) \/ OnScreenOff(c)
MainStep == Look \/ Light \/ StopServer \/ Exit

Next ==
  \/ \E c \in Clients :
       \/ Connect(c) \/ Drop(c) \/ Select(c) \/ HostStep(c)
       \/ Toggle(c) \/ Renew(c) \/ Hear(c)
  \/ OwnerStep \/ MainStep \/ Expire \/ SetViewOnly \/ Quit

Spec == Init /\ [][Next]_vars

(* main() and the operations are scheduled, main() gets ops_mutex in its   *)
(* turn, and handlers whose socket server->stop() shut down leave.         *)
HandlersLeave == main = "stopServer" /\ \E c \in Clients : Drop(c) \/ Leave(c)
HostFairness ==
  /\ WF_vars(OwnerStep) /\ WF_vars(Look) /\ SF_vars(Light)
  /\ WF_vars(StopServer \/ Exit) /\ SF_vars(HandlersLeave)
HostFairSpec == Spec /\ HostFairness

(* Also: messages arrive and are handled, the client's timer renews while  *)
(* its switch is on, and a lease that nobody renews runs out.  Users,      *)
(* connections and the panel owe nothing.                                  *)
Unrenewed ==
  screen_off_client # None =>
    /\ conn[screen_off_client] = "paired" => ~_screen_off[screen_off_client]
    /\ toHost[screen_off_client] = <<>>
FairSpec ==
  /\ Spec /\ HostFairness /\ WF_vars(Unrenewed /\ Expire)
  /\ \A c \in Clients :
       WF_vars(Hear(c)) /\ WF_vars(Renew(c)) /\ SF_vars(OnScreenOff(c))

-----------------------------------------------------------------------------
TypeOK ==
  /\ OwnerTypeOK
  /\ g_running \in BOOLEAN /\ main \in {"loop", "seen", "stopServer", "exited"}
  /\ view_only \in BOOLEAN
  /\ screen_off_client \in Clients \cup {None}
  /\ expired \in BOOLEAN /\ dark \in BOOLEAN
  /\ _screen_off \in [Clients -> BOOLEAN]
  /\ toHost \in [Clients -> Seq(BOOLEAN)] /\ toClient \in [Clients -> Seq(BOOLEAN)]
  /\ \A c \in Clients : Len(toHost[c]) <= MaxInFlight

(* The screen is never dark without a headset on it, and not after the     *)
(* host has exited: its holder is connected or its disconnect, which       *)
(* lights it, is still to come.                                            *)
NeverDarkAlone ==
  /\ dark <=> screen_off_client # None
  /\ dark => conn[screen_off_client] \in {"paired", "closed"}
  /\ dark => ~(op.by = screen_off_client /\ conn[op.by] = "closed")
  /\ main = "exited" => ~dark

(* The screen is lit only for a reason: a client connects or the holder    *)
(* leaves, the client driving the PC asks, the lease ran out, the PC is    *)
(* driven by another or by none, view-only, exit.  A renewal that reaches  *)
(* the host before main() has ops_mutex keeps it dark.                     *)
LitForAReason ==
  [][dark /\ ~dark' =>
       \/ conn' # conn \/ op' # op \/ main' = "exited"
       \/ view_only \/ expired \/ screen_off_client # input_client_id
       \/ \E c \in Clients : c = input_client_id /\ toHost[c] # <<>>
            /\ ~Head(toHost[c]) /\ toHost'[c] = Tail(toHost[c])]_vars

(* A dark screen without a renewed lease of the client that drives the PC  *)
(* is lit (or the lease is renewed).                                       *)
MayBeDark == screen_off_client = input_client_id /\ ~view_only /\ ~expired
LitInTheEnd == (dark /\ ~MayBeDark) ~> (~dark \/ MayBeDark)

(* The client's switch comes to show the state of the screen: lost leases, *)
(* refusals and a change of holder reach it, however messages cross.       *)
Agrees(c) == conn[c] = "paired" => _screen_off[c] = (screen_off_client = c)
SwitchFollowsScreen == \A c \in Clients : ~Agrees(c) ~> Agrees(c)
=============================================================================
