----------------------------- MODULE ClientSession -----------------------------
(* The headset's app and its PC: the connection (ClientLink) with what is    *)
(* shown over it (ClientScreens).                                            *)
EXTENDS ClientLink, ClientScreens

CONSTANT Budget  \* bound: what the user, the world, the network and other clients do

ASSUME BudgetAssumption == Budget \in Nat

VARIABLE left    \* what is left of Budget

vars == <<linkVars, screenVars, left>>

Init == InitLink /\ InitScreens /\ left = Budget

TypeOK == LinkTypeOK /\ ScreensTypeOK /\ left \in 0..Budget

(***************************************************************************)
(* Steps of the connection, with what they do to the screens               *)
(***************************************************************************)
Reconnect == HandleReconnect /\ UNCHANGED screenVars
Open == TcpOpens /\ UNCHANGED screenVars
Accepted == HelloAck /\ HostGreets
Failed == TcpFails /\ ScreensStay
Refused == (RefusedPin \/ RefusedFull) /\ ScreensStay

(* _switch_to(), as after a lost connection.                                *)
Switch == SwitchToUsb /\ IF current_state # "DISCONNECTED" THEN ScreensStay ELSE UNCHANGED screenVars
Launch == LaunchOverNetwork /\ UNCHANGED screenVars
Discovery == (HostAnswers \/ HostForgotten) /\ UNCHANGED screenVars

Link ==
    /\ Reconnect \/ Open \/ Accepted \/ Failed \/ Refused \/ Switch \/ Launch \/ Discovery
    /\ UNCHANGED left

(***************************************************************************)
(* Messages and frames                                                     *)
(***************************************************************************)
Reads ==
    \/ (OnMonitorList \/ OnResult) /\ UNCHANGED current_state
    \/ OnStreamStarted /\ current_state' = "STREAMING"
    \/ /\ OnStreamStopped
       /\ current_state' = IF panels' = {} /\ current_state = "STREAMING" THEN "CONNECTED"
                           ELSE current_state

(* Over the cable the frames are in the control connection: none overtakes. *)
InOrder(m) == tcp = "open" /\ (OnUsb => ~Contains(toClient, About("STREAM_START", m)))
Frame(m) == InOrder(m) /\ FrameSent(m)

Handles == HostSelects \/ HostKeyframe \/ HostCreates \/ HostRemoves

Client ==
    /\ \/ tcp \in {"open", "cut"} /\ Reads
       \/ (\E m \in Monitors : Frame(m) \/ ThrottleEnds(m)) /\ UNCHANGED current_state
    /\ UNCHANGED <<net, address, intent, tcp, pairing, left>>

Host ==
    /\ tcp = "open"
    /\ Handles \/ \E m \in Monitors : HostStarts(m)
    /\ UNCHANGED <<linkVars, left>>

(***************************************************************************)
(* What comes from outside                                                 *)
(***************************************************************************)
User ==
    \/ UserDisconnects /\ ScreensCleared
    \/ /\ (\E ip \in Lan \cup {Usb} : UserConnects(ip)) \/ (\E right \in BOOLEAN : PinEntered(right))
       /\ UNCHANGED screenVars
    \/ /\ Linked
       /\ CreateVirtual \/ \E m \in Monitors : SelectMonitor(m) \/ RemoveVirtual(m) \/ MatchVirtual(m)
       /\ UNCHANGED linkVars

World == (WorldChanges \/ PinChanged \/ Closed) /\ UNCHANGED screenVars

Others ==
    /\ \/ tcp = "open" /\ (TakenOver \/ \E m \in Virtual : OthersCreate(m) \/ OthersRemove(m))
       \/ tcp \notin {"open", "cut"} /\ \E m \in Virtual : OthersChange(m)
    /\ UNCHANGED linkVars

Lose ==
    /\ \E m \in Monitors : \/ tcp = "open" /\ ~OnUsb /\ FrameLost(m)
                           \/ InOrder(m) /\ FrameRefused(m)
    /\ UNCHANGED linkVars

Outside == left > 0 /\ left' = left - 1 /\ (User \/ World \/ Others \/ Lose)

Next == Link \/ Client \/ Host \/ Outside

Spec == Init /\ [][Next]_vars

(* The timers of the app run, the messages of a connection that holds are   *)
(* delivered, and a frame sent arrives or is lost.                          *)
FairSpec ==
    /\ Spec
    /\ WF_vars(Reconnect /\ UNCHANGED left) /\ WF_vars(Open /\ UNCHANGED left)
    /\ WF_vars(Accepted /\ UNCHANGED left) /\ WF_vars(Failed /\ UNCHANGED left)
    /\ WF_vars(Refused /\ UNCHANGED left) /\ WF_vars(Switch /\ UNCHANGED left)
    /\ WF_vars(Launch /\ UNCHANGED left)
    /\ WF_vars(Client /\ Reads) /\ WF_vars(Host /\ Handles)
    /\ \A m \in Monitors :
         /\ WF_vars(Client /\ Frame(m)) /\ WF_vars(Client /\ ThrottleEnds(m))
         /\ WF_vars(Host /\ HostStarts(m))

(***************************************************************************)
(* Properties                                                              *)
(***************************************************************************)
(* After Disconnect nothing connects again by itself, neither over the      *)
(* network nor when a check of the cable that was under way finds the PC,   *)
(* and nothing stays shown.                                                 *)
StaysAway ==
    wish = "out" => /\ current_state = "DISCONNECTED" /\ tcp = "none"
                    /\ panels = {} /\ decoder = Each("none")

(* Once all messages are read, the panels are the monitors the host streams *)
(* to this client, each with its decoder: whatever crossed on the way,      *)
(* before and after a connection was lost.                                  *)
Quiet ==
    /\ tcp = "open" /\ toClient = <<>> /\ \A i \in DOMAIN toHost : toHost[i].type = "REQUEST_KEYFRAME"
    /\ \A m \in Monitors : streams[m] # "starting"

PanelsFollowHost ==
    Quiet => /\ panels = {m \in Monitors : streams[m] = "live"}
             /\ \A m \in Monitors : decoder[m] # "none" <=> m \in panels

(* Once the PC can be reached for good and the user wants it (or plugged    *)
(* the cable in and did not say Disconnect), the app ends up connected,     *)
(* over the cable if there is one, and every stream with its first IDR:     *)
(* whatever was lost before. The address it has for the network is right.   *)
Reachable ==
    /\ net.up /\ ~net.full
    /\ \/ net.cable /\ wish # "out"
       \/ ~net.cable /\ wish = "in" /\ pin /\ lan_ip = net.lan /\ host_ip \in {Usb, net.lan}

Back ==
    /\ tcp = "open" /\ (net.cable => OnUsb)
    /\ \A m \in Monitors : streams[m] = "live" => decoder[m] \in {"good", "broken"}

ComesBack == <>[]Reachable => <>[]Back

(* A picture that lacks a reference is repaired: the loss was answered with *)
(* a new IDR, or the stream ended.                                          *)
PictureHeals == \A m \in Monitors : (decoder[m] = "broken" ~> decoder[m] # "broken")
================================================================================
