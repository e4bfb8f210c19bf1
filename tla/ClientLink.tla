------------------------------ MODULE ClientLink ------------------------------
(* How the headset's app stays connected to its PC (client/project/scripts:  *)
(* the connection part of main.gd, network_client.gd, usb_probe.gd and       *)
(* host_discovery.gd).                                                       *)
(*                                                                           *)
(* The PC is reached over the network, at an address that can change, or,    *)
(* preferably, through a USB cable. A lost connection is tried again, over   *)
(* the network when the cable went; a refused PIN or the user's Disconnect   *)
(* ends the tries. Time is left out: whatever waits for a delay can happen   *)
(* any time later.                                                           *)
EXTENDS Integers

CONSTANTS
    Lan,   \* addresses the PC can have on the network
    Usb,   \* 127.0.0.1, the PC at the other end of the cable
    None

ASSUME LinkAssumption == Lan # {} /\ Usb \notin Lan /\ None \notin Lan \cup {Usb}

VARIABLES
    net,                  \* the world: the host is up, its address, the cable, no place left
    current_state,
    host_ip,
    lan_ip,               \* _lan_ip
    should_reconnect,     \* _should_reconnect
    usb_paused,           \* _usb_paused
    connect_after_probe,  \* _connect_after_probe
    tcp,                  \* network_client: "none", "connecting", "hello" sent, "open"
                          \* (acknowledged), "cut" (and not noticed yet)
    pin,                  \* the PIN kept for the PC (_pins) is the right one
    prompt,               \* the menu asks for the PIN
    last_host_name,       \* _last_host_name is set
    hosts,                \* the address discovery lists for the PC
    wish                  \* history: "in" since the user, the launch or the cable got it
                          \* connected, "out" after Disconnect, "ask" after a refused PIN

address == <<host_ip, lan_ip, last_host_name, hosts>>
intent == <<should_reconnect, usb_paused, connect_after_probe, wish>>
pairing == <<pin, prompt>>
linkVars == <<net, current_state, address, intent, tcp, pairing>>

LinkTypeOK ==
    /\ net \in [up : BOOLEAN, lan : Lan \cup {None}, cable : BOOLEAN, full : BOOLEAN]
    /\ current_state \in {"DISCONNECTED", "CONNECTING", "CONNECTED", "STREAMING"}
    /\ host_ip \in Lan \cup {Usb, None} /\ lan_ip \in Lan \cup {None} /\ hosts \in Lan \cup {None}
    /\ {should_reconnect, usb_paused, connect_after_probe, pin, prompt, last_host_name}
         \subseteq BOOLEAN
    /\ tcp \in {"none", "connecting", "hello", "open", "cut"}
    /\ wish \in {"none", "in", "out", "ask"}

Path(ip) == net.up /\ IF ip = Usb THEN net.cable ELSE net.lan = ip
OnUsb == host_ip = Usb
Linked == current_state \in {"CONNECTED", "STREAMING"}

(* A first launch, or one that goes back to the PC used last.               *)
InitLink ==
    /\ net \in [up : {TRUE}, lan : {CHOOSE ip \in Lan : TRUE}, cable : BOOLEAN, full : {FALSE}]
    /\ connect_after_probe \in BOOLEAN
    /\ IF connect_after_probe THEN host_ip \in Lan /\ pin \in BOOLEAN
       ELSE host_ip = None /\ pin = FALSE
    /\ lan_ip = host_ip /\ last_host_name = connect_after_probe
    /\ wish = IF connect_after_probe THEN "in" ELSE "none"
    /\ current_state = "DISCONNECTED" /\ tcp = "none" /\ hosts = None
    /\ should_reconnect = FALSE /\ usb_paused = FALSE /\ prompt = FALSE

(***************************************************************************)
(* Connecting                                                              *)
(***************************************************************************)
(* connect_to_host() to ip, with nothing connected.                         *)
Dial(ip) ==
    /\ host_ip' = ip /\ current_state' = "CONNECTING" /\ tcp' = "connecting"
    /\ should_reconnect' = TRUE /\ usb_paused' = FALSE

HandleReconnect ==
    /\ should_reconnect /\ current_state = "DISCONNECTED"
    /\ Dial(host_ip)
    /\ UNCHANGED <<net, lan_ip, last_host_name, hosts, connect_after_probe, wish, pairing>>

(* With a tunnel and no host, adbd accepts and hangs up later.              *)
TcpOpens ==
    /\ tcp = "connecting"
    /\ Path(host_ip) \/ (OnUsb /\ net.cable)
    /\ tcp' = IF Path(host_ip) THEN "hello" ELSE "cut"
    /\ current_state' = "CONNECTED"
    /\ UNCHANGED <<net, address, intent, pairing>>

HelloAck ==
    /\ tcp = "hello" /\ ~net.full /\ (OnUsb \/ pin)
    /\ tcp' = "open" /\ last_host_name' = TRUE /\ prompt' = FALSE /\ wish' = "in"
    /\ lan_ip' = IF OnUsb THEN lan_ip ELSE host_ip
    /\ UNCHANGED <<net, current_state, host_ip, hosts, should_reconnect, usb_paused,
                   connect_after_probe, pin>>

(* Discovery, off while connected, forgot the PC in the meantime: that      *)
(* takes it 7 s.                                                            *)
DiscoveryRestarts == hosts' = IF Linked THEN None ELSE hosts

StayOnCable(wanted) ==   \* mutant: never back to the network
    /\ current_state' = "DISCONNECTED" /\ tcp' = "none"
    /\ host_ip' = host_ip
    /\ DiscoveryRestarts

(* _on_disconnected(): back to the network when the cable fails, while the  *)
(* connection is wanted.                                                    *)
Disconnected(wanted) ==
    /\ current_state' = "DISCONNECTED" /\ tcp' = "none"
    /\ host_ip' = IF wanted /\ OnUsb /\ lan_ip # None THEN lan_ip ELSE host_ip
    /\ DiscoveryRestarts

(* A connection that cannot be made, that ended, or that is silent.         *)
TcpFails ==
    /\ tcp = "cut" \/ (tcp = "connecting" /\ ~Path(host_ip))
    /\ Disconnected(should_reconnect)
    /\ UNCHANGED <<net, lan_ip, last_host_name, intent, pairing>>

(* _on_connection_rejected() and what follows: the PIN is missing or wrong, *)
(* too many were wrong (this one may be right then, and is not asked for),  *)
(* or the host has as many clients as it allows.                            *)
RefusedPin ==
    /\ tcp = "hello" /\ ~OnUsb
    /\ should_reconnect' = FALSE /\ wish' = "ask"
    /\ prompt' \in IF pin THEN {prompt} ELSE {TRUE, prompt}
    /\ Disconnected(FALSE)
    /\ UNCHANGED <<net, lan_ip, last_host_name, usb_paused, connect_after_probe, pin>>

RefusedFull ==
    /\ tcp = "hello" /\ net.full /\ (OnUsb \/ pin)
    /\ Disconnected(should_reconnect)
    /\ UNCHANGED <<net, lan_ip, last_host_name, intent, pairing>>

(***************************************************************************)
(* The cable                                                               *)
(***************************************************************************)
(* _update_usb_probe(): while enabled, UsbProbe checks every two seconds;   *)
(* a check under way is given up when it is disabled.                       *)
ProbeEnabled == ~usb_paused /\ ~(OnUsb /\ current_state # "DISCONNECTED")
ProbeReaches == net.up /\ net.cable /\ ~net.full

(* _on_usb_checked(true): the connection moves to the cable.                *)
SwitchToUsb ==
    /\ ProbeEnabled /\ ProbeReaches
    /\ Dial(Usb)
    /\ connect_after_probe' = FALSE
    /\ lan_ip' = IF host_ip \in Lan THEN host_ip ELSE lan_ip
    /\ DiscoveryRestarts
    /\ UNCHANGED <<net, last_host_name, wish, pairing>>

(* _on_usb_checked(false), which the launch's connection waited for.        *)
LaunchOverNetwork ==
    /\ connect_after_probe /\ ProbeEnabled /\ ~ProbeReaches
    /\ connect_after_probe' = FALSE
    /\ Dial(host_ip)
    /\ UNCHANGED <<net, lan_ip, last_host_name, hosts, wish, pairing>>

(***************************************************************************)
(* Discovery, which runs while not connected                               *)
(***************************************************************************)
(* _on_hosts_changed() with the PC in the list: only what changes the list  *)
(* is announced.                                                            *)
FollowHost(ip) ==
    /\ lan_ip' = IF last_host_name THEN ip ELSE lan_ip
    /\ host_ip' = IF should_reconnect /\ last_host_name /\ current_state = "DISCONNECTED"
                  THEN ip ELSE host_ip

HostAnswers ==
    /\ ~Linked /\ net.up /\ net.lan \notin {hosts, None}
    /\ hosts' = net.lan
    /\ FollowHost(net.lan)
    /\ UNCHANGED <<net, current_state, last_host_name, intent, tcp, pairing>>

HostForgotten ==
    /\ ~Linked /\ hosts # None /\ ~(net.up /\ net.lan = hosts)
    /\ hosts' = None
    /\ UNCHANGED <<net, current_state, host_ip, lan_ip, last_host_name, intent, tcp, pairing>>

(***************************************************************************)
(* The user, who leaves the menu alone until the launch's probe ended      *)
(* (the menu opens by itself after 6 s, the probe takes 1.5 s)             *)
(***************************************************************************)
(* _on_overlay_connect_requested(), for a PC listed, an address typed or the*)
(* cable: the menu offers it only while disconnected.                       *)
UserConnects(ip) ==
    /\ ~connect_after_probe /\ current_state = "DISCONNECTED"
    /\ Dial(ip)
    /\ wish' = "in"
    /\ UNCHANGED <<net, lan_ip, last_host_name, hosts, connect_after_probe, pairing>>

DisconnectBriefly ==   \* mutant: the cable connects again
    /\ ~connect_after_probe
    /\ should_reconnect' = FALSE /\ wish' = "out"
    /\ current_state' = "DISCONNECTED" /\ tcp' = "none"
    /\ DiscoveryRestarts
    /\ UNCHANGED <<net, host_ip, lan_ip, last_host_name, usb_paused, connect_after_probe, pairing>>

(* disconnect_from_host()                                                   *)
UserDisconnects ==
    /\ ~connect_after_probe
    /\ should_reconnect' = FALSE /\ usb_paused' = TRUE /\ wish' = "out"
    /\ current_state' = "DISCONNECTED" /\ tcp' = "none"
    /\ DiscoveryRestarts
    /\ UNCHANGED <<net, host_ip, lan_ip, last_host_name, connect_after_probe, pairing>>

(* _on_pin_entered(), as long as the menu asks                              *)
PinEntered(right) ==
    /\ prompt /\ current_state = "DISCONNECTED" /\ ~connect_after_probe
    /\ pin' = right /\ prompt' = FALSE
    /\ Dial(host_ip) /\ wish' = "in"
    /\ UNCHANGED <<net, lan_ip, last_host_name, hosts, connect_after_probe>>

(***************************************************************************)
(* The world: the host stops or starts, moves or leaves the network, fills *)
(* up, changes its PIN or closes the connection; the cable comes and goes  *)
(***************************************************************************)
WorldChanges ==
    /\ net' \in {[net EXCEPT !.up = ~@], [net EXCEPT !.cable = ~@], [net EXCEPT !.full = ~@]}
             \cup {[net EXCEPT !.lan = a] : a \in (Lan \cup {None}) \ {net.lan}}
    /\ UNCHANGED <<current_state, address, intent, pairing>>
    /\ tcp' = IF tcp \in {"hello", "open"} /\ ~Path(host_ip)' THEN "cut" ELSE tcp

PinChanged ==
    /\ pin /\ pin' = FALSE
    /\ UNCHANGED <<net, current_state, address, intent, tcp, prompt>>

Closed ==
    /\ tcp \in {"hello", "open"} /\ tcp' = "cut"
    /\ UNCHANGED <<net, current_state, address, intent, pairing>>
===============================================================================
