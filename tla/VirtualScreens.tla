--------------------------- MODULE VirtualScreens ---------------------------
(* The host's virtual screens and its main screen's switch                   *)
(* (host/src/main.cpp) over the back end of the desktop it runs on, with the *)
(* host killed and started again on the same desktop.                        *)
(*                                                                           *)
(* Requests run one at a time, under ops_mutex.  What they call waits only   *)
(* on GNOME, so only there other things happen in between.  Who holds the    *)
(* main screen off, and for how long, is ScreenOff's; streams of a removed   *)
(* screen are HostStreams'.                                                  *)
EXTENDS MainScreen, X11Screens, MutterScreens

CONSTANTS
    Backends,     \* of "x11", "mutter" and "windows"
    MaxRuns,      \* bound: times the host starts
    MaxEvents     \* bound: layouts, closed sessions and lost connections

ASSUME BackendsAssumption == Backends \subseteq {"x11", "mutter", "windows"}

VARIABLES
    backend,
    host,      \* "down", "up", "quitting", "killed"
    op,        \* the request in progress: "idle", "make", "list", "off", "renew", "light"
    slot,      \* the slot it is about
    told,      \* virtual screens in the monitor list the clients have
    probed,    \* the enumeration behind that list worked
    held,      \* screen_off_client # 0
    runs, events,
    killed     \* history: a host was killed

hostVars == <<host, op, slot, told, probed, held, runs, killed>>
vars == <<backend, screenVars, x11Vars, mutterVars, hostVars, events>>

X11 == backend = "x11"
Gnome == backend = "mutter"
Windows == backend = "windows"

Active == IF X11 THEN DOMAIN active_ ELSE Used
IdAfter(n) == IF X11 THEN n \in DOMAIN active_' ELSE g_screens'[n] # None

Init ==
    /\ backend \in Backends
    /\ InitScreen /\ InitX11 /\ InitMutter
    /\ host = "down" /\ op = "idle" /\ slot \in {CHOOSE n \in Slots : TRUE} /\ told = {} /\ probed = TRUE
    /\ held = FALSE /\ runs = 0 /\ events = 0 /\ killed = FALSE

-----------------------------------------------------------------------------
Idle == host = "up" /\ op = "idle"

Start ==
    /\ host \in {"down", "killed"} /\ runs < MaxRuns
    /\ host' = "up" /\ runs' = runs + 1 /\ told' = {} /\ probed' = TRUE
    /\ IF X11 THEN X11Start /\ X11Relight /\ UNCHANGED <<backlight, lost>> ELSE UNCHANGED x11Vars
    /\ Gnome => MutterRelight
    /\ Windows => UNCHANGED <<ramp, backlight, lost>>
    /\ UNCHANGED <<backend, primary, kept, curtain, mutterVars, op, slot, held, killed, events>>

(* When no slot is free: "limit reached".                                  *)
Create(w) ==
    /\ Idle /\ ~Windows /\ Slots \ Active # {}
    /\ IF X11
       THEN /\ slot' = Lowest(Slots \ Active)
            /\ X11Create(w, slot')
            /\ op' = (IF IdAfter(slot') THEN "list" ELSE "idle")
            /\ UNCHANGED mutterVars
       ELSE /\ slot' = Lowest({n \in Slots : Reconnected[n] = None})
            /\ MutterBegin(slot')
            /\ op' = (IF making' # None THEN "make" ELSE "idle")
            /\ UNCHANGED x11Vars
    /\ UNCHANGED <<backend, screenVars, host, told, probed, held, runs, killed, events>>

(* The rest of create_display() on GNOME.                                  *)
Made ==
    /\ op = "make"
    /\ \/ MutterMade
       \/ MutterTimesOut
    /\ op' = (IF g_screens' # g_screens THEN "list" ELSE "idle")
    /\ MonitorsChange(primary)
    /\ UNCHANGED <<backend, x11Vars, host, slot, told, probed, held, runs, killed, events>>

(* refresh_displays(): reads the monitors, and on GNOME the signals.       *)
Refresh ==
    /\ probed' \in BOOLEAN
    /\ IF Gnome /\ probed' THEN Pump ELSE UNCHANGED mutterVars

Listed == IF ~probed' THEN {} ELSE IF X11 THEN DOMAIN monitors ELSE {n \in Slots : g_screens'[n] # None}

(* The new screen is in the list: everyone gets it.                        *)
ListNew ==
    /\ op = "list" /\ op' = "idle"
    /\ Refresh /\ slot \in Listed
    /\ told' = Listed
    /\ UNCHANGED <<backend, screenVars, x11Vars, host, slot, held, runs, killed, events>>

LeaveIt == UNCHANGED <<x11Vars, mutterVars>>   \* mutant: a screen that does not show up is left
TakeBack == IF X11 THEN X11Remove(slot) /\ UNCHANGED mutterVars
            ELSE /\ UNCHANGED x11Vars
                 /\ IF slot \in Used THEN MutterRemove(slot) ELSE UNCHANGED mutterVars

(* It is not, for 3 s.  (On GNOME the enumerations have read the signals.) *)
GiveUp ==
    /\ op = "list" /\ op' = "idle"
    /\ TakeBack
    /\ IF Gnome THEN MonitorsChange(primary) ELSE UNCHANGED screenVars
    /\ UNCHANGED <<backend, host, slot, told, probed, held, runs, killed, events>>

(* remove_virtual_locked(), by a headset or in the panel; and the list.    *)
RemoveScreen(n) ==
    /\ IF X11 THEN X11Remove(n) /\ UNCHANGED mutterVars
       ELSE UNCHANGED x11Vars /\ MutterRemove(n)
    /\ IF Gnome THEN MonitorsChange(primary) ELSE UNCHANGED screenVars

RemoveAsked(n) ==
    /\ Idle /\ n \in Active
    /\ RemoveScreen(n)
    /\ probed' \in BOOLEAN
    /\ told' = (IF probed' THEN Active \ {n} ELSE {})
    /\ UNCHANGED <<backend, host, op, slot, held, runs, killed, events>>

-----------------------------------------------------------------------------
(* set_primary_off().  On GNOME it ends in a second step.                  *)
SetOff(o, off) ==
    /\ IF Gnome /\ (off \/ dark_) THEN MutterAsk(off) /\ op' = o
       ELSE /\ op' = "idle"
            /\ CASE X11 -> X11Set(off) [] Windows -> WindowsSet(off) [] OTHER -> UNCHANGED screenVars
    /\ UNCHANGED <<backend, x11Vars, mutterVars, host, slot, told, probed, runs, killed, events>>

SwitchOff ==
    /\ Idle /\ ~held /\ SetOff("off", TRUE)
    /\ held' = IF X11 THEN X11IsOff ELSE Windows /\ curtain'

Renew == Idle /\ held /\ SetOff("renew", TRUE) /\ UNCHANGED held

(* light_screen_locked().                                                  *)
Light ==
    /\ host \in {"up", "quitting"} /\ op = "idle" /\ held
    /\ held' = FALSE
    /\ SetOff("light", FALSE)

(* The second step.                                                        *)
Set ==
    /\ op \in {"off", "renew", "light"} /\ op' = "idle"
    /\ MutterSet(op # "light")
    /\ held' = IF op = "off" THEN dark_' ELSE held
    /\ UNCHANGED <<backend, x11Vars, mutterVars, host, slot, told, probed, runs, killed, events>>

-----------------------------------------------------------------------------
Quit ==
    /\ host = "up" /\ op = "idle" /\ host' = "quitting"
    /\ UNCHANGED <<backend, screenVars, x11Vars, mutterVars, op, slot, told, probed, held, runs, killed, events>>

(* remove_all_displays(); the connection goes with the process.            *)
QuitRemoves ==
    /\ host = "quitting" /\ ~held /\ op = "idle" /\ Active # {}
    /\ RemoveScreen(Lowest(Active))
    /\ UNCHANGED <<backend, hostVars, events>>

Quitted ==
    /\ host = "quitting" /\ ~held /\ op = "idle" /\ Active = {}
    /\ host' = "down"
    /\ ForgetScreen /\ MutterKilled
    /\ UNCHANGED <<backend, desk, lost, x11Vars, op, slot, told, probed, held, runs, killed, events>>

Kill ==
    /\ host \in {"up", "quitting"}
    /\ host' = "killed" /\ killed' = TRUE /\ op' = "idle" /\ held' = FALSE
    /\ ForgetScreen /\ X11Killed /\ MutterKilled
    /\ ramp' = (IF sessions \ orphans # {} THEN AllOwn ELSE ramp)   \* GNOME: the monitors change
    /\ UNCHANGED <<backend, primary, backlight, lost, slot, told, probed, runs, events>>

(* A stream worker asks whether its screen still exists.                   *)
Exists ==
    /\ Gnome /\ host \in {"up", "quitting"} /\ queue # <<>> /\ Pump
    /\ UNCHANGED <<backend, screenVars, x11Vars, hostVars, events>>

(* The desktop.                                                            *)
Rearranged ==
    /\ events < MaxEvents /\ events' = events + 1
    /\ \E c \in Crtcs :
          IF Gnome THEN MonitorsChange(c) /\ UNCHANGED x11Vars
          ELSE /\ primary' = c
               /\ UNCHANGED <<ramp, backlight, kept, curtain, lost>>
               /\ IF X11 THEN \E p \in Layouts : Relayout(p) ELSE UNCHANGED x11Vars
    /\ UNCHANGED <<backend, mutterVars, hostVars>>

SessionCloses ==
    /\ Gnome /\ events < MaxEvents /\ events' = events + 1
    /\ \/ \E s \in sessions : CompositorCloses(s)
       \/ BusLost
    /\ MonitorsChange(primary)
    /\ UNCHANGED <<backend, x11Vars, hostVars>>

StreamComes == Gnome /\ StreamAdded /\ UNCHANGED <<backend, screenVars, x11Vars, hostVars, events>>

Next ==
    \/ Start \/ Quit \/ QuitRemoves \/ Quitted \/ Kill
    \/ (\E w \in Widths : Create(w)) \/ Made \/ ListNew \/ GiveUp
    \/ \E n \in Slots : RemoveAsked(n)
    \/ SwitchOff \/ Renew \/ Light \/ Set
    \/ Exists \/ Rearranged \/ SessionCloses \/ StreamComes

Spec == Init /\ [][Next]_vars

-----------------------------------------------------------------------------
(* Nothing of a virtual screen outlives it on the desktop: a RandR monitor *)
(* belongs to a screen in the host's list, and so does a session of the    *)
(* compositor that the host was told of, or to a screen being made,        *)
(* whatever failed on the way; the framebuffer shrinks with the screens    *)
(* while one needs more than the desktop had; with the host gone there is  *)
(* no monitor, and a host that was killed is cleaned up after.  What does  *)
(* stay behind is the subject of ShrunkBack and OneSessionPerScreen, which *)
(* TLC refutes.                                                            *)
NoneLeftBehind ==
    host # "killed" =>
        /\ DOMAIN monitors \subseteq DOMAIN active_
        /\ \A s \in sessions \ orphans :
              (\E n \in Slots : g_screens[n] = s) \/ (making # None /\ making.session = s)
        /\ X11 => GrownAsNeeded

(* "The screen (framebuffer) is grown to the right to make room when it    *)
(* has to be, and shrunk back as they go" (x11_capture.cpp:329-331): with  *)
(* no virtual screen left it is what it was when the host started, unless  *)
(* the desktop was rearranged.                                             *)
ShrunkBack == X11 /\ host = "up" /\ ~relaid /\ DOMAIN active_ = {} => rootWidth = base_w_

(* "One pair of sessions per screen" (mutter_virtual.cpp:3): between       *)
(* requests the compositor has a session for a screen and no other.        *)
OneSessionPerScreen ==
    op = "idle" /\ host = "up" => \A s \in sessions : \E n \in Slots : g_screens[n] = s

(* The main screen is lit when no headset holds it off: after every lease, *)
(* after an orderly exit and after the start that follows a kill, with     *)
(* monitors changing and ramps put back at any point, unless a call that   *)
(* should have lit it failed.  (A host killed while the screen was off     *)
(* leaves the panel's backlight at its minimum, whatever starts next.)     *)
LitUnlessHeld ==
    op = "idle" /\ ~held /\ host # "killed" /\ ~lost =>
        /\ \A c \in Crtcs : ramp[c] = "own"
        /\ ~killed => backlight = "own"
        /\ ~curtain

(* Virtual screens are never on top of one another, and the framebuffer    *)
(* covers them all as long as only the host sizes it: otherwise every grab *)
(* of one fails.                                                           *)
ScreensApart ==
    /\ \A m, n \in DOMAIN active_ : m # n =>
          active_[m].x + active_[m].w <= active_[n].x \/ active_[n].x + active_[n].w <= active_[m].x
    /\ X11 /\ ~relaid => Edge(active_, 0) <= rootWidth

(* Between requests every screen the host has is in the list the clients   *)
(* were sent, if the monitors could be read for it.                        *)
NoHiddenScreen == op = "idle" /\ host = "up" /\ probed => Active \subseteq told
=============================================================================
