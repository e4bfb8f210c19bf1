----------------------------- MODULE MainScreen -----------------------------
(* How each back end darkens the PC's main screen (set_primary_off):         *)
(*   x11      the gamma ramps of its CRTCs (host/src/capture/x11_capture.cpp)*)
(*   mutter   the same, asked of GNOME, and the panel's backlight            *)
(*            (host/src/capture/mutter_virtual.cpp)                          *)
(*   windows  a black window over it (host/src/driver/idd_manager.cpp)       *)
(*                                                                           *)
(* Of a ramp only its being all zero matters, of a backlight its being at    *)
(* the minimum.  A monitor has one CRTC here.  The calls to GNOME are made   *)
(* one after the other: the monitors can change in between, which makes what *)
(* GetResources said stale and puts GNOME's own ramps back.                  *)
EXTENDS VirtualDisplayManager

CONSTANTS Crtcs, Panel

ASSUME MainScreenAssumption == Panel \in Crtcs /\ None \notin Crtcs /\ None \notin {"own", "zero"}

VARIABLES
    primary,         \* the CRTC of the main monitor
    ramp,            \* per CRTC: "own" or "zero"
    backlight,       \* of the panel: "own" or "min"
    curtain,         \* the black window is up
    saved_gamma,     \* per CRTC: the ramp to put back, or None
    saved_backlight, \* "own", or None
    dark_,           \* mutter: the host darkened it
    resources,       \* GetResources, while a set_primary_off() uses it: "none",
                     \* "current", "stale", or "failed"
    lost             \* history: a call that should have lit the screen failed

desk == <<primary, ramp, backlight>>
kept == <<saved_gamma, saved_backlight, dark_, resources>>
screenVars == <<desk, kept, curtain, lost>>

AllOwn == [c \in Crtcs |-> "own"]
NoneSaved == [c \in Crtcs |-> None]

InitScreen ==
    /\ primary = Panel /\ ramp = AllOwn /\ backlight = "own" /\ curtain = FALSE
    /\ saved_gamma = NoneSaved /\ saved_backlight = None /\ dark_ = FALSE
    /\ resources = "none" /\ lost = FALSE

TypeOKScreen ==
    /\ primary \in Crtcs /\ ramp \in [Crtcs -> {"own", "zero"}]
    /\ backlight \in {"own", "min"} /\ curtain \in BOOLEAN
    /\ saved_gamma \in [Crtcs -> {"own", "zero", None}] /\ saved_backlight \in {"own", None}
    /\ dark_ \in BOOLEAN /\ lost \in BOOLEAN
    /\ resources \in {"none", "current", "stale", "failed"}

(***************************************************************************)
(* X11                                                                     *)
(***************************************************************************)
(* A server may have no ramp to give for the CRTC.                         *)
X11Darken ==
    \/ /\ saved_gamma = NoneSaved
       /\ ramp' = [ramp EXCEPT ![primary] = "zero"]
       /\ saved_gamma' = [saved_gamma EXCEPT ![primary] = ramp[primary]]
    \/ UNCHANGED <<ramp, saved_gamma>>

X11Light ==
    /\ ramp' = [c \in Crtcs |-> IF saved_gamma[c] = None THEN ramp[c] ELSE saved_gamma[c]]
    /\ saved_gamma' = NoneSaved

X11Set(off) ==
    /\ IF off THEN X11Darken ELSE X11Light
    /\ UNCHANGED <<primary, backlight, curtain, saved_backlight, dark_, resources, lost>>

X11IsOff == saved_gamma' # NoneSaved

(* relight_dark_crtcs(), at start-up.                                      *)
X11Relight == ramp' = AllOwn

(***************************************************************************)
(* GNOME                                                                   *)
(***************************************************************************)
(* Unless a call fails, which nothing rules out.                           *)
MutterAsk(off) ==
    /\ resources = "none" /\ (off \/ dark_)
    /\ resources' \in {"current", "failed"}
    /\ UNCHANGED <<desk, saved_gamma, saved_backlight, dark_, curtain, lost>>

Resave(c) == [saved_gamma EXCEPT ![c] = ramp[c]]   \* mutant: every renewal saves the ramp
Save(c) == IF saved_gamma[c] = None THEN [saved_gamma EXCEPT ![c] = ramp[c]] ELSE saved_gamma

(* GetCrtcGamma and SetCrtcGamma refuse stale resources.                   *)
CanGetGamma == resources = "current"
CanSetGamma == resources = "current"

(* The panel's backlight, where there is one: to its minimum.  What it was *)
(* is kept before it is known whether it could be set.                     *)
Dim ==
    \/ UNCHANGED <<backlight, saved_backlight>>
    \/ /\ primary = Panel /\ backlight = "own"
       /\ saved_backlight' = "own" /\ backlight' \in {"own", "min"}

MutterDarken ==
    /\ resources' = "none"
    /\ \/ UNCHANGED <<ramp, backlight, saved_gamma, saved_backlight, dark_>>
       \/ /\ CanGetGamma
          /\ saved_gamma' = Save(primary)
          /\ \/ UNCHANGED <<ramp, backlight, saved_backlight, dark_>>
             \/ /\ CanSetGamma
                /\ ramp' = [ramp EXCEPT ![primary] = "zero"] /\ dark_' = TRUE
                /\ Dim
    /\ UNCHANGED <<primary, curtain, lost>>

(* Failures are not looked at; what was saved is dropped all the same.     *)
MutterLight ==
    /\ dark_' = FALSE /\ resources' = "none"
    /\ saved_gamma' = NoneSaved /\ saved_backlight' = None
    /\ \E gammaSet, backlightSet \in BOOLEAN :
          /\ gammaSet => CanSetGamma
          /\ ramp' = [c \in Crtcs |-> IF gammaSet /\ saved_gamma[c] # None THEN saved_gamma[c] ELSE ramp[c]]
          /\ backlight' = IF backlightSet /\ saved_backlight # None THEN saved_backlight ELSE backlight
          /\ lost' = (lost \/ ~backlightSet \/ (~gammaSet /\ resources # "stale"))
    /\ UNCHANGED <<primary, curtain>>

MutterSet(off) == IF off THEN MutterDarken ELSE MutterLight

(* The constructor.                                                        *)
MutterRelight ==
    \/ ramp[primary] = "own" /\ UNCHANGED <<ramp, backlight, lost>>
    \/ /\ ramp[primary] = "zero" /\ UNCHANGED lost
       /\ ramp' = [ramp EXCEPT ![primary] = "own"]
       /\ backlight' = IF primary = Panel THEN "own" ELSE backlight
    \/ lost' = TRUE /\ UNCHANGED <<ramp, backlight>>

(* Monitors plugged, unplugged, rearranged, virtual ones added or removed. *)
MonitorsChange(p) ==
    /\ primary' = p /\ ramp' = AllOwn
    /\ resources' = IF resources = "current" THEN "stale" ELSE resources
    /\ UNCHANGED <<backlight, saved_gamma, saved_backlight, dark_, curtain, lost>>

(***************************************************************************)
(* Windows                                                                 *)
(***************************************************************************)
(* The curtain's thread may not get its window up.                         *)
WindowsSet(off) ==
    /\ IF off THEN curtain' \in {curtain, TRUE} ELSE curtain' = FALSE
    /\ UNCHANGED <<desk, kept, lost>>

(***************************************************************************)
(* The end of the host's process                                           *)
(***************************************************************************)
ForgetScreen ==
    /\ saved_gamma' = NoneSaved /\ saved_backlight' = None /\ dark_' = FALSE
    /\ resources' = "none" /\ curtain' = FALSE
=============================================================================
