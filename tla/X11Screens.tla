----------------------------- MODULE X11Screens -----------------------------
(* Virtual screens on X11 (host/src/capture/x11_capture.cpp,                 *)
(* X11VirtualDisplayManager): RandR monitors in framebuffer space right of   *)
(* every other, which the host makes by growing the screen.                  *)
(*                                                                           *)
(* Only the horizontal direction is kept.  DisplayWidth() is read from       *)
(* Xlib's own copy, which nothing in the host refreshes: it stays what it    *)
(* was when the connection was made, and equal to base_w_.                   *)
EXTENDS VirtualDisplayManager, Functions, FiniteSetsExt

CONSTANTS
    Widths,      \* of virtual screens
    Layouts,     \* widths of the physical monitors' area
    MaxWidth     \* the server's largest screen

ASSUME X11Assumption ==
    /\ Widths \subseteq Nat \ {0} /\ Layouts \subseteq Nat \ {0} /\ MaxWidth \in Nat

VARIABLES
    physical,    \* the right edge of the physical monitors
    rootWidth,   \* the server's screen
    monitors,    \* its monitors named IM2-VIRTUAL-<n>: slot -> [x, w]
    base_w_,
    active_,     \* the host's: slot -> [x, w]
    relaid       \* history: the desktop set the screen's size since the host did

x11Vars == <<physical, rootWidth, monitors, base_w_, active_, relaid>>

Edge(ms, least) == Max({least} \cup {ms[n].x + ms[n].w : n \in DOMAIN ms})
Without(f, n) == Restrict(f, DOMAIN f \ {n})
With(f, n, v) == [k \in DOMAIN f \cup {n} |-> IF k = n THEN v ELSE f[k]]
NoScreens == [n \in {} |-> 0]

InitX11 ==
    /\ physical \in Layouts /\ rootWidth = physical /\ monitors = NoScreens
    /\ base_w_ = 0 /\ active_ = NoScreens /\ relaid = FALSE

(* fit_screen() for the screens in act.  The server refuses a size that    *)
(* its outputs do not fit in.                                              *)
Wanted(act) == Edge(act, base_w_)
Fits(act) == Wanted(act) = base_w_ \/ Wanted(act) \in physical..MaxWidth
Fit(act) ==
    IF Wanted(act) # base_w_ /\ Fits(act)
    THEN rootWidth' = Wanted(act) /\ relaid' = FALSE
    ELSE UNCHANGED <<rootWidth, relaid>>

RemoveLeftovers == NoScreens

(* The constructor: the width is read before the leftovers are removed.    *)
X11Start ==
    /\ base_w_' = rootWidth
    /\ monitors' = RemoveLeftovers
    /\ relaid' = FALSE
    /\ UNCHANGED <<physical, rootWidth, active_>>

AtBase == base_w_   \* mutant: every screen goes where the desktop ended at start-up
RightOfAll == Edge(monitors, physical)

(* create_display() in slot n.  It may not fit; then, or when no monitor    *)
(* comes of it, the screen is fitted to the others again.                  *)
X11Create(w, n) ==
    /\ LET r == [x |-> RightOfAll, w |-> w]
           act == With(active_, n, r)
       IN  \/ /\ Fits(act) /\ Fit(act)
              /\ active_' = act /\ monitors' = With(monitors, n, r)
           \/ /\ IF Fits(act) /\ Wanted(active_) = base_w_ THEN Fit(act) ELSE Fit(active_)
              /\ UNCHANGED <<active_, monitors>>
    /\ UNCHANGED <<physical, base_w_>>

DeleteMonitor(n) == monitors' = Without(monitors, n)

X11Remove(n) ==
    /\ n \in DOMAIN active_
    /\ active_' = Without(active_, n)
    /\ DeleteMonitor(n)
    /\ Fit(Without(active_, n))
    /\ UNCHANGED <<physical, base_w_>>

X11Killed == active_' = NoScreens /\ UNCHANGED <<physical, rootWidth, monitors, base_w_, relaid>>

(* Someone rearranges the monitors: the screen is made to fit those.       *)
Relayout(p) ==
    /\ physical' = p /\ rootWidth' \in {p, Max({p, rootWidth})} /\ relaid' = TRUE
    /\ UNCHANGED <<monitors, base_w_, active_>>

(* While the screens need more than the desktop had, no more than they need. *)
GrownAsNeeded ==
    ~relaid /\ physical <= base_w_ /\ Wanted(active_) > base_w_ => rootWidth = Wanted(active_)
=============================================================================
