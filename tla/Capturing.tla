------------------------------ MODULE Capturing ------------------------------
(* The picture of one monitor as the stream worker gets it: MIT-SHM grabs on *)
(* X11 (capture/x11_capture.cpp, X11Capture) and Windows.Graphics.Capture    *)
(* (capture/wgc_capture.cpp), which hands over to DXGI Desktop Duplication   *)
(* (capture/dxgi_capture.cpp) where Windows lacks it. X11 is polled; the     *)
(* other two deliver a frame only when something changed.                    *)
EXTENDS Naturals

CONSTANT GrabLimit   \* failed X11 grabs before the capture stops (10)

ASSUME CaptureAssumption == GrabLimit \in Nat \ {0}

NoFrame == 0

VARIABLES
    source,     \* the capture in use: "x11" or "wgc"
    wgcWorks,   \* this Windows has Windows.Graphics.Capture
    plugged,    \* the monitor is there
    screen,     \* the picture on it: a number that grows with each change
    capturing,  \* capturing_ of the X11 or WGC capture
    fallback,   \* "none", or the DXGI fallback_: "on" or "off" (its capturing_)
    sized,      \* the capture was set up for the monitor's present mode
    cut,        \* X11: a part of rect_ lies outside the root window
    failures,   \* X11: failures_
    closed,     \* WGC: item_closed_
    pending     \* a frame waits: frame_pending_, or AcquireNextFrame returns

desktop == <<source, wgcWorks, plugged, screen>>
capture == <<capturing, fallback, sized, cut, failures, closed, pending>>

CapturingTypeOK ==
    /\ source \in {"x11", "wgc"} /\ wgcWorks \in BOOLEAN /\ plugged \in BOOLEAN
    /\ screen \in Nat /\ capturing \in BOOLEAN /\ fallback \in {"none", "on", "off"}
    /\ sized \in BOOLEAN /\ cut \in BOOLEAN /\ failures \in 0..GrabLimit
    /\ closed \in BOOLEAN /\ pending \in BOOLEAN

InitCapturing ==
    /\ source \in {"x11", "wgc"}
    /\ wgcWorks \in (IF source = "x11" THEN {FALSE} ELSE BOOLEAN)
    /\ plugged = TRUE /\ screen = 1
    /\ capturing = TRUE
    /\ fallback = IF source = "wgc" /\ ~wgcWorks THEN "on" ELSE "none"
    /\ sized = TRUE /\ cut = FALSE /\ failures = 0 /\ closed = FALSE /\ pending = TRUE

(***************************************************************************)
(* start_capture(): the monitor is looked up again, then everything is set *)
(* up from nothing. The first frame is the whole screen.                   *)
(***************************************************************************)
X11Start ==
    /\ source = "x11"
    /\ capturing' = plugged
    /\ IF plugged
       THEN sized' = TRUE /\ cut' = FALSE /\ failures' = 0
       ELSE UNCHANGED <<sized, cut, failures>>
    /\ UNCHANGED <<desktop, fallback, closed, pending>>

(* The DXGI capture's start_capture(), on the adapter that owns the monitor. *)
DxgiStarted == IF plugged THEN "on" ELSE "off"

FallBackToDxgi == fallback' = DxgiStarted

(* A monitor that is found is captured, by WGC or, where that does not      *)
(* start, by the fallback.                                                  *)
WgcStart ==
    /\ source = "wgc"
    /\ closed' = FALSE
    /\ capturing' = plugged
    /\ IF plugged /\ ~wgcWorks THEN FallBackToDxgi ELSE fallback' = "none"
    /\ IF plugged THEN sized' = TRUE /\ pending' = TRUE ELSE UNCHANGED <<sized, pending>>
    /\ UNCHANGED <<desktop, cut, failures>>

StartCapture == X11Start \/ WgcStart

(***************************************************************************)
(* acquire_frame(): the frame, or NoFrame after the timeout.               *)
(***************************************************************************)
X11Acquire(frame) ==
    /\ source = "x11" /\ capturing
    /\ IF ~cut
       THEN frame = screen /\ failures' = 0 /\ UNCHANGED capturing
       ELSE /\ frame = NoFrame
            /\ failures' = failures + 1
            /\ capturing' = (failures' < GrabLimit)
    /\ UNCHANGED <<desktop, fallback, sized, cut, closed, pending>>

WgcAcquire(frame) ==
    /\ source = "wgc" /\ capturing /\ fallback = "none"
    /\ IF closed \/ ~pending
       THEN frame = NoFrame /\ UNCHANGED <<pending, sized>>
       ELSE \* a frame of another size: the pool is resized, and delivers again
            /\ frame = IF sized THEN screen ELSE NoFrame
            /\ sized' = TRUE
            /\ pending' = ~sized
    /\ UNCHANGED <<desktop, capturing, fallback, cut, failures, closed>>

(* A lost duplication is set up again at once.                              *)
DxgiAcquire(frame) ==
    /\ source = "wgc" /\ capturing /\ fallback # "none"
    /\ IF fallback = "on" /\ (~plugged \/ ~sized)
       THEN /\ frame = NoFrame
            /\ fallback' = DxgiStarted
            /\ sized' = plugged /\ pending' = plugged
       ELSE /\ frame = IF fallback = "on" /\ pending THEN screen ELSE NoFrame
            /\ pending' = (pending /\ fallback = "off")
            /\ UNCHANGED <<fallback, sized>>
    /\ UNCHANGED <<desktop, capturing, cut, failures, closed>>

NotCapturing(frame) ==
    /\ ~capturing
    /\ frame = NoFrame
    /\ UNCHANGED <<desktop, capture>>

AcquireFrame(frame) ==
    \/ X11Acquire(frame)
    \/ WgcAcquire(frame)
    \/ DxgiAcquire(frame)
    \/ NotCapturing(frame)

IsCapturing == capturing /\ ~closed

(* The fallback lost its monitor and nobody starts it again.                *)
Frozen == fallback = "off"

(***************************************************************************)
(* The desktop, and the callbacks by which Windows tells of it             *)
(***************************************************************************)
FrameArrived == pending' = TRUE

ItemClosed == closed' = (closed \/ (source = "wgc" /\ capturing /\ fallback = "none"))

ScreenChanges ==
    /\ plugged
    /\ screen' = screen + 1
    /\ FrameArrived
    /\ UNCHANGED <<source, wgcWorks, plugged, capturing, fallback, sized, cut, failures, closed>>

(* X11: the monitors moved, and rect_ may now reach out of the root.        *)
Cuts == IF source = "x11" THEN BOOLEAN ELSE {FALSE}

(* Another resolution or place.                                             *)
ModeChanges ==
    /\ plugged
    /\ screen' = screen + 1
    /\ FrameArrived
    /\ sized' = FALSE
    /\ cut' \in Cuts
    /\ UNCHANGED <<source, wgcWorks, plugged, capturing, fallback, failures, closed>>

Unplugged ==
    /\ plugged
    /\ plugged' = FALSE
    /\ ItemClosed
    /\ cut' \in Cuts
    /\ UNCHANGED <<source, wgcWorks, screen, capturing, fallback, sized, failures, pending>>

Replugged ==
    /\ ~plugged
    /\ plugged' = TRUE
    /\ screen' = screen + 1
    /\ sized' = FALSE
    /\ cut' \in Cuts
    /\ FrameArrived
    /\ UNCHANGED <<source, wgcWorks, capturing, fallback, failures, closed>>
===============================================================================
